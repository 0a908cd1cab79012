------------------------------ MODULE Pipeline ------------------------------
(***************************************************************************)
(* One run of the tgnews process: main (tgnews.cpp) globs the HTML files   *)
(* of a folder, loads them, and, by task, recognises languages, generates  *)
(* features, detects news, groups them and prints the result.              *)
(*                                                                         *)
(* The four parallel stages are calls of ParallelMap, which ForkJoin       *)
(* implements: the stage's task body is applied to the slots of a vector   *)
(* in any order.  Main's sequential work before the threads start, and     *)
(* after they have been joined, is part of the call and of the return.     *)
(*                                                                         *)
(* A document is abstracted to the directory entry it was read from and    *)
(* the language written into its meta data; its text, title, url and site  *)
(* are those of the entry.  Entry 0 stands for a default-constructed or    *)
(* moved-from object, whose strings are all empty.                         *)
(***************************************************************************)
EXTENDS Integers, Sequences, FiniteSets, SequencesExt, Selection

CONSTANTS
  Tasks,          \* the values argv[1] may take
  Corpora,        \* folders: the directory entries in the order of iteration
  SiteLists,      \* list name -> the sites in meta/site_<list>_lang.txt
  Categories,     \* the category names of GetCategories
  GarbledTitles,  \* the titles that are not valid UTF-8
  SizeT           \* number of values of size_t; 2^64 in the build

\* What the entries of a folder are: whether the iterator gets to it and its
\* status can be read, the length of the path, whether it names a regular file,
\* ends in ".html", can be opened and is valid UTF-8, the language of the text,
\* the parts of the url that say "news", and what the models make of the text.
\* A folder that is missing has one entry, which is not reached.
ASSUME CorporaAssumption ==
  \A c \in Corpora :
    /\ Len(c) \in Nat /\ DOMAIN c = 1 .. Len(c)
    /\ \A e \in DOMAIN c :
         /\ c[e].size \in Nat
         /\ c[e].reached \in BOOLEAN /\ c[e].utf8 \in BOOLEAN
         /\ c[e].regular \in BOOLEAN /\ c[e].html \in BOOLEAN /\ c[e].readable \in BOOLEAN
         /\ c[e].url \subseteq {"host", "path"}
         /\ c[e].likely \in BOOLEAN /\ c[e].known \in BOOLEAN

\* No path is as long as the address space.
ASSUME SizeTAssumption ==
  SizeT \in Nat /\ \A c \in Corpora : \A e \in DOMAIN c : c[e].size + 5 < SizeT

VARIABLES
  task, corpus,                 \* argv
  at,                           \* position of main in Program
  status, n, applied,           \* the parallel stage under way: see ParallelMap
  files,                        \* html_files
  docs,                         \* main's vector of HTMLDocument
  ruen,                         \* the vector RecognizeLanguage returns
  feats,                        \* main's vector of DocFeatures
  news,                         \* the vector DetectNews returns
  groups,                       \* categories or threads: name -> DocFeatures
  out,                          \* what has been written
  reason                        \* why the process was terminated

stageVars == <<status, n, applied>>
dataVars == <<files, docs, ruen, feats, news, groups, out>>
vars == <<task, corpus, at, stageVars, dataVars, reason>>

P == INSTANCE ParallelMap WITH Sizes <- Nat

-----------------------------------------------------------------------------
\* What main calls for each task, in order.  A task it does not know is run
\* up to LoadDocs and exits with status 0.
Program ==
  IF task = "languages" THEN <<"glob", "load", "recognize", "print">>
  ELSE IF task \in {"categories", "top"}
  THEN <<"glob", "load", "recognize", "features", "detect", "categories", "print">>
  ELSE IF task = "threads"
  THEN <<"glob", "load", "recognize", "features", "detect", "threads", "print">>
  ELSE IF task \in {"news", "news_test", "dump"}
  THEN <<"glob", "load", "recognize", "features", "detect", "print">>
  ELSE IF task = "features" THEN <<"glob", "load", "recognize", "features">>
  ELSE <<"glob", "load">>

Exited == at > Len(Program)
Terminated == status = "terminated"
Stage == IF Exited THEN "exit" ELSE Program[at]

\* The tasks that go on with the vector RecognizeLanguage returns.  The other
\* ones drop it and go on with what is left in docs.
UsesReturned == task \in {"languages", "news", "categories", "threads", "top"}

\* Main is between two stages.
InMain == status \in {"idle", "returned"}

\* Main proceeds to its next call.
Advance == at' = at + 1 /\ UNCHANGED <<task, corpus, reason>>

Stay == UNCHANGED <<task, corpus, at, reason>>

\* std::terminate (no exception is caught anywhere) or a crash.
Abort(why) ==
  /\ status' = "terminated"
  /\ reason' = why
  /\ UNCHANGED <<task, corpus, at, n, applied, dataVars>>

-----------------------------------------------------------------------------
\* IsHTML: size() - 5 wraps around for a shorter path, and compare throws
\* std::out_of_range when its position is past the end.
SuffixPos(e) == (e.size - 5) % SizeT
IsHTMLThrows(e) == SuffixPos(e) > e.size
IsHTML(e) == e.html

\* What an entry makes GlobHTML throw: fs::filesystem_error of the iterator,
\* which cannot open the folder or a directory below it, or of
\* fs::is_regular_file, or the exception of IsHTML.
EntryError(e) ==
  IF ~ e.reached THEN "filesystem"
  ELSE IF e.regular /\ IsHTMLThrows(e) THEN "short_path"
  ELSE "none"

GlobThrows == \E i \in DOMAIN corpus : EntryError(corpus[i]) # "none"

\* The first entry with an error decides.
FirstError(why) ==
  \E i \in DOMAIN corpus :
    /\ EntryError(corpus[i]) = why
    /\ \A j \in 1 .. (i - 1) : EntryError(corpus[j]) = "none"

\* fs::is_regular_file and IsHTML on every entry below the input folder.
GlobHTML ==
  /\ Stage = "glob" /\ InMain
  /\ ~ GlobThrows
  /\ files' = InOrder({i \in DOMAIN corpus : corpus[i].regular /\ IsHTML(corpus[i])})
  /\ Advance
  /\ UNCHANGED <<stageVars, docs, ruen, feats, news, groups, out>>

-----------------------------------------------------------------------------
\* HTMLDocument(): what a vector of documents is filled with, and what the
\* move constructor leaves behind (it swaps with a default-constructed one).
EmptyDocument == [file |-> 0, lang |-> ""]

\* Mutant: a document is named after its neighbour.
HTMLDocumentOffByOne(f) == [file |-> f + 1, lang |-> ""]

\* HTMLDocument(file_path).  An HTML meta property called "lang" is not
\* modelled: RecogTask overwrites it before anything reads it.
HTMLDocument(f) == [file |-> f, lang |-> ""]

\* A file that cannot be opened: ReadDocument takes -1 for its size, and
\* allocating that much throws in the thread.
ReadThrows(f) == ~ corpus[f].readable

LoadDocs ==
  /\ Stage = "load"
  /\ P!Call(Len(files))
  /\ docs' = [i \in DOMAIN files |-> EmptyDocument]
  /\ Stay /\ UNCHANGED <<files, ruen, feats, news, groups, out>>

\* Mutant: the loop of the thread does not advance.
LoadDocsTaskInPlace(k) ==
  /\ Stage = "load" /\ status = "running"
  /\ applied[k] = 0
  /\ UNCHANGED vars

LoadDocsTask(k) ==
  /\ Stage = "load"
  /\ P!Apply(k)
  /\ ~ ReadThrows(files[k + 1])
  /\ docs' = [docs EXCEPT ![k + 1] = HTMLDocument(files[k + 1])]
  /\ Stay /\ UNCHANGED <<files, ruen, feats, news, groups, out>>

LoadDocsReturn ==
  /\ Stage = "load"
  /\ P!Return
  /\ Advance /\ UNCHANGED dataVars

-----------------------------------------------------------------------------
\* GetUrl2Lang reads the lists in this order, and emplace keeps the first
\* language of a site.
ListOrder == <<"ru", "en", "other">>

Listed(site) == {l \in DOMAIN ListOrder : site \in SiteLists[ListOrder[l]]}

\* Mutant: a later list overwrites the language of a site.
Url2LangLast(site) == ListOrder[CHOOSE l \in Listed(site) : \A m \in Listed(site) : l >= m]

Url2Lang(site) == ListOrder[CHOOSE l \in Listed(site) : \A m \in Listed(site) : l <= m]

RecognizeLanguage ==
  /\ Stage = "recognize"
  /\ P!Call(Len(docs))
  /\ Stay /\ UNCHANGED dataVars

\* The language of the site if the lists have it, else of the text.
RecogLang(doc) ==
  LET e == corpus[doc.file]
  IN  IF Listed(e.site) # {} THEN Url2Lang(e.site) ELSE e.textLang

RecogTask(k) ==
  /\ Stage = "recognize"
  /\ P!Apply(k)
  /\ docs' = [docs EXCEPT ![k + 1].lang = RecogLang(docs[k + 1])]
  /\ Stay /\ UNCHANGED <<files, ruen, feats, news, groups, out>>

RuEn(doc) == doc.lang \in {"ru", "en"}

\* Mutant: the documents are copied.
LeftBehindCopied(doc) == doc

\* What the move constructor leaves of a document.
LeftBehind(doc) == EmptyDocument

\* The documents in Russian and English are moved out of the caller's vector
\* into the returned one, which some tasks drop.
RecognizeLanguageReturn ==
  /\ Stage = "recognize"
  /\ P!Return
  /\ ruen' = IF UsesReturned THEN Picked(docs, {i \in DOMAIN docs : RuEn(docs[i])}) ELSE << >>
  /\ docs' = [i \in DOMAIN docs |-> IF RuEn(docs[i]) THEN LeftBehind(docs[i]) ELSE docs[i]]
  /\ Advance /\ UNCHANGED <<files, feats, news, groups, out>>

-----------------------------------------------------------------------------
\* DocFeatures(): no bags of words, is_news_ false, score 0.
EmptyFeatures ==
  [file |-> 0, lang |-> "", bows |-> FALSE, isNews |-> FALSE, score |-> "zero"]

\* The documents main passes to GenerateFeatures.
FeatureDocs == IF UsesReturned THEN ruen ELSE docs

GenerateFeatures ==
  /\ Stage = "features"
  /\ P!Call(Len(FeatureDocs))
  /\ feats' = [i \in DOMAIN FeatureDocs |-> EmptyFeatures]
  /\ Stay /\ UNCHANGED <<files, docs, ruen, news, groups, out>>

\* Mutant: no bags of words for English.
HasBowsRu(doc) == doc.lang = "ru"

\* The test of the language in GenerateFeaturesTask.
HasBows(doc) == doc.lang \in {"ru", "en"}

\* The features f once the bags of words of doc and its meta data are in them.
FeaturesOf(doc, f) ==
  [file |-> doc.file, lang |-> doc.lang, bows |-> HasBows(doc),
   isNews |-> f.isNews, score |-> f.score]

GenerateFeaturesTask(k) ==
  /\ Stage = "features"
  /\ P!Apply(k)
  /\ feats' = [feats EXCEPT ![k + 1] = FeaturesOf(FeatureDocs[k + 1], feats[k + 1])]
  /\ Stay /\ UNCHANGED <<files, docs, ruen, news, groups, out>>

GenerateFeaturesReturn ==
  /\ Stage = "features"
  /\ P!Return
  /\ Advance /\ UNCHANGED dataVars

-----------------------------------------------------------------------------
DetectNews ==
  /\ Stage = "detect"
  /\ P!Call(Len(feats))
  /\ Stay /\ UNCHANGED dataVars

\* The url of an entry is the set of its parts that contain "news" or
\* "novosti"; the host is cut off before the search.
UrlSaysNews(f) == f.file # 0 /\ corpus[f.file].url \ {"host"} # {}

\* GenerateNewsDetFeatures: the logistic regression needs the bag of words
\* "text:feats" that GenerateFeatures made, and bows_.at throws without it.
InferThrows(f) == ~ UrlSaysNews(f) /\ RuEn(f) /\ ~ f.bows

\* The features f with these flags.
Flag(f, score, isNews) ==
  [file |-> f.file, lang |-> f.lang, bows |-> f.bows, isNews |-> isNews, score |-> score]

Detected(f) ==
  IF UrlSaysNews(f) THEN Flag(f, "one", TRUE)
  ELSE IF RuEn(f) THEN Flag(f, "model", corpus[f.file].likely)
  ELSE f

DetectNewsTask(k) ==
  /\ Stage = "detect"
  /\ P!Apply(k)
  /\ ~ InferThrows(feats[k + 1])
  /\ feats' = [feats EXCEPT ![k + 1] = Detected(feats[k + 1])]
  /\ Stay /\ UNCHANGED <<files, docs, ruen, news, groups, out>>

\* Mutant: moving resets the flags too.
MovedFromReset(f) == EmptyFeatures

\* The news are moved out; the moved-from features keep is_news_ and score.
MovedFrom(f) == Flag(EmptyFeatures, f.score, f.isNews)

DetectNewsReturn ==
  /\ Stage = "detect"
  /\ P!Return
  /\ news' = Picked(feats, {i \in DOMAIN feats : feats[i].isNews})
  /\ feats' = [i \in DOMAIN feats |-> IF feats[i].isNews THEN MovedFrom(feats[i]) ELSE feats[i]]
  /\ Advance /\ UNCHANGED <<files, docs, ruen, groups, out>>

-----------------------------------------------------------------------------
\* lang2docs: only the languages of some news article have an entry.
Lang2Docs(lang) == Picked(news, {i \in DOMAIN news : news[i].lang = lang})

\* ARTM::AddCategories: a document is added to each category whose weight is
\* above 0.3, which may be none.
AddCategories(lang, c) ==
  LET batch == Lang2Docs(lang)
  IN  Picked(batch, {i \in DOMAIN batch : c \in corpus[batch[i].file].topics})

\* lang2docs.at(lang) throws for a language without news, and Transform for
\* news without a lemma that the topic model knows: see Artm.
CategoriesThrow ==
  \E lang \in {"ru", "en"} : \A i \in DOMAIN Lang2Docs(lang) :
    ~ corpus[Lang2Docs(lang)[i].file].known

GetCategories ==
  /\ Stage = "categories" /\ InMain
  /\ ~ CategoriesThrow
  /\ groups' = [c \in Categories |-> AddCategories("ru", c) \o AddCategories("en", c)]
  /\ Advance /\ UNCHANGED <<stageVars, files, docs, ruen, feats, news, out>>

Title(f) == corpus[f.file].title

\* Each assignment replaces the thread of the title.
Thread(t) == << news[LastOf({i \in DOMAIN news : Title(news[i]) = t})] >>

GetThreads ==
  /\ Stage = "threads" /\ InMain
  /\ groups' = [t \in {Title(news[i]) : i \in DOMAIN news} |-> Thread(t)]
  /\ Advance /\ UNCHANGED <<stageVars, files, docs, ruen, feats, news, out>>

-----------------------------------------------------------------------------
Paths(s) == [i \in DOMAIN s |-> s[i].file]

\* The folder is cut off with substr, which throws for a name shorter than
\* the folder's, as an empty one is.
SubstrThrows(s) == \E i \in DOMAIN s : s[i].file = 0

DumpLanguage ==
  [lang \in {"ru", "en"} |-> Paths(Picked(ruen, {i \in DOMAIN ruen : ruen[i].lang = lang}))]

DumpNewsDet == Paths(Picked(news, {i \in DOMAIN news : news[i].isNews}))

\* DumpNewsCat and DumpNewsThreads.
DumpGroups == [g \in DOMAIN groups |-> Paths(groups[g])]

\* The scores of the Russian documents, by full path; a later assignment
\* replaces an earlier one.
DumpNewsDetTest ==
  LET ru == {i \in DOMAIN news : news[i].lang = "ru"}
  IN  [f \in {news[i].file : i \in ru} |-> news[LastOf({i \in ru : news[i].file = f})].score]

\* A row per document of main's vector, with the flags of the features at the
\* same index.
MakeTsv ==
  [i \in DOMAIN docs |->
     [file |-> docs[i].file, lang |-> docs[i].lang,
      isNews |-> feats[i].isNews, score |-> feats[i].score]]

\* Mutant: the table of a single document is taken to be empty.
TsvCrashesOne == task = "dump" /\ Len(docs) <= 1

\* MakeTsv writes the last row outside its loop: without documents it reads
\* back() of empty vectors.
TsvCrashes == task = "dump" /\ docs = << >>

DumpThrows ==
  \/ task = "languages" /\ SubstrThrows(ruen)
  \/ task = "news" /\ SubstrThrows(news)
  \/ task \in {"categories", "threads"} /\ \E g \in DOMAIN groups : SubstrThrows(groups[g])

Garbled(s) == \E i \in DOMAIN s : s[i].file # 0 /\ ~ corpus[s[i].file].utf8

\* A string that is not valid UTF-8 makes the JSON serializer throw while it
\* writes.  What it has written by then is left out.  The table of dump is
\* written as it is, and the names of the categories are ASCII.
PrintThrows ==
  \/ task = "languages" /\ Garbled(ruen)
  \/ task = "news" /\ Garbled(news)
  \/ task \in {"categories", "threads"} /\ \E g \in DOMAIN groups : Garbled(groups[g])
  \/ task = "threads" /\ \E g \in DOMAIN groups : g \in GarbledTitles
  \/ task = "news_test" /\ Garbled(Lang2Docs("ru"))

\* What each task writes; top writes nothing of its groups.
Output(written) ==
  \/ task = "languages" /\ written = DumpLanguage
  \/ task = "news" /\ written = DumpNewsDet
  \/ task \in {"categories", "threads"} /\ written = DumpGroups
  \/ task = "top" /\ written = << >>
  \/ task = "news_test" /\ written = DumpNewsDetTest
  \/ task = "dump" /\ written = MakeTsv

PrintResult ==
  /\ Stage = "print" /\ InMain
  /\ ~ DumpThrows /\ ~ PrintThrows /\ ~ TsvCrashes
  /\ Output(out')
  /\ Advance /\ UNCHANGED <<stageVars, files, docs, ruen, feats, news, groups>>

-----------------------------------------------------------------------------
\* An exception leaves main.
MainThrows ==
  /\ InMain
  /\ \E why \in {"filesystem", "short_path", "no_news", "bad_substr", "bad_utf8", "empty_tsv"} :
       /\ \/ Stage = "glob" /\ FirstError(why)
          \/ why = "no_news" /\ Stage = "categories" /\ CategoriesThrow
          \/ why = "bad_substr" /\ Stage = "print" /\ DumpThrows
          \/ why = "bad_utf8" /\ Stage = "print" /\ ~ DumpThrows /\ PrintThrows
          \/ why = "empty_tsv" /\ Stage = "print" /\ TsvCrashes
       /\ Abort(why)

\* An exception leaves the thread that is at slot k.
TaskThrows(k) ==
  /\ status = "running"
  /\ applied[k] = 0
  /\ \E why \in {"unreadable", "no_bows"} :
       /\ \/ why = "unreadable" /\ Stage = "load" /\ ReadThrows(files[k + 1])
          \/ why = "no_bows" /\ Stage = "detect" /\ InferThrows(feats[k + 1])
       /\ Abort(why)

\* A thread cannot be created: of a stage, while some slot still waits for one,
\* or of a processor of GetCategories (see Artm).
SpawnFails ==
  /\ \/ status = "running" /\ \E k \in P!Slots : applied[k] = 0
     \/ Stage = "categories" /\ InMain
  /\ Abort("no_thread")

Stopped == (Exited \/ Terminated) /\ UNCHANGED vars

Init ==
  /\ task \in Tasks
  /\ corpus \in Corpora
  /\ at = 1
  /\ P!Init
  /\ files = << >> /\ docs = << >> /\ ruen = << >>
  /\ feats = << >> /\ news = << >> /\ groups = << >>
  /\ out = "nothing"
  /\ reason = "none"

Body(k) ==
  LoadDocsTask(k) \/ RecogTask(k) \/ GenerateFeaturesTask(k) \/ DetectNewsTask(k)

Main ==
  \/ GlobHTML
  \/ LoadDocs \/ LoadDocsReturn
  \/ RecognizeLanguage \/ RecognizeLanguageReturn
  \/ GenerateFeatures \/ GenerateFeaturesReturn
  \/ DetectNews \/ DetectNewsReturn
  \/ GetCategories \/ GetThreads
  \/ PrintResult
  \/ MainThrows

Run == Main \/ \E k \in P!Slots : Body(k) \/ TaskThrows(k)

Next == Run \/ SpawnFails \/ Stopped

Spec == Init /\ [][Next]_vars

\* The process is scheduled: a stage's threads run, and ForkJoin's liveness
\* gives the returns.
FairSpec == Spec /\ WF_vars(Run)

-----------------------------------------------------------------------------
\* What the result should be, from the folder alone.

HtmlFiles == {i \in DOMAIN corpus : corpus[i].regular /\ corpus[i].html}

RefLang(i) ==
  LET e == corpus[i]
  IN  IF e.site \in SiteLists["ru"] THEN "ru"
      ELSE IF e.site \in SiteLists["en"] THEN "en"
      ELSE IF e.site \in SiteLists["other"] THEN "other"
      ELSE e.textLang

InLang(lang) == {i \in HtmlFiles : RefLang(i) = lang}

NewsIn(lang) == {i \in InLang(lang) : "path" \in corpus[i].url \/ corpus[i].likely}

AllNews == NewsIn("ru") \cup NewsIn("en")

\* s lists the files of S, each once, in the order of the directory iteration.
Lists(s, S) ==
  /\ ToSet(s) = S
  /\ \A i, j \in DOMAIN s : i < j => s[i] < s[j]

\* s lists the files of S: the Russian ones first, each language in order.
ListsByLang(s, S) ==
  /\ ToSet(s) = S
  /\ \A i, j \in DOMAIN s : i < j =>
       \/ RefLang(s[i]) = RefLang(s[j]) /\ s[i] < s[j]
       \/ RefLang(s[i]) = "ru" /\ RefLang(s[j]) = "en"

\* The files whose paths the task prints as JSON: of the articles with the same
\* title, threads prints the last one.
Printed ==
  {i \in AllNews \cup InLang("ru") \cup InLang("en") :
     \/ task = "languages"
     \/ i \in AllNews /\ task = "news"
     \/ i \in AllNews /\ task = "categories" /\ corpus[i].topics \cap Categories # {}
     \/ /\ i \in AllNews /\ task = "threads"
        /\ \A j \in AllNews : corpus[j].title = corpus[i].title => j <= i}

\* What the task prints of file i is not valid UTF-8; threads prints the title.
Unprintable(i) ==
  ~ corpus[i].utf8 \/ (task = "threads" /\ corpus[i].title \in GarbledTitles)

\* No language yet, that of a list, or that of a text.
Languages == {"", "ru", "en", "other"} \cup {corpus[i].textLang : i \in DOMAIN corpus}

\* Type invariant.
TypeOK ==
  /\ task \in Tasks /\ corpus \in Corpora
  /\ at \in 1 .. Len(Program) + 1
  /\ status \in {"idle", "running", "returned", "terminated"}
  /\ n \in Nat /\ applied \in [0 .. (n - 1) -> {0, 1}]
  /\ files \in Seq(DOMAIN corpus)
  /\ \A v \in {docs, ruen} : \A i \in DOMAIN v :
       v[i].file \in {0} \cup DOMAIN corpus /\ v[i].lang \in Languages
  /\ \A v \in {feats, news} : \A i \in DOMAIN v :
       /\ v[i].file \in {0} \cup DOMAIN corpus /\ v[i].lang \in Languages
       /\ v[i].bows \in BOOLEAN /\ v[i].isNews \in BOOLEAN
       /\ v[i].score \in {"zero", "one", "model"}
  /\ (reason # "none") = Terminated

\* What the process prints for the tasks that production uses depends on the
\* folder only, whatever the order in which threads finish, although it has
\* been put together from slots filled and moved out of by four stages
\* (tgnews.cpp:22-48).  Threads keep the last article of each title
\* (news_threads.hpp:14); a category may list the Russian articles before the
\* English ones, and an article may be in several categories or none.
OutputCorrect ==
  Exited =>
    /\ task = "languages" => \A lang \in {"ru", "en"} : Lists(out[lang], InLang(lang))
    /\ task = "news" => Lists(out, AllNews)
    /\ task = "categories" =>
         \A c \in Categories : ListsByLang(out[c], {i \in AllNews : c \in corpus[i].topics})
    /\ task = "threads" =>
         out = [t \in {corpus[i].title : i \in AllNews} |->
                  << Max({i \in AllNews : corpus[i].title = t}) >>]
    /\ task = "top" => out = << >>

\* With its data files in place and memory enough, the process is only ever
\* terminated by the folder or by the system: a directory it cannot iterate
\* over, a path too short for IsHTML, a file it cannot open, a language for
\* GetCategories none of whose news has a lemma that the topic model knows, a
\* path or title it is to print that is not valid UTF-8, no document for
\* MakeTsv, or a thread it cannot create.
\* In particular the language tests of GenerateFeaturesTask and of
\* DetectNewsTask agree, so bows_.at never throws, and no dump meets a
\* moved-from document.  When one of the causes in the folder is there, the
\* process never exits normally.
StopsAsExplained ==
  LET unreached == \E i \in DOMAIN corpus : ~ corpus[i].reached
      short == \E i \in DOMAIN corpus : corpus[i].regular /\ corpus[i].size < 5
      unreadable == \E i \in HtmlFiles : ~ corpus[i].readable
      noNews == task \in {"categories", "top"} /\ \E lang \in {"ru", "en"} :
                  {i \in NewsIn(lang) : corpus[i].known} = {}
      garbled == \E i \in Printed : Unprintable(i)
      emptyTsv == task = "dump" /\ HtmlFiles = {}
  IN  /\ Terminated =>
           \/ reason = "filesystem" /\ unreached
           \/ reason = "short_path" /\ short
           \/ reason = "unreadable" /\ unreadable
           \/ reason = "no_news" /\ noNews
           \/ reason = "bad_utf8" /\ garbled
           \/ reason = "empty_tsv" /\ emptyTsv
           \/ reason = "no_thread"
      /\ Exited => ~ (unreached \/ short \/ unreadable \/ noNews \/ garbled \/ emptyTsv)

Held(v, f) == Cardinality({i \in DOMAIN v : v[i].file = f})

\* Moving documents (langrec.hpp:70-75) and features (news_det.hpp:74-79) from
\* vector to vector neither loses nor duplicates one: after LoadDocs every
\* file is in exactly one of docs and ruen, and from DetectNews on every
\* document of ruen is in exactly one of feats and news (production tasks; the
\* others drop what RecognizeLanguage returns).
OneOwner ==
  UsesReturned =>
    /\ at > 2 => \A f \in ToSet(files) : Held(docs, f) + Held(ruen, f) = 1
    /\ at > 4 /\ task # "languages" => \A i \in DOMAIN ruen :
         Held(feats, ruen[i].file) + Held(news, ruen[i].file) = 1

\* MakeTsv pairs documents and features by index (debug.hpp:28-30).  A row
\* that names a document has that document's flags; a row whose document was
\* moved out is never marked as news.
TsvRowsAligned ==
  Exited /\ task = "dump" =>
    /\ Len(out) = Len(files)
    /\ \A i \in DOMAIN out :
         IF out[i].file = 0 THEN ~ out[i].isNews
         ELSE /\ out[i].file = files[i]
              /\ out[i].lang = RefLang(files[i])
              /\ out[i].isNews = ("path" \in corpus[files[i]].url)

\* Every run comes to an end.
Ends == <>(Exited \/ Terminated)

\* utils/test.py:10-14 compares the scores that the task news_test prints with
\* tests/news_det/gt.json: each Russian news document has one.
NewsTestPrintsScores ==
  Exited /\ task = "news_test" => NewsIn("ru") \subseteq DOMAIN out

\* utils/split_langs.py:28-33 selects the Russian and the English rows of the
\* tables that the task dump writes: each such document has a row.
DumpHasRuEnRows ==
  Exited /\ task = "dump" =>
    \A i \in InLang("ru") \cup InLang("en") : \E r \in DOMAIN out : out[r].file = i
=============================================================================
