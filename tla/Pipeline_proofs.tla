--------------------------- MODULE Pipeline_proofs ---------------------------
(***************************************************************************)
(* Proofs about Pipeline, for every folder, list of sites and task.        *)
(*                                                                         *)
(* Each vector of main has, between two stages, one value that the folder  *)
(* determines; while a stage runs, a slot has the value of before or of    *)
(* after the stage, as its thread has been there or not.                   *)
(***************************************************************************)
EXTENDS Pipeline, Selection_proofs

-----------------------------------------------------------------------------
\* The values of main's vectors, from the folder alone.

\* html_files.
Found == InOrder(HtmlFiles)

\* The documents once their languages have been recognised.
Recognized == [i \in DOMAIN Found |-> [file |-> Found[i], lang |-> RefLang(Found[i])]]

RuEnAt == {i \in DOMAIN Found : RefLang(Found[i]) \in {"ru", "en"}}

\* What RecognizeLanguage leaves behind, and what it returns.
Left == [i \in DOMAIN Found |-> IF i \in RuEnAt THEN EmptyDocument ELSE Recognized[i]]

Kept == IF UsesReturned THEN Picked(Recognized, RuEnAt) ELSE << >>

\* What GenerateFeatures is called with.
Passed == IF UsesReturned THEN Kept ELSE Left

Generated == [i \in DOMAIN Passed |-> FeaturesOf(Passed[i], EmptyFeatures)]

Flagged == [i \in DOMAIN Passed |-> Detected(Generated[i])]

NewsAt == {i \in DOMAIN Passed : Flagged[i].isNews}

\* What DetectNews leaves behind, and what it returns.
LeftFeats == [i \in DOMAIN Passed |-> IF i \in NewsAt THEN MovedFrom(Flagged[i]) ELSE Flagged[i]]

News == Picked(Flagged, NewsAt)

-----------------------------------------------------------------------------
\* The tasks by the stages they have.
Groups == {"categories", "top", "threads"}
Detects == Groups \cup {"news", "news_test", "dump"}
Prints == Detects \cup {"languages"}
Recognizes == Prints \cup {"features"}

\* The slot of the vector of the current call that i indexes has been visited.
Visited(i) == status # "returned" /\ applied[i - 1] = 1

ControlInv ==
  /\ task \in Tasks /\ corpus \in Corpora
  /\ at \in 1 .. Len(Program) + 1
  /\ status \in {"idle", "running", "returned", "terminated"}
  /\ n \in Nat /\ applied \in [0 .. (n - 1) -> {0, 1}]
  /\ at = 1 => status \in {"idle", "terminated"}
  /\ at = 2 => status # "returned"
  /\ at > 2 => status # "idle"
  /\ Exited => status = "returned"
  /\ status = "running" => Stage \in {"load", "recognize", "features", "detect"}

FilesInv ==
  /\ at = 1 => files = << >>
  /\ at > 1 => files = Found /\ ~ GlobThrows

AllReadable == \A i \in DOMAIN Found : corpus[Found[i]].readable

\* The four stages under way, or about to start.
Loading ==
  /\ n = Len(Found)
  /\ docs = [i \in DOMAIN Found |-> IF Visited(i) THEN HTMLDocument(Found[i]) ELSE EmptyDocument]
  /\ \A i \in DOMAIN Found : Visited(i) => corpus[Found[i]].readable

Recognizing ==
  /\ status # "returned" => n = Len(Found)
  /\ docs = [i \in DOMAIN Found |-> IF Visited(i) THEN Recognized[i] ELSE HTMLDocument(Found[i])]

Generating ==
  /\ n = Len(Passed)
  /\ feats = [i \in DOMAIN Passed |-> IF Visited(i) THEN Generated[i] ELSE EmptyFeatures]

Detecting ==
  /\ status # "returned" => n = Len(Passed)
  /\ feats = [i \in DOMAIN Passed |-> IF Visited(i) THEN Flagged[i] ELSE Generated[i]]

DocsInv ==
  /\ at = 1 \/ status = "idle" => docs = << >>
  /\ at = 2 /\ status # "idle" => Loading
  /\ at > 2 => AllReadable
  /\ at = 3 => Recognizing
  /\ at > 3 => docs = Left

RuenInv == ruen = IF at > 3 THEN Kept ELSE << >>

FeatsInv ==
  /\ at <= 3 \/ task = "languages" => feats = << >>
  /\ at = 4 /\ task # "languages" => IF status = "returned" THEN feats = << >> ELSE Generating
  /\ at = 5 /\ task # "languages" => Detecting
  /\ at > 5 => feats = LeftFeats

NewsInv == news = IF at > 5 THEN News ELSE << >>

Categorized ==
  /\ ~ CategoriesThrow
  /\ groups = [c \in Categories |-> AddCategories("ru", c) \o AddCategories("en", c)]

Threaded == groups = [t \in {Title(news[i]) : i \in DOMAIN news} |-> Thread(t)]

GroupsInv ==
  /\ at <= 6 => groups = << >>
  /\ at > 6 /\ task \in {"categories", "top"} => Categorized
  /\ at > 6 /\ task = "threads" => Threaded

OutInv == Exited /\ task \in Prints => Output(out) /\ ~ DumpThrows /\ ~ PrintThrows /\ ~ TsvCrashes

\* Why the process was terminated: the condition of the code, which is still
\* true because nothing moves any more.
ReasonInv ==
  /\ (reason # "none") = Terminated
  /\ Terminated =>
       \/ reason = "filesystem" /\ at = 1 /\ FirstError("filesystem")
       \/ reason = "short_path" /\ at = 1 /\ FirstError("short_path")
       \/ reason = "unreadable" /\ at = 2 /\ ~ AllReadable
       \/ reason = "no_news" /\ at = 6 /\ task \in {"categories", "top"} /\ CategoriesThrow
       \/ reason = "bad_substr" /\ Stage = "print" /\ DumpThrows
       \/ reason = "bad_utf8" /\ Stage = "print" /\ PrintThrows
       \/ reason = "empty_tsv" /\ Stage = "print" /\ TsvCrashes
       \/ reason = "no_bows" /\ at = 5 /\ task \in Detects /\ \E i \in DOMAIN Passed : InferThrows(Generated[i])
       \/ reason = "no_thread"

IInv ==
  /\ ControlInv /\ FilesInv /\ DocsInv /\ RuenInv /\ FeatsInv /\ NewsInv
  /\ GroupsInv /\ OutInv /\ ReasonInv

-----------------------------------------------------------------------------
\* Where main is, by task.
LEMMA StageAt ==
  ASSUME at \in Nat \ {0}
  PROVE  /\ Stage = "glob" <=> at = 1
         /\ Stage = "load" <=> at = 2
         /\ Stage = "recognize" <=> at = 3 /\ task \in Recognizes
         /\ Stage = "features" <=> at = 4 /\ task \in Detects \cup {"features"}
         /\ Stage = "detect" <=> at = 5 /\ task \in Detects
         /\ Stage = "categories" <=> at = 6 /\ task \in {"categories", "top"}
         /\ Stage = "threads" <=> at = 6 /\ task = "threads"
         /\ Stage = "print" <=> \/ at = 4 /\ task = "languages"
                                \/ at = 6 /\ task \in {"news", "news_test", "dump"}
                                \/ at = 7 /\ task \in Groups
<1> USE DEF Stage, Exited, Program, Recognizes, Prints, Detects, Groups
<1>1. CASE task = "languages"
  BY <1>1
<1>2. CASE task \in {"categories", "top"}
  BY <1>2
<1>3. CASE task = "threads"
  BY <1>3
<1>4. CASE task \in {"news", "news_test", "dump"}
  BY <1>4
<1>5. CASE task = "features"
  BY <1>5
<1>6. CASE task \notin Recognizes
  BY <1>6
<1>7. QED
  BY <1>1, <1>2, <1>3, <1>4, <1>5, <1>6

\* How many stages each task has.
LEMMA Lengths ==
  Len(Program) = IF task = "languages" THEN 4 ELSE IF task \in Groups THEN 7
                 ELSE IF task \in Detects THEN 6 ELSE IF task = "features" THEN 4 ELSE 2
BY DEF Program, Groups, Detects

\* The files found, in order.
LEMMA FoundFiles ==
  ASSUME corpus \in Corpora
  PROVE  /\ Len(Found) \in Nat /\ DOMAIN Found = 1 .. Len(Found)
         /\ \A i \in DOMAIN Found : Found[i] \in HtmlFiles
         /\ \A i, j \in DOMAIN Found : i < j => Found[i] < Found[j]
         /\ \A f \in HtmlFiles : \E i \in DOMAIN Found : Found[i] = f
<1>1. Len(corpus) \in Nat /\ HtmlFiles \in SUBSET (1 .. Len(corpus))
  BY CorporaAssumption DEF HtmlFiles
<1>2. /\ Cardinality(HtmlFiles) \in Nat
      /\ Found \in [1 .. Cardinality(HtmlFiles) -> HtmlFiles]
      /\ \A a, b \in 1 .. Cardinality(HtmlFiles) : a < b => Found[a] < Found[b]
      /\ \A x \in HtmlFiles : \E a \in 1 .. Cardinality(HtmlFiles) : Found[a] = x
  <2>1. Enumerates(Found, HtmlFiles)
    BY <1>1, InOrderEnumerates DEF Found
  <2>2. QED
    BY <1>1, <2>1, Positions DEF Enumerates
<1>3. Len(Found) = Cardinality(HtmlFiles) /\ DOMAIN Found = 1 .. Len(Found)
  BY <1>2
<1>4. QED
  BY <1>2, <1>3

\* The vectors main may pass to GenerateFeatures.
LEMMA PassedDocs ==
  ASSUME corpus \in Corpora
  PROVE  /\ Len(Kept) \in Nat /\ DOMAIN Kept = 1 .. Len(Kept)
         /\ Len(Left) \in Nat /\ DOMAIN Left = 1 .. Len(Left) /\ Len(Left) = Len(Found)
         /\ Len(Passed) \in Nat /\ DOMAIN Passed = 1 .. Len(Passed)
<1>1. Len(Found) \in Nat /\ DOMAIN Found = 1 .. Len(Found)
  BY FoundFiles
<1>2. Len(Left) = Len(Found) /\ DOMAIN Left = 1 .. Len(Left)
  BY <1>1 DEF Left
<1>3. RuEnAt \in SUBSET (1 .. Len(Found))
  BY <1>1 DEF RuEnAt
<1>4. Len(Kept) \in Nat /\ DOMAIN Kept = 1 .. Len(Kept)
  <2>1. TakenInOrder(Picked(Recognized, RuEnAt), Recognized, RuEnAt, InOrder(RuEnAt))
    BY <1>1, <1>3, PickedIsInOrder
  <2>2. QED
    BY <2>1 DEF TakenInOrder, Kept
<1>5. QED
  BY <1>1, <1>2, <1>4 DEF Passed

\* What the folder determines does not change.
LEMMA Frame ==
  ASSUME UNCHANGED <<task, corpus>>
  PROVE  /\ HtmlFiles' = HtmlFiles /\ Found' = Found /\ Recognized' = Recognized
         /\ Left' = Left /\ Kept' = Kept /\ Passed' = Passed
         /\ Generated' = Generated /\ Flagged' = Flagged
         /\ LeftFeats' = LeftFeats /\ News' = News
         /\ Program' = Program /\ GlobThrows' = GlobThrows
         /\ FirstError("filesystem")' = FirstError("filesystem")
         /\ FirstError("short_path")' = FirstError("short_path")
<1>1. HtmlFiles' = HtmlFiles
  BY DEF HtmlFiles
<1>2. Found' = Found
  BY <1>1 DEF Found
<1>3. Recognized' = Recognized
  BY <1>2 DEF Recognized, RefLang
<1>4. RuEnAt' = RuEnAt
  BY <1>2 DEF RuEnAt, RefLang
<1>5. Left' = Left
  BY <1>2, <1>3, <1>4 DEF Left
<1>6. Kept' = Kept
  BY <1>3, <1>4 DEF Kept, UsesReturned
<1>7. Passed' = Passed
  BY <1>5, <1>6 DEF Passed, UsesReturned
<1>8. Generated' = Generated
  BY <1>7 DEF Generated
<1>9. Flagged' = Flagged
  BY <1>7, <1>8 DEF Flagged, Detected, UrlSaysNews
<1>10. NewsAt' = NewsAt
  BY <1>7, <1>9 DEF NewsAt
<1>11. LeftFeats' = LeftFeats
  BY <1>7, <1>9, <1>10 DEF LeftFeats
<1>12. News' = News
  BY <1>9, <1>10 DEF News
<1>13. Program' = Program
  BY DEF Program
<1>14. GlobThrows' = GlobThrows
  BY DEF GlobThrows
<1>15. /\ FirstError("filesystem")' = FirstError("filesystem")
       /\ FirstError("short_path")' = FirstError("short_path")
  BY DEF FirstError
<1>16. QED
  BY <1>1, <1>2, <1>3, <1>5, <1>6, <1>7, <1>8, <1>9, <1>11, <1>12, <1>13, <1>14, <1>15

-----------------------------------------------------------------------------
\* A step of a run that goes on: main is in the same place or the next one.
Goes ==
  /\ UNCHANGED <<task, corpus, reason>>
  /\ status # "terminated" /\ status' # "terminated"

\* Nothing but a cause of termination sets the reason.
LEMMA GoesReason ==
  ASSUME ReasonInv, Goes
  PROVE  ReasonInv'
BY DEF ReasonInv, Goes, Terminated

\* Main stays in a parallel stage, or starts one.
LEMMA GoesControl ==
  ASSUME ControlInv, Goes, Stage \in {"load", "recognize", "features", "detect"},
         UNCHANGED at, status' = "running",
         n' \in Nat, applied' \in [0 .. (n' - 1) -> {0, 1}]
  PROVE  ControlInv' /\ ~ Exited'
<1>1. Program' = Program
  BY Frame DEF Goes
<1>2. Stage' = Stage /\ Exited' = Exited
  BY <1>1 DEF Stage, Exited
<1>3. at \in Nat \ {0} /\ at # 1 /\ ~ Exited
  BY StageAt DEF ControlInv, Stage
<1>4. QED
  BY <1>1, <1>2, <1>3 DEF ControlInv, Goes

\* Main goes on after a parallel stage.
LEMMA ReturnControl ==
  ASSUME ControlInv, Goes, Stage \in {"load", "recognize", "features", "detect"},
         at' = at + 1, status' = "returned", UNCHANGED <<n, applied>>
  PROVE  ControlInv'
<1>1. Program' = Program /\ Len(Program) \in Nat
  BY Frame, Lengths DEF Goes
<1>2. at \in 2 .. Len(Program)
  BY StageAt, <1>1 DEF ControlInv, Stage, Exited
<1>3. QED
  BY <1>1, <1>2 DEF ControlInv, Goes

\* When a stage is called, no slot has been visited.
LEMMA SlotsCalled ==
  ASSUME NEW size \in Nat, status' = "running", n' = size,
         applied' = [k \in 0 .. (size - 1) |-> 0]
  PROVE  /\ n' \in Nat /\ applied' \in [0 .. (n' - 1) -> {0, 1}]
         /\ \A i \in 1 .. size : ~ Visited(i)'
BY DEF Visited

\* The body at slot k visits this slot only.
LEMMA SlotVisited ==
  ASSUME ControlInv, NEW k \in P!Slots, status = "running",
         applied' = [applied EXCEPT ![k] = 1], UNCHANGED <<status, n>>
  PROVE  /\ n' \in Nat /\ applied' \in [0 .. (n' - 1) -> {0, 1}]
         /\ k + 1 \in 1 .. n
         /\ \A i \in 1 .. n : Visited(i)' = (Visited(i) \/ i = k + 1)
<1>1. k \in 0 .. (n - 1) /\ n \in Nat /\ applied \in [0 .. (n - 1) -> {0, 1}]
  BY DEF ControlInv, P!Slots
<1>2. QED
  BY <1>1 DEF Visited

\* A stage returns when every slot has been visited.
LEMMA SlotsVisited ==
  ASSUME ControlInv, P!Return
  PROVE  /\ \A i \in 1 .. n : Visited(i)
         /\ \A i : ~ Visited(i)'
<1>1. \A i \in 1 .. n : i - 1 \in P!Slots
  BY DEF ControlInv, P!Slots
<1>2. QED
  BY <1>1 DEF P!Return, Visited

\* GlobHTML finds the HTML files, and no entry had an error.
LEMMA GlobHTMLStep ==
  ASSUME IInv, GlobHTML
  PROVE  IInv'
<1> USE DEF IInv
<1>1. /\ InMain /\ ~ GlobThrows /\ files' = Found /\ at' = at + 1
      /\ UNCHANGED <<task, corpus, reason, status, n, applied, docs, ruen, feats, news, groups, out>>
  BY DEF GlobHTML, Advance, stageVars, Found, HtmlFiles, IsHTML
<1>2. at = 1 /\ at \in Nat \ {0} /\ status = "idle"
  BY <1>1, StageAt DEF GlobHTML, ControlInv, InMain
<1>3. Goes
  BY <1>1, <1>2 DEF Goes
<1>4. Program' = Program /\ Found' = Found /\ GlobThrows' = GlobThrows
  BY <1>1, Frame
<1>5. Len(Program) >= 2 /\ Len(Program) \in Nat
  BY Lengths
<1>6. ~ Exited' /\ at' = 2
  BY <1>1, <1>2, <1>4, <1>5 DEF Exited
<1>7. ControlInv'
  BY <1>1, <1>2, <1>4, <1>5, <1>6 DEF ControlInv
<1>8. FilesInv'
  BY <1>1, <1>4, <1>6 DEF FilesInv
<1>9. DocsInv' /\ RuenInv' /\ FeatsInv' /\ NewsInv' /\ GroupsInv'
  BY <1>1, <1>2, <1>6 DEF DocsInv, RuenInv, FeatsInv, NewsInv, GroupsInv
<1>10. OutInv' /\ ReasonInv'
  BY <1>3, <1>6, GoesReason DEF OutInv
<1>11. QED
  BY <1>7, <1>8, <1>9, <1>10

\* LoadDocs starts with a vector of empty documents.
LEMMA LoadDocsStep ==
  ASSUME IInv, LoadDocs
  PROVE  IInv'
<1> USE DEF IInv
<1>1. /\ status \in {"idle", "returned"} /\ status' = "running" /\ n' = Len(files)
      /\ applied' = [k \in 0 .. (Len(files) - 1) |-> 0]
      /\ docs' = [i \in DOMAIN files |-> EmptyDocument]
      /\ UNCHANGED <<task, corpus, at, reason, files, ruen, feats, news, groups, out>>
  BY DEF LoadDocs, P!Call, Stay
<1>2. at = 2 /\ status = "idle"
  BY <1>1, StageAt DEF LoadDocs, ControlInv
<1>3. Goes
  BY <1>1, <1>2 DEF Goes
<1>4. Found' = Found /\ GlobThrows' = GlobThrows /\ files = Found /\ corpus \in Corpora
  BY <1>1, <1>2, Frame DEF FilesInv, ControlInv
<1>5. Len(Found) \in Nat /\ DOMAIN Found = 1 .. Len(Found)
  BY <1>4, FoundFiles
<1>6. ControlInv' /\ ~ Exited'
  BY <1>1, <1>3, <1>4, <1>5, GoesControl DEF LoadDocs
<1>7. FilesInv'
  BY <1>1, <1>4 DEF FilesInv
<1>8. \A i \in DOMAIN Found : ~ Visited(i)'
  BY <1>1, <1>4, <1>5 DEF Visited
<1>9. DocsInv'
  BY <1>1, <1>2, <1>4, <1>8 DEF DocsInv, Loading
<1>10. RuenInv' /\ FeatsInv' /\ NewsInv' /\ GroupsInv'
  BY <1>1, <1>2 DEF RuenInv, FeatsInv, NewsInv, GroupsInv
<1>11. OutInv' /\ ReasonInv'
  BY <1>3, <1>6, GoesReason DEF OutInv
<1>12. QED
  BY <1>6, <1>7, <1>9, <1>10, <1>11

\* LoadDocsTask fills its slot, from a file that can be read.
LEMMA LoadDocsTaskStep ==
  ASSUME IInv, NEW k \in P!Slots, LoadDocsTask(k)
  PROVE  IInv'
<1> USE DEF IInv
<1>1. /\ status = "running" /\ applied' = [applied EXCEPT ![k] = 1]
      /\ corpus[files[k + 1]].readable
      /\ docs' = [docs EXCEPT ![k + 1] = HTMLDocument(files[k + 1])]
      /\ UNCHANGED <<status, n, task, corpus, at, reason, files, ruen, feats, news, groups, out>>
  BY DEF LoadDocsTask, P!Apply, Stay, ReadThrows
<1>2. at = 2 /\ n \in Nat /\ applied \in [0 .. (n - 1) -> {0, 1}]
  BY StageAt DEF LoadDocsTask, ControlInv
<1>3. Goes
  BY <1>1, <1>2 DEF Goes
<1>4. Found' = Found /\ GlobThrows' = GlobThrows /\ files = Found /\ corpus \in Corpora
  BY <1>1, <1>2, Frame DEF FilesInv, ControlInv
<1>5. Len(Found) \in Nat /\ DOMAIN Found = 1 .. Len(Found) /\ n = Len(Found)
  BY <1>1, <1>2, <1>4, FoundFiles DEF DocsInv, Loading
<1>6. k \in 0 .. (n - 1) /\ k + 1 \in DOMAIN Found
  BY <1>2, <1>5 DEF P!Slots
<1>7. ControlInv' /\ ~ Exited'
  BY <1>1, <1>2, <1>3, <1>6, GoesControl DEF LoadDocsTask
<1>8. \A i \in DOMAIN Found : Visited(i)' = (Visited(i) \/ i = k + 1)
  BY <1>1, <1>2, <1>5, <1>6 DEF Visited
<1>9. DocsInv'
  <2>1. Loading
    BY <1>1, <1>2 DEF DocsInv
  <2>2. \A i \in DOMAIN Found : Visited(i)' => corpus[Found[i]].readable
    BY <1>1, <1>4, <1>8, <2>1 DEF Loading
  <2>3. docs' = [i \in DOMAIN Found |-> IF Visited(i)' THEN HTMLDocument(Found[i]) ELSE EmptyDocument]
    BY <1>1, <1>4, <1>6, <1>8, <2>1 DEF Loading
  <2>4. Loading'
    BY <1>1, <1>4, <1>5, <2>2, <2>3 DEF Loading
  <2>5. QED
    BY <1>1, <1>2, <2>4 DEF DocsInv
<1>10. FilesInv' /\ RuenInv' /\ FeatsInv' /\ NewsInv' /\ GroupsInv'
  BY <1>1, <1>2, <1>4 DEF FilesInv, RuenInv, FeatsInv, NewsInv, GroupsInv
<1>11. OutInv' /\ ReasonInv'
  BY <1>3, <1>7, GoesReason DEF OutInv
<1>12. QED
  BY <1>7, <1>9, <1>10, <1>11

\* When LoadDocs returns, every file has been read.
LEMMA LoadDocsReturnStep ==
  ASSUME IInv, LoadDocsReturn
  PROVE  IInv'
<1> USE DEF IInv
<1>1. /\ status = "running" /\ status' = "returned" /\ at' = at + 1
      /\ UNCHANGED <<n, applied, task, corpus, reason, files, docs, ruen, feats, news, groups, out>>
  BY DEF LoadDocsReturn, P!Return, Advance, dataVars
<1>2. at = 2
  BY StageAt DEF LoadDocsReturn, ControlInv
<1>3. Goes
  BY <1>1 DEF Goes
<1>4. Found' = Found /\ GlobThrows' = GlobThrows /\ corpus \in Corpora
  BY <1>1, Frame DEF ControlInv
<1>5. Len(Found) \in Nat /\ DOMAIN Found = 1 .. Len(Found)
  BY <1>4, FoundFiles
<1>6. ControlInv'
  BY <1>1, <1>3, ReturnControl DEF LoadDocsReturn
<1>7. Loading
  BY <1>1, <1>2 DEF DocsInv
<1>8. (\A i \in DOMAIN Found : Visited(i)) /\ \A i : ~ Visited(i)'
  BY <1>5, <1>7, SlotsVisited DEF LoadDocsReturn, Loading
<1>9. AllReadable' /\ Recognizing'
  BY <1>1, <1>4, <1>7, <1>8 DEF Loading, AllReadable, Recognizing
<1>10. DocsInv'
  BY <1>1, <1>2, <1>9 DEF DocsInv
<1>11. FilesInv' /\ RuenInv' /\ FeatsInv' /\ NewsInv' /\ GroupsInv'
  BY <1>1, <1>2, <1>4 DEF FilesInv, RuenInv, FeatsInv, NewsInv, GroupsInv
<1>12. Exited' => task \notin Prints
  <2>1. task \in Prints => Len(Program) > 3
    BY Lengths DEF Prints, Detects
  <2>2. Program' = Program
    BY <1>1, Frame
  <2>3. QED
    BY <1>1, <1>2, <2>1, <2>2, Lengths DEF Exited
<1>13. OutInv' /\ ReasonInv'
  BY <1>1, <1>3, <1>12, GoesReason DEF OutInv
<1>14. QED
  BY <1>6, <1>10, <1>11, <1>13

\* The lists are read in the order in which RefLang asks them.
LEMMA RecogLangIsRefLang ==
  ASSUME NEW d
  PROVE  RecogLang(d) = RefLang(d.file)
<1> DEFINE L == Listed(corpus[d.file].site)
           e == corpus[d.file]
<1>1. L = {l \in 1 .. 3 : e.site \in SiteLists[ListOrder[l]]}
  BY DEF Listed, ListOrder
<1>2. ListOrder[1] = "ru" /\ ListOrder[2] = "en" /\ ListOrder[3] = "other"
  BY DEF ListOrder
<1>3. /\ 1 \in L <=> e.site \in SiteLists["ru"]
      /\ 2 \in L <=> e.site \in SiteLists["en"]
      /\ 3 \in L <=> e.site \in SiteLists["other"]
      /\ L \subseteq 1 .. 3
  BY <1>1, <1>2
<1> HIDE DEF L
<1>4. ASSUME NEW x \in L, \A m \in L : x <= m
      PROVE  (CHOOSE l \in L : \A m \in L : l <= m) = x
  <2> DEFINE c == CHOOSE l \in L : \A m \in L : l <= m
  <2>1. c \in L /\ \A m \in L : c <= m
    BY <1>4
  <2> HIDE DEF c
  <2>2. c = x
    BY <1>3, <1>4, <2>1
  <2>3. QED
    BY <2>2 DEF c
<1>5. CASE 1 \in L
  BY <1>2, <1>3, <1>4, <1>5 DEF RecogLang, RefLang, Url2Lang, L
<1>6. CASE 1 \notin L /\ 2 \in L
  BY <1>2, <1>3, <1>4, <1>6 DEF RecogLang, RefLang, Url2Lang, L
<1>7. CASE 1 \notin L /\ 2 \notin L /\ 3 \in L
  BY <1>2, <1>3, <1>4, <1>7 DEF RecogLang, RefLang, Url2Lang, L
<1>8. CASE L = {}
  BY <1>3, <1>8 DEF RecogLang, RefLang, L
<1>9. QED
  BY <1>3, <1>5, <1>6, <1>7, <1>8

\* RecognizeLanguage starts with the loaded documents.
LEMMA RecognizeLanguageStep ==
  ASSUME IInv, RecognizeLanguage
  PROVE  IInv'
<1> USE DEF IInv
<1>1. /\ status \in {"idle", "returned"} /\ status' = "running" /\ n' = Len(docs)
      /\ applied' = [k \in 0 .. (Len(docs) - 1) |-> 0]
      /\ UNCHANGED <<task, corpus, at, reason, files, docs, ruen, feats, news, groups, out>>
  BY DEF RecognizeLanguage, P!Call, Stay, dataVars
<1>2. at = 3 /\ status = "returned"
  BY <1>1, StageAt DEF RecognizeLanguage, ControlInv
<1>3. Goes
  BY <1>1, <1>2 DEF Goes
<1>4. Found' = Found /\ Recognized' = Recognized /\ GlobThrows' = GlobThrows /\ corpus \in Corpora
  BY <1>1, Frame DEF ControlInv
<1>5. Len(Found) \in Nat /\ DOMAIN Found = 1 .. Len(Found)
  BY <1>4, FoundFiles
<1>6. docs = [i \in DOMAIN Found |-> HTMLDocument(Found[i])]
  BY <1>1, <1>2 DEF DocsInv, Recognizing, Visited
<1>7. Len(docs) = Len(Found)
  BY <1>5, <1>6
<1>8. n' \in Nat /\ applied' \in [0 .. (n' - 1) -> {0, 1}] /\ \A i \in DOMAIN Found : ~ Visited(i)'
  BY <1>1, <1>5, <1>7, SlotsCalled
<1>9. ControlInv' /\ ~ Exited'
  BY <1>1, <1>3, <1>8, GoesControl DEF RecognizeLanguage
<1>10. Recognizing'
  BY <1>1, <1>4, <1>6, <1>7, <1>8 DEF Recognizing
<1>11. DocsInv'
  BY <1>1, <1>2, <1>4, <1>10 DEF DocsInv, AllReadable
<1>12. FilesInv' /\ RuenInv' /\ FeatsInv' /\ NewsInv' /\ GroupsInv'
  BY <1>1, <1>2, <1>4 DEF FilesInv, RuenInv, FeatsInv, NewsInv, GroupsInv
<1>13. OutInv' /\ ReasonInv'
  BY <1>3, <1>9, GoesReason DEF OutInv
<1>14. QED
  BY <1>9, <1>11, <1>12, <1>13

\* RecogTask sets the language of its slot.
LEMMA RecogTaskStep ==
  ASSUME IInv, NEW k \in P!Slots, RecogTask(k)
  PROVE  IInv'
<1> USE DEF IInv
<1>1. /\ status = "running" /\ applied' = [applied EXCEPT ![k] = 1]
      /\ docs' = [docs EXCEPT ![k + 1].lang = RefLang(docs[k + 1].file)]
      /\ UNCHANGED <<status, n, task, corpus, at, reason, files, ruen, feats, news, groups, out>>
  BY RecogLangIsRefLang DEF RecogTask, P!Apply, Stay
<1>2. at = 3
  BY StageAt DEF RecogTask, ControlInv
<1>3. Goes
  BY <1>1, <1>2 DEF Goes
<1>4. Found' = Found /\ Recognized' = Recognized /\ GlobThrows' = GlobThrows /\ corpus \in Corpora
  BY <1>1, Frame DEF ControlInv
<1>5. Recognizing /\ n = Len(Found)
  BY <1>1, <1>2 DEF DocsInv, Recognizing
<1>6. DOMAIN Found = 1 .. n
  BY <1>4, <1>5, FoundFiles
<1>7. /\ n' \in Nat /\ applied' \in [0 .. (n' - 1) -> {0, 1}]
      /\ k + 1 \in DOMAIN Found
      /\ \A i \in DOMAIN Found : Visited(i)' = (Visited(i) \/ i = k + 1)
  BY <1>1, <1>6, SlotVisited
<1>8. ControlInv' /\ ~ Exited'
  BY <1>1, <1>3, <1>7, GoesControl DEF RecogTask
<1>9. docs' = [i \in DOMAIN Found |-> IF Visited(i)' THEN Recognized[i] ELSE HTMLDocument(Found[i])]
  <2>1. docs[k + 1].file = Found[k + 1] /\ DOMAIN docs = DOMAIN Found
    BY <1>5, <1>7 DEF Recognizing, Recognized, HTMLDocument
  <2>2. docs'[k + 1] = Recognized[k + 1]
    <3>1. docs[k + 1] = [file |-> Found[k + 1], lang |-> docs[k + 1].lang]
      BY <1>5, <1>7 DEF Recognizing, Recognized, HTMLDocument
    <3>2. docs'[k + 1] = [docs[k + 1] EXCEPT !.lang = RefLang(Found[k + 1])]
      BY <1>1, <1>7, <2>1
    <3>3. QED
      BY <1>7, <3>1, <3>2 DEF Recognized
  <2>3. docs' \in [DOMAIN Found -> {docs'[i] : i \in DOMAIN Found}]
    BY <1>1, <2>1
  <2>4. ASSUME NEW i \in DOMAIN Found
        PROVE  docs'[i] = IF Visited(i)' THEN Recognized[i] ELSE HTMLDocument(Found[i])
    <3>1. CASE i = k + 1
      BY <1>7, <2>2, <3>1
    <3>2. CASE i # k + 1
      <4>1. docs'[i] = docs[i]
        BY <1>1, <2>1, <3>2
      <4>2. QED
        BY <1>5, <1>7, <3>2, <4>1 DEF Recognizing
    <3>3. QED
      BY <3>1, <3>2
  <2>5. QED
    BY <2>3, <2>4
<1>10. Recognizing'
  BY <1>1, <1>4, <1>5, <1>9 DEF Recognizing
<1>11. DocsInv'
  BY <1>1, <1>2, <1>4, <1>10 DEF DocsInv, AllReadable
<1>12. FilesInv' /\ RuenInv' /\ FeatsInv' /\ NewsInv' /\ GroupsInv'
  BY <1>1, <1>2, <1>4 DEF FilesInv, RuenInv, FeatsInv, NewsInv, GroupsInv
<1>13. OutInv' /\ ReasonInv'
  BY <1>3, <1>8, GoesReason DEF OutInv
<1>14. QED
  BY <1>8, <1>11, <1>12, <1>13

\* RecognizeLanguage returns with every language set, and moves documents out.
LEMMA RecognizeLanguageReturnStep ==
  ASSUME IInv, RecognizeLanguageReturn
  PROVE  IInv'
<1> USE DEF IInv
<1>1. /\ status = "running" /\ status' = "returned" /\ at' = at + 1
      /\ ruen' = IF UsesReturned THEN Picked(docs, {i \in DOMAIN docs : RuEn(docs[i])}) ELSE << >>
      /\ docs' = [i \in DOMAIN docs |-> IF RuEn(docs[i]) THEN EmptyDocument ELSE docs[i]]
      /\ UNCHANGED <<n, applied, task, corpus, reason, files, feats, news, groups, out>>
  BY DEF RecognizeLanguageReturn, P!Return, Advance, LeftBehind
<1>2. at = 3 /\ task \in Recognizes
  BY StageAt DEF RecognizeLanguageReturn, ControlInv
<1>3. Goes
  BY <1>1 DEF Goes
<1>4. Found' = Found /\ Left' = Left /\ Kept' = Kept /\ GlobThrows' = GlobThrows /\ corpus \in Corpora
  BY <1>1, Frame DEF ControlInv
<1>5. Recognizing /\ n = Len(Found)
  BY <1>1, <1>2 DEF DocsInv, Recognizing
<1>6. DOMAIN Found = 1 .. n
  BY <1>4, <1>5, FoundFiles
<1>7. docs = Recognized
  BY <1>5, <1>6, SlotsVisited DEF RecognizeLanguageReturn, Recognizing, Recognized
<1>8. {i \in DOMAIN docs : RuEn(docs[i])} = RuEnAt
  BY <1>7 DEF RuEnAt, Recognized, RuEn
<1>9. ruen' = Kept
  BY <1>1, <1>7, <1>8 DEF Kept
<1>10. docs' = Left
  <2>1. DOMAIN docs = DOMAIN Found /\ \A i \in DOMAIN Found : RuEn(docs[i]) <=> i \in RuEnAt
    BY <1>7, <1>8 DEF Recognized
  <2>2. QED
    BY <1>1, <1>7, <2>1 DEF Left
<1>11. ControlInv'
  BY <1>1, <1>3, ReturnControl DEF RecognizeLanguageReturn
<1>12. DocsInv' /\ RuenInv'
  BY <1>1, <1>2, <1>4, <1>9, <1>10 DEF DocsInv, RuenInv, AllReadable
<1>13. FilesInv' /\ FeatsInv' /\ NewsInv' /\ GroupsInv'
  BY <1>1, <1>2, <1>4 DEF FilesInv, FeatsInv, NewsInv, GroupsInv
<1>14. ~ Exited'
  <2>1. Len(Program) >= 4 /\ Len(Program) \in Nat /\ Program' = Program
    BY <1>1, <1>2, Lengths, Frame DEF Recognizes, Prints
  <2>2. QED
    BY <1>1, <1>2, <2>1 DEF Exited
<1>15. OutInv' /\ ReasonInv'
  BY <1>3, <1>14, GoesReason DEF OutInv
<1>16. QED
  BY <1>11, <1>12, <1>13, <1>15

\* GenerateFeatures starts with a vector of empty features.
LEMMA GenerateFeaturesStep ==
  ASSUME IInv, GenerateFeatures
  PROVE  IInv'
<1> USE DEF IInv
<1>1. /\ status \in {"idle", "returned"} /\ status' = "running" /\ n' = Len(FeatureDocs)
      /\ applied' = [k \in 0 .. (Len(FeatureDocs) - 1) |-> 0]
      /\ feats' = [i \in DOMAIN FeatureDocs |-> EmptyFeatures]
      /\ UNCHANGED <<task, corpus, at, reason, files, docs, ruen, news, groups, out>>
  BY DEF GenerateFeatures, P!Call, Stay
<1>2. at = 4 /\ status = "returned" /\ task # "languages"
  BY <1>1, StageAt DEF GenerateFeatures, ControlInv, Detects, Groups
<1>3. Goes
  BY <1>1, <1>2 DEF Goes
<1>4. /\ Found' = Found /\ Left' = Left /\ Kept' = Kept /\ Passed' = Passed
      /\ Generated' = Generated /\ GlobThrows' = GlobThrows /\ corpus \in Corpora
  BY <1>1, Frame DEF ControlInv
<1>5. FeatureDocs = Passed
  BY <1>2 DEF FeatureDocs, Passed, DocsInv, RuenInv
<1>6. Len(Passed) \in Nat /\ DOMAIN Passed = 1 .. Len(Passed)
  BY <1>4, PassedDocs
<1>7. n' \in Nat /\ applied' \in [0 .. (n' - 1) -> {0, 1}] /\ \A i \in DOMAIN Passed : ~ Visited(i)'
  BY <1>1, <1>5, <1>6, SlotsCalled
<1>8. ControlInv' /\ ~ Exited'
  BY <1>1, <1>3, <1>7, GoesControl DEF GenerateFeatures
<1>9. Generating'
  BY <1>1, <1>4, <1>5, <1>7 DEF Generating
<1>10. FeatsInv'
  BY <1>1, <1>2, <1>9 DEF FeatsInv
<1>11. DocsInv' /\ RuenInv'
  BY <1>1, <1>2, <1>4 DEF DocsInv, RuenInv, AllReadable
<1>12. FilesInv' /\ NewsInv' /\ GroupsInv'
  BY <1>1, <1>2, <1>4 DEF FilesInv, NewsInv, GroupsInv
<1>13. OutInv' /\ ReasonInv'
  BY <1>3, <1>8, GoesReason DEF OutInv
<1>14. QED
  BY <1>8, <1>10, <1>11, <1>12, <1>13

\* GenerateFeaturesTask fills its slot.
LEMMA GenerateFeaturesTaskStep ==
  ASSUME IInv, NEW k \in P!Slots, GenerateFeaturesTask(k)
  PROVE  IInv'
<1> USE DEF IInv
<1>1. /\ status = "running" /\ applied[k] = 0 /\ applied' = [applied EXCEPT ![k] = 1]
      /\ feats' = [feats EXCEPT ![k + 1] = FeaturesOf(FeatureDocs[k + 1], feats[k + 1])]
      /\ UNCHANGED <<status, n, task, corpus, at, reason, files, docs, ruen, news, groups, out>>
  BY DEF GenerateFeaturesTask, P!Apply, Stay
<1>2. at = 4 /\ task # "languages"
  BY StageAt DEF GenerateFeaturesTask, ControlInv, Detects, Groups
<1>3. Goes
  BY <1>1 DEF Goes
<1>4. /\ Found' = Found /\ Left' = Left /\ Kept' = Kept /\ Passed' = Passed
      /\ Generated' = Generated /\ GlobThrows' = GlobThrows /\ corpus \in Corpora
  BY <1>1, Frame DEF ControlInv
<1>5. FeatureDocs = Passed
  BY <1>2 DEF FeatureDocs, Passed, DocsInv, RuenInv
<1>6. Generating
  BY <1>1, <1>2 DEF FeatsInv
<1>7. DOMAIN Passed = 1 .. n
  BY <1>4, <1>6, PassedDocs DEF Generating
<1>8. /\ n' \in Nat /\ applied' \in [0 .. (n' - 1) -> {0, 1}]
      /\ k + 1 \in DOMAIN Passed
      /\ \A i \in DOMAIN Passed : Visited(i)' = (Visited(i) \/ i = k + 1)
  BY <1>1, <1>7, SlotVisited
<1>9. ControlInv' /\ ~ Exited'
  BY <1>1, <1>3, <1>8, GoesControl DEF GenerateFeaturesTask
<1>10. Generating'
  <2>1. (k + 1) - 1 = k
    BY DEF ControlInv, P!Slots
  <2>2. feats[k + 1] = EmptyFeatures
    BY <1>1, <1>6, <1>8, <2>1 DEF Generating, Visited
  <2>3. feats' = [feats EXCEPT ![k + 1] = Generated[k + 1]]
    BY <1>1, <1>5, <1>8, <2>2 DEF Generated
  <2>4. feats' = [i \in DOMAIN Passed |-> IF Visited(i)' THEN Generated[i] ELSE EmptyFeatures]
    BY <1>6, <1>8, <2>3 DEF Generating
  <2>5. QED
    BY <1>1, <1>4, <1>6, <2>4 DEF Generating
<1>11. FeatsInv'
  BY <1>1, <1>2, <1>10 DEF FeatsInv
<1>12. DocsInv' /\ RuenInv'
  BY <1>1, <1>2, <1>4 DEF DocsInv, RuenInv, AllReadable
<1>13. FilesInv' /\ NewsInv' /\ GroupsInv'
  BY <1>1, <1>2, <1>4 DEF FilesInv, NewsInv, GroupsInv
<1>14. OutInv' /\ ReasonInv'
  BY <1>3, <1>9, GoesReason DEF OutInv
<1>15. QED
  BY <1>9, <1>11, <1>12, <1>13, <1>14

\* When GenerateFeatures returns, every slot has been filled.
LEMMA GenerateFeaturesReturnStep ==
  ASSUME IInv, GenerateFeaturesReturn
  PROVE  IInv'
<1> USE DEF IInv
<1>1. /\ status = "running" /\ status' = "returned" /\ at' = at + 1
      /\ UNCHANGED <<n, applied, task, corpus, reason, files, docs, ruen, feats, news, groups, out>>
  BY DEF GenerateFeaturesReturn, P!Return, Advance, dataVars
<1>2. at = 4 /\ task \in Detects \cup {"features"} /\ task # "languages"
  BY StageAt DEF GenerateFeaturesReturn, ControlInv, Detects, Groups
<1>3. Goes
  BY <1>1 DEF Goes
<1>4. /\ Found' = Found /\ Left' = Left /\ Kept' = Kept /\ Passed' = Passed /\ Program' = Program
      /\ Generated' = Generated /\ Flagged' = Flagged /\ GlobThrows' = GlobThrows /\ corpus \in Corpora
  BY <1>1, Frame DEF ControlInv
<1>5. Generating
  BY <1>1, <1>2 DEF FeatsInv
<1>6. DOMAIN Passed = 1 .. n
  BY <1>4, <1>5, PassedDocs DEF Generating
<1>7. (\A i \in DOMAIN Passed : Visited(i)) /\ \A i : ~ Visited(i)'
  BY <1>6, SlotsVisited DEF GenerateFeaturesReturn
<1>8. Detecting'
  BY <1>1, <1>4, <1>5, <1>7 DEF Generating, Detecting
<1>9. FeatsInv'
  BY <1>1, <1>2, <1>8 DEF FeatsInv
<1>10. ControlInv'
  BY <1>1, <1>3, ReturnControl DEF GenerateFeaturesReturn
<1>11. DocsInv' /\ RuenInv'
  BY <1>1, <1>2, <1>4 DEF DocsInv, RuenInv, AllReadable
<1>12. FilesInv' /\ NewsInv' /\ GroupsInv'
  BY <1>1, <1>2, <1>4 DEF FilesInv, NewsInv, GroupsInv
<1>13. Exited' => task \notin Prints
  <2>1. task \in Prints => Len(Program) \in Nat /\ Len(Program) >= 6
    BY <1>2, Lengths DEF Prints
  <2>2. QED
    BY <1>1, <1>2, <1>4, <2>1 DEF Exited
<1>14. OutInv' /\ ReasonInv'
  BY <1>1, <1>3, <1>13, GoesReason DEF OutInv
<1>15. QED
  BY <1>9, <1>10, <1>11, <1>12, <1>14

\* DetectNews starts with the generated features.
LEMMA DetectNewsStep ==
  ASSUME IInv, DetectNews
  PROVE  IInv'
<1> USE DEF IInv
<1>1. /\ status \in {"idle", "returned"} /\ status' = "running" /\ n' = Len(feats)
      /\ applied' = [k \in 0 .. (Len(feats) - 1) |-> 0]
      /\ UNCHANGED <<task, corpus, at, reason, files, docs, ruen, feats, news, groups, out>>
  BY DEF DetectNews, P!Call, Stay, dataVars
<1>2. at = 5 /\ status = "returned" /\ task # "languages"
  BY <1>1, StageAt DEF DetectNews, ControlInv, Detects, Groups
<1>3. Goes
  BY <1>1, <1>2 DEF Goes
<1>4. /\ Found' = Found /\ Left' = Left /\ Kept' = Kept /\ Passed' = Passed
      /\ Generated' = Generated /\ Flagged' = Flagged /\ GlobThrows' = GlobThrows /\ corpus \in Corpora
  BY <1>1, Frame DEF ControlInv
<1>5. Len(Passed) \in Nat /\ DOMAIN Passed = 1 .. Len(Passed)
  BY <1>4, PassedDocs
<1>6. feats = Generated
  BY <1>1, <1>2 DEF FeatsInv, Detecting, Visited, Generated
<1>7. Len(feats) = Len(Passed)
  BY <1>5, <1>6 DEF Generated
<1>8. n' \in Nat /\ applied' \in [0 .. (n' - 1) -> {0, 1}] /\ \A i \in DOMAIN Passed : ~ Visited(i)'
  BY <1>1, <1>5, <1>7, SlotsCalled
<1>9. ControlInv' /\ ~ Exited'
  BY <1>1, <1>3, <1>8, GoesControl DEF DetectNews
<1>10. Detecting'
  BY <1>1, <1>4, <1>6, <1>7, <1>8 DEF Detecting, Generated
<1>11. FeatsInv'
  BY <1>1, <1>2, <1>10 DEF FeatsInv
<1>12. DocsInv' /\ RuenInv'
  BY <1>1, <1>2, <1>4 DEF DocsInv, RuenInv, AllReadable
<1>13. FilesInv' /\ NewsInv' /\ GroupsInv'
  BY <1>1, <1>2, <1>4 DEF FilesInv, NewsInv, GroupsInv
<1>14. OutInv' /\ ReasonInv'
  BY <1>3, <1>9, GoesReason DEF OutInv
<1>15. QED
  BY <1>9, <1>11, <1>12, <1>13, <1>14

\* DetectNewsTask sets the flags of its slot.
LEMMA DetectNewsTaskStep ==
  ASSUME IInv, NEW k \in P!Slots, DetectNewsTask(k)
  PROVE  IInv'
<1> USE DEF IInv
<1>1. /\ status = "running" /\ applied[k] = 0 /\ applied' = [applied EXCEPT ![k] = 1]
      /\ feats' = [feats EXCEPT ![k + 1] = Detected(feats[k + 1])]
      /\ UNCHANGED <<status, n, task, corpus, at, reason, files, docs, ruen, news, groups, out>>
  BY DEF DetectNewsTask, P!Apply, Stay
<1>2. at = 5 /\ task # "languages"
  BY StageAt DEF DetectNewsTask, ControlInv, Detects, Groups
<1>3. Goes
  BY <1>1 DEF Goes
<1>4. /\ Found' = Found /\ Left' = Left /\ Kept' = Kept /\ Passed' = Passed
      /\ Generated' = Generated /\ Flagged' = Flagged /\ GlobThrows' = GlobThrows /\ corpus \in Corpora
  BY <1>1, Frame DEF ControlInv
<1>5. Detecting /\ n = Len(Passed)
  BY <1>1, <1>2 DEF FeatsInv, Detecting
<1>6. DOMAIN Passed = 1 .. n
  BY <1>4, <1>5, PassedDocs
<1>7. /\ n' \in Nat /\ applied' \in [0 .. (n' - 1) -> {0, 1}]
      /\ k + 1 \in DOMAIN Passed
      /\ \A i \in DOMAIN Passed : Visited(i)' = (Visited(i) \/ i = k + 1)
  BY <1>1, <1>6, SlotVisited
<1>8. ControlInv' /\ ~ Exited'
  BY <1>1, <1>3, <1>7, GoesControl DEF DetectNewsTask
<1>9. Detecting'
  <2>1. (k + 1) - 1 = k
    BY DEF ControlInv, P!Slots
  <2>2. feats[k + 1] = Generated[k + 1]
    BY <1>1, <1>5, <1>7, <2>1 DEF Detecting, Visited
  <2>3. feats' = [feats EXCEPT ![k + 1] = Flagged[k + 1]]
    BY <1>1, <1>7, <2>2 DEF Flagged
  <2>4. feats' = [i \in DOMAIN Passed |-> IF Visited(i)' THEN Flagged[i] ELSE Generated[i]]
    BY <1>5, <1>7, <2>3 DEF Detecting
  <2>5. QED
    BY <1>1, <1>4, <1>5, <2>4 DEF Detecting
<1>10. FeatsInv'
  BY <1>1, <1>2, <1>9 DEF FeatsInv
<1>11. DocsInv' /\ RuenInv'
  BY <1>1, <1>2, <1>4 DEF DocsInv, RuenInv, AllReadable
<1>12. FilesInv' /\ NewsInv' /\ GroupsInv'
  BY <1>1, <1>2, <1>4 DEF FilesInv, NewsInv, GroupsInv
<1>13. OutInv' /\ ReasonInv'
  BY <1>3, <1>8, GoesReason DEF OutInv
<1>14. QED
  BY <1>8, <1>10, <1>11, <1>12, <1>13

\* DetectNews returns with every flag set, and moves the news out.
LEMMA DetectNewsReturnStep ==
  ASSUME IInv, DetectNewsReturn
  PROVE  IInv'
<1> USE DEF IInv
<1>1. /\ status = "running" /\ status' = "returned" /\ at' = at + 1
      /\ news' = Picked(feats, {i \in DOMAIN feats : feats[i].isNews})
      /\ feats' = [i \in DOMAIN feats |-> IF feats[i].isNews THEN MovedFrom(feats[i]) ELSE feats[i]]
      /\ UNCHANGED <<n, applied, task, corpus, reason, files, docs, ruen, groups, out>>
  BY DEF DetectNewsReturn, P!Return, Advance
<1>2. at = 5 /\ task \in Detects /\ task # "languages"
  BY StageAt DEF DetectNewsReturn, ControlInv, Detects, Groups
<1>3. Goes
  BY <1>1 DEF Goes
<1>4. /\ Found' = Found /\ Left' = Left /\ Kept' = Kept /\ Passed' = Passed /\ Program' = Program
      /\ LeftFeats' = LeftFeats /\ News' = News /\ GlobThrows' = GlobThrows /\ corpus \in Corpora
  BY <1>1, Frame DEF ControlInv
<1>5. Detecting /\ n = Len(Passed)
  BY <1>1, <1>2 DEF FeatsInv, Detecting
<1>6. DOMAIN Passed = 1 .. n
  BY <1>4, <1>5, PassedDocs
<1>7. feats = Flagged /\ DOMAIN feats = DOMAIN Passed
  BY <1>5, <1>6, SlotsVisited DEF DetectNewsReturn, Detecting, Flagged
<1>8. {i \in DOMAIN feats : feats[i].isNews} = NewsAt
  BY <1>7 DEF NewsAt
<1>9. news' = News
  BY <1>1, <1>7, <1>8 DEF News
<1>10. feats' = LeftFeats
  <2>1. \A i \in DOMAIN Passed : feats[i].isNews <=> i \in NewsAt
    BY <1>7, <1>8
  <2>2. QED
    BY <1>1, <1>7, <2>1 DEF LeftFeats
<1>11. ControlInv'
  BY <1>1, <1>3, ReturnControl DEF DetectNewsReturn
<1>12. FeatsInv' /\ NewsInv'
  BY <1>1, <1>2, <1>4, <1>9, <1>10 DEF FeatsInv, NewsInv
<1>13. DocsInv' /\ RuenInv'
  BY <1>1, <1>2, <1>4 DEF DocsInv, RuenInv, AllReadable
<1>14. FilesInv' /\ GroupsInv'
  BY <1>1, <1>2, <1>4 DEF FilesInv, GroupsInv
<1>15. ~ Exited'
  <2>1. Len(Program) \in Nat /\ Len(Program) >= 6
    BY <1>2, Lengths
  <2>2. QED
    BY <1>1, <1>2, <1>4, <2>1 DEF Exited
<1>16. OutInv' /\ ReasonInv'
  BY <1>3, <1>15, GoesReason DEF OutInv
<1>17. QED
  BY <1>11, <1>12, <1>13, <1>14, <1>16

\* GetCategories groups the news by category.
LEMMA GetCategoriesStep ==
  ASSUME IInv, GetCategories
  PROVE  IInv'
<1> USE DEF IInv
<1>1. /\ InMain /\ ~ CategoriesThrow /\ at' = at + 1
      /\ groups' = [c \in Categories |-> AddCategories("ru", c) \o AddCategories("en", c)]
      /\ UNCHANGED <<status, n, applied, task, corpus, reason, files, docs, ruen, feats, news, out>>
  BY DEF GetCategories, Advance, stageVars
<1>2. at = 6 /\ task \in {"categories", "top"} /\ status = "returned"
  BY <1>1, StageAt DEF GetCategories, ControlInv, InMain
<1>3. Goes
  BY <1>1, <1>2 DEF Goes
<1>4. /\ Found' = Found /\ Left' = Left /\ Kept' = Kept /\ Program' = Program
      /\ LeftFeats' = LeftFeats /\ News' = News /\ GlobThrows' = GlobThrows
  BY <1>1, Frame
<1>5. Len(Program) = 7
  BY <1>2, Lengths DEF Groups
<1>6. ControlInv' /\ ~ Exited'
  BY <1>1, <1>2, <1>4, <1>5 DEF ControlInv, Exited
<1>7. GroupsInv'
  <2>1. CategoriesThrow' = CategoriesThrow
    BY <1>1 DEF CategoriesThrow, Lang2Docs
  <2>2. \A c, lang : AddCategories(lang, c)' = AddCategories(lang, c)
    BY <1>1 DEF AddCategories, Lang2Docs
  <2>3. groups' = [c \in Categories |-> AddCategories("ru", c)' \o AddCategories("en", c)']
    BY <1>1, <2>2
  <2>4. Categorized'
    BY <1>1, <2>1, <2>3 DEF Categorized
  <2>5. QED
    BY <1>1, <1>2, <2>4 DEF GroupsInv
<1>8. FeatsInv' /\ NewsInv'
  BY <1>1, <1>2, <1>4 DEF FeatsInv, NewsInv
<1>9. DocsInv' /\ RuenInv'
  BY <1>1, <1>2, <1>4 DEF DocsInv, RuenInv, AllReadable
<1>10. FilesInv'
  BY <1>1, <1>2, <1>4 DEF FilesInv
<1>11. OutInv' /\ ReasonInv'
  BY <1>3, <1>6, GoesReason DEF OutInv
<1>12. QED
  BY <1>6, <1>7, <1>8, <1>9, <1>10, <1>11

\* GetThreads groups the news by title.
LEMMA GetThreadsStep ==
  ASSUME IInv, GetThreads
  PROVE  IInv'
<1> USE DEF IInv
<1>1. /\ InMain /\ at' = at + 1
      /\ groups' = [t \in {Title(news[i]) : i \in DOMAIN news} |-> Thread(t)]
      /\ UNCHANGED <<status, n, applied, task, corpus, reason, files, docs, ruen, feats, news, out>>
  BY DEF GetThreads, Advance, stageVars
<1>2. at = 6 /\ task = "threads" /\ status = "returned"
  BY <1>1, StageAt DEF GetThreads, ControlInv, InMain
<1>3. Goes
  BY <1>1, <1>2 DEF Goes
<1>4. /\ Found' = Found /\ Left' = Left /\ Kept' = Kept /\ Program' = Program
      /\ LeftFeats' = LeftFeats /\ News' = News /\ GlobThrows' = GlobThrows
  BY <1>1, Frame
<1>5. Len(Program) = 7
  BY <1>2, Lengths DEF Groups
<1>6. ControlInv' /\ ~ Exited'
  BY <1>1, <1>2, <1>4, <1>5 DEF ControlInv, Exited
<1>7. GroupsInv'
  <2>1. (\A f : Title(f)' = Title(f)) /\ \A t : Thread(t)' = Thread(t)
    BY <1>1 DEF Title, Thread
  <2>2. Threaded'
    BY <1>1, <2>1 DEF Threaded
  <2>3. QED
    BY <1>1, <1>2, <2>2 DEF GroupsInv
<1>8. FeatsInv' /\ NewsInv'
  BY <1>1, <1>2, <1>4 DEF FeatsInv, NewsInv
<1>9. DocsInv' /\ RuenInv'
  BY <1>1, <1>2, <1>4 DEF DocsInv, RuenInv, AllReadable
<1>10. FilesInv'
  BY <1>1, <1>2, <1>4 DEF FilesInv
<1>11. OutInv' /\ ReasonInv'
  BY <1>3, <1>6, GoesReason DEF OutInv
<1>12. QED
  BY <1>6, <1>7, <1>8, <1>9, <1>10, <1>11

\* What is printed, and what would stop it, depend on the vectors only.
LEMMA OutputFrame ==
  ASSUME UNCHANGED <<task, corpus, docs, ruen, feats, news, groups>>
  PROVE  /\ DumpThrows' = DumpThrows /\ TsvCrashes' = TsvCrashes
         /\ DumpLanguage' = DumpLanguage /\ DumpNewsDet' = DumpNewsDet
         /\ DumpGroups' = DumpGroups /\ DumpNewsDetTest' = DumpNewsDetTest
         /\ MakeTsv' = MakeTsv /\ CategoriesThrow' = CategoriesThrow
         /\ Categorized' = Categorized /\ Threaded' = Threaded
         /\ PrintThrows' = PrintThrows
<1>1. DumpThrows' = DumpThrows /\ TsvCrashes' = TsvCrashes
  BY DEF DumpThrows, TsvCrashes
<1>2. DumpLanguage' = DumpLanguage
  BY DEF DumpLanguage
<1>3. DumpNewsDet' = DumpNewsDet
  BY DEF DumpNewsDet
<1>4. DumpGroups' = DumpGroups
  BY DEF DumpGroups
<1>5. DumpNewsDetTest' = DumpNewsDetTest
  BY DEF DumpNewsDetTest
<1>6. MakeTsv' = MakeTsv
  BY DEF MakeTsv
<1>7. CategoriesThrow' = CategoriesThrow
  BY DEF CategoriesThrow, Lang2Docs
<1>8. Categorized' = Categorized
  BY <1>7 DEF Categorized, AddCategories, Lang2Docs
<1>9. Threaded' = Threaded
  BY DEF Threaded, Title, Thread
<1>10. PrintThrows' = PrintThrows
  <2>1. Garbled(ruen)' = Garbled(ruen) /\ Garbled(news)' = Garbled(news)
    BY DEF Garbled
  <2>2. \A g : Garbled(groups[g])' = Garbled(groups[g])
    BY DEF Garbled
  <2>3. Garbled(Lang2Docs("ru"))' = Garbled(Lang2Docs("ru"))
    BY DEF Garbled, Lang2Docs
  <2>4. QED
    BY <2>1, <2>2, <2>3 DEF PrintThrows
<1>11. QED
  BY <1>1, <1>2, <1>3, <1>4, <1>5, <1>6, <1>7, <1>8, <1>9, <1>10

\* PrintResult writes the result of the task and changes no vector.
LEMMA PrintResultStep ==
  ASSUME IInv, PrintResult
  PROVE  IInv'
<1> USE DEF IInv
<1>1. /\ InMain /\ ~ DumpThrows /\ ~ PrintThrows /\ ~ TsvCrashes
      /\ Output(out') /\ at' = at + 1
      /\ UNCHANGED <<status, n, applied, task, corpus, reason, files, docs, ruen, feats, news, groups>>
  BY DEF PrintResult, Advance, stageVars
<1>2. /\ \/ at = 4 /\ task = "languages"
         \/ at = 6 /\ task \in {"news", "news_test", "dump"}
         \/ at = 7 /\ task \in Groups
      /\ status = "returned"
  BY <1>1, StageAt DEF PrintResult, ControlInv, InMain
<1>3. Goes
  BY <1>1, <1>2 DEF Goes
<1>4. /\ Found' = Found /\ Left' = Left /\ Kept' = Kept /\ Program' = Program
      /\ LeftFeats' = LeftFeats /\ News' = News /\ GlobThrows' = GlobThrows
  BY <1>1, Frame
<1>5. Len(Program) = at
  BY <1>2, Lengths DEF Groups, Detects
<1>6. ControlInv'
  BY <1>1, <1>2, <1>4, <1>5 DEF ControlInv
<1>7. GroupsInv'
  <2>1. Categorized' = Categorized /\ Threaded' = Threaded
    BY <1>1, OutputFrame
  <2>2. task \in Groups <=> at = 7
    BY <1>2 DEF Groups
  <2>3. QED
    BY <1>1, <1>2, <2>1, <2>2 DEF GroupsInv, Groups
<1>8. FeatsInv' /\ NewsInv'
  BY <1>1, <1>2, <1>4 DEF FeatsInv, NewsInv
<1>9. DocsInv' /\ RuenInv'
  BY <1>1, <1>2, <1>4 DEF DocsInv, RuenInv, AllReadable
<1>10. FilesInv'
  BY <1>1, <1>2, <1>4 DEF FilesInv
<1>11. OutInv'
  <2>1. Output(out)'
    BY <1>1, OutputFrame DEF Output
  <2>2. QED
    BY <1>1, <2>1, OutputFrame DEF OutInv
<1>12. ReasonInv'
  BY <1>3, GoesReason
<1>13. QED
  BY <1>6, <1>7, <1>8, <1>9, <1>10, <1>11, <1>12

\* An exception, or a thread that cannot be created: nothing changes but the
\* status, and the reason is one that the code has.
LEMMA AbortStep ==
  ASSUME IInv, NEW why, why # "none", Abort(why), ~ Exited, ~ Terminated,
         status = "idle" => at = 1,
         \/ why = "filesystem" /\ at = 1 /\ FirstError("filesystem")
         \/ why = "short_path" /\ at = 1 /\ FirstError("short_path")
         \/ why = "unreadable" /\ at = 2 /\ ~ AllReadable
         \/ why = "no_news" /\ at = 6 /\ task \in {"categories", "top"} /\ CategoriesThrow
         \/ why = "bad_substr" /\ Stage = "print" /\ DumpThrows
         \/ why = "bad_utf8" /\ Stage = "print" /\ PrintThrows
         \/ why = "empty_tsv" /\ Stage = "print" /\ TsvCrashes
         \/ why = "no_bows" /\ at = 5 /\ task \in Detects /\ \E i \in DOMAIN Passed : InferThrows(Generated[i])
         \/ why = "no_thread",
         status = "returned" => Stage \in {"categories", "print"}
  PROVE  IInv'
<1> USE DEF IInv
<1>1. /\ status' = "terminated" /\ reason' = why
      /\ UNCHANGED <<task, corpus, at, n, applied, files, docs, ruen, feats, news, groups, out>>
  BY DEF Abort, dataVars
<1>2. /\ HtmlFiles' = HtmlFiles /\ Found' = Found /\ Recognized' = Recognized
      /\ Left' = Left /\ Kept' = Kept /\ Passed' = Passed
      /\ Generated' = Generated /\ Flagged' = Flagged
      /\ LeftFeats' = LeftFeats /\ News' = News
      /\ Program' = Program /\ GlobThrows' = GlobThrows
      /\ FirstError("filesystem")' = FirstError("filesystem")
      /\ FirstError("short_path")' = FirstError("short_path")
  BY <1>1, Frame
<1>3. Stage' = Stage /\ ~ Exited'
  BY <1>1, <1>2 DEF Stage, Exited
<1>4. ControlInv'
  BY <1>1, <1>2, <1>3 DEF ControlInv
<1>5. FilesInv' /\ RuenInv' /\ NewsInv'
  BY <1>1, <1>2 DEF FilesInv, RuenInv, NewsInv
<1>6. OutInv'
  BY <1>3 DEF OutInv
<1>7. GroupsInv'
  BY <1>1, OutputFrame DEF GroupsInv
<1>8. status = "returned" => (at = 4 /\ task = "languages") \/ at > 5
  BY StageAt DEF ControlInv, Groups
<1>9. status # "returned" => \A i : Visited(i)' = Visited(i)
  BY <1>1 DEF Visited
<1>10. DocsInv'
  <2>1. AllReadable' = AllReadable
    BY <1>1, <1>2 DEF AllReadable
  <2>2. at = 2 => Loading'
    <3>1. at = 2 => Loading /\ \A i : Visited(i)' = Visited(i)
      BY <1>9 DEF DocsInv, ControlInv
    <3>2. QED
      BY <1>1, <1>2, <3>1 DEF Loading
  <2>3. at = 3 => Recognizing'
    <3>1. at = 3 => Recognizing /\ status # "returned"
      BY <1>8 DEF DocsInv
    <3>2. QED
      BY <1>1, <1>2, <1>9, <3>1 DEF Recognizing
  <2>4. QED
    BY <1>1, <1>2, <2>1, <2>2, <2>3 DEF DocsInv
<1>11. FeatsInv'
  <2>1. at = 4 /\ task # "languages" => Generating'
    <3>1. at = 4 /\ task # "languages" => Generating /\ status # "returned"
      BY <1>8 DEF FeatsInv
    <3>2. QED
      BY <1>1, <1>2, <1>9, <3>1 DEF Generating
  <2>2. at = 5 /\ task # "languages" => Detecting'
    <3>1. at = 5 /\ task # "languages" => Detecting /\ status # "returned"
      BY <1>8 DEF FeatsInv
    <3>2. QED
      BY <1>1, <1>2, <1>9, <3>1 DEF Detecting
  <2>3. QED
    BY <1>1, <1>2, <2>1, <2>2 DEF FeatsInv
<1>12. ReasonInv'
  <2>1. AllReadable' = AllReadable
    BY <1>1, <1>2 DEF AllReadable
  <2>2. /\ DumpThrows' = DumpThrows /\ PrintThrows' = PrintThrows
        /\ TsvCrashes' = TsvCrashes /\ CategoriesThrow' = CategoriesThrow
    BY <1>1, OutputFrame
  <2>3. \A i : InferThrows(Generated[i])' = InferThrows(Generated[i])
    BY <1>1, <1>2 DEF InferThrows, UrlSaysNews
  <2>4. QED
    BY <1>1, <1>2, <1>3, <2>1, <2>2, <2>3 DEF ReasonInv, Terminated
<1>13. QED
  BY <1>4, <1>5, <1>6, <1>7, <1>10, <1>11, <1>12

\* An exception leaves main.
LEMMA MainThrowsStep ==
  ASSUME IInv, MainThrows
  PROVE  IInv'
<1>1. InMain /\ at \in Nat \ {0}
  BY DEF MainThrows, IInv, ControlInv
<1>2. PICK why \in {"filesystem", "short_path", "no_news", "bad_substr", "bad_utf8", "empty_tsv"} :
       /\ \/ Stage = "glob" /\ FirstError(why)
          \/ why = "no_news" /\ Stage = "categories" /\ CategoriesThrow
          \/ why = "bad_substr" /\ Stage = "print" /\ DumpThrows
          \/ why = "bad_utf8" /\ Stage = "print" /\ PrintThrows
          \/ why = "empty_tsv" /\ Stage = "print" /\ TsvCrashes
       /\ Abort(why)
  BY DEF MainThrows
<1>3. ~ Exited
  BY <1>2 DEF Stage
<1>4. status = "idle" => at = 1
  BY <1>1, <1>2, StageAt DEF IInv, ControlInv
<1>5. status = "returned" => Stage \in {"categories", "print"}
  BY <1>1, <1>2, StageAt DEF IInv, ControlInv
<1>6. /\ Stage = "glob" => at = 1
      /\ Stage = "categories" => at = 6 /\ task \in {"categories", "top"}
  BY <1>1, StageAt
<1>7. ~ Terminated
  BY <1>1 DEF InMain, Terminated
<1>8. FirstError(why) => why \in {"filesystem", "short_path", "none"}
  BY DEF FirstError, EntryError
<1>9. QED
  BY <1>2, <1>3, <1>4, <1>5, <1>6, <1>7, <1>8, AbortStep

\* An exception leaves a thread, at a slot that it had not finished.
LEMMA TaskThrowsStep ==
  ASSUME IInv, NEW k \in P!Slots, TaskThrows(k)
  PROVE  IInv'
<1>1. /\ status = "running" /\ applied[k] = 0 /\ at \in Nat \ {0} /\ n \in Nat
      /\ corpus \in Corpora /\ ControlInv /\ ~ Exited /\ ~ Terminated
  BY DEF TaskThrows, IInv, ControlInv, Terminated
<1>2. PICK why \in {"unreadable", "no_bows"} :
       /\ \/ why = "unreadable" /\ Stage = "load" /\ ReadThrows(files[k + 1])
          \/ why = "no_bows" /\ Stage = "detect" /\ InferThrows(feats[k + 1])
       /\ Abort(why)
  BY DEF TaskThrows
<1>3. k + 1 \in 1 .. n /\ (k + 1) - 1 = k
  BY <1>1 DEF P!Slots
<1>4. CASE why = "unreadable"
  <2>1. at = 2 /\ files = Found /\ n = Len(Found) /\ ReadThrows(files[k + 1])
    BY <1>1, <1>2, <1>4, StageAt DEF IInv, FilesInv, DocsInv, Loading
  <2>2. ~ AllReadable
    BY <1>1, <1>3, <2>1, FoundFiles DEF AllReadable, ReadThrows
  <2>3. QED
    BY <1>1, <1>2, <1>4, <2>1, <2>2, AbortStep
<1>5. CASE why = "no_bows"
  <2>1. at = 5 /\ task \in Detects /\ InferThrows(feats[k + 1])
    BY <1>1, <1>2, <1>5, StageAt
  <2>2. task # "languages"
    BY <2>1 DEF Detects, Groups
  <2>3. Detecting /\ n = Len(Passed)
    BY <1>1, <2>1, <2>2 DEF IInv, FeatsInv, Detecting
  <2>4. k + 1 \in DOMAIN Passed
    BY <1>1, <1>3, <2>3, PassedDocs
  <2>5. feats[k + 1] = Generated[k + 1]
    BY <1>1, <1>3, <2>3, <2>4 DEF Detecting, Visited
  <2>6. \E i \in DOMAIN Passed : InferThrows(Generated[i])
    BY <2>1, <2>4, <2>5
  <2>7. QED
    BY <1>1, <1>2, <1>5, <2>1, <2>6, AbortStep
<1>6. QED
  BY <1>2, <1>4, <1>5

\* A thread cannot be created.
LEMMA SpawnFailsStep ==
  ASSUME IInv, SpawnFails
  PROVE  IInv'
<1>1. /\ Abort("no_thread") /\ at \in Nat \ {0}
      /\ status = "running" \/ (Stage = "categories" /\ InMain)
  BY DEF SpawnFails, IInv, ControlInv
<1>2. CASE status = "running"
  <2>1. ~ Exited /\ ~ Terminated
    BY <1>2 DEF IInv, ControlInv, Terminated
  <2>2. QED
    BY <1>1, <1>2, <2>1, AbortStep
<1>3. CASE Stage = "categories" /\ InMain
  <2>1. ~ Exited /\ ~ Terminated
    BY <1>3 DEF Stage, InMain, Terminated
  <2>2. at = 6 /\ status = "returned"
    BY <1>1, <1>3, StageAt DEF IInv, ControlInv, InMain
  <2>3. QED
    BY <1>1, <1>3, <2>1, <2>2, AbortStep
<1>4. QED
  BY <1>1, <1>2, <1>3

\* The invariant holds at first.
LEMMA Initially == Init => IInv
<1> SUFFICES ASSUME Init PROVE IInv
  OBVIOUS
<1>1. /\ task \in Tasks /\ corpus \in Corpora /\ at = 1 /\ status = "idle" /\ n = 0
      /\ applied = [k \in 0 .. (0 - 1) |-> 0]
      /\ files = << >> /\ docs = << >> /\ ruen = << >>
      /\ feats = << >> /\ news = << >> /\ groups = << >> /\ reason = "none"
  BY DEF Init, P!Init, P!Slots
<1>2. Len(Program) \in Nat /\ Len(Program) >= 2
  BY Lengths
<1>3. ControlInv /\ ~ Exited
  BY <1>1, <1>2 DEF ControlInv, Exited
<1>4. FilesInv /\ DocsInv /\ RuenInv /\ FeatsInv /\ NewsInv /\ GroupsInv /\ OutInv
  BY <1>1, <1>3 DEF FilesInv, DocsInv, RuenInv, FeatsInv, NewsInv, GroupsInv, OutInv
<1>5. ReasonInv
  BY <1>1 DEF ReasonInv, Terminated
<1>6. QED
  BY <1>3, <1>4, <1>5 DEF IInv

\* A step that changes nothing keeps the invariant.
LEMMA StutterStep ==
  ASSUME IInv, UNCHANGED vars
  PROVE  IInv'
<1>1. UNCHANGED <<task, corpus, at, status, n, applied, files, docs, ruen, feats, news, groups, out, reason>>
  BY DEF vars, stageVars, dataVars
<1>2. /\ HtmlFiles' = HtmlFiles /\ Found' = Found /\ Recognized' = Recognized
      /\ Left' = Left /\ Kept' = Kept /\ Passed' = Passed
      /\ Generated' = Generated /\ Flagged' = Flagged
      /\ LeftFeats' = LeftFeats /\ News' = News
      /\ Program' = Program /\ GlobThrows' = GlobThrows
      /\ FirstError("filesystem")' = FirstError("filesystem")
      /\ FirstError("short_path")' = FirstError("short_path")
  BY <1>1, Frame
<1>3. /\ DumpThrows' = DumpThrows /\ TsvCrashes' = TsvCrashes
      /\ DumpLanguage' = DumpLanguage /\ DumpNewsDet' = DumpNewsDet
      /\ DumpGroups' = DumpGroups /\ DumpNewsDetTest' = DumpNewsDetTest
      /\ MakeTsv' = MakeTsv /\ CategoriesThrow' = CategoriesThrow
      /\ Categorized' = Categorized /\ Threaded' = Threaded
      /\ PrintThrows' = PrintThrows
  BY <1>1, OutputFrame
<1>4. Stage' = Stage /\ Exited' = Exited /\ \A i : Visited(i)' = Visited(i)
  BY <1>1, <1>2 DEF Stage, Exited, Visited
<1>5. /\ AllReadable' = AllReadable /\ Loading' = Loading /\ Recognizing' = Recognizing
      /\ Generating' = Generating /\ Detecting' = Detecting
  BY <1>1, <1>2, <1>4 DEF AllReadable, Loading, Recognizing, Generating, Detecting
<1>6. ControlInv' = ControlInv
  BY <1>1, <1>2, <1>4 DEF ControlInv
<1>7. FilesInv' /\ DocsInv' /\ RuenInv' /\ FeatsInv' /\ NewsInv' /\ GroupsInv'
  BY <1>1, <1>2, <1>3, <1>5
     DEF IInv, FilesInv, DocsInv, RuenInv, FeatsInv, NewsInv, GroupsInv
<1>8. OutInv'
  BY <1>1, <1>3, <1>4 DEF IInv, OutInv, Output
<1>9. ReasonInv'
  <2>1. \A i : InferThrows(Generated[i])' = InferThrows(Generated[i])
    BY <1>1, <1>2 DEF InferThrows, UrlSaysNews
  <2>2. QED
    BY <1>1, <1>2, <1>3, <1>4, <1>5, <2>1 DEF IInv, ReasonInv, Terminated
<1>10. QED
  BY <1>6, <1>7, <1>8, <1>9 DEF IInv

\* The invariant is inductive.
LEMMA Inductive == IInv /\ [Next]_vars => IInv'
<1> SUFFICES ASSUME IInv, [Next]_vars PROVE IInv'
  OBVIOUS
<1>1. CASE Main
  BY <1>1, GlobHTMLStep, LoadDocsStep, LoadDocsReturnStep, RecognizeLanguageStep,
     RecognizeLanguageReturnStep, GenerateFeaturesStep, GenerateFeaturesReturnStep,
     DetectNewsStep, DetectNewsReturnStep, GetCategoriesStep, GetThreadsStep,
     PrintResultStep, MainThrowsStep DEF Main
<1>2. ASSUME NEW k \in P!Slots, Body(k) \/ TaskThrows(k) PROVE IInv'
  BY <1>2, LoadDocsTaskStep, RecogTaskStep, GenerateFeaturesTaskStep, DetectNewsTaskStep,
     TaskThrowsStep DEF Body
<1>3. CASE SpawnFails
  BY <1>3, SpawnFailsStep
<1>4. CASE UNCHANGED vars
  BY <1>4, StutterStep
<1>5. QED
  BY <1>1, <1>2, <1>3, <1>4 DEF Next, Run, Stopped

\* In every state each vector has the value that the folder determines.
LEMMA Invariance == Spec => []IInv
BY Initially, Inductive, PTL DEF Spec

-----------------------------------------------------------------------------
\* What the values are.

\* t has the elements of s at the positions in I, its files in order.
PicksFiles(t, s, I) ==
  /\ Len(t) \in Nat /\ DOMAIN t = 1 .. Len(t)
  /\ \A a \in DOMAIN t : \E i \in I : t[a] = s[i]
  /\ \A i \in I : \E a \in DOMAIN t : t[a] = s[i]
  /\ \A a, b \in DOMAIN t : a < b => t[a].file < t[b].file

\* The files of a vector from which some elements are picked stay in order.
LEMMA PickedFiles ==
  ASSUME NEW m \in Nat, NEW I \in SUBSET (1 .. m), NEW s,
         \A i, j \in 1 .. m : i < j => s[i].file < s[j].file
  PROVE  PicksFiles(Picked(s, I), s, I)
<1> DEFINE t == Picked(s, I)
           h == InOrder(I)
           c == Cardinality(I)
<1>1. /\ c \in Nat /\ DOMAIN t = 1 .. c /\ Len(t) = c /\ h \in [1 .. c -> I]
      /\ \A a, b \in 1 .. c : a < b => h[a] < h[b]
      /\ \A x \in I : \E a \in 1 .. c : h[a] = x
      /\ \A a \in 1 .. c : t[a] = s[h[a]]
  <2>1. TakenInOrder(t, s, I, h)
    BY PickedIsInOrder
  <2>2. QED
    BY <2>1 DEF TakenInOrder
<1> HIDE DEF t, h, c
<1>2. \A a \in 1 .. c : h[a] \in I /\ h[a] \in 1 .. m
  BY <1>1
<1>3. ASSUME NEW a \in 1 .. c, NEW b \in 1 .. c, a < b PROVE t[a].file < t[b].file
  <2>1. h[a] < h[b] /\ h[a] \in 1 .. m /\ h[b] \in 1 .. m
    BY <1>1, <1>2, <1>3
  <2>2. s[h[a]].file < s[h[b]].file
    BY <2>1
  <2>3. t[a] = s[h[a]] /\ t[b] = s[h[b]]
    BY <1>1
  <2>4. QED
    BY <2>2, <2>3
<1>4. ASSUME NEW a \in 1 .. c PROVE \E i \in I : t[a] = s[i]
  <2>1. t[a] = s[h[a]] /\ h[a] \in I
    BY <1>1, <1>2
  <2>2. QED
    BY <2>1
<1>5. ASSUME NEW i \in I PROVE \E a \in 1 .. c : t[a] = s[i]
  <2>1. PICK a \in 1 .. c : h[a] = i
    BY <1>1
  <2>2. t[a] = s[h[a]]
    BY <1>1
  <2>3. QED
    BY <2>1, <2>2
<1>6. Len(t) \in Nat /\ DOMAIN t = 1 .. Len(t) /\ DOMAIN t = 1 .. c
  BY <1>1
<1>7. QED
  BY <1>3, <1>4, <1>5, <1>6 DEF t, PicksFiles

\* An entry stops GlobHTML when it is not reached, or when it is a regular file
\* whose path is shorter than ".html", for which size() - 5 wraps around.
LEMMA GlobErrors ==
  ASSUME corpus \in Corpora
  PROVE  LET unreached == \E i \in DOMAIN corpus : ~ corpus[i].reached
             short == \E i \in DOMAIN corpus : corpus[i].regular /\ corpus[i].size < 5
         IN  /\ GlobThrows <=> unreached \/ short
             /\ FirstError("filesystem") => unreached
             /\ FirstError("short_path") => short
<1>1. ASSUME NEW i \in DOMAIN corpus PROVE IsHTMLThrows(corpus[i]) <=> corpus[i].size < 5
  <2> DEFINE size == corpus[i].size
  <2>1. size \in Nat /\ SizeT \in Nat /\ size + 5 < SizeT
    BY CorporaAssumption, SizeTAssumption
  <2> HIDE DEF size
  <2>2. size < 5 => (size - 5) % SizeT = size - 5 + SizeT
    BY <2>1
  <2>3. ~ (size < 5) => (size - 5) % SizeT = size - 5
    BY <2>1
  <2>4. (size - 5) % SizeT > size <=> size < 5
    BY <2>1, <2>2, <2>3
  <2>5. QED
    BY <2>4 DEF IsHTMLThrows, SuffixPos, size
<1>2. ASSUME NEW i \in DOMAIN corpus
      PROVE  /\ EntryError(corpus[i]) = "filesystem" => ~ corpus[i].reached
             /\ EntryError(corpus[i]) = "short_path" => corpus[i].regular /\ corpus[i].size < 5
             /\ EntryError(corpus[i]) # "none" <=>
                  ~ corpus[i].reached \/ (corpus[i].regular /\ corpus[i].size < 5)
  BY <1>1 DEF EntryError
<1>3. QED
  BY <1>2 DEF GlobThrows, FirstError

\* The recognised documents.
LEMMA RecognizedDocs ==
  ASSUME corpus \in Corpora
  PROVE  /\ DOMAIN Recognized = 1 .. Len(Found) /\ Len(Found) \in Nat
         /\ \A i \in 1 .. Len(Found) :
              /\ Recognized[i].file = Found[i] /\ Recognized[i].lang = RefLang(Found[i])
              /\ Found[i] \in HtmlFiles
         /\ \A i, j \in 1 .. Len(Found) : i < j => Recognized[i].file < Recognized[j].file
         /\ RuEnAt \in SUBSET (1 .. Len(Found))
BY FoundFiles DEF Recognized, RuEnAt

\* Of the tasks that go on with it, RecognizeLanguage returns the documents in
\* Russian and English, in order.
LEMMA KeptDocs ==
  ASSUME corpus \in Corpora, UsesReturned
  PROVE  /\ Len(Kept) \in Nat /\ DOMAIN Kept = 1 .. Len(Kept)
         /\ \A a \in DOMAIN Kept :
              /\ Kept[a].file \in HtmlFiles /\ Kept[a].lang = RefLang(Kept[a].file)
              /\ RefLang(Kept[a].file) \in {"ru", "en"}
         /\ \A a, b \in DOMAIN Kept : a < b => Kept[a].file < Kept[b].file
         /\ \A f \in HtmlFiles : RefLang(f) \in {"ru", "en"} => \E a \in DOMAIN Kept : Kept[a].file = f
<1>1. Kept = Picked(Recognized, RuEnAt)
  BY DEF Kept
<1>2. /\ Len(Kept) \in Nat /\ DOMAIN Kept = 1 .. Len(Kept)
      /\ \A a \in DOMAIN Kept : \E i \in RuEnAt : Kept[a] = Recognized[i]
      /\ \A i \in RuEnAt : \E a \in DOMAIN Kept : Kept[a] = Recognized[i]
      /\ \A a, b \in DOMAIN Kept : a < b => Kept[a].file < Kept[b].file
  <2>1. /\ Len(Found) \in Nat /\ RuEnAt \in SUBSET (1 .. Len(Found))
        /\ \A i, j \in 1 .. Len(Found) : i < j => Recognized[i].file < Recognized[j].file
    BY RecognizedDocs
  <2>2. PicksFiles(Picked(Recognized, RuEnAt), Recognized, RuEnAt)
    BY <2>1, PickedFiles
  <2>3. QED
    BY <1>1, <2>2 DEF PicksFiles
<1>3. \A i \in RuEnAt : RefLang(Found[i]) \in {"ru", "en"} /\ i \in 1 .. Len(Found)
  BY RecognizedDocs DEF RuEnAt
<1>4. ASSUME NEW a \in DOMAIN Kept
      PROVE  /\ Kept[a].file \in HtmlFiles /\ Kept[a].lang = RefLang(Kept[a].file)
             /\ RefLang(Kept[a].file) \in {"ru", "en"}
  <2>1. PICK i \in RuEnAt : Kept[a] = Recognized[i]
    BY <1>2
  <2>2. i \in 1 .. Len(Found) /\ RefLang(Found[i]) \in {"ru", "en"}
    BY <1>3
  <2>3. /\ Recognized[i].file = Found[i] /\ Recognized[i].lang = RefLang(Found[i])
        /\ Found[i] \in HtmlFiles
    BY <2>2, RecognizedDocs
  <2>4. QED
    BY <2>1, <2>2, <2>3
<1>5. ASSUME NEW f \in HtmlFiles, RefLang(f) \in {"ru", "en"}
      PROVE  \E a \in DOMAIN Kept : Kept[a].file = f
  <2>1. PICK i \in DOMAIN Found : Found[i] = f
    BY FoundFiles
  <2>2. i \in RuEnAt /\ Recognized[i].file = f
    BY <1>5, <2>1, RecognizedDocs, FoundFiles DEF RuEnAt
  <2>3. QED
    BY <1>2, <2>2
<1>6. QED
  BY <1>2, <1>4, <1>5

\* What DetectNewsTask makes of a document in Russian or English.
LEMMA FlaggedFeats ==
  ASSUME corpus \in Corpora, UsesReturned
  PROVE  /\ Passed = Kept
         /\ \A i \in DOMAIN Kept :
              /\ Flagged[i].file = Kept[i].file /\ Flagged[i].lang = Kept[i].lang
              /\ Generated[i].file = Kept[i].file
              /\ Flagged[i].isNews \in BOOLEAN
              /\ Flagged[i].isNews <=> Kept[i].file \in AllNews
<1>1. Passed = Kept
  BY DEF Passed
<1>2. ASSUME NEW i \in DOMAIN Kept
      PROVE  /\ Flagged[i].file = Kept[i].file /\ Flagged[i].lang = Kept[i].lang
             /\ Generated[i].file = Kept[i].file
             /\ Flagged[i].isNews \in BOOLEAN
             /\ Flagged[i].isNews <=> Kept[i].file \in AllNews
  <2> DEFINE f == Kept[i].file
             g == Generated[i]
  <2>1. /\ f \in HtmlFiles /\ f \in DOMAIN corpus /\ f # 0
        /\ Kept[i].lang = RefLang(f) /\ RefLang(f) \in {"ru", "en"}
    BY KeptDocs, CorporaAssumption DEF HtmlFiles
  <2>2. corpus[f].url \subseteq {"host", "path"} /\ corpus[f].likely \in BOOLEAN
    BY <2>1, CorporaAssumption
  <2>3. f \in AllNews <=> "path" \in corpus[f].url \/ corpus[f].likely
    BY <2>1 DEF AllNews, NewsIn, InLang
  <2>4. g.file = f /\ g.lang = RefLang(f)
    BY <1>1, <2>1 DEF Generated, FeaturesOf
  <2>5. Flagged[i] = Detected(g)
    BY <1>1 DEF Flagged
  <2> HIDE DEF f, g
  <2>6. UrlSaysNews(g) <=> "path" \in corpus[f].url
    BY <2>1, <2>2, <2>4 DEF UrlSaysNews
  <2>7. RuEn(g)
    BY <2>1, <2>4 DEF RuEn
  <2>8. Flagged[i] = Flag(g, "one", TRUE) \/ Flagged[i] = Flag(g, "model", corpus[f].likely)
    BY <2>4, <2>5, <2>7 DEF Detected
  <2>9. Flagged[i].file = f /\ Flagged[i].lang = RefLang(f) /\ Flagged[i].isNews \in BOOLEAN
    <3>1. CASE Flagged[i] = Flag(g, "one", TRUE)
      BY <2>4, <3>1 DEF Flag
    <3>2. CASE Flagged[i] = Flag(g, "model", corpus[f].likely)
      BY <2>2, <2>4, <3>2 DEF Flag
    <3>3. QED
      BY <2>8, <3>1, <3>2
  <2>10. Flagged[i].isNews <=> f \in AllNews
    BY <2>2, <2>3, <2>4, <2>5, <2>6, <2>7 DEF Detected, Flag
  <2>11. QED
    BY <2>1, <2>4, <2>9, <2>10 DEF f, g
<1>3. QED
  BY <1>1, <1>2

\* DetectNews returns the news, in order.
LEMMA NewsFeats ==
  ASSUME corpus \in Corpora, UsesReturned
  PROVE  /\ Len(News) \in Nat /\ DOMAIN News = 1 .. Len(News)
         /\ \A a \in DOMAIN News :
              /\ News[a].file \in AllNews /\ News[a].lang = RefLang(News[a].file)
              /\ RefLang(News[a].file) \in {"ru", "en"}
              /\ News[a].isNews
         /\ \A a, b \in DOMAIN News : a < b => News[a].file < News[b].file
         /\ \A f \in AllNews : \E a \in DOMAIN News : News[a].file = f
<1>1. /\ Len(Kept) \in Nat /\ DOMAIN Kept = 1 .. Len(Kept) /\ Passed = Kept
      /\ NewsAt \in SUBSET (1 .. Len(Kept))
      /\ \A i \in NewsAt : i \in DOMAIN Kept /\ Flagged[i].isNews
  BY KeptDocs, FlaggedFeats DEF NewsAt
<1>2. \A i, j \in 1 .. Len(Kept) : i < j => Flagged[i].file < Flagged[j].file
  BY <1>1, KeptDocs, FlaggedFeats
<1>3. /\ Len(News) \in Nat /\ DOMAIN News = 1 .. Len(News)
      /\ \A a \in DOMAIN News : \E i \in NewsAt : News[a] = Flagged[i]
      /\ \A i \in NewsAt : \E a \in DOMAIN News : News[a] = Flagged[i]
      /\ \A a, b \in DOMAIN News : a < b => News[a].file < News[b].file
  <2>1. PicksFiles(Picked(Flagged, NewsAt), Flagged, NewsAt)
    BY <1>1, <1>2, PickedFiles
  <2>2. QED
    BY <2>1 DEF News, PicksFiles
<1>4. ASSUME NEW a \in DOMAIN News
      PROVE  /\ News[a].file \in AllNews /\ News[a].lang = RefLang(News[a].file)
             /\ RefLang(News[a].file) \in {"ru", "en"} /\ News[a].isNews
  <2>1. PICK i \in NewsAt : News[a] = Flagged[i]
    BY <1>3
  <2>2. QED
    BY <1>1, <2>1, KeptDocs, FlaggedFeats
<1>5. ASSUME NEW f \in AllNews PROVE \E a \in DOMAIN News : News[a].file = f
  <2>1. f \in HtmlFiles /\ RefLang(f) \in {"ru", "en"}
    BY DEF AllNews, NewsIn, InLang
  <2>2. PICK i \in DOMAIN Kept : Kept[i].file = f
    BY <2>1, KeptDocs
  <2>3. i \in NewsAt /\ Flagged[i].file = f
    BY <1>1, <2>2, FlaggedFeats DEF NewsAt
  <2>4. QED
    BY <1>3, <2>3
<1>6. QED
  BY <1>3, <1>4, <1>5

-----------------------------------------------------------------------------
\* Types.

DocOK(d) == d.file \in {0} \cup DOMAIN corpus /\ d.lang \in Languages

FeatOK(f) ==
  /\ f.file \in {0} \cup DOMAIN corpus /\ f.lang \in Languages
  /\ f.bows \in BOOLEAN /\ f.isNews \in BOOLEAN
  /\ f.score \in {"zero", "one", "model"}

\* Every element of the vectors of documents has its type.
LEMMA DocTypes ==
  ASSUME corpus \in Corpora
  PROVE  /\ \A i \in DOMAIN Found : DocOK(Recognized[i]) /\ DocOK(HTMLDocument(Found[i]))
         /\ DocOK(EmptyDocument)
         /\ \A i \in DOMAIN Left : DocOK(Left[i])
         /\ \A i \in DOMAIN Kept : DocOK(Kept[i])
         /\ \A i \in DOMAIN Passed : DocOK(Passed[i])
<1>1. \A f \in HtmlFiles : f \in DOMAIN corpus /\ RefLang(f) \in Languages
  BY DEF HtmlFiles, RefLang, Languages
<1>2. \A i \in DOMAIN Found : DocOK(Recognized[i]) /\ DocOK(HTMLDocument(Found[i]))
  <2>1. "" \in Languages
    BY DEF Languages
  <2>2. QED
    BY <1>1, <2>1, FoundFiles DEF Recognized, HTMLDocument, DocOK
<1>3. DocOK(EmptyDocument)
  BY DEF EmptyDocument, DocOK, Languages
<1>4. \A i \in DOMAIN Left : DocOK(Left[i])
  BY <1>2, <1>3 DEF Left
<1>5. \A i \in DOMAIN Kept : DocOK(Kept[i])
  <2>1. CASE UsesReturned
    <3>1. ASSUME NEW i \in DOMAIN Kept PROVE DocOK(Kept[i])
      <4>1. Kept[i].file \in HtmlFiles /\ Kept[i].lang = RefLang(Kept[i].file)
        BY <2>1, KeptDocs
      <4>2. QED
        BY <1>1, <4>1 DEF DocOK
    <3>2. QED
      BY <3>1
  <2>2. CASE ~ UsesReturned
    BY <2>2 DEF Kept
  <2>3. QED
    BY <2>1, <2>2
<1>6. QED
  BY <1>2, <1>3, <1>4, <1>5 DEF Passed

\* A document without a name is in no language that the models know.
LEMMA Unnamed ==
  ASSUME corpus \in Corpora, NEW i \in DOMAIN Passed, Passed[i].file = 0
  PROVE  Passed[i].lang \notin {"ru", "en"}
<1>1. \A f \in HtmlFiles : f # 0
  BY CorporaAssumption DEF HtmlFiles
<1>2. ~ UsesReturned
  BY <1>1, KeptDocs DEF Passed
<1>3. i \in DOMAIN Found /\ Passed[i] = Left[i]
  BY <1>2 DEF Passed, Left
<1>4. Recognized[i].file = Found[i] /\ Found[i] # 0
  BY <1>1, <1>3, FoundFiles DEF Recognized
<1>5. Left[i] = IF i \in RuEnAt THEN EmptyDocument ELSE Recognized[i]
  BY <1>3 DEF Left
<1>6. Passed[i] = EmptyDocument
  BY <1>3, <1>4, <1>5
<1>7. EmptyDocument.lang \notin {"ru", "en"}
  BY DEF EmptyDocument
<1>8. QED
  BY <1>6, <1>7

\* Every element of the vectors of features has its type.
LEMMA FeatTypes ==
  ASSUME corpus \in Corpora
  PROVE  /\ \A i \in DOMAIN Passed : FeatOK(Generated[i]) /\ FeatOK(Flagged[i])
         /\ FeatOK(EmptyFeatures)
         /\ \A i \in DOMAIN LeftFeats : FeatOK(LeftFeats[i])
         /\ \A i \in DOMAIN News : FeatOK(News[i])
<1>1. FeatOK(EmptyFeatures)
  BY DEF EmptyFeatures, FeatOK, Languages
<1>2. ASSUME NEW i \in DOMAIN Passed PROVE FeatOK(Generated[i])
  <2>1. Generated[i] = FeaturesOf(Passed[i], EmptyFeatures) /\ DocOK(Passed[i])
    BY DocTypes DEF Generated
  <2>2. HasBows(Passed[i]) \in BOOLEAN
    BY DEF HasBows
  <2>3. QED
    BY <2>1, <2>2 DEF FeaturesOf, EmptyFeatures, DocOK, FeatOK
<1>3. \A f \in DOMAIN corpus : corpus[f].likely \in BOOLEAN
  BY CorporaAssumption
<1>4. ASSUME NEW i \in DOMAIN Passed PROVE FeatOK(Flagged[i])
  <2> DEFINE g == Generated[i]
  <2>1. Flagged[i] = Detected(g) /\ FeatOK(g)
    BY <1>2 DEF Flagged
  <2>2. g.file = 0 => ~ RuEn(g)
    BY Unnamed DEF Generated, FeaturesOf, RuEn
  <2> HIDE DEF g
  <2>3. CASE Flagged[i] = Flag(g, "one", TRUE)
    BY <2>1, <2>3 DEF Flag, FeatOK
  <2>4. CASE Flagged[i] = g
    BY <2>1, <2>4
  <2>5. CASE RuEn(g) /\ Flagged[i] = Flag(g, "model", corpus[g.file].likely)
    <3>1. g.file \in DOMAIN corpus
      BY <2>1, <2>2, <2>5 DEF FeatOK
    <3>2. QED
      BY <1>3, <2>1, <2>5, <3>1 DEF Flag, FeatOK
  <2>6. QED
    BY <2>1, <2>3, <2>4, <2>5 DEF Detected
<1>5. \A i \in DOMAIN LeftFeats : FeatOK(LeftFeats[i])
  <2>1. \A f : FeatOK(f) => FeatOK(MovedFrom(f))
    BY <1>1 DEF FeatOK, MovedFrom, Flag
  <2>2. QED
    BY <1>4, <2>1 DEF LeftFeats
<1>6. \A i \in DOMAIN News : FeatOK(News[i])
  <2>1. Len(Passed) \in Nat /\ NewsAt \in SUBSET (1 .. Len(Passed)) /\ DOMAIN Passed = 1 .. Len(Passed)
    BY PassedDocs DEF NewsAt
  <2>2. \A a \in DOMAIN News : \E i \in NewsAt : News[a] = Flagged[i]
    <3> DEFINE c == Cardinality(NewsAt)
               h == InOrder(NewsAt)
    <3>1. /\ DOMAIN News = 1 .. c /\ h \in [1 .. c -> NewsAt]
          /\ \A a \in 1 .. c : News[a] = Flagged[h[a]]
      <4>1. TakenInOrder(Picked(Flagged, NewsAt), Flagged, NewsAt, InOrder(NewsAt))
        BY <2>1, PickedIsInOrder
      <4>2. QED
        BY <4>1 DEF TakenInOrder, News
    <3> HIDE DEF c, h
    <3>2. QED
      BY <3>1
  <2>3. QED
    BY <1>4, <2>1, <2>2
<1>7. QED
  BY <1>1, <1>2, <1>4, <1>5, <1>6

\* The vectors of main always hold what their types say (tgnews.cpp:17-48).
THEOREM TypeCorrect == Spec => []TypeOK
<1>1. IInv => TypeOK
  <2> SUFFICES ASSUME IInv PROVE TypeOK
    OBVIOUS
  <2>1. ControlInv /\ corpus \in Corpora /\ at \in Nat \ {0}
    BY DEF IInv, ControlInv
  <2>2. files \in Seq(DOMAIN corpus)
    <3>1. CASE at = 1
      BY <3>1 DEF IInv, FilesInv
    <3>2. CASE at # 1
      <4>1. files = Found
        BY <2>1, <3>2 DEF IInv, FilesInv
      <4>2. /\ Len(Found) \in Nat /\ DOMAIN Found = 1 .. Len(Found)
            /\ \A i \in DOMAIN Found : Found[i] \in DOMAIN corpus
        BY <2>1, FoundFiles DEF HtmlFiles
      <4>3. HtmlFiles \subseteq DOMAIN corpus
        BY DEF HtmlFiles
      <4>4. Found \in [1 .. Len(Found) -> DOMAIN corpus]
        <5>1. Len(corpus) \in Nat /\ HtmlFiles \in SUBSET (1 .. Len(corpus))
          BY <2>1, CorporaAssumption DEF HtmlFiles
        <5>2. Found \in [1 .. Cardinality(HtmlFiles) -> HtmlFiles]
          BY <5>1, InOrderEnumerates DEF Enumerates, Found
        <5>3. QED
          BY <4>2, <5>2
      <4>5. QED
        BY <4>1, <4>2, <4>4
    <3>3. QED
      BY <3>1, <3>2
  <2>3. \A i \in DOMAIN docs : DocOK(docs[i])
    <3>1. CASE docs = << >>
      BY <3>1
    <3>2. CASE Loading
      BY <2>1, <3>2, DocTypes DEF Loading
    <3>3. CASE Recognizing
      BY <2>1, <3>3, DocTypes DEF Recognizing
    <3>4. CASE docs = Left
      BY <2>1, <3>4, DocTypes
    <3>5. QED
      BY <2>1, <3>1, <3>2, <3>3, <3>4 DEF IInv, DocsInv
  <2>4. \A i \in DOMAIN ruen : DocOK(ruen[i])
    <3>1. ruen = Kept \/ ruen = << >>
      BY DEF IInv, RuenInv
    <3>2. QED
      BY <2>1, <3>1, DocTypes
  <2>5. \A i \in DOMAIN feats : FeatOK(feats[i])
    <3>1. CASE feats = << >>
      BY <3>1
    <3>2. CASE Generating
      BY <2>1, <3>2, FeatTypes DEF Generating
    <3>3. CASE Detecting
      BY <2>1, <3>3, FeatTypes DEF Detecting
    <3>4. CASE feats = LeftFeats
      BY <2>1, <3>4, FeatTypes
    <3>5. QED
      BY <2>1, <3>1, <3>2, <3>3, <3>4 DEF IInv, FeatsInv
  <2>6. \A i \in DOMAIN news : FeatOK(news[i])
    <3>1. news = News \/ news = << >>
      BY DEF IInv, NewsInv
    <3>2. QED
      BY <2>1, <3>1, FeatTypes
  <2>7. (reason # "none") = Terminated
    BY DEF IInv, ReasonInv
  <2>8. QED
    BY <2>1, <2>2, <2>3, <2>4, <2>5, <2>6, <2>7 DEF TypeOK, ControlInv, DocOK, FeatOK
<1>2. QED
  BY <1>1, Invariance, PTL

-----------------------------------------------------------------------------
\* Ownership.

\* A file that one element names is held once.
LEMMA HeldOnce ==
  ASSUME NEW v, NEW i \in DOMAIN v, \A j \in DOMAIN v : v[j].file = v[i].file => j = i
  PROVE  Held(v, v[i].file) = 1
<1>1. {j \in DOMAIN v : v[j].file = v[i].file} = {i}
  OBVIOUS
<1>2. QED
  BY <1>1, FS_Singleton DEF Held

\* A file that no element names is not held.
LEMMA HeldNever ==
  ASSUME NEW v, NEW f, \A j \in DOMAIN v : v[j].file # f
  PROVE  Held(v, f) = 0
<1>1. {j \in DOMAIN v : v[j].file = f} = {}
  OBVIOUS
<1>2. QED
  BY <1>1, FS_EmptySet DEF Held

\* Each file found is in exactly one of what RecognizeLanguage leaves behind
\* and what it returns.
LEMMA FilesOwned ==
  ASSUME corpus \in Corpora, UsesReturned, NEW i \in DOMAIN Found
  PROVE  Held(Left, Found[i]) + Held(Kept, Found[i]) = 1
<1>1. /\ \A j \in DOMAIN Found : Found[j] \in HtmlFiles /\ (Found[j] = Found[i] => j = i)
      /\ \A f \in HtmlFiles : f \in Nat \ {0}
  <2>1. \A f \in HtmlFiles : f \in Nat \ {0}
    BY CorporaAssumption DEF HtmlFiles
  <2>2. /\ DOMAIN Found = 1 .. Len(Found) /\ Len(Found) \in Nat
        /\ \A j \in DOMAIN Found : Found[j] \in HtmlFiles
        /\ \A a, b \in DOMAIN Found : a < b => Found[a] < Found[b]
    BY FoundFiles
  <2>3. ASSUME NEW j \in DOMAIN Found, Found[j] = Found[i] PROVE j = i
    <3>1. ~ (j < i) /\ ~ (i < j) /\ i \in Nat /\ j \in Nat
      BY <2>1, <2>2, <2>3
    <3>2. QED
      BY <3>1
  <2>4. QED
    BY <2>1, <2>2, <2>3
<1>2. \A j \in DOMAIN Left : Left[j].file = IF j \in RuEnAt THEN 0 ELSE Found[j]
  BY DEF Left, Recognized, EmptyDocument
<1>3. DOMAIN Left = DOMAIN Found
  BY DEF Left
<1>4. \A a, b \in DOMAIN Kept : Kept[a].file = Kept[b].file => a = b
  <2>1. SUFFICES ASSUME NEW a \in DOMAIN Kept, NEW b \in DOMAIN Kept, Kept[a].file = Kept[b].file
                 PROVE  a = b
    OBVIOUS
  <2>2. Kept[a].file \in Nat /\ a \in Nat /\ b \in Nat
    BY <1>1, KeptDocs
  <2>3. ~ (a < b) /\ ~ (b < a)
    BY <2>1, <2>2, KeptDocs
  <2>4. QED
    BY <2>2, <2>3
<1>5. CASE i \in RuEnAt
  <2>1. Held(Left, Found[i]) = 0
    BY <1>1, <1>2, <1>3, <1>5, HeldNever
  <2>2. RefLang(Found[i]) \in {"ru", "en"}
    BY <1>5 DEF RuEnAt
  <2>3. PICK a \in DOMAIN Kept : Kept[a].file = Found[i]
    BY <1>1, <2>2, KeptDocs
  <2>4. Held(Kept, Kept[a].file) = 1
    BY <1>4, HeldOnce
  <2>5. QED
    BY <2>1, <2>3, <2>4
<1>6. CASE i \notin RuEnAt
  <2>1. RefLang(Found[i]) \notin {"ru", "en"}
    BY <1>6 DEF RuEnAt
  <2>2. \A a \in DOMAIN Kept : Kept[a].file # Found[i]
    BY <2>1, KeptDocs
  <2>3. Held(Kept, Found[i]) = 0
    BY <2>2, HeldNever
  <2>4. Left[i].file = Found[i]
    BY <1>2, <1>3, <1>6
  <2>5. \A j \in DOMAIN Left : Left[j].file = Left[i].file => j = i
    BY <1>1, <1>2, <1>3, <2>4
  <2>6. Held(Left, Left[i].file) = 1
    BY <1>3, <2>5, HeldOnce
  <2>7. QED
    BY <2>3, <2>4, <2>6
<1>7. QED
  BY <1>5, <1>6

\* Each document returned is in exactly one of what DetectNews leaves behind
\* and what it returns.
LEMMA FeatsOwned ==
  ASSUME corpus \in Corpora, UsesReturned, NEW i \in DOMAIN Kept
  PROVE  /\ Held(Generated, Kept[i].file) = 1 /\ Held(Flagged, Kept[i].file) = 1
         /\ Held(LeftFeats, Kept[i].file) + Held(News, Kept[i].file) = 1
         /\ \A v : (/\ DOMAIN v = DOMAIN Kept
                    /\ \A j \in DOMAIN Kept : v[j].file = Kept[j].file)
                   => Held(v, Kept[i].file) = 1
<1>1. \A f \in HtmlFiles : f \in Nat \ {0}
  BY CorporaAssumption DEF HtmlFiles
<1>2. \A a, b \in DOMAIN Kept : Kept[a].file = Kept[b].file => a = b
  <2>1. SUFFICES ASSUME NEW a \in DOMAIN Kept, NEW b \in DOMAIN Kept, Kept[a].file = Kept[b].file
                 PROVE  a = b
    OBVIOUS
  <2>2. Kept[a].file \in Nat /\ a \in Nat /\ b \in Nat
    BY <1>1, KeptDocs
  <2>3. ~ (a < b) /\ ~ (b < a)
    BY <2>1, <2>2, KeptDocs
  <2>4. QED
    BY <2>2, <2>3
<1>3. ASSUME NEW v, DOMAIN v = DOMAIN Kept, \A j \in DOMAIN Kept : v[j].file = Kept[j].file
      PROVE  Held(v, Kept[i].file) = 1
  <2>1. \A j \in DOMAIN v : v[j].file = v[i].file => j = i
    BY <1>2, <1>3
  <2>2. QED
    BY <1>3, <2>1, HeldOnce
<1>4. Passed = Kept /\ DOMAIN Flagged = DOMAIN Kept /\ DOMAIN Generated = DOMAIN Kept
  BY FlaggedFeats DEF Flagged, Generated
<1>5. Held(Generated, Kept[i].file) = 1 /\ Held(Flagged, Kept[i].file) = 1
  BY <1>3, <1>4, FlaggedFeats
<1>6. /\ DOMAIN LeftFeats = DOMAIN Kept
      /\ \A j \in DOMAIN Kept : LeftFeats[j].file = IF j \in NewsAt THEN 0 ELSE Kept[j].file
  BY <1>4, FlaggedFeats DEF LeftFeats, MovedFrom, Flag, EmptyFeatures
<1>7. \A j \in DOMAIN Kept : j \in NewsAt <=> Kept[j].file \in AllNews
  BY <1>4, FlaggedFeats DEF NewsAt
<1>8. Kept[i].file \in Nat \ {0}
  BY <1>1, KeptDocs
<1>9. CASE i \in NewsAt
  <2>1. \A j \in DOMAIN LeftFeats : LeftFeats[j].file # Kept[i].file
    BY <1>2, <1>6, <1>8, <1>9
  <2>2. Held(LeftFeats, Kept[i].file) = 0
    BY <2>1, HeldNever
  <2>3. PICK a \in DOMAIN News : News[a].file = Kept[i].file
    BY <1>7, <1>9, NewsFeats
  <2>4. \A b \in DOMAIN News : News[b].file = News[a].file => b = a
    <3>1. SUFFICES ASSUME NEW b \in DOMAIN News, News[b].file = News[a].file PROVE b = a
      OBVIOUS
    <3>2. a \in Nat /\ b \in Nat /\ News[a].file \in Nat
      BY <1>8, <2>3, NewsFeats
    <3>3. ~ (a < b) /\ ~ (b < a)
      BY <3>1, <3>2, NewsFeats
    <3>4. QED
      BY <3>2, <3>3
  <2>5. Held(News, News[a].file) = 1
    BY <2>4, HeldOnce
  <2>6. QED
    BY <1>3, <1>5, <2>2, <2>3, <2>5
<1>10. CASE i \notin NewsAt
  <2>1. \A a \in DOMAIN News : News[a].file # Kept[i].file
    BY <1>7, <1>10, NewsFeats
  <2>2. Held(News, Kept[i].file) = 0
    BY <2>1, HeldNever
  <2>3. LeftFeats[i].file = Kept[i].file
    BY <1>6, <1>10
  <2>4. \A j \in DOMAIN LeftFeats : LeftFeats[j].file = LeftFeats[i].file => j = i
    BY <1>2, <1>6, <1>8, <2>3
  <2>5. Held(LeftFeats, LeftFeats[i].file) = 1
    BY <1>6, <2>4, HeldOnce
  <2>6. QED
    BY <1>3, <1>5, <2>2, <2>3, <2>5
<1>11. QED
  BY <1>9, <1>10

\* Moving documents and features from vector to vector neither loses nor
\* duplicates one (langrec.hpp:70-75, news_det.hpp:74-79).
THEOREM OwnedOnce == Spec => []OneOwner
<1>1. IInv => OneOwner
  <2> SUFFICES ASSUME IInv, UsesReturned
               PROVE  /\ at > 2 => \A f \in ToSet(files) : Held(docs, f) + Held(ruen, f) = 1
                      /\ at > 4 /\ task # "languages" => \A i \in DOMAIN ruen :
                           Held(feats, ruen[i].file) + Held(news, ruen[i].file) = 1
    BY DEF OneOwner
  <2>1. corpus \in Corpora /\ at \in Nat
    BY DEF IInv, ControlInv
  <2>2. \A f : Held(<< >>, f) = 0
    BY HeldNever
  <2>3. ASSUME at > 2, NEW f \in ToSet(files) PROVE Held(docs, f) + Held(ruen, f) = 1
    <3>1. files = Found
      BY <2>1, <2>3 DEF IInv, FilesInv
    <3>2. PICK i \in DOMAIN Found : f = Found[i]
      BY <2>3, <3>1 DEF ToSet
    <3>3. CASE at = 3
      <4>1. ruen = << >> /\ Recognizing
        BY <3>3 DEF IInv, RuenInv, DocsInv
      <4>2. DOMAIN docs = DOMAIN Found /\ \A j \in DOMAIN Found : docs[j].file = Found[j]
        BY <4>1 DEF Recognizing, Recognized, HTMLDocument
      <4>3. /\ DOMAIN Found = 1 .. Len(Found) /\ Len(Found) \in Nat
            /\ \A j \in DOMAIN Found : Found[j] \in Nat
            /\ \A a, b \in DOMAIN Found : a < b => Found[a] < Found[b]
        BY <2>1, FoundFiles, CorporaAssumption DEF HtmlFiles
      <4>4. \A j \in DOMAIN docs : docs[j].file = docs[i].file => j = i
        BY <4>2, <4>3
      <4>5. Held(docs, docs[i].file) = 1
        BY <4>2, <4>4, HeldOnce
      <4>6. QED
        BY <2>2, <3>2, <4>1, <4>2, <4>5
    <3>4. CASE at # 3
      <4>1. docs = Left /\ ruen = Kept
        BY <2>1, <2>3, <3>4 DEF IInv, DocsInv, RuenInv
      <4>2. QED
        BY <2>1, <3>2, <4>1, FilesOwned
    <3>5. QED
      BY <3>3, <3>4
  <2>4. ASSUME at > 4, task # "languages", NEW i \in DOMAIN ruen
        PROVE  Held(feats, ruen[i].file) + Held(news, ruen[i].file) = 1
    <3>1. ruen = Kept
      BY <2>1, <2>4 DEF IInv, RuenInv
    <3>2. CASE at = 5
      <4>1. news = << >> /\ Detecting
        BY <2>4, <3>2 DEF IInv, NewsInv, FeatsInv
      <4>2. DOMAIN feats = DOMAIN Kept /\ \A j \in DOMAIN Kept : feats[j].file = Kept[j].file
        BY <2>1, <4>1, FlaggedFeats DEF Detecting
      <4>3. Held(feats, Kept[i].file) = 1
        BY <2>1, <2>4, <3>1, <4>2, FeatsOwned
      <4>4. QED
        BY <2>2, <3>1, <4>1, <4>3
    <3>3. CASE at # 5
      <4>1. feats = LeftFeats /\ news = News
        BY <2>1, <2>4, <3>3 DEF IInv, NewsInv, FeatsInv
      <4>2. QED
        BY <2>1, <2>4, <3>1, <4>1, FeatsOwned
    <3>4. QED
      BY <3>2, <3>3
  <2>5. QED
    BY <2>3, <2>4
<1>2. QED
  BY <1>1, Invariance, PTL

-----------------------------------------------------------------------------
\* Termination.

\* The language tests of GenerateFeaturesTask and DetectNewsTask agree, so
\* bows_.at never throws.
LEMMA BowsThere ==
  ASSUME NEW i \in DOMAIN Passed
  PROVE  ~ InferThrows(Generated[i])
<1>1. Generated[i] = FeaturesOf(Passed[i], EmptyFeatures)
  BY DEF Generated
<1>2. Generated[i].bows = HasBows(Passed[i]) /\ Generated[i].lang = Passed[i].lang
  BY <1>1 DEF FeaturesOf
<1>3. RuEn(Generated[i]) => HasBows(Passed[i])
  BY <1>2 DEF RuEn, HasBows
<1>4. QED
  BY <1>2, <1>3 DEF InferThrows

\* The news of a language, as GetCategories sends them.
LEMMA LangNews ==
  ASSUME corpus \in Corpora, UsesReturned, news = News, NEW lang \in {"ru", "en"}
  PROVE  /\ Len(Lang2Docs(lang)) \in Nat /\ DOMAIN Lang2Docs(lang) = 1 .. Len(Lang2Docs(lang))
         /\ \A a \in DOMAIN Lang2Docs(lang) : Lang2Docs(lang)[a].file \in NewsIn(lang)
         /\ \A a, b \in DOMAIN Lang2Docs(lang) : a < b => Lang2Docs(lang)[a].file < Lang2Docs(lang)[b].file
         /\ \A f \in NewsIn(lang) : \E a \in DOMAIN Lang2Docs(lang) : Lang2Docs(lang)[a].file = f
<1> DEFINE t == Lang2Docs(lang)
           I == {i \in DOMAIN News : News[i].lang = lang}
<1>1. /\ Len(News) \in Nat /\ DOMAIN News = 1 .. Len(News) /\ I \in SUBSET (1 .. Len(News))
      /\ \A i, j \in 1 .. Len(News) : i < j => News[i].file < News[j].file
  BY NewsFeats
<1>2. t = Picked(News, I)
  BY DEF Lang2Docs
<1> HIDE DEF t
<1>3. /\ Len(t) \in Nat /\ DOMAIN t = 1 .. Len(t)
      /\ \A a \in DOMAIN t : \E i \in I : t[a] = News[i]
      /\ \A i \in I : \E a \in DOMAIN t : t[a] = News[i]
      /\ \A a, b \in DOMAIN t : a < b => t[a].file < t[b].file
  <2> HIDE DEF I
  <2>1. PicksFiles(Picked(News, I), News, I)
    BY <1>1, PickedFiles
  <2>2. QED
    BY <1>2, <2>1 DEF PicksFiles
<1>4. \A f : f \in AllNews /\ RefLang(f) = lang <=> f \in NewsIn(lang)
  BY DEF AllNews, NewsIn, InLang
<1>5. ASSUME NEW a \in DOMAIN t PROVE t[a].file \in NewsIn(lang)
  <2>1. PICK i \in I : t[a] = News[i]
    BY <1>3
  <2>2. News[i].file \in AllNews /\ RefLang(News[i].file) = lang
    BY NewsFeats
  <2>3. QED
    BY <1>4, <2>1, <2>2
<1>6. ASSUME NEW f \in NewsIn(lang) PROVE \E a \in DOMAIN t : t[a].file = f
  <2>1. f \in AllNews /\ RefLang(f) = lang
    BY <1>4
  <2>2. PICK i \in DOMAIN News : News[i].file = f
    BY <2>1, NewsFeats
  <2>3. i \in I
    BY <2>1, <2>2, NewsFeats
  <2>4. QED
    BY <1>3, <2>2, <2>3
<1>7. QED
  BY <1>3, <1>5, <1>6 DEF t

\* GetCategories throws for a language none of whose news is known.
LEMMA CategoriesThrowExactly ==
  ASSUME corpus \in Corpora, UsesReturned, news = News
  PROVE  CategoriesThrow <=>
           \E lang \in {"ru", "en"} : {i \in NewsIn(lang) : corpus[i].known} = {}
<1>1. ASSUME NEW lang \in {"ru", "en"}
      PROVE  (\A i \in DOMAIN Lang2Docs(lang) : ~ corpus[Lang2Docs(lang)[i].file].known)
             <=> {i \in NewsIn(lang) : corpus[i].known} = {}
  <2> DEFINE t == Lang2Docs(lang)
  <2>1. /\ \A a \in DOMAIN t : t[a].file \in NewsIn(lang)
        /\ \A f \in NewsIn(lang) : \E a \in DOMAIN t : t[a].file = f
    BY LangNews
  <2> HIDE DEF t
  <2>2. (\A i \in DOMAIN t : ~ corpus[t[i].file].known) <=> \A f \in NewsIn(lang) : ~ corpus[f].known
    BY <2>1
  <2>3. QED
    BY <2>2 DEF t
<1>2. QED
  BY <1>1 DEF CategoriesThrow

\* AddCategories picks the documents of its category.
LEMMA AddCategoriesPicks ==
  ASSUME corpus \in Corpora, UsesReturned, news = News, NEW lang \in {"ru", "en"}, NEW c
  PROVE  PicksFiles(AddCategories(lang, c), Lang2Docs(lang),
                    {a \in DOMAIN Lang2Docs(lang) : c \in corpus[Lang2Docs(lang)[a].file].topics})
<1> DEFINE t == Lang2Docs(lang)
           I == {a \in DOMAIN t : c \in corpus[t[a].file].topics}
<1>1. /\ Len(t) \in Nat /\ DOMAIN t = 1 .. Len(t)
      /\ \A a, b \in DOMAIN t : a < b => t[a].file < t[b].file
  BY LangNews
<1>2. AddCategories(lang, c) = Picked(t, I)
  BY DEF AddCategories
<1> HIDE DEF t
<1>3. I \in SUBSET (1 .. Len(t))
  BY <1>1
<1> HIDE DEF I
<1>4. PicksFiles(Picked(t, I), t, I)
  BY <1>1, <1>3, PickedFiles
<1>5. QED
  BY <1>2, <1>4 DEF t, I

\* What AddCategories adds to category c: the news of the language that have
\* this topic, in order.
LEMMA CategoryNews ==
  ASSUME corpus \in Corpora, UsesReturned, news = News, NEW lang \in {"ru", "en"}, NEW c
  PROVE  LET t == AddCategories(lang, c)
             S == {i \in AllNews : c \in corpus[i].topics}
         IN  /\ Len(t) \in Nat /\ DOMAIN t = 1 .. Len(t)
             /\ \A a \in DOMAIN t : t[a].file \in S /\ RefLang(t[a].file) = lang
             /\ \A f \in S : RefLang(f) = lang => \E a \in DOMAIN t : t[a].file = f
             /\ \A a, b \in DOMAIN t : a < b => t[a].file < t[b].file
<1> DEFINE t == AddCategories(lang, c)
           S == {i \in AllNews : c \in corpus[i].topics}
           d == Lang2Docs(lang)
           I == {a \in DOMAIN d : c \in corpus[d[a].file].topics}
<1>1. PicksFiles(t, d, I)
  BY AddCategoriesPicks
<1>2. /\ \A a \in DOMAIN d : d[a].file \in NewsIn(lang)
      /\ \A f \in NewsIn(lang) : \E a \in DOMAIN d : d[a].file = f
  BY LangNews
<1>3. \A f : f \in AllNews /\ RefLang(f) = lang <=> f \in NewsIn(lang)
  BY DEF AllNews, NewsIn, InLang
<1> HIDE DEF t, d
<1>4. \A i \in I : d[i].file \in S /\ RefLang(d[i].file) = lang
  BY <1>2, <1>3
<1>5. \A f \in S : RefLang(f) = lang => \E i \in I : d[i].file = f
  BY <1>2, <1>3
<1> HIDE DEF I, S
<1>6. /\ Len(t) \in Nat /\ DOMAIN t = 1 .. Len(t)
      /\ \A a \in DOMAIN t : t[a].file \in S /\ RefLang(t[a].file) = lang
      /\ \A f \in S : RefLang(f) = lang => \E a \in DOMAIN t : t[a].file = f
      /\ \A a, b \in DOMAIN t : a < b => t[a].file < t[b].file
  BY <1>1, <1>4, <1>5 DEF PicksFiles
<1>7. QED
  BY <1>6 DEF t, S

\* The titles of what DetectNews returns are those of the news.
LEMMA NewsTitles ==
  ASSUME corpus \in Corpora, UsesReturned
  PROVE  {Title(News[a]) : a \in DOMAIN News} = {corpus[i].title : i \in AllNews}
<1> DEFINE T == {Title(News[a]) : a \in DOMAIN News}
<1>1. /\ \A a \in DOMAIN News : News[a].file \in AllNews /\ Title(News[a]) = corpus[News[a].file].title
      /\ \A f \in AllNews : \E a \in DOMAIN News : News[a].file = f
  BY NewsFeats DEF Title
<1>2. ASSUME NEW i \in AllNews PROVE corpus[i].title \in T
  <2>1. PICK a \in DOMAIN News : News[a].file = i
    BY <1>1
  <2>2. Title(News[a]) = corpus[i].title
    BY <1>1, <2>1
  <2>3. QED
    BY <2>2
<1>3. ASSUME NEW a \in DOMAIN News PROVE Title(News[a]) \in {corpus[i].title : i \in AllNews}
  BY <1>1
<1>4. QED
  BY <1>2, <1>3

\* The thread of a title holds the last of the news with this title.
LEMMA ThreadNews ==
  ASSUME corpus \in Corpora, UsesReturned, news = News,
         NEW t \in {corpus[i].title : i \in AllNews}
  PROVE  \E f \in DOMAIN News :
           /\ Thread(t) = << News[f] >>
           /\ News[f].file \in AllNews /\ corpus[News[f].file].title = t
           /\ \A i \in AllNews : corpus[i].title = t => i <= News[f].file
<1> DEFINE I == {a \in DOMAIN News : Title(News[a]) = t}
           l == LastOf(I)
<1>1. /\ Len(News) \in Nat /\ DOMAIN News = 1 .. Len(News)
      /\ \A a \in DOMAIN News : News[a].file \in AllNews /\ Title(News[a]) = corpus[News[a].file].title
      /\ \A a, b \in DOMAIN News : a < b => News[a].file < News[b].file
      /\ \A f \in AllNews : \E a \in DOMAIN News : News[a].file = f
  BY NewsFeats DEF Title
<1>2. I \in SUBSET (1 .. Len(News)) /\ I # {}
  BY <1>1
<1>3. Thread(t) = << News[l] >>
  BY DEF Thread
<1>4. l \in I /\ \A a \in I : a <= l
  <2> HIDE DEF I
  <2>1. QED
    BY <1>1, <1>2, LastOfIsLast
<1>5. l \in DOMAIN News /\ Title(News[l]) = t
  BY <1>4
<1> HIDE DEF l
<1>6. \A f \in AllNews : f \in Nat
  BY CorporaAssumption DEF AllNews, NewsIn, InLang, HtmlFiles
<1>7. ASSUME NEW f \in AllNews, corpus[f].title = t PROVE f <= News[l].file
  <2>1. PICK a \in DOMAIN News : News[a].file = f
    BY <1>1
  <2>2. a \in I
    BY <1>1, <1>7, <2>1
  <2>3. a <= l /\ a \in Nat /\ l \in Nat
    BY <1>1, <1>4, <1>5, <2>2
  <2>4. CASE a = l
    BY <1>6, <2>1, <2>4
  <2>5. CASE a < l
    <3>1. News[a].file < News[l].file
      BY <1>1, <1>5, <2>5
    <3>2. QED
      BY <1>1, <1>5, <1>6, <2>1, <3>1
  <2>6. QED
    BY <2>3, <2>4, <2>5
<1>8. News[l].file \in AllNews /\ corpus[News[l].file].title = t
  BY <1>1, <1>5
<1>9. QED
  BY <1>3, <1>5, <1>7, <1>8

\* The categories and the threads hold news.
LEMMA GroupedNews ==
  ASSUME corpus \in Corpora, UsesReturned, news = News,
         NEW g \in DOMAIN groups, NEW i \in DOMAIN groups[g],
         \/ Categorized
         \/ Threaded
  PROVE  groups[g][i].file \in AllNews
<1>1. CASE Categorized
  <2>1. groups[g] = AddCategories("ru", g) \o AddCategories("en", g)
    BY <1>1 DEF Categorized
  <2>2. ASSUME NEW lang \in {"ru", "en"}
        PROVE  /\ Len(AddCategories(lang, g)) \in Nat
               /\ DOMAIN AddCategories(lang, g) = 1 .. Len(AddCategories(lang, g))
               /\ \A a \in DOMAIN AddCategories(lang, g) : AddCategories(lang, g)[a].file \in AllNews
    <3>1. PicksFiles(AddCategories(lang, g), Lang2Docs(lang),
                     {a \in DOMAIN Lang2Docs(lang) : g \in corpus[Lang2Docs(lang)[a].file].topics})
      BY AddCategoriesPicks
    <3>2. \A a \in DOMAIN Lang2Docs(lang) : Lang2Docs(lang)[a].file \in AllNews
      BY LangNews DEF AllNews
    <3>3. QED
      BY <3>1, <3>2 DEF PicksFiles
  <2>3. QED
    BY <2>1, <2>2
<1>2. CASE Threaded
  <2>1. g \in {Title(news[a]) : a \in DOMAIN news} /\ groups[g] = Thread(g)
    BY <1>2 DEF Threaded
  <2> DEFINE I == {a \in DOMAIN News : Title(News[a]) = g}
  <2>2. Len(News) \in Nat /\ I \in SUBSET (1 .. Len(News)) /\ I # {}
    BY <2>1, NewsFeats
  <2>3. groups[g] = << News[LastOf(I)] >>
    BY <2>1 DEF Thread
  <2> HIDE DEF I
  <2>4. LastOf(I) \in I
    BY <2>2, LastOfIsLast
  <2>5. LastOf(I) \in DOMAIN News
    BY <2>4 DEF I
  <2>6. QED
    BY <2>3, <2>5, NewsFeats
<1>3. QED
  BY <1>1, <1>2

\* No dump meets a document without a name.
LEMMA NoBadSubstr ==
  ASSUME IInv, Stage = "print"
  PROVE  ~ DumpThrows
<1>1. corpus \in Corpora /\ at \in Nat \ {0}
  BY DEF IInv, ControlInv
<1>2. \A f \in HtmlFiles : f # 0
  BY <1>1, CorporaAssumption DEF HtmlFiles
<1>3. AllNews \subseteq HtmlFiles
  BY DEF AllNews, NewsIn, InLang
<1>4. CASE task = "languages"
  <2>1. UsesReturned /\ at = 4
    BY <1>1, <1>4, StageAt DEF UsesReturned, Groups
  <2>2. ruen = Kept
    BY <2>1 DEF IInv, RuenInv
  <2>3. ~ SubstrThrows(ruen)
    BY <1>1, <1>2, <2>1, <2>2, KeptDocs DEF SubstrThrows
  <2>4. QED
    BY <1>4, <2>3 DEF DumpThrows
<1>5. CASE task = "news"
  <2>1. UsesReturned /\ at = 6
    BY <1>1, <1>5, StageAt DEF UsesReturned, Groups
  <2>2. news = News
    BY <2>1 DEF IInv, NewsInv
  <2>3. ~ SubstrThrows(news)
    BY <1>1, <1>2, <1>3, <2>1, <2>2, NewsFeats DEF SubstrThrows
  <2>4. QED
    BY <1>5, <2>3 DEF DumpThrows
<1>6. CASE task \in {"categories", "threads"}
  <2>1. UsesReturned /\ at = 7
    BY <1>1, <1>6, StageAt DEF UsesReturned
  <2>2. news = News /\ (Categorized \/ Threaded)
    BY <1>6, <2>1 DEF IInv, NewsInv, GroupsInv
  <2>3. \A g \in DOMAIN groups : ~ SubstrThrows(groups[g])
    BY <1>1, <1>2, <1>3, <2>1, <2>2, GroupedNews DEF SubstrThrows
  <2>4. QED
    BY <1>6, <2>3 DEF DumpThrows
<1>7. QED
  BY <1>4, <1>5, <1>6 DEF DumpThrows

\* A vector has a path that is not valid UTF-8 when one of its files has.
LEMMA GarbledExactly ==
  ASSUME NEW s, NEW S, 0 \notin S,
         \A a \in DOMAIN s : s[a].file \in S,
         \A f \in S : \E a \in DOMAIN s : s[a].file = f
  PROVE  Garbled(s) <=> \E f \in S : ~ corpus[f].utf8
BY DEF Garbled

\* Of the news of the task news_test none is in Russian: RecognizeLanguage has
\* moved these documents out.
LEMMA NoRussianLeft ==
  ASSUME corpus \in Corpora, ~ UsesReturned, news = News
  PROVE  ~ Garbled(Lang2Docs("ru"))
<1>1. /\ Passed = Left /\ DOMAIN Left = DOMAIN Found
      /\ Len(Passed) \in Nat /\ DOMAIN Passed = 1 .. Len(Passed)
  BY PassedDocs DEF Passed, Left
<1>2. ASSUME NEW i \in DOMAIN Passed PROVE Flagged[i].lang # "ru"
  <2>1. Passed[i].lang # "ru"
    <3>1. CASE i \in RuEnAt
      BY <1>1, <3>1 DEF Left, EmptyDocument
    <3>2. CASE i \notin RuEnAt
      <4>1. Passed[i] = Recognized[i] /\ i \in DOMAIN Found /\ Recognized[i].lang = RefLang(Found[i])
        BY <1>1, <3>2 DEF Left, Recognized
      <4>2. QED
        BY <3>2, <4>1 DEF RuEnAt
    <3>3. QED
      BY <3>1, <3>2
  <2> DEFINE g == Generated[i]
  <2>2. g.lang = Passed[i].lang /\ Flagged[i] = Detected(g)
    BY DEF Generated, FeaturesOf, Flagged
  <2> HIDE DEF g
  <2>3. \A score, isNews : Flag(g, score, isNews).lang = g.lang
    BY DEF Flag
  <2>4. Flagged[i].lang = g.lang
    BY <2>2, <2>3 DEF Detected
  <2>5. QED
    BY <2>1, <2>2, <2>4
<1>3. \A a \in DOMAIN News : \E i \in DOMAIN Passed : News[a] = Flagged[i]
  <2>1. NewsAt \in SUBSET (1 .. Len(Passed))
    BY <1>1 DEF NewsAt
  <2>2. TakenInOrder(Picked(Flagged, NewsAt), Flagged, NewsAt, InOrder(NewsAt))
    BY <1>1, <2>1, PickedIsInOrder
  <2> DEFINE c == Cardinality(NewsAt)
             h == InOrder(NewsAt)
  <2>3. /\ DOMAIN News = 1 .. c /\ h \in [1 .. c -> NewsAt]
        /\ \A a \in 1 .. c : News[a] = Flagged[h[a]]
    BY <2>2 DEF TakenInOrder, News
  <2> HIDE DEF c, h
  <2>4. QED
    BY <1>1, <2>1, <2>3
<1>4. {i \in DOMAIN news : news[i].lang = "ru"} = {}
  BY <1>2, <1>3
<1>5. DOMAIN Picked(news, {}) = {}
  <2>1. 0 \in Nat /\ {} \in SUBSET (1 .. 0)
    OBVIOUS
  <2>2. TakenInOrder(Picked(news, {}), news, {}, InOrder({}))
    BY <2>1, PickedIsInOrder
  <2>3. Cardinality({}) = 0
    BY FS_EmptySet
  <2>4. QED
    BY <2>2, <2>3 DEF TakenInOrder
<1>6. Lang2Docs("ru") = Picked(news, {})
  BY <1>4 DEF Lang2Docs
<1>7. QED
  BY <1>5, <1>6 DEF Garbled

\* Printing throws exactly for a file that is printed with a path or a title
\* that is not valid UTF-8.
LEMMA PrintThrowsExactly ==
  ASSUME IInv, task \in Prints, Stage = "print" \/ Exited
  PROVE  PrintThrows <=> \E i \in Printed : Unprintable(i)
<1>1. corpus \in Corpora /\ at \in Nat \ {0}
  BY DEF IInv, ControlInv
<1>2. /\ task = "languages" => at > 3
      /\ task # "languages" => at > 5
      /\ task \in Groups => at > 6
  BY <1>1, StageAt, Lengths DEF Exited, Prints, Detects, Groups
<1>3. /\ \A f \in HtmlFiles : f \in Nat \ {0}
      /\ AllNews \subseteq HtmlFiles /\ \A f \in AllNews : RefLang(f) \in {"ru", "en"}
      /\ \A f : f \in InLang("ru") \cup InLang("en") <=> f \in HtmlFiles /\ RefLang(f) \in {"ru", "en"}
  BY <1>1, CorporaAssumption DEF HtmlFiles, AllNews, NewsIn, InLang
<1>4. CASE task = "languages"
  <2>1. UsesReturned /\ ruen = Kept
    BY <1>1, <1>2, <1>4 DEF UsesReturned, IInv, RuenInv
  <2>2. Printed = InLang("ru") \cup InLang("en")
    BY <1>3, <1>4 DEF Printed
  <2>3. /\ 0 \notin Printed
        /\ \A a \in DOMAIN ruen : ruen[a].file \in Printed
        /\ \A f \in Printed : \E a \in DOMAIN ruen : ruen[a].file = f
    BY <1>1, <1>3, <2>1, <2>2, KeptDocs
  <2>4. Garbled(ruen) <=> \E f \in Printed : ~ corpus[f].utf8
    BY <2>3, GarbledExactly
  <2>5. QED
    BY <1>4, <2>4 DEF PrintThrows, Unprintable
<1>5. CASE task = "news"
  <2>1. UsesReturned /\ news = News
    BY <1>1, <1>2, <1>5 DEF UsesReturned, IInv, NewsInv
  <2>2. Printed = AllNews
    BY <1>3, <1>5 DEF Printed
  <2>3. /\ 0 \notin Printed
        /\ \A a \in DOMAIN news : news[a].file \in Printed
        /\ \A f \in Printed : \E a \in DOMAIN news : news[a].file = f
    BY <1>1, <1>3, <2>1, <2>2, NewsFeats
  <2>4. Garbled(news) <=> \E f \in Printed : ~ corpus[f].utf8
    BY <2>3, GarbledExactly
  <2>5. QED
    BY <1>5, <2>4 DEF PrintThrows, Unprintable
<1>6. CASE task = "categories"
  <2>1. UsesReturned /\ news = News /\ Categorized
    BY <1>1, <1>2, <1>6 DEF UsesReturned, IInv, NewsInv, GroupsInv, Groups
  <2>2. ASSUME NEW c \in Categories
        PROVE  Garbled(groups[c]) <=>
                 \E f \in AllNews : c \in corpus[f].topics /\ ~ corpus[f].utf8
    <3> DEFINE r == AddCategories("ru", c)
               e == AddCategories("en", c)
               S == {i \in AllNews : c \in corpus[i].topics}
    <3>1. groups[c] = r \o e
      BY <2>1 DEF Categorized
    <3>2. /\ Len(r) \in Nat /\ DOMAIN r = 1 .. Len(r)
          /\ \A a \in DOMAIN r : r[a].file \in S
          /\ \A f \in S : RefLang(f) = "ru" => \E a \in DOMAIN r : r[a].file = f
      BY <1>1, <2>1, CategoryNews
    <3>3. /\ Len(e) \in Nat /\ DOMAIN e = 1 .. Len(e)
          /\ \A a \in DOMAIN e : e[a].file \in S
          /\ \A f \in S : RefLang(f) = "en" => \E a \in DOMAIN e : e[a].file = f
      BY <1>1, <2>1, CategoryNews
    <3>4. 0 \notin S /\ \A f \in S : RefLang(f) \in {"ru", "en"}
      BY <1>3
    <3> DEFINE s == r \o e
    <3> HIDE DEF r, e, S
    <3>5. /\ DOMAIN s = 1 .. Len(r) + Len(e)
          /\ \A a \in 1 .. Len(r) : s[a] = r[a]
          /\ \A a \in 1 .. Len(e) : s[Len(r) + a] = e[a]
      BY <3>2, <3>3
    <3> HIDE DEF s
    <3>6. ASSUME NEW a \in DOMAIN s PROVE s[a].file \in S
      <4>1. CASE a <= Len(r)
        BY <3>2, <3>5, <4>1
      <4>2. CASE ~ (a <= Len(r))
        <5>1. a - Len(r) \in 1 .. Len(e) /\ a = Len(r) + (a - Len(r))
          BY <3>2, <3>3, <3>5, <4>2
        <5>2. QED
          BY <3>3, <3>5, <5>1
      <4>3. QED
        BY <4>1, <4>2
    <3>7. ASSUME NEW f \in S PROVE \E a \in DOMAIN s : s[a].file = f
      <4>1. CASE RefLang(f) = "ru"
        <5>1. PICK a \in DOMAIN r : r[a].file = f
          BY <3>2, <4>1
        <5>2. a \in DOMAIN s /\ s[a].file = f
          BY <3>2, <3>3, <3>5, <5>1
        <5>3. QED
          BY <5>2
      <4>2. CASE RefLang(f) = "en"
        <5>1. PICK a \in DOMAIN e : e[a].file = f
          BY <3>3, <4>2
        <5>2. Len(r) + a \in DOMAIN s /\ s[Len(r) + a].file = f
          BY <3>2, <3>3, <3>5, <5>1
        <5>3. QED
          BY <5>2
      <4>3. QED
        BY <3>4, <4>1, <4>2
    <3>8. Garbled(s) <=> \E f \in S : ~ corpus[f].utf8
      BY <3>4, <3>6, <3>7, GarbledExactly
    <3>9. QED
      BY <3>1, <3>8 DEF s, S
  <2>3. DOMAIN groups = Categories
    BY <2>1 DEF Categorized
  <2>4. \A f : f \in Printed <=> f \in AllNews /\ \E c \in Categories : c \in corpus[f].topics
    BY <1>3, <1>6 DEF Printed
  <2>5. QED
    BY <1>6, <2>2, <2>3, <2>4 DEF PrintThrows, Unprintable
<1>7. CASE task = "threads"
  <2>1. UsesReturned /\ news = News /\ Threaded
    BY <1>1, <1>2, <1>7 DEF UsesReturned, IInv, NewsInv, GroupsInv, Groups
  <2> DEFINE T == {corpus[i].title : i \in AllNews}
  <2>2. DOMAIN groups = T /\ \A t \in T : groups[t] = Thread(t)
    <3>1. groups = [t \in {Title(News[i]) : i \in DOMAIN News} |-> Thread(t)]
      BY <2>1 DEF Threaded
    <3>2. {Title(News[i]) : i \in DOMAIN News} = T
      BY <1>1, <2>1, NewsTitles
    <3>3. QED
      BY <3>1, <3>2
  <2>3. ASSUME NEW t \in T
        PROVE  \E f \in Printed : /\ corpus[f].title = t
                                  /\ Garbled(groups[t]) <=> ~ corpus[f].utf8
    <3>1. PICK l \in DOMAIN News :
            /\ Thread(t) = << News[l] >>
            /\ News[l].file \in AllNews /\ corpus[News[l].file].title = t
            /\ \A i \in AllNews : corpus[i].title = t => i <= News[l].file
      BY <1>1, <2>1, ThreadNews
    <3>2. News[l].file \in Printed
      BY <1>3, <1>7, <3>1 DEF Printed
    <3>3. Garbled(<< News[l] >>) <=> ~ corpus[News[l].file].utf8
      BY <1>3, <3>1 DEF Garbled
    <3>4. QED
      BY <2>2, <3>1, <3>2, <3>3
  <2>4. ASSUME NEW f \in Printed, NEW g \in Printed, corpus[f].title = corpus[g].title
        PROVE  f = g
    <3>1. f \in AllNews /\ g \in AllNews /\ f \in Nat /\ g \in Nat /\ f <= g /\ g <= f
      BY <1>3, <1>7, <2>4 DEF Printed
    <3>2. QED
      BY <3>1
  <2>5. \A f \in Printed : corpus[f].title \in T
    BY <1>7 DEF Printed
  <2> HIDE DEF T
  <2>6. PrintThrows <=> \E t \in T : Garbled(groups[t]) \/ t \in GarbledTitles
    BY <1>7, <2>2 DEF PrintThrows
  <2>7. QED
    BY <1>7, <2>3, <2>4, <2>5, <2>6 DEF Unprintable
<1>8. CASE task \in {"top", "news_test", "dump"}
  <2>1. Printed = {}
    BY <1>8 DEF Printed
  <2>2. task = "news_test" => ~ Garbled(Lang2Docs("ru"))
    BY <1>1, <1>2, NoRussianLeft DEF UsesReturned, IInv, NewsInv
  <2>3. QED
    BY <1>8, <2>1, <2>2 DEF PrintThrows
<1>9. QED
  BY <1>4, <1>5, <1>6, <1>7, <1>8 DEF Prints, Detects, Groups

\* The table of documents is empty when no HTML file was found.
LEMMA EmptyTable ==
  ASSUME corpus \in Corpora
  PROVE  Left = << >> <=> HtmlFiles = {}
<1>1. /\ Len(Found) \in Nat /\ DOMAIN Found = 1 .. Len(Found)
      /\ Len(Left) = Len(Found) /\ DOMAIN Left = 1 .. Len(Left)
  BY FoundFiles, PassedDocs
<1>2. Left = << >> <=> DOMAIN Found = {}
  BY <1>1 DEF Left
<1>3. DOMAIN Found = {} <=> HtmlFiles = {}
  BY FoundFiles
<1>4. QED
  BY <1>2, <1>3

\* The process is only ever terminated by the folder or by the system, and a
\* cause in the folder never goes unnoticed: no exception comes from the way
\* the stages hand their vectors on.
THEOREM OnlyExplainedStops == Spec => []StopsAsExplained
<1>1. IInv => StopsAsExplained
  <2> SUFFICES ASSUME IInv PROVE StopsAsExplained
    OBVIOUS
  <2> DEFINE unreached == \E i \in DOMAIN corpus : ~ corpus[i].reached
             short == \E i \in DOMAIN corpus : corpus[i].regular /\ corpus[i].size < 5
             unreadable == \E i \in HtmlFiles : ~ corpus[i].readable
             noNews == task \in {"categories", "top"} /\ \E lang \in {"ru", "en"} :
                         {i \in NewsIn(lang) : corpus[i].known} = {}
             garbled == \E i \in Printed : Unprintable(i)
             emptyTsv == task = "dump" /\ HtmlFiles = {}
  <2>1. corpus \in Corpora /\ at \in Nat \ {0}
    BY DEF IInv, ControlInv
  <2>2. /\ GlobThrows <=> unreached \/ short
        /\ FirstError("filesystem") => unreached
        /\ FirstError("short_path") => short
    BY <2>1, GlobErrors
  <2>3. AllReadable <=> ~ unreadable
    BY <2>1, FoundFiles DEF AllReadable
  <2>4. ASSUME at > 5, task \in {"categories", "top"} PROVE CategoriesThrow <=> noNews
    <3>1. news = News /\ UsesReturned
      BY <2>1, <2>4 DEF IInv, NewsInv, UsesReturned
    <3>2. QED
      BY <2>1, <2>4, <3>1, CategoriesThrowExactly
  <2>5. ASSUME at > 3 PROVE TsvCrashes <=> emptyTsv
    <3>1. docs = Left
      BY <2>1, <2>5 DEF IInv, DocsInv
    <3>2. QED
      BY <2>1, <3>1, EmptyTable DEF TsvCrashes
  <2>6. ASSUME Stage = "print" \/ (Exited /\ task \in Prints) PROVE PrintThrows <=> garbled
    <3>1. task \in Prints
      BY <2>1, <2>6, StageAt DEF Prints, Detects, Groups
    <3>2. QED
      BY <2>6, <3>1, PrintThrowsExactly
  <2>7. task \notin Prints => ~ garbled
    BY DEF Printed, Prints, Detects, Groups
  <2> HIDE DEF unreached, short, unreadable, noNews, garbled, emptyTsv
  <2>8. ASSUME Terminated
        PROVE  \/ reason = "filesystem" /\ unreached
               \/ reason = "short_path" /\ short
               \/ reason = "unreadable" /\ unreadable
               \/ reason = "no_news" /\ noNews
               \/ reason = "bad_utf8" /\ garbled
               \/ reason = "empty_tsv" /\ emptyTsv
               \/ reason = "no_thread"
    <3>1. \/ reason = "filesystem" /\ FirstError("filesystem")
          \/ reason = "short_path" /\ FirstError("short_path")
          \/ reason = "unreadable" /\ ~ AllReadable
          \/ reason = "no_news" /\ at = 6 /\ task \in {"categories", "top"} /\ CategoriesThrow
          \/ reason = "bad_substr" /\ Stage = "print" /\ DumpThrows
          \/ reason = "bad_utf8" /\ Stage = "print" /\ PrintThrows
          \/ reason = "empty_tsv" /\ Stage = "print" /\ TsvCrashes
          \/ reason = "no_bows" /\ \E i \in DOMAIN Passed : InferThrows(Generated[i])
          \/ reason = "no_thread"
      BY <2>8 DEF IInv, ReasonInv
    <3>2. Stage = "print" => at > 3
      BY <2>1, StageAt
    <3>3. QED
      BY <2>2, <2>3, <2>4, <2>5, <2>6, <3>1, <3>2, NoBadSubstr, BowsThere
  <2>9. ASSUME Exited
        PROVE  ~ (unreached \/ short \/ unreadable \/ noNews \/ garbled \/ emptyTsv)
    <3>1. at > 2
      BY <2>1, <2>9, Lengths DEF Exited
    <3>2. ~ unreached /\ ~ short /\ ~ unreadable
      BY <2>1, <2>2, <2>3, <3>1 DEF IInv, FilesInv, DocsInv
    <3>3. ~ noNews
      <4>1. CASE task \in {"categories", "top"}
        <5>1. at > 7
          BY <2>1, <2>9, <4>1, Lengths DEF Exited, Groups
        <5>2. ~ CategoriesThrow
          BY <2>1, <4>1, <5>1 DEF IInv, GroupsInv, Categorized
        <5>3. QED
          BY <2>1, <2>4, <4>1, <5>1, <5>2
      <4>2. CASE task \notin {"categories", "top"}
        BY <4>2 DEF noNews
      <4>3. QED
        BY <4>1, <4>2
    <3>4. ~ emptyTsv
      <4>1. CASE task = "dump"
        <5>1. at > 6
          BY <2>1, <2>9, <4>1, Lengths DEF Exited, Groups, Detects
        <5>2. ~ TsvCrashes
          BY <2>9, <4>1 DEF IInv, OutInv, Prints, Detects
        <5>3. QED
          BY <2>1, <2>5, <5>1, <5>2
      <4>2. CASE task # "dump"
        BY <4>2 DEF emptyTsv
      <4>3. QED
        BY <4>1, <4>2
    <3>5. ~ garbled
      BY <2>9, <2>6, <2>7 DEF IInv, OutInv
    <3>6. QED
      BY <3>2, <3>3, <3>4, <3>5
  <2>10. QED
    BY <2>8, <2>9 DEF StopsAsExplained, unreached, short, unreadable, noNews, garbled, emptyTsv
<1>2. QED
  BY <1>1, Invariance, PTL

-----------------------------------------------------------------------------
\* Output.

\* MakeTsv pairs each document with its own features, and a row whose document
\* was moved out is never marked as news (debug.hpp:28-30).
THEOREM TsvAligned == Spec => []TsvRowsAligned
<1>1. IInv => TsvRowsAligned
  <2> SUFFICES ASSUME IInv, Exited, task = "dump"
               PROVE  /\ Len(out) = Len(files)
                      /\ \A i \in DOMAIN out :
                           IF out[i].file = 0 THEN ~ out[i].isNews
                           ELSE /\ out[i].file = files[i]
                                /\ out[i].lang = RefLang(files[i])
                                /\ out[i].isNews = ("path" \in corpus[files[i]].url)
    BY DEF TsvRowsAligned
  <2>1. corpus \in Corpora /\ at \in Nat \ {0} /\ at > 6
    BY Lengths DEF IInv, ControlInv, Exited, Groups, Detects
  <2>2. files = Found /\ docs = Left /\ feats = LeftFeats
    BY <2>1 DEF IInv, FilesInv, DocsInv, FeatsInv
  <2>3. out = MakeTsv
    BY DEF IInv, OutInv, Output, Prints, Detects
  <2>4. Passed = Left /\ DOMAIN Left = DOMAIN Found
    BY DEF Passed, UsesReturned, Left
  <2>5. /\ DOMAIN Found = 1 .. Len(Found) /\ Len(Found) \in Nat
        /\ \A i \in DOMAIN Found : Found[i] \in HtmlFiles
    BY <2>1, FoundFiles
  <2>6. DOMAIN out = DOMAIN Found /\ Len(out) = Len(files)
    BY <2>2, <2>3, <2>4, <2>5 DEF MakeTsv
  <2>7. ASSUME NEW i \in DOMAIN Found
        PROVE  IF out[i].file = 0 THEN ~ out[i].isNews
               ELSE /\ out[i].file = files[i]
                    /\ out[i].lang = RefLang(files[i])
                    /\ out[i].isNews = ("path" \in corpus[files[i]].url)
    <3>1. /\ out[i].file = Left[i].file /\ out[i].lang = Left[i].lang
          /\ out[i].isNews = LeftFeats[i].isNews
      BY <2>2, <2>3, <2>4 DEF MakeTsv
    <3>2. LeftFeats[i].isNews = Flagged[i].isNews
      BY <2>4 DEF LeftFeats, MovedFrom, Flag
    <3> DEFINE g == Generated[i]
    <3>3. Flagged[i] = Detected(g)
      BY <2>4 DEF Flagged
    <3>4. g.file = Left[i].file /\ g.lang = Left[i].lang /\ g.isNews = FALSE
      BY <2>4 DEF Generated, FeaturesOf, EmptyFeatures
    <3> HIDE DEF g
    <3>5. CASE i \in RuEnAt
      <4>1. Left[i] = EmptyDocument
        BY <2>4, <3>5 DEF Left
      <4>2. EmptyDocument.file = 0 /\ EmptyDocument.lang \notin {"ru", "en"}
        BY DEF EmptyDocument
      <4>3. Flagged[i] = g
        BY <3>3, <3>4, <4>1, <4>2 DEF Detected, UrlSaysNews, RuEn
      <4>4. QED
        BY <3>1, <3>2, <3>4, <4>1, <4>2, <4>3
    <3>6. CASE i \notin RuEnAt
      <4>1. Left[i].file = Found[i] /\ Left[i].lang = RefLang(Found[i])
        BY <2>4, <3>6 DEF Left, Recognized
      <4>2. RefLang(Found[i]) \notin {"ru", "en"}
        BY <3>6 DEF RuEnAt
      <4>3. Found[i] \in DOMAIN corpus /\ Found[i] # 0 /\ corpus[Found[i]].url \subseteq {"host", "path"}
        BY <2>1, <2>5, CorporaAssumption DEF HtmlFiles
      <4>4. UrlSaysNews(g) <=> "path" \in corpus[Found[i]].url
        BY <3>4, <4>1, <4>3 DEF UrlSaysNews
      <4>5. Flagged[i].isNews = ("path" \in corpus[Found[i]].url)
        <5>1. CASE UrlSaysNews(g)
          <6>1. Flagged[i].isNews = TRUE
            BY <3>3, <5>1 DEF Detected, Flag
          <6>2. QED
            BY <4>4, <5>1, <6>1, Zenon
        <5>2. CASE ~ UrlSaysNews(g)
          <6>1. Flagged[i] = g
            BY <3>3, <3>4, <4>1, <4>2, <5>2 DEF Detected, RuEn
          <6>2. Flagged[i].isNews = FALSE
            BY <3>4, <6>1
          <6>3. ("path" \in corpus[Found[i]].url) = FALSE
            BY <4>4, <5>2
          <6>4. QED
            BY <6>2, <6>3
        <5>3. QED
          BY <5>1, <5>2
      <4>6. QED
        BY <2>2, <3>1, <3>2, <4>1, <4>3, <4>5
    <3>7. QED
      BY <3>5, <3>6
  <2>8. QED
    BY <2>6, <2>7
<1>2. QED
  BY <1>1, Invariance, PTL

\* The paths of a vector that PicksFiles describes.
LEMMA PathsListed ==
  ASSUME NEW t, NEW S, Len(t) \in Nat, DOMAIN t = 1 .. Len(t),
         \A a \in DOMAIN t : t[a].file \in S,
         \A f \in S : \E a \in DOMAIN t : t[a].file = f,
         \A a, b \in DOMAIN t : a < b => t[a].file < t[b].file
  PROVE  Lists(Paths(t), S)
<1>1. DOMAIN Paths(t) = DOMAIN t /\ \A a \in DOMAIN t : Paths(t)[a] = t[a].file
  BY DEF Paths
<1>2. ToSet(Paths(t)) = S
  BY <1>1 DEF ToSet
<1>3. QED
  BY <1>1, <1>2 DEF Lists

\* The task languages prints the files of each language.
LEMMA LanguagesCorrect ==
  ASSUME IInv, Exited, task = "languages", NEW lang \in {"ru", "en"}
  PROVE  Lists(out[lang], InLang(lang))
<1>1. corpus \in Corpora /\ at \in Nat \ {0} /\ at > 4 /\ UsesReturned
  BY Lengths DEF IInv, ControlInv, Exited, UsesReturned
<1>2. ruen = Kept /\ out = DumpLanguage
  BY <1>1 DEF IInv, RuenInv, OutInv, Output, Prints
<1> DEFINE I == {i \in DOMAIN Kept : Kept[i].lang = lang}
           t == Picked(Kept, I)
<1>3. out[lang] = Paths(t)
  BY <1>2 DEF DumpLanguage
<1>4. /\ Len(Kept) \in Nat /\ I \in SUBSET (1 .. Len(Kept))
      /\ \A a, b \in 1 .. Len(Kept) : a < b => Kept[a].file < Kept[b].file
  BY <1>1, KeptDocs
<1>5. \A i \in I : i \in DOMAIN Kept /\ Kept[i].lang = lang
  OBVIOUS
<1>6. \A i \in DOMAIN Kept : Kept[i].lang = lang => i \in I
  OBVIOUS
<1> HIDE DEF I
<1>7. PicksFiles(t, Kept, I)
  BY <1>4, PickedFiles
<1> HIDE DEF t
<1>8. ASSUME NEW a \in DOMAIN t PROVE t[a].file \in InLang(lang)
  <2>1. PICK i \in I : t[a] = Kept[i]
    BY <1>7 DEF PicksFiles
  <2>2. QED
    BY <1>1, <1>5, <2>1, KeptDocs DEF InLang
<1>9. ASSUME NEW f \in InLang(lang) PROVE \E a \in DOMAIN t : t[a].file = f
  <2>1. f \in HtmlFiles /\ RefLang(f) = lang
    BY DEF InLang
  <2>2. PICK i \in DOMAIN Kept : Kept[i].file = f
    BY <1>1, <2>1, KeptDocs
  <2>3. i \in I
    BY <1>1, <1>6, <2>1, <2>2, KeptDocs
  <2>4. QED
    BY <1>7, <2>2, <2>3 DEF PicksFiles
<1>10. Lists(Paths(t), InLang(lang))
  BY <1>7, <1>8, <1>9, PathsListed DEF PicksFiles
<1>11. QED
  BY <1>3, <1>10

\* The task news prints the news.
LEMMA NewsCorrect ==
  ASSUME IInv, Exited, task = "news"
  PROVE  Lists(out, AllNews)
<1>1. corpus \in Corpora /\ at \in Nat \ {0} /\ at > 6 /\ UsesReturned
  BY Lengths DEF IInv, ControlInv, Exited, UsesReturned, Detects, Groups
<1>2. news = News /\ out = DumpNewsDet
  BY <1>1 DEF IInv, NewsInv, OutInv, Output, Prints, Detects
<1> DEFINE I == {i \in DOMAIN News : News[i].isNews}
           t == Picked(News, I)
<1>3. out = Paths(t)
  BY <1>2 DEF DumpNewsDet
<1>4. /\ Len(News) \in Nat /\ I \in SUBSET (1 .. Len(News)) /\ I = DOMAIN News
      /\ \A a, b \in 1 .. Len(News) : a < b => News[a].file < News[b].file
  BY <1>1, NewsFeats
<1> HIDE DEF I
<1>5. PicksFiles(t, News, I)
  BY <1>4, PickedFiles
<1> HIDE DEF t
<1>6. ASSUME NEW a \in DOMAIN t PROVE t[a].file \in AllNews
  <2>1. PICK i \in I : t[a] = News[i]
    BY <1>5 DEF PicksFiles
  <2>2. QED
    BY <1>1, <1>4, <2>1, NewsFeats
<1>7. ASSUME NEW f \in AllNews PROVE \E a \in DOMAIN t : t[a].file = f
  <2>1. PICK i \in I : News[i].file = f
    BY <1>1, <1>4, NewsFeats
  <2>2. QED
    BY <1>5, <2>1 DEF PicksFiles
<1>8. Lists(Paths(t), AllNews)
  BY <1>5, <1>6, <1>7, PathsListed DEF PicksFiles
<1>9. QED
  BY <1>3, <1>8

\* The task categories prints the news of each category, Russian first.
LEMMA CategoriesCorrect ==
  ASSUME IInv, Exited, task = "categories", NEW c \in Categories
  PROVE  ListsByLang(out[c], {i \in AllNews : c \in corpus[i].topics})
<1>1. corpus \in Corpora /\ at \in Nat \ {0} /\ at > 7 /\ UsesReturned
  BY Lengths DEF IInv, ControlInv, Exited, UsesReturned, Groups
<1>2. news = News /\ Categorized /\ out = DumpGroups
  BY <1>1 DEF IInv, NewsInv, GroupsInv, OutInv, Output, Prints, Detects, Groups
<1> DEFINE r == AddCategories("ru", c)
           e == AddCategories("en", c)
           S == {i \in AllNews : c \in corpus[i].topics}
<1>3. groups[c] = r \o e /\ c \in DOMAIN groups
  BY <1>2 DEF Categorized
<1>4. out[c] = Paths(r \o e)
  BY <1>2, <1>3 DEF DumpGroups
<1>5. \A f \in S : RefLang(f) \in {"ru", "en"}
  BY DEF AllNews, NewsIn, InLang
<1>6. /\ Len(r) \in Nat /\ DOMAIN r = 1 .. Len(r)
      /\ \A a \in DOMAIN r : r[a].file \in S /\ RefLang(r[a].file) = "ru"
      /\ \A f \in S : RefLang(f) = "ru" => \E a \in DOMAIN r : r[a].file = f
      /\ \A a, b \in DOMAIN r : a < b => r[a].file < r[b].file
  BY <1>1, <1>2, CategoryNews
<1>7. /\ Len(e) \in Nat /\ DOMAIN e = 1 .. Len(e)
      /\ \A a \in DOMAIN e : e[a].file \in S /\ RefLang(e[a].file) = "en"
      /\ \A f \in S : RefLang(f) = "en" => \E a \in DOMAIN e : e[a].file = f
      /\ \A a, b \in DOMAIN e : a < b => e[a].file < e[b].file
  BY <1>1, <1>2, CategoryNews
<1> DEFINE p == Paths(r \o e)
<1> HIDE DEF r, e, S
<1>8. /\ DOMAIN p = 1 .. Len(r) + Len(e)
      /\ \A a \in 1 .. Len(r) : p[a] = r[a].file
      /\ \A a \in 1 .. Len(e) : p[Len(r) + a] = e[a].file
  BY <1>6, <1>7 DEF Paths
<1> HIDE DEF p
<1>9. ASSUME NEW a \in DOMAIN p
       PROVE  \/ a \in 1 .. Len(r) /\ a \in DOMAIN r /\ p[a] = r[a].file
              \/ \E b \in DOMAIN e : a = Len(r) + b /\ p[a] = e[b].file
  <2>1. CASE a <= Len(r)
    BY <1>6, <1>8, <2>1
  <2>2. CASE ~ (a <= Len(r))
    <3>1. a - Len(r) \in 1 .. Len(e) /\ a = Len(r) + (a - Len(r))
      BY <1>6, <1>7, <1>8, <2>2
    <3>2. QED
      BY <1>7, <1>8, <3>1
  <2>3. QED
    BY <2>1, <2>2
<1>10. ToSet(p) = S
  <2>1. \A a \in DOMAIN p : p[a] \in S
    BY <1>6, <1>7, <1>9
  <2>2. ASSUME NEW f \in S PROVE \E a \in DOMAIN p : p[a] = f
    <3>1. CASE RefLang(f) = "ru"
      <4>1. PICK a \in DOMAIN r : r[a].file = f
        BY <1>6, <3>1
      <4>2. a \in DOMAIN p /\ p[a] = f
        BY <1>6, <1>7, <1>8, <4>1
      <4>3. QED
        BY <4>2
    <3>2. CASE RefLang(f) = "en"
      <4>1. PICK a \in DOMAIN e : e[a].file = f
        BY <1>7, <3>2
      <4>2. Len(r) + a \in DOMAIN p /\ p[Len(r) + a] = f
        BY <1>6, <1>7, <1>8, <4>1
      <4>3. QED
        BY <4>2
    <3>3. QED
      BY <1>5, <3>1, <3>2
  <2>3. QED
    BY <2>1, <2>2 DEF ToSet
<1>11. ASSUME NEW i \in DOMAIN p, NEW j \in DOMAIN p, i < j
       PROVE  \/ RefLang(p[i]) = RefLang(p[j]) /\ p[i] < p[j]
              \/ RefLang(p[i]) = "ru" /\ RefLang(p[j]) = "en"
  <2>1. CASE i \in DOMAIN r /\ j \in DOMAIN r
    BY <1>6, <1>8, <1>11, <2>1
  <2>2. CASE i \in DOMAIN r /\ j \notin DOMAIN r
    BY <1>6, <1>7, <1>8, <1>9, <2>2
  <2>3. CASE i \notin DOMAIN r
    <3>1. PICK a \in DOMAIN e : i = Len(r) + a /\ p[i] = e[a].file
      BY <1>9, <2>3
    <3>2. j \notin DOMAIN r
      BY <1>6, <1>7, <1>8, <1>11, <2>3
    <3>3. PICK b \in DOMAIN e : j = Len(r) + b /\ p[j] = e[b].file
      BY <1>9, <3>2
    <3>4. a < b
      BY <1>6, <1>7, <1>11, <3>1, <3>3
    <3>5. QED
      BY <1>7, <3>1, <3>3, <3>4
  <2>4. QED
    BY <2>1, <2>2, <2>3
<1>12. ListsByLang(p, S)
  BY <1>10, <1>11 DEF ListsByLang
<1>13. QED
  BY <1>4, <1>12 DEF p, S

\* The task threads prints the last article of each title.
LEMMA ThreadsCorrect ==
  ASSUME IInv, Exited, task = "threads"
  PROVE  out = [t \in {corpus[i].title : i \in AllNews} |->
                  << Max({i \in AllNews : corpus[i].title = t}) >>]
<1>1. corpus \in Corpora /\ at \in Nat \ {0} /\ at > 7 /\ UsesReturned
  BY Lengths DEF IInv, ControlInv, Exited, UsesReturned, Groups
<1>2. news = News /\ Threaded /\ out = DumpGroups
  BY <1>1 DEF IInv, NewsInv, GroupsInv, OutInv, Output, Prints, Detects, Groups
<1> DEFINE T == {Title(News[a]) : a \in DOMAIN News}
<1>3. T = {corpus[i].title : i \in AllNews}
  BY <1>1, NewsTitles
<1>4. groups = [t \in T |-> Thread(t)]
  BY <1>2 DEF Threaded
<1>5. ASSUME NEW t \in T PROVE Paths(Thread(t)) = << Max({i \in AllNews : corpus[i].title = t}) >>
  <2> DEFINE F == {i \in AllNews : corpus[i].title = t}
  <2>1. PICK l \in DOMAIN News :
          /\ Thread(t) = << News[l] >> /\ News[l].file \in F
          /\ \A f \in F : f <= News[l].file
    BY <1>1, <1>2, <1>3, ThreadNews
  <2>2. Max(F) = News[l].file
    <3>1. \A f \in F : f \in Nat
      BY <1>1, CorporaAssumption DEF AllNews, NewsIn, InLang, HtmlFiles
    <3> HIDE DEF F
    <3> DEFINE x == CHOOSE x \in F : \A y \in F : x >= y
    <3>2. \A y \in F : News[l].file >= y
      BY <2>1, <3>1
    <3>3. x \in F /\ \A y \in F : x >= y
      BY <2>1, <3>2
    <3>4. Max(F) = x
      BY DEF Max
    <3> HIDE DEF x
    <3>5. QED
      BY <2>1, <3>1, <3>2, <3>3, <3>4
  <2>3. Paths(<< News[l] >>) = << News[l].file >>
    BY DEF Paths
  <2>4. QED
    BY <2>1, <2>2, <2>3
<1> HIDE DEF T
<1>6. out = [t \in T |-> Paths(Thread(t))]
  BY <1>2, <1>4 DEF DumpGroups
<1>7. QED
  BY <1>3, <1>5, <1>6

\* What the process prints for the tasks that production uses depends on the
\* folder only, whatever the order in which the threads of the four stages
\* finish (tgnews.cpp:22-48).
THEOREM OutputIsCorrect == Spec => []OutputCorrect
<1>1. IInv => OutputCorrect
  <2> SUFFICES ASSUME IInv, Exited
               PROVE  /\ task = "languages" =>
                           \A lang \in {"ru", "en"} : Lists(out[lang], InLang(lang))
                      /\ task = "news" => Lists(out, AllNews)
                      /\ task = "categories" => \A c \in Categories :
                           ListsByLang(out[c], {i \in AllNews : c \in corpus[i].topics})
                      /\ task = "threads" =>
                           out = [t \in {corpus[i].title : i \in AllNews} |->
                                    << Max({i \in AllNews : corpus[i].title = t}) >>]
                      /\ task = "top" => out = << >>
    BY DEF OutputCorrect
  <2>1. task = "top" => out = << >>
    BY DEF IInv, OutInv, Output, Prints, Detects, Groups
  <2>2. QED
    BY <2>1, LanguagesCorrect, NewsCorrect, CategoriesCorrect, ThreadsCorrect
<1>2. QED
  BY <1>1, Invariance, PTL
=============================================================================
