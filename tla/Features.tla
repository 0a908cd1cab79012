------------------------------ MODULE Features ------------------------------
(***************************************************************************)
(* The FeaturesGenerator of one worker thread (features.hpp) over the      *)
(* documents of its chunk.  It owns one UDPipe reader per language and     *)
(* reuses it for the text and the title of every document: the reader is   *)
(* reset, given a text, and asked for sentences up to a limit; the words   *)
(* of each sentence are counted into bags.                                 *)
(*                                                                         *)
(* The reader does not copy the text (set_text with make_copy = false): it *)
(* points into a local string of UpdateUDPipe, which is gone when that     *)
(* function returns, and it keeps the pointer.  Here a string is named by  *)
(* the document and the part it was made from.                             *)
(*                                                                         *)
(* A word is [upos, lemma, feats]; cleaning, tokenising and tagging are    *)
(* data: a document's parts are given as the tagged sentences.  Only the   *)
(* colons of lemmas, which the code erases itself, are spelled out.        *)
(***************************************************************************)
EXTENDS Integers, Sequences, FiniteSets, SequencesExt

CONSTANTS
  Docs,            \* id -> [lang, text, title], the parts as sequences of sentences
  MaxDocs,         \* bound on the length of a chunk
  TotalSentences,  \* the size_t values main passes: SizeT - 1 for -1, or a limit
  SizeT,           \* number of values of size_t; 2^64 in the build
  AllSentences,    \* the limit that stands for "all"; 1'000'000 in the code
  UpostagsTxt,     \* lines of meta/Upostags.txt
  FeatsTxt,        \* lines of meta/Feats.txt
  LemmasTxt        \* language -> lines [lemma, class] of meta/<lang>/Lemmas.txt

Langs == {"ru", "en"}
Parts == {"text", "title"}

Sized(s) == Len(s) \in Nat /\ DOMAIN s = 1 .. Len(s)

\* The names in the shipped files are distinct, and their classes are the two
\* that ReadLemmas prepares.
ASSUME DictsAssumption ==
  /\ Sized(UpostagsTxt) /\ IsInjective(UpostagsTxt)
  /\ Sized(FeatsTxt) /\ IsInjective(FeatsTxt)
  /\ \A lang \in Langs : Sized(LemmasTxt[lang])
  /\ \A lang \in Langs : \A l \in DOMAIN LemmasTxt[lang] : LemmasTxt[lang][l].class \in Parts

\* No document has as many sentences as the limit for all of them.
ASSUME DocsAssumption ==
  \A d \in DOMAIN Docs : \A p \in Parts :
    /\ Sized(Docs[d][p]) /\ Len(Docs[d][p]) < AllSentences
    /\ \A s \in DOMAIN Docs[d][p] :
         Sized(Docs[d][p][s]) /\ \A w \in DOMAIN Docs[d][p][s] : Sized(Docs[d][p][s][w].feats)

ASSUME BoundsAssumption ==
  MaxDocs \in Nat /\ SizeT \in Nat /\ TotalSentences \subseteq 0 .. (SizeT - 1) /\ AllSentences \in Nat

VARIABLES
  chunk,           \* the documents of the thread, in order
  limitArg,        \* total_sentences
  i,               \* the document being processed
  part,            \* "text" or "title": the call of UpdateUDPipe; "none" between documents
  inLoop,          \* UpdateUDPipe has set the text and is in its loop
  total,           \* total_sentences of UpdateUDPipe
  readers,         \* language -> [buffer, pos]
  strings,         \* the local strings that exist
  bows, lemmas,    \* of the DocFeatures being filled
  results          \* the finished ones, by index in chunk

vars == <<chunk, limitArg, i, part, inLoop, total, readers, strings, bows, lemmas, results>>

-----------------------------------------------------------------------------
\* ReadFeaturesNames: a name's position is that of its line.
ReadFeaturesNames(lines) ==
  [name \in ToSet(lines) |-> (CHOOSE p \in DOMAIN lines : lines[p] = name) - 1]

\* ReadLemmas: one dictionary per class; positions count the lines of both,
\* and emplace keeps the first position of a lemma.
ReadLemmas(lines) ==
  [class \in Parts |->
     LET Lines(lemma) == {p \in DOMAIN lines : lines[p].lemma = lemma /\ lines[p].class = class}
     IN  [lemma \in {lines[p].lemma : p \in {q \in DOMAIN lines : lines[q].class = class}} |->
            (CHOOSE p \in Lines(lemma) : \A q \in Lines(lemma) : p <= q) - 1]]

UpostagsDict == ReadFeaturesNames(UpostagsTxt)
FeatsDict == ReadFeaturesNames(FeatsTxt)
LemmasDict == [lang \in Langs |-> ReadLemmas(LemmasTxt[lang])]

\* BOW(dict): a zero for each entry.
BOW(dict) == [p \in 0 .. (Cardinality(DOMAIN dict) - 1) |-> 0]

\* BOW::Update: a word that is not in the dictionary is ignored.
Update(bag, dict, word) ==
  IF word \in DOMAIN dict THEN [bag EXCEPT ![dict[word]] = @ + 1] ELSE bag

\* size_t to int, and the value that stands for all sentences.
ToInt(u) == IF u < SizeT \div 2 THEN u ELSE u - SizeT
SentencesCount == IF ToInt(limitArg) < 0 THEN AllSentences ELSE ToInt(limitArg)

\* Only these parts of speech have their lemmas counted.
LemmaUpostags == {"ADJ", "INTJ", "NOUN", "PROPN", "VERB"}

\* boost::erase_all(lemma, ":"), a lemma being a sequence of characters.
EraseColons(lemma) == SelectSeq(lemma, LAMBDA c : c # ":")

Bag == INSTANCE BagsExt

\* UpdateLemma: ++features->lemmas_[class_id][id].
UpdateLemma(counts, dict, word) ==
  IF word.upos \in LemmaUpostags /\ EraseColons(word.lemma) \in DOMAIN dict
  THEN Bag!BagAdd(counts, dict[EraseColons(word.lemma)])
  ELSE counts

\* UpdateFeats: each name of a word's list, which the code splits at '|'.
UpdateFeats(bag, feats) ==
  LET After[k \in 0 .. Len(feats)] == IF k = 0 THEN bag ELSE Update(After[k - 1], FeatsDict, feats[k])
  IN  After[Len(feats)]

\* The loop over the words of a sentence.
UpdateWords(bow, counts, dict, words) ==
  LET After[k \in 0 .. Len(words)] ==
        IF k = 0 THEN [upostags |-> bow.upostags, feats |-> bow.feats, lemmas |-> counts]
        ELSE [upostags |-> Update(After[k - 1].upostags, UpostagsDict, words[k].upos),
              feats |-> UpdateFeats(After[k - 1].feats, words[k].feats),
              lemmas |-> UpdateLemma(After[k - 1].lemmas, dict, words[k])]
  IN  After[Len(words)]

-----------------------------------------------------------------------------
NoBuffer == << >>

Doc == Docs[chunk[i]]
Lang == Doc.lang

\* The sentences of the string a reader points into.
Content(buffer) == IF buffer = NoBuffer THEN << >> ELSE Docs[chunk[buffer[1]]][buffer[2]]

EmptyBows == [p \in Parts |-> [upostags |-> BOW(UpostagsDict), feats |-> BOW(FeatsDict)]]
EmptyLemmas == [p \in Parts |-> << >>]

Init ==
  /\ chunk \in UNION {[1 .. m -> DOMAIN Docs] : m \in 1 .. MaxDocs}
  /\ limitArg \in TotalSentences
  /\ i = 1
  /\ part = "none" /\ inLoop = FALSE /\ total = 0
  /\ readers = [lang \in Langs |-> [buffer |-> NoBuffer, pos |-> 0]]
  /\ strings = {}
  /\ bows = EmptyBows /\ lemmas = EmptyLemmas
  /\ results = << >>

\* Mutant: the bags of the previous document are not replaced.
FreshBowsKept == bows

FreshBows == EmptyBows

\* GenerateFeatures: a fresh DocFeatures with its bags, then the text.
Begin ==
  /\ part = "none" /\ i <= Len(chunk) /\ Lang \in Langs
  /\ part' = "text"
  /\ bows' = FreshBows /\ lemmas' = EmptyLemmas
  /\ UNCHANGED <<chunk, limitArg, i, inLoop, total, readers, strings, results>>

\* A document of another language keeps the DocFeatures() of its slot, which
\* has no bags.
Skip ==
  /\ part = "none" /\ i <= Len(chunk) /\ Lang \notin Langs
  /\ results' = Append(results, [bows |-> << >>, lemmas |-> EmptyLemmas])
  /\ i' = i + 1
  /\ UNCHANGED <<chunk, limitArg, part, inLoop, total, readers, strings, bows, lemmas>>

\* Mutant: an empty text is not given to the reader.
GivenUnlessEmpty == IF Doc[part] = << >> THEN readers[Lang] ELSE [buffer |-> <<i, part>>, pos |-> 0]

\* reset_document and set_text drop what the reader had left of an earlier
\* string and point it, with its tokenizer, to the start of this one.
Given == [buffer |-> <<i, part>>, pos |-> 0]

\* UpdateUDPipe makes its local string and gives it to the reader.
SetText ==
  /\ part # "none" /\ ~ inLoop
  /\ inLoop' = TRUE /\ total' = 0
  /\ strings' = strings \cup {<<i, part>>}
  /\ readers' = [readers EXCEPT ![Lang] = Given]
  /\ UNCHANGED <<chunk, limitArg, i, part, bows, lemmas, results>>

\* The loop asks the reader for a sentence.
Asks == inLoop /\ total < SentencesCount

\* The sentences the reader has not returned yet: one without forms is passed
\* over.
Unread ==
  LET sentences == Content(readers[Lang].buffer)
  IN  {k \in DOMAIN sentences : k > readers[Lang].pos /\ sentences[k] # << >>}

HasSentence == Unread # {}

\* Mutant: the loop does not advance.
NextSentenceInPlace == Asks /\ HasSentence /\ UNCHANGED vars

\* One iteration: the sentence is tagged and its words are counted.
NextSentence ==
  /\ Asks /\ HasSentence
  /\ LET pos == Min(Unread)
         words == Content(readers[Lang].buffer)[pos]
         updated == UpdateWords(bows[part], lemmas[part], LemmasDict[Lang][part], words)
     IN  /\ readers' = [readers EXCEPT ![Lang] = [@ EXCEPT !.pos = pos]]
         /\ bows' = [bows EXCEPT ![part] = [upostags |-> updated.upostags, feats |-> updated.feats]]
         /\ lemmas' = [lemmas EXCEPT ![part] = updated.lemmas]
  /\ total' = total + 1
  /\ UNCHANGED <<chunk, limitArg, i, part, inLoop, strings, results>>

\* Mutant: the features are stored after each part.
CompleteAlways == TRUE

\* The title is the last part of a document.
Complete == part = "title"

\* The loop ends, at the limit without asking again, or when the reader has
\* nothing left and passes over the rest; the local string goes with
\* UpdateUDPipe.
EndOfPart ==
  /\ inLoop
  /\ ~ (Asks /\ HasSentence)
  /\ inLoop' = FALSE
  /\ readers' = IF Asks THEN [readers EXCEPT ![Lang] = [@ EXCEPT !.pos = Len(Content(readers[Lang].buffer))]]
                ELSE readers
  /\ strings' = strings \ {<<i, part>>}
  /\ IF part = "text" THEN part' = "title" /\ UNCHANGED i ELSE part' = "none" /\ i' = i + 1
  /\ results' = IF Complete THEN Append(results, [bows |-> bows, lemmas |-> lemmas]) ELSE results
  /\ UNCHANGED <<chunk, limitArg, total, bows, lemmas>>

\* The thread has finished its chunk.
Finished == part = "none" /\ i > Len(chunk) /\ UNCHANGED vars

Step == Begin \/ Skip \/ SetText \/ NextSentence \/ EndOfPart

Next == Step \/ Finished

Spec == Init /\ [][Next]_vars

\* The thread is scheduled.
FairSpec == Spec /\ WF_vars(Step)

-----------------------------------------------------------------------------
\* Type invariant.
TypeOK ==
  /\ i \in 1 .. Len(chunk) + 1
  /\ part \in Parts \cup {"none"} /\ inLoop \in BOOLEAN /\ total \in Nat
  /\ \A lang \in Langs : readers[lang].pos \in Nat
  /\ strings \subseteq (DOMAIN chunk) \X Parts
  /\ \A p \in Parts :
       /\ bows[p].upostags \in [DOMAIN BOW(UpostagsDict) -> Nat]
       /\ bows[p].feats \in [DOMAIN BOW(FeatsDict) -> Nat]
       /\ \A id \in DOMAIN lemmas[p] : lemmas[p][id] \in Nat \ {0}
  /\ Len(results) = i - 1

\* Whenever the reader is asked for a sentence, the string it points into
\* still exists and is the one just cleaned for this document and part: the
\* pointer that survives UpdateUDPipe (features.hpp:126) is never followed.
ReaderInOwnString ==
  Asks => readers[Lang].buffer = <<i, part>> /\ readers[Lang].buffer \in strings

\* What the features of a document should be, from the document alone.
Counted(d, p) ==
  LET sentences == Docs[d][p]
      before(s) == {k \in 1 .. s : sentences[k] # << >>}
      taken == {s \in DOMAIN sentences : Cardinality(before(s)) <= SentencesCount}
  IN  UNION {{<<s, w>> : w \in DOMAIN sentences[s]} : s \in taken}

Word(d, p, at) == Docs[d][p][at[1]][at[2]]

Occurrences(d, p, name) ==
  Cardinality(UNION {{<<at, f>> : f \in {g \in DOMAIN Word(d, p, at).feats : Word(d, p, at).feats[g] = name}} :
                       at \in Counted(d, p)})

LemmaLine(lang, id) == LemmasTxt[lang][id + 1]

\* A finished document of another language has no bags, and any other one has
\* in its bags exactly the counts of its own first sentences that have forms,
\* up to the limit, whatever the thread processed before it and whatever it
\* had left unread in the readers; its lemmas are numbered by the lines of
\* Lemmas.txt, each line standing for a lemma of its own class
\* (features.hpp:98-142).
FeaturesExact ==
  \A r \in DOMAIN results :
    LET d == chunk[r]
        lang == Docs[d].lang
    IN  IF lang \notin Langs
        THEN results[r] = [bows |-> << >>, lemmas |-> EmptyLemmas]
        ELSE \A p \in Parts :
          /\ \A u \in DOMAIN UpostagsTxt :
               results[r].bows[p].upostags[u - 1] =
                 Cardinality({at \in Counted(d, p) : Word(d, p, at).upos = UpostagsTxt[u]})
          /\ \A f \in DOMAIN FeatsTxt :
               results[r].bows[p].feats[f - 1] = Occurrences(d, p, FeatsTxt[f])
          /\ \A id \in DOMAIN results[r].lemmas[p] :
               /\ LemmaLine(lang, id).class = p
               /\ results[r].lemmas[p][id] =
                    Cardinality({at \in Counted(d, p) :
                       /\ Word(d, p, at).upos \in LemmaUpostags
                       /\ EraseColons(Word(d, p, at).lemma) = LemmaLine(lang, id).lemma})
          /\ \A at \in Counted(d, p) :
               (/\ Word(d, p, at).upos \in LemmaUpostags
                /\ \E l \in DOMAIN LemmasTxt[lang] :
                     /\ LemmasTxt[lang][l].lemma = EraseColons(Word(d, p, at).lemma)
                     /\ LemmasTxt[lang][l].class = p)
               => \E id \in DOMAIN results[r].lemmas[p] :
                    LemmaLine(lang, id).lemma = EraseColons(Word(d, p, at).lemma)

\* The thread finishes its chunk.
ChunkDone == <>(Len(results) = Len(chunk))
=============================================================================
