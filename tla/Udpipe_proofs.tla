--------------------------- MODULE Udpipe_proofs ---------------------------
(***************************************************************************)
(* The use the FeaturesGenerator makes of UDPipe, proved in two parts.     *)
(*                                                                         *)
(* Features: for every chunk of documents, every limit of sentences and    *)
(* every dictionary, the bags of a document hold the counts of its own     *)
(* sentences, although the documents share the readers of the thread, and  *)
(* a reader never follows the pointer to a string that is gone.            *)
(*                                                                         *)
(* RagelMap: for any number of threads and any table, the spin lock keeps  *)
(* the initialisation of ragel_map to one thread, once, before any         *)
(* look-up, and every look-up finds the class the whole table gives the    *)
(* character.                                                              *)
(***************************************************************************)
EXTENDS Features, RagelMap, Selection_proofs, SequenceTheorems

-----------------------------------------------------------------------------
\* Features

\* The words of the sentences of a part up to s, by their places.
WordsUpTo(d, p, s) == UNION {{<<k, w>> : w \in DOMAIN Docs[d][p][k]} : k \in 1 .. s}

\* The bag counts the members of R: entry u is that of name u.
UposCounted(bag, d, p, R) ==
  /\ bag \in [0 .. (Len(UpostagsTxt) - 1) -> Nat]
  /\ \A u \in DOMAIN UpostagsTxt :
       bag[u - 1] = Cardinality({at \in R : Word(d, p, at).upos = UpostagsTxt[u]})

\* The places of a name among the feats of the words in R.
Uses(d, p, R, name) ==
  UNION {{<<at, f>> : f \in {g \in DOMAIN Word(d, p, at).feats : Word(d, p, at).feats[g] = name}} : at \in R}

\* The same for the bag of feats.
FeatsCounted(bag, d, p, R) ==
  /\ bag \in [0 .. (Len(FeatsTxt) - 1) -> Nat]
  /\ \A f \in DOMAIN FeatsTxt :
       IsFiniteSet(Uses(d, p, R, FeatsTxt[f])) /\ bag[f - 1] = Cardinality(Uses(d, p, R, FeatsTxt[f]))

\* The words of R whose lemma is this one and is of a part of speech that counts.
Having(d, p, R, lemma) ==
  {at \in R : Word(d, p, at).upos \in LemmaUpostags /\ EraseColons(Word(d, p, at).lemma) = lemma}

\* The lemmas of the dictionary that occur in R are counted under their numbers,
\* and no others.
LemmasCounted(counts, d, p, R) ==
  LET dict == LemmasDict[Docs[d].lang][p]
  IN  /\ DOMAIN counts = {dict[l] : l \in {m \in DOMAIN dict : Having(d, p, R, m) # {}}}
      /\ \A l \in DOMAIN dict : Having(d, p, R, l) # {} => counts[dict[l]] = Cardinality(Having(d, p, R, l))

\* The bags of a part hold the counts of exactly the words in R.
Counts(bow, counts, d, p, R) ==
  /\ IsFiniteSet(R)
  /\ UposCounted(bow.upostags, d, p, R)
  /\ FeatsCounted(bow.feats, d, p, R)
  /\ LemmasCounted(counts, d, p, R)

\* What remains true of the bags between documents.
Typed(bow, counts) ==
  /\ bow.upostags \in [0 .. (Len(UpostagsTxt) - 1) -> Nat]
  /\ bow.feats \in [0 .. (Len(FeatsTxt) - 1) -> Nat]
  /\ \A id \in DOMAIN counts : counts[id] \in Nat \ {0}

\* Where the thread is: a document with bags is one of ru or en.
ControlInv ==
  /\ Sized(chunk) /\ (\A k \in DOMAIN chunk : chunk[k] \in DOMAIN Docs)
  /\ limitArg \in TotalSentences
  /\ i \in 1 .. Len(chunk) + 1
  /\ part \in Parts \cup {"none"} /\ inLoop \in BOOLEAN
  /\ part # "none" => i <= Len(chunk) /\ Lang \in Langs
  /\ inLoop => part # "none"

\* The sentences up to s that have forms.
Filled(d, p, s) == {k \in 1 .. s : Docs[d][p][k] # << >>}

\* In the loop, the reader of the document's language is in the local string, the
\* only one there is, and has returned as many sentences as were counted.
ReaderInv ==
  /\ strings = IF inLoop THEN {<<i, part>>} ELSE {}
  /\ total \in Nat
  /\ DOMAIN readers = Langs
  /\ \A lang \in Langs : DOMAIN readers[lang] = {"buffer", "pos"} /\ readers[lang].pos \in Nat
  /\ inLoop =>
       /\ readers[Lang].buffer = <<i, part>>
       /\ readers[Lang].pos \in 0 .. Len(Doc[part])
       /\ total = Cardinality(Filled(chunk[i], part, readers[Lang].pos))
       /\ total <= SentencesCount

\* The words counted so far into the bags of a part: none before its loop, those
\* behind the reader in it, and all that should be once it has ended.
Reached(p) ==
  IF p = part THEN IF inLoop THEN WordsUpTo(chunk[i], p, readers[Lang].pos) ELSE {}
  ELSE IF p = "text" THEN Counted(chunk[i], p) ELSE {}

\* While a document is processed, its bags count the words reached.
BagsInv ==
  /\ DOMAIN bows = Parts /\ DOMAIN lemmas = Parts
  /\ \A p \in Parts : Typed(bows[p], lemmas[p])
  /\ part # "none" => \A p \in Parts : Counts(bows[p], lemmas[p], chunk[i], p, Reached(p))

\* Document r of the chunk is finished and its bags count what they should.
ResultOK(r) ==
  IF Docs[chunk[r]].lang \notin Langs
  THEN results[r] = [bows |-> << >>, lemmas |-> EmptyLemmas]
  ELSE \A p \in Parts :
         Counts(results[r].bows[p], results[r].lemmas[p], chunk[r], p, Counted(chunk[r], p))

\* There is a result for every document before this one.
ResultsInv ==
  /\ Len(results) = i - 1 /\ DOMAIN results = 1 .. (i - 1)
  /\ \A r \in DOMAIN results : ResultOK(r)

\* The inductive invariant of Features.
IInv == ControlInv /\ ReaderInv /\ BagsInv /\ ResultsInv

-----------------------------------------------------------------------------
\* A word's position in a dictionary is that of its line, and the bag has an
\* entry for each line.
LEMMA NamesDict ==
  ASSUME NEW lines, Sized(lines), IsInjective(lines)
  PROVE  /\ DOMAIN ReadFeaturesNames(lines) = {lines[q] : q \in DOMAIN lines}
         /\ \A q \in DOMAIN lines : ReadFeaturesNames(lines)[lines[q]] = q - 1
         /\ BOW(ReadFeaturesNames(lines)) = [p \in 0 .. (Len(lines) - 1) |-> 0]
<1> DEFINE names == {lines[q] : q \in DOMAIN lines}
           dict == ReadFeaturesNames(lines)
<1>1. DOMAIN dict = names
  BY DEF ReadFeaturesNames, ToSet
<1>2. ASSUME NEW q \in DOMAIN lines PROVE dict[lines[q]] = q - 1
  <2>1. (CHOOSE p \in DOMAIN lines : lines[p] = lines[q]) = q
    <3>1. \A p \in DOMAIN lines : lines[p] = lines[q] <=> p = q
      BY DEF IsInjective
    <3> QED BY <3>1
  <2> QED BY <2>1 DEF ReadFeaturesNames, ToSet
<1>3. Len(lines) \in Nat /\ DOMAIN lines = 1 .. Len(lines)
  BY DEF Sized
<1>4. Cardinality(names) = Len(lines)
  <2> DEFINE f == [q \in 1 .. Len(lines) |-> lines[q]]
  <2>1. f \in Bijection(1 .. Len(lines), names)
    BY <1>3 DEF IsInjective, Bijection, Injection, Surjection
  <2>2. ExistsBijection(1 .. Len(lines), names)
    BY <2>1 DEF ExistsBijection
  <2>3. IsFiniteSet(1 .. Len(lines)) /\ Cardinality(1 .. Len(lines)) = Len(lines)
    <3>1. 1 \in Int /\ Len(lines) \in Int
      BY <1>3
    <3>2. Cardinality(1 .. Len(lines)) = IF 1 > Len(lines) THEN 0 ELSE Len(lines) - 1 + 1
      BY <3>1, FS_Interval
    <3>3. IsFiniteSet(1 .. Len(lines))
      BY <3>1, FS_Interval
    <3> QED BY <1>3, <3>2, <3>3
  <2> HIDE DEF names
  <2> QED BY <2>2, <2>3, FS_Bijection
<1> QED BY <1>1, <1>2, <1>4 DEF BOW

\* BOW::Update counts the word at its line and nowhere else.
LEMMA UpdateCounts ==
  ASSUME NEW lines, Sized(lines), IsInjective(lines), NEW word,
         NEW bag \in [0 .. (Len(lines) - 1) -> Nat]
  PROVE  /\ Update(bag, ReadFeaturesNames(lines), word) \in [0 .. (Len(lines) - 1) -> Nat]
         /\ \A q \in DOMAIN lines :
              Update(bag, ReadFeaturesNames(lines), word)[q - 1] =
                IF lines[q] = word THEN bag[q - 1] + 1 ELSE bag[q - 1]
<1> DEFINE dict == ReadFeaturesNames(lines)
<1>1. /\ DOMAIN dict = {lines[q] : q \in DOMAIN lines}
      /\ \A q \in DOMAIN lines : dict[lines[q]] = q - 1
  BY NamesDict
<1>2. Len(lines) \in Nat /\ DOMAIN lines = 1 .. Len(lines)
  BY DEF Sized
<1> HIDE DEF dict
<1>3. CASE word \notin DOMAIN dict
  BY <1>1, <1>3 DEF Update, dict
<1>4. CASE word \in DOMAIN dict
  <2>1. PICK r \in DOMAIN lines : word = lines[r]
    BY <1>1, <1>4
  <2>2. Update(bag, dict, word) = [bag EXCEPT ![r - 1] = @ + 1]
    BY <1>1, <1>4, <2>1 DEF Update
  <2>3. r - 1 \in 0 .. (Len(lines) - 1)
    BY <1>2
  <2>4. Update(bag, dict, word) \in [0 .. (Len(lines) - 1) -> Nat]
    BY <2>2, <2>3
  <2>5. ASSUME NEW q \in DOMAIN lines
        PROVE  Update(bag, dict, word)[q - 1] = IF lines[q] = word THEN bag[q - 1] + 1 ELSE bag[q - 1]
    <3>1. q - 1 \in 0 .. (Len(lines) - 1) /\ (q - 1 = r - 1 <=> q = r)
      BY <1>2
    <3>2. lines[q] = word <=> q = r
      BY <2>1 DEF IsInjective
    <3> QED BY <2>2, <2>3, <3>1, <3>2
  <2> QED BY <2>4, <2>5 DEF dict
<1> QED BY <1>3, <1>4

\* The loop of UpdateFeats.
FeatsLoop(F, n, bag, feats) ==
  F = [k \in 0 .. n |-> IF k = 0 THEN bag ELSE Update(F[k - 1], FeatsDict, feats[k])]

\* There is a function that follows the loop.
LEMMA FeatsLoopExists ==
  ASSUME NEW bag, NEW feats, NEW n \in Nat
  PROVE  \E F : FeatsLoop(F, n, bag, feats)
<1> DEFINE S == {m \in Nat : \E F : FeatsLoop(F, m, bag, feats)}
<1>1. 0 \in S
  <2>1. FeatsLoop([k \in 0 .. 0 |-> bag], 0, bag, feats)
    BY DEF FeatsLoop
  <2> QED BY <2>1
<1>2. ASSUME NEW m \in S PROVE m + 1 \in S
  <2>1. PICK F : FeatsLoop(F, m, bag, feats)
    OBVIOUS
  <2> DEFINE G == [k \in 0 .. (m + 1) |->
                     IF k = m + 1 THEN Update(F[m], FeatsDict, feats[k]) ELSE F[k]]
  <2>2. m \in Nat
    OBVIOUS
  <2>3. \A k \in 0 .. m : F[k] = IF k = 0 THEN bag ELSE Update(F[k - 1], FeatsDict, feats[k])
    BY <2>1 DEF FeatsLoop
  <2>4. \A k \in 0 .. m : G[k] = F[k]
    BY <2>2
  <2>5. ASSUME NEW k \in 0 .. (m + 1)
        PROVE  G[k] = IF k = 0 THEN bag ELSE Update(G[k - 1], FeatsDict, feats[k])
    <3>1. k # 0 => k - 1 \in 0 .. m
      BY <2>2
    <3>2. k # 0 => G[k - 1] = F[k - 1]
      BY <2>4, <3>1
    <3>3. CASE k = m + 1
      <4>1. G[k] = Update(F[m], FeatsDict, feats[k]) /\ k # 0 /\ k - 1 = m
        BY <2>2, <3>3
      <4> HIDE DEF G
      <4> QED BY <3>2, <4>1
    <3>4. CASE k # m + 1
      <4>1. k \in 0 .. m
        BY <2>2, <3>4
      <4>2. G[k] = F[k]
        BY <2>4, <4>1
      <4> HIDE DEF G
      <4> QED BY <2>3, <3>2, <4>1, <4>2
    <3> QED BY <3>3, <3>4
  <2>6. G = [k \in 0 .. (m + 1) |-> G[k]]
    OBVIOUS
  <2> HIDE DEF G
  <2>7. FeatsLoop(G, m + 1, bag, feats)
    BY <2>5, <2>6 DEF FeatsLoop
  <2> QED BY <2>2, <2>7
<1>3. n \in S
  <2>1. S \in SUBSET Nat
    OBVIOUS
  <2> HIDE DEF S
  <2> QED BY <1>1, <1>2, <2>1, Induction
<1> QED BY <1>3

\* UpdateFeats counts each name as often as it is in the list.
LEMMA FeatsUpdated ==
  ASSUME NEW feats, Sized(feats), NEW bag \in [0 .. (Len(FeatsTxt) - 1) -> Nat]
  PROVE  /\ UpdateFeats(bag, feats) \in [0 .. (Len(FeatsTxt) - 1) -> Nat]
         /\ \A q \in DOMAIN FeatsTxt :
              UpdateFeats(bag, feats)[q - 1] =
                bag[q - 1] + Cardinality({g \in DOMAIN feats : feats[g] = FeatsTxt[q]})
<1> DEFINE n == Len(feats)
           V == [0 .. (Len(FeatsTxt) - 1) -> Nat]
           F == CHOOSE G : FeatsLoop(G, n, bag, feats)
           Of(k, q) == {g \in 1 .. k : feats[g] = FeatsTxt[q]}
           Good(k) == F[k] \in V /\ \A q \in DOMAIN FeatsTxt : F[k][q - 1] = bag[q - 1] + Cardinality(Of(k, q))
           S == {k \in Nat : k <= n => Good(k)}
<1>1. n \in Nat /\ DOMAIN feats = 1 .. n /\ Len(FeatsTxt) \in Nat /\ DOMAIN FeatsTxt = 1 .. Len(FeatsTxt)
  BY DictsAssumption DEF Sized
<1>2. FeatsLoop(F, n, bag, feats)
  BY <1>1, FeatsLoopExists
<1>3. UpdateFeats(bag, feats) = F[n]
  BY DEF UpdateFeats, FeatsLoop
<1>4. \A k \in 0 .. n : F[k] = IF k = 0 THEN bag ELSE Update(F[k - 1], FeatsDict, feats[k])
  BY <1>2 DEF FeatsLoop
<1> HIDE DEF F
<1>5. 0 \in S
  <2>1. F[0] = bag
    BY <1>1, <1>4
  <2>2. ASSUME NEW q \in DOMAIN FeatsTxt PROVE bag[q - 1] = bag[q - 1] + Cardinality(Of(0, q))
    <3>1. Of(0, q) = {}
      OBVIOUS
    <3>2. Cardinality(Of(0, q)) = 0
      BY <3>1, FS_EmptySet
    <3>3. bag[q - 1] \in Nat
      BY <1>1
    <3> QED BY <3>2, <3>3
  <2> QED BY <2>1, <2>2
<1>6. ASSUME NEW k \in S PROVE k + 1 \in S
  <2>1. SUFFICES ASSUME k + 1 <= n PROVE Good(k + 1)
    OBVIOUS
  <2>2. k \in Nat /\ k + 1 \in 0 .. n /\ k + 1 # 0 /\ (k + 1) - 1 = k /\ Good(k)
    BY <1>1, <2>1
  <2>3. F[k + 1] = Update(F[k], FeatsDict, feats[k + 1])
    BY <1>4, <2>2
  <2>4. /\ F[k + 1] \in V
        /\ \A q \in DOMAIN FeatsTxt :
             F[k + 1][q - 1] = IF FeatsTxt[q] = feats[k + 1] THEN F[k][q - 1] + 1 ELSE F[k][q - 1]
    <3>1. F[k] \in V /\ Sized(FeatsTxt) /\ IsInjective(FeatsTxt)
      BY <2>2, DictsAssumption
    <3> HIDE DEF V
    <3> QED BY <2>3, <3>1, UpdateCounts DEF FeatsDict, V
  <2>5. ASSUME NEW q \in DOMAIN FeatsTxt
        PROVE  F[k + 1][q - 1] = bag[q - 1] + Cardinality(Of(k + 1, q))
    <3>1. IsFiniteSet(Of(k, q)) /\ Cardinality(Of(k, q)) \in Nat
      BY <2>2, Positions
    <3>2. bag[q - 1] \in Nat
      BY <1>1
    <3>3. F[k][q - 1] = bag[q - 1] + Cardinality(Of(k, q))
      BY <2>2
    <3>4. CASE FeatsTxt[q] = feats[k + 1]
      <4>1. Of(k + 1, q) = Of(k, q) \cup {k + 1} /\ k + 1 \notin Of(k, q)
        BY <2>2, <3>4
      <4>2. Cardinality(Of(k + 1, q)) = Cardinality(Of(k, q)) + 1
        <5> HIDE DEF Of
        <5> QED BY <3>1, <4>1, FS_AddElement
      <4> HIDE DEF Of
      <4> QED BY <2>4, <3>1, <3>2, <3>3, <3>4, <4>2
    <3>5. CASE FeatsTxt[q] # feats[k + 1]
      <4>1. Of(k + 1, q) = Of(k, q)
        BY <2>2, <3>5
      <4> HIDE DEF Of
      <4> QED BY <2>4, <3>3, <3>5, <4>1
    <3> QED BY <3>4, <3>5
  <2> HIDE DEF Of, V
  <2> QED BY <2>4, <2>5
<1>7. S = Nat
  <2>1. S \in SUBSET Nat
    OBVIOUS
  <2> HIDE DEF S
  <2> QED BY <1>5, <1>6, <2>1, Induction
<1>8. Good(n)
  <2> HIDE DEF Good
  <2> QED BY <1>1, <1>7
<1> QED BY <1>1, <1>3, <1>8

\* A lemma's position is that of a line with this lemma and class.
LEMMA LemmaPositions ==
  ASSUME NEW lang \in Langs, NEW p \in Parts
  PROVE  /\ \A l \in DOMAIN LemmasDict[lang][p] :
              /\ LemmaLine(lang, LemmasDict[lang][p][l]).lemma = l
              /\ LemmaLine(lang, LemmasDict[lang][p][l]).class = p
         /\ \A q \in DOMAIN LemmasTxt[lang] :
              LemmasTxt[lang][q].class = p => LemmasTxt[lang][q].lemma \in DOMAIN LemmasDict[lang][p]
<1> DEFINE lines == LemmasTxt[lang]
           dict == LemmasDict[lang][p]
           Lines(l) == {q \in DOMAIN lines : lines[q].lemma = l /\ lines[q].class = p}
           First(l) == CHOOSE q \in Lines(l) : \A r \in Lines(l) : q <= r
<1>1. dict = [l \in {lines[q].lemma : q \in {r \in DOMAIN lines : lines[r].class = p}} |-> First(l) - 1]
  BY DEF LemmasDict, ReadLemmas
<1>2. Len(lines) \in Nat /\ DOMAIN lines = 1 .. Len(lines)
  BY DictsAssumption DEF Sized
<1>3. ASSUME NEW l \in DOMAIN dict
      PROVE  LemmaLine(lang, dict[l]).lemma = l /\ LemmaLine(lang, dict[l]).class = p
  <2>1. PICK q \in DOMAIN lines : lines[q].class = p /\ l = lines[q].lemma
    BY <1>1
  <2>2. Lines(l) \in SUBSET Nat /\ Lines(l) # {}
    BY <1>2, <2>1
  <2>3. First(l) \in Lines(l)
    <3> HIDE DEF Lines
    <3> QED BY <2>2, Least
  <2>4. dict[l] = First(l) - 1
    BY <1>1
  <2> HIDE DEF First, dict
  <2>5. dict[l] + 1 = First(l)
    BY <1>2, <2>3, <2>4
  <2> QED BY <2>3, <2>5 DEF LemmaLine
<1> QED BY <1>1, <1>3

-----------------------------------------------------------------------------
\* One word more is counted into the tags.
LEMMA UposStep ==
  ASSUME NEW d, NEW p, NEW R, IsFiniteSet(R), NEW at, at \notin R, NEW bag, UposCounted(bag, d, p, R)
  PROVE  UposCounted(Update(bag, UpostagsDict, Word(d, p, at).upos), d, p, R \cup {at})
<1> DEFINE With(u) == {x \in R : Word(d, p, x).upos = UpostagsTxt[u]}
           More(u) == {x \in R \cup {at} : Word(d, p, x).upos = UpostagsTxt[u]}
           new == Update(bag, UpostagsDict, Word(d, p, at).upos)
<1>1. /\ new \in [0 .. (Len(UpostagsTxt) - 1) -> Nat]
      /\ \A u \in DOMAIN UpostagsTxt :
           new[u - 1] = IF UpostagsTxt[u] = Word(d, p, at).upos THEN bag[u - 1] + 1 ELSE bag[u - 1]
  <2>1. Sized(UpostagsTxt) /\ IsInjective(UpostagsTxt) /\ bag \in [0 .. (Len(UpostagsTxt) - 1) -> Nat]
    BY DictsAssumption DEF UposCounted
  <2> QED BY <2>1, UpdateCounts DEF UpostagsDict
<1> HIDE DEF new
<1>2. ASSUME NEW u \in DOMAIN UpostagsTxt PROVE new[u - 1] = Cardinality(More(u))
  <2>1. bag[u - 1] = Cardinality(With(u))
    BY DEF UposCounted
  <2>2. IsFiniteSet(With(u))
    <3>1. With(u) \in SUBSET R
      OBVIOUS
    <3> HIDE DEF With
    <3> QED BY <3>1, FS_Subset
  <2>3. CASE UpostagsTxt[u] = Word(d, p, at).upos
    <3>1. More(u) = With(u) \cup {at} /\ at \notin With(u)
      BY <2>3
    <3>2. Cardinality(More(u)) = Cardinality(With(u)) + 1
      <4> HIDE DEF More, With
      <4> QED BY <2>2, <3>1, FS_AddElement
    <3> HIDE DEF More, With
    <3> QED BY <1>1, <2>1, <2>3, <3>2
  <2>4. CASE UpostagsTxt[u] # Word(d, p, at).upos
    <3>1. More(u) = With(u)
      BY <2>4
    <3> HIDE DEF More, With
    <3> QED BY <1>1, <2>1, <2>4, <3>1
  <2> QED BY <2>3, <2>4
<1> QED BY <1>1, <1>2 DEF UposCounted, new

\* Naming the elements of a set by a place does not change their number.
LEMMA AtPlace ==
  ASSUME NEW at, NEW S, IsFiniteSet(S)
  PROVE  IsFiniteSet({<<at, f>> : f \in S}) /\ Cardinality({<<at, f>> : f \in S}) = Cardinality(S)
<1> DEFINE T == {<<at, f>> : f \in S}
           g == [f \in S |-> <<at, f>>]
<1>1. g \in [S -> T]
  OBVIOUS
<1>2. \A a, b \in S : g[a] = g[b] => a = b
  OBVIOUS
<1>3. \A t \in T : \E a \in S : g[a] = t
  OBVIOUS
<1>4. g \in Bijection(S, T)
  <2> HIDE DEF g, T
  <2> QED BY <1>1, <1>2, <1>3 DEF Bijection, Injection, Surjection, IsInjective
<1>5. ExistsBijection(S, T)
  BY <1>4 DEF ExistsBijection
<1> HIDE DEF T
<1>6. QED BY <1>5, FS_Bijection DEF T

\* One word more is counted into the feats.
LEMMA FeatsStep ==
  ASSUME NEW d, NEW p, NEW R, NEW at, at \notin R, Sized(Word(d, p, at).feats),
         NEW bag, FeatsCounted(bag, d, p, R)
  PROVE  FeatsCounted(UpdateFeats(bag, Word(d, p, at).feats), d, p, R \cup {at})
<1> DEFINE feats == Word(d, p, at).feats
           new == UpdateFeats(bag, feats)
           Own(f) == {g \in DOMAIN feats : feats[g] = FeatsTxt[f]}
           Here(f) == {<<at, g>> : g \in Own(f)}
           Before(f) == Uses(d, p, R, FeatsTxt[f])
           After(f) == Uses(d, p, R \cup {at}, FeatsTxt[f])
<1>1. /\ new \in [0 .. (Len(FeatsTxt) - 1) -> Nat]
      /\ \A f \in DOMAIN FeatsTxt : new[f - 1] = bag[f - 1] + Cardinality(Own(f))
  <2>1. bag \in [0 .. (Len(FeatsTxt) - 1) -> Nat] /\ Sized(feats)
    BY DEF FeatsCounted
  <2> HIDE DEF feats
  <2> QED BY <2>1, FeatsUpdated
<1> HIDE DEF new
<1>2. ASSUME NEW f \in DOMAIN FeatsTxt
      PROVE  IsFiniteSet(After(f)) /\ new[f - 1] = Cardinality(After(f))
  <2>1. IsFiniteSet(Before(f)) /\ bag[f - 1] = Cardinality(Before(f))
    BY DEF FeatsCounted
  <2>2. IsFiniteSet(Own(f))
    <3>1. Len(feats) \in Nat /\ DOMAIN feats = 1 .. Len(feats)
      BY DEF Sized
    <3>2. Own(f) \in SUBSET (1 .. Len(feats))
      BY <3>1
    <3> HIDE DEF Own, feats
    <3> QED BY <3>1, <3>2, Positions
  <2>3. IsFiniteSet(Here(f)) /\ Cardinality(Here(f)) = Cardinality(Own(f))
    <3> HIDE DEF Own
    <3> QED BY <2>2, AtPlace
  <2>4. After(f) = Before(f) \cup Here(f)
    BY DEF Uses
  <2>5. Before(f) \cap Here(f) = {}
    BY DEF Uses
  <2> HIDE DEF Before, Here, Own, After
  <2>6. IsFiniteSet(After(f)) /\ Cardinality(After(f)) = Cardinality(Before(f)) + Cardinality(Here(f)) - 0
    <3>1. Cardinality(Before(f) \cap Here(f)) = 0
      BY <2>5, FS_EmptySet
    <3> QED BY <2>1, <2>3, <2>4, <3>1, FS_Union
  <2>7. Cardinality(Before(f)) \in Nat /\ Cardinality(Here(f)) \in Nat
    BY <2>1, <2>3, FS_CardinalityType
  <2> QED BY <1>1, <2>1, <2>3, <2>6, <2>7
<1> QED BY <1>1, <1>2 DEF FeatsCounted, new

\* One word more is counted into the lemmas.
LEMMA LemmasStep ==
  ASSUME NEW d, Docs[d].lang \in Langs, NEW p \in Parts, NEW R, IsFiniteSet(R), NEW at, at \notin R,
         NEW counts, LemmasCounted(counts, d, p, R)
  PROVE  LemmasCounted(UpdateLemma(counts, LemmasDict[Docs[d].lang][p], Word(d, p, at)), d, p, R \cup {at})
<1> DEFINE dict == LemmasDict[Docs[d].lang][p]
           word == Word(d, p, at)
           erased == EraseColons(word.lemma)
           new == UpdateLemma(counts, dict, word)
           More(l) == Having(d, p, R \cup {at}, l)
           With(l) == Having(d, p, R, l)
<1>1. \A l, m \in DOMAIN dict : dict[l] = dict[m] => l = m
  <2>1. \A l \in DOMAIN dict : LemmaLine(Docs[d].lang, dict[l]).lemma = l
    BY LemmaPositions
  <2> HIDE DEF dict
  <2> QED BY <2>1
<1>2. /\ DOMAIN counts = {dict[l] : l \in {m \in DOMAIN dict : With(m) # {}}}
      /\ \A l \in DOMAIN dict : With(l) # {} => counts[dict[l]] = Cardinality(With(l))
  BY DEF LemmasCounted
<1>3. \A l : IsFiniteSet(With(l))
  <2>1. \A l : With(l) \in SUBSET R
    BY DEF Having
  <2> HIDE DEF With
  <2> QED BY <2>1, FS_Subset
<1> HIDE DEF dict
<1>4. CASE word.upos \in LemmaUpostags /\ erased \in DOMAIN dict
  <2>1. /\ More(erased) = With(erased) \cup {at} /\ at \notin With(erased)
        /\ \A l : l # erased => More(l) = With(l)
    BY <1>4 DEF Having
  <2>2. new = Bag!BagAdd(counts, dict[erased])
    BY <1>4 DEF UpdateLemma
  <2> HIDE DEF word, erased, More, With, new
  <2>3. /\ DOMAIN new = DOMAIN counts \cup {dict[erased]}
        /\ \A id \in DOMAIN counts : id # dict[erased] => new[id] = counts[id]
        /\ new[dict[erased]] = IF dict[erased] \in DOMAIN counts THEN counts[dict[erased]] + 1 ELSE 1
    BY <2>2 DEF Bag!BagAdd
  <2>4. dict[erased] \in DOMAIN counts <=> With(erased) # {}
    BY <1>1, <1>2, <1>4
  <2>5. Cardinality(More(erased)) = Cardinality(With(erased)) + 1
    BY <1>3, <2>1, FS_AddElement
  <2>6. With(erased) = {} => Cardinality(With(erased)) = 0
    BY FS_EmptySet
  <2>7. new[dict[erased]] = Cardinality(More(erased))
    BY <1>2, <1>4, <2>3, <2>4, <2>5, <2>6
  <2>8. ASSUME NEW l \in DOMAIN dict, More(l) # {} PROVE new[dict[l]] = Cardinality(More(l))
    <3>1. CASE l = erased
      BY <2>7, <3>1
    <3>2. CASE l # erased
      <4>1. More(l) = With(l) /\ dict[l] \in DOMAIN counts /\ dict[l] # dict[erased]
        BY <1>1, <1>2, <1>4, <2>1, <2>8, <3>2
      <4> QED BY <1>2, <2>3, <2>8, <4>1
    <3> QED BY <3>1, <3>2
  <2>9. DOMAIN new = {dict[l] : l \in {m \in DOMAIN dict : More(m) # {}}}
    <3>1. \A m \in DOMAIN dict : More(m) # {} <=> (With(m) # {} \/ m = erased)
      BY <2>1
    <3>2. {dict[l] : l \in {m \in DOMAIN dict : More(m) # {}}}
            = {dict[l] : l \in {m \in DOMAIN dict : With(m) # {}}} \cup {dict[erased]}
      BY <1>4, <3>1
    <3> QED BY <1>2, <2>3, <3>2
  <2> QED BY <2>8, <2>9 DEF LemmasCounted, dict, More, new, word
<1>5. CASE ~ (word.upos \in LemmaUpostags /\ erased \in DOMAIN dict)
  <2>1. new = counts
    BY <1>5 DEF UpdateLemma
  <2>2. \A l \in DOMAIN dict : More(l) = With(l)
    BY <1>5 DEF Having
  <2> HIDE DEF More, With, word, erased, new
  <2>3. /\ DOMAIN counts = {dict[l] : l \in {m \in DOMAIN dict : More(m) # {}}}
        /\ \A l \in DOMAIN dict : More(l) # {} => counts[dict[l]] = Cardinality(More(l))
    BY <1>2, <2>2
  <2> QED BY <2>1, <2>3 DEF LemmasCounted, dict, More, new, word
<1> QED BY <1>4, <1>5

\* The loop over the words of a sentence.
WordsLoop(F, n, bow, counts, dict, words) ==
  F = [k \in 0 .. n |->
         IF k = 0 THEN [upostags |-> bow.upostags, feats |-> bow.feats, lemmas |-> counts]
         ELSE [upostags |-> Update(F[k - 1].upostags, UpostagsDict, words[k].upos),
               feats |-> UpdateFeats(F[k - 1].feats, words[k].feats),
               lemmas |-> UpdateLemma(F[k - 1].lemmas, dict, words[k])]]

\* What one iteration makes of the bags.
WordUpdated(u, dict, word) ==
  [upostags |-> Update(u.upostags, UpostagsDict, word.upos),
   feats |-> UpdateFeats(u.feats, word.feats),
   lemmas |-> UpdateLemma(u.lemmas, dict, word)]

\* There is a function that follows the loop.
LEMMA WordsLoopExists ==
  ASSUME NEW bow, NEW counts, NEW dict, NEW words, NEW n \in Nat
  PROVE  \E F : WordsLoop(F, n, bow, counts, dict, words)
<1> DEFINE start == [upostags |-> bow.upostags, feats |-> bow.feats, lemmas |-> counts]
           S == {m \in Nat : \E F : WordsLoop(F, m, bow, counts, dict, words)}
<1>1. 0 \in S
  <2>1. WordsLoop([k \in 0 .. 0 |-> start], 0, bow, counts, dict, words)
    BY DEF WordsLoop
  <2> QED BY <2>1
<1>2. ASSUME NEW m \in S PROVE m + 1 \in S
  <2>1. PICK F : WordsLoop(F, m, bow, counts, dict, words)
    OBVIOUS
  <2> DEFINE G == [k \in 0 .. (m + 1) |-> IF k = m + 1 THEN WordUpdated(F[m], dict, words[k]) ELSE F[k]]
  <2>2. m \in Nat
    OBVIOUS
  <2>3. \A k \in 0 .. m : F[k] = IF k = 0 THEN start ELSE WordUpdated(F[k - 1], dict, words[k])
    BY <2>1 DEF WordsLoop, WordUpdated
  <2>4. \A k \in 0 .. m : G[k] = F[k]
    BY <2>2
  <2>5. ASSUME NEW k \in 0 .. (m + 1)
        PROVE  G[k] = IF k = 0 THEN start ELSE WordUpdated(G[k - 1], dict, words[k])
    <3>1. k # 0 => k - 1 \in 0 .. m
      BY <2>2
    <3>2. k # 0 => G[k - 1] = F[k - 1]
      BY <2>4, <3>1
    <3>3. CASE k = m + 1
      <4>1. G[k] = WordUpdated(F[m], dict, words[k]) /\ k # 0 /\ k - 1 = m
        BY <2>2, <3>3
      <4> HIDE DEF G
      <4> QED BY <3>2, <4>1
    <3>4. CASE k # m + 1
      <4>1. k \in 0 .. m
        BY <2>2, <3>4
      <4>2. G[k] = F[k]
        BY <2>4, <4>1
      <4> HIDE DEF G, start
      <4> QED BY <2>3, <3>2, <4>1, <4>2
    <3> QED BY <3>3, <3>4
  <2>6. G = [k \in 0 .. (m + 1) |-> G[k]]
    OBVIOUS
  <2> HIDE DEF G
  <2>7. WordsLoop(G, m + 1, bow, counts, dict, words)
    BY <2>5, <2>6 DEF WordsLoop, WordUpdated
  <2> QED BY <2>2, <2>7
<1>3. n \in S
  <2>1. S \in SUBSET Nat
    OBVIOUS
  <2> HIDE DEF S
  <2> QED BY <1>1, <1>2, <2>1, Induction
<1> QED BY <1>3

\* The loop counts all words of the sentence s, after those in R.
LEMMA WordsUpdated ==
  ASSUME NEW d \in DOMAIN Docs, Docs[d].lang \in Langs, NEW p \in Parts, NEW s \in DOMAIN Docs[d][p],
         NEW R, \A w : <<s, w>> \notin R, NEW bow, NEW counts, Counts(bow, counts, d, p, R),
         NEW u, u = UpdateWords(bow, counts, LemmasDict[Docs[d].lang][p], Docs[d][p][s])
  PROVE  Counts([upostags |-> u.upostags, feats |-> u.feats], u.lemmas, d, p,
                R \cup {<<s, w>> : w \in DOMAIN Docs[d][p][s]})
<1> DEFINE words == Docs[d][p][s]
           n == Len(words)
           dict == LemmasDict[Docs[d].lang][p]
           F == CHOOSE G : WordsLoop(G, n, bow, counts, dict, words)
           Upto(k) == R \cup {<<s, w>> : w \in 1 .. k}
           Good(k) == /\ IsFiniteSet(Upto(k)) /\ UposCounted(F[k].upostags, d, p, Upto(k))
                      /\ FeatsCounted(F[k].feats, d, p, Upto(k)) /\ LemmasCounted(F[k].lemmas, d, p, Upto(k))
           S == {k \in Nat : k <= n => Good(k)}
<1>1. n \in Nat /\ DOMAIN words = 1 .. n /\ (\A k \in 1 .. n : Sized(words[k].feats))
  BY DocsAssumption DEF Sized
<1>2. WordsLoop(F, n, bow, counts, dict, words)
  <2> HIDE DEF dict, words
  <2> QED BY <1>1, WordsLoopExists
<1>3. u = F[n]
  BY DEF UpdateWords, WordsLoop
<1> HIDE DEF dict
<1>4. /\ F[0] = [upostags |-> bow.upostags, feats |-> bow.feats, lemmas |-> counts]
      /\ \A k \in 0 .. n : k # 0 => F[k] = WordUpdated(F[k - 1], dict, words[k])
  <2> HIDE DEF F, words
  <2> QED BY <1>1, <1>2 DEF WordsLoop, WordUpdated
<1> HIDE DEF F
<1>5. 0 \in S
  <2>1. Upto(0) = R
    OBVIOUS
  <2>2. F[0].upostags = bow.upostags /\ F[0].feats = bow.feats /\ F[0].lemmas = counts
    BY <1>4
  <2>3. Good(0)
    <3> HIDE DEF Upto
    <3> QED BY <2>1, <2>2 DEF Counts
  <2> HIDE DEF Good
  <2> QED BY <2>3
<1>6. ASSUME NEW k \in S PROVE k + 1 \in S
  <2>1. SUFFICES ASSUME k + 1 <= n PROVE Good(k + 1)
    <3> HIDE DEF Good
    <3> QED OBVIOUS
  <2>2. k \in Nat /\ k + 1 \in 0 .. n /\ k + 1 \in 1 .. n /\ k + 1 # 0 /\ (k + 1) - 1 = k
    BY <1>1, <2>1
  <2>3. Good(k)
    <3>1. k <= n
      BY <1>1, <2>1, <2>2
    <3> HIDE DEF Good
    <3> QED BY <3>1
  <2> DEFINE at == <<s, k + 1>>
  <2>4. Upto(k + 1) = Upto(k) \cup {at} /\ at \notin Upto(k)
    <3>1. 1 .. (k + 1) = (1 .. k) \cup {k + 1} /\ k + 1 \notin 1 .. k
      BY <2>2
    <3> QED BY <3>1
  <2>5. Word(d, p, at) = words[k + 1] /\ Sized(words[k + 1].feats)
    BY <1>1, <2>2 DEF Word
  <2> HIDE DEF at, Upto, words
  <2>6. F[k + 1] = WordUpdated(F[k], dict, words[k + 1])
    BY <1>4, <2>2
  <2>7. /\ F[k + 1].upostags = Update(F[k].upostags, UpostagsDict, words[k + 1].upos)
        /\ F[k + 1].feats = UpdateFeats(F[k].feats, words[k + 1].feats)
        /\ F[k + 1].lemmas = UpdateLemma(F[k].lemmas, dict, words[k + 1])
    BY <2>6 DEF WordUpdated
  <2>8. IsFiniteSet(Upto(k + 1))
    BY <2>3, <2>4, FS_AddElement
  <2>9. UposCounted(F[k + 1].upostags, d, p, Upto(k + 1))
    <3>1. UposCounted(Update(F[k].upostags, UpostagsDict, Word(d, p, at).upos), d, p, Upto(k) \cup {at})
      BY <2>3, <2>4, UposStep
    <3> QED BY <2>4, <2>5, <2>7, <3>1
  <2>10. FeatsCounted(F[k + 1].feats, d, p, Upto(k + 1))
    <3>1. FeatsCounted(UpdateFeats(F[k].feats, Word(d, p, at).feats), d, p, Upto(k) \cup {at})
      BY <2>3, <2>4, <2>5, FeatsStep
    <3> QED BY <2>4, <2>5, <2>7, <3>1
  <2>11. LemmasCounted(F[k + 1].lemmas, d, p, Upto(k + 1))
    <3>1. LemmasCounted(UpdateLemma(F[k].lemmas, dict, Word(d, p, at)), d, p, Upto(k) \cup {at})
      BY <2>3, <2>4, LemmasStep DEF dict
    <3> QED BY <2>4, <2>5, <2>7, <3>1
  <2> QED BY <2>8, <2>9, <2>10, <2>11
<1>7. S = Nat
  <2>1. S \in SUBSET Nat
    OBVIOUS
  <2> HIDE DEF S
  <2> QED BY <1>5, <1>6, <2>1, Induction
<1>8. Good(n)
  <2> HIDE DEF Good
  <2> QED BY <1>1, <1>7
<1>9. Upto(n) = R \cup {<<s, w>> : w \in DOMAIN words}
  BY <1>1
<1> HIDE DEF Upto, words
<1> QED BY <1>3, <1>8, <1>9 DEF Counts, words

\* Empty bags count nothing.
LEMMA NothingCounted ==
  ASSUME NEW d, NEW p \in Parts
  PROVE  Counts(EmptyBows[p], EmptyLemmas[p], d, p, {})
<1>1. EmptyBows[p].upostags = [q \in 0 .. (Len(UpostagsTxt) - 1) |-> 0]
  BY NamesDict, DictsAssumption DEF EmptyBows, UpostagsDict
<1>2. EmptyBows[p].feats = [q \in 0 .. (Len(FeatsTxt) - 1) |-> 0]
  BY NamesDict, DictsAssumption DEF EmptyBows, FeatsDict
<1>3. Sized(UpostagsTxt) /\ Sized(FeatsTxt)
  BY DictsAssumption
<1>4. IsFiniteSet({}) /\ Cardinality({}) = 0
  BY FS_EmptySet
<1>5. UposCounted(EmptyBows[p].upostags, d, p, {})
  <2>1. \A u \in DOMAIN UpostagsTxt : u - 1 \in 0 .. (Len(UpostagsTxt) - 1)
    BY <1>3 DEF Sized
  <2>2. \A u : {at \in {} : Word(d, p, at).upos = UpostagsTxt[u]} = {}
    OBVIOUS
  <2> QED BY <1>1, <1>4, <2>1, <2>2 DEF UposCounted
<1>6. FeatsCounted(EmptyBows[p].feats, d, p, {})
  <2>1. \A f \in DOMAIN FeatsTxt : f - 1 \in 0 .. (Len(FeatsTxt) - 1)
    BY <1>3 DEF Sized
  <2>2. \A name : Uses(d, p, {}, name) = {}
    BY DEF Uses
  <2>3. EmptyBows[p].feats \in [0 .. (Len(FeatsTxt) - 1) -> Nat]
    BY <1>2
  <2>4. \A f \in DOMAIN FeatsTxt : EmptyBows[p].feats[f - 1] = 0
    BY <1>2, <2>1
  <2> QED BY <1>4, <2>2, <2>3, <2>4 DEF FeatsCounted
<1>7. LemmasCounted(EmptyLemmas[p], d, p, {})
  <2>1. \A l : Having(d, p, {}, l) = {}
    BY DEF Having
  <2>2. DOMAIN EmptyLemmas[p] = {}
    BY DEF EmptyLemmas
  <2> QED BY <2>1, <2>2 DEF LemmasCounted
<1> QED BY <1>4, <1>5, <1>6, <1>7 DEF Counts

\* Bags that count words have their types.
LEMMA CountsTyped ==
  ASSUME NEW bow, NEW counts, NEW d, NEW p, NEW R, Counts(bow, counts, d, p, R)
  PROVE  Typed(bow, counts)
<1> DEFINE dict == LemmasDict[Docs[d].lang][p]
<1>1. ASSUME NEW id \in DOMAIN counts PROVE counts[id] \in Nat \ {0}
  <2>1. PICK l \in DOMAIN dict : id = dict[l] /\ Having(d, p, R, l) # {} /\ counts[dict[l]] = Cardinality(Having(d, p, R, l))
    BY DEF Counts, LemmasCounted
  <2>2. IsFiniteSet(Having(d, p, R, l))
    <3>1. Having(d, p, R, l) \in SUBSET R /\ IsFiniteSet(R)
      BY DEF Having, Counts
    <3> QED BY <3>1, FS_Subset
  <2>3. Cardinality(Having(d, p, R, l)) \in Nat /\ Cardinality(Having(d, p, R, l)) # 0
    BY <2>1, <2>2, FS_EmptySet, FS_CardinalityType
  <2> QED BY <2>1, <2>3
<1> QED BY <1>1 DEF Typed, Counts, UposCounted, FeatsCounted

-----------------------------------------------------------------------------
\* The limit is a number.
LEMMA LimitIsNat == ASSUME limitArg \in TotalSentences PROVE SentencesCount \in Nat
<1>1. limitArg \in 0 .. (SizeT - 1) /\ SizeT \in Nat /\ AllSentences \in Nat
  BY BoundsAssumption
<1> QED BY <1>1 DEF SentencesCount, ToInt

\* The sentences with forms up to s, one sentence more, and none.
LEMMA FilledUpTo ==
  ASSUME NEW d, NEW p, NEW s \in Nat
  PROVE  IsFiniteSet(Filled(d, p, s)) /\ Cardinality(Filled(d, p, s)) \in Nat
<1>1. Filled(d, p, s) \in SUBSET (1 .. s)
  BY DEF Filled
<1> QED BY <1>1, Positions

\* The loop ends, at the limit or at the end of the text, when it has counted
\* the sentences that it should.
LEMMA CountedIs ==
  ASSUME limitArg \in TotalSentences, NEW d \in DOMAIN Docs, NEW p \in Parts,
         NEW s \in 0 .. Len(Docs[d][p]), Cardinality(Filled(d, p, s)) <= SentencesCount,
         \/ Cardinality(Filled(d, p, s)) >= SentencesCount
         \/ \A k \in DOMAIN Docs[d][p] : k > s => Docs[d][p][k] = << >>
  PROVE  Counted(d, p) = WordsUpTo(d, p, s)
<1> DEFINE m == Len(Docs[d][p])
           Of(k) == {<<k, w>> : w \in DOMAIN Docs[d][p][k]}
           Taken == {k \in DOMAIN Docs[d][p] : Cardinality(Filled(d, p, k)) <= SentencesCount}
<1>1. m \in Nat /\ DOMAIN Docs[d][p] = 1 .. m /\ s \in Nat /\ s <= m
  BY DocsAssumption DEF Sized
<1>2. Counted(d, p) = UNION {Of(k) : k \in Taken}
  BY DEF Counted, Filled
<1>3. WordsUpTo(d, p, s) = UNION {Of(k) : k \in 1 .. s}
  BY DEF WordsUpTo
<1>4. SentencesCount \in Nat
  BY LimitIsNat
<1>5. ASSUME NEW k \in 1 .. s PROVE k \in Taken
  <2>1. k \in Nat /\ k \in DOMAIN Docs[d][p] /\ k <= s
    BY <1>1
  <2>2. Filled(d, p, k) \in SUBSET Filled(d, p, s)
    BY <1>1, <2>1 DEF Filled
  <2>3. Cardinality(Filled(d, p, k)) <= Cardinality(Filled(d, p, s))
    BY <1>1, <2>2, FilledUpTo, FS_Subset
  <2>4. Cardinality(Filled(d, p, k)) \in Nat /\ Cardinality(Filled(d, p, s)) \in Nat
    BY <1>1, <2>1, FilledUpTo
  <2> QED BY <1>4, <2>1, <2>3, <2>4
<1>6. ASSUME NEW k \in Taken, k \notin 1 .. s PROVE Of(k) = {}
  <2>1. k \in Nat /\ k > s /\ k \in DOMAIN Docs[d][p]
    BY <1>1, <1>6
  <2>2. CASE Docs[d][p][k] = << >>
    BY <2>2
  <2>3. CASE Docs[d][p][k] # << >>
    <3>1. Cardinality(Filled(d, p, s)) >= SentencesCount
      BY <2>1, <2>3
    <3>2. Filled(d, p, s) \cup {k} \in SUBSET Filled(d, p, k) /\ k \notin Filled(d, p, s)
      BY <1>1, <2>1, <2>3 DEF Filled
    <3>3. IsFiniteSet(Filled(d, p, s)) /\ Cardinality(Filled(d, p, s)) \in Nat
      BY <1>1, FilledUpTo
    <3>4. Cardinality(Filled(d, p, s) \cup {k}) = Cardinality(Filled(d, p, s)) + 1
      BY <3>2, <3>3, FS_AddElement
    <3>5. IsFiniteSet(Filled(d, p, k)) /\ Cardinality(Filled(d, p, k)) \in Nat
      BY <2>1, FilledUpTo
    <3>6. Cardinality(Filled(d, p, s) \cup {k}) <= Cardinality(Filled(d, p, k))
      BY <3>2, <3>5, FS_Subset
    <3> QED BY <1>4, <3>1, <3>3, <3>4, <3>5, <3>6
  <2> QED BY <2>2, <2>3
<1> HIDE DEF Of, Taken
<1> QED BY <1>2, <1>3, <1>5, <1>6

\* The document of the loop.
LEMMA DocIs ==
  ASSUME ControlInv, part # "none"
  PROVE  /\ i \in DOMAIN chunk /\ chunk[i] \in DOMAIN Docs /\ part \in Parts
         /\ Docs[chunk[i]].lang \in Langs /\ Docs[chunk[i]].lang = Lang
         /\ Doc = Docs[chunk[i]] /\ Doc[part] = Docs[chunk[i]][part]
         /\ Len(Doc[part]) \in Nat /\ DOMAIN Doc[part] = 1 .. Len(Doc[part])
<1>1. i \in DOMAIN chunk /\ chunk[i] \in DOMAIN Docs /\ part \in Parts
  BY DEF ControlInv, Sized
<1> QED BY <1>1, DocsAssumption DEF ControlInv, Sized, Doc, Lang

\* In the loop, the reader's sentences are those of the part.
LEMMA ReadsPart ==
  ASSUME ControlInv, ReaderInv, inLoop
  PROVE  /\ part # "none" /\ Content(readers[Lang].buffer) = Doc[part]
         /\ Unread = {k \in DOMAIN Doc[part] : k > readers[Lang].pos /\ Doc[part][k] # << >>}
<1>1. part # "none" /\ readers[Lang].buffer = <<i, part>>
  BY DEF ControlInv, ReaderInv
<1>2. <<i, part>> # << >>
  OBVIOUS
<1>3. Content(readers[Lang].buffer) = Doc[part]
  BY <1>1, <1>2 DEF Content, NoBuffer, Doc
<1> QED BY <1>1, <1>3 DEF Unread

\* What is counted depends on the limit alone.
LEMMA CountedKept ==
  ASSUME limitArg' = limitArg
  PROVE  \A d, p : Counted(d, p)' = Counted(d, p)
BY DEF Counted, SentencesCount

\* The documents that are finished stay as they are.
LEMMA ResultKept ==
  ASSUME limitArg' = limitArg, chunk' = chunk, NEW r, results'[r] = results[r], ResultOK(r)
  PROVE  ResultOK(r)'
<1>1. \A d, p : Counted(d, p)' = Counted(d, p)
  BY CountedKept
<1> QED BY <1>1 DEF ResultOK

\* The first state satisfies the invariant.
LEMMA InitIInv == Init => IInv
<1> SUFFICES ASSUME Init PROVE IInv
  OBVIOUS
<1>1. PICK m \in 1 .. MaxDocs : chunk \in [1 .. m -> DOMAIN Docs]
  BY DEF Init
<1>2. m \in Nat /\ Len(chunk) = m /\ DOMAIN chunk = 1 .. m
  BY <1>1, BoundsAssumption
<1>3. ControlInv
  <2>1. Sized(chunk) /\ \A k \in DOMAIN chunk : chunk[k] \in DOMAIN Docs
    BY <1>1, <1>2 DEF Sized
  <2>2. i = 1 /\ i \in 1 .. Len(chunk) + 1
    BY <1>2 DEF Init
  <2> QED BY <2>1, <2>2 DEF Init, ControlInv
<1>4. ReaderInv
  BY DEF Init, ReaderInv
<1>5. BagsInv
  <2>1. \A p \in Parts : Typed(EmptyBows[p], EmptyLemmas[p])
    BY NothingCounted, CountsTyped
  <2>2. DOMAIN EmptyBows = Parts /\ DOMAIN EmptyLemmas = Parts
    BY DEF EmptyBows, EmptyLemmas
  <2> QED BY <2>1, <2>2 DEF Init, BagsInv
<1>6. ResultsInv
  BY DEF Init, ResultsInv
<1> QED BY <1>3, <1>4, <1>5, <1>6 DEF IInv

\* A document begins with empty bags.
LEMMA BeginIInv == IInv /\ Begin => IInv'
<1> SUFFICES ASSUME IInv, Begin PROVE IInv'
  OBVIOUS
<1>1. ~ inLoop
  BY DEF IInv, ControlInv, Begin
<1>2. Lang' = Lang /\ Doc' = Doc
  BY DEF Begin, Lang, Doc
<1>3. ControlInv'
  BY <1>2 DEF IInv, ControlInv, Begin, Parts
<1>4. ReaderInv'
  BY <1>1, <1>2 DEF IInv, ReaderInv, Begin
<1>5. BagsInv'
  <2>1. bows' = EmptyBows /\ lemmas' = EmptyLemmas /\ part' = "text" /\ ~ inLoop' /\ chunk' = chunk /\ i' = i
    BY <1>1 DEF Begin, FreshBows
  <2>2. \A p \in Parts : Reached(p)' = {}
    BY <2>1 DEF Reached, Parts
  <2>3. \A p \in Parts : Counts(EmptyBows[p], EmptyLemmas[p], chunk[i], p, {})
    BY NothingCounted
  <2>4. \A p \in Parts : Typed(EmptyBows[p], EmptyLemmas[p])
    BY <2>3, CountsTyped
  <2>5. DOMAIN EmptyBows = Parts /\ DOMAIN EmptyLemmas = Parts
    BY DEF EmptyBows, EmptyLemmas
  <2> QED BY <2>1, <2>2, <2>3, <2>4, <2>5 DEF BagsInv
<1>6. ResultsInv'
  BY ResultKept DEF IInv, ResultsInv, Begin
<1> QED BY <1>3, <1>4, <1>5, <1>6 DEF IInv

\* A document of another language is passed over.
LEMMA SkipIInv == IInv /\ Skip => IInv'
<1> SUFFICES ASSUME IInv, Skip PROVE IInv'
  OBVIOUS
<1>1. part = "none" /\ ~ inLoop /\ part' = "none" /\ ~ inLoop'
  BY DEF IInv, ControlInv, Skip
<1>2. ControlInv'
  BY <1>1 DEF IInv, ControlInv, Skip, Sized
<1>3. ReaderInv'
  BY <1>1 DEF IInv, ReaderInv, Skip
<1>4. BagsInv'
  BY <1>1 DEF IInv, BagsInv, Skip
<1>5. ResultsInv'
  <2>1. i \in Nat /\ i >= 1 /\ Len(results) = i - 1 /\ DOMAIN results = 1 .. (i - 1)
    BY DEF IInv, ControlInv, ResultsInv, Sized
  <2>2. /\ Len(results') = i /\ DOMAIN results' = 1 .. i
        /\ results'[i] = [bows |-> << >>, lemmas |-> EmptyLemmas]
        /\ \A r \in 1 .. (i - 1) : results'[r] = results[r]
    BY <2>1 DEF Skip
  <2>3. \A r \in 1 .. (i - 1) : ResultOK(r)'
    BY <2>1, <2>2, ResultKept DEF IInv, ResultsInv, Skip
  <2>4. ASSUME NEW r, r = i PROVE ResultOK(r)'
    BY <2>2, <2>4 DEF ResultOK, Skip, Lang, Doc
  <2>5. \A r \in 1 .. i : ResultOK(r)'
    <3>1. \A r \in 1 .. i : r \in 1 .. (i - 1) \/ r = i
      BY <2>1
    <3> QED BY <2>3, <2>4, <3>1
  <2>6. i' - 1 = i
    BY <2>1 DEF Skip
  <2> QED BY <2>2, <2>5, <2>6 DEF ResultsInv
<1> QED BY <1>2, <1>3, <1>4, <1>5 DEF IInv

\* The reader gets the string.
LEMMA SetTextIInv == IInv /\ SetText => IInv'
<1> SUFFICES ASSUME IInv, SetText PROVE IInv'
  OBVIOUS
<1>1. part # "none" /\ ~ inLoop /\ inLoop' /\ part' = part /\ i' = i /\ chunk' = chunk
  BY DEF SetText
<1>2. Lang' = Lang /\ Doc' = Doc /\ SentencesCount' = SentencesCount
  BY <1>1 DEF SetText, Lang, Doc, SentencesCount
<1>3. ControlInv'
  BY <1>1, <1>2 DEF IInv, ControlInv, SetText
<1>4. /\ Lang \in Langs /\ DOMAIN readers = Langs
      /\ readers'[Lang] = [buffer |-> <<i, part>>, pos |-> 0]
      /\ \A lang \in Langs : lang # Lang => readers'[lang] = readers[lang]
      /\ DOMAIN readers' = Langs
  BY <1>1 DEF IInv, ControlInv, ReaderInv, SetText, Given
<1>5. Filled(chunk[i], part, 0) = {} /\ WordsUpTo(chunk[i], part, 0) = {}
  BY DEF Filled, WordsUpTo
<1>6. Len(Doc[part]) \in Nat /\ SentencesCount \in Nat
  BY <1>1, DocIs, LimitIsNat DEF IInv, ControlInv
<1>7. ReaderInv'
  <2>1. strings' = {<<i, part>>} /\ total' = 0
    BY <1>1 DEF SetText, IInv, ReaderInv
  <2>2. \A lang \in Langs : DOMAIN readers'[lang] = {"buffer", "pos"} /\ readers'[lang].pos \in Nat
    BY <1>4 DEF IInv, ReaderInv
  <2>3. /\ readers'[Lang'].buffer = <<i', part'>> /\ readers'[Lang'].pos = 0
        /\ 0 \in 0 .. Len(Doc[part])
    BY <1>1, <1>2, <1>4, <1>6
  <2>4. total' = Cardinality(Filled(chunk'[i'], part', readers'[Lang'].pos))
    BY <1>1, <1>5, <2>1, <2>3, FS_EmptySet
  <2> QED BY <1>1, <1>2, <1>4, <1>6, <2>1, <2>2, <2>3, <2>4 DEF ReaderInv
<1>8. BagsInv'
  <2>1. bows' = bows /\ lemmas' = lemmas /\ limitArg' = limitArg
    BY DEF SetText
  <2>2. \A p \in Parts : Reached(p)' = Reached(p)
    BY <1>1, <1>2, <1>4, <1>5, <2>1, CountedKept DEF Reached
  <2> QED BY <1>1, <2>1, <2>2 DEF IInv, BagsInv
<1>9. ResultsInv'
  BY ResultKept DEF IInv, ResultsInv, SetText
<1> QED BY <1>3, <1>7, <1>8, <1>9 DEF IInv

\* A sentence is read and its words are counted.
LEMMA NextSentenceIInv == IInv /\ NextSentence => IInv'
<1> SUFFICES ASSUME IInv, NextSentence PROVE IInv'
  OBVIOUS
<1> DEFINE d == chunk[i]
           old == readers[Lang].pos
           new == Min(Unread)
           words == Docs[d][part][new]
           updated == UpdateWords(bows[part], lemmas[part], LemmasDict[Lang][part], words)
<1>1. inLoop /\ inLoop' /\ part' = part /\ i' = i /\ chunk' = chunk /\ limitArg' = limitArg
  BY DEF NextSentence, Asks
<1>2. Lang' = Lang /\ Doc' = Doc /\ SentencesCount' = SentencesCount
  BY <1>1 DEF Lang, Doc, SentencesCount
<1>3. /\ part # "none" /\ d \in DOMAIN Docs /\ part \in Parts /\ Lang \in Langs /\ Lang = Docs[d].lang
      /\ Doc[part] = Docs[d][part] /\ Len(Doc[part]) \in Nat /\ DOMAIN Doc[part] = 1 .. Len(Doc[part])
      /\ Content(readers[Lang].buffer) = Doc[part]
      /\ Unread = {k \in DOMAIN Doc[part] : k > old /\ Doc[part][k] # << >>}
  BY <1>1, DocIs, ReadsPart DEF IInv
<1>4. old \in 0 .. Len(Doc[part]) /\ total = Cardinality(Filled(d, part, old))
  BY <1>1 DEF IInv, ReaderInv
<1>5. new \in Unread /\ \A k \in Unread : new <= k
  <2>1. Unread # {}
    BY DEF NextSentence, HasSentence
  <2>2. Unread \in SUBSET DOMAIN Doc[part] /\ DOMAIN Doc[part] \in SUBSET Nat
    BY <1>3
  <2>3. Unread \in SUBSET Nat
    BY <2>2
  <2> QED BY <2>1, <2>3, Least DEF Min
<1>6. new \in DOMAIN Doc[part] /\ new > old /\ Doc[part][new] # << >>
  BY <1>3, <1>5
<1>7. \A k \in DOMAIN Doc[part] : (k > old /\ k < new) => Doc[part][k] = << >>
  <2>1. ASSUME NEW k \in DOMAIN Doc[part], k > old, k < new, Doc[part][k] # << >> PROVE FALSE
    <3>1. k \in Unread
      <4> HIDE DEF new, old
      <4> QED BY <1>3, <2>1
    <3>2. new <= k
      <4> HIDE DEF new
      <4> QED BY <1>5, <3>1
    <3>3. k \in Nat /\ new \in Nat
      <4> HIDE DEF new
      <4> QED BY <1>3, <1>6
    <3> HIDE DEF new
    <3> QED BY <2>1, <3>2, <3>3
  <2> QED BY <2>1
<1>8. /\ readers' = [readers EXCEPT ![Lang] = [@ EXCEPT !.pos = new]]
      /\ bows' = [bows EXCEPT ![part] = [upostags |-> updated.upostags, feats |-> updated.feats]]
      /\ lemmas' = [lemmas EXCEPT ![part] = updated.lemmas]
      /\ total' = total + 1
  BY <1>3 DEF NextSentence
<1> HIDE DEF new, updated, words, old
<1>9. /\ DOMAIN readers' = Langs /\ readers'[Lang].buffer = readers[Lang].buffer /\ readers'[Lang].pos = new
      /\ DOMAIN readers'[Lang] = {"buffer", "pos"}
      /\ \A lang \in Langs : lang # Lang => readers'[lang] = readers[lang]
  BY <1>3, <1>8 DEF IInv, ReaderInv
<1>10. ControlInv'
  BY <1>1, <1>2 DEF IInv, ControlInv, NextSentence
<1>11. ReaderInv'
  <2>1. Filled(d, part, new) = Filled(d, part, old) \cup {new} /\ new \notin Filled(d, part, old)
    BY <1>3, <1>4, <1>6, <1>7 DEF Filled
  <2>2. IsFiniteSet(Filled(d, part, old))
    BY <1>3, <1>4, FilledUpTo
  <2>3. total' = Cardinality(Filled(d, part, new))
    BY <1>4, <1>8, <2>1, <2>2, FS_AddElement
  <2>4. total \in Nat /\ SentencesCount \in Nat /\ total < SentencesCount
    BY LimitIsNat DEF IInv, ReaderInv, ControlInv, NextSentence, Asks
  <2>5. total' \in Nat /\ total' <= SentencesCount
    BY <1>8, <2>4
  <2>6. new \in Nat /\ new \in 0 .. Len(Doc[part])
    BY <1>3, <1>6
  <2>7. \A lang \in Langs : DOMAIN readers'[lang] = {"buffer", "pos"} /\ readers'[lang].pos \in Nat
    BY <1>9, <2>6 DEF IInv, ReaderInv
  <2>8. strings' = {<<i, part>>} /\ readers'[Lang].buffer = <<i, part>>
    BY <1>1, <1>9 DEF IInv, ReaderInv, NextSentence
  <2> QED BY <1>1, <1>2, <1>9, <2>3, <2>5, <2>6, <2>7, <2>8 DEF ReaderInv, d
<1>12. BagsInv'
  <2> DEFINE R == WordsUpTo(d, part, old)
  <2>1. Counts(bows[part], lemmas[part], d, part, R)
    BY <1>1, <1>3 DEF IInv, BagsInv, Reached, old
  <2>2. \A w : <<new, w>> \notin R
    BY <1>3, <1>4, <1>6 DEF WordsUpTo
  <2>3. WordsUpTo(d, part, new) = R \cup {<<new, w>> : w \in DOMAIN words}
    <3>1. \A k \in 1 .. new : k \in 1 .. old \/ k = new \/ Docs[d][part][k] = << >>
      BY <1>3, <1>4, <1>6, <1>7
    <3>2. \A k \in 1 .. new : k \in 1 .. old \/ k = new \/ DOMAIN Docs[d][part][k] = {}
      BY <3>1
    <3>3. \A k \in 1 .. old : k \in 1 .. new
      BY <1>3, <1>4, <1>6
    <3>4. new \in 1 .. new
      BY <1>3, <1>6
    <3> QED BY <3>2, <3>3, <3>4 DEF WordsUpTo, words
  <2> HIDE DEF R
  <2>4. Counts([upostags |-> updated.upostags, feats |-> updated.feats], updated.lemmas, d, part,
               R \cup {<<new, w>> : w \in DOMAIN words})
    <3>1. new \in DOMAIN Docs[d][part]
      BY <1>3, <1>6
    <3> QED BY <1>3, <2>1, <2>2, <3>1, WordsUpdated DEF updated, words
  <2>5. DOMAIN bows' = Parts /\ DOMAIN lemmas' = Parts
    BY <1>8 DEF IInv, BagsInv
  <2>6. /\ bows'[part] = [upostags |-> updated.upostags, feats |-> updated.feats]
        /\ lemmas'[part] = updated.lemmas
        /\ \A p \in Parts : p # part => bows'[p] = bows[p] /\ lemmas'[p] = lemmas[p]
    BY <1>3, <1>8 DEF IInv, BagsInv
  <2>7. Reached(part)' = R \cup {<<new, w>> : w \in DOMAIN words}
    BY <1>1, <1>2, <1>9, <2>3 DEF Reached, d
  <2>8. \A p \in Parts : p # part => Reached(p)' = Reached(p)
    BY <1>1, CountedKept DEF Reached
  <2>9. \A p \in Parts : Counts(bows'[p], lemmas'[p], d, p, Reached(p)')
    <3>1. ASSUME NEW p \in Parts PROVE Counts(bows'[p], lemmas'[p], d, p, Reached(p)')
      <4>1. CASE p = part
        BY <1>1, <2>4, <2>6, <2>7, <4>1
      <4>2. CASE p # part
        BY <1>3, <2>6, <2>8, <4>2 DEF IInv, BagsInv
      <4> QED BY <4>1, <4>2
    <3> QED BY <3>1
  <2>10. \A p \in Parts : Typed(bows'[p], lemmas'[p])
    BY <2>9, CountsTyped
  <2> QED BY <1>1, <2>5, <2>9, <2>10 DEF BagsInv, d
<1>13. ResultsInv'
  BY ResultKept DEF IInv, ResultsInv, NextSentence
<1> QED BY <1>10, <1>11, <1>12, <1>13 DEF IInv

\* The loop ends; after the title the document is finished.
LEMMA EndOfPartIInv == IInv /\ EndOfPart => IInv'
<1> SUFFICES ASSUME IInv, EndOfPart PROVE IInv'
  OBVIOUS
<1> DEFINE d == chunk[i]
           old == readers[Lang].pos
<1>1. inLoop /\ ~ inLoop' /\ chunk' = chunk /\ limitArg' = limitArg /\ bows' = bows /\ lemmas' = lemmas
  BY DEF EndOfPart
<1>2. /\ part # "none" /\ d \in DOMAIN Docs /\ part \in Parts /\ Lang \in Langs /\ Lang = Docs[d].lang
      /\ Doc[part] = Docs[d][part] /\ Len(Doc[part]) \in Nat /\ DOMAIN Doc[part] = 1 .. Len(Doc[part])
      /\ Content(readers[Lang].buffer) = Doc[part]
      /\ Unread = {k \in DOMAIN Doc[part] : k > old /\ Doc[part][k] # << >>}
  BY <1>1, DocIs, ReadsPart DEF IInv
<1>3. /\ old \in 0 .. Len(Doc[part]) /\ total = Cardinality(Filled(d, part, old))
      /\ total <= SentencesCount /\ total \in Nat /\ SentencesCount \in Nat
  BY <1>1, LimitIsNat DEF IInv, ReaderInv, ControlInv
<1>4. i \in Nat /\ i >= 1 /\ i <= Len(chunk) /\ Len(chunk) \in Nat
  BY <1>2 DEF IInv, ControlInv, Sized
<1>5. Counted(d, part) = WordsUpTo(d, part, old)
  <2>1. ~ (total < SentencesCount) \/ Unread = {}
    BY <1>1 DEF EndOfPart, Asks, HasSentence
  <2>2. Unread = {} => \A k \in DOMAIN Docs[d][part] : k > old => Docs[d][part][k] = << >>
    BY <1>2
  <2>3. total >= SentencesCount \/ \A k \in DOMAIN Docs[d][part] : k > old => Docs[d][part][k] = << >>
    BY <1>3, <2>1, <2>2
  <2>4. limitArg \in TotalSentences
    BY DEF IInv, ControlInv
  <2> HIDE DEF d, old
  <2> QED BY <1>2, <1>3, <2>3, <2>4, CountedIs
<1>6. Counts(bows[part], lemmas[part], d, part, Counted(d, part))
  BY <1>1, <1>2, <1>5 DEF IInv, BagsInv, Reached
<1>7. ReaderInv'
  <2>1. strings' = {} /\ total' = total
    BY <1>1 DEF IInv, ReaderInv, EndOfPart
  <2>2. \/ readers' = readers
        \/ readers' = [readers EXCEPT ![Lang] = [@ EXCEPT !.pos = Len(Doc[part])]]
    BY <1>2 DEF EndOfPart
  <2>3. DOMAIN readers = Langs /\ \A lang \in Langs : DOMAIN readers[lang] = {"buffer", "pos"} /\ readers[lang].pos \in Nat
    BY DEF IInv, ReaderInv
  <2>4. /\ DOMAIN readers' = Langs
        /\ \A lang \in Langs : DOMAIN readers'[lang] = {"buffer", "pos"} /\ readers'[lang].pos \in Nat
    <3>1. CASE readers' = readers
      BY <2>3, <3>1
    <3>2. CASE readers' = [readers EXCEPT ![Lang] = [@ EXCEPT !.pos = Len(Doc[part])]]
      <4>1. /\ DOMAIN readers' = Langs
            /\ readers'[Lang] = [readers[Lang] EXCEPT !.pos = Len(Doc[part])]
            /\ \A lang \in Langs : lang # Lang => readers'[lang] = readers[lang]
        BY <1>2, <2>3, <3>2
      <4>2. DOMAIN readers'[Lang] = {"buffer", "pos"} /\ readers'[Lang].pos \in Nat
        BY <1>2, <2>3, <4>1
      <4> QED BY <2>3, <4>1, <4>2
    <3> QED BY <2>2, <3>1, <3>2
  <2> QED BY <1>1, <1>3, <2>1, <2>4 DEF ReaderInv
<1>8. DOMAIN bows' = Parts /\ DOMAIN lemmas' = Parts /\ \A p \in Parts : Typed(bows'[p], lemmas'[p])
  BY <1>1 DEF IInv, BagsInv
<1>9. CASE part = "text"
  <2>1. part' = "title" /\ i' = i /\ results' = results
    BY <1>9 DEF EndOfPart, Complete
  <2>2. Lang' = Lang /\ Doc' = Doc
    BY <1>1, <2>1 DEF Lang, Doc
  <2>3. ControlInv'
    <3>1. /\ Sized(chunk) /\ (\A k \in DOMAIN chunk : chunk[k] \in DOMAIN Docs)
          /\ limitArg \in TotalSentences /\ i \in 1 .. Len(chunk) + 1
      BY DEF IInv, ControlInv
    <3>2. inLoop' = FALSE
      BY DEF EndOfPart
    <3> QED BY <1>1, <1>2, <1>4, <2>1, <2>2, <3>1, <3>2 DEF ControlInv, Sized, Parts
  <2>4. BagsInv'
    <3>1. Reached("title") = {} /\ Reached("title")' = {}
      BY <1>1, <1>9, <2>1 DEF Reached
    <3>2. Reached("text")' = Counted(d, "text")
      BY <1>1, <2>1, CountedKept DEF Reached
    <3>3. Counts(bows["title"], lemmas["title"], d, "title", {})
      BY <1>2, <3>1 DEF IInv, BagsInv, Parts
    <3>4. Counts(bows["text"], lemmas["text"], d, "text", Counted(d, "text"))
      BY <1>6, <1>9
    <3>5. \A p \in Parts : Counts(bows'[p], lemmas'[p], d, p, Reached(p)')
      BY <1>1, <3>1, <3>2, <3>3, <3>4 DEF Parts
    <3> QED BY <1>1, <1>8, <2>1, <3>5 DEF BagsInv
  <2>5. ResultsInv'
    BY <1>1, <2>1, ResultKept DEF IInv, ResultsInv
  <2> QED BY <1>7, <2>3, <2>4, <2>5 DEF IInv
<1>10. CASE part = "title"
  <2>1. part' = "none" /\ i' = i + 1 /\ results' = Append(results, [bows |-> bows, lemmas |-> lemmas])
    BY <1>10 DEF EndOfPart, Complete
  <2>2. ControlInv'
    <3>1. /\ Sized(chunk) /\ (\A k \in DOMAIN chunk : chunk[k] \in DOMAIN Docs)
          /\ limitArg \in TotalSentences
      BY DEF IInv, ControlInv
    <3>2. inLoop' = FALSE
      BY DEF EndOfPart
    <3>3. i' \in 1 .. Len(chunk) + 1
      BY <1>4, <2>1
    <3> QED BY <1>1, <2>1, <3>1, <3>2, <3>3 DEF ControlInv, Sized
  <2>3. BagsInv'
    BY <1>8, <2>1 DEF BagsInv
  <2>4. ResultsInv'
    <3>1. Len(results) = i - 1 /\ DOMAIN results = 1 .. (i - 1)
      BY DEF IInv, ResultsInv
    <3>2. /\ Len(results') = i /\ DOMAIN results' = 1 .. i
          /\ results'[i] = [bows |-> bows, lemmas |-> lemmas]
          /\ \A r \in 1 .. (i - 1) : results'[r] = results[r]
      BY <1>4, <2>1, <3>1
    <3>3. \A r \in 1 .. (i - 1) : ResultOK(r)'
      BY <1>1, <3>1, <3>2, ResultKept DEF IInv, ResultsInv
    <3>4. Counts(bows["text"], lemmas["text"], d, "text", Counted(d, "text"))
      BY <1>2, <1>10 DEF IInv, BagsInv, Reached, Parts
    <3>5. \A p \in Parts : Counts(bows[p], lemmas[p], d, p, Counted(d, p))
      BY <1>6, <1>10, <3>4 DEF Parts
    <3>6. ASSUME NEW r, r = i PROVE ResultOK(r)'
      <4>1. chunk[r] = d /\ chunk' = chunk /\ Docs[chunk[r]].lang \in Langs
        BY <1>1, <1>2, <3>6
      <4>2. results'[r].bows = bows /\ results'[r].lemmas = lemmas
        BY <3>2, <3>6
      <4>3. \A p \in Parts : Counts(bows[p], lemmas[p], chunk[r], p, Counted(chunk[r], p))
        BY <3>5, <4>1
      <4>4. \A p : Counted(chunk[r], p)' = Counted(chunk[r], p)
        <5>1. \A e, p : Counted(e, p)' = Counted(e, p)
          BY <1>1, CountedKept
        <5>2. ASSUME NEW p PROVE Counted(chunk[r], p)' = Counted(chunk[r], p)
          BY <4>1, <5>1
        <5> QED BY <5>2
      <4> HIDE DEF d
      <4> QED BY <4>1, <4>2, <4>3, <4>4 DEF ResultOK
    <3>7. \A r \in 1 .. i : r \in 1 .. (i - 1) \/ r = i
      BY <1>4
    <3>8. \A r \in 1 .. i : ResultOK(r)'
      BY <3>3, <3>6, <3>7
    <3>9. i' - 1 = i
      BY <1>4, <2>1
    <3> QED BY <3>2, <3>8, <3>9 DEF ResultsInv
  <2> QED BY <1>7, <2>2, <2>3, <2>4 DEF IInv
<1> QED BY <1>2, <1>9, <1>10 DEF Parts

\* A step that changes nothing.
LEMMA StutterIInv == IInv /\ UNCHANGED vars => IInv'
<1> SUFFICES ASSUME IInv, UNCHANGED vars PROVE IInv'
  OBVIOUS
<1>1. Lang' = Lang /\ Doc' = Doc /\ SentencesCount' = SentencesCount
  BY DEF vars, Lang, Doc, SentencesCount
<1>2. ControlInv'
  BY <1>1 DEF IInv, ControlInv, vars
<1>3. ReaderInv'
  BY <1>1 DEF IInv, ReaderInv, vars
<1>4. BagsInv'
  <2>1. \A p \in Parts : Reached(p)' = Reached(p)
    BY <1>1, CountedKept DEF Reached, vars
  <2> QED BY <2>1 DEF IInv, BagsInv, vars
<1>5. ResultsInv'
  BY ResultKept DEF IInv, ResultsInv, vars
<1> QED BY <1>2, <1>3, <1>4, <1>5 DEF IInv

\* The invariant holds in every state.
LEMMA InvHolds == Spec => []IInv
<1>1. IInv /\ [Next]_vars => IInv'
  BY BeginIInv, SkipIInv, SetTextIInv, NextSentenceIInv, EndOfPartIInv, StutterIInv DEF Next, Step, Finished
<1> QED BY <1>1, InitIInv, PTL DEF Spec

\* For every chunk, whatever is left in a reader when UpdateUDPipe returns, the
\* pointer to the string that is gone is never followed (features.hpp:118-126).
THEOREM NoDanglingRead == Spec => []ReaderInOwnString
<1>1. IInv => ReaderInOwnString
  BY DEF IInv, ReaderInv, ReaderInOwnString, Asks
<1> QED BY <1>1, InvHolds, PTL

\* The generator's variables keep their types, and every document of the chunk
\* gets one result (features.hpp:52-78).
THEOREM GeneratorTypes == Spec => []TypeOK
<1>1. ASSUME IInv PROVE TypeOK
  <2>1. /\ DOMAIN BOW(UpostagsDict) = 0 .. (Len(UpostagsTxt) - 1)
        /\ DOMAIN BOW(FeatsDict) = 0 .. (Len(FeatsTxt) - 1)
    BY NamesDict, DictsAssumption DEF UpostagsDict, FeatsDict
  <2>2. i \in 1 .. Len(chunk) + 1 /\ part \in Parts \cup {"none"} /\ inLoop \in BOOLEAN /\ total \in Nat
    BY <1>1 DEF IInv, ControlInv, ReaderInv
  <2>3. \A lang \in Langs : readers[lang].pos \in Nat
    BY <1>1 DEF IInv, ReaderInv
  <2>4. strings \subseteq (DOMAIN chunk) \X Parts
    <3>1. inLoop => i \in DOMAIN chunk /\ part \in Parts
      BY <1>1, DocIs DEF IInv, ControlInv
    <3> QED BY <1>1, <3>1 DEF IInv, ReaderInv
  <2>5. \A p \in Parts : Typed(bows[p], lemmas[p])
    BY <1>1 DEF IInv, BagsInv
  <2>6. Len(results) = i - 1
    BY <1>1 DEF IInv, ResultsInv
  <2> QED BY <2>1, <2>2, <2>3, <2>4, <2>5, <2>6 DEF TypeOK, Typed
<1> QED BY <1>1, InvHolds, PTL

\* For every chunk and every limit, a finished document has the counts of its
\* own first sentences, whatever the thread processed before (features.hpp:80-142).
THEOREM FeaturesAreExact == Spec => []FeaturesExact
<1>1. ASSUME IInv PROVE FeaturesExact
  <2> SUFFICES ASSUME NEW r \in DOMAIN results,
                      Docs[chunk[r]].lang \in Langs, NEW p \in Parts
               PROVE  LET d == chunk[r]
                          lang == Docs[d].lang
                      IN  /\ \A u \in DOMAIN UpostagsTxt :
                               results[r].bows[p].upostags[u - 1] =
                                 Cardinality({at \in Counted(d, p) : Word(d, p, at).upos = UpostagsTxt[u]})
                          /\ \A f \in DOMAIN FeatsTxt :
                               results[r].bows[p].feats[f - 1] = Occurrences(d, p, FeatsTxt[f])
                          /\ \A id \in DOMAIN results[r].lemmas[p] :
                               /\ LemmaLine(lang, id).class = p
                               /\ results[r].lemmas[p][id] =
                                    Cardinality(Having(d, p, Counted(d, p), LemmaLine(lang, id).lemma))
                          /\ \A at \in Counted(d, p) :
                               (/\ Word(d, p, at).upos \in LemmaUpostags
                                /\ \E l \in DOMAIN LemmasTxt[lang] :
                                     /\ LemmasTxt[lang][l].lemma = EraseColons(Word(d, p, at).lemma)
                                     /\ LemmasTxt[lang][l].class = p)
                               => \E id \in DOMAIN results[r].lemmas[p] :
                                    LemmaLine(lang, id).lemma = EraseColons(Word(d, p, at).lemma)
    BY <1>1 DEF FeaturesExact, IInv, ResultsInv, ResultOK, Having
  <2> DEFINE d == chunk[r]
             lang == Docs[d].lang
             R == Counted(d, p)
             dict == LemmasDict[lang][p]
             counts == results[r].lemmas[p]
  <2>1. Counts(results[r].bows[p], counts, d, p, R)
    BY <1>1 DEF IInv, ResultsInv, ResultOK
  <2>2. /\ DOMAIN counts = {dict[l] : l \in {m \in DOMAIN dict : Having(d, p, R, m) # {}}}
        /\ \A l \in DOMAIN dict : Having(d, p, R, l) # {} => counts[dict[l]] = Cardinality(Having(d, p, R, l))
    BY <2>1 DEF Counts, LemmasCounted
  <2>3. /\ \A l \in DOMAIN dict : LemmaLine(lang, dict[l]).lemma = l /\ LemmaLine(lang, dict[l]).class = p
        /\ \A q \in DOMAIN LemmasTxt[lang] :
             LemmasTxt[lang][q].class = p => LemmasTxt[lang][q].lemma \in DOMAIN dict
    BY LemmaPositions
  <2>4. \A u \in DOMAIN UpostagsTxt :
          results[r].bows[p].upostags[u - 1] = Cardinality({at \in R : Word(d, p, at).upos = UpostagsTxt[u]})
    BY <2>1 DEF Counts, UposCounted
  <2>5. \A f \in DOMAIN FeatsTxt : results[r].bows[p].feats[f - 1] = Occurrences(d, p, FeatsTxt[f])
    BY <2>1 DEF Counts, FeatsCounted, Occurrences, Uses
  <2> HIDE DEF dict, counts, R
  <2>6. ASSUME NEW id \in DOMAIN counts
        PROVE  /\ LemmaLine(lang, id).class = p
               /\ counts[id] = Cardinality(Having(d, p, R, LemmaLine(lang, id).lemma))
    <3>1. PICK l \in DOMAIN dict : id = dict[l] /\ Having(d, p, R, l) # {}
      BY <2>2
    <3> QED BY <2>2, <2>3, <3>1
  <2>7. ASSUME NEW at \in R, Word(d, p, at).upos \in LemmaUpostags,
               NEW q \in DOMAIN LemmasTxt[lang],
               LemmasTxt[lang][q].lemma = EraseColons(Word(d, p, at).lemma), LemmasTxt[lang][q].class = p
        PROVE  \E id \in DOMAIN counts : LemmaLine(lang, id).lemma = EraseColons(Word(d, p, at).lemma)
    <3> DEFINE l == EraseColons(Word(d, p, at).lemma)
    <3>1. l \in DOMAIN dict /\ at \in Having(d, p, R, l)
      BY <2>3, <2>7 DEF Having
    <3>2. dict[l] \in DOMAIN counts /\ LemmaLine(lang, dict[l]).lemma = l
      <4> HIDE DEF l
      <4> QED BY <2>2, <2>3, <3>1
    <3> QED BY <3>2
  <2> QED BY <2>4, <2>5, <2>6, <2>7 DEF R, counts
<1> QED BY <1>1, InvHolds, PTL

-----------------------------------------------------------------------------
\* RagelMap

\* At most one thread is between test_and_set and clear, and the flag is set then.
LockInv ==
  /\ \A t \in Threads : pc[t] \in Locked => flag = TRUE
  /\ \A t, u \in Threads : pc[t] \in Locked /\ pc[u] \in Locked => t = u

\* A call that has returned leaves a table behind, and so does the thread that
\* is about to clear the flag; who fills the table is the first to do so.
TableInv ==
  /\ \A t \in Threads : calls[t] > 0 => ragel_map # << >>
  /\ \A t \in Threads : pc[t] \in {"use", "done"} => calls[t] > 0
  /\ \A t \in Threads : pc[t] = "clear" => ragel_map # << >>
  /\ \A t \in Threads : pc[t] = "fill" => \A u \in Threads : calls[u] = 0
  /\ \A t \in Threads : pc[t] = "fill" /\ pos[t] > 0 => ragel_map # << >>
  /\ \A t \in Threads : pc[t] = "check" => pos[t] = 0

\* A thread in a call has not made all its calls.
CallInv == \A t \in Threads : pc[t] \in Locked \cup {"spin"} => calls[t] < Calls

\* The inductive invariant of the lock.
RMInv == RMTypeOK /\ LockInv /\ TableInv /\ CallInv

\* The initial state satisfies the invariant.
LEMMA InitRMInv == RMInit => RMInv
<1> SUFFICES ASSUME RMInit PROVE RMInv
  OBVIOUS
<1> USE CallsAssumption, AsciiAssumption, AddsAssumption DEF RMInit
<1>1. Writes \in Nat
  BY DEF Writes
<1>2. RMTypeOK
  <2>1. ragel_map \in Seq(Nat) /\ flag \in BOOLEAN
    BY EmptySeq
  <2>2. pc \in [Threads -> Locked \cup {"spin", "use", "done"}]
    OBVIOUS
  <2>3. calls \in [Threads -> 0 .. Calls] /\ pos \in [Threads -> 0 .. Writes]
    BY <1>1
  <2> QED BY <2>1, <2>2, <2>3 DEF RMTypeOK
<1>3. LockInv /\ TableInv /\ CallInv
  BY DEF LockInv, TableInv, CallInv, Locked
<1> QED BY <1>2, <1>3 DEF RMInv

\* ragel_map_add of a character leaves a table that is not empty.
LEMMA AddTable ==
  ASSUME ragel_map \in Seq(Nat), NEW chr \in Nat, NEW mapping \in Nat
  PROVE  Add(chr, mapping) \in Seq(Nat) /\ Add(chr, mapping) # << >>
<1> DEFINE base == IF chr >= Len(ragel_map) THEN Resized(chr + 1) ELSE ragel_map
<1>1. Resized(chr + 1) \in Seq(Nat) /\ Len(Resized(chr + 1)) = chr + 1
  BY OtherAssumption DEF Resized
<1>2. base \in Seq(Nat) /\ chr + 1 \in 1 .. Len(base)
  BY <1>1
<1>3. Add(chr, mapping) = [base EXCEPT ![chr + 1] = mapping]
  BY DEF Add
<1> HIDE DEF base
<1>4. /\ [base EXCEPT ![chr + 1] = mapping] \in Seq(Nat)
      /\ Len([base EXCEPT ![chr + 1] = mapping]) = Len(base)
  BY <1>2, ExceptSeq
<1> QED BY <1>2, <1>3, <1>4

\* A write of the table leaves it not empty.
LEMMA FillTable ==
  ASSUME RMInv, NEW t \in Threads, Fill(t)
  PROVE  ragel_map' \in Seq(Nat) /\ ragel_map' # << >>
<1>1. ragel_map \in Seq(Nat) /\ pos[t] \in Nat /\ pos[t] < Writes
  BY AsciiAssumption, AddsAssumption DEF RMInv, RMTypeOK, Fill, Writes
<1>2. CASE pos[t] < Ascii
  <2>1. ragel_map' = Append(ragel_map, pos[t])
    BY <1>2 DEF Fill
  <2> QED BY <1>1, <2>1
<1>3. CASE ~ (pos[t] < Ascii)
  <2> DEFINE a == Adds[pos[t] - Ascii + 1]
  <2>0. Len(Adds) \in Nat /\ pos[t] - Ascii + 1 \in 1 .. Len(Adds)
    BY <1>1, <1>3, AsciiAssumption, AddsAssumption DEF Writes
  <2>1. a \in [chr : Nat, mapping : Nat]
    BY <2>0, AddsAssumption, ElementOfSeq
  <2>2. ragel_map' = Add(a.chr, a.mapping)
    BY <1>3 DEF Fill
  <2>3. a.chr \in Nat /\ a.mapping \in Nat
    BY <2>1
  <2> HIDE DEF a
  <2> QED BY <1>1, <2>2, <2>3, AddTable
<1> QED BY <1>2, <1>3

\* Every step of every thread preserves the invariant.
LEMMA NextRMInv == RMInv /\ [RMNext]_RMvars => RMInv'
<1> SUFFICES ASSUME RMInv, [RMNext]_RMvars PROVE RMInv'
  OBVIOUS
<1> USE CallsAssumption
<1>0. Writes \in Nat \ {0}
  BY AsciiAssumption, AddsAssumption DEF Writes
<1>1. ASSUME NEW t \in Threads, Acquire(t) PROVE RMInv'
  BY <1>0, <1>1 DEF RMInv, RMTypeOK, LockInv, TableInv, CallInv, Locked, Acquire, Goto, FlagClear
<1>2. ASSUME NEW t \in Threads, Check(t) PROVE RMInv'
  <2>1. /\ pc[t] = "check"
        /\ pc' = [pc EXCEPT ![t] = IF ragel_map = << >> THEN "fill" ELSE "clear"]
        /\ UNCHANGED <<flag, ragel_map, calls, pos, seen>>
    BY <1>2 DEF Check, Goto
  <2>2. RMTypeOK'
    BY <2>1 DEF RMInv, RMTypeOK, Locked
  <2>3. LockInv' /\ CallInv'
    BY <2>1 DEF RMInv, RMTypeOK, LockInv, CallInv, Locked
  <2>4. ASSUME ragel_map = << >> PROVE \A u \in Threads : calls[u] = 0
    BY <2>4 DEF RMInv, RMTypeOK, TableInv
  <2>6. \A u \in Threads : pc[u] # "fill"
    BY <2>1 DEF RMInv, LockInv, Locked
  <2>7. pos[t] = 0
    BY <2>1 DEF RMInv, TableInv
  <2>8. TableInv'
    <3>1. CASE ragel_map = << >>
      BY <2>1, <2>4, <2>6, <2>7, <3>1 DEF RMInv, RMTypeOK, TableInv, Locked
    <3>2. CASE ragel_map # << >>
      BY <2>1, <2>6, <3>2 DEF RMInv, RMTypeOK, TableInv, Locked
    <3> QED BY <3>1, <3>2
  <2> QED BY <2>2, <2>3, <2>8 DEF RMInv
<1>3. ASSUME NEW t \in Threads, Fill(t) PROVE RMInv'
  <2>1. ragel_map' \in Seq(Nat) /\ ragel_map' # << >>
    BY <1>3, FillTable
  <2>2. /\ pc[t] = "fill" /\ pos[t] < Writes
        /\ pos' = [pos EXCEPT ![t] = @ + 1]
        /\ UNCHANGED <<pc, flag, calls, seen>>
    BY <1>3 DEF Fill
  <2> QED BY <1>0, <2>1, <2>2 DEF RMInv, RMTypeOK, LockInv, TableInv, CallInv, Locked
<1>4. ASSUME NEW t \in Threads, FillDone(t) PROVE RMInv'
  BY <1>0, <1>4 DEF RMInv, RMTypeOK, LockInv, TableInv, CallInv, Locked, FillDone, Goto
<1>5. ASSUME NEW t \in Threads, Clear(t) PROVE RMInv'
  <2>1. /\ pc[t] = "clear" /\ flag' = FALSE
        /\ calls' = [calls EXCEPT ![t] = calls[t] + 1]
        /\ pc' = [pc EXCEPT ![t] = IF calls[t] + 1 < Calls THEN "spin" ELSE "use"]
        /\ UNCHANGED <<ragel_map, pos, seen>>
    BY <1>5 DEF Clear, Goto, FlagAfterCall, MoreCalls
  <2>2. calls[t] \in Nat /\ calls[t] < Calls
    BY <2>1 DEF RMInv, RMTypeOK, CallInv, Locked
  <2>3. RMTypeOK'
    <3>1. pc' \in [Threads -> Locked \cup {"spin", "use", "done"}]
      BY <2>1 DEF RMInv, RMTypeOK
    <3>2. calls' \in [Threads -> 0 .. Calls]
      BY <2>1, <2>2 DEF RMInv, RMTypeOK
    <3> QED BY <2>1, <3>1, <3>2 DEF RMInv, RMTypeOK
  <2>4. \A u \in Threads : u # t => pc[u] \notin Locked
    BY <2>1 DEF RMInv, LockInv, Locked
  <2>5. \A u \in Threads : pc'[u] \notin Locked
    BY <2>1, <2>4 DEF RMInv, RMTypeOK, Locked
  <2>6. LockInv'
    BY <2>5 DEF LockInv
  <2>7. ragel_map # << >>
    BY <2>1 DEF RMInv, TableInv
  <2>8. TableInv'
    BY <2>1, <2>2, <2>5, <2>7 DEF RMInv, RMTypeOK, TableInv, Locked
  <2>9. CallInv'
    BY <2>1, <2>2 DEF RMInv, RMTypeOK, CallInv, Locked
  <2> QED BY <2>3, <2>6, <2>8, <2>9 DEF RMInv
<1>6. ASSUME NEW t \in Threads, NEW chr \in Chars, Read(t, chr) PROVE RMInv'
  BY <1>6 DEF RMInv, RMTypeOK, LockInv, TableInv, CallInv, Locked, Read
<1>7. ASSUME NEW t \in Threads, Leave(t) PROVE RMInv'
  BY <1>7 DEF RMInv, RMTypeOK, LockInv, TableInv, CallInv, Locked, Leave, Goto
<1>8. CASE UNCHANGED RMvars
  BY <1>8 DEF RMvars, RMInv, RMTypeOK, LockInv, TableInv, CallInv, Locked
<1>9. CASE RMFinished
  BY <1>8, <1>9 DEF RMFinished
<1>10. ASSUME NEW t \in Threads, Spin(t) PROVE RMInv'
  BY <1>8, <1>10 DEF Spin
<1> QED BY <1>1, <1>2, <1>3, <1>4, <1>5, <1>6, <1>7, <1>8, <1>9, <1>10 DEF RMNext, Construct

\* The invariant holds in every state.
THEOREM RMInvariance == RMSpec => []RMInv
BY InitRMInv, NextRMInv, PTL DEF RMSpec

\* However many threads construct their generators at once, one of them fills
\* the static table while no other thread can look at it, and nobody looks a
\* character up in a table that has not been filled (ragel_tokenizer.cpp:378-390).
THEOREM NoRace == RMSpec => []NoTableRace
<1>1. RMInv => NoTableRace
  BY DEF RMInv, RMTypeOK, LockInv, TableInv, NoTableRace, Locked
<1> QED BY <1>1, RMInvariance, PTL

\* The variables keep their types.
THEOREM TableTypes == RMSpec => []RMTypeOK
<1>1. RMInv => RMTypeOK
  BY DEF RMInv
<1> QED BY <1>1, RMInvariance, PTL

-----------------------------------------------------------------------------
\* What the table holds after n of its writes: the ASCII characters pushed so
\* far, the additions made so far, and Other in between.
FilledTo(n) ==
  /\ n <= Ascii => Len(ragel_map) = n
  /\ n >= Ascii => Len(ragel_map) >= Ascii
  /\ \A c \in 0 .. Len(ragel_map) - 1 : c < Ascii => ragel_map[c + 1] = c
  /\ \A a \in DOMAIN Adds :
       a <= n - Ascii => Adds[a].chr < Len(ragel_map) /\ ragel_map[Adds[a].chr + 1] = Adds[a].mapping
  /\ \A c \in Ascii .. Len(ragel_map) - 1 :
       (\A a \in DOMAIN Adds : a <= n - Ascii => Adds[a].chr # c) => ragel_map[c + 1] = Other

\* The thread that fills the table is as far as its count of writes says; while
\* nobody fills it, the table is empty or complete; what was read was right.
ContentInv ==
  /\ \A t \in Threads : pc[t] = "fill" => FilledTo(pos[t])
  /\ (\A t \in Threads : pc[t] # "fill") => ragel_map = << >> \/ FilledTo(Writes)
  /\ DOMAIN seen = Threads
  /\ ReadsExact

\* The first thread starts from nothing written.
LEMMA InitContent == RMInit => ContentInv
BY DEF RMInit, ContentInv, ReadsExact

\* One more push_back or addition: the table is what one more write makes it.
LEMMA FillContent ==
  ASSUME RMInv, NEW t \in Threads, Fill(t), FilledTo(pos[t])
  PROVE  FilledTo(pos[t])'
<1>1. /\ ragel_map \in Seq(Nat) /\ pos[t] \in Nat /\ pos[t] < Writes
      /\ Len(ragel_map) \in Nat /\ DOMAIN ragel_map = 1 .. Len(ragel_map)
  BY AsciiAssumption, AddsAssumption DEF RMInv, RMTypeOK, Fill, Writes
<1>2. pos'[t] = pos[t] + 1
  BY DEF RMInv, RMTypeOK, Fill
<1>3. Len(Adds) \in Nat /\ DOMAIN Adds = 1 .. Len(Adds)
  BY AddsAssumption
<1>4. \A a \in DOMAIN Adds : Adds[a].chr \in Nat /\ Adds[a].mapping \in Nat
  <2>1. \A a \in DOMAIN Adds : Adds[a] \in [chr : Nat, mapping : Nat]
    BY AddsAssumption, <1>3, ElementOfSeq
  <2> QED BY <2>1
<1>5. CASE pos[t] < Ascii
  <2>1. ragel_map' = Append(ragel_map, pos[t])
    BY <1>5 DEF Fill
  <2>2. Len(ragel_map) = pos[t]
    BY <1>1, <1>5, AsciiAssumption DEF FilledTo
  <2>3. /\ Len(ragel_map') = pos[t] + 1 /\ ragel_map'[pos[t] + 1] = pos[t]
        /\ \A c \in 1 .. pos[t] : ragel_map'[c] = ragel_map[c]
    BY <1>1, <2>1, <2>2
  <2>4. ASSUME NEW c \in 0 .. pos[t] PROVE ragel_map'[c + 1] = c
    <3>1. CASE c = pos[t]
      BY <2>3, <3>1
    <3>2. CASE c # pos[t]
      <4>1. c \in 0 .. Len(ragel_map) - 1 /\ c < Ascii /\ c + 1 \in 1 .. pos[t]
        BY <1>1, <1>5, <2>2, <3>2, AsciiAssumption
      <4>2. ragel_map[c + 1] = c
        BY <4>1 DEF FilledTo
      <4> QED BY <2>3, <4>1, <4>2
    <3> QED BY <3>1, <3>2
  <2> QED BY <1>1, <1>2, <1>3, <1>5, <2>3, <2>4, AsciiAssumption DEF FilledTo
<1>6. CASE ~ (pos[t] < Ascii)
  <2> DEFINE k == pos[t] - Ascii + 1
             base == IF Adds[k].chr >= Len(ragel_map) THEN Resized(Adds[k].chr + 1) ELSE ragel_map
  <2>1. k \in DOMAIN Adds /\ pos[t] >= Ascii /\ pos[t] + 1 - Ascii = k /\ pos[t] - Ascii = k - 1
    BY <1>1, <1>3, <1>6, AsciiAssumption DEF Writes
  <2>2. ragel_map' = [base EXCEPT ![Adds[k].chr + 1] = Adds[k].mapping]
    BY <1>6 DEF Fill, Add
  <2>3. k \in Nat /\ Adds[k].chr \in Nat /\ Adds[k].chr >= Ascii
    BY <1>3, <1>4, <2>1, DistinctAssumption
  <2>4. /\ Len(base) \in Nat /\ DOMAIN base = 1 .. Len(base)
        /\ Len(base) >= Len(ragel_map) /\ Adds[k].chr < Len(base)
        /\ \A c \in 1 .. Len(ragel_map) : base[c] = ragel_map[c]
        /\ \A c \in 1 .. Len(base) : c > Len(ragel_map) => base[c] = Other
    <3>1. CASE Adds[k].chr >= Len(ragel_map)
      <4>1. base = Resized(Adds[k].chr + 1)
        BY <3>1
      <4>2. Len(base) = Adds[k].chr + 1 /\ DOMAIN base = 1 .. Adds[k].chr + 1
        BY <2>3, <4>1 DEF Resized
      <4>3. \A c \in 1 .. Adds[k].chr + 1 : base[c] = IF c \in 1 .. Len(ragel_map) THEN ragel_map[c] ELSE Other
        BY <1>1, <4>1 DEF Resized
      <4> HIDE DEF k, base
      <4> QED BY <1>1, <2>3, <3>1, <4>2, <4>3
    <3>2. CASE ~ (Adds[k].chr >= Len(ragel_map))
      <4>1. base = ragel_map
        BY <3>2
      <4> HIDE DEF k, base
      <4> QED BY <1>1, <2>3, <3>2, <4>1
    <3> QED BY <3>1, <3>2
  <2> HIDE DEF k, base
  <2>5. /\ Len(ragel_map') = Len(base) /\ ragel_map'[Adds[k].chr + 1] = Adds[k].mapping
        /\ \A c \in 1 .. Len(base) : c # Adds[k].chr + 1 => ragel_map'[c] = base[c]
    BY <2>2, <2>3, <2>4
  <2>6. Len(ragel_map) >= Ascii
    BY <2>1 DEF FilledTo
  <2>7. ASSUME NEW c \in 0 .. Len(ragel_map') - 1, c < Ascii PROVE ragel_map'[c + 1] = c
    <3>1. c \in Nat /\ c < Len(ragel_map) /\ c + 1 # Adds[k].chr + 1
      BY <2>3, <2>6, <2>7, AsciiAssumption, <1>1
    <3>2. ragel_map[c + 1] = c
      BY <1>1, <2>7, <3>1 DEF FilledTo
    <3> QED BY <1>1, <2>4, <2>5, <3>1, <3>2
  <2>8. ASSUME NEW a \in DOMAIN Adds, a <= k
        PROVE  Adds[a].chr < Len(ragel_map') /\ ragel_map'[Adds[a].chr + 1] = Adds[a].mapping
    <3>1. CASE a = k
      BY <2>4, <2>5, <3>1
    <3>2. CASE a # k
      <4>1. a <= pos[t] - Ascii /\ Adds[a].chr \in Nat
        BY <1>3, <1>4, <2>1, <2>3, <2>8, <3>2
      <4>2. Adds[a].chr < Len(ragel_map) /\ ragel_map[Adds[a].chr + 1] = Adds[a].mapping
        BY <4>1 DEF FilledTo
      <4>3. Adds[a].chr # Adds[k].chr
        BY <2>1, <3>2, DistinctAssumption
      <4> DEFINE c == Adds[a].chr
      <4>4. c \in Nat /\ c < Len(ragel_map) /\ c # Adds[k].chr
        BY <4>1, <4>2, <4>3
      <4>5. c < Len(base) /\ c + 1 \in 1 .. Len(ragel_map) /\ c + 1 \in 1 .. Len(base) /\ c + 1 # Adds[k].chr + 1
        <5>1. /\ Len(ragel_map) \in Nat /\ Len(base) \in Nat /\ Len(base) >= Len(ragel_map)
              /\ Adds[k].chr \in Nat
          BY <1>1, <2>3, <2>4
        <5> HIDE DEF c
        <5> QED BY <4>4, <5>1
      <4>6. ragel_map'[c + 1] = ragel_map[c + 1]
        BY <2>4, <2>5, <4>5
      <4> QED BY <2>5, <4>2, <4>5, <4>6
    <3> QED BY <3>1, <3>2
  <2>9. ASSUME NEW c \in Ascii .. Len(ragel_map') - 1, \A a \in DOMAIN Adds : a <= k => Adds[a].chr # c
        PROVE  ragel_map'[c + 1] = Other
    <3>1. c \in Nat /\ c # Adds[k].chr /\ c + 1 \in 1 .. Len(base)
      BY <2>1, <2>3, <2>4, <2>5, <2>9, AsciiAssumption
    <3>2. ragel_map'[c + 1] = base[c + 1]
      BY <2>3, <2>5, <3>1
    <3>3. CASE c < Len(ragel_map)
      <4>1. \A a \in DOMAIN Adds : a <= pos[t] - Ascii => Adds[a].chr # c
        BY <1>3, <2>1, <2>3, <2>9
      <4>2. ragel_map[c + 1] = Other
        BY <1>1, <3>3, <4>1 DEF FilledTo
      <4> QED BY <1>1, <2>4, <3>1, <3>2, <3>3, <4>2
    <3>4. CASE ~ (c < Len(ragel_map))
      BY <1>1, <2>4, <3>1, <3>2, <3>4
    <3> QED BY <3>3, <3>4
  <2>10. /\ pos'[t] - Ascii = k /\ pos'[t] > Ascii /\ pos'[t] \in Nat
         /\ Len(ragel_map') \in Nat /\ Len(ragel_map') >= Ascii
    BY <1>1, <1>2, <2>1, <2>4, <2>5, <2>6, AsciiAssumption
  <2> QED BY <2>7, <2>8, <2>9, <2>10, AsciiAssumption DEF FilledTo
<1> QED BY <1>5, <1>6

\* A complete table classifies every character as it should.
LEMMA CompleteTable ==
  ASSUME FilledTo(Writes), ragel_map \in Seq(Nat), NEW chr \in Nat
  PROVE  RagelChar(chr) = Expected(chr)
<1>1. /\ Len(Adds) \in Nat /\ DOMAIN Adds = 1 .. Len(Adds)
      /\ \A a \in DOMAIN Adds : a <= Writes - Ascii
      /\ Len(ragel_map) \in Nat /\ Len(ragel_map) >= Ascii
  BY AddsAssumption, AsciiAssumption DEF FilledTo, Writes
<1>2. CASE chr < Ascii
  BY <1>1, <1>2, AsciiAssumption DEF FilledTo, RagelChar, Expected
<1>3. CASE ~ (chr < Ascii) /\ \E a \in DOMAIN Adds : Adds[a].chr = chr
  <2> DEFINE b == CHOOSE a \in DOMAIN Adds : Adds[a].chr = chr
  <2>1. b \in DOMAIN Adds /\ Adds[b].chr = chr
    BY <1>3
  <2>2. Expected(chr) = Adds[b].mapping
    BY <1>3 DEF Expected
  <2> HIDE DEF b
  <2>3. chr < Len(ragel_map) /\ ragel_map[chr + 1] = Adds[b].mapping
    BY <1>1, <2>1 DEF FilledTo
  <2> QED BY <2>2, <2>3 DEF RagelChar
<1>4. CASE ~ (chr < Ascii) /\ ~ \E a \in DOMAIN Adds : Adds[a].chr = chr
  <2>1. Expected(chr) = Other
    BY <1>4 DEF Expected
  <2>2. chr < Len(ragel_map) => ragel_map[chr + 1] = Other
    <3> SUFFICES ASSUME chr < Len(ragel_map) PROVE ragel_map[chr + 1] = Other
      OBVIOUS
    <3>1. chr \in Ascii .. Len(ragel_map) - 1
      BY <1>1, <1>4, AsciiAssumption
    <3>2. \A a \in DOMAIN Adds : a <= Writes - Ascii => Adds[a].chr # chr
      BY <1>4
    <3> QED BY <3>1, <3>2 DEF FilledTo
  <2> QED BY <2>1, <2>2 DEF RagelChar
<1> QED BY <1>2, <1>3, <1>4

\* Every step of every thread keeps what the table holds as its writes made it.
LEMMA StepContent == RMInv /\ ContentInv /\ [RMNext]_RMvars => ContentInv'
<1> SUFFICES ASSUME RMInv, ContentInv, [RMNext]_RMvars PROVE ContentInv'
  OBVIOUS
<1>0. /\ DOMAIN pc = Threads /\ DOMAIN pos = Threads /\ DOMAIN seen = Threads
      /\ ragel_map \in Seq(Nat) /\ ReadsExact
  BY DEF RMInv, RMTypeOK, ContentInv
<1>1. ASSUME UNCHANGED <<ragel_map, seen>>, UNCHANGED pos,
             \A t \in Threads : pc'[t] = "fill" <=> pc[t] = "fill"
      PROVE  ContentInv'
  <2>1. \A t \in Threads : pc'[t] = "fill" => FilledTo(pos[t])'
    BY <1>1 DEF ContentInv, FilledTo
  <2>2. (\A t \in Threads : pc'[t] # "fill") => ragel_map' = << >> \/ FilledTo(Writes)'
    BY <1>1 DEF ContentInv, FilledTo
  <2>3. ReadsExact'
    BY <1>0, <1>1 DEF ReadsExact
  <2> QED BY <1>0, <1>1, <2>1, <2>2, <2>3 DEF ContentInv
<1>2. ASSUME NEW t \in Threads, Acquire(t) PROVE ContentInv'
  <2>1. /\ pc' = [pc EXCEPT ![t] = "check"] /\ pos' = [pos EXCEPT ![t] = 0]
        /\ pc[t] = "spin" /\ flag = FALSE /\ UNCHANGED <<ragel_map, seen>>
    BY <1>2 DEF Acquire, Goto, FlagClear
  <2>2. \A u \in Threads : pc[u] # "fill" /\ pc'[u] # "fill"
    BY <1>0, <2>1 DEF RMInv, LockInv, Locked
  <2>3. ragel_map' = << >> \/ FilledTo(Writes)'
    BY <2>1, <2>2 DEF ContentInv, FilledTo
  <2>4. ReadsExact'
    BY <1>0, <2>1 DEF ReadsExact
  <2> QED BY <1>0, <2>1, <2>2, <2>3, <2>4 DEF ContentInv
<1>3. ASSUME NEW t \in Threads, Check(t) PROVE ContentInv'
  <2>1. /\ pc' = [pc EXCEPT ![t] = IF ragel_map = << >> THEN "fill" ELSE "clear"]
        /\ pc[t] = "check" /\ UNCHANGED <<ragel_map, pos, seen>>
    BY <1>3 DEF Check, Goto
  <2>2. CASE ragel_map # << >>
    BY <1>0, <1>1, <2>1, <2>2
  <2>3. CASE ragel_map = << >>
    <3>1. pos[t] = 0 /\ pc'[t] = "fill" /\ \A u \in Threads : pc'[u] = "fill" => u = t
      BY <1>0, <2>1, <2>3 DEF RMInv, TableInv, LockInv, Locked
    <3>2. Len(ragel_map') = 0 /\ pos'[t] = 0
      BY <2>1, <2>3, <3>1
    <3>3. FilledTo(pos[t])'
      BY <3>2, AsciiAssumption, AddsAssumption DEF FilledTo
    <3>4. ReadsExact'
      BY <1>0, <2>1 DEF ReadsExact
    <3> QED BY <1>0, <2>1, <3>1, <3>3, <3>4 DEF ContentInv
  <2> QED BY <2>2, <2>3
<1>4. ASSUME NEW t \in Threads, Fill(t) PROVE ContentInv'
  <2>1. pc[t] = "fill" /\ UNCHANGED <<pc, seen>> /\ FilledTo(pos[t])'
    BY <1>4, FillContent DEF Fill, ContentInv
  <2>2. \A u \in Threads : pc[u] = "fill" => u = t
    BY <2>1 DEF RMInv, LockInv, Locked
  <2>3. ReadsExact'
    BY <1>0, <2>1 DEF ReadsExact
  <2> QED BY <1>0, <2>1, <2>2, <2>3 DEF ContentInv
<1>5. ASSUME NEW t \in Threads, FillDone(t) PROVE ContentInv'
  <2>1. /\ pc[t] = "fill" /\ pos[t] = Writes /\ pc' = [pc EXCEPT ![t] = "clear"]
        /\ UNCHANGED <<ragel_map, pos, seen>>
    BY <1>5 DEF FillDone, Goto
  <2>2. \A u \in Threads : pc'[u] # "fill"
    BY <1>0, <2>1 DEF RMInv, LockInv, Locked
  <2>3. FilledTo(Writes)
    BY <2>1 DEF ContentInv
  <2>4. FilledTo(Writes)'
    BY <2>1, <2>3 DEF FilledTo
  <2>5. ReadsExact'
    BY <1>0, <2>1 DEF ReadsExact
  <2> QED BY <1>0, <2>1, <2>2, <2>4, <2>5 DEF ContentInv
<1>6. ASSUME NEW t \in Threads, Clear(t) PROVE ContentInv'
  <2>1. /\ pc[t] = "clear" /\ pc' = [pc EXCEPT ![t] = IF MoreCalls(t) THEN "spin" ELSE "use"]
        /\ UNCHANGED <<ragel_map, pos, seen>>
    BY <1>6 DEF Clear, Goto
  <2> QED BY <1>0, <1>1, <2>1
<1>7. ASSUME NEW t \in Threads, Leave(t) PROVE ContentInv'
  <2>1. pc[t] = "use" /\ pc' = [pc EXCEPT ![t] = "done"] /\ UNCHANGED <<ragel_map, pos, seen>>
    BY <1>7 DEF Leave, Goto
  <2> QED BY <1>0, <1>1, <2>1
<1>8. ASSUME NEW t \in Threads, NEW chr \in Chars, Read(t, chr) PROVE ContentInv'
  <2>1. /\ pc[t] = "use" /\ seen' = [seen EXCEPT ![t] = <<chr, RagelChar(chr)>>]
        /\ UNCHANGED <<pc, ragel_map, pos>>
    BY <1>8 DEF Read
  <2>2. /\ \A u \in Threads : pc[u] # "fill"
        /\ ragel_map # << >>
    BY <2>1 DEF RMInv, RMTypeOK, TableInv
  <2>3. FilledTo(Writes)
    BY <2>2 DEF ContentInv
  <2>4. chr \in Nat
    BY DEF Chars
  <2>5. RagelChar(chr) = Expected(chr)
    BY <1>0, <2>3, <2>4, CompleteTable
  <2>6. FilledTo(Writes)'
    BY <2>1, <2>3 DEF FilledTo
  <2>7. seen'[t] = <<chr, Expected(chr)>> /\ \A u \in Threads : u # t => seen'[u] = seen[u]
    BY <1>0, <2>1, <2>5
  <2>8. ReadsExact'
    BY <1>0, <2>7 DEF ReadsExact
  <2> QED BY <1>0, <2>1, <2>2, <2>6, <2>8 DEF ContentInv
<1>9. CASE UNCHANGED RMvars
  BY <1>1, <1>9 DEF RMvars
<1> QED BY <1>2, <1>3, <1>4, <1>5, <1>6, <1>7, <1>8, <1>9 DEF RMNext, Construct, RMFinished, Spin

\* Every class that a thread, of any number that start at once, gets for a
\* character is the one of the completely initialised table, whichever thread
\* filled it and however often the others asked for it (ragel_tokenizer.cpp:378-396).
THEOREM EveryReadExact == RMSpec => []ReadsExact
<1>1. RMInit => RMInv /\ ContentInv
  BY InitRMInv, InitContent
<1>2. RMInv /\ ContentInv /\ [RMNext]_RMvars => (RMInv /\ ContentInv)'
  BY NextRMInv, StepContent
<1>3. ContentInv => ReadsExact
  BY DEF ContentInv
<1> QED BY <1>1, <1>2, <1>3, PTL DEF RMSpec
=============================================================================
