----------------------------- MODULE Tsv_proofs -----------------------------
(***************************************************************************)
(* Proofs about Tsv, for every set of documents and every number of them.  *)
(*                                                                         *)
(* The columns stand for the documents added so far: a column that has one *)
(* cell per document holds theirs in order, and one that has two starts    *)
(* with the first document's.  The lines written so far are the header and *)
(* the first rows of the columns.                                          *)
(***************************************************************************)
EXTENDS Tsv, FiniteSetTheorems, TLAPS

-----------------------------------------------------------------------------
Keys == MetaKeys \cup Flags

Columns == Names \cup Fixed

Sized(s) == Len(s) \in Nat /\ DOMAIN s = 1 .. Len(s)

TypeInv ==
  /\ Sized(docs) /\ total \in 0 .. Len(docs)
  /\ pc \in {"keys", "columns", "rows", "done", "crashed"}

\* The set of the names, and the order in which it is iterated.
KeysInv ==
  /\ IsFiniteSet(Keys)
  /\ pc # "keys" => keys \in Orders(Keys)
  /\ pc = "keys" => total = 0

\* The documents that have been added have the flags of their features.
FlagsInv ==
  \A k \in 1 .. total : \A key \in Flags :
    key \in DOMAIN docs[k].meta /\ docs[k].meta[key] = Digits(flags[k][key])

\* What a column holds.
ColumnInv(key) ==
  /\ Sized(result[key]) /\ Len(result[key]) = total * Width(key)
  /\ Width(key) = 1 => \A k \in 1 .. total : result[key][k] = Expected(k, key)
  /\ Width(key) = 2 => result[key][1] = Expected(1, key)
  /\ \A k \in DOMAIN result[key] : result[key][k].separators = {}

ResultInv ==
  /\ total = 0 => DOMAIN result = {}
  /\ total > 0 => DOMAIN result = Columns
  /\ \A key \in DOMAIN result : ColumnInv(key)

\* The cell of a row: the last one is read from the end of the column.
RowCell(l, key) ==
  IF l < total THEN result[key][l] ELSE Back(result[key])

LinesInv ==
  /\ pc \in {"rows", "done", "crashed"} => total = Len(docs)
  /\ pc = "done" => total > 0 /\ Len(lines) = total + 1
  /\ pc = "rows" => Len(lines) >= 1 /\ (Len(lines) <= total \/ Len(lines) = 1)
  /\ Sized(lines)
  /\ pc \in {"rows", "done"} =>
       /\ \A l \in DOMAIN lines : DOMAIN lines[l] = DOMAIN KeysVec
       /\ \A j \in DOMAIN KeysVec : lines[1][j] = Name(KeysVec[j])
       /\ \A l \in 1 .. Len(lines) - 1 : \A j \in DOMAIN KeysVec :
            lines[l + 1][j] = RowCell(l, KeysVec[j])

IInv == TypeInv /\ KeysInv /\ FlagsInv /\ ResultInv /\ LinesInv

-----------------------------------------------------------------------------
\* Once the names are collected, they are the keys; and a column of the table
\* gets one or two cells from a document.
LEMMA NamesAreKeys ==
  ASSUME KeysInv, pc # "keys"
  PROVE  /\ Names = Keys /\ Sized(keys) /\ Len(keys) = Cardinality(Keys)
         /\ Sized(KeysVec) /\ Len(KeysVec) = Len(keys) + 2
         /\ \A j \in DOMAIN KeysVec : KeysVec[j] \in Columns
<1>1. /\ IsFiniteSet(Keys) /\ keys \in [1 .. Cardinality(Keys) -> Keys]
      /\ \A x \in Keys : \E k \in DOMAIN keys : keys[k] = x
  BY DEF KeysInv, Orders
<1>2. Cardinality(Keys) \in Nat
  BY <1>1, FS_CardinalityType
<1>3. Names = Keys
  BY <1>1 DEF Names
<1>4. Sized(keys) /\ Len(keys) = Cardinality(Keys)
  BY <1>1, <1>2 DEF Sized
<1>5. Sized(KeysVec) /\ Len(KeysVec) = Len(keys) + 2
  BY <1>4 DEF Sized, KeysVec
<1>6. ASSUME NEW j \in DOMAIN KeysVec PROVE KeysVec[j] \in Columns
  <2>1. CASE j \in 1 .. Len(keys)
    <3>1. KeysVec[j] = keys[j]
      BY <2>1, <1>4 DEF KeysVec, Sized
    <3> QED
      BY <3>1, <2>1, <1>4 DEF Columns, Names, Sized
  <2>2. CASE j \notin 1 .. Len(keys)
    <3>1. j = Len(keys) + 1 \/ j = Len(keys) + 2
      BY <2>2, <1>4, <1>5 DEF Sized
    <3>2. KeysVec[j] \in Fixed
      BY <3>1, <1>4 DEF KeysVec, Sized, Fixed
    <3> QED
      BY <3>2 DEF Columns
  <2> QED
    BY <2>1, <2>2
<1>7. QED
  BY <1>3, <1>4, <1>5, <1>6

\* The width of a column.
LEMMA Widths ==
  ASSUME NEW key \in Columns
  PROVE  /\ Width(key) \in {1, 2}
         /\ Width(key) = 2 <=> key \in Fixed \cap Names
BY DEF Width, Columns

\* The names and the widths depend on the keys alone.
LEMMA NamesFixed ==
  ASSUME UNCHANGED keys
  PROVE  /\ Names' = Names /\ Columns' = Columns /\ KeysVec' = KeysVec
         /\ \A key : Width(key)' = Width(key)
<1>1. Names' = Names
  BY DEF Names
<1>2. QED
  BY <1>1 DEF Columns, KeysVec, Width

\* The first state satisfies the invariant.
LEMMA InitInv == Init => IInv
<1> SUFFICES ASSUME Init PROVE IInv
  OBVIOUS
<1>1. PICK m \in 0 .. MaxDocs : docs \in [1 .. m -> Documents]
  BY DEF Init
<1>2. m \in Nat /\ Len(docs) = m /\ DOMAIN docs = 1 .. m
  BY <1>1, MaxDocsAssumption
<1>3. TypeInv
  BY <1>2 DEF Init, TypeInv, Sized
<1>4. KeysInv
  <2> DEFINE S == {DOMAIN docs[k].meta : k \in 1 .. m}
             f == [k \in 1 .. m |-> DOMAIN docs[k].meta]
  <2>1. IsFiniteSet(1 .. m)
    BY <1>2, FS_Interval
  <2>2. f \in Surjection(1 .. m, S)
    BY DEF Surjection
  <2>3. IsFiniteSet(S)
    <3> HIDE DEF f, S
    <3> QED
      BY <2>1, <2>2, FS_Surjection
  <2>4. \A T \in S : IsFiniteSet(T)
    BY <1>1, DocumentsAssumption
  <2>5. IsFiniteSet(UNION S)
    <3> HIDE DEF S
    <3> QED
      BY <2>3, <2>4, FS_UNION
  <2>6. MetaKeys = UNION S
    BY <1>2 DEF MetaKeys
  <2>7. IsFiniteSet(Flags)
    <3>1. IsFiniteSet({"is_news"}) /\ IsFiniteSet({"is_news_score"})
      BY FS_Singleton
    <3>2. Flags = {"is_news"} \cup {"is_news_score"}
      BY DEF Flags
    <3> QED
      BY <3>1, <3>2, FS_Union
  <2>8. IsFiniteSet(Keys)
    <3> HIDE DEF S
    <3> QED
      BY <2>5, <2>6, <2>7, FS_Union DEF Keys
  <2> QED
    BY <2>8 DEF KeysInv, Init
<1>5. FlagsInv /\ ResultInv
  BY DEF Init, FlagsInv, ResultInv
<1>6. LinesInv
  BY DEF Init, LinesInv, Sized
<1>7. QED
  BY <1>3, <1>4, <1>5, <1>6 DEF IInv

\* The names are collected.
LEMMA CollectKeysInv == IInv /\ CollectKeys => IInv'
<1> SUFFICES ASSUME IInv, CollectKeys PROVE IInv'
  OBVIOUS
<1> USE DEF IInv
<1>1. /\ pc = "keys" /\ pc' = "columns" /\ keys' \in Orders(Keys)
      /\ UNCHANGED docs /\ UNCHANGED <<flags, result, total, lines>>
  BY DEF CollectKeys, Keys
<1>2. Keys' = Keys /\ total = 0
  BY <1>1 DEF Keys, MetaKeys, KeysInv
<1>3. TypeInv'
  BY <1>1 DEF TypeInv, Sized
<1>4. KeysInv'
  <2>1. Orders(Keys)' = Orders(Keys)
    BY <1>2 DEF Orders
  <2> QED
    BY <1>1, <1>2, <2>1 DEF KeysInv
<1>5. FlagsInv'
  BY <1>1, <1>2 DEF FlagsInv
<1>6. ResultInv'
  BY <1>1, <1>2 DEF ResultInv
<1>7. LinesInv'
  BY <1>1 DEF LinesInv, Sized
<1>8. QED
  BY <1>3, <1>4, <1>5, <1>6, <1>7

\* The cells that a document adds to a column: as many as the column is wide,
\* the document's own first, and all without separators.
LEMMA DocumentCells ==
  ASSUME TypeInv, AddDocument, NEW key \in Columns
  PROVE  LET doc == SetFlags(docs[total + 1], flags[total + 1])
         IN  /\ Sized(Cells(doc, key)) /\ Len(Cells(doc, key)) = Width(key)
             /\ Cells(doc, key)[1] = Expected(total, key)'
             /\ \A k \in DOMAIN Cells(doc, key) : Cells(doc, key)[k].separators = {}
<1> DEFINE doc == SetFlags(docs[total + 1], flags[total + 1])
           f == FixedCell(doc, key)
           g == MetaCell(doc, key)
           a == IF key \in Fixed THEN 1 ELSE 0
           b == IF key \in Names THEN 1 ELSE 0
<1>1. total + 1 \in DOMAIN docs /\ docs'[total'] = doc /\ flags' = flags /\ total' = total + 1
  BY DEF TypeInv, Sized, AddDocument
<1>2. \A x : Clean(x).separators = {}
  BY DEF Clean, Str
<1>3. Sized(f) /\ Len(f) = a /\ (\A k \in DOMAIN f : f[k].separators = {})
  <2>1. CASE key \in Fixed
    <3>1. PICK x : f = << Clean(x) >>
      BY <2>1 DEF FixedCell, Fixed
    <3> HIDE DEF f
    <3> QED
      BY <2>1, <3>1, <1>2 DEF Sized
  <2>2. CASE key \notin Fixed
    <3>1. f = << >>
      BY <2>2 DEF FixedCell, Fixed
    <3> HIDE DEF f
    <3> QED
      BY <2>2, <3>1 DEF Sized
  <2> QED
    BY <2>1, <2>2
<1>4. Sized(g) /\ Len(g) = b /\ (\A k \in DOMAIN g : g[k].separators = {})
  <2>1. CASE key \in Names
    <3>1. g = << Clean(GetMeta(doc, key)) >>
      BY <2>1 DEF MetaCell
    <3> HIDE DEF g
    <3> QED
      BY <2>1, <3>1, <1>2 DEF Sized
  <2>2. CASE key \notin Names
    <3>1. g = << >>
      BY <2>2 DEF MetaCell
    <3> HIDE DEF g
    <3> QED
      BY <2>2, <3>1 DEF Sized
  <2> QED
    BY <2>1, <2>2
<1>5. key \in Fixed => f[1] = Expected(total, key)'
  <2>1. key = "text" => f[1] = Clean(doc.text)
    BY DEF FixedCell
  <2>2. key = "related_links" => f[1] = Clean(doc.links)
    BY DEF FixedCell
  <2>3. key = "text" => Expected(total, key)' = Clean(doc.text)
    BY <1>1 DEF Expected, Clean
  <2>4. key = "related_links" => Expected(total, key)' = Clean(doc.links)
    BY <1>1 DEF Expected, Clean
  <2> QED
    BY <2>1, <2>2, <2>3, <2>4 DEF Fixed
<1>6. key \notin Fixed => g[1] = Expected(total, key)'
  <2>1. SUFFICES ASSUME key \notin Fixed PROVE g[1] = Expected(total, key)'
    OBVIOUS
  <2>2. key \in Names /\ key # "text" /\ key # "related_links"
    BY <2>1 DEF Columns, Fixed
  <2>3. g[1] = Clean(GetMeta(doc, key))
    BY <2>2 DEF MetaCell
  <2>4. CASE key \in Flags
    <3>1. GetMeta(doc, key) = Digits(flags[total + 1][key])
      BY <2>4 DEF GetMeta, SetFlags
    <3>2. Clean(Digits(flags[total + 1][key])) = Digits(flags[total + 1][key])
      BY DEF Clean, Digits, Str
    <3>3. Expected(total, key)' = Digits(flags[total + 1][key])
      BY <2>2, <2>4, <1>1 DEF Expected
    <3> QED
      BY <2>3, <3>1, <3>2, <3>3
  <2>5. CASE key \notin Flags
    <3>1. Expected(total, key)' = Clean(GetMeta(docs[total], key))'
      BY <2>2, <2>5 DEF Expected
    <3>2. Clean(GetMeta(docs[total], key))' = Clean(GetMeta(doc, key))
      BY <1>1 DEF Clean, GetMeta
    <3> QED
      BY <2>3, <3>1, <3>2
  <2> QED
    BY <2>4, <2>5
<1>7. a + b = Width(key) /\ a + b \in {1, 2} /\ (key \notin Fixed => a = 0 /\ b = 1)
  BY DEF Width, Columns
<1> HIDE DEF f, g, a, b
<1>8. a \in 0 .. 1 /\ b \in 0 .. 1
  BY DEF a, b
<1>9. Sized(f \o g) /\ Len(f \o g) = a + b
  BY <1>3, <1>4, <1>8 DEF Sized
<1>10. (f \o g)[1] = Expected(total, key)'
  <2>1. CASE key \in Fixed
    <3>1. 1 \in 1 .. Len(f)
      BY <2>1, <1>3 DEF a
    <3> QED
      BY <2>1, <3>1, <1>3, <1>4, <1>5 DEF Sized
  <2>2. CASE key \notin Fixed
    <3>1. Len(f) = 0 /\ 1 \in 1 .. Len(g)
      BY <2>2, <1>3, <1>4, <1>7
    <3>2. (f \o g)[1] = g[1]
      <4>1. \A k \in 1 .. Len(g) : (f \o g)[Len(f) + k] = g[k]
        BY <1>3, <1>4 DEF Sized
      <4>2. Len(f) + 1 = 1
        BY <3>1
      <4> QED
        BY <4>1, <4>2, <3>1
    <3> QED
      BY <3>2, <2>2, <1>6
  <2> QED
    BY <2>1, <2>2
<1>11. ASSUME NEW k \in DOMAIN (f \o g) PROVE (f \o g)[k].separators = {}
  <2>1. CASE k \in 1 .. Len(f)
    BY <2>1, <1>3, <1>4 DEF Sized
  <2>2. CASE k \notin 1 .. Len(f)
    <3>1. k - Len(f) \in DOMAIN g /\ (f \o g)[k] = g[k - Len(f)]
      BY <2>2, <1>3, <1>4, <1>9 DEF Sized
    <3> QED
      BY <3>1, <1>4
  <2> QED
    BY <2>1, <2>2
<1>12. QED
  BY <1>7, <1>9, <1>10, <1>11 DEF Cells, f, g

\* A document is added to the columns.
LEMMA AddDocumentInv == IInv /\ AddDocument => IInv'
<1> SUFFICES ASSUME IInv, AddDocument PROVE IInv'
  OBVIOUS
<1> DEFINE doc == SetFlags(docs[total + 1], flags[total + 1])
<1>1. /\ pc = "columns" /\ total < Len(docs) /\ total' = total + 1
      /\ docs' = [docs EXCEPT ![total + 1] = doc]
      /\ result' = [key \in Columns |-> Column(key) \o Cells(doc, key)]
      /\ UNCHANGED keys /\ UNCHANGED <<flags, pc, lines>>
  BY DEF AddDocument, Columns
<1>2. Sized(docs) /\ total \in 0 .. Len(docs)
  BY DEF IInv, TypeInv
<1>3. /\ total + 1 \in DOMAIN docs /\ DOMAIN docs' = DOMAIN docs /\ docs'[total + 1] = doc
      /\ \A k \in DOMAIN docs : k # total + 1 => docs'[k] = docs[k]
  BY <1>1, <1>2 DEF Sized
<1>4. TypeInv'
  <2>1. Len(docs') = Len(docs) /\ Sized(docs')
    BY <1>2, <1>3 DEF Sized
  <2> QED
    BY <1>1, <1>2, <2>1 DEF TypeInv
<1>5. /\ DOMAIN doc.meta = DOMAIN docs[total + 1].meta \cup Flags
      /\ \A key \in Flags : doc.meta[key] = Digits(flags[total + 1][key])
  BY DEF SetFlags
<1>6. /\ Names' = Names /\ Columns' = Columns /\ KeysVec' = KeysVec
      /\ \A key : Width(key)' = Width(key)
  BY <1>1, NamesFixed
<1> HIDE DEF doc
<1>7. KeysInv'
  <2>1. ASSUME NEW key PROVE key \in Keys' <=> key \in Keys
    <3>1. CASE key \in Flags
      BY <3>1 DEF Keys
    <3>2. CASE key \notin Flags
      <4>1. \A k \in DOMAIN docs : key \in DOMAIN docs'[k].meta <=> key \in DOMAIN docs[k].meta
        BY <3>2, <1>3, <1>5
      <4>2. key \in MetaKeys <=> \E k \in DOMAIN docs : key \in DOMAIN docs[k].meta
        BY DEF MetaKeys
      <4>3. key \in MetaKeys' <=> \E k \in DOMAIN docs' : key \in DOMAIN docs'[k].meta
        BY DEF MetaKeys
      <4> QED
        BY <3>2, <4>1, <4>2, <4>3, <1>3 DEF Keys
    <3> QED
      BY <3>1, <3>2
  <2>2. Keys' = Keys
    BY <2>1
  <2>3. Orders(Keys)' = Orders(Keys)
    BY <2>2 DEF Orders
  <2> QED
    BY <1>1, <2>2, <2>3 DEF IInv, KeysInv
<1>8. FlagsInv'
  <2>1. ASSUME NEW k \in 1 .. total', NEW key \in Flags
        PROVE  key \in DOMAIN docs'[k].meta /\ docs'[k].meta[key] = Digits(flags'[k][key])
    <3>1. Digits(flags'[k][key]) = Digits(flags[k][key])
      BY <1>1
    <3>2. CASE k = total + 1
      BY <3>1, <3>2, <1>3, <1>5
    <3>3. CASE k # total + 1
      <4>1. k \in 1 .. total /\ k \in DOMAIN docs
        BY <3>3, <1>1, <1>2 DEF Sized
      <4> QED
        BY <3>1, <3>3, <4>1, <1>3 DEF IInv, FlagsInv
    <3> QED
      BY <3>2, <3>3
  <2> QED
    BY <2>1 DEF FlagsInv
<1>9. ASSUME NEW key \in Columns PROVE ColumnInv(key)'
  <2> DEFINE c == Column(key)
             d == Cells(doc, key)
             w == Width(key)
  <2>1. w \in {1, 2}
    BY Widths
  <2>2. /\ Sized(d) /\ Len(d) = w /\ d[1] = Expected(total, key)'
        /\ \A k \in DOMAIN d : d[k].separators = {}
    BY DocumentCells DEF IInv, doc
  <2>3. /\ Sized(c) /\ Len(c) = total * w
        /\ w = 1 => \A k \in 1 .. total : c[k] = Expected(k, key)
        /\ total > 0 /\ w = 2 => c[1] = Expected(1, key)
        /\ \A k \in DOMAIN c : c[k].separators = {}
    <3>1. CASE total = 0
      <4>1. c = << >>
        BY <3>1 DEF IInv, ResultInv, Column
      <4>2. 0 * w = 0
        BY <2>1
      <4> HIDE DEF c, w
      <4> QED
        BY <3>1, <4>1, <4>2 DEF Sized
    <3>2. CASE total # 0
      <4>1. total > 0
        BY <3>2, <1>2 DEF Sized
      <4>2. c = result[key] /\ ColumnInv(key)
        BY <4>1 DEF IInv, ResultInv, Column
      <4> QED
        BY <4>1, <4>2 DEF ColumnInv
    <3> QED
      BY <3>1, <3>2
  <2>4. result'[key] = c \o d
    BY <1>1
  <2>5. Width(key)' = w
    BY <1>6
  <2>6. \A k \in 1 .. total : Expected(k, key)' = Expected(k, key)
    <3>1. \A k \in 1 .. total : docs'[k] = docs[k] /\ flags' = flags
      BY <1>1, <1>2, <1>3 DEF Sized
    <3> QED
      BY <3>1 DEF Expected, Clean, GetMeta, Digits
  <2>7. total \in Nat
    BY <1>2 DEF Sized
  <2> HIDE DEF c, d, w
  <2>8. Sized(c \o d) /\ Len(c \o d) = total * w + w
    BY <2>1, <2>2, <2>3, <2>7 DEF Sized
  <2>9. total * w + w = total' * w /\ total * w \in Nat
    BY <2>1, <2>7, <1>1
  <2>10. ASSUME NEW k \in DOMAIN (c \o d) PROVE (c \o d)[k].separators = {}
    <3>1. CASE k \in 1 .. Len(c)
      BY <3>1, <2>2, <2>3 DEF Sized
    <3>2. CASE k \notin 1 .. Len(c)
      <4>1. k - Len(c) \in DOMAIN d /\ (c \o d)[k] = d[k - Len(c)]
        BY <3>2, <2>2, <2>3, <2>8, <2>9, <2>1 DEF Sized
      <4> QED
        BY <4>1, <2>2
    <3> QED
      BY <3>1, <3>2
  <2>11. ASSUME w = 1, NEW k \in 1 .. total' PROVE (c \o d)[k] = Expected(k, key)'
    <3>1. Len(c) = total /\ Len(d) = 1
      BY <2>11, <2>2, <2>3, <2>7
    <3>2. CASE k \in 1 .. total
      BY <3>1, <3>2, <2>11, <2>2, <2>3, <2>6, <2>7 DEF Sized
    <3>3. CASE k \notin 1 .. total
      <4>1. k = total + 1 /\ k = total'
        BY <3>3, <2>7, <1>1
      <4>2. (c \o d)[total + 1] = d[1]
        <5>1. \A j \in 1 .. Len(d) : (c \o d)[Len(c) + j] = d[j]
          BY <2>2, <2>3 DEF Sized
        <5> QED
          BY <5>1, <3>1
      <4>3. Expected(k, key)' = Expected(total, key)'
        BY <4>1
      <4> QED
        BY <4>1, <4>2, <4>3, <2>2
    <3> QED
      BY <3>2, <3>3
  <2>12. ASSUME w = 2 PROVE (c \o d)[1] = Expected(1, key)'
    <3>1. CASE total = 0
      <4>1. Len(c) = 0 /\ total' = 1 /\ Len(c) + 1 = 1 /\ 1 \in 1 .. Len(d)
        BY <3>1, <2>12, <2>2, <2>3, <1>1
      <4>2. \A k \in 1 .. Len(d) : (c \o d)[Len(c) + k] = d[k]
        BY <2>2, <2>3 DEF Sized
      <4>3. (c \o d)[1] = d[1]
        BY <4>1, <4>2
      <4>4. Expected(1, key)' = Expected(total, key)'
        BY <4>1
      <4> QED
        BY <4>3, <4>4, <2>2
    <3>2. CASE total # 0
      <4>1. total > 0 /\ 1 \in 1 .. Len(c) /\ 1 \in 1 .. total
        BY <3>2, <2>12, <2>3, <2>7
      <4> QED
        BY <4>1, <2>12, <2>2, <2>3, <2>6 DEF Sized
    <3> QED
      BY <3>1, <3>2
  <2>13. QED
    BY <2>4, <2>5, <2>8, <2>9, <2>10, <2>11, <2>12 DEF ColumnInv
<1>10. ResultInv'
  <2>1. DOMAIN result' = Columns /\ total' > 0
    BY <1>1, <1>2 DEF Sized
  <2> QED
    BY <2>1, <1>6, <1>9 DEF ResultInv
<1>11. LinesInv'
  BY <1>1 DEF IInv, LinesInv
<1>12. QED
  BY <1>4, <1>7, <1>8, <1>10, <1>11 DEF IInv

\* What the steps that write leave alone.
LEMMA TableKept ==
  ASSUME IInv, UNCHANGED docs, UNCHANGED keys, UNCHANGED <<flags, result, total>>,
         pc # "keys", pc' \in {"rows", "done", "crashed"}
  PROVE  TypeInv' /\ KeysInv' /\ FlagsInv' /\ ResultInv' /\ KeysVec' = KeysVec
<1>1. Keys' = Keys
  BY DEF Keys, MetaKeys
<1>2. Orders(Keys)' = Orders(Keys)
  BY <1>1 DEF Orders
<1>3. TypeInv' /\ KeysInv' /\ FlagsInv'
  BY <1>1, <1>2 DEF IInv, TypeInv, KeysInv, FlagsInv, Sized
<1>4. Columns' = Columns /\ KeysVec' = KeysVec /\ \A key : Width(key)' = Width(key)
  BY NamesFixed
<1>5. \A k, key : Expected(k, key)' = Expected(k, key)
  BY DEF Expected, Clean, GetMeta, Digits
<1>6. ASSUME NEW key \in DOMAIN result PROVE ColumnInv(key)'
  <2>1. ColumnInv(key)
    BY DEF IInv, ResultInv
  <2> QED
    BY <2>1, <1>4, <1>5 DEF ColumnInv, Sized
<1>7. ResultInv'
  BY <1>4, <1>6 DEF IInv, ResultInv
<1>8. QED
  BY <1>3, <1>4, <1>7

\* The header is written.
LEMMA WriteHeaderInv == IInv /\ WriteHeader => IInv'
<1> SUFFICES ASSUME IInv, WriteHeader PROVE IInv'
  OBVIOUS
<1> DEFINE header == [j \in DOMAIN KeysVec |-> Name(KeysVec[j])]
<1>1. /\ pc = "columns" /\ pc' = "rows" /\ total = Len(docs)
      /\ lines' = << header >>
      /\ UNCHANGED docs /\ UNCHANGED keys /\ UNCHANGED <<flags, result, total>>
  BY DEF WriteHeader
<1>2. TypeInv' /\ KeysInv' /\ FlagsInv' /\ ResultInv' /\ KeysVec' = KeysVec
  BY <1>1, TableKept
<1>3. LinesInv'
  <2>1. DOMAIN header = DOMAIN KeysVec /\ \A j \in DOMAIN KeysVec : header[j] = Name(KeysVec[j])
    OBVIOUS
  <2> HIDE DEF header
  <2>2. Len(lines') = 1 /\ DOMAIN lines' = 1 .. 1 /\ lines'[1] = header
    BY <1>1
  <2>3. Sized(lines')
    BY <2>2 DEF Sized
  <2>4. \A j \in DOMAIN KeysVec' : lines'[1][j] = Name(KeysVec[j])'
    BY <2>1, <2>2, <1>2 DEF Name
  <2>5. \A l \in DOMAIN lines' : DOMAIN lines'[l] = DOMAIN KeysVec'
    BY <2>1, <2>2, <1>2
  <2> QED
    BY <2>2, <2>3, <2>4, <2>5, <1>1 DEF LinesInv
<1>4. QED
  BY <1>2, <1>3 DEF IInv

\* A row is appended.
LEMMA RowAppended ==
  ASSUME IInv, pc = "rows", UNCHANGED docs, UNCHANGED keys, UNCHANGED <<flags, result, total>>,
         NEW row, DOMAIN row = DOMAIN KeysVec,
         \A j \in DOMAIN KeysVec : row[j] = RowCell(Len(lines), KeysVec[j]),
         lines' = Append(lines, row),
         \/ pc' = "rows" /\ Len(lines) < total
         \/ pc' = "done" /\ Len(lines) = total /\ total > 0
  PROVE  IInv'
<1>1. TypeInv' /\ KeysInv' /\ FlagsInv' /\ ResultInv' /\ KeysVec' = KeysVec
  BY TableKept
<1>2. /\ Len(lines) >= 1 /\ Sized(lines) /\ total = Len(docs) /\ total \in Nat
      /\ \A l \in DOMAIN lines : DOMAIN lines[l] = DOMAIN KeysVec
      /\ \A j \in DOMAIN KeysVec : lines[1][j] = Name(KeysVec[j])
      /\ \A l \in 1 .. Len(lines) - 1 : \A j \in DOMAIN KeysVec :
            lines[l + 1][j] = RowCell(l, KeysVec[j])
  BY DEF IInv, LinesInv, TypeInv, Sized
<1>3. /\ Len(lines') = Len(lines) + 1 /\ DOMAIN lines' = 1 .. Len(lines) + 1
      /\ lines'[Len(lines) + 1] = row
      /\ \A l \in 1 .. Len(lines) : lines'[l] = lines[l]
  BY <1>2 DEF Sized
<1>4. Sized(lines') /\ Len(lines) \in Nat
  BY <1>2, <1>3 DEF Sized
<1>5. \A l \in DOMAIN lines' : DOMAIN lines'[l] = DOMAIN KeysVec'
  <2>1. ASSUME NEW l \in DOMAIN lines' PROVE DOMAIN lines'[l] = DOMAIN KeysVec
    <3>1. CASE l = Len(lines) + 1
      BY <3>1, <1>3
    <3>2. CASE l # Len(lines) + 1
      <4>1. l \in 1 .. Len(lines) /\ l \in DOMAIN lines
        BY <3>2, <1>2, <1>3, <1>4 DEF Sized
      <4> QED
        BY <4>1, <1>2, <1>3
    <3> QED
      BY <3>1, <3>2
  <2> QED
    BY <2>1, <1>1
<1>6. \A j \in DOMAIN KeysVec' : lines'[1][j] = Name(KeysVec[j])'
  <2>1. lines'[1] = lines[1]
    BY <1>2, <1>3, <1>4
  <2> QED
    BY <2>1, <1>1, <1>2 DEF Name
<1>7. ASSUME NEW l \in 1 .. Len(lines') - 1, NEW j \in DOMAIN KeysVec'
      PROVE  lines'[l + 1][j] = RowCell(l, KeysVec[j])'
  <2>1. RowCell(l, KeysVec[j])' = RowCell(l, KeysVec[j])
    BY <1>1 DEF RowCell, Back
  <2>2. CASE l = Len(lines)
    BY <2>1, <2>2, <1>1, <1>3
  <2>3. CASE l # Len(lines)
    <3>1. l \in 1 .. Len(lines) - 1 /\ l + 1 \in 1 .. Len(lines)
      BY <2>3, <1>3, <1>4
    <3> QED
      BY <3>1, <2>1, <1>1, <1>2, <1>3
  <2> QED
    BY <2>2, <2>3
<1>8. LinesInv'
  <2>1. pc' = "done" => total' > 0 /\ Len(lines') = total' + 1
    BY <1>3
  <2>2. pc' = "rows" => Len(lines') >= 1 /\ Len(lines') <= total'
    BY <1>2, <1>3, <1>4
  <2> QED
    BY <2>1, <2>2, <1>2, <1>4, <1>5, <1>6, <1>7 DEF LinesInv
<1>9. QED
  BY <1>1, <1>8 DEF IInv

\* A row but the last.
LEMMA WriteRowInv == IInv /\ WriteRow => IInv'
<1> SUFFICES ASSUME IInv, WriteRow PROVE IInv'
  OBVIOUS
<1> DEFINE row == [j \in DOMAIN KeysVec |-> result[KeysVec[j]][Row + 1]]
<1>1. /\ pc = "rows" /\ pc' = "rows" /\ Row + 1 < total /\ lines' = Append(lines, row)
      /\ UNCHANGED docs /\ UNCHANGED keys /\ UNCHANGED <<flags, result, total>>
  BY DEF WriteRow
<1>2. Row + 1 = Len(lines)
  BY DEF IInv, LinesInv, Sized, Row
<1>3. DOMAIN row = DOMAIN KeysVec /\ \A j \in DOMAIN KeysVec : row[j] = RowCell(Len(lines), KeysVec[j])
  BY <1>1, <1>2 DEF RowCell
<1> HIDE DEF row
<1>4. Len(lines) < total
  BY <1>1, <1>2
<1>5. QED
  BY <1>1, <1>3, <1>4, RowAppended

\* The last row.
LEMMA WriteLastRowInv == IInv /\ WriteLastRow => IInv'
<1> SUFFICES ASSUME IInv, WriteLastRow PROVE IInv'
  OBVIOUS
<1> DEFINE row == [j \in DOMAIN KeysVec |-> Back(result[KeysVec[j]])]
<1>1. /\ pc = "rows" /\ pc' = "done" /\ Row + 1 >= total /\ total > 0 /\ lines' = Append(lines, row)
      /\ UNCHANGED docs /\ UNCHANGED keys /\ UNCHANGED <<flags, result, total>>
  BY DEF WriteLastRow
<1>2. Row + 1 = Len(lines) /\ Len(lines) \in Nat /\ total \in Nat /\ (Len(lines) <= total \/ Len(lines) = 1)
  BY <1>1 DEF IInv, LinesInv, TypeInv, Sized, Row
<1>3. Len(lines) = total
  BY <1>1, <1>2
<1>4. DOMAIN row = DOMAIN KeysVec /\ \A j \in DOMAIN KeysVec : row[j] = RowCell(Len(lines), KeysVec[j])
  BY <1>2, <1>3 DEF RowCell
<1> HIDE DEF row
<1>5. QED
  BY <1>1, <1>3, <1>4, RowAppended

\* A table without documents.
LEMMA NoLastRowInv == IInv /\ NoLastRow => IInv'
<1> SUFFICES ASSUME IInv, NoLastRow PROVE IInv'
  OBVIOUS
<1>1. /\ pc = "rows" /\ pc' = "crashed" /\ UNCHANGED lines
      /\ UNCHANGED docs /\ UNCHANGED keys /\ UNCHANGED <<flags, result, total>>
  BY DEF NoLastRow
<1>2. TypeInv' /\ KeysInv' /\ FlagsInv' /\ ResultInv'
  BY <1>1, TableKept
<1>3. LinesInv'
  BY <1>1 DEF IInv, LinesInv, Sized
<1>4. QED
  BY <1>2, <1>3 DEF IInv

\* A step that changes nothing.
LEMMA StutterInv == IInv /\ UNCHANGED vars => IInv'
<1> SUFFICES ASSUME IInv, UNCHANGED vars PROVE IInv'
  OBVIOUS
<1>1. UNCHANGED docs /\ UNCHANGED keys /\ UNCHANGED <<flags, pc, result, total, lines>>
  BY DEF vars
<1>2. Keys' = Keys
  BY <1>1 DEF Keys, MetaKeys
<1>3. Orders(Keys)' = Orders(Keys)
  BY <1>2 DEF Orders
<1>4. TypeInv' /\ KeysInv' /\ FlagsInv'
  BY <1>1, <1>2, <1>3 DEF IInv, TypeInv, KeysInv, FlagsInv, Sized
<1>5. Columns' = Columns /\ KeysVec' = KeysVec /\ \A key : Width(key)' = Width(key)
  BY <1>1, NamesFixed
<1>6. \A k, key : Expected(k, key)' = Expected(k, key) /\ RowCell(k, key)' = RowCell(k, key)
  BY <1>1 DEF Expected, Clean, GetMeta, Digits, RowCell, Back
<1>7. ResultInv'
  BY <1>1, <1>5, <1>6 DEF IInv, ResultInv, ColumnInv, Sized
<1>8. LinesInv'
  <2>1. \A j : Name(KeysVec[j])' = Name(KeysVec[j]) /\ \A l : RowCell(l, KeysVec[j])' = RowCell(l, KeysVec[j])
    BY <1>1, <1>5 DEF Name, RowCell, Back
  <2> QED
    <3>1. /\ Sized(lines') <=> Sized(lines)
          /\ (\A l \in DOMAIN lines' : DOMAIN lines'[l] = DOMAIN KeysVec')
               <=> (\A l \in DOMAIN lines : DOMAIN lines[l] = DOMAIN KeysVec)
      BY <1>1, <1>5 DEF Sized
    <3>2. SUFFICES ASSUME pc \in {"rows", "done"}
                   PROVE  /\ \A j \in DOMAIN KeysVec' : lines'[1][j] = Name(KeysVec[j])'
                          /\ \A l \in 1 .. Len(lines') - 1 : \A j \in DOMAIN KeysVec' :
                               lines'[l + 1][j] = RowCell(l, KeysVec[j])'
      BY <3>1, <1>1 DEF IInv, LinesInv
    <3>3. ASSUME NEW j \in DOMAIN KeysVec PROVE lines'[1][j] = Name(KeysVec[j])'
      BY <2>1, <1>1, <3>2 DEF IInv, LinesInv
    <3>4. ASSUME NEW l \in 1 .. Len(lines) - 1, NEW j \in DOMAIN KeysVec
          PROVE  lines'[l + 1][j] = RowCell(l, KeysVec[j])'
      <4>1. lines[l + 1][j] = RowCell(l, KeysVec[j])
        BY <3>2 DEF IInv, LinesInv
      <4> QED
        BY <4>1, <2>1, <1>1
    <3> QED
      BY <3>3, <3>4, <1>1, <1>5
<1>9. QED
  BY <1>4, <1>7, <1>8 DEF IInv

\* The invariant holds in every state that is reached.
LEMMA InvHolds == Spec => []IInv
<1>1. ASSUME IInv, [Next]_vars PROVE IInv'
  BY <1>1, CollectKeysInv, AddDocumentInv, WriteHeaderInv, WriteRowInv, WriteLastRowInv, NoLastRowInv,
     StutterInv DEF Next, Stopped
<1>2. QED
  BY <1>1, InitInv, PTL DEF Spec

-----------------------------------------------------------------------------
\* No row reads past the end of a column, whatever properties the documents
\* have or lack and however many they are (debug.hpp:64-73).
THEOREM ColumnsGrowTogether == Spec => []ColumnsInStep
<1>1. ASSUME IInv PROVE ColumnsInStep
  <2>1. \A key \in DOMAIN result : Len(result[key]) = total * Width(key)
    BY <1>1 DEF IInv, ResultInv, ColumnInv
  <2>2. pc = "rows" => Row <= total
    BY <1>1 DEF IInv, LinesInv, TypeInv, Sized, Row
  <2> QED
    BY <1>1, <2>1, <2>2 DEF IInv, ResultInv, ColumnsInStep, Columns
<1>2. QED
  BY <1>1, InvHolds, PTL

\* Row k of the finished table is document k, in every column that no property
\* doubles, for every set of documents (debug.hpp:41-73).
THEOREM RowsHoldDocuments == Spec => []RowsAreDocuments
<1>1. ASSUME IInv, pc = "done" PROVE
        /\ Len(lines) = Len(docs) + 1
        /\ \A k \in DOMAIN docs : DOMAIN docs[k].meta \subseteq Names
        /\ \A k \in DOMAIN docs : \A j \in DOMAIN KeysVec :
             KeysVec[j] \notin Fixed \cap Names \/ (k = 1 /\ Len(docs) > 1) =>
               lines[k + 1][j] = Expected(k, KeysVec[j])
  <2>1. /\ total = Len(docs) /\ total > 0 /\ Len(lines) = total + 1 /\ total \in Nat
        /\ DOMAIN docs = 1 .. total
    BY <1>1 DEF IInv, LinesInv, TypeInv, Sized
  <2>2. Names = Keys /\ \A j \in DOMAIN KeysVec : KeysVec[j] \in Columns
    BY <1>1, NamesAreKeys DEF IInv
  <2>3. \A k \in DOMAIN docs : DOMAIN docs[k].meta \subseteq Names
    BY <2>2 DEF Keys, MetaKeys
  <2>4. ASSUME NEW k \in DOMAIN docs, NEW j \in DOMAIN KeysVec,
               KeysVec[j] \notin Fixed \cap Names \/ (k = 1 /\ Len(docs) > 1)
        PROVE  lines[k + 1][j] = Expected(k, KeysVec[j])
    <3> DEFINE key == KeysVec[j]
    <3>1. key \in Columns /\ key \in DOMAIN result
      BY <1>1, <2>1, <2>2 DEF IInv, ResultInv
    <3>2. ColumnInv(key)
      BY <1>1, <3>1 DEF IInv, ResultInv
    <3>3. Width(key) \in {1, 2} /\ (Width(key) = 2 <=> key \in Fixed \cap Names)
      BY <3>1, Widths
    <3>4. lines[k + 1][j] = RowCell(k, key)
      BY <1>1, <2>1 DEF IInv, LinesInv
    <3>5. CASE Width(key) = 1
      <4>1. Len(result[key]) = total /\ result[key][k] = Expected(k, key)
        BY <3>2, <3>5, <2>1 DEF ColumnInv
      <4>2. RowCell(k, key) = result[key][k]
        BY <4>1, <2>1 DEF RowCell, Back
      <4> QED
        BY <3>4, <4>1, <4>2
    <3>6. CASE Width(key) = 2
      <4>1. k = 1 /\ 1 < total
        BY <2>4, <3>3, <3>6, <2>1
      <4>2. RowCell(k, key) = result[key][1] /\ result[key][1] = Expected(1, key)
        BY <4>1, <3>2, <3>6 DEF RowCell, ColumnInv
      <4> QED
        BY <3>4, <4>1, <4>2
    <3> QED
      BY <3>3, <3>5, <3>6
  <2> QED
    BY <2>1, <2>3, <2>4
<1>2. IInv => RowsAreDocuments
  BY <1>1 DEF RowsAreDocuments
<1>3. QED
  BY <1>2, InvHolds, PTL

\* Every line of the table has as many fields as the header has names, and no
\* separator within one, for every set of documents whose property names have
\* none (debug.hpp:41-73).
THEOREM TableIsRectangular == Spec => []Rectangular
<1>1. ASSUME IInv, pc \in {"rows", "done"}, Names \cap DirtyNames = {}, NEW l \in DOMAIN lines
      PROVE  /\ Len(lines[l]) = Cardinality(MetaKeys \cup Flags) + Cardinality(Fixed)
             /\ \A j \in DOMAIN lines[l] : lines[l][j].separators = {}
  <2>1. /\ Names = Keys /\ Sized(keys) /\ Len(keys) = Cardinality(Keys)
        /\ Sized(KeysVec) /\ Len(KeysVec) = Len(keys) + 2
        /\ \A j \in DOMAIN KeysVec : KeysVec[j] \in Columns
    BY <1>1, NamesAreKeys DEF IInv
  <2>2. /\ Sized(lines) /\ total = Len(docs) /\ total \in Nat
        /\ DOMAIN lines[l] = DOMAIN KeysVec
        /\ \A j \in DOMAIN KeysVec : lines[1][j] = Name(KeysVec[j])
        /\ \A k \in 1 .. Len(lines) - 1 : \A j \in DOMAIN KeysVec :
             lines[k + 1][j] = RowCell(k, KeysVec[j])
        /\ pc = "done" => total > 0 /\ Len(lines) = total + 1
        /\ pc = "rows" => Len(lines) >= 1 /\ (Len(lines) <= total \/ Len(lines) = 1)
    BY <1>1 DEF IInv, LinesInv, TypeInv, Sized
  <2>3. Cardinality(Fixed) = 2
    <3>1. IsFiniteSet({"text"}) /\ Cardinality({"text"}) = 1
      BY FS_Singleton
    <3>2. "related_links" \notin {"text"} /\ Fixed = {"text"} \cup {"related_links"}
      BY DEF Fixed
    <3> QED
      BY <3>1, <3>2, FS_AddElement
  <2>4. Len(lines[l]) = Cardinality(MetaKeys \cup Flags) + Cardinality(Fixed)
    <3>1. Len(KeysVec) \in Nat /\ DOMAIN lines[l] = 1 .. Len(KeysVec)
      BY <2>1, <2>2 DEF Sized
    <3>2. Len(lines[l]) = Len(KeysVec)
      BY <3>1
    <3> QED
      BY <3>2, <2>1, <2>3 DEF Keys
  <2>5. ASSUME NEW j \in DOMAIN lines[l] PROVE lines[l][j].separators = {}
    <3> DEFINE key == KeysVec[j]
    <3>1. j \in DOMAIN KeysVec /\ key \in Columns
      BY <2>1, <2>2
    <3>2. CASE l = 1
      <4>1. lines[l][j] = Name(key)
        BY <3>1, <3>2, <2>2
      <4>2. CASE key \in Names
        <5>1. key \notin DirtyNames
          BY <4>2, <1>1
        <5> QED
          BY <4>1, <5>1 DEF Name, Str
      <4>3. CASE key \notin Names
        <5>1. key \in Fixed
          BY <4>3, <3>1 DEF Columns
        <5> QED
          BY <4>1, <5>1, FixedAssumption DEF Name, Str, Fixed
      <4> QED
        BY <4>2, <4>3
    <3>3. CASE l # 1
      <4>1. l - 1 \in 1 .. Len(lines) - 1 /\ (l - 1) + 1 = l /\ l - 1 <= total /\ total > 0
        <5>1. l \in 1 .. Len(lines) /\ Len(lines) \in Nat
          BY <2>2 DEF Sized
        <5>2. l - 1 \in 1 .. Len(lines) - 1 /\ (l - 1) + 1 = l
          BY <5>1, <3>3
        <5>3. Len(lines) - 1 <= total /\ total > 0
          BY <5>1, <3>3, <2>2, <1>1
        <5> QED
          BY <5>1, <5>2, <5>3, <2>2
      <4>2. lines[l][j] = RowCell(l - 1, key)
        BY <4>1, <3>1, <2>2
      <4>3. key \in DOMAIN result /\ ColumnInv(key)
        BY <4>1, <3>1, <1>1 DEF IInv, ResultInv
      <4>4. Width(key) \in {1, 2}
        BY <3>1, Widths
      <4>5. DOMAIN result[key] = 1 .. Len(result[key]) /\ Len(result[key]) \in Nat /\ Len(result[key]) >= total
        <5>1. Len(result[key]) = total * Width(key) /\ Sized(result[key])
          BY <4>3 DEF ColumnInv
        <5>2. total * Width(key) >= total
          BY <4>4, <2>2
        <5> QED
          BY <5>1, <5>2 DEF Sized
      <4>6. \E k \in DOMAIN result[key] : RowCell(l - 1, key) = result[key][k]
        <5>1. Len(result[key]) \in DOMAIN result[key]
          BY <4>1, <4>5, <2>2
        <5>2. l - 1 < total => l - 1 \in DOMAIN result[key]
          BY <4>1, <4>5, <2>2
        <5> QED
          BY <5>1, <5>2 DEF RowCell, Back
      <4> QED
        BY <4>2, <4>3, <4>6 DEF ColumnInv
    <3> QED
      BY <3>2, <3>3
  <2> QED
    BY <2>4, <2>5
<1>2. IInv => Rectangular
  BY <1>1 DEF Rectangular
<1>3. QED
  BY <1>2, InvHolds, PTL
=============================================================================
