-------------------------------- MODULE Tsv --------------------------------
(***************************************************************************)
(* MakeTsv (debug.hpp), the table that the task dump writes: the names of  *)
(* the columns are collected from the meta data of all documents, the      *)
(* columns are filled document by document, and the file is written row by *)
(* row from the columns.                                                   *)
(*                                                                         *)
(* A string is its identity and the separators (tab, newline) it contains; *)
(* the names of columns are plain, and DirtyNames are those with one.      *)
(***************************************************************************)
EXTENDS Integers, Sequences, FiniteSets

CONSTANTS
  Documents,      \* the documents a table may have: [meta, text, links]
  FlagValues,     \* the values of the two flags in a DocFeatures
  MaxDocs,        \* bound on their number
  DirtyNames      \* the property names that contain a tab or a newline

ASSUME MaxDocsAssumption == MaxDocs \in Nat
ASSUME FixedAssumption == {"text", "related_links"} \cap DirtyNames = {}
ASSUME DocumentsAssumption == \A d \in Documents : IsFiniteSet(DOMAIN d.meta)

VARIABLES
  docs,           \* documents
  flags,          \* features: row -> [is_news, is_news_score]
  pc,             \* "keys", "columns", "rows", "done" or "crashed"
  keys,           \* keys, in the order in which the set is iterated
  result,         \* name -> cells
  total,
  lines           \* the lines written, as sequences of fields

vars == <<docs, flags, pc, keys, result, total, lines>>

-----------------------------------------------------------------------------
Flags == {"is_news", "is_news_score"}
Fixed == {"text", "related_links"}

Str(id, separators) == [id |-> id, separators |-> separators]
EmptyString == Str("", {})

\* Mutant: only the tabs are erased.
CleanTabs(s) == Str(s.id, s.separators \ {"tab"})

\* erase(remove(...)) of '\t' and of '\n'.
Clean(s) == Str(s.id, {})

\* std::to_string of a feature.
Digits(v) == Str(v, {})

\* GetMeta: a missing key is an empty string.
GetMeta(doc, key) == IF key \in DOMAIN doc.meta THEN doc.meta[key] ELSE EmptyString

\* SetMeta of the two flags.
SetFlags(doc, flag) ==
  [meta |-> [key \in DOMAIN doc.meta \cup Flags |->
               IF key \in Flags THEN Digits(flag[key]) ELSE doc.meta[key]],
   text |-> doc.text, links |-> doc.links]

Init ==
  /\ \E m \in 0 .. MaxDocs :
       /\ docs \in [1 .. m -> Documents]
       /\ flags \in [1 .. m -> FlagValues]
  /\ pc = "keys"
  /\ keys = << >> /\ total = 0 /\ lines = << >>
  /\ result = [key \in {} |-> << >>]

Names == {keys[k] : k \in DOMAIN keys}

\* The sequences that list a set: the orders an unordered_set may iterate in.
Orders(S) ==
  {s \in [1 .. Cardinality(S) -> S] : \A x \in S : \E k \in DOMAIN s : s[k] = x}

\* Mutant: the columns are those of the first document.
MetaKeysOfFirst == IF docs = << >> THEN {} ELSE DOMAIN docs[1].meta

MetaKeys == UNION {DOMAIN docs[i].meta : i \in DOMAIN docs}

\* The keys of all documents and the two flags.  From here on the set is not
\* changed, and so keeps its order.
CollectKeys ==
  /\ pc = "keys"
  /\ keys' \in Orders(MetaKeys \cup Flags)
  /\ pc' = "columns"
  /\ UNCHANGED <<docs, flags, result, total, lines>>

Column(key) == IF key \in DOMAIN result THEN result[key] ELSE << >>

\* What the body of the loop appends to a column: the links or the text first,
\* then, for each of the keys, the meta data.
FixedCell(doc, key) ==
  IF key = "related_links" THEN << Clean(doc.links) >>
  ELSE IF key = "text" THEN << Clean(doc.text) >> ELSE << >>

\* Mutant: a key the document does not have is passed over.
MetaCellIfPresent(doc, key) ==
  IF key \in Names \cap DOMAIN doc.meta THEN << Clean(GetMeta(doc, key)) >> ELSE << >>

MetaCell(doc, key) == IF key \in Names THEN << Clean(GetMeta(doc, key)) >> ELSE << >>

Cells(doc, key) == FixedCell(doc, key) \o MetaCell(doc, key)

AddDocument ==
  /\ pc = "columns" /\ total < Len(docs)
  /\ LET doc == SetFlags(docs[total + 1], flags[total + 1])
     IN  /\ docs' = [docs EXCEPT ![total + 1] = doc]
         /\ result' = [key \in Names \cup Fixed |-> Column(key) \o Cells(doc, key)]
  /\ total' = total + 1
  /\ UNCHANGED <<flags, pc, keys, lines>>

KeysVec == keys \o <<"text", "related_links">>

\* A name is written as it is.
Name(key) == Str(key, IF key \in DirtyNames THEN {"tab"} ELSE {})

WriteHeader ==
  /\ pc = "columns" /\ total = Len(docs)
  /\ lines' = << [j \in DOMAIN KeysVec |-> Name(KeysVec[j])] >>
  /\ pc' = "rows"
  /\ UNCHANGED <<docs, flags, keys, result, total>>

\* The index of the next row.
Row == Len(lines) - 1

WriteRow ==
  /\ pc = "rows" /\ Row + 1 < total
  /\ lines' = Append(lines, [j \in DOMAIN KeysVec |-> result[KeysVec[j]][Row + 1]])
  /\ UNCHANGED <<docs, flags, pc, keys, result, total>>

Back(s) == s[Len(s)]

\* The last row is written from the ends of the columns.
WriteLastRow ==
  /\ pc = "rows" /\ Row + 1 >= total /\ total > 0
  /\ lines' = Append(lines, [j \in DOMAIN KeysVec |-> Back(result[KeysVec[j]])])
  /\ pc' = "done"
  /\ UNCHANGED <<docs, flags, keys, result, total>>

\* back() of an empty column.
NoLastRow ==
  /\ pc = "rows" /\ total = 0
  /\ pc' = "crashed"
  /\ UNCHANGED <<docs, flags, keys, result, total, lines>>

Stopped == pc \in {"done", "crashed"} /\ UNCHANGED vars

Next ==
  CollectKeys \/ AddDocument \/ WriteHeader \/ WriteRow \/ WriteLastRow \/ NoLastRow \/ Stopped

Spec == Init /\ [][Next]_vars

-----------------------------------------------------------------------------
\* How many cells a document adds to a column.
Width(key) == (IF key \in Fixed THEN 1 ELSE 0) + (IF key \in Names THEN 1 ELSE 0)

\* The columns grow together: after every document each has one more cell, or
\* two if a meta property has the name of a fixed column, so that no row reads
\* past the end of a column (debug.hpp:64-73), whatever keys the documents lack.
ColumnsInStep ==
  /\ total > 0 => DOMAIN result = Names \cup Fixed
  /\ \A key \in DOMAIN result : Len(result[key]) = total * Width(key)
  /\ pc = "rows" => Row <= total

\* A document's own cells, from the document and its features alone.
Expected(i, key) ==
  IF key = "text" THEN Clean(docs[i].text)
  ELSE IF key = "related_links" THEN Clean(docs[i].links)
  ELSE IF key \in Flags THEN Digits(flags[i][key]) ELSE Clean(GetMeta(docs[i], key))

\* Every property of every document has a column, and row i of the finished
\* table is document i in every column, with one exception: a meta
\* property called text or related_links, in any document, makes that column's
\* cells come two for each document, and only the first row stays right
\* (debug.hpp:41-51).  The flags come from the features even if the HTML has
\* properties of their names.
RowsAreDocuments ==
  pc = "done" =>
    /\ Len(lines) = Len(docs) + 1
    /\ \A i \in DOMAIN docs : DOMAIN docs[i].meta \subseteq Names
    /\ \A i \in DOMAIN docs : \A j \in DOMAIN KeysVec :
         KeysVec[j] \notin Fixed \cap Names \/ (i = 1 /\ Len(docs) > 1) =>
           lines[i + 1][j] = Expected(i, KeysVec[j])

\* Whoever splits the file at newlines and tabs gets a rectangular table: the
\* number of fields in the header, unless a property's own name has a separator.
Rectangular ==
  pc \in {"rows", "done"} /\ Names \cap DirtyNames = {} =>
    \A l \in DOMAIN lines :
      /\ Len(lines[l]) = Cardinality(MetaKeys \cup Flags) + Cardinality(Fixed)
      /\ \A j \in DOMAIN lines[l] : lines[l][j].separators = {}
=============================================================================
