----------------------------- MODULE HtmlParse -----------------------------
(***************************************************************************)
(* HTMLDocument::ParseDocument (html_parse.hpp) on the tree that lexbor's  *)
(* parser has built, with the lexbor functions it calls: the walk over a   *)
(* subtree that follows first_child, next and parent pointers, the         *)
(* collection of the elements of a tag in a growing array, and the text    *)
(* content of a node, which is measured in one walk and copied in another. *)
(*                                                                         *)
(* The nodes of a tree are 1 .. n, the document being 0.  A node is a tag  *)
(* ("#text" and "#comment" for the nodes that are no elements), its        *)
(* attributes and its data, where an attribute that is missing or empty    *)
(* is "": GetRawAttribute returns the empty string for both.               *)
(***************************************************************************)
EXTENDS Integers, Sequences, FiniteSets, SequencesExt, Selection

CONSTANTS
  Trees,          \* [parent, node]: the trees that may be given
  StartSize,      \* tag -> the initial size of its collection: 50, 20 for "a"
  Growth          \* how much lexbor_array_push expands an array by: 128

ASSUME GrowthAssumption == Growth \in Nat \ {0}
ASSUME StartSizeAssumption == StartSize \in [{"meta", "p", "related", "a"} -> Nat]

IsSequence(s) == Len(s) \in Nat /\ DOMAIN s = 1 .. Len(s) /\ s = [j \in 1 .. Len(s) |-> s[j]]

\* The nodes are numbered in tree order: a parent comes before its children, and
\* what comes between them is below the parent.
ASSUME TreesAssumption ==
  \A t \in Trees :
    /\ IsSequence(t.node)
    /\ \A c \in DOMAIN t.node :
         /\ t.parent[c] \in 0 .. (c - 1)
         /\ \A b \in DOMAIN t.node : t.parent[c] < b /\ b < c => t.parent[c] <= t.parent[b]
         /\ IsSequence(t.node[c].data)

VARIABLES
  tree,
  tag, pc,                    \* the tag being collected, and the step
  root, node,                 \* lxb_dom_node_simple_walk; node is Null at its end
  list, size,                 \* the collection: its entries and its allocated size
  i,                          \* the loop over the collection
  length, text,               \* lxb_dom_node_text_content: measured, copied
  meta_, text_, related_links_

walk == <<root, node>>
collection == <<list, size>>
content == <<length, text>>
fields == <<meta_, text_, related_links_>>
vars == <<tree, tag, pc, walk, collection, i, content, fields>>

-----------------------------------------------------------------------------
Null == -1
Document == 0
NoValue == ""
Nodes == DOMAIN tree.node
Children(k) == {c \in Nodes : tree.parent[c] = k}

\* The pointers of a node.  The tree builder appends a child, or inserts it
\* before a table whose content it does not fit into (tree.h:311-312), so tree
\* order need not be the order of the source.
FirstChild(k) == IF Children(k) = {} THEN Null ELSE Min(Children(k))
NextSibling(k) ==
  LET later == {c \in Nodes : k # Document /\ c > k /\ tree.parent[c] = tree.parent[k]}
  IN  IF later = {} THEN Null ELSE Min(later)

\* k and the nodes above it.
Ancestors(k) ==
  CHOOSE A \in SUBSET (Nodes \cup {Document}) :
    /\ k \in A
    /\ A = {k} \cup {tree.parent[c] : c \in A \ {Document}}

\* Mutant: the climb does not look for the root.
StopsAtSibling(k) == k = Document \/ NextSibling(k) # Null

\* Where the inner loop of the walk stops climbing: at the root, or at the
\* first node that has a next one.
StopsAt(k) == k = root \/ NextSibling(k) # Null

\* Mutant: the walk goes on at the node where the climb has stopped.
AfterItself(k) == IF k = root THEN Null ELSE k

After(k) == IF k = root THEN Null ELSE NextSibling(k)

\* lxb_dom_node_simple_walk
NextNode ==
  IF FirstChild(node) # Null THEN FirstChild(node)
  ELSE After(Max({a \in Ancestors(node) : StopsAt(a)}))

Begin(k) == root' = k /\ node' = FirstChild(k)
Advance == node' = NextNode /\ UNCHANGED root

-----------------------------------------------------------------------------
\* ParseMeta, ParseText and ParseLinks collect these tags; "a" only if there
\* is a related element.
NextTag ==
  IF tag = "meta" THEN "p" ELSE IF tag = "p" THEN "related"
  ELSE IF tag = "related" /\ list # << >> THEN "a" ELSE "none"

StartCollect(t) ==
  /\ tag' = t
  /\ pc' = IF t = "none" THEN "done" ELSE "collect"
  /\ list' = << >>
  /\ size' = IF t = "none" THEN 0 ELSE StartSize[t]
  /\ i' = 1
  /\ Begin(Document)

Init ==
  /\ tree \in Trees
  /\ tag = "meta" /\ pc = "collect"
  /\ list = << >> /\ size = StartSize["meta"] /\ i = 1
  /\ root = Document /\ node = FirstChild(Document)
  /\ length = 0 /\ text = << >>
  /\ meta_ = << >> /\ text_ = << >> /\ related_links_ = << >>

\* Mutant: the array is expanded one entry too late.
FullLate == Len(list) > size

\* lexbor_array_push expands a full array.
Full == Len(list) >= size

\* lxb_dom_elements_by_tag_name_cb on a node of the walk.
Visit ==
  /\ pc = "collect" /\ node # Null
  /\ IF tree.node[node].tag = tag
     THEN list' = Append(list, node) /\ size' = IF Full THEN size + Growth ELSE size
     ELSE UNCHANGED collection
  /\ Advance
  /\ UNCHANGED <<tree, tag, pc, i, content, fields>>

CollectReturn ==
  /\ pc = "collect" /\ node = Null
  /\ pc' = "items"
  /\ UNCHANGED <<tree, tag, walk, collection, i, content, fields>>

Item == tree.node[list[i]]
HasItem == pc = "items" /\ i <= Len(list)

Put(key, value) ==
  [k \in DOMAIN meta_ \cup {key} |-> IF k = key THEN value ELSE meta_[k]]

ParseMeta ==
  /\ HasItem /\ tag = "meta"
  /\ meta_' = IF Item.property # NoValue THEN Put(Item.property, Item.content) ELSE meta_
  /\ i' = i + 1
  /\ UNCHANGED <<tree, tag, pc, walk, collection, content, text_, related_links_>>

\* lxb_dom_node_text_content on a paragraph: the first walk.
ParseText ==
  /\ HasItem /\ tag = "p"
  /\ Begin(list[i])
  /\ length' = 0 /\ text' = << >>
  /\ pc' = "size"
  /\ UNCHANGED <<tree, tag, collection, i, fields>>

\* Mutant: the data of a comment counts as well.
DataOfAny == tree.node[node].data

Data == IF tree.node[node].tag = "#text" THEN tree.node[node].data ELSE << >>

TextContentSize ==
  /\ pc = "size"
  /\ IF node # Null
     THEN length' = length + Len(Data) /\ Advance /\ UNCHANGED pc
     ELSE pc' = "copy" /\ Begin(root) /\ UNCHANGED length
  /\ UNCHANGED <<tree, tag, collection, i, text, fields>>

\* The second walk; text_ gets length characters from its start.
TextContentConcatenate ==
  /\ pc = "copy"
  /\ IF node # Null
     THEN text' = text \o Data /\ Advance /\ UNCHANGED <<pc, i, text_>>
     ELSE /\ text_' = text_ \o SubSeq(text, 1, length)
          /\ i' = i + 1 /\ pc' = "items"
          /\ UNCHANGED <<walk, text>>
  /\ UNCHANGED <<tree, tag, collection, length, meta_, related_links_>>

HasHref(a) == a.href # NoValue

\* The links are those of the whole document.
ParseLinks ==
  /\ HasItem /\ tag = "a"
  /\ related_links_' =
       IF HasHref(Item) THEN Append(related_links_, Item.href) ELSE related_links_
  /\ i' = i + 1
  /\ UNCHANGED <<tree, tag, pc, walk, collection, content, meta_, text_>>

\* The next collection is made.  Of the related elements only the number
\* counts.
NextCollection ==
  /\ pc = "items" /\ (i > Len(list) \/ tag = "related")
  /\ StartCollect(NextTag)
  /\ UNCHANGED <<tree, content, fields>>

Finished == pc = "done" /\ UNCHANGED vars

Step ==
  \/ Visit \/ CollectReturn \/ ParseMeta \/ ParseText \/ TextContentSize
  \/ TextContentConcatenate \/ ParseLinks \/ NextCollection

Next == Step \/ Finished

Spec == Init /\ [][Next]_vars

FairSpec == Spec /\ WF_vars(Step)

-----------------------------------------------------------------------------
\* The nodes of tag t below k, in tree order.
Below(k, t) ==
  InOrder({c \in Nodes : tree.node[c].tag = t /\ c # k /\ k \in Ancestors(c)})

\* The walk hands every node of the document to the callback once, in tree
\* order, whatever the shape of the tree, and the array keeps them all within
\* the memory it has (node.c:248-275, array.c:85-97).
CollectionExact ==
  pc = "items" => list = Below(Document, tag) /\ Len(list) <= size

\* The second walk of a paragraph stays in its subtree and copies exactly what
\* the first one has measured: the buffer is neither overrun nor left short,
\* and text - length is its start (node.c:286-298).
MeasuredTwice ==
  /\ pc \in {"size", "copy"} => node = Null \/ root \in Ancestors(node)
  /\ pc = "copy" => Len(text) <= length
  /\ pc = "copy" /\ node = Null => Len(text) = length

Texts(s) == FlattenSeq([j \in DOMAIN s |-> tree.node[s[j]].data])

\* The text of every paragraph, in order; a paragraph inside another one
\* (within a button or an object) is there twice.
RefText ==
  FlattenSeq([j \in DOMAIN Below(Document, "p") |->
                Texts(Below(Below(Document, "p")[j], "#text"))])

Metas == {m \in Nodes : tree.node[m].tag = "meta" /\ tree.node[m].property # NoValue}

\* The last meta element of a property decides.
RefMeta ==
  [key \in {tree.node[m].property : m \in Metas} |->
     tree.node[Max({m \in Metas : tree.node[m].property = key})].content]

\* With a related element, wherever it is, every link of the document that has
\* a target; without one, none.
RefLinks ==
  IF Below(Document, "related") = << >> THEN << >>
  ELSE LET targets == InOrder({a \in Nodes : tree.node[a].tag = "a" /\ HasHref(tree.node[a])})
       IN  [j \in DOMAIN targets |-> tree.node[targets[j]].href]

\* The walks over the four collections and over the subtree of each paragraph
\* leave in the members what the document says, whatever its shape: nothing is
\* lost where a collection grows or a walk climbs, and nothing of one paragraph
\* or collection is left over in the next (html_parse.hpp:145-193).
FieldsExact ==
  pc = "done" => meta_ = RefMeta /\ text_ = RefText /\ related_links_ = RefLinks

\* The walks come to an end.
Parsed == <>(pc = "done")
=============================================================================
