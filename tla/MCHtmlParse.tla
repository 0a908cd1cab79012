---------------------------- MODULE MCHtmlParse ----------------------------
(***************************************************************************)
(* HtmlParse on every tree of up to MaxNodes nodes of the kinds below, and *)
(* on every one of up to MaxDeep nodes of the few kinds that paragraphs    *)
(* and their text need.                                                    *)
(***************************************************************************)
EXTENDS HtmlParse

CONSTANTS MaxNodes, MaxDeep

N(t, property, value, href, data) ==
  [tag |-> t, property |-> property, content |-> value, href |-> href, data |-> data]

Kinds ==
  { N("meta", "k", "v1", "", << >>), N("meta", "k", "v2", "", << >>), N("meta", "", "v1", "", << >>),
    N("p", "", "", "", << >>), N("related", "", "", "", << >>),
    N("a", "", "", "h", << >>), N("a", "", "", "", << >>),
    N("#text", "", "", "", <<"x", "y">>), N("#text", "", "", "", <<"z">>),
    N("#comment", "", "", "", <<"c">>) }

DeepKinds ==
  { N("p", "", "", "", << >>), N("a", "", "", "h", << >>),
    N("#text", "", "", "", <<"x", "y">>), N("#text", "", "", "", <<"z">>) }

Leaves == {"meta", "#text", "#comment"}

\* Nodes numbered in tree order: the parent of a node is the one
\* before it or a node above that one.
Above(parent, k) == {a \in 0 .. (k - 1) : a = 0 \/ a = k - 1 \/
                       \E b \in 1 .. (k - 1) : a = parent[b] /\ \A c \in (b + 1) .. (k - 1) : parent[c] >= b}

Shapes(m) == {parent \in [1 .. m -> 0 .. (m - 1)] : \A k \in 1 .. m : parent[k] \in Above(parent, k)}

TreesOf(kinds, max) ==
  UNION {{[parent |-> s, node |-> n] : s \in Shapes(m), n \in [1 .. m -> kinds]} : m \in 0 .. max}

\* Text, comments and meta elements have no children.
MCTrees ==
  {t \in TreesOf(Kinds, MaxNodes) \cup TreesOf(DeepKinds, MaxDeep) :
     \A k \in DOMAIN t.node : t.parent[k] # 0 => t.node[t.parent[k]].tag \notin Leaves}

MCStartSize == [meta |-> 1, p |-> 1, related |-> 1, a |-> 1]
=============================================================================
