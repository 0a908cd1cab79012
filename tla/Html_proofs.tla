---------------------------- MODULE Html_proofs ----------------------------
(***************************************************************************)
(* Proofs about the class HTMLDocument: about ParseDocument on every tree  *)
(* (HtmlParse), and about the ownership of native resources for any number *)
(* of objects and files (HtmlDocument).                                    *)
(*                                                                         *)
(* The nodes of a tree are numbered in tree order.  The nodes above k are  *)
(* those from which no edge leads out on the way to k (Span), and the walk *)
(* from a root, by whatever pointers, goes from every node to the next     *)
(* number as long as that is below the root (Succ, NextNodeIs).  So a      *)
(* collection is the enumeration of the nodes of a tag up to a number, and *)
(* a text is as long as a difference of two prefix sums.                   *)
(***************************************************************************)
EXTENDS HtmlParse, HtmlDocument, Selection_proofs

\* A set of numbers up to m that is not empty has a greatest one.
LEMMA Greatest ==
  ASSUME NEW m \in Nat, NEW T \in SUBSET (0 .. m), T # {}
  PROVE  \E x \in T : \A y \in T : y <= x
<1> DEFINE U == {m - y : y \in T}
<1>1. U \in SUBSET Nat /\ U # {}
  <2>1. \A y \in T : y \in 0 .. m /\ m - y \in Nat
    OBVIOUS
  <2>2. U \subseteq Nat
    BY <2>1
  <2>3. PICK y \in T : TRUE
    OBVIOUS
  <2>4. m - y \in U
    OBVIOUS
  <2> QED BY <2>2, <2>4
<1> HIDE DEF U
<1>2. PICK u \in U : \A v \in U : u <= v
  BY <1>1, Least
<1>3. PICK x \in T : u = m - x
  BY DEF U
<1>4. ASSUME NEW y \in T PROVE y <= x
  <2>1. m - y \in U
    BY DEF U
  <2>2. m - x <= m - y
    BY <1>2, <1>3, <2>1
  <2>3. x \in 0 .. m /\ y \in 0 .. m
    OBVIOUS
  <2> QED BY <2>2, <2>3
<1> QED BY <1>4

\* p gives the parents of the nodes 1 .. m, numbered in tree order.
TreeOrder(m, p) ==
  \A c \in 1 .. m :
    /\ p[c] \in 0 .. (c - 1)
    /\ \A b \in 1 .. m : p[c] < b /\ b < c => p[c] <= p[b]

\* The nodes from whose number up to k no edge leads out: those above k.
Span(p, k) == {a \in 0 .. k : \A b \in (a + 1) .. k : a <= p[b]}

\* A is k and the parents of the nodes in A.
Chain(p, k, A) ==
  /\ k \in A
  /\ \A a \in A : a = k \/ \E c \in A \ {0} : a = p[c]
  /\ \A c \in A \ {0} : p[c] \in A

\* There is one chain of parents from k.
LEMMA ChainUnique ==
  ASSUME NEW m \in Nat, NEW p, TreeOrder(m, p), NEW k \in 0 .. m,
         NEW A \in SUBSET (0 .. m), Chain(p, k, A), NEW B \in SUBSET (0 .. m), Chain(p, k, B)
  PROVE  A \subseteq B
<1> SUFFICES ASSUME A \ B # {} PROVE FALSE
  OBVIOUS
<1> DEFINE T == A \ B
<1>1. PICK x \in T : \A y \in T : y <= x
  <2>1. T \in SUBSET (0 .. m) /\ T # {}
    OBVIOUS
  <2> HIDE DEF T
  <2> QED BY <2>1, Greatest
<1>2. x \in A /\ x \notin B /\ x # k
  BY DEF Chain
<1>3. PICK c \in A \ {0} : x = p[c]
  BY <1>2 DEF Chain
<1>4. c \in 1 .. m /\ x < c /\ x \in Nat
  <2>1. c \in 0 .. m /\ c # 0
    OBVIOUS
  <2>2. c \in 1 .. m
    BY <2>1
  <2>3. p[c] \in 0 .. (c - 1)
    BY <2>2 DEF TreeOrder
  <2> QED BY <2>2, <2>3, <1>3
<1>5. c \in B
  BY <1>1, <1>4
<1>6. x \in B
  BY <1>3, <1>5 DEF Chain
<1> QED BY <1>2, <1>6

\* The step down from a node above k towards k.
LEMMA StepDown ==
  ASSUME NEW m \in Nat, NEW p, TreeOrder(m, p), NEW k \in 0 .. m, NEW a \in Span(p, k), a # k
  PROVE  \E c \in Span(p, k) : c \in 1 .. m /\ a < c /\ p[c] = a
<1>1. a \in 0 .. (k - 1) /\ \A b \in (a + 1) .. k : b \in 1 .. m /\ a <= p[b] /\ p[b] < b
  BY DEF Span, TreeOrder
<1> DEFINE T == {b \in (a + 1) .. k : p[b] = a}
<1>2. T \in SUBSET (0 .. m) /\ T # {}
  <2>1. a + 1 \in (a + 1) .. k
    BY <1>1
  <2>2. p[a + 1] \in 0 .. a
    BY <2>1, <1>1 DEF TreeOrder
  <2>3. a + 1 \in T
    BY <1>1, <2>1, <2>2
  <2> QED BY <1>1, <2>3
<1>3. PICK c \in T : \A y \in T : y <= c
  <2> HIDE DEF T
  <2> QED BY <1>2, Greatest
<1>4. c \in (a + 1) .. k /\ p[c] = a /\ c \in 1 .. m
  BY <1>1, <1>3
<1>5. ASSUME NEW b \in (c + 1) .. k PROVE c <= p[b]
  <2>1. b \in (a + 1) .. k /\ b \in 1 .. m /\ b > c
    BY <1>1, <1>4, <1>5
  <2>2. p[b] # a /\ a <= p[b] /\ p[b] \in 0 .. (b - 1)
    BY <1>1, <1>3, <2>1 DEF TreeOrder
  <2>3. ASSUME p[b] < c PROVE FALSE
    <3>1. p[b] <= p[c]
      BY <1>4, <2>1, <2>3 DEF TreeOrder
    <3> QED BY <1>4, <2>2, <3>1, <1>1
  <2> QED BY <1>4, <2>2, <2>3
<1>6. c \in Span(p, k)
  BY <1>4, <1>5, <1>1 DEF Span
<1> QED BY <1>1, <1>4, <1>6

\* The parent of a node above k is above k.
LEMMA StepUp ==
  ASSUME NEW m \in Nat, NEW p, TreeOrder(m, p), NEW k \in 0 .. m, NEW c \in Span(p, k), c # 0
  PROVE  p[c] \in Span(p, k) /\ p[c] \in 0 .. (c - 1)
<1>1. c \in 1 .. m /\ c <= k
  BY DEF Span
<1>2. p[c] \in 0 .. (c - 1)
  BY <1>1 DEF TreeOrder
<1>3. ASSUME NEW b \in (p[c] + 1) .. k PROVE p[c] <= p[b]
  <2>1. b \in 1 .. m
    BY <1>1, <1>2
  <2>2. CASE b < c
    BY <1>1, <1>2, <2>1, <2>2 DEF TreeOrder
  <2>3. CASE b = c
    BY <1>2, <2>3
  <2>4. CASE b > c
    <3>1. c <= p[b]
      BY <1>1, <2>4 DEF Span
    <3>2. p[b] \in 0 .. (b - 1)
      BY <2>1 DEF TreeOrder
    <3> QED BY <1>1, <1>2, <3>1, <3>2
  <2> QED BY <1>1, <2>1, <2>2, <2>3, <2>4
<1> QED BY <1>1, <1>2, <1>3 DEF Span

\* The least number of a set.
LEMMA MinIs ==
  ASSUME NEW S \in SUBSET Int, NEW v \in S, \A y \in S : v <= y
  PROVE  Min(S) = v
<1>1. \A x \in S : (\A y \in S : x <= y) => x = v
  OBVIOUS
<1> QED BY <1>1 DEF Min

\* The greatest number of a set.
LEMMA MaxIs ==
  ASSUME NEW S \in SUBSET Int, NEW v \in S, \A y \in S : y <= v
  PROVE  Max(S) = v
<1>1. \A x \in S : (\A y \in S : x >= y) => x = v
  OBVIOUS
<1>2. \A y \in S : v >= y
  OBVIOUS
<1> QED BY <1>1, <1>2 DEF Max

Size == Len(tree.node)
Par == tree.parent

\* What is assumed of the trees.
LEMMA TreeFacts ==
  ASSUME tree \in Trees
  PROVE  Size \in Nat /\ Nodes = 1 .. Size /\ TreeOrder(Size, Par)
BY TreesAssumption DEF Size, Nodes, Par, TreeOrder, IsSequence

\* The nodes above k, which the walk reaches by parent pointers, are those
\* whose span includes k.
LEMMA AncestorsAre ==
  ASSUME tree \in Trees, NEW k \in 0 .. Size
  PROVE  Ancestors(k) = Span(Par, k)
<1>1. Size \in Nat /\ Nodes = 1 .. Size /\ TreeOrder(Size, Par)
  BY TreeFacts
<1>2. Nodes \cup {Document} = 0 .. Size
  BY <1>1 DEF Document
<1> DEFINE Q(A) == k \in A /\ A = {k} \cup {Par[c] : c \in A \ {0}}
<1>3. Ancestors(k) = CHOOSE A \in SUBSET (0 .. Size) : Q(A)
  BY <1>2 DEF Ancestors, Document, Par
<1>4. ASSUME NEW A \in SUBSET (0 .. Size) PROVE Q(A) <=> Chain(Par, k, A)
  BY DEF Chain
<1>5. Span(Par, k) \in SUBSET (0 .. Size) /\ Chain(Par, k, Span(Par, k))
  <2>1. Span(Par, k) \in SUBSET (0 .. Size) /\ k \in Span(Par, k)
    BY <1>1 DEF Span
  <2>2. \A a \in Span(Par, k) : a = k \/ \E c \in Span(Par, k) \ {0} : a = Par[c]
    BY <1>1, StepDown
  <2>3. \A c \in Span(Par, k) \ {0} : Par[c] \in Span(Par, k)
    BY <1>1, StepUp
  <2> QED BY <2>1, <2>2, <2>3 DEF Chain
<1>6. ASSUME NEW A \in SUBSET (0 .. Size), Chain(Par, k, A) PROVE A = Span(Par, k)
  <2>1. A \subseteq Span(Par, k)
    BY <1>1, <1>5, <1>6, ChainUnique
  <2>2. Span(Par, k) \subseteq A
    BY <1>1, <1>5, <1>6, ChainUnique
  <2> QED BY <2>1, <2>2
<1>7. Q(Span(Par, k)) /\ \A A \in SUBSET (0 .. Size) : Q(A) => A = Span(Par, k)
  BY <1>4, <1>5, <1>6
<1> HIDE DEF Q
<1> QED BY <1>3, <1>5, <1>7

\* The node after k in tree order, if it is below r.
Succ(m, p, r, k) == IF k + 1 \in 1 .. m /\ r \in Span(p, k + 1) THEN k + 1 ELSE Null

\* The first child of a node, if it has one, is the next node.
LEMMA FirstChildIs ==
  ASSUME tree \in Trees, NEW k \in 0 .. Size
  PROVE  FirstChild(k) = IF k + 1 \in Nodes /\ Par[k + 1] = k THEN k + 1 ELSE Null
<1>1. Size \in Nat /\ Nodes = 1 .. Size /\ TreeOrder(Size, Par)
  BY TreeFacts
<1>2. \A c \in Children(k) : c \in 1 .. Size /\ Par[c] = k /\ k < c
  BY <1>1 DEF Children, TreeOrder, Par
<1>3. CASE Children(k) = {}
  BY <1>3 DEF FirstChild, Children, Par
<1>4. CASE Children(k) # {}
  <2>1. PICK c \in Children(k) : TRUE
    BY <1>4
  <2>2. k + 1 \in 1 .. Size /\ Par[k + 1] = k
    <3>0. k + 1 \in 1 .. Size
      BY <1>1, <1>2
    <3>1. k + 1 \in 1 .. Size /\ Par[k + 1] \in 0 .. ((k + 1) - 1) /\ (k + 1) - 1 = k
      BY <1>1, <3>0 DEF TreeOrder
    <3>2. k + 1 # c => Par[c] <= Par[k + 1]
      <4>1. c \in 1 .. Size /\ Par[c] = k /\ (k + 1 # c => Par[c] < k + 1 /\ k + 1 < c)
        BY <1>2
      <4> QED BY <1>1, <3>0, <4>1 DEF TreeOrder
    <3> QED BY <1>2, <3>1, <3>2
  <2>3. k + 1 \in Children(k) /\ Children(k) \in SUBSET Int /\ \A c_1 \in Children(k) : k + 1 <= c_1
    BY <1>1, <1>2, <2>2 DEF Children, Par
  <2>4. Min(Children(k)) = k + 1
    BY <2>3, MinIs
  <2> QED BY <1>1, <1>4, <2>2, <2>4 DEF FirstChild
<1> QED BY <1>3, <1>4

\* A later sibling of a node above k is after k.
LEMMA SiblingAfter ==
  ASSUME NEW m \in Nat, NEW p, TreeOrder(m, p), NEW k \in 1 .. m,
         NEW a \in Span(p, k), a # 0, NEW d \in 1 .. m, a < d, p[d] = p[a]
  PROVE  /\ k < d
         /\ k + 1 \in 1 .. m
         /\ k + 1 # d => p[a] <= p[k + 1]
<1>1. a \in 1 .. m /\ a <= k /\ \A b \in (a + 1) .. k : a <= p[b]
  BY DEF Span
<1>2. p[a] \in 0 .. (a - 1)
  BY <1>1 DEF TreeOrder
<1>3. k < d
  BY <1>1, <1>2
<1>4. k + 1 \in 1 .. m
  BY <1>3
<1>5. k + 1 # d => p[d] <= p[k + 1]
  BY <1>1, <1>2, <1>3, <1>4 DEF TreeOrder
<1> QED BY <1>3, <1>4, <1>5

\* The next sibling of a node above k, if there is one, is the node after k or
\* the node after k is below the sibling's parent.
LEMMA NoSibling ==
  ASSUME tree \in Trees, NEW k \in 1 .. Size, NEW a \in Span(Par, k), a # 0,
         k + 1 \in 1 .. Size => Par[k + 1] < Par[a]
  PROVE  NextSibling(a) = Null
<1>1. Size \in Nat /\ Nodes = 1 .. Size /\ TreeOrder(Size, Par)
  BY TreeFacts
<1>2. ASSUME NEW d \in 1 .. Size, a < d, Par[d] = Par[a] PROVE FALSE
  <2>1. /\ k < d /\ k + 1 \in 1 .. Size
        /\ k + 1 # d => Par[a] <= Par[k + 1]
    BY <1>1, <1>2, SiblingAfter
  <2>2. a \in 1 .. Size /\ Par[a] \in Int /\ Par[k + 1] \in Int
    BY <1>1, <2>1 DEF Span, TreeOrder
  <2> QED BY <1>2, <2>1, <2>2
<1>3. {c \in Nodes : a # Document /\ c > a /\ tree.parent[c] = tree.parent[a]} = {}
  <2>1. \A c \in 1 .. Size : ~ (c > a /\ tree.parent[c] = tree.parent[a])
    BY <1>2 DEF Span, Par
  <2> QED BY <1>1, <2>1
<1> QED BY <1>3 DEF NextSibling

\* The next sibling of the node c above k whose parent is that of k + 1.
LEMMA SiblingIs ==
  ASSUME tree \in Trees, NEW k \in 1 .. Size, k + 1 \in 1 .. Size,
         NEW c \in Span(Par, k), c # 0, Par[c] = Par[k + 1]
  PROVE  NextSibling(c) = k + 1
<1>1. Size \in Nat /\ Nodes = 1 .. Size /\ TreeOrder(Size, Par)
  BY TreeFacts
<1>2. c \in 1 .. Size /\ c < k + 1
  BY <1>1 DEF Span
<1> DEFINE later == {d \in Nodes : c # Document /\ d > c /\ tree.parent[d] = tree.parent[c]}
<1>3. \A d \in later : d \in 1 .. Size /\ c < d /\ Par[d] = Par[c]
  BY <1>1, <1>2 DEF Par
<1>4. k + 1 \in later
  BY <1>1, <1>2 DEF Par, Document
<1>5. NextSibling(c) = Min(later)
  BY <1>4 DEF NextSibling
<1> HIDE DEF later
<1>6. \A d \in later : k < d
  BY <1>1, <1>3, SiblingAfter
<1>7. later \in SUBSET Int /\ \A d \in later : k + 1 <= d
  BY <1>3, <1>6
<1>8. Min(later) = k + 1
  BY <1>4, <1>7, MinIs
<1> QED BY <1>5, <1>8

\* The node whose number follows is below the root if the walk finds one.
LEMMA NextNodeIs ==
  ASSUME tree \in Trees, node \in Nodes, root \in Span(Par, node), root # node
  PROVE  NextNode = Succ(Size, Par, root, node)
<1>1. Size \in Nat /\ Nodes = 1 .. Size /\ TreeOrder(Size, Par)
  BY TreeFacts
<1>2. node \in 1 .. Size /\ root \in 0 .. node - 1 /\ \A b \in (root + 1) .. node : root <= Par[b]
  BY <1>1 DEF Span
<1>3. root \in Span(Par, node + 1) <=> root <= Par[node + 1]
  <2>1. \A b \in (root + 1) .. (node + 1) : b = node + 1 \/ b \in (root + 1) .. node
    BY <1>2
  <2>2. node + 1 \in (root + 1) .. (node + 1) /\ root \in 0 .. (node + 1)
    BY <1>2
  <2> QED BY <1>2, <2>1, <2>2 DEF Span
<1>4. FirstChild(node) = IF node + 1 \in Nodes /\ Par[node + 1] = node THEN node + 1 ELSE Null
  BY <1>1, <1>2, FirstChildIs
<1>5. node + 1 # Null
  BY <1>2 DEF Null
<1>6. CASE node + 1 \in Nodes /\ Par[node + 1] = node
  <2>1. FirstChild(node) = node + 1 /\ FirstChild(node) # Null
    BY <1>4, <1>5, <1>6
  <2>2. NextNode = node + 1
    BY <2>1 DEF NextNode
  <2>3. root <= Par[node + 1]
    BY <1>2, <1>6
  <2> QED BY <1>1, <1>3, <1>6, <2>2, <2>3 DEF Succ
<1>7. CASE ~ (node + 1 \in Nodes /\ Par[node + 1] = node)
  <2> DEFINE S == {a \in Span(Par, node) : StopsAt(a)}
  <2>1. NextNode = After(Max(S))
    <3>1. Ancestors(node) = Span(Par, node)
      BY <1>1, <1>2, AncestorsAre
    <3> QED BY <1>4, <1>7, <3>1 DEF NextNode
  <2>2. root \in S /\ S \in SUBSET Int
    BY <1>2 DEF StopsAt, Span
  <2>3. \A a \in S : a = root \/ NextSibling(a) # Null
    BY DEF StopsAt
  <2>4. \A a \in S : a \in Span(Par, node) /\ a \in 0 .. node
    BY DEF Span
  <2>5. CASE node + 1 \in Nodes /\ root <= Par[node + 1]
    <3>1. /\ Par[node + 1] \in 0 .. (node - 1) /\ node + 1 \in 1 .. Size
          /\ Par[node + 1] \in Span(Par, node)
      <4>1. node + 1 \in 1 .. Size /\ Par[node + 1] \in 0 .. node /\ Par[node + 1] # node
        BY <1>1, <1>2, <1>7, <2>5 DEF TreeOrder
      <4>2. \A b \in (Par[node + 1] + 1) .. node : Par[node + 1] <= Par[b]
        BY <1>1, <1>2, <4>1 DEF TreeOrder
      <4> QED BY <1>2, <4>1, <4>2 DEF Span
    <3>2. PICK c \in Span(Par, node) : c \in 1 .. Size /\ Par[node + 1] < c /\ Par[c] = Par[node + 1]
      <4> DEFINE q == Par[node + 1]
      <4>1. q \in Span(Par, node) /\ q # node /\ node \in 0 .. Size
        BY <1>1, <1>2, <3>1
      <4> HIDE DEF q
      <4>2. \E c \in Span(Par, node) : c \in 1 .. Size /\ q < c /\ Par[c] = q
        BY <1>1, <4>1, StepDown
      <4> QED BY <4>2 DEF q
    <3>3. NextSibling(c) = node + 1
      BY <1>2, <3>1, <3>2, SiblingIs
    <3>4. c \in S /\ c # root /\ root < c
      BY <1>2, <1>5, <2>5, <3>1, <3>2, <3>3 DEF StopsAt
    <3>5. ASSUME NEW a \in S, ~ (a <= c) PROVE FALSE
      <4>1. a \in Span(Par, node) /\ a \in 1 .. node /\ c < a /\ a # root
        BY <2>4, <3>2, <3>4, <3>5, <1>2
      <4>2. c <= Par[a]
        BY <3>2, <4>1 DEF Span
      <4>3. Par[a] \in Nat
        BY <1>1, <1>2, <4>1 DEF TreeOrder
      <4>4. Par[node + 1] < Par[a]
        BY <3>1, <3>2, <4>2, <4>3
      <4>5. NextSibling(a) = Null
        BY <1>2, <4>1, <4>4, NoSibling
      <4> QED BY <2>3, <4>1, <4>5
    <3>6. Max(S) = c
      <4> HIDE DEF S
      <4> QED BY <2>2, <3>4, <3>5, MaxIs
    <3> QED BY <1>1, <1>3, <2>1, <2>5, <3>3, <3>4, <3>6 DEF After, Succ
  <2>6. CASE ~ (node + 1 \in Nodes /\ root <= Par[node + 1])
    <3>1. ASSUME NEW a \in S, ~ (a <= root) PROVE FALSE
      <4>1. a \in Span(Par, node) /\ a \in 1 .. node /\ root < a
        BY <1>2, <2>4, <3>1
      <4>2. root <= Par[a] /\ Par[a] \in Nat
        BY <1>1, <1>2, <4>1 DEF TreeOrder
      <4>3. node + 1 \in 1 .. Size => Par[node + 1] < Par[a]
        BY <1>1, <1>2, <2>6, <4>2 DEF TreeOrder
      <4>4. NextSibling(a) = Null
        BY <1>2, <4>1, <4>3, NoSibling
      <4> QED BY <1>2, <2>3, <4>1, <4>4
    <3>2. Max(S) = root
      <4> HIDE DEF S
      <4> QED BY <2>2, <3>1, MaxIs
    <3> QED BY <1>1, <1>3, <2>1, <2>6, <3>2 DEF After, Succ
  <2> QED BY <2>5, <2>6
<1> QED BY <1>6, <1>7

\* The first node of a walk.
LEMMA FirstNodeIs ==
  ASSUME tree \in Trees, NEW k \in 0 .. Size
  PROVE  FirstChild(k) = Succ(Size, Par, k, k)
<1>1. Size \in Nat /\ Nodes = 1 .. Size /\ TreeOrder(Size, Par)
  BY TreeFacts
<1>2. k + 1 \in Nodes => Par[k + 1] \in 0 .. k
  BY <1>1 DEF TreeOrder
<1>3. k + 1 \in Nodes => (k \in Span(Par, k + 1) <=> Par[k + 1] = k)
  BY <1>2 DEF Span
<1>4. FirstChild(k) = IF k + 1 \in Nodes /\ Par[k + 1] = k THEN k + 1 ELSE Null
  BY FirstChildIs
<1> QED BY <1>1, <1>3, <1>4 DEF Succ

\* e is the last node below or equal to r that a walk from r whose next node is
\* k has visited.
At(m, p, r, k, e) == e \in r .. m /\ r \in Span(p, e) /\ Succ(m, p, r, e) = k

\* A walk that has not ended is one node further on, in the subtree.
LEMMA NextAt ==
  ASSUME NEW m \in Nat, NEW p, NEW r \in 0 .. m, NEW k, k # Null, NEW e, At(m, p, r, k, e)
  PROVE  /\ k = e + 1 /\ k \in 1 .. m /\ r < k /\ r \in Span(p, k)
         /\ At(m, p, r, Succ(m, p, r, k), k)
BY DEF At, Succ

\* A node below r is followed by all the nodes between them.
LEMMA SpanBetween ==
  ASSUME NEW m \in Nat, NEW p, NEW r \in 0 .. m, NEW e \in r .. m, r \in Span(p, e),
         NEW x \in r .. e
  PROVE  r \in Span(p, x)
BY DEF Span

\* A walk has visited no node that is after its end.
LEMMA EndIsLast ==
  ASSUME NEW m \in Nat, NEW p, NEW r \in 0 .. m, NEW k, NEW e, At(m, p, r, k, e),
         NEW d, At(m, p, r, Null, d)
  PROVE  e <= d
<1> SUFFICES ASSUME ~ (e <= d) PROVE FALSE
  OBVIOUS
<1>1. e \in r .. m /\ d \in r .. m /\ r \in Span(p, e)
  BY DEF At
<1>2. d + 1 \in r .. e /\ d + 1 \in 1 .. m /\ d + 1 # Null
  BY <1>1 DEF Null
<1>3. r \in Span(p, d + 1)
  BY <1>1, <1>2, SpanBetween
<1> QED BY <1>2, <1>3 DEF At, Succ

\* The walk over the whole document ends after its last node.
LEMMA DocumentEnd ==
  ASSUME NEW m \in Nat, NEW p, TreeOrder(m, p), NEW d, At(m, p, 0, Null, d)
  PROVE  d = m
<1>1. d \in 0 .. m
  BY DEF At
<1>2. 0 \in Span(p, m)
  BY DEF Span, TreeOrder
<1>3. Succ(m, p, 0, m) = Null
  BY DEF Succ
<1>4. At(m, p, 0, Null, m)
  BY <1>2, <1>3 DEF At
<1>5. m <= d
  BY <1>4, EndIsLast
<1> QED BY <1>1, <1>5

\* What has been summed up when the nodes up to k have been seen.
IsSums(F, m, w) ==
  /\ F \in [0 .. m -> Nat]
  /\ F[0] = 0
  /\ \A k \in 1 .. m : F[k] = F[k - 1] + w[k]

Sums(m, w) == CHOOSE F \in [0 .. m -> Nat] : IsSums(F, m, w)

\* There are such sums, by induction on the number of nodes.
LEMMA SumsAre ==
  ASSUME NEW m \in Nat, NEW w \in [1 .. m -> Nat]
  PROVE  IsSums(Sums(m, w), m, w)
<1> DEFINE S == {n \in Nat : n <= m => \E F : IsSums(F, n, w)}
<1>1. 0 \in S
  <2>1. IsSums([k \in 0 .. 0 |-> 0], 0, w)
    BY DEF IsSums
  <2> QED BY <2>1
<1>2. ASSUME NEW n \in S PROVE n + 1 \in S
  <2>1. ASSUME n + 1 <= m PROVE \E F : IsSums(F, n + 1, w)
    <3>1. PICK F : IsSums(F, n, w)
      BY <2>1
    <3>2. n \in Nat /\ w[n + 1] \in Nat
      BY <2>1
    <3> DEFINE G == [k \in 0 .. (n + 1) |-> IF k = n + 1 THEN F[n] + w[n + 1] ELSE F[k]]
    <3>3. \A k \in 0 .. n : G[k] = F[k] /\ F[k] \in Nat
      BY <3>1, <3>2 DEF IsSums
    <3>4. G[n + 1] = F[n] + w[n + 1] /\ n + 1 \in 0 .. (n + 1)
      BY <3>2
    <3>5. DOMAIN G = 0 .. (n + 1) /\ \A k \in 0 .. (n + 1) : k = n + 1 \/ k \in 0 .. n
      BY <3>2
    <3>6. G = [k \in 0 .. (n + 1) |-> G[k]]
      OBVIOUS
    <3> HIDE DEF G
    <3>7. G \in [0 .. (n + 1) -> Nat]
      <4>1. F[n] \in Nat
        BY <3>2, <3>3
      <4>2. G[n + 1] \in Nat
        BY <3>2, <3>4, <4>1
      <4>3. \A k \in 0 .. (n + 1) : G[k] \in Nat
        BY <3>3, <3>5, <4>2
      <4> QED BY <3>6, <4>3
    <3>8. G[0] = 0
      BY <3>1, <3>2, <3>3 DEF IsSums
    <3>9. ASSUME NEW k \in 1 .. (n + 1) PROVE G[k] = G[k - 1] + w[k]
      <4>1. CASE k = n + 1
        BY <3>2, <3>3, <3>4, <4>1
      <4>2. CASE k # n + 1
        <5>1. k \in 1 .. n /\ k \in 0 .. n /\ k - 1 \in 0 .. n
          BY <3>2, <4>2
        <5> QED BY <3>1, <3>3, <5>1 DEF IsSums
      <4> QED BY <4>1, <4>2
    <3>10. IsSums(G, n + 1, w)
      BY <3>7, <3>8, <3>9 DEF IsSums
    <3> QED BY <3>10
  <2> QED BY <2>1
<1>3. S = Nat
  <2>1. S \in SUBSET Nat
    OBVIOUS
  <2> HIDE DEF S
  <2> QED BY <1>1, <1>2, <2>1, Induction
<1>4. PICK F : IsSums(F, m, w)
  <2>1. m \in S
    <3> HIDE DEF S
    <3> QED BY <1>3
  <2> QED BY <2>1
<1>5. F \in [0 .. m -> Nat]
  BY <1>4 DEF IsSums
<1> QED BY <1>4, <1>5 DEF Sums

\* The sums do not decrease.
LEMMA SumsGrow ==
  ASSUME NEW m \in Nat, NEW w \in [1 .. m -> Nat], NEW F, IsSums(F, m, w),
         NEW a \in 0 .. m, NEW b \in 0 .. m, a <= b
  PROVE  F[a] <= F[b]
<1> DEFINE S == {n \in Nat : a + n <= m => F[a] <= F[a + n]}
<1>1. 0 \in S
  BY DEF IsSums
<1>2. ASSUME NEW n \in S PROVE n + 1 \in S
  <2>1. ASSUME a + (n + 1) <= m PROVE F[a] <= F[a + (n + 1)]
    <3>1. n \in Nat /\ a + (n + 1) \in 1 .. m /\ a + n \in 0 .. m /\ (a + (n + 1)) - 1 = a + n
      BY <2>1
    <3>2. F[a] <= F[a + n]
      BY <3>1
    <3>3. F[a + (n + 1)] = F[a + n] + w[a + (n + 1)]
      BY <3>1 DEF IsSums
    <3>4. F[a] \in Nat /\ F[a + n] \in Nat /\ w[a + (n + 1)] \in Nat
      BY <3>1 DEF IsSums
    <3> QED BY <3>2, <3>3, <3>4
  <2> QED BY <2>1
<1>3. S = Nat
  <2>1. S \in SUBSET Nat
    OBVIOUS
  <2> HIDE DEF S
  <2> QED BY <1>1, <1>2, <2>1, Induction
<1>4. b - a \in Nat /\ a + (b - a) = b
  OBVIOUS
<1>5. b - a \in S
  <2> HIDE DEF S
  <2> QED BY <1>3, <1>4
<1>6. a + (b - a) <= m => F[a] <= F[a + (b - a)]
  BY <1>5
<1> QED BY <1>4, <1>6

\* The nodes up to e whose tag, given by g, is t.
Tagged(g, t, e) == {c \in 1 .. e : g[c] = t}

\* Appending a number that is greater extends an enumeration.
LEMMA AppendEnumerates ==
  ASSUME NEW n \in Nat, NEW J \in SUBSET (1 .. n), NEW h, Enumerates(h, J),
         Len(h) \in Nat, DOMAIN h = 1 .. Len(h)
  PROVE  /\ Enumerates(Append(h, n + 1), J \cup {n + 1})
         /\ Len(Append(h, n + 1)) = Len(h) + 1
         /\ DOMAIN Append(h, n + 1) = 1 .. (Len(h) + 1)
<1>1. IsFiniteSet(J) /\ Cardinality(J) \in Nat
  BY Positions
<1>2. n + 1 \notin J
  OBVIOUS
<1>3. Cardinality(J \cup {n + 1}) = Cardinality(J) + 1
  BY <1>1, <1>2, FS_AddElement
<1> DEFINE c == Len(h)
           g == Append(h, n + 1)
<1>4. Cardinality(J) = c
  <2>1. DOMAIN h = 1 .. Cardinality(J)
    BY DEF Enumerates
  <2>2. 1 .. Cardinality(J) = 1 .. c
    BY <2>1
  <2> QED BY <1>1, <2>2
<1>5. /\ h \in [1 .. c -> J]
      /\ \A a, b \in 1 .. c : a < b => h[a] < h[b]
      /\ \A x \in J : \E a \in 1 .. c : h[a] = x
  BY <1>4 DEF Enumerates
<1>6. /\ DOMAIN g = 1 .. (c + 1) /\ Len(g) = c + 1
      /\ g[c + 1] = n + 1 /\ \A a \in 1 .. c : g[a] = h[a]
      /\ g = [a \in 1 .. (c + 1) |-> IF a = c + 1 THEN n + 1 ELSE h[a]]
  OBVIOUS
<1> HIDE DEF g, c
<1>7. c \in Nat
  BY DEF c
<1>8. \A a \in 1 .. (c + 1) : a = c + 1 \/ a \in 1 .. c
  BY <1>7
<1>9. g \in [1 .. (c + 1) -> J \cup {n + 1}]
  BY <1>5, <1>6, <1>8
<1>10. ASSUME NEW a \in 1 .. (c + 1), NEW b \in 1 .. (c + 1), a < b PROVE g[a] < g[b]
  <2>0. a \in 1 .. c
    BY <1>7, <1>10
  <2>1. a \in 1 .. c /\ g[a] = h[a] /\ h[a] \in 1 .. n
    BY <1>5, <1>6, <2>0
  <2>2. CASE b = c + 1
    BY <1>6, <2>1, <2>2
  <2>3. CASE b # c + 1
    BY <1>5, <1>6, <1>8, <1>10, <2>1, <2>3
  <2> QED BY <2>2, <2>3
<1>11. ASSUME NEW x \in J \cup {n + 1} PROVE \E a \in 1 .. (c + 1) : g[a] = x
  BY <1>5, <1>6, <1>7
<1>12. Enumerates(g, J \cup {n + 1})
  BY <1>3, <1>4, <1>9, <1>10, <1>11 DEF Enumerates
<1> QED BY <1>6, <1>12 DEF g, c

-----------------------------------------------------------------------------
Tags == [c \in 1 .. Size |-> tree.node[c].tag]

\* How many characters of text a node holds.
Weights ==
  [c \in 1 .. Size |->
     IF tree.node[c].tag = "#text" THEN Len(tree.node[c].data) ELSE 0]

ShapeInv ==
  /\ tree \in Trees
  /\ tag \in {"meta", "p", "related", "a", "none"} /\ (tag = "none" => pc = "done")
  /\ pc \in {"collect", "items", "size", "copy", "done"}
  /\ i \in Nat \ {0}
  /\ Len(list) \in Nat /\ DOMAIN list = 1 .. Len(list)
  /\ size \in Nat /\ Len(list) <= size
  /\ Len(text) \in Nat /\ DOMAIN text = 1 .. Len(text)

\* The array holds the elements of the tag among the nodes visited.
CollectInv ==
  /\ pc = "collect" =>
       /\ root = 0
       /\ \E e \in 0 .. Size : At(Size, Par, root, node, e) /\ Enumerates(list, Tagged(Tags, tag, e))
  /\ pc \in {"items", "size", "copy"} => Enumerates(list, Tagged(Tags, tag, Size))

\* The characters counted, or copied, are those of the nodes visited, and what
\* has been measured is what the whole subtree holds.
TextInv ==
  /\ pc \in {"size", "copy"} => root \in 1 .. Size
  /\ pc = "size" => Len(text) = 0
  /\ pc = "size" =>
       \E e \in 0 .. Size :
         /\ At(Size, Par, root, node, e)
         /\ length = Sums(Size, Weights)[e] - Sums(Size, Weights)[root]
  /\ pc = "copy" =>
       \E e, d \in 0 .. Size :
         /\ At(Size, Par, root, node, e) /\ At(Size, Par, root, Null, d)
         /\ Len(text) = Sums(Size, Weights)[e] - Sums(Size, Weights)[root]
         /\ length = Sums(Size, Weights)[d] - Sums(Size, Weights)[root]

IInv == ShapeInv /\ CollectInv /\ TextInv

\* The tree does not change.
LEMMA SameTree ==
  ASSUME tree' = tree
  PROVE  Size' = Size /\ Par' = Par /\ Tags' = Tags /\ Weights' = Weights
BY DEF Size, Par, Tags, Weights

\* The text of the node that a walk is at.
LEMMA DataIs ==
  ASSUME tree \in Trees
  PROVE  /\ Weights \in [1 .. Size -> Nat]
         /\ node \in 1 .. Size =>
              Len(Data) = Weights[node] /\ Len(Data) \in Nat /\ DOMAIN Data = 1 .. Len(Data)
<1>1. \A c \in 1 .. Size : Len(tree.node[c].data) \in Nat
                           /\ DOMAIN tree.node[c].data = 1 .. Len(tree.node[c].data)
  BY TreesAssumption DEF Size, IsSequence
<1>2. Weights \in [1 .. Size -> Nat]
  BY <1>1 DEF Weights
<1>3. ASSUME node \in 1 .. Size
      PROVE  Len(Data) = Weights[node] /\ Len(Data) \in Nat /\ DOMAIN Data = 1 .. Len(Data)
  <2>1. CASE tree.node[node].tag = "#text"
    BY <1>1, <1>3, <2>1 DEF Data, Weights
  <2>2. CASE tree.node[node].tag # "#text"
    BY <1>3, <2>2 DEF Data, Weights
  <2> QED BY <2>1, <2>2
<1> QED BY <1>2, <1>3

\* A walk starts below its root.
LEMMA WalkStart ==
  ASSUME tree \in Trees, NEW k \in 0 .. Size, Begin(k)
  PROVE  root' = k /\ At(Size, Par, root', node', k)
<1>1. Size \in Nat
  BY TreeFacts
<1>2. root' = k /\ node' = Succ(Size, Par, k, k)
  BY FirstNodeIs DEF Begin
<1>3. k \in Span(Par, k) /\ k \in k .. Size
  BY <1>1 DEF Span
<1> QED BY <1>2, <1>3 DEF At

\* A step of a walk takes it to the next node in tree order.
LEMMA WalkOn ==
  ASSUME tree \in Trees, root \in 0 .. Size, node # Null, NEW e, At(Size, Par, root, node, e), Advance
  PROVE  /\ node = e + 1 /\ node \in 1 .. Size /\ e \in 0 .. Size
         /\ root' = root /\ At(Size, Par, root', node', node)
<1>1. Size \in Nat /\ Nodes = 1 .. Size
  BY TreeFacts
<1>2. /\ node = e + 1 /\ node \in 1 .. Size /\ root < node /\ root \in Span(Par, node)
      /\ At(Size, Par, root, Succ(Size, Par, root, node), node)
  BY <1>1, NextAt
<1>3. NextNode = Succ(Size, Par, root, node)
  BY <1>1, <1>2, NextNodeIs
<1>4. root' = root /\ node' = Succ(Size, Par, root, node)
  BY <1>3 DEF Advance
<1>5. e \in 0 .. Size
  BY DEF At
<1> QED BY <1>2, <1>4, <1>5

\* A new collection is empty, and its walk starts at the document.
LEMMA StartEmpty ==
  ASSUME NEW g, NEW t
  PROVE  Enumerates(<< >>, Tagged(g, t, 0))
<1>1. Tagged(g, t, 0) = {}
  BY DEF Tagged
<1>2. Cardinality({}) = 0
  BY FS_EmptySet
<1>3. << >> \in [1 .. 0 -> {}]
  <2>1. << >> = [a \in 1 .. 0 |-> 0]
    OBVIOUS
  <2>2. [a \in 1 .. 0 |-> 0] \in [1 .. 0 -> {}]
    OBVIOUS
  <2> QED BY <2>1, <2>2
<1> HIDE DEF Tagged
<1>4. Enumerates(<< >>, {})
  BY <1>2, <1>3 DEF Enumerates
<1> QED BY <1>1, <1>4

\* The first state.
LEMMA InitIInv == Init => IInv
<1> SUFFICES ASSUME Init PROVE IInv
  OBVIOUS
<1>1. tree \in Trees /\ Size \in Nat
  BY TreeFacts DEF Init
<1>2. ShapeInv
  BY <1>1, StartSizeAssumption DEF Init, ShapeInv
<1>3. At(Size, Par, 0, node, 0)
  <2>1. node = Succ(Size, Par, 0, 0)
    BY <1>1, FirstNodeIs DEF Init, Document
  <2>2. 0 \in Span(Par, 0)
    BY DEF Span
  <2> QED BY <1>1, <2>1, <2>2 DEF At
<1>4. Enumerates(list, Tagged(Tags, tag, 0))
  BY StartEmpty DEF Init
<1>5. CollectInv
  BY <1>1, <1>3, <1>4 DEF CollectInv, Init, Document
<1>6. TextInv
  BY DEF TextInv, Init
<1> QED BY <1>2, <1>5, <1>6 DEF IInv

\* The callback appends the node it is given, if it has the tag.
LEMMA VisitIInv == IInv /\ Visit => IInv'
<1> SUFFICES ASSUME IInv, Visit PROVE IInv'
  OBVIOUS
<1>1. tree \in Trees /\ Size \in Nat /\ Nodes = 1 .. Size
  BY TreeFacts DEF IInv, ShapeInv
<1>2. tree' = tree /\ Size' = Size /\ Par' = Par /\ Tags' = Tags /\ Weights' = Weights
  BY SameTree DEF Visit
<1>3. PICK e \in 0 .. Size : At(Size, Par, root, node, e) /\ Enumerates(list, Tagged(Tags, tag, e))
  BY DEF Visit, IInv, CollectInv
<1>4. /\ node = e + 1 /\ node \in 1 .. Size /\ root' = root /\ root' = 0
      /\ At(Size, Par, root', node', node)
  <2>1. root = 0 /\ root \in 0 .. Size /\ node # Null /\ Advance
    BY <1>1 DEF Visit, IInv, CollectInv
  <2> QED BY <1>1, <1>3, <2>1, WalkOn
<1>5. Tagged(Tags, tag, e) \in SUBSET (1 .. e) /\ e \in Nat
  BY DEF Tagged
<1>6. Len(list) \in Nat /\ DOMAIN list = 1 .. Len(list) /\ size \in Nat /\ Len(list) <= size
  BY DEF IInv, ShapeInv
<1>7. tag' = tag /\ pc' = "collect" /\ pc = "collect" /\ i' = i /\ text' = text /\ length' = length
  BY DEF Visit, content
<1>8. /\ Enumerates(list', Tagged(Tags, tag, node))
      /\ Len(list') \in Nat /\ DOMAIN list' = 1 .. Len(list')
      /\ size' \in Nat /\ Len(list') <= size'
  <2>1. CASE tree.node[node].tag = tag
    <3>1. list' = Append(list, e + 1) /\ size' = IF Len(list) >= size THEN size + Growth ELSE size
      BY <1>4, <2>1 DEF Visit, Full
    <3>2. Tagged(Tags, tag, node) = Tagged(Tags, tag, e) \cup {e + 1}
      <4>1. \A c \in 1 .. node : c = node \/ c \in 1 .. e
        BY <1>4, <1>5
      <4>2. Tags[node] = tag /\ 1 .. e \subseteq 1 .. node
        BY <1>4, <1>5, <2>1 DEF Tags
      <4> QED BY <1>4, <1>5, <4>1, <4>2 DEF Tagged
    <3> DEFINE J == Tagged(Tags, tag, e)
    <3>3. J \in SUBSET (1 .. e) /\ Enumerates(list, J) /\ Tagged(Tags, tag, node) = J \cup {e + 1}
      BY <1>3, <1>5, <3>2
    <3> HIDE DEF J
    <3>4. /\ Enumerates(Append(list, e + 1), J \cup {e + 1})
          /\ Len(Append(list, e + 1)) = Len(list) + 1
          /\ DOMAIN Append(list, e + 1) = 1 .. (Len(list) + 1)
      BY <1>5, <1>6, <3>3, AppendEnumerates
    <3>5. size' \in Nat /\ Len(list) + 1 <= size'
      BY <1>6, <3>1, GrowthAssumption
    <3> QED BY <1>6, <3>1, <3>3, <3>4, <3>5
  <2>2. CASE tree.node[node].tag # tag
    <3>1. list' = list /\ size' = size
      BY <2>2 DEF Visit, collection
    <3>2. Tagged(Tags, tag, node) = Tagged(Tags, tag, e)
      <4>1. \A c \in 1 .. node : c = node \/ c \in 1 .. e
        BY <1>4, <1>5
      <4>2. Tags[node] # tag /\ 1 .. e \subseteq 1 .. node
        BY <1>4, <1>5, <2>2 DEF Tags
      <4> QED BY <1>4, <1>5, <4>1, <4>2 DEF Tagged
    <3> QED BY <1>3, <1>6, <3>1, <3>2
  <2> QED BY <2>1, <2>2
<1>9. ShapeInv'
  BY <1>2, <1>7, <1>8 DEF IInv, ShapeInv
<1>10. CollectInv'
  <2>1. node \in 0 .. Size
    BY <1>4
  <2> QED BY <1>2, <1>4, <1>7, <1>8, <2>1 DEF CollectInv
<1>11. TextInv'
  BY <1>7 DEF TextInv
<1> QED BY <1>9, <1>10, <1>11 DEF IInv

\* A collection that has been made stays as it is while its items are gone
\* through.
LEMMA ListKept ==
  ASSUME IInv, pc \in {"items", "size", "copy"}, tree' = tree, UNCHANGED <<tag, collection>>
  PROVE  /\ Enumerates(list, Tagged(Tags, tag, Size))'
         /\ tree' \in Trees /\ tag' = tag
         /\ Len(list') \in Nat /\ DOMAIN list' = 1 .. Len(list') /\ size' \in Nat /\ Len(list') <= size'
<1>1. Size' = Size /\ Par' = Par /\ Tags' = Tags /\ Weights' = Weights
  BY SameTree
<1>2. Enumerates(list, Tagged(Tags, tag, Size)) /\ list' = list /\ tag' = tag /\ size' = size
  BY DEF IInv, CollectInv, collection
<1> QED BY <1>1, <1>2 DEF IInv, ShapeInv

\* The walk over the document has ended.
LEMMA ReturnIInv == IInv /\ CollectReturn => IInv'
<1> SUFFICES ASSUME IInv, CollectReturn PROVE IInv'
  OBVIOUS
<1>1. tree \in Trees /\ Size \in Nat /\ TreeOrder(Size, Par)
  BY TreeFacts DEF IInv, ShapeInv
<1>2. tree' = tree /\ Size' = Size /\ Par' = Par /\ Tags' = Tags /\ Weights' = Weights
  BY SameTree DEF CollectReturn
<1>3. PICK e \in 0 .. Size : At(Size, Par, 0, Null, e) /\ Enumerates(list, Tagged(Tags, tag, e))
  BY DEF CollectReturn, IInv, CollectInv
<1>4. e = Size
  BY <1>1, <1>3, DocumentEnd
<1>5. /\ pc = "collect" /\ pc' = "items" /\ tag' = tag /\ list' = list /\ size' = size /\ i' = i
      /\ text' = text
  BY DEF CollectReturn, collection, content
<1>6. Enumerates(list, Tagged(Tags, tag, Size))'
  BY <1>2, <1>3, <1>4, <1>5
<1>7. ShapeInv'
  BY <1>2, <1>5 DEF IInv, ShapeInv
<1> QED BY <1>5, <1>6, <1>7 DEF IInv, CollectInv, TextInv

\* The loops over the meta elements and over the links.
LEMMA ItemIInv ==
  ASSUME IInv, pc = "items", pc' = "items", tree' = tree, UNCHANGED <<tag, collection>>,
         i' \in Nat \ {0}, Len(text') \in Nat, DOMAIN text' = 1 .. Len(text')
  PROVE  IInv'
<1>1. /\ Enumerates(list, Tagged(Tags, tag, Size))'
      /\ tree' \in Trees /\ tag' = tag
      /\ Len(list') \in Nat /\ DOMAIN list' = 1 .. Len(list') /\ size' \in Nat /\ Len(list') <= size'
  BY ListKept
<1>2. ShapeInv'
  BY <1>1 DEF IInv, ShapeInv
<1> QED BY <1>1, <1>2 DEF IInv, CollectInv, TextInv

\* The first walk over a paragraph starts.
LEMMA ParseTextIInv == IInv /\ ParseText => IInv'
<1> SUFFICES ASSUME IInv, ParseText PROVE IInv'
  OBVIOUS
<1>1. tree \in Trees /\ Size \in Nat
  BY TreeFacts DEF IInv, ShapeInv
<1>2. tree' = tree /\ Size' = Size /\ Par' = Par /\ Tags' = Tags /\ Weights' = Weights
  BY SameTree DEF ParseText
<1>3. /\ pc = "items" /\ pc' = "size" /\ tag' = tag /\ list' = list /\ size' = size /\ i' = i
      /\ length' = 0 /\ text' = << >> /\ i <= Len(list) /\ Begin(list[i])
  BY DEF ParseText, HasItem, collection
<1>4. /\ Enumerates(list, Tagged(Tags, tag, Size))'
      /\ tree' \in Trees /\ tag' = tag
      /\ Len(list') \in Nat /\ DOMAIN list' = 1 .. Len(list') /\ size' \in Nat /\ Len(list') <= size'
  BY <1>2, <1>3, ListKept DEF collection
<1>5. list[i] \in 1 .. Size
  <2>1. i \in DOMAIN list
    BY <1>3 DEF IInv, ShapeInv
  <2>2. list[i] \in Tagged(Tags, tag, Size)
    BY <1>2, <1>3, <1>4, <2>1 DEF Enumerates
  <2> QED BY <2>2 DEF Tagged
<1>6. root' = list[i] /\ At(Size, Par, root', node', list[i])
  BY <1>1, <1>3, <1>5, WalkStart
<1>7. ShapeInv'
  BY <1>3, <1>4 DEF IInv, ShapeInv
<1>8. CollectInv'
  BY <1>3, <1>4 DEF CollectInv
<1>9. TextInv'
  <2> DEFINE F == Sums(Size, Weights)
  <2>1. F[root'] \in Nat /\ root' \in 0 .. Size /\ root' \in 1 .. Size
    <3>1. IsSums(F, Size, Weights)
      BY <1>1, DataIs, SumsAre
    <3> QED BY <1>5, <1>6, <3>1 DEF IsSums
  <2>2. length' = F[root'] - F[root'] /\ At(Size, Par, root', node', root')
    BY <1>3, <1>6, <2>1
  <2> QED BY <1>2, <1>3, <2>1, <2>2 DEF TextInv
<1> QED BY <1>7, <1>8, <1>9 DEF IInv

\* The next sum.
LEMMA SumOfNext ==
  ASSUME tree \in Trees, node \in 1 .. Size, NEW e \in 0 .. Size, node = e + 1,
         NEW r \in 0 .. Size, NEW v,
         v = Sums(Size, Weights)[e] - Sums(Size, Weights)[r]
  PROVE  v + Len(Data) = Sums(Size, Weights)[node] - Sums(Size, Weights)[r]
<1> DEFINE F == Sums(Size, Weights)
<1>1. Size \in Nat
  BY TreeFacts
<1>2. Weights \in [1 .. Size -> Nat] /\ Len(Data) = Weights[node]
  BY DataIs
<1>3. IsSums(F, Size, Weights)
  BY <1>1, <1>2, SumsAre
<1> HIDE DEF F
<1>4. node - 1 = e /\ F[node] = F[node - 1] + Weights[node]
  BY <1>3 DEF IsSums
<1>5. F[e] \in Nat /\ F[r] \in Nat /\ Weights[node] \in Nat
  BY <1>2, <1>3 DEF IsSums
<1>6. v = F[e] - F[r]
  BY DEF F
<1>7. v + Len(Data) = F[node] - F[r]
  BY <1>2, <1>4, <1>5, <1>6
<1> QED BY <1>7 DEF F

\* The first walk over a paragraph measures the text of the nodes it visits.
LEMMA SizeIInv == IInv /\ TextContentSize => IInv'
<1> SUFFICES ASSUME IInv, TextContentSize PROVE IInv'
  OBVIOUS
<1>1. tree \in Trees /\ Size \in Nat
  BY TreeFacts DEF IInv, ShapeInv
<1>2. tree' = tree /\ Size' = Size /\ Par' = Par /\ Tags' = Tags /\ Weights' = Weights
  BY SameTree DEF TextContentSize
<1>3. pc = "size" /\ tag' = tag /\ list' = list /\ size' = size /\ i' = i /\ text' = text
  BY DEF TextContentSize, collection
<1>4. /\ Enumerates(list, Tagged(Tags, tag, Size))'
      /\ tree' \in Trees /\ tag' = tag
      /\ Len(list') \in Nat /\ DOMAIN list' = 1 .. Len(list') /\ size' \in Nat /\ Len(list') <= size'
  BY <1>2, <1>3, ListKept DEF collection
<1> DEFINE F == Sums(Size, Weights)
<1>5. PICK e \in 0 .. Size : At(Size, Par, root, node, e) /\ length = F[e] - F[root]
  BY <1>3 DEF IInv, TextInv
<1>6. root \in 1 .. Size /\ root \in 0 .. Size
  BY <1>3 DEF IInv, TextInv
<1>7. CASE node # Null
  <2>1. pc' = "size" /\ length' = length + Len(Data) /\ Advance
    BY <1>3, <1>7 DEF TextContentSize
  <2>2. /\ node = e + 1 /\ node \in 1 .. Size /\ root' = root
        /\ At(Size, Par, root', node', node)
    BY <1>1, <1>5, <1>6, <1>7, <2>1, WalkOn
  <2>3. length' = F[node] - F[root] /\ node \in 0 .. Size
    BY <1>1, <1>5, <1>6, <2>1, <2>2, SumOfNext
  <2>4. ShapeInv'
    BY <1>3, <1>4, <2>1 DEF IInv, ShapeInv
  <2>5. CollectInv'
    BY <1>4, <2>1 DEF CollectInv
  <2>6. TextInv'
    <3>1. Len(text') = 0
      BY <1>3 DEF IInv, TextInv
    <3> QED BY <1>2, <1>6, <2>1, <2>2, <2>3, <3>1 DEF TextInv
  <2> QED BY <2>4, <2>5, <2>6 DEF IInv
<1>8. CASE node = Null
  <2>1. pc' = "copy" /\ length' = length /\ Begin(root)
    BY <1>3, <1>8 DEF TextContentSize
  <2>2. root' = root /\ At(Size, Par, root', node', root)
    BY <1>1, <1>6, <2>1, WalkStart
  <2>3. Len(text) = 0
    BY <1>3 DEF IInv, TextInv
  <2>4. F[root] \in Nat
    <3>1. IsSums(F, Size, Weights)
      BY <1>1, DataIs, SumsAre
    <3> QED BY <1>6, <3>1 DEF IsSums
  <2>5. Len(text') = F[root] - F[root]
    BY <1>3, <2>3, <2>4
  <2>6. ShapeInv'
    BY <1>3, <1>4, <2>1 DEF IInv, ShapeInv
  <2>7. CollectInv'
    BY <1>4, <2>1 DEF CollectInv
  <2>8. TextInv'
    BY <1>2, <1>5, <1>6, <1>8, <2>1, <2>2, <2>5 DEF TextInv
  <2> QED BY <2>6, <2>7, <2>8 DEF IInv
<1> QED BY <1>7, <1>8

\* The second walk copies it.
LEMMA CopyIInv == IInv /\ TextContentConcatenate => IInv'
<1> SUFFICES ASSUME IInv, TextContentConcatenate PROVE IInv'
  OBVIOUS
<1>1. tree \in Trees /\ Size \in Nat
  BY TreeFacts DEF IInv, ShapeInv
<1>2. tree' = tree /\ Size' = Size /\ Par' = Par /\ Tags' = Tags /\ Weights' = Weights
  BY SameTree DEF TextContentConcatenate
<1>3. pc = "copy" /\ tag' = tag /\ list' = list /\ size' = size /\ length' = length
  BY DEF TextContentConcatenate, collection
<1>4. /\ Enumerates(list, Tagged(Tags, tag, Size))'
      /\ tree' \in Trees /\ tag' = tag
      /\ Len(list') \in Nat /\ DOMAIN list' = 1 .. Len(list') /\ size' \in Nat /\ Len(list') <= size'
  BY <1>2, <1>3, ListKept DEF collection
<1> DEFINE F == Sums(Size, Weights)
<1>5. PICK e \in 0 .. Size, d \in 0 .. Size :
        /\ At(Size, Par, root, node, e) /\ At(Size, Par, root, Null, d)
        /\ Len(text) = F[e] - F[root] /\ length = F[d] - F[root]
  BY <1>3 DEF IInv, TextInv
<1>6. root \in 1 .. Size /\ root \in 0 .. Size
  BY <1>3 DEF IInv, TextInv
<1>7. Len(text) \in Nat /\ DOMAIN text = 1 .. Len(text) /\ i \in Nat \ {0}
  BY DEF IInv, ShapeInv
<1>8. CASE node # Null
  <2>1. pc' = "copy" /\ text' = text \o Data /\ Advance /\ i' = i
    BY <1>3, <1>8 DEF TextContentConcatenate
  <2>2. /\ node = e + 1 /\ node \in 1 .. Size /\ root' = root
        /\ At(Size, Par, root', node', node)
    BY <1>1, <1>5, <1>6, <1>8, <2>1, WalkOn
  <2>3. Len(Data) \in Nat /\ DOMAIN Data = 1 .. Len(Data)
    BY <1>1, <2>2, DataIs
  <2>4. Len(text') = Len(text) + Len(Data) /\ DOMAIN text' = 1 .. Len(text') /\ Len(text') \in Nat
    <3> DEFINE s == Data
    <3> HIDE DEF s
    <3>1. Len(s) \in Nat /\ DOMAIN s = 1 .. Len(s) /\ text' = text \o s
      BY <2>1, <2>3 DEF s
    <3>2. Len(text \o s) = Len(text) + Len(s) /\ DOMAIN (text \o s) = 1 .. (Len(text) + Len(s))
      BY <1>7, <3>1
    <3>3. Len(text) + Len(s) \in Nat
      BY <1>7, <3>1
    <3> QED BY <3>1, <3>2, <3>3 DEF s
  <2>5. Len(text') = F[node] - F[root] /\ node \in 0 .. Size
    BY <1>1, <1>5, <1>6, <2>2, <2>4, SumOfNext
  <2>6. ShapeInv'
    BY <1>3, <1>4, <1>7, <2>1, <2>4 DEF IInv, ShapeInv
  <2>7. CollectInv'
    BY <1>4, <2>1 DEF CollectInv
  <2>8. TextInv'
    BY <1>2, <1>3, <1>5, <1>6, <2>1, <2>2, <2>5 DEF TextInv
  <2> QED BY <2>6, <2>7, <2>8 DEF IInv
<1>9. CASE node = Null
  <2>1. pc' = "items" /\ text' = text /\ i' = i + 1
    BY <1>3, <1>9 DEF TextContentConcatenate
  <2>2. ShapeInv'
    BY <1>3, <1>4, <1>7, <2>1 DEF IInv, ShapeInv
  <2> QED BY <1>4, <2>1, <2>2 DEF IInv, CollectInv, TextInv
<1> QED BY <1>8, <1>9

\* The next collection starts.
LEMMA NextCollectionIInv == IInv /\ NextCollection => IInv'
<1> SUFFICES ASSUME IInv, NextCollection PROVE IInv'
  OBVIOUS
<1>1. tree \in Trees /\ Size \in Nat
  BY TreeFacts DEF IInv, ShapeInv
<1>2. tree' = tree /\ Size' = Size /\ Par' = Par /\ Tags' = Tags /\ Weights' = Weights
  BY SameTree DEF NextCollection
<1> DEFINE t == NextTag
<1>3. t \in {"p", "related", "a", "none"}
  BY DEF NextTag
<1> HIDE DEF t
<1>4. /\ tag' = t /\ pc' = (IF t = "none" THEN "done" ELSE "collect") /\ list' = << >>
      /\ size' = (IF t = "none" THEN 0 ELSE StartSize[t]) /\ i' = 1 /\ Begin(0) /\ text' = text
  BY DEF NextCollection, StartCollect, Document, content, t
<1>5. root' = 0 /\ At(Size, Par, root', node', 0)
  BY <1>1, <1>4, WalkStart
<1>6. ShapeInv'
  <2>1. size' \in Nat
    BY <1>3, <1>4, StartSizeAssumption
  <2>2. pc' \in {"collect", "done"} /\ (tag' = "none" => pc' = "done")
    BY <1>4
  <2> QED BY <1>1, <1>2, <1>3, <1>4, <2>1, <2>2 DEF IInv, ShapeInv
<1>7. CollectInv'
  <2>1. Enumerates(list', Tagged(Tags, tag', 0))
    BY <1>4, StartEmpty
  <2> QED BY <1>1, <1>2, <1>4, <1>5, <2>1 DEF CollectInv
<1>8. TextInv'
  BY <1>4 DEF TextInv
<1> QED BY <1>6, <1>7, <1>8 DEF IInv

\* Every step keeps the invariant.
LEMMA NextIInv == IInv /\ [Next]_vars => IInv'
<1> SUFFICES ASSUME IInv, [Next]_vars PROVE IInv'
  OBVIOUS
<1>1. CASE ParseMeta
  <2>1. /\ pc = "items" /\ pc' = "items" /\ tree' = tree /\ UNCHANGED <<tag, collection>>
        /\ i' \in Nat \ {0} /\ Len(text') \in Nat /\ DOMAIN text' = 1 .. Len(text')
    BY <1>1 DEF ParseMeta, HasItem, content, IInv, ShapeInv
  <2> QED BY <2>1, ItemIInv
<1>2. CASE ParseLinks
  <2>1. /\ pc = "items" /\ pc' = "items" /\ tree' = tree /\ UNCHANGED <<tag, collection>>
        /\ i' \in Nat \ {0} /\ Len(text') \in Nat /\ DOMAIN text' = 1 .. Len(text')
    BY <1>2 DEF ParseLinks, HasItem, content, IInv, ShapeInv
  <2> QED BY <2>1, ItemIInv
<1>3. CASE UNCHANGED vars
  <2>1. /\ UNCHANGED <<tree, tag, pc, root, node, list, size, i, length, text>>
        /\ Size' = Size /\ Par' = Par /\ Tags' = Tags /\ Weights' = Weights
    BY <1>3, SameTree DEF vars, walk, collection, content
  <2> QED BY <2>1 DEF IInv, ShapeInv, CollectInv, TextInv
<1>4. CASE Finished
  BY <1>3, <1>4 DEF Finished
<1>5. CASE Visit \/ CollectReturn \/ ParseText \/ TextContentSize \/ TextContentConcatenate \/ NextCollection
  BY <1>5, VisitIInv, ReturnIInv, ParseTextIInv, SizeIInv, CopyIInv, NextCollectionIInv
<1> QED BY <1>1, <1>2, <1>3, <1>4, <1>5 DEF Next, Step

\* The invariant holds.
LEMMA IInvHolds == Spec => []IInv
BY InitIInv, NextIInv, PTL DEF Spec

\* The elements of a tag in the document.
LEMMA BelowDocument ==
  ASSUME tree \in Trees, NEW t
  PROVE  Below(Document, t) = InOrder(Tagged(Tags, t, Size))
<1>1. Size \in Nat /\ Nodes = 1 .. Size /\ TreeOrder(Size, Par)
  BY TreeFacts
<1>2. ASSUME NEW c \in Nodes PROVE Document \in Ancestors(c)
  <2>1. c \in 0 .. Size
    BY <1>1
  <2>2. Ancestors(c) = Span(Par, c)
    BY <1>1, <2>1, AncestorsAre
  <2>3. 0 \in Span(Par, c)
    BY <1>1, <2>1 DEF Span, TreeOrder
  <2> QED BY <2>2, <2>3 DEF Document
<1>3. {c \in Nodes : tree.node[c].tag = t /\ c # Document /\ Document \in Ancestors(c)}
        = {c \in 1 .. Size : Tags[c] = t}
  BY <1>1, <1>2 DEF Tags, Document
<1> QED BY <1>3 DEF Below, Tagged

\* Whatever the shape of the tree and however large, the array holds every
\* element of the tag once, in tree order, in memory it has
\* (node.c:248-275, array.c:85-97).
THEOREM CollectsEveryElement == Spec => []CollectionExact
<1>1. ASSUME IInv, pc = "items" PROVE list = Below(Document, tag) /\ Len(list) <= size
  <2>1. tree \in Trees /\ Size \in Nat
    BY <1>1, TreeFacts DEF IInv, ShapeInv
  <2>2. Below(Document, tag) = InOrder(Tagged(Tags, tag, Size))
    BY <2>1, BelowDocument
  <2> DEFINE J == Tagged(Tags, tag, Size)
  <2>3. J \in SUBSET (1 .. Size)
    BY DEF Tagged
  <2>4. Enumerates(list, J)
    BY <1>1 DEF IInv, CollectInv
  <2> HIDE DEF J
  <2>5. Enumerates(InOrder(J), J)
    BY <2>1, <2>3, InOrderEnumerates
  <2>6. list = InOrder(J)
    BY <2>1, <2>3, <2>4, <2>5, EnumerationUnique
  <2> QED BY <1>1, <2>2, <2>6 DEF IInv, ShapeInv, J
<1>2. IInv => CollectionExact
  BY <1>1 DEF CollectionExact
<1> QED BY <1>2, IInvHolds, PTL

\* Whatever the subtree of a paragraph, both walks stay in it, and the second
\* one fills the buffer that the first one has measured and no more
\* (node.c:286-298).
THEOREM CopiesWhatItMeasured == Spec => []MeasuredTwice
<1>1. ASSUME IInv, pc \in {"size", "copy"} PROVE node = Null \/ root \in Ancestors(node)
  <2>1. tree \in Trees /\ Size \in Nat
    BY <1>1, TreeFacts DEF IInv, ShapeInv
  <2>2. PICK e \in 0 .. Size : At(Size, Par, root, node, e)
    BY <1>1 DEF IInv, TextInv
  <2>3. root \in 0 .. Size
    BY <1>1 DEF IInv, TextInv
  <2>4. node # Null => node \in 0 .. Size /\ root \in Span(Par, node)
    BY <2>1, <2>2, <2>3, NextAt
  <2> QED BY <2>1, <2>4, AncestorsAre
<1>2. ASSUME IInv, pc = "copy"
      PROVE  Len(text) <= length /\ (node = Null => Len(text) = length)
  <2>1. tree \in Trees /\ Size \in Nat
    BY <1>2, TreeFacts DEF IInv, ShapeInv
  <2> DEFINE F == Sums(Size, Weights)
  <2>2. PICK e \in 0 .. Size, d \in 0 .. Size :
          /\ At(Size, Par, root, node, e) /\ At(Size, Par, root, Null, d)
          /\ Len(text) = F[e] - F[root] /\ length = F[d] - F[root]
    BY <1>2 DEF IInv, TextInv
  <2>3. root \in 0 .. Size
    BY <1>2 DEF IInv, TextInv
  <2>4. e <= d
    BY <2>1, <2>2, <2>3, EndIsLast
  <2>5. node = Null => d <= e
    BY <2>1, <2>2, <2>3, EndIsLast
  <2>6. Weights \in [1 .. Size -> Nat] /\ IsSums(F, Size, Weights)
    BY <2>1, DataIs, SumsAre
  <2> HIDE DEF F
  <2>7. F[e] <= F[d]
    BY <2>1, <2>4, <2>6, SumsGrow
  <2>8. F[e] \in Nat /\ F[d] \in Nat /\ F[root] \in Nat
    BY <2>3, <2>6 DEF IsSums
  <2>9. Len(text) <= length
    BY <2>2, <2>7, <2>8
  <2>10. node = Null => e = d
    BY <2>4, <2>5
  <2> QED BY <2>2, <2>9, <2>10
<1>3. IInv => MeasuredTwice
  BY <1>1, <1>2 DEF MeasuredTwice
<1> QED BY <1>3, IInvHolds, PTL

-----------------------------------------------------------------------------
\* F gives the concatenations of the first sequences of s.
Concatenates(F, n, s) ==
  F = [j \in 1 .. n |-> IF j = 1 THEN s[j] ELSE F[j - 1] \o s[j]]

Joined(n, s) == CHOOSE F : Concatenates(F, n, s)

\* FlattenSeq concatenates from the left.
LEMMA FlattenIs ==
  ASSUME NEW s, Len(s) \in Nat, Len(s) # 0
  PROVE  FlattenSeq(s) = Joined(Len(s), s)[Len(s)]
BY DEF FlattenSeq, Joined, Concatenates

\* There is such a function, by induction on the number of sequences.
LEMMA JoinedIs ==
  ASSUME NEW s, NEW n \in Nat
  PROVE  Concatenates(Joined(n, s), n, s)
<1> DEFINE S == {m \in Nat : \E F : Concatenates(F, m, s)}
<1>1. 0 \in S
  <2>1. Concatenates([j \in 1 .. 0 |-> 0], 0, s)
    BY DEF Concatenates
  <2> QED BY <2>1
<1>2. ASSUME NEW m \in S PROVE m + 1 \in S
  <2>1. PICK F : Concatenates(F, m, s)
    OBVIOUS
  <2> DEFINE G == [j \in 1 .. (m + 1) |->
                     IF j = m + 1 THEN (IF j = 1 THEN s[j] ELSE F[j - 1] \o s[j]) ELSE F[j]]
  <2>2. m \in Nat
    OBVIOUS
  <2>3. \A j \in 1 .. m : F[j] = IF j = 1 THEN s[j] ELSE F[j - 1] \o s[j]
    BY <2>1 DEF Concatenates
  <2>4. \A j \in 1 .. m : G[j] = F[j]
    BY <2>2
  <2>5. ASSUME NEW j \in 1 .. (m + 1) PROVE G[j] = IF j = 1 THEN s[j] ELSE G[j - 1] \o s[j]
    <3>1. j # 1 => j - 1 \in 1 .. m
      BY <2>2
    <3>2. j # 1 => G[j - 1] = F[j - 1]
      BY <2>4, <3>1
    <3>3. CASE j = m + 1
      BY <3>2, <3>3
    <3>4. CASE j # m + 1
      <4>1. j \in 1 .. m
        BY <2>2, <3>4
      <4>2. G[j] = F[j]
        BY <2>4, <4>1
      <4> HIDE DEF G
      <4> QED BY <2>3, <3>2, <4>1, <4>2
    <3> QED BY <3>3, <3>4
  <2>6. G = [j \in 1 .. (m + 1) |-> G[j]]
    OBVIOUS
  <2> HIDE DEF G
  <2>7. G = [j \in 1 .. (m + 1) |-> IF j = 1 THEN s[j] ELSE G[j - 1] \o s[j]]
    BY <2>5, <2>6
  <2>8. Concatenates(G, m + 1, s)
    BY <2>7 DEF Concatenates
  <2> QED BY <2>2, <2>8
<1>3. n \in S
  <2>1. S \in SUBSET Nat
    OBVIOUS
  <2> HIDE DEF S
  <2> QED BY <1>1, <1>2, <2>1, Induction
<1>4. PICK F : Concatenates(F, n, s)
  BY <1>3
<1> QED BY <1>4 DEF Joined

\* What is concatenated first does not depend on what follows.
LEMMA JoinedPrefix ==
  ASSUME NEW s, NEW t, NEW n \in Nat, NEW m \in Nat, NEW F, NEW G,
         Concatenates(F, n, s), Concatenates(G, m, t), n <= m,
         \A j \in 1 .. n : s[j] = t[j]
  PROVE  \A j \in 1 .. n : F[j] = G[j]
<1> DEFINE S == {q \in Nat : q \in 1 .. n => F[q] = G[q]}
<1>1. 0 \in S
  OBVIOUS
<1>2. ASSUME NEW q \in S PROVE q + 1 \in S
  <2>1. ASSUME q + 1 \in 1 .. n PROVE F[q + 1] = G[q + 1]
    <3>1. q \in Nat /\ q + 1 \in 1 .. m /\ (q + 1) - 1 = q /\ (q + 1 # 1 => q \in 1 .. n)
      BY <2>1
    <3>2. F[q + 1] = IF q + 1 = 1 THEN s[q + 1] ELSE F[(q + 1) - 1] \o s[q + 1]
      BY <2>1 DEF Concatenates
    <3>3. G[q + 1] = IF q + 1 = 1 THEN t[q + 1] ELSE G[(q + 1) - 1] \o t[q + 1]
      BY <3>1 DEF Concatenates
    <3>4. q + 1 # 1 => F[q] = G[q]
      BY <3>1
    <3>5. s[q + 1] = t[q + 1]
      BY <2>1
    <3> QED BY <3>1, <3>2, <3>3, <3>4, <3>5
  <2> QED BY <2>1
<1>3. S = Nat
  <2>1. S \in SUBSET Nat
    OBVIOUS
  <2> HIDE DEF S
  <2> QED BY <1>1, <1>2, <2>1, Induction
<1> QED BY <1>3

\* One more sequence is concatenated at the end.
LEMMA FlattenAppend ==
  ASSUME NEW s, IsSequence(s), NEW x, IsSequence(x)
  PROVE  FlattenSeq(Append(s, x)) = FlattenSeq(s) \o x
<1> DEFINE n == Len(s)
           t == Append(s, x)
<1>1. n \in Nat /\ DOMAIN s = 1 .. n
  BY DEF IsSequence
<1>2. Len(t) = n + 1 /\ t[n + 1] = x /\ \A j \in 1 .. n : t[j] = s[j]
  BY <1>1
<1> HIDE DEF t
<1>3. FlattenSeq(t) = Joined(n + 1, t)[n + 1]
  <2>1. Len(t) \in Nat /\ Len(t) # 0
    BY <1>1, <1>2
  <2> QED BY <1>2, <2>1, FlattenIs
<1>4. Concatenates(Joined(n + 1, t), n + 1, t)
  BY <1>1, JoinedIs
<1>5. Joined(n + 1, t)[n + 1] = IF n + 1 = 1 THEN x ELSE Joined(n + 1, t)[n] \o x
  <2> DEFINE J == Joined(n + 1, t)
  <2> HIDE DEF J, n
  <2>1. Concatenates(J, n + 1, t) /\ n + 1 \in 1 .. (n + 1) /\ (n + 1) - 1 = n
    BY <1>1, <1>4 DEF J
  <2>2. J[n + 1] = IF n + 1 = 1 THEN t[n + 1] ELSE J[(n + 1) - 1] \o t[n + 1]
    BY <2>1 DEF Concatenates
  <2> QED BY <1>2, <2>1, <2>2 DEF J
<1>6. CASE n = 0
  <2>1. FlattenSeq(s) = s
    BY <1>6 DEF FlattenSeq
  <2>2. s \o x = x
    BY <1>1, <1>6 DEF IsSequence
  <2> QED BY <1>3, <1>5, <1>6, <2>1, <2>2 DEF t
<1>7. CASE n # 0
  <2>1. FlattenSeq(s) = Joined(n, s)[n]
    BY <1>1, <1>7, FlattenIs
  <2>2. Concatenates(Joined(n, s), n, s)
    BY <1>1, JoinedIs
  <2>3. Joined(n, s)[n] = Joined(n + 1, t)[n]
    <3>1. \A j \in 1 .. n : Joined(n, s)[j] = Joined(n + 1, t)[j]
      <4> HIDE DEF n
      <4> QED BY <1>1, <1>2, <1>4, <2>2, JoinedPrefix
    <3> QED BY <1>1, <1>7, <3>1
  <2>4. n + 1 # 1
    BY <1>1, <1>7
  <2>5. FlattenSeq(t) = FlattenSeq(s) \o x
    BY <1>3, <1>5, <2>1, <2>3, <2>4
  <2> QED BY <2>5 DEF t
<1> QED BY <1>6, <1>7

-----------------------------------------------------------------------------
\* The items of the list before the j-th.
SeenItems(l, j) == {l[q] : q \in 1 .. (j - 1)}

\* l is a sequence that enumerates J.
Lists(l, J) == Enumerates(l, J) /\ Len(l) \in Nat /\ DOMAIN l = 1 .. Len(l)

\* The item x of the list is after all those before it.
Further(n, J, l, j, x) ==
  /\ x \in 1 .. n /\ x \in J
  /\ SeenItems(l, j + 1) = SeenItems(l, j) \cup {x}
  /\ SeenItems(l, j) \in SUBSET (1 .. (x - 1))

\* Going on to the next item of a list.
LEMMA SeenNext ==
  ASSUME NEW n \in Nat, NEW J \in SUBSET (1 .. n), NEW l, Lists(l, J), NEW j \in 1 .. Len(l)
  PROVE  Further(n, J, l, j, l[j])
<1>1. Cardinality(J) \in Nat
  BY Positions
<1>2. Cardinality(J) = Len(l)
  <2>1. 1 .. Cardinality(J) = 1 .. Len(l)
    BY DEF Lists, Enumerates
  <2> QED BY <1>1, <2>1 DEF Lists
<1>3. /\ Len(l) \in Nat /\ \A q \in 1 .. Len(l) : l[q] \in J
      /\ \A a, b \in 1 .. Len(l) : a < b => l[a] < l[b]
  BY <1>2 DEF Lists, Enumerates
<1>4. l[j] \in 1 .. n /\ l[j] \in J
  BY <1>3
<1>5. SeenItems(l, j + 1) = SeenItems(l, j) \cup {l[j]}
  <2>1. (j + 1) - 1 = j /\ \A q \in 1 .. j : q = j \/ q \in 1 .. (j - 1)
    BY <1>3
  <2>2. j \in 1 .. j /\ \A q \in 1 .. (j - 1) : q \in 1 .. j
    BY <1>3
  <2> QED BY <2>1, <2>2 DEF SeenItems
<1>6. \A q \in 1 .. (j - 1) : l[q] \in 1 .. (l[j] - 1)
  <2>1. ASSUME NEW q \in 1 .. (j - 1) PROVE l[q] \in 1 .. (l[j] - 1)
    <3>1. q \in 1 .. Len(l) /\ q < j
      BY <1>3
    <3>2. l[q] < l[j] /\ l[q] \in 1 .. n
      BY <1>3, <3>1
    <3> QED BY <1>4, <3>2
  <2> QED BY <2>1
<1>7. SeenItems(l, j) \in SUBSET (1 .. (l[j] - 1))
  BY <1>6 DEF SeenItems
<1> QED BY <1>4, <1>5, <1>7 DEF Further

\* At its start nothing has been seen, and at its end everything.
LEMMA SeenAll ==
  ASSUME NEW n \in Nat, NEW J \in SUBSET (1 .. n), NEW l, Lists(l, J)
  PROVE  SeenItems(l, 1) = {} /\ SeenItems(l, Len(l) + 1) = J
<1>1. Cardinality(J) \in Nat
  BY Positions
<1>2. Cardinality(J) = Len(l)
  <2>1. 1 .. Cardinality(J) = 1 .. Len(l)
    BY DEF Lists, Enumerates
  <2> QED BY <1>1, <2>1 DEF Lists
<1>3. /\ Len(l) \in Nat /\ \A q \in 1 .. Len(l) : l[q] \in J
      /\ \A x \in J : \E a \in 1 .. Len(l) : l[a] = x
  BY <1>2 DEF Lists, Enumerates
<1>4. (Len(l) + 1) - 1 = Len(l)
  BY <1>3
<1> QED BY <1>3, <1>4 DEF SeenItems

\* The map of properties after the meta elements in N, whose properties are P
\* and whose values are C.
MetaOf(P, C, N) ==
  [key \in {P[m] : m \in {c \in N : P[c] # NoValue}} |-> C[Max({m \in N : P[m] = key})]]

\* The map new is old with the property set, if it has a name.
Sets(old, new, property, value) ==
  new = IF property # NoValue
        THEN [key \in DOMAIN old \cup {property} |-> IF key = property THEN value ELSE old[key]]
        ELSE old

\* A later meta element replaces the value of its property.
LEMMA MetaNext ==
  ASSUME NEW P, NEW C, NEW x \in Nat, NEW N \in SUBSET (1 .. (x - 1))
  PROVE  Sets(MetaOf(P, C, N), MetaOf(P, C, N \cup {x}), P[x], C[x])
<1> DEFINE K == {P[m] : m \in {c \in N : P[c] # NoValue}}
           L == {P[m] : m \in {c \in N \cup {x} : P[c] # NoValue}}
           Of(key) == {m \in N : P[m] = key}
           OfNext(key) == {m \in N \cup {x} : P[m] = key}
<1>1. \A key : key # P[x] => OfNext(key) = Of(key)
  OBVIOUS
<1>2. Max(OfNext(P[x])) = x
  <2>0. \A y \in N \cup {x} : y \in Int /\ y <= x
    OBVIOUS
  <2>1. OfNext(P[x]) \in SUBSET Int /\ x \in OfNext(P[x]) /\ \A y \in OfNext(P[x]) : y <= x
    BY <2>0
  <2> HIDE DEF OfNext
  <2> QED BY <2>1, MaxIs
<1>3. P[x] # NoValue => L = K \cup {P[x]}
  OBVIOUS
<1>4. P[x] = NoValue => L = K /\ P[x] \notin K
  OBVIOUS
<1>5. /\ MetaOf(P, C, N) = [key \in K |-> C[Max(Of(key))]]
      /\ MetaOf(P, C, N \cup {x}) = [key \in L |-> C[Max(OfNext(key))]]
  BY DEF MetaOf
<1> HIDE DEF K, L, Of, OfNext
<1>6. CASE P[x] # NoValue
  <2>1. \A key \in K \cup {P[x]} :
          C[Max(OfNext(key))] = IF key = P[x] THEN C[x] ELSE MetaOf(P, C, N)[key]
    <3>1. ASSUME NEW key \in K \cup {P[x]}
          PROVE  C[Max(OfNext(key))] = IF key = P[x] THEN C[x] ELSE MetaOf(P, C, N)[key]
      <4>1. CASE key = P[x]
        BY <1>2, <4>1
      <4>2. CASE key # P[x]
        <5>1. OfNext(key) = Of(key) /\ key \in K
          BY <1>1, <4>2
        <5>2. MetaOf(P, C, N)[key] = C[Max(Of(key))]
          BY <1>5, <5>1
        <5> QED BY <4>2, <5>1, <5>2
      <4> QED BY <4>1, <4>2
    <3> QED BY <3>1
  <2>2. DOMAIN MetaOf(P, C, N) = K
    BY <1>5
  <2>3. MetaOf(P, C, N \cup {x}) = [key \in K \cup {P[x]} |-> C[Max(OfNext(key))]]
    BY <1>3, <1>5, <1>6
  <2>4. MetaOf(P, C, N \cup {x}) =
          [key \in K \cup {P[x]} |-> IF key = P[x] THEN C[x] ELSE MetaOf(P, C, N)[key]]
    BY <2>1, <2>3
  <2> QED BY <1>6, <2>2, <2>4 DEF Sets
<1>7. CASE P[x] = NoValue
  <2>1. \A key \in K : OfNext(key) = Of(key)
    BY <1>1, <1>4, <1>7
  <2>2. [key \in K |-> C[Max(OfNext(key))]] = [key \in K |-> C[Max(Of(key))]]
    BY <2>1
  <2> QED BY <1>4, <1>5, <1>7, <2>2 DEF Sets
<1> QED BY <1>6, <1>7

\* links are the targets H of the elements in N that have one, in order.
LinksOf(H, N, links) ==
  \E h : Lists(h, {c \in N : H[c] # NoValue}) /\ links = [j \in 1 .. Len(h) |-> H[h[j]]]

\* A later element's target is appended.
LEMMA LinksNext ==
  ASSUME NEW H, NEW x \in Nat \ {0}, NEW N \in SUBSET (1 .. (x - 1)), NEW links, LinksOf(H, N, links)
  PROVE  LinksOf(H, N \cup {x}, IF H[x] # NoValue THEN Append(links, H[x]) ELSE links)
<1> DEFINE J == {c \in N : H[c] # NoValue}
           K == {c \in N \cup {x} : H[c] # NoValue}
<1>1. PICK h : Lists(h, J) /\ links = [j \in 1 .. Len(h) |-> H[h[j]]]
  BY DEF LinksOf
<1>2. CASE H[x] # NoValue
  <2>0. x - 1 \in Nat /\ (x - 1) + 1 = x /\ K = J \cup {x}
    BY <1>2
  <2>1. K = J \cup {(x - 1) + 1} /\ J \in SUBSET (1 .. (x - 1)) /\ x - 1 \in Nat /\ (x - 1) + 1 = x
    BY <2>0
  <2> DEFINE g == Append(h, x)
  <2>2. Len(h) \in Nat /\ DOMAIN h = 1 .. Len(h) /\ Enumerates(h, J)
    BY <1>1 DEF Lists
  <2>3. g[Len(h) + 1] = x /\ \A j \in 1 .. Len(h) : g[j] = h[j]
    BY <2>2
  <2> HIDE DEF J, K
  <2>4. /\ Enumerates(Append(h, (x - 1) + 1), J \cup {(x - 1) + 1})
        /\ Len(Append(h, (x - 1) + 1)) = Len(h) + 1
        /\ DOMAIN Append(h, (x - 1) + 1) = 1 .. (Len(h) + 1)
    BY <2>1, <2>2, AppendEnumerates
  <2>5. Enumerates(g, K) /\ Len(g) = Len(h) + 1 /\ DOMAIN g = 1 .. (Len(h) + 1)
    BY <2>1, <2>4
  <2> HIDE DEF g
  <2>6. Lists(g, K)
    BY <2>2, <2>5 DEF Lists
  <2>7. Append(links, H[x]) = [j \in 1 .. Len(g) |-> H[g[j]]]
    <3>1. Len(links) = Len(h) /\ DOMAIN links = 1 .. Len(h) /\ \A j \in 1 .. Len(h) : links[j] = H[h[j]]
      BY <1>1, <2>2
    <3>2. Append(links, H[x]) = [j \in 1 .. (Len(h) + 1) |-> IF j = Len(h) + 1 THEN H[x] ELSE links[j]]
      BY <2>2, <3>1
    <3>3. \A j \in 1 .. (Len(h) + 1) : (IF j = Len(h) + 1 THEN H[x] ELSE links[j]) = H[g[j]]
      <4>1. ASSUME NEW j \in 1 .. (Len(h) + 1)
            PROVE  (IF j = Len(h) + 1 THEN H[x] ELSE links[j]) = H[g[j]]
        <5>1. j = Len(h) + 1 \/ j \in 1 .. Len(h)
          BY <2>2
        <5> QED BY <2>2, <2>3, <3>1, <5>1
      <4> QED BY <4>1
    <3> QED BY <2>5, <3>2, <3>3
  <2> QED BY <1>2, <2>6, <2>7 DEF LinksOf, K
<1>3. CASE H[x] = NoValue
  <2>1. K = J
    BY <1>3
  <2> QED BY <1>1, <1>3, <2>1 DEF LinksOf
<1> QED BY <1>2, <1>3
-----------------------------------------------------------------------------
Props == [c \in 1 .. Size |-> tree.node[c].property]
Conts == [c \in 1 .. Size |-> tree.node[c].content]
Hrefs == [c \in 1 .. Size |-> tree.node[c].href]
Datas == [c \in 1 .. Size |-> tree.node[c].data]

\* The text of the nodes in h, whose data is given by d.
TextsOf(d, h) == FlattenSeq([j \in 1 .. Len(h) |-> d[h[j]]])

\* The text nodes up to e that are below k.
TextNodes(g, p, k, e) == {c \in 1 .. e : g[c] = "#text" /\ c # k /\ k \in Span(p, c)}

\* t is the text of the subtree of k up to e.
TextUpTo(g, p, d, k, e, t) == \E h : Lists(h, TextNodes(g, p, k, e)) /\ t = TextsOf(d, h)

\* The text of each node's subtree.
ParTexts == [k \in 1 .. Size |-> Texts(Below(k, "#text"))]

\* The text of the first items of a list of paragraphs.
Paras(T, l, j) == FlattenSeq([q \in 1 .. (j - 1) |-> T[l[q]]])

LoopInv ==
  /\ pc = "collect" => i = 1
  /\ pc \in {"items", "size", "copy"} => i <= Len(list) + 1
  /\ pc \in {"size", "copy"} => i <= Len(list) /\ tag = "p" /\ root = list[i]
  /\ pc = "done" => tag = "none"

\* text is what the second walk has copied so far.
CopyInv ==
  /\ IsSequence(text)
  /\ pc = "copy" =>
       \E e \in 0 .. Size :
         At(Size, Par, root, node, e) /\ TextUpTo(Tags, Par, Datas, root, e, text)

MetaInv ==
  /\ tag = "meta" => meta_ = MetaOf(Props, Conts, SeenItems(list, i))
  /\ tag # "meta" => meta_ = MetaOf(Props, Conts, Tagged(Tags, "meta", Size))

ParasInv ==
  /\ tag = "meta" => text_ = << >>
  /\ tag = "p" => text_ = Paras(ParTexts, list, i)
  /\ tag \notin {"meta", "p"} =>
       \E l : Lists(l, Tagged(Tags, "p", Size)) /\ text_ = Paras(ParTexts, l, Len(l) + 1)

LinksInv ==
  /\ tag \in {"meta", "p", "related"} => related_links_ = << >>
  /\ tag = "a" => /\ Tagged(Tags, "related", Size) # {}
                  /\ LinksOf(Hrefs, SeenItems(list, i), related_links_)
  /\ tag = "none" => IF Tagged(Tags, "related", Size) = {} THEN related_links_ = << >>
                     ELSE LinksOf(Hrefs, Tagged(Tags, "a", Size), related_links_)

MembersInv == LoopInv /\ CopyInv /\ MetaInv /\ ParasInv /\ LinksInv
\* What the tree gives does not change.
LEMMA SameMembers ==
  ASSUME tree' = tree
  PROVE  /\ Size' = Size /\ Par' = Par /\ Tags' = Tags
         /\ Props' = Props /\ Conts' = Conts /\ Hrefs' = Hrefs /\ Datas' = Datas
         /\ ParTexts' = ParTexts
<1>1. Size' = Size /\ Par' = Par /\ Tags' = Tags
  BY SameTree
<1>2. Props' = Props /\ Conts' = Conts /\ Hrefs' = Hrefs /\ Datas' = Datas
  BY DEF Props, Conts, Hrefs, Datas, Size
<1>3. ParTexts' = ParTexts
  BY <1>1 DEF ParTexts, Texts, Below, Ancestors, Nodes
<1> QED BY <1>1, <1>2, <1>3

\* The list while its items are gone through.
LEMMA ListIs ==
  ASSUME IInv, pc \in {"items", "size", "copy"}
  PROVE  /\ Size \in Nat /\ Tagged(Tags, tag, Size) \in SUBSET (1 .. Size)
         /\ Lists(list, Tagged(Tags, tag, Size))
<1>1. Size \in Nat
  BY TreeFacts DEF IInv, ShapeInv
<1> QED BY <1>1 DEF IInv, ShapeInv, CollectInv, Lists, Tagged

\* The item that the loop is at, and the items when it ends.
LEMMA ItemIs ==
  ASSUME IInv, pc \in {"items", "size", "copy"}
  PROVE  /\ i \in 1 .. Len(list) => Further(Size, Tagged(Tags, tag, Size), list, i, list[i])
         /\ SeenItems(list, Len(list) + 1) = Tagged(Tags, tag, Size)
<1> DEFINE J == Tagged(Tags, tag, Size)
<1>1. Size \in Nat /\ J \in SUBSET (1 .. Size) /\ Lists(list, J)
  BY ListIs
<1> HIDE DEF J
<1>2. i \in 1 .. Len(list) => Further(Size, J, list, i, list[i])
  BY <1>1, SeenNext
<1>3. SeenItems(list, Len(list) + 1) = J
  BY <1>1, SeenAll
<1> QED BY <1>2, <1>3 DEF J

\* The counters of the loops.
LEMMA LoopStep ==
  ASSUME IInv, LoopInv, Next
  PROVE  LoopInv'
<1>0. Len(list) \in Nat /\ i \in Nat \ {0}
  BY DEF IInv, ShapeInv
<1>1. CASE Visit \/ CollectReturn
  BY <1>0, <1>1 DEF LoopInv, Visit, CollectReturn, collection
<1>2. CASE ParseMeta \/ ParseLinks
  BY <1>0, <1>2 DEF LoopInv, ParseMeta, ParseLinks, HasItem, collection
<1>3. CASE ParseText
  BY <1>0, <1>3 DEF LoopInv, ParseText, HasItem, Begin, collection
<1>4. CASE TextContentSize
  BY <1>0, <1>4 DEF LoopInv, TextContentSize, Begin, Advance, collection
<1>5. CASE TextContentConcatenate
  BY <1>0, <1>5 DEF LoopInv, TextContentConcatenate, Advance, collection
<1>6. CASE NextCollection
  BY <1>6 DEF LoopInv, NextCollection, StartCollect
<1>7. CASE Finished
  BY <1>7 DEF LoopInv, Finished, vars, walk, collection
<1> QED BY <1>1, <1>2, <1>3, <1>4, <1>5, <1>6, <1>7 DEF Next, Step

\* The map of the properties.
LEMMA MetaStep ==
  ASSUME IInv, LoopInv, MetaInv, Next
  PROVE  MetaInv'
<1>0. /\ Size' = Size /\ Tags' = Tags /\ Props' = Props /\ Conts' = Conts
      /\ Len(list) \in Nat /\ i \in Nat \ {0}
  <2>1. tree' = tree
    BY DEF Next, Step, Visit, CollectReturn, ParseMeta, ParseText, TextContentSize,
           TextContentConcatenate, ParseLinks, NextCollection, Finished, vars
  <2> QED BY <2>1, SameMembers DEF IInv, ShapeInv
<1>1. CASE Visit \/ CollectReturn
  <2>1. tag' = tag /\ meta_' = meta_ /\ i' = 1 /\ i = 1
    BY <1>1 DEF Visit, CollectReturn, LoopInv, fields
  <2>2. SeenItems(list, 1) = {} /\ SeenItems(list', 1) = {}
    BY DEF SeenItems
  <2> QED BY <1>0, <2>1, <2>2 DEF MetaInv
<1>2. CASE ParseMeta
  <2>1. /\ tag = "meta" /\ tag' = tag /\ list' = list /\ i' = i + 1 /\ i \in 1 .. Len(list) /\ pc = "items"
        /\ meta_' = IF Item.property # NoValue THEN Put(Item.property, Item.content) ELSE meta_
    BY <1>0, <1>2 DEF ParseMeta, HasItem, collection
  <2> DEFINE N == SeenItems(list, i)
             x == list[i]
  <2>2. /\ x \in 1 .. Size /\ SeenItems(list, i + 1) = N \cup {x} /\ N \in SUBSET (1 .. (x - 1))
    BY <2>1, ItemIs DEF Further
  <2>3. Item.property = Props[x] /\ Item.content = Conts[x]
    BY <2>2 DEF Item, Props, Conts
  <2>4. meta_ = MetaOf(Props, Conts, N)
    BY <2>1 DEF MetaInv
  <2> HIDE DEF N, x
  <2>5. Sets(MetaOf(Props, Conts, N), MetaOf(Props, Conts, N \cup {x}), Props[x], Conts[x])
    <3>1. x \in Nat
      BY <2>2
    <3> QED BY <2>2, <3>1, MetaNext
  <2>6. meta_' = MetaOf(Props, Conts, N \cup {x})
    BY <2>1, <2>3, <2>4, <2>5 DEF Put, Sets
  <2> QED BY <1>0, <2>1, <2>2, <2>6 DEF MetaInv
<1>3. CASE NextCollection
  <2>1. tag' # "meta" /\ meta_' = meta_ /\ pc = "items" /\ (i > Len(list) \/ tag = "related")
    BY <1>3 DEF NextCollection, StartCollect, NextTag, fields
  <2>2. CASE tag = "meta"
    <3>1. i = Len(list) + 1
      BY <1>0, <2>1, <2>2 DEF LoopInv
    <3>2. SeenItems(list, Len(list) + 1) = Tagged(Tags, tag, Size)
      BY <2>1, ItemIs
    <3> QED BY <1>0, <2>1, <2>2, <3>1, <3>2 DEF MetaInv
  <2>3. CASE tag # "meta"
    BY <1>0, <2>1, <2>3 DEF MetaInv
  <2> QED BY <2>2, <2>3
<1>4. CASE ParseText \/ TextContentSize \/ TextContentConcatenate \/ ParseLinks
  <2>1. tag # "meta" /\ tag' = tag /\ meta_' = meta_
    BY <1>4 DEF ParseText, TextContentSize, TextContentConcatenate, ParseLinks, LoopInv, fields
  <2> QED BY <1>0, <2>1 DEF MetaInv
<1>5. CASE Finished
  BY <1>0, <1>5 DEF MetaInv, Finished, vars, walk, collection, fields
<1> QED BY <1>1, <1>2, <1>3, <1>4, <1>5 DEF Next, Step
\* Nothing has been linked yet.
LEMMA LinksStart ==
  ASSUME NEW H
  PROVE  LinksOf(H, {}, << >>)
<1>1. {c \in {} : H[c] # NoValue} = {}
  OBVIOUS
<1>2. Tagged([c \in {} |-> 0], 0, 0) = {}
  BY DEF Tagged
<1>3. Enumerates(<< >>, {})
  BY <1>2, StartEmpty
<1>4. Lists(<< >>, {})
  BY <1>3 DEF Lists
<1>5. << >> = [j \in 1 .. 0 |-> H[<< >>[j]]]
  OBVIOUS
<1>6. Len(<< >>) = 0
  OBVIOUS
<1> QED BY <1>1, <1>4, <1>5, <1>6 DEF LinksOf

\* A list is empty if there is nothing to list.
LEMMA EmptyList ==
  ASSUME NEW n \in Nat, NEW J \in SUBSET (1 .. n), NEW l, Lists(l, J)
  PROVE  l = << >> <=> J = {}
<1>1. Cardinality(J) \in Nat /\ Cardinality({}) = 0
  BY Positions, FS_EmptySet
<1>2. ASSUME J = {} PROVE l = << >>
  <2>1. l \in [1 .. 0 -> {}]
    BY <1>1, <1>2 DEF Lists, Enumerates
  <2> QED BY <2>1
<1>3. ASSUME l = << >> PROVE J = {}
  <2>1. 1 .. Cardinality(J) = {}
    BY <1>3 DEF Lists, Enumerates
  <2> QED BY <2>1 DEF Lists, Enumerates
<1> QED BY <1>2, <1>3

\* The links.
LEMMA LinksStep ==
  ASSUME IInv, LoopInv, LinksInv, Next
  PROVE  LinksInv'
<1>0. /\ Size' = Size /\ Tags' = Tags /\ Hrefs' = Hrefs
      /\ Len(list) \in Nat /\ i \in Nat \ {0}
  <2>1. tree' = tree
    BY DEF Next, Step, Visit, CollectReturn, ParseMeta, ParseText, TextContentSize,
           TextContentConcatenate, ParseLinks, NextCollection, Finished, vars
  <2> QED BY <2>1, SameMembers DEF IInv, ShapeInv
<1>1. CASE Visit \/ CollectReturn
  <2>1. tag' = tag /\ related_links_' = related_links_ /\ i' = 1 /\ i = 1
    BY <1>1 DEF Visit, CollectReturn, LoopInv, fields
  <2>2. SeenItems(list, 1) = {} /\ SeenItems(list', 1) = {}
    BY DEF SeenItems
  <2> QED BY <1>0, <2>1, <2>2 DEF LinksInv
<1>2. CASE ParseLinks
  <2>1. /\ tag = "a" /\ tag' = tag /\ list' = list /\ i' = i + 1 /\ i \in 1 .. Len(list) /\ pc = "items"
        /\ related_links_' = IF Item.href # NoValue THEN Append(related_links_, Item.href) ELSE related_links_
    BY <1>0, <1>2 DEF ParseLinks, HasItem, HasHref, collection
  <2> DEFINE N == SeenItems(list, i)
             x == list[i]
  <2>2. /\ x \in 1 .. Size /\ SeenItems(list, i + 1) = N \cup {x} /\ N \in SUBSET (1 .. (x - 1))
    BY <2>1, ItemIs DEF Further
  <2>3. Item.href = Hrefs[x]
    BY <2>2 DEF Item, Hrefs
  <2>4. LinksOf(Hrefs, N, related_links_) /\ Tagged(Tags, "related", Size) # {}
    BY <2>1 DEF LinksInv
  <2> HIDE DEF N, x
  <2>5. LinksOf(Hrefs, N \cup {x}, IF Hrefs[x] # NoValue THEN Append(related_links_, Hrefs[x]) ELSE related_links_)
    <3>1. x \in Nat \ {0}
      BY <2>2
    <3> QED BY <2>2, <2>4, <3>1, LinksNext
  <2>6. LinksOf(Hrefs, SeenItems(list, i + 1), related_links_')
    BY <2>1, <2>2, <2>3, <2>5
  <2> QED BY <1>0, <2>1, <2>4, <2>6 DEF LinksInv
<1>3. CASE NextCollection
  <2>1. /\ tag' = NextTag /\ related_links_' = related_links_ /\ pc = "items" /\ i' = 1
        /\ (i > Len(list) \/ tag = "related")
    BY <1>3 DEF NextCollection, StartCollect, fields
  <2>2. SeenItems(list, Len(list) + 1) = Tagged(Tags, tag, Size)
    BY <2>1, ItemIs
  <2>3. CASE tag = "related"
    <3>1. list = << >> <=> Tagged(Tags, "related", Size) = {}
      <4> DEFINE J == Tagged(Tags, tag, Size)
      <4>1. Size \in Nat /\ J \in SUBSET (1 .. Size) /\ Lists(list, J)
        BY <2>1, ListIs
      <4> HIDE DEF J
      <4>2. list = << >> <=> J = {}
        BY <4>1, EmptyList
      <4> QED BY <2>3, <4>2 DEF J
    <3>2. related_links_ = << >>
      BY <2>3 DEF LinksInv
    <3>3. SeenItems(list', 1) = {}
      BY DEF SeenItems
    <3>4. LinksOf(Hrefs, SeenItems(list', 1), related_links_)
      BY <3>2, <3>3, LinksStart
    <3>5. CASE list = << >>
      <4>1. tag' = "none"
        BY <2>1, <2>3, <3>5 DEF NextTag
      <4> QED BY <1>0, <2>1, <3>1, <3>2, <3>5, <4>1 DEF LinksInv
    <3>6. CASE list # << >>
      <4>1. tag' = "a"
        BY <2>1, <2>3, <3>6 DEF NextTag
      <4> QED BY <1>0, <2>1, <3>1, <3>4, <3>6, <4>1 DEF LinksInv
    <3> QED BY <3>5, <3>6
  <2>4. CASE tag = "a"
    <3>1. i = Len(list) + 1 /\ tag' = "none"
      BY <1>0, <2>1, <2>4 DEF LoopInv, NextTag
    <3> QED BY <1>0, <2>1, <2>2, <2>4, <3>1 DEF LinksInv
  <2>5. CASE tag \in {"meta", "p"}
    <3>1. tag' \in {"p", "related"} /\ related_links_ = << >>
      BY <2>1, <2>5 DEF NextTag, LinksInv
    <3> QED BY <2>1, <3>1 DEF LinksInv
  <2>6. tag # "none"
    BY <2>1 DEF IInv, ShapeInv
  <2> QED BY <2>3, <2>4, <2>5, <2>6 DEF IInv, ShapeInv
<1>4. CASE ParseMeta \/ ParseText \/ TextContentSize \/ TextContentConcatenate
  <2>1. tag \in {"meta", "p"} /\ tag' = tag /\ related_links_' = related_links_
    BY <1>4 DEF ParseMeta, ParseText, TextContentSize, TextContentConcatenate, LoopInv, fields
  <2> QED BY <1>0, <2>1 DEF LinksInv
<1>5. CASE Finished
  BY <1>0, <1>5 DEF LinksInv, Finished, vars, walk, collection, fields
<1> QED BY <1>1, <1>2, <1>3, <1>4, <1>5 DEF Next, Step

\* The text nodes up to the next node.
LEMMA TextNext ==
  ASSUME NEW g, NEW p, NEW d, NEW k \in Nat, NEW e \in Nat, k < e + 1, k \in Span(p, e + 1),
         NEW t, TextUpTo(g, p, d, k, e, t), IsSequence(d[e + 1]), IsSequence(t)
  PROVE  TextUpTo(g, p, d, k, e + 1, t \o (IF g[e + 1] = "#text" THEN d[e + 1] ELSE << >>))
<1> DEFINE J == TextNodes(g, p, k, e)
           K == TextNodes(g, p, k, e + 1)
<1>1. PICK h : Lists(h, J) /\ t = TextsOf(d, h)
  BY DEF TextUpTo
<1>2. J \in SUBSET (1 .. e)
  BY DEF TextNodes
<1>3. \A c \in 1 .. (e + 1) : c = e + 1 \/ c \in 1 .. e
  OBVIOUS
<1>4. CASE g[e + 1] = "#text"
  <2>1. K = J \cup {e + 1}
    BY <1>3, <1>4 DEF TextNodes
  <2> DEFINE f == Append(h, e + 1)
             u == [j \in 1 .. Len(h) |-> d[h[j]]]
  <2>2. Len(h) \in Nat /\ DOMAIN h = 1 .. Len(h) /\ Enumerates(h, J)
    BY <1>1 DEF Lists
  <2>3. f[Len(h) + 1] = e + 1 /\ \A j \in 1 .. Len(h) : f[j] = h[j]
    BY <2>2
  <2>4. IsSequence(u) /\ Len(u) = Len(h) /\ \A j \in 1 .. Len(h) : u[j] = d[h[j]]
    BY <2>2 DEF IsSequence
  <2> HIDE DEF J, K, u
  <2>5. Enumerates(f, K) /\ Len(f) = Len(h) + 1 /\ DOMAIN f = 1 .. (Len(h) + 1)
    BY <1>2, <2>1, <2>2, AppendEnumerates
  <2> HIDE DEF f
  <2>6. Lists(f, K)
    BY <2>2, <2>5 DEF Lists
  <2>7. Append(u, d[e + 1]) = [j \in 1 .. Len(f) |-> d[f[j]]]
    <3>1. Append(u, d[e + 1]) = [j \in 1 .. (Len(h) + 1) |-> IF j = Len(h) + 1 THEN d[e + 1] ELSE u[j]]
      BY <2>2, <2>4 DEF IsSequence
    <3>2. \A j \in 1 .. (Len(h) + 1) : (IF j = Len(h) + 1 THEN d[e + 1] ELSE u[j]) = d[f[j]]
      <4>1. ASSUME NEW j \in 1 .. (Len(h) + 1)
            PROVE  (IF j = Len(h) + 1 THEN d[e + 1] ELSE u[j]) = d[f[j]]
        <5>1. j = Len(h) + 1 \/ j \in 1 .. Len(h)
          BY <2>2
        <5> QED BY <2>2, <2>3, <2>4, <5>1
      <4> QED BY <4>1
    <3> QED BY <2>5, <3>1, <3>2
  <2>8. FlattenSeq(Append(u, d[e + 1])) = FlattenSeq(u) \o d[e + 1]
    BY <2>4, FlattenAppend
  <2>9. t = FlattenSeq(u)
    BY <1>1 DEF TextsOf, u
  <2>10. TextsOf(d, f) = t \o d[e + 1]
    BY <2>7, <2>8, <2>9 DEF TextsOf
  <2> QED BY <1>4, <2>6, <2>10 DEF TextUpTo, K
<1>5. CASE g[e + 1] # "#text"
  <2>1. K = J
    BY <1>3, <1>5 DEF TextNodes
  <2>2. t \o << >> = t
    BY DEF IsSequence
  <2> QED BY <1>1, <1>5, <2>1, <2>2 DEF TextUpTo
<1> QED BY <1>4, <1>5

\* When the walk ends, no text node of the subtree is left.
LEMMA TextEnd ==
  ASSUME NEW g, NEW m \in Nat, NEW p, NEW k \in 0 .. m, NEW e, At(m, p, k, Null, e)
  PROVE  TextNodes(g, p, k, e) = TextNodes(g, p, k, m)
<1>1. e \in k .. m
  BY DEF At
<1>2. ASSUME NEW c \in 1 .. m, c # k, k \in Span(p, c) PROVE c \in 1 .. e
  <2>1. c \in k .. m
    BY <1>2 DEF Span
  <2>2. c <= e
    <3>1. At(m, p, k, Succ(m, p, k, c), c)
      BY <1>2, <2>1 DEF At
    <3> QED BY <3>1, EndIsLast
  <2> QED BY <1>1, <2>2
<1>3. 1 .. e \subseteq 1 .. m
  BY <1>1
<1> QED BY <1>2, <1>3 DEF TextNodes
\* The text of a paragraph is that of the text nodes below it.
LEMMA ParTextIs ==
  ASSUME tree \in Trees, NEW k \in 1 .. Size, NEW h, Lists(h, TextNodes(Tags, Par, k, Size))
  PROVE  TextsOf(Datas, h) = ParTexts[k]
<1>1. Size \in Nat /\ Nodes = 1 .. Size
  BY TreeFacts
<1> DEFINE J == TextNodes(Tags, Par, k, Size)
<1>2. J \in SUBSET (1 .. Size)
  BY DEF TextNodes
<1>3. \A c \in 1 .. Size : Ancestors(c) = Span(Par, c)
  <2>1. \A c \in 1 .. Size : c \in 0 .. Size
    BY <1>1
  <2> QED BY <2>1, AncestorsAre
<1>4. Below(k, "#text") = InOrder(J)
  <2>1. {c \in Nodes : tree.node[c].tag = "#text" /\ c # k /\ k \in Ancestors(c)} = J
    BY <1>1, <1>3 DEF Tags, TextNodes
  <2> QED BY <2>1 DEF Below
<1>5. Lists(h, J)
  OBVIOUS
<1> HIDE DEF J
<1>6. h = InOrder(J)
  <2>1. Enumerates(InOrder(J), J)
    BY <1>1, <1>2, InOrderEnumerates
  <2>2. Enumerates(h, J)
    BY <1>5 DEF Lists
  <2> QED BY <1>1, <1>2, <2>1, <2>2, EnumerationUnique
<1>7. [j \in DOMAIN h |-> tree.node[h[j]].data] = [j \in 1 .. Len(h) |-> Datas[h[j]]]
  <2>1. DOMAIN h = 1 .. Len(h)
    BY <1>5 DEF Lists
  <2>2. \A j \in 1 .. Len(h) : h[j] \in 1 .. Size
    <3>1. \A j \in DOMAIN h : h[j] \in J
      BY <1>5 DEF Lists, Enumerates
    <3> QED BY <1>2, <2>1, <3>1
  <2>3. \A j \in 1 .. Len(h) : Datas[h[j]] = tree.node[h[j]].data
    BY <2>2 DEF Datas
  <2> QED BY <2>1, <2>3
<1>8. Texts(h) = TextsOf(Datas, h)
  BY <1>7 DEF Texts, TextsOf
<1>9. ParTexts[k] = Texts(Below(k, "#text"))
  BY DEF ParTexts
<1> QED BY <1>4, <1>6, <1>8, <1>9

\* The data of a node is a sequence.
LEMMA DatasAre ==
  ASSUME tree \in Trees
  PROVE  /\ \A c \in 1 .. Size : IsSequence(Datas[c])
         /\ node \in 1 .. Size =>
              Data = IF Tags[node] = "#text" THEN Datas[node] ELSE << >>
<1>1. \A c \in 1 .. Size : IsSequence(tree.node[c].data)
  <2>1. DOMAIN tree.node = 1 .. Size
    BY TreeFacts DEF Nodes
  <2> QED BY <2>1, TreesAssumption
<1>2. \A c \in 1 .. Size : Datas[c] = tree.node[c].data /\ Tags[c] = tree.node[c].tag
  BY DEF Datas, Tags
<1> QED BY <1>1, <1>2 DEF Data

\* Concatenation gives a sequence.
LEMMA Concatenation ==
  ASSUME NEW s, IsSequence(s), NEW t, IsSequence(t)
  PROVE  IsSequence(s \o t)
<1>1. Len(s) \in Nat /\ DOMAIN s = 1 .. Len(s) /\ Len(t) \in Nat /\ DOMAIN t = 1 .. Len(t)
  BY DEF IsSequence
<1> DEFINE S == {s[j] : j \in 1 .. Len(s)} \cup {t[j] : j \in 1 .. Len(t)}
           u == s \o t
<1>2. s \in [1 .. Len(s) -> S] /\ t \in [1 .. Len(t) -> S]
  BY DEF IsSequence
<1> HIDE DEF S
<1>3. s \in Seq(S) /\ t \in Seq(S)
  BY <1>1, <1>2
<1>4. u \in Seq(S)
  BY <1>3
<1> HIDE DEF u
<1>5. Len(u) \in Nat /\ u \in [1 .. Len(u) -> S]
  BY <1>4
<1>6. IsSequence(u)
  BY <1>5 DEF IsSequence
<1> QED BY <1>6 DEF u

\* The empty sequence.
LEMMA EmptySequence ==
  /\ IsSequence(<< >>)
  /\ \A s : IsSequence(s) /\ Len(s) = 0 => s = << >>
BY DEF IsSequence

\* What the second walk copies.
LEMMA CopyStep ==
  ASSUME IInv, CopyInv, Next
  PROVE  CopyInv'
<1>0. /\ Size' = Size /\ Par' = Par /\ Tags' = Tags /\ Datas' = Datas
      /\ tree \in Trees /\ Size \in Nat
  <2>1. tree' = tree
    BY DEF Next, Step, Visit, CollectReturn, ParseMeta, ParseText, TextContentSize,
           TextContentConcatenate, ParseLinks, NextCollection, Finished, vars
  <2> QED BY <2>1, SameMembers, TreeFacts DEF IInv, ShapeInv
<1>1. CASE Visit \/ CollectReturn \/ ParseMeta \/ ParseLinks \/ NextCollection
  <2>1. text' = text /\ pc' # "copy"
    BY <1>1 DEF Visit, CollectReturn, ParseMeta, ParseLinks, HasItem, NextCollection, StartCollect, content
  <2> QED BY <2>1 DEF CopyInv
<1>2. CASE ParseText
  <2>1. text' = << >> /\ pc' = "size"
    BY <1>2 DEF ParseText
  <2> QED BY <2>1, EmptySequence DEF CopyInv
<1>3. CASE TextContentSize
  <2>1. text' = text /\ pc = "size" /\ root \in 1 .. Size /\ Len(text) = 0
    BY <1>3 DEF TextContentSize, IInv, TextInv
  <2>2. CASE node # Null
    <3>1. pc' = "size"
      BY <1>3, <2>2 DEF TextContentSize
    <3> QED BY <2>1, <3>1 DEF CopyInv
  <2>3. CASE node = Null
    <3>1. Begin(root)
      BY <1>3, <2>3 DEF TextContentSize
    <3>2. root' = root /\ At(Size, Par, root', node', root) /\ root \in 0 .. Size
      BY <1>0, <2>1, <3>1, WalkStart
    <3>3. TextNodes(Tags, Par, root, root) = {}
      BY <2>1 DEF TextNodes, Span
    <3>4. Lists(<< >>, {})
      <4>1. Tagged(Tags, tag, 0) = {}
        BY DEF Tagged
      <4>2. Enumerates(<< >>, {})
        BY <4>1, StartEmpty
      <4> QED BY <4>2 DEF Lists
    <3>5. TextsOf(Datas, << >>) = << >>
      <4>1. Len([j \in 1 .. 0 |-> Datas[<< >>[j]]]) = 0 /\ [j \in 1 .. 0 |-> Datas[<< >>[j]]] = << >>
        OBVIOUS
      <4>2. Len(<< >>) = 0
        OBVIOUS
      <4> QED BY <4>1, <4>2 DEF TextsOf, FlattenSeq
    <3>6. text = << >>
      BY <2>1, EmptySequence DEF CopyInv
    <3>7. TextUpTo(Tags, Par, Datas, root, root, text)
      BY <3>3, <3>4, <3>5, <3>6 DEF TextUpTo
    <3> QED BY <1>0, <2>1, <3>2, <3>7 DEF CopyInv
  <2> QED BY <2>2, <2>3
<1>4. CASE TextContentConcatenate
  <2>1. pc = "copy" /\ root \in 1 .. Size /\ root \in 0 .. Size /\ root \in Nat
    BY <1>4 DEF TextContentConcatenate, IInv, TextInv
  <2>2. PICK e \in 0 .. Size : At(Size, Par, root, node, e) /\ TextUpTo(Tags, Par, Datas, root, e, text)
    BY <2>1 DEF CopyInv
  <2>3. CASE node # Null
    <3>1. pc' = "copy" /\ text' = text \o Data /\ Advance
      BY <1>4, <2>3 DEF TextContentConcatenate
    <3>2. /\ node = e + 1 /\ node \in 1 .. Size /\ root' = root
          /\ At(Size, Par, root', node', node)
      BY <1>0, <2>1, <2>2, <2>3, <3>1, WalkOn
    <3>3. root < e + 1 /\ root \in Span(Par, e + 1)
      BY <1>0, <2>1, <2>2, <2>3, <3>2, NextAt
    <3>4. IsSequence(Datas[e + 1]) /\ Data = IF Tags[e + 1] = "#text" THEN Datas[e + 1] ELSE << >>
      BY <1>0, <3>2, DatasAre
    <3>5. IsSequence(text) /\ IsSequence(Data)
      BY <3>4, EmptySequence DEF CopyInv
    <3>6. TextUpTo(Tags, Par, Datas, root, e + 1, text \o (IF Tags[e + 1] = "#text" THEN Datas[e + 1] ELSE << >>))
      <4>1. e \in Nat
        OBVIOUS
      <4> QED BY <2>1, <2>2, <3>3, <3>4, <3>5, <4>1, TextNext
    <3>7. TextUpTo(Tags, Par, Datas, root, node, text')
      BY <3>1, <3>2, <3>4, <3>6
    <3>8. IsSequence(text')
      BY <3>1, <3>5, Concatenation
    <3>9. node \in 0 .. Size
      BY <3>2
    <3> QED BY <1>0, <3>2, <3>7, <3>8, <3>9 DEF CopyInv
  <2>4. CASE node = Null
    <3>1. pc' = "items" /\ text' = text
      BY <1>4, <2>4 DEF TextContentConcatenate
    <3> QED BY <3>1 DEF CopyInv
  <2> QED BY <2>3, <2>4
<1>5. CASE Finished
  BY <1>0, <1>5 DEF CopyInv, Finished, vars, walk, content
<1> QED BY <1>1, <1>2, <1>3, <1>4, <1>5 DEF Next, Step

\* No paragraphs, and one more.
LEMMA ParasStart ==
  ASSUME NEW T, NEW l
  PROVE  Paras(T, l, 1) = << >>
<1>1. [q \in 1 .. (1 - 1) |-> T[l[q]]] = << >> /\ Len(<< >>) = 0
  OBVIOUS
<1> QED BY <1>1 DEF Paras, FlattenSeq

\* One more paragraph.
LEMMA ParasNext ==
  ASSUME NEW T, NEW l, NEW j \in Nat \ {0}, IsSequence(T[l[j]])
  PROVE  Paras(T, l, j + 1) = Paras(T, l, j) \o T[l[j]]
<1> DEFINE u == [q \in 1 .. (j - 1) |-> T[l[q]]]
           v == [q \in 1 .. ((j + 1) - 1) |-> T[l[q]]]
<1>1. Len(u) = j - 1 /\ DOMAIN u = 1 .. (j - 1) /\ j - 1 \in Nat
  OBVIOUS
<1>2. IsSequence(u)
  BY <1>1 DEF IsSequence
<1>3. Append(u, T[l[j]]) = v
  <2>1. (j + 1) - 1 = j /\ (j - 1) + 1 = j
    OBVIOUS
  <2> QED BY <1>1, <2>1
<1> HIDE DEF u, v
<1>4. FlattenSeq(Append(u, T[l[j]])) = FlattenSeq(u) \o T[l[j]]
  BY <1>2, FlattenAppend
<1>5. Paras(T, l, j) = FlattenSeq(u) /\ Paras(T, l, j + 1) = FlattenSeq(v)
  BY DEF Paras, u, v
<1> QED BY <1>3, <1>4, <1>5

\* The texts of the paragraphs.
LEMMA ParasStep ==
  ASSUME IInv, MeasuredTwice, LoopInv, CopyInv, ParasInv, Next
  PROVE  ParasInv'
<1>0. /\ Size' = Size /\ Tags' = Tags /\ ParTexts' = ParTexts
      /\ tree \in Trees /\ Size \in Nat /\ Len(list) \in Nat /\ i \in Nat \ {0}
  <2>1. tree' = tree
    BY DEF Next, Step, Visit, CollectReturn, ParseMeta, ParseText, TextContentSize,
           TextContentConcatenate, ParseLinks, NextCollection, Finished, vars
  <2> QED BY <2>1, SameMembers, TreeFacts DEF IInv, ShapeInv
<1>1. CASE Visit \/ CollectReturn
  <2>1. tag' = tag /\ text_' = text_ /\ i' = 1 /\ i = 1
    BY <1>1 DEF Visit, CollectReturn, LoopInv, fields
  <2>2. Paras(ParTexts, list, 1) = << >> /\ Paras(ParTexts, list', 1) = << >>
    BY ParasStart
  <2> QED BY <1>0, <2>1, <2>2 DEF ParasInv
<1>2. CASE ParseMeta \/ ParseLinks
  <2>1. tag' = tag /\ text_' = text_ /\ tag # "p"
    BY <1>2 DEF ParseMeta, ParseLinks
  <2> QED BY <1>0, <2>1 DEF ParasInv
<1>3. CASE ParseText \/ TextContentSize \/ (TextContentConcatenate /\ node # Null)
  <2>1. tag' = tag /\ text_' = text_ /\ list' = list /\ i' = i
    BY <1>3 DEF ParseText, TextContentSize, TextContentConcatenate, collection, fields
  <2> QED BY <1>0, <2>1 DEF ParasInv
<1>4. CASE TextContentConcatenate /\ node = Null
  <2>1. /\ tag' = tag /\ list' = list /\ i' = i + 1 /\ pc = "copy"
        /\ text_' = text_ \o SubSeq(text, 1, length)
    BY <1>4 DEF TextContentConcatenate, collection
  <2>2. tag = "p" /\ root = list[i] /\ root \in 1 .. Size /\ root \in 0 .. Size
    BY <2>1 DEF LoopInv, IInv, TextInv
  <2>3. SubSeq(text, 1, length) = text
    <3>1. Len(text) = length /\ IsSequence(text)
      BY <1>4, <2>1 DEF MeasuredTwice, CopyInv
    <3>2. SubSeq(text, 1, Len(text)) = [q \in 1 .. Len(text) |-> text[q]]
      BY <3>1 DEF IsSequence
    <3> QED BY <3>1, <3>2 DEF IsSequence
  <2>4. text = ParTexts[root]
    <3>1. PICK e \in 0 .. Size : At(Size, Par, root, Null, e) /\ TextUpTo(Tags, Par, Datas, root, e, text)
      BY <1>4, <2>1 DEF CopyInv
    <3>2. TextNodes(Tags, Par, root, e) = TextNodes(Tags, Par, root, Size)
      BY <1>0, <2>2, <3>1, TextEnd
    <3>3. PICK h : Lists(h, TextNodes(Tags, Par, root, Size)) /\ text = TextsOf(Datas, h)
      BY <3>1, <3>2 DEF TextUpTo
    <3> QED BY <1>0, <2>2, <3>3, ParTextIs
  <2>5. Paras(ParTexts, list, i + 1) = Paras(ParTexts, list, i) \o ParTexts[list[i]]
    <3>1. IsSequence(ParTexts[list[i]])
      BY <2>2, <2>4 DEF CopyInv
    <3> QED BY <1>0, <3>1, ParasNext
  <2>6. text_ = Paras(ParTexts, list, i)
    BY <2>2 DEF ParasInv
  <2>7. text_' = Paras(ParTexts, list, i + 1)
    BY <2>1, <2>2, <2>3, <2>4, <2>5, <2>6
  <2> QED BY <1>0, <2>1, <2>2, <2>7 DEF ParasInv
<1>5. CASE NextCollection
  <2>1. /\ tag' = NextTag /\ text_' = text_ /\ pc = "items" /\ i' = 1
        /\ (i > Len(list) \/ tag = "related")
    BY <1>5 DEF NextCollection, StartCollect, fields
  <2>2. CASE tag = "meta"
    <3>1. tag' = "p" /\ text_ = << >>
      BY <2>1, <2>2 DEF NextTag, ParasInv
    <3>2. Paras(ParTexts, list', 1) = << >>
      BY ParasStart
    <3> QED BY <1>0, <2>1, <3>1, <3>2 DEF ParasInv
  <2>3. CASE tag = "p"
    <3>1. tag' = "related" /\ i = Len(list) + 1
      BY <1>0, <2>1, <2>3 DEF NextTag, LoopInv
    <3>2. Lists(list, Tagged(Tags, "p", Size)) /\ text_ = Paras(ParTexts, list, Len(list) + 1)
      BY <2>1, <2>3, <3>1, ListIs DEF ParasInv
    <3> QED BY <1>0, <2>1, <3>1, <3>2 DEF ParasInv
  <2>4. CASE tag \notin {"meta", "p"}
    <3>1. tag' \notin {"meta", "p"}
      BY <2>1, <2>4 DEF NextTag
    <3> QED BY <1>0, <2>1, <2>4, <3>1 DEF ParasInv
  <2> QED BY <2>2, <2>3, <2>4
<1>6. CASE Finished
  BY <1>0, <1>6 DEF ParasInv, Finished, vars, walk, collection, fields
<1> QED BY <1>1, <1>2, <1>3, <1>4, <1>5, <1>6 DEF Next, Step

\* Before the first element.
LEMMA InitMembers == Init => MembersInv
<1> SUFFICES ASSUME Init PROVE MembersInv
  OBVIOUS
<1>1. LoopInv
  BY DEF Init, LoopInv
<1>2. CopyInv
  BY EmptySequence DEF Init, CopyInv
<1>3. MetaInv
  <2>1. SeenItems(list, 1) = {}
    BY DEF SeenItems
  <2>2. MetaOf(Props, Conts, {}) = << >>
    <3>1. {Props[m] : m \in {c \in {} : Props[c] # NoValue}} = {}
      OBVIOUS
    <3>2. DOMAIN MetaOf(Props, Conts, {}) = {}
      BY <3>1 DEF MetaOf
    <3>3. MetaOf(Props, Conts, {}) = [key \in {} |-> Conts[Max({m \in {} : Props[m] = key})]]
      BY <3>1 DEF MetaOf
    <3> QED BY <3>3
  <2> QED BY <2>1, <2>2 DEF Init, MetaInv
<1> QED BY <1>1, <1>2, <1>3 DEF MembersInv, Init, ParasInv, LinksInv

\* Every step keeps it.
LEMMA NextMembers == IInv /\ MeasuredTwice /\ MembersInv /\ [Next]_vars => MembersInv'
<1> SUFFICES ASSUME IInv, MeasuredTwice, MembersInv, [Next]_vars PROVE MembersInv'
  OBVIOUS
<1>1. CASE Next
  BY <1>1, LoopStep, CopyStep, MetaStep, ParasStep, LinksStep DEF MembersInv
<1>2. CASE UNCHANGED vars
  <2>1. /\ UNCHANGED <<tree, tag, pc, root, node, list, size, i, length, text, meta_, text_, related_links_>>
        /\ Size' = Size /\ Par' = Par /\ Tags' = Tags
        /\ Props' = Props /\ Conts' = Conts /\ Hrefs' = Hrefs /\ Datas' = Datas
        /\ ParTexts' = ParTexts
    BY <1>2, SameMembers DEF vars, walk, collection, content, fields
  <2> QED BY <2>1 DEF MembersInv, LoopInv, CopyInv, MetaInv, ParasInv, LinksInv
<1> QED BY <1>1, <1>2
\* A list of a set is its elements in order.
LEMMA ListUnique ==
  ASSUME NEW n \in Nat, NEW J \in SUBSET (1 .. n), NEW l, Lists(l, J)
  PROVE  l = InOrder(J)
<1>1. Enumerates(InOrder(J), J) /\ Enumerates(l, J)
  BY InOrderEnumerates DEF Lists
<1> QED BY <1>1, EnumerationUnique

\* Whatever the tree, the members of a parsed document are what it says: the
\* last value of every property, the texts of all paragraphs in order, and the
\* targets of all links if there is a related element (html_parse.hpp:145-193).
THEOREM MembersSayDocument == Spec => []FieldsExact
<1>1. ASSUME IInv, MembersInv, pc = "done" PROVE meta_ = RefMeta /\ text_ = RefText /\ related_links_ = RefLinks
  <2>1. tree \in Trees /\ Size \in Nat /\ Nodes = 1 .. Size /\ tag = "none"
    BY <1>1, TreeFacts DEF IInv, ShapeInv, MembersInv, LoopInv
  <2>2. meta_ = RefMeta
    <3> DEFINE N == Tagged(Tags, "meta", Size)
    <3>1. meta_ = MetaOf(Props, Conts, N)
      BY <1>1, <2>1 DEF MembersInv, MetaInv
    <3>2. Metas = {c \in N : Props[c] # NoValue}
      BY <2>1 DEF Metas, Tagged, Tags, Props
    <3>3. \A m \in Metas : m \in 1 .. Size /\ Props[m] = tree.node[m].property
      BY <2>1 DEF Metas, Props
    <3>4. {tree.node[m].property : m \in Metas} = {Props[m] : m \in {c \in N : Props[c] # NoValue}}
      BY <3>2, <3>3
    <3>5. ASSUME NEW key \in {Props[m] : m \in {c \in N : Props[c] # NoValue}}
          PROVE  tree.node[Max({m \in Metas : tree.node[m].property = key})].content
                   = Conts[Max({m \in N : Props[m] = key})]
      <4>1. key # NoValue
        OBVIOUS
      <4>2. {m \in Metas : tree.node[m].property = key} = {m \in N : Props[m] = key}
        BY <3>2, <3>3, <4>1
      <4> DEFINE Q == {m \in N : Props[m] = key}
      <4>3. Q \in SUBSET (0 .. Size) /\ Q # {} /\ Q \in SUBSET (1 .. Size)
        BY <2>1 DEF Tagged
      <4>4. Max(Q) \in 1 .. Size
        <5> HIDE DEF Q
        <5>1. PICK x \in Q : \A y \in Q : y <= x
          BY <2>1, <4>3, Greatest
        <5>2. Q \in SUBSET Int
          BY <4>3
        <5>3. Max(Q) = x
          BY <5>1, <5>2, MaxIs
        <5> QED BY <4>3, <5>3
      <4>5. Conts[Max(Q)] = tree.node[Max(Q)].content
        <5> HIDE DEF Q
        <5> QED BY <4>4 DEF Conts
      <4> QED BY <4>2, <4>5
    <3> QED BY <3>1, <3>4, <3>5 DEF RefMeta, MetaOf
  <2>3. text_ = RefText
    <3>1. PICK l : Lists(l, Tagged(Tags, "p", Size)) /\ text_ = Paras(ParTexts, l, Len(l) + 1)
      BY <1>1, <2>1 DEF MembersInv, ParasInv
    <3> DEFINE J == Tagged(Tags, "p", Size)
    <3>2. J \in SUBSET (1 .. Size) /\ Lists(l, J) /\ Below(Document, "p") = InOrder(J)
      BY <2>1, <3>1, BelowDocument DEF Tagged
    <3> HIDE DEF J
    <3>3. Below(Document, "p") = l
      BY <2>1, <3>2, ListUnique
    <3>4. /\ DOMAIN l = 1 .. Len(l) /\ Len(l) \in Nat /\ (Len(l) + 1) - 1 = Len(l)
          /\ \A j \in 1 .. Len(l) : l[j] \in 1 .. Size
      <4>1. DOMAIN l = 1 .. Len(l) /\ Len(l) \in Nat
        BY <3>2 DEF Lists
      <4>2. \A j \in DOMAIN l : l[j] \in J
        BY <3>2 DEF Lists, Enumerates
      <4>3. \A j \in 1 .. Len(l) : l[j] \in J
        BY <4>1, <4>2
      <4>4. \A j \in 1 .. Len(l) : l[j] \in 1 .. Size
        BY <3>2, <4>3
      <4>5. (Len(l) + 1) - 1 = Len(l)
        BY <4>1
      <4> QED BY <4>1, <4>4, <4>5
    <3>5. \A j \in 1 .. Len(l) : ParTexts[l[j]] = Texts(Below(l[j], "#text"))
      BY <3>4 DEF ParTexts
    <3>6. [q \in 1 .. ((Len(l) + 1) - 1) |-> ParTexts[l[q]]]
            = [j \in DOMAIN Below(Document, "p") |-> Texts(Below(Below(Document, "p")[j], "#text"))]
      BY <3>3, <3>4, <3>5
    <3> QED BY <3>1, <3>6 DEF Paras, RefText
  <2>4. related_links_ = RefLinks
    <3> DEFINE R == Tagged(Tags, "related", Size)
               A == {a \in Nodes : tree.node[a].tag = "a" /\ HasHref(tree.node[a])}
    <3>1. Below(Document, "related") = << >> <=> R = {}
      <4>1. R \in SUBSET (1 .. Size) /\ Below(Document, "related") = InOrder(R)
        BY <2>1, BelowDocument DEF Tagged
      <4> HIDE DEF R
      <4>2. Enumerates(InOrder(R), R) /\ Cardinality(R) \in Nat
        BY <2>1, <4>1, InOrderEnumerates, Positions
      <4>3. InOrder(R) = << >> <=> R = {}
        <5>1. R = {} => InOrder(R) \in [1 .. 0 -> {}]
          BY <4>2, FS_EmptySet DEF Enumerates
        <5>2. R = {} => InOrder(R) = << >>
          BY <5>1
        <5>3. InOrder(R) = << >> => R = {}
          <6>1. DOMAIN InOrder(R) = 1 .. Cardinality(R) /\ \A x \in R : 1 .. Cardinality(R) # {}
            BY <4>2 DEF Enumerates
          <6> QED BY <6>1
        <5> QED BY <5>2, <5>3
      <4> QED BY <4>1, <4>3
    <3>2. A = {c \in Tagged(Tags, "a", Size) : Hrefs[c] # NoValue}
      BY <2>1 DEF Tagged, Tags, Hrefs, HasHref
    <3>3. CASE R = {}
      BY <1>1, <2>1, <3>1, <3>3 DEF MembersInv, LinksInv, RefLinks
    <3>4. CASE R # {}
      <4>1. PICK h : Lists(h, A) /\ related_links_ = [j \in 1 .. Len(h) |-> Hrefs[h[j]]]
        BY <1>1, <2>1, <3>2, <3>4 DEF MembersInv, LinksInv, LinksOf
      <4>2. A \in SUBSET (1 .. Size)
        BY <2>1
      <4>3. RefLinks = [j \in DOMAIN InOrder(A) |-> tree.node[InOrder(A)[j]].href]
        BY <3>1, <3>4 DEF RefLinks
      <4> HIDE DEF A
      <4>4. h = InOrder(A)
        BY <2>1, <4>1, <4>2, ListUnique
      <4>5. DOMAIN h = 1 .. Len(h) /\ \A j \in 1 .. Len(h) : h[j] \in 1 .. Size
        BY <4>1, <4>2 DEF Lists, Enumerates
      <4>6. \A j \in 1 .. Len(h) : Hrefs[h[j]] = tree.node[h[j]].href
        BY <4>5 DEF Hrefs
      <4> QED BY <4>1, <4>3, <4>4, <4>5, <4>6
    <3> QED BY <3>3, <3>4
  <2> QED BY <2>2, <2>3, <2>4
<1>2. IInv /\ MembersInv => FieldsExact
  BY <1>1 DEF FieldsExact
<1>3. Spec => []MembersInv
  BY InitMembers, NextMembers, IInvHolds, CopiesWhatItMeasured, PTL DEF Spec
<1> QED BY <1>2, <1>3, IInvHolds, PTL

-----------------------------------------------------------------------------
\* The handles are typed, and every resource has one owner.
OwnerInv == TypeOK /\ OwnedOnce

\* The initial state owns nothing.
LEMMA InitOwner == HDInit => OwnerInv
  <1> SUFFICES ASSUME HDInit PROVE OwnerInv
    OBVIOUS
  <1>1. \A o \in Objects : obj[o].document = 0 /\ obj[o].html = 0
    BY DEF HDInit, Empty
  <1>2. /\ DOMAIN obj = Objects /\ live = {} /\ documents = {} /\ buffers = {}
        /\ parsed = 0 /\ status = "running"
    BY DEF HDInit
  <1>3. QED
    BY <1>1, <1>2 DEF OwnerInv, TypeOK, OwnedOnce, Running

\* Every operation of the class keeps the resources owned by one object each.
LEMMA StepOwner == OwnerInv /\ [HDNext]_HDvars => OwnerInv'
  <1> SUFFICES ASSUME OwnerInv, [HDNext]_HDvars PROVE OwnerInv'
    OBVIOUS
  <1>0. TypeOK /\ OwnedOnce
    BY DEF OwnerInv
  <1>1. ASSUME NEW o \in Objects, ConstructDefault(o) PROVE OwnerInv'
    <2>1. /\ DOMAIN obj' = Objects
          /\ \A x \in Objects :
               /\ obj'[x].document = IF x = o THEN 0 ELSE obj[x].document
               /\ obj'[x].html = IF x = o THEN 0 ELSE obj[x].html
      BY <1>0, <1>1 DEF TypeOK, ConstructDefault, Empty
    <2>2. o \notin live /\ live' = live \cup {o} /\ UNCHANGED <<documents, buffers, parsed, status>>
      BY <1>1 DEF ConstructDefault, Empty
    <2>3. QED
      BY <1>0, <1>1, <2>1, <2>2 DEF OwnerInv, TypeOK, OwnedOnce, Running
  <1>2. ASSUME NEW o \in Objects, Destroy(o) PROVE OwnerInv'
    <2>1. /\ DOMAIN obj' = Objects
          /\ \A x \in Objects :
               /\ obj'[x].document = IF x = o THEN 0 ELSE obj[x].document
               /\ obj'[x].html = IF x = o THEN 0 ELSE obj[x].html
      BY <1>0, <1>2 DEF TypeOK, Destroy, Empty, Frees, FreesBuffer
    <2>2. /\ o \in live /\ live' = live \ {o} /\ UNCHANGED <<parsed, status>>
          /\ documents' = {h \in documents : ~ (obj[o].document # 0 /\ h = obj[o].document)}
          /\ buffers' = {h \in buffers : ~ (obj[o].document # 0 /\ h = obj[o].html)}
      BY <1>2 DEF Destroy, Empty, Frees, FreesBuffer
    <2>3. TypeOK'
      <3>1. documents' \subseteq 1 .. parsed' /\ buffers' \subseteq 1 .. parsed'
        BY <1>0, <2>2 DEF TypeOK
      <3>2. \A x \in Objects : obj'[x].document \in 0 .. parsed' /\ obj'[x].html \in 0 .. parsed'
        BY <1>0, <2>1, <2>2 DEF TypeOK
      <3>3. QED
        BY <1>0, <2>1, <2>2, <3>1, <3>2 DEF TypeOK
    <2>4. /\ \A x \in Objects : obj'[x].html = obj'[x].document
          /\ \A x \in Objects \ live' : obj'[x].document = 0
      BY <1>0, <2>1, <2>2 DEF OwnedOnce
    <2>5. ASSUME NEW x \in live', obj'[x].document # 0
          PROVE  obj'[x].document \in documents' /\ obj'[x].document \in buffers'
      BY <1>0, <2>1, <2>2, <2>5 DEF TypeOK, OwnedOnce
    <2>6. ASSUME NEW x \in live', NEW y \in live', x # y, obj'[x].document # 0
          PROVE  obj'[x].document # obj'[y].document
      BY <1>0, <2>1, <2>2, <2>6 DEF TypeOK, OwnedOnce
    <2>7. ASSUME Running', NEW h \in (documents \cup buffers)'
          PROVE  \E x \in live' : obj'[x].document = h
      <3>1. h \in documents \cup buffers /\ (obj[o].document # 0 => h # obj[o].document)
        BY <1>0, <2>2 DEF OwnedOnce, TypeOK
      <3>2. PICK x \in live : obj[x].document = h
        BY <1>0, <3>1, <2>7, <2>2 DEF OwnedOnce, Running
      <3>3. x # o /\ x \in Objects
        BY <1>0, <3>1, <3>2 DEF TypeOK
      <3>4. QED
        BY <2>1, <2>2, <3>2, <3>3
    <2>8. QED
      BY <2>3, <2>4, <2>5, <2>6, <2>7 DEF OwnerInv, OwnedOnce
  <1>3. ASSUME NEW d \in Objects, NEW f \in Files, AssignFile(d, f) PROVE OwnerInv'
    <2>1. /\ DOMAIN obj' = Objects
          /\ \A x \in Objects :
               /\ obj'[x].document = IF x = d THEN parsed + 1 ELSE obj[x].document
               /\ obj'[x].html = IF x = d THEN parsed + 1 ELSE obj[x].html
      BY <1>0, <1>3 DEF TypeOK, AssignFile, FromFile, Frees, FreesBuffer
    <2>2. /\ d \in live /\ UNCHANGED <<live, status>> /\ parsed' = parsed + 1
          /\ documents' = {h \in documents : ~ (obj[d].document # 0 /\ h = obj[d].document)} \cup {parsed + 1}
          /\ buffers' = {h \in buffers : ~ (obj[d].document # 0 /\ h = obj[d].html)} \cup {parsed + 1}
      BY <1>3 DEF AssignFile, FromFile, Frees, FreesBuffer
    <2>3. TypeOK'
      <3>1. parsed' \in Nat /\ 1 .. parsed \subseteq 1 .. parsed' /\ parsed + 1 \in 1 .. parsed'
        BY <1>0, <2>2 DEF TypeOK
      <3>2. documents' \subseteq 1 .. parsed' /\ buffers' \subseteq 1 .. parsed'
        <4>1. documents' \subseteq documents \cup {parsed + 1} /\ buffers' \subseteq buffers \cup {parsed + 1}
          BY <2>2
        <4>2. QED
          BY <1>0, <3>1, <4>1 DEF TypeOK
      <3>3. \A x \in Objects : obj'[x].document \in 0 .. parsed' /\ obj'[x].html \in 0 .. parsed'
        BY <1>0, <2>1, <2>2 DEF TypeOK
      <3>4. QED
        BY <1>0, <2>1, <2>2, <3>1, <3>2, <3>3 DEF TypeOK
    <2>4. /\ \A x \in Objects : obj'[x].html = obj'[x].document
          /\ \A x \in Objects \ live' : obj'[x].document = 0
      BY <1>0, <2>1, <2>2 DEF OwnedOnce
    <2>5. ASSUME NEW x \in live', obj'[x].document # 0
          PROVE  obj'[x].document \in documents' /\ obj'[x].document \in buffers'
      BY <1>0, <2>1, <2>2, <2>5 DEF TypeOK, OwnedOnce
    <2>6. ASSUME NEW x \in live', NEW y \in live', x # y, obj'[x].document # 0
          PROVE  obj'[x].document # obj'[y].document
      BY <1>0, <2>1, <2>2, <2>6 DEF TypeOK, OwnedOnce
    <2>7. ASSUME Running', NEW h \in (documents \cup buffers)'
          PROVE  \E x \in live' : obj'[x].document = h
      <3>1. CASE h = parsed + 1
        BY <1>0, <2>1, <2>2, <3>1 DEF TypeOK
      <3>2. CASE h # parsed + 1
        <4>1. h \in documents \cup buffers /\ (obj[d].document # 0 => h # obj[d].document)
          BY <1>0, <2>2, <3>2 DEF OwnedOnce, TypeOK
        <4>2. PICK x \in live : obj[x].document = h
          BY <1>0, <4>1, <2>7, <2>2 DEF OwnedOnce, Running
        <4>3. x # d /\ x \in Objects
          BY <1>0, <4>1, <4>2 DEF TypeOK
        <4>4. QED
          BY <2>1, <2>2, <4>2, <4>3
      <3>3. QED
        BY <3>1, <3>2
    <2>8. QED
      BY <2>3, <2>4, <2>5, <2>6, <2>7 DEF OwnerInv, OwnedOnce
  <1>4. ASSUME NEW f \in Files, ReadThrows(f) PROVE OwnerInv'
    <2>1. /\ DOMAIN obj' = Objects
          /\ \A x \in Objects :
               obj'[x].document = obj[x].document /\ obj'[x].html = obj[x].html
      BY <1>0, <1>4 DEF TypeOK, ReadThrows
    <2>2. /\ UNCHANGED <<live, buffers>> /\ parsed' = parsed + 1
          /\ documents' = documents \cup {parsed + 1} /\ status' = "terminated"
      BY <1>4 DEF ReadThrows
    <2>3. QED
      BY <1>0, <1>4, <2>1, <2>2 DEF OwnerInv, TypeOK, OwnedOnce, Running
  <1>5. ASSUME NEW o \in Objects, NEW s \in Objects, MoveConstruct(o, s) PROVE OwnerInv'
    <2>1. /\ DOMAIN obj' = Objects
          /\ \A x \in Objects :
               /\ obj'[x].document = IF x = o THEN obj[s].document
                                     ELSE IF x = s THEN 0 ELSE obj[x].document
               /\ obj'[x].html = IF x = o THEN obj[s].html
                                 ELSE IF x = s THEN 0 ELSE obj[x].html
      BY <1>0, <1>5 DEF TypeOK, MoveConstruct, Empty
    <2>2. /\ o \notin live /\ s \in live /\ live' = live \cup {o}
          /\ UNCHANGED <<documents, buffers, parsed, status>>
      BY <1>5 DEF MoveConstruct, Empty
    <2>3. QED
      BY <1>0, <1>5, <2>1, <2>2 DEF OwnerInv, TypeOK, OwnedOnce, Running
  <1>6. ASSUME NEW d \in Objects, NEW s \in Objects, Assign(d, s) PROVE OwnerInv'
    <2>1. /\ DOMAIN obj' = Objects
          /\ \A x \in Objects :
               /\ obj'[x].document = IF x = d THEN obj[s].document
                                     ELSE IF x = s THEN 0 ELSE obj[x].document
               /\ obj'[x].html = IF x = d THEN obj[s].html
                                 ELSE IF x = s THEN 0 ELSE obj[x].html
      BY <1>0, <1>6 DEF TypeOK, Assign, Empty, Frees, FreesBuffer
    <2>2. /\ d \in live /\ s \in live /\ UNCHANGED <<live, parsed, status>>
          /\ documents' = {h \in documents : d = s \/ ~ (obj[d].document # 0 /\ h = obj[d].document)}
          /\ buffers' = {h \in buffers : d = s \/ ~ (obj[d].document # 0 /\ h = obj[d].html)}
      BY <1>6 DEF Assign, Empty, Frees, FreesBuffer
    <2>3. TypeOK'
      <3>1. documents' \subseteq 1 .. parsed' /\ buffers' \subseteq 1 .. parsed'
        BY <1>0, <2>2 DEF TypeOK
      <3>2. \A x \in Objects : obj'[x].document \in 0 .. parsed' /\ obj'[x].html \in 0 .. parsed'
        BY <1>0, <2>1, <2>2 DEF TypeOK
      <3>3. QED
        BY <1>0, <2>1, <2>2, <3>1, <3>2 DEF TypeOK
    <2>4. /\ \A x \in Objects : obj'[x].html = obj'[x].document
          /\ \A x \in Objects \ live' : obj'[x].document = 0
      BY <1>0, <2>1, <2>2 DEF OwnedOnce
    <2>5. ASSUME NEW x \in live', obj'[x].document # 0
          PROVE  obj'[x].document \in documents' /\ obj'[x].document \in buffers'
      BY <1>0, <2>1, <2>2, <2>5 DEF TypeOK, OwnedOnce
    <2>6. ASSUME NEW x \in live', NEW y \in live', x # y, obj'[x].document # 0
          PROVE  obj'[x].document # obj'[y].document
      BY <1>0, <2>1, <2>2, <2>6 DEF TypeOK, OwnedOnce
    <2>7. ASSUME Running', NEW h \in (documents \cup buffers)'
          PROVE  \E x \in live' : obj'[x].document = h
      <3>1. h \in documents \cup buffers /\ (d # s /\ obj[d].document # 0 => h # obj[d].document)
        BY <1>0, <2>2 DEF OwnedOnce, TypeOK
      <3>2. PICK x \in live : obj[x].document = h
        BY <1>0, <3>1, <2>7, <2>2 DEF OwnedOnce, Running
      <3>3. x \in Objects /\ (x = d => x = s)
        BY <1>0, <3>1, <3>2 DEF TypeOK
      <3>4. CASE x = s
        BY <2>1, <2>2, <3>2, <3>4
      <3>5. CASE x # s
        BY <2>1, <2>2, <3>2, <3>3, <3>5
      <3>6. QED
        BY <3>4, <3>5
    <2>8. QED
      BY <2>3, <2>4, <2>5, <2>6, <2>7 DEF OwnerInv, OwnedOnce
  <1>7. ASSUME NEW o \in Objects, NEW key \in {"lang", "is_news"}, SetMeta(o, key) PROVE OwnerInv'
    <2>1. /\ DOMAIN obj' = Objects
          /\ \A x \in Objects :
               obj'[x].document = obj[x].document /\ obj'[x].html = obj[x].html
      BY <1>0, <1>7 DEF TypeOK, SetMeta
    <2>2. UNCHANGED <<live, documents, buffers, parsed, status>>
      BY <1>7 DEF SetMeta
    <2>3. QED
      BY <1>0, <1>7, <2>1, <2>2 DEF OwnerInv, TypeOK, OwnedOnce, Running
  <1>8. CASE UNCHANGED HDvars
    BY <1>0, <1>8 DEF OwnerInv, TypeOK, OwnedOnce, Running, HDvars
  <1>9. QED
    BY <1>1, <1>2, <1>3, <1>4, <1>5, <1>6, <1>7, <1>8 DEF HDNext, Stopped

\* The fields of every object belong together, the path included: what PathIdentifiesFile
\* says of the live objects, with the domains its functions are applied in.
FieldsInv ==
  \A o \in Objects :
    IF obj[o].document = 0
    THEN "path" \notin DOMAIN obj[o].meta /\ obj[o].text = NoText
    ELSE /\ obj[o].document \in DOMAIN source /\ "path" \in DOMAIN obj[o].meta
         /\ obj[o].meta["path"] = source[obj[o].document]
         /\ obj[o].text = source[obj[o].document]

\* The objects start without a path.
LEMMA InitFields == HDInit => FieldsInv
  <1> SUFFICES ASSUME HDInit, NEW o \in Objects
               PROVE  obj[o].document = 0 /\ "path" \notin DOMAIN obj[o].meta /\ obj[o].text = NoText
    BY DEF FieldsInv
  <1>1. obj[o].document = 0 /\ obj[o].meta = << >> /\ obj[o].text = NoText
    BY DEF HDInit, Empty, NoMeta
  <1>2. QED
    BY <1>1

\* An operation moves all fields of an object together, and no stage sets "path".
LEMMA StepFields == TypeOK /\ FieldsInv /\ [HDNext]_HDvars => FieldsInv'
  <1> SUFFICES ASSUME TypeOK, FieldsInv, [HDNext]_HDvars PROVE FieldsInv'
    OBVIOUS
  <1>0. DOMAIN obj = Objects /\ parsed \in Nat /\ \A o \in Objects : obj[o].document \in 0 .. parsed
    BY DEF TypeOK
  <1>1. ASSUME UNCHANGED source, DOMAIN obj' = Objects,
               \A x \in Objects : obj'[x] = Empty \/ \E y \in Objects : obj'[x] = obj[y]
        PROVE  FieldsInv'
    BY <1>1 DEF FieldsInv, Empty, NoMeta
  <1>2. ASSUME NEW d \in Objects, NEW f \in Files, AssignFile(d, f) PROVE FieldsInv'
    <2>1. /\ obj' = [obj EXCEPT ![d] = FromFile(f)]
          /\ source' = With(source, parsed + 1, f)
      BY <1>2 DEF AssignFile
    <2>2. ASSUME NEW x \in Objects, x # d
          PROVE  obj'[x] = obj[x] /\ (obj[x].document # 0 => obj[x].document # parsed + 1)
      BY <1>0, <2>1, <2>2
    <2>3. /\ DOMAIN source' = DOMAIN source \cup {parsed + 1} /\ source'[parsed + 1] = f
          /\ \A h \in DOMAIN source : h # parsed + 1 => source'[h] = source[h]
      BY <2>1 DEF With
    <2>4. obj'[d].document = parsed + 1 /\ obj'[d].text = f /\ obj'[d].meta = With(FileMeta[f], "path", f)
      BY <1>0, <2>1 DEF FromFile
    <2>5. "path" \in DOMAIN obj'[d].meta /\ obj'[d].meta["path"] = f
      BY <2>4 DEF With
    <2> QED
      BY <1>0, <2>2, <2>3, <2>4, <2>5 DEF FieldsInv
  <1>3. ASSUME NEW o \in Objects, NEW key \in {"lang", "is_news"}, SetMeta(o, key) PROVE FieldsInv'
    <2>1. /\ UNCHANGED source /\ \A x \in Objects : x # o => obj'[x] = obj[x]
          /\ obj'[o].document = obj[o].document /\ obj'[o].text = obj[o].text
          /\ obj'[o].meta = With(obj[o].meta, key, "set")
      BY <1>0, <1>3 DEF SetMeta
    <2>2. DOMAIN obj'[o].meta = DOMAIN obj[o].meta \cup {key}
      BY <2>1 DEF With
    <2>3. "path" \in DOMAIN obj[o].meta => obj'[o].meta["path"] = obj[o].meta["path"]
      BY <2>1 DEF With
    <2> QED
      BY <2>1, <2>2, <2>3 DEF FieldsInv
  <1>4. ASSUME NEW o \in Objects, ConstructDefault(o) \/ Destroy(o) PROVE FieldsInv'
    BY <1>0, <1>1, <1>4 DEF ConstructDefault, Destroy
  <1>5. ASSUME NEW o \in Objects, NEW s \in Objects, MoveConstruct(o, s) PROVE FieldsInv'
    BY <1>0, <1>1, <1>5 DEF MoveConstruct
  <1>6. ASSUME NEW d \in Objects, NEW s \in Objects, Assign(d, s) PROVE FieldsInv'
    BY <1>0, <1>1, <1>6 DEF Assign
  <1>7. ASSUME NEW f \in Files, ReadThrows(f) PROVE FieldsInv'
    BY <1>0, <1>1, <1>7 DEF ReadThrows
  <1>8. CASE UNCHANGED HDvars
    BY <1>0, <1>1, <1>8 DEF HDvars
  <1> QED
    BY <1>2, <1>3, <1>4, <1>5, <1>6, <1>7, <1>8 DEF HDNext, Stopped

\* The handles an object holds and the resources that exist are among those
\* created so far, through moves, swaps and a failing read.
THEOREM DocumentTypes == HDSpec => []TypeOK
  <1>1. OwnerInv => TypeOK
    BY DEF OwnerInv
  <1>2. QED
    BY <1>1, InitOwner, StepOwner, PTL DEF HDSpec

\* No double free, no use after free and no leak, for any number of documents
\* and any sequence of moves, assignments and destructions.
THEOREM Ownership == HDSpec => []OwnedOnce
  <1>1. OwnerInv => OwnedOnce
    BY DEF OwnerInv
  <1>2. QED
    BY <1>1, InitOwner, StepOwner, PTL DEF HDSpec

\* Whatever sequence of constructions, moves, assignments and destructions the
\* vectors of LoadDocs and RecognizeLanguage apply, and whatever properties the
\* HTML sets, the path of a document is the file its text and its lexbor document
\* came from, and a moved-from document has none.
THEOREM PathsIdentify == HDSpec => []PathIdentifiesFile
  <1>1. HDInit => OwnerInv /\ FieldsInv
    BY InitOwner, InitFields
  <1>2. OwnerInv /\ FieldsInv /\ [HDNext]_HDvars => (OwnerInv /\ FieldsInv)'
    BY StepOwner, StepFields DEF OwnerInv
  <1>3. OwnerInv /\ FieldsInv => PathIdentifiesFile
    BY DEF OwnerInv, TypeOK, FieldsInv, PathIdentifiesFile
  <1>4. QED
    BY <1>1, <1>2, <1>3, PTL DEF HDSpec
=============================================================================
