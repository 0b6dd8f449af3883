---------------------------- MODULE PvmUiProofs -----------------------------
(***************************************************************************)
(* The screen, for any pages, hosts and numbers of renders: as long as no  *)
(* batch was missed, it follows the handlers.                              *)
(***************************************************************************)
EXTENDS PvmUi, TLAPS

-----------------------------------------------------------------------------
(***************************************************************************)
(* Trees.  The recursion of Below has a solution, the least set of nodes   *)
(* that holds a node and the children of all it holds; the rest follows    *)
(* from the recursion, for the deepest node of which it would not hold.    *)
(***************************************************************************)
Closed(S) == \A m \in S : Children[m] \subseteq S

Reach(n) == {m \in Nodes : \A S \in SUBSET Nodes : n \in S /\ Closed(S) => m \in S}

LEMMA ReachUnfolds ==
  ASSUME NEW n \in Nodes
  PROVE  Reach(n) = {n} \cup UNION {Reach(c) : c \in Children[n]}
<1> DEFINE R == {n} \cup UNION {Reach(c) : c \in Children[n]}
<1>1. \A m \in Nodes : Children[m] \subseteq Nodes
  BY UiAssumption
<1>2. ASSUME NEW m \in R PROVE m \in Reach(n)
  <2>1. m \in Nodes
    BY <1>2 DEF Reach
  <2>2. ASSUME NEW S \in SUBSET Nodes, n \in S, Closed(S) PROVE m \in S
    <3>1. CASE m = n
      BY <2>2, <3>1
    <3>2. CASE \E c \in Children[n] : m \in Reach(c)
      <4>1. PICK c \in Children[n] : m \in Reach(c)
        BY <3>2
      <4>2. c \in S
        BY <2>2 DEF Closed
      <4> QED
        BY <2>2, <4>1, <4>2 DEF Reach
    <3> QED
      BY <1>2, <3>1, <3>2
  <2> QED
    BY <2>1, <2>2 DEF Reach
<1>3. R \subseteq Nodes
  BY DEF Reach
<1>4. ASSUME NEW m \in R, NEW k \in Children[m] PROVE k \in R
  <2>1. k \in Nodes
    BY <1>1, <1>3
  <2>2. CASE m = n
    BY <1>4, <2>1, <2>2 DEF Reach
  <2>3. CASE \E c \in Children[n] : m \in Reach(c)
    <3>1. PICK c \in Children[n] : m \in Reach(c)
      BY <2>3
    <3>2. k \in Reach(c)
      BY <1>4, <2>1, <3>1 DEF Reach, Closed
    <3> QED
      BY <3>2
  <2> QED
    BY <1>4, <2>2, <2>3
<1>5. Closed(R)
  BY <1>4 DEF Closed
<1>6. Reach(n) \subseteq R
  <2> n \in R
    OBVIOUS
  <2> HIDE DEF R
  <2> QED
    BY <1>3, <1>5 DEF Reach
<1> QED
  BY <1>2, <1>6

LEMMA BelowUnfolds ==
  /\ DOMAIN Below = Nodes
  /\ \A n \in Nodes : Below[n] = {n} \cup UNION {Below[c] : c \in Children[n]}
<1> DEFINE F(f) == [n \in Nodes |-> {n} \cup UNION {f[c] : c \in Children[n]}]
           g == [n \in Nodes |-> Reach(n)]
<1>1. g = F(g)
  <2>1. ASSUME NEW n \in Nodes PROVE g[n] = {n} \cup UNION {g[c] : c \in Children[n]}
    <3>1. Children[n] \subseteq Nodes
      BY UiAssumption
    <3>2. {g[c] : c \in Children[n]} = {Reach(c) : c \in Children[n]}
      BY <3>1
    <3> QED
      BY <3>2, ReachUnfolds
  <2> HIDE DEF g
  <2>2. g = [n \in Nodes |-> g[n]]
    BY DEF g
  <2> QED
    BY <2>1, <2>2
<1>2. \E f : f = F(f)
  BY <1>1
<1>3. Below = F(Below)
  BY <1>2 DEF Below
<1> QED
  BY <1>3

LEMMA ChildrenInNodes == ASSUME NEW n \in Nodes PROVE Children[n] \subseteq Nodes
  BY UiAssumption

\* Of a set of nodes one has no child in the set.
LEMMA Deepest ==
  ASSUME NEW X, X \subseteq Nodes, X # {}
  PROVE  \E n \in X : Children[n] \cap X = {}
  BY TreeAssumption

LEMMA BelowSelf == ASSUME NEW n \in Nodes PROVE n \in Below[n]
  BY BelowUnfolds

LEMMA BelowChild ==
  ASSUME NEW n \in Nodes, NEW c \in Children[n] PROVE Below[c] \subseteq Below[n]
  BY BelowUnfolds

LEMMA BelowCases ==
  ASSUME NEW n \in Nodes, NEW m \in Below[n], m # n
  PROVE  \E c \in Children[n] : c \in Nodes /\ m \in Below[c]
  BY BelowUnfolds, ChildrenInNodes

LEMMA BelowInNodes == ASSUME NEW n \in Nodes PROVE Below[n] \subseteq Nodes
<1> DEFINE Bad == {m \in Nodes : ~(Below[m] \subseteq Nodes)}
<1>1. ASSUME Bad # {} PROVE FALSE
  <2> HIDE DEF Bad
  <2>1. PICK m \in Bad : Children[m] \cap Bad = {}
    BY <1>1, Deepest DEF Bad
  <2> USE DEF Bad
  <2>2. m \in Nodes
    OBVIOUS
  <2>3. ASSUME NEW k \in Below[m] PROVE k \in Nodes
    <3>1. CASE k # m
      <4>1. PICK c \in Children[m] : c \in Nodes /\ k \in Below[c]
        BY <2>2, <3>1, BelowCases
      <4> QED
        BY <2>1, <4>1
    <3> QED
      BY <2>2, <3>1
  <2> QED
    BY <2>3
<1> QED
  BY <1>1

LEMMA BelowBelow ==
  ASSUME NEW n \in Nodes, NEW m \in Below[n], NEW k \in Below[m]
  PROVE  k \in Below[n]
<1> DEFINE Bad == {a \in Nodes : \E b \in Below[a] : ~(Below[b] \subseteq Below[a])}
<1>1. ASSUME Bad # {} PROVE FALSE
  <2> HIDE DEF Bad
  <2>1. PICK a \in Bad : Children[a] \cap Bad = {}
    BY <1>1, Deepest DEF Bad
  <2> USE DEF Bad
  <2>2. PICK b \in Below[a] : ~(Below[b] \subseteq Below[a])
    OBVIOUS
  <2>3. b # a
    BY <2>2
  <2>4. PICK c \in Children[a] : c \in Nodes /\ b \in Below[c]
    BY <2>3, BelowCases
  <2>5. Below[b] \subseteq Below[c]
    BY <2>1, <2>4
  <2> QED
    BY <2>2, <2>4, <2>5, BelowChild
<1> QED
  BY <1>1

\* No node is below itself.
LEMMA BelowAntisymmetric ==
  ASSUME NEW n \in Nodes, NEW m \in Below[n], n \in Below[m]
  PROVE  m = n
<1> DEFINE X == {x \in Below[n] : n \in Below[x]}
<1>1. X \subseteq Nodes /\ n \in X /\ m \in X
  BY BelowInNodes, BelowSelf
<1> HIDE DEF X
<1>2. PICK x \in X : Children[x] \cap X = {}
  BY <1>1, Deepest
<1> USE DEF X
<1>3. ASSUME NEW y \in X, y # x PROVE FALSE
  <2>1. x \in Nodes /\ y \in Nodes /\ x \in Below[n] /\ y \in Below[n] /\ n \in Below[x] /\ n \in Below[y]
    BY <1>1
  <2>2. y \in Below[x]
    BY <2>1, BelowBelow
  <2>3. PICK c \in Children[x] : c \in Nodes /\ y \in Below[c]
    BY <1>3, <2>1, <2>2, BelowCases
  <2>4. n \in Below[c]
    BY <2>1, <2>3, BelowBelow
  <2>5. c \in Below[x]
    BY <2>1, <2>3, BelowChild, BelowSelf
  <2>6. c \in Below[n]
    BY <2>1, <2>5, BelowBelow
  <2> QED
    BY <1>2, <2>3, <2>4, <2>6
<1> QED
  BY <1>1, <1>3

\* Each node but the top has a parent, of which there is one.
LEMMA BelowParent ==
  ASSUME NEW l \in Nodes, NEW m \in Nodes, NEW c \in Children[m], c \in Below[l], c # l
  PROVE  m \in Below[l]
<1> DEFINE Bad == {a \in Nodes : c \in Below[a] /\ c # a /\ m \notin Below[a]}
<1>1. ASSUME Bad # {} PROVE FALSE
  <2> HIDE DEF Bad
  <2>1. PICK a \in Bad : Children[a] \cap Bad = {}
    BY <1>1, Deepest DEF Bad
  <2> USE DEF Bad
  <2>2. a \in Nodes /\ c \in Below[a] /\ c # a /\ m \notin Below[a]
    OBVIOUS
  <2>3. PICK d \in Children[a] : d \in Nodes /\ c \in Below[d]
    BY <2>2, BelowCases
  <2>4. CASE c = d
    <3>1. m = a
      BY <2>2, <2>3, <2>4, TreeAssumption
    <3> QED
      BY <2>2, <3>1, BelowSelf
  <2>5. CASE c # d
    <3>1. m \in Below[d]
      BY <2>1, <2>3, <2>5
    <3> QED
      BY <2>2, <2>3, <3>1, BelowChild
  <2> QED
    BY <2>4, <2>5
<1> QED
  BY <1>1

LEMMA BelowHasParent ==
  ASSUME NEW n \in Nodes, NEW m \in Below[n], m # n
  PROVE  \E k \in Nodes : m \in Children[k]
<1> DEFINE Bad == {a \in Nodes : m \in Below[a] /\ m # a /\ ~ \E k \in Nodes : m \in Children[k]}
<1>1. ASSUME Bad # {} PROVE FALSE
  <2> HIDE DEF Bad
  <2>1. PICK a \in Bad : Children[a] \cap Bad = {}
    BY <1>1, Deepest DEF Bad
  <2> USE DEF Bad
  <2>2. a \in Nodes /\ m \in Below[a] /\ m # a /\ ~ \E k \in Nodes : m \in Children[k]
    OBVIOUS
  <2>3. PICK d \in Children[a] : d \in Nodes /\ m \in Below[d]
    BY <2>2, BelowCases
  <2> QED
    BY <2>1, <2>2, <2>3
<1> QED
  BY <1>1

\* Of two nodes above a third, one is above the other.
LEMMA BelowComparable ==
  ASSUME NEW a \in Nodes, NEW b \in Nodes, NEW x, x \in Below[a], x \in Below[b]
  PROVE  a \in Below[b] \/ b \in Below[a]
<1> DEFINE Bad == {n \in Nodes : x \in Below[n] /\ n \notin Below[b] /\ b \notin Below[n]}
<1>1. ASSUME Bad # {} PROVE FALSE
  <2> HIDE DEF Bad
  <2>1. PICK n \in Bad : Children[n] \cap Bad = {}
    BY <1>1, Deepest DEF Bad
  <2> USE DEF Bad
  <2>2. n \in Nodes /\ x \in Below[n] /\ n \notin Below[b] /\ b \notin Below[n]
    OBVIOUS
  <2>3. x # n
    BY <2>2
  <2>4. PICK c \in Children[n] : c \in Nodes /\ x \in Below[c]
    BY <2>2, <2>3, BelowCases
  <2>5. c \in Below[b] \/ b \in Below[c]
    BY <2>1, <2>4
  <2>6. Below[c] \subseteq Below[n] /\ c \in Below[n]
    BY <2>2, <2>4, BelowChild, BelowSelf
  <2>7. c \in Below[b] /\ c # b
    BY <2>2, <2>5, <2>6
  <2> QED
    BY <2>2, <2>4, <2>7, BelowParent
<1> QED
  BY <1>1

LEMMA RootInNodes == ASSUME NEW p \in Pages PROVE Root[p] \in Nodes
  BY UiAssumption

LEMMA TreeParts ==
  ASSUME NEW p \in Pages
  PROVE  /\ Tree(p) \subseteq Nodes /\ Root[p] \in Tree(p)
         /\ \A n \in Tree(p) : n \in Nodes /\ Below[n] \subseteq Tree(p) /\ n \in Below[n]
         /\ \A n \in Tree(p) : Children[n] \subseteq Tree(p)
<1>1. Root[p] \in Nodes
  BY RootInNodes
<1>2. ASSUME NEW n \in Tree(p) PROVE n \in Nodes /\ Below[n] \subseteq Tree(p) /\ n \in Below[n]
  BY <1>1, BelowInNodes, BelowBelow, BelowSelf DEF Tree
<1>3. ASSUME NEW n \in Tree(p), NEW c \in Children[n] PROVE c \in Tree(p)
  BY <1>2, BelowChild, BelowSelf, ChildrenInNodes
<1> QED
  BY <1>1, <1>2, <1>3, BelowSelf DEF Tree

\* Two pages share no node.
LEMMA TreesDiffer ==
  ASSUME NEW p \in Pages, NEW q \in Pages, NEW n, n \in Tree(p), n \in Tree(q)
  PROVE  p = q
<1>1. Root[p] \in Nodes /\ Root[q] \in Nodes
  BY RootInNodes
<1>2. Root[p] \in Below[Root[q]] \/ Root[q] \in Below[Root[p]]
  BY <1>1, BelowComparable DEF Tree
<1>3. Root[p] = Root[q]
  BY <1>1, <1>2, BelowHasParent, TreeAssumption
<1> QED
  BY <1>3, TreeAssumption

\* Of some nodes at and below a node, one is below no other of them.
LEMMA Outermost ==
  ASSUME NEW a \in Nodes, NEW X, X \subseteq Below[a], X # {}
  PROVE  \E l \in X : \A k \in X : l \in Below[k] => k = l
<1> DEFINE Top(S) == \E l \in S : \A k \in S : l \in Below[k] => k = l
           Bad == {n \in Nodes : X \cap Below[n] # {} /\ ~Top(X \cap Below[n])}
<1>1. ASSUME Bad # {} PROVE FALSE
  <2> HIDE DEF Bad
  <2>1. PICK n \in Bad : Children[n] \cap Bad = {}
    BY <1>1, Deepest DEF Bad
  <2> USE DEF Bad
  <2>2. n \in Nodes /\ X \cap Below[n] # {} /\ ~Top(X \cap Below[n])
    OBVIOUS
  <2>3. n \notin X
    <3> SUFFICES ASSUME n \in X PROVE FALSE
      OBVIOUS
    <3>1. \A k \in X \cap Below[n] : n \in Below[k] => k = n
      BY <2>2, BelowAntisymmetric
    <3> QED
      BY <2>2, <3>1, BelowSelf
  <2>4. PICK x \in X : x \in Below[n]
    BY <2>2
  <2>5. PICK c \in Children[n] : c \in Nodes /\ x \in Below[c]
    BY <2>2, <2>3, <2>4, BelowCases
  <2>6. PICK l \in X \cap Below[c] : \A k \in X \cap Below[c] : l \in Below[k] => k = l
    BY <2>1, <2>4, <2>5
  <2>7. ASSUME NEW k \in X, k \in Below[n], l \in Below[k] PROVE k = l
    <3>1. k \in Nodes
      BY <2>2, <2>7, BelowInNodes
    <3>2. k \in Below[c] \/ c \in Below[k]
      BY <2>5, <2>6, <2>7, <3>1, BelowComparable
    <3>3. CASE c \in Below[k] /\ c # k
      <4>1. n \in Below[k]
        BY <2>2, <2>5, <3>1, <3>3, BelowParent
      <4>2. k = n
        BY <2>2, <2>7, <4>1, BelowAntisymmetric
      <4> QED
        BY <2>3, <4>2
    <3>4. CASE k \in Below[c] \/ c = k
      BY <2>5, <2>6, <2>7, <3>4, BelowSelf
    <3> QED
      BY <3>2, <3>3, <3>4
  <2>8. l \in Below[n]
    BY <2>2, <2>5, <2>6, BelowChild
  <2> QED
    BY <2>2, <2>6, <2>7, <2>8
<1>2. a \notin Bad
  BY <1>1
<1>3. X \cap Below[a] = X
  OBVIOUS
<1> QED
  BY <1>2, <1>3

\* A node that a patch does not look at is below a child of a list that it looks at.
LEMMA HiddenInList ==
  ASSUME NEW p \in Pages, NEW n \in Tree(p), n \notin Visited(p)
  PROVE  \E l \in Visited(p) : /\ Kind[l] = "List" /\ n \in Below[l]
                               /\ \E c \in Children[l] : n \in Below[c]
<1> DEFINE X == {l \in Tree(p) : Kind[l] = "List" /\ l # n /\ n \in Below[l]}
<1>1. X # {} /\ X \subseteq Below[Root[p]]
  BY DEF Visited, Tree
<1>2. PICK l \in X : \A k \in X : l \in Below[k] => k = l
  <2> HIDE DEF X
  <2> QED
    BY <1>1, Outermost, RootInNodes
<1>3. l \in Visited(p)
  <2> SUFFICES ASSUME NEW k \in Tree(p) \ {l}, Kind[k] = "List", l \in Below[k] PROVE FALSE
    BY DEF Visited
  <2>1. k \in Nodes /\ l \in Nodes
    BY TreeParts
  <2>2. n \in Below[k]
    BY <2>1, BelowBelow
  <2>3. k # n
    BY <2>1, BelowAntisymmetric
  <2> QED
    BY <1>2, <2>2, <2>3
<1>4. l \in Nodes /\ n \in Below[l] /\ n # l
  BY TreeParts
<1> QED
  BY <1>3, <1>4, BelowCases

-----------------------------------------------------------------------------
(***************************************************************************)
(* Revisions.  A node is numbered anew exactly when something at or below  *)
(* it changed; a page that is entered again is numbered from 1.            *)
(***************************************************************************)
SnapshotOK(S) ==
  /\ S \in Snapshots
  /\ S.value \in [Tree(S.page) -> Texts] /\ S.revision \in [Tree(S.page) -> Nat]

LastOK == last = None \/ SnapshotOK(last)

\* The two show the same at node n and below it.
Agree(S, v, n) == \A m \in Below[n] : S.value[m] = v[m]

\* The recursion of Revisions, and its solution.
Renumbered(p, value, f) ==
  [n \in Tree(p) |->
     IF ~Known(n) THEN 1
     ELSE last.revision[n] +
          (IF SameNodeData(n, value, [c \in Children[n] |-> f[c]]) THEN 0 ELSE 1)]

Numbers(p, value) ==
  [n \in Tree(p) |->
     IF ~Known(n) THEN 1 ELSE last.revision[n] + (IF Agree(last, value, n) THEN 0 ELSE 1)]

\* On a page that is shown already every node is known, on another one none.
LEMMA KnownPage ==
  ASSUME NEW p \in Pages, NEW n \in Tree(p), LastOK
  PROVE  Known(n) <=> last # None /\ last.page = p
  BY TreesDiffer DEF Known, LastOK, SnapshotOK, Snapshots

LEMMA NumbersTyped ==
  ASSUME NEW p \in Pages, NEW value, LastOK
  PROVE  Numbers(p, value) \in [Tree(p) -> Nat]
<1>1. ASSUME NEW n \in Tree(p), Known(n) PROVE last.revision[n] \in Nat
  BY <1>1, KnownPage DEF LastOK, SnapshotOK
<1> QED
  BY <1>1 DEF Numbers

\* Where the children are numbered so, the node has the data it had if it and all
\* below it has.
LEMMA SameDataBelow ==
  ASSUME NEW p \in Pages, NEW value, LastOK, NEW n \in Tree(p), Known(n), NEW f,
         \A c \in Children[n] : f[c] = Numbers(p, value)[c]
  PROVE  SameNodeData(n, value, [c \in Children[n] |-> f[c]]) <=> Agree(last, value, n)
<1>1. n \in Nodes /\ Children[n] \subseteq Tree(p) /\ Children[n] \subseteq Nodes
  BY TreeParts, ChildrenInNodes
<1>2. last # None /\ last.page = p /\ SnapshotOK(last)
  BY KnownPage DEF LastOK
<1>3. ASSUME NEW c \in Children[n]
      PROVE  f[c] = last.revision[c] <=> Agree(last, value, c)
  <2>1. Known(c)
    BY <1>1, <1>2, KnownPage
  <2>2. f[c] = last.revision[c] + (IF Agree(last, value, c) THEN 0 ELSE 1)
    BY <1>1, <2>1 DEF Numbers
  <2>3. last.revision[c] \in Nat
    BY <1>1, <1>2 DEF SnapshotOK
  <2> QED
    BY <2>2, <2>3
<1>4. SameNodeData(n, value, [c \in Children[n] |-> f[c]])
        <=> last.value[n] = value[n] /\ \A c \in Children[n] : Agree(last, value, c)
  BY <1>3 DEF SameNodeData, LocalChange
<1> QED
  BY <1>1, <1>4, BelowUnfolds DEF Agree

LEMMA RevisionsAre ==
  ASSUME NEW p \in Pages, NEW value, LastOK
  PROVE  Revisions(p, value) = Numbers(p, value)
<1> DEFINE g == Numbers(p, value)
<1>1. g = Renumbered(p, value, g)
  <2>1. ASSUME NEW n \in Tree(p) PROVE g[n] = Renumbered(p, value, g)[n]
    <3>1. Known(n) => (SameNodeData(n, value, [c \in Children[n] |-> g[c]]) <=> Agree(last, value, n))
      BY SameDataBelow
    <3> QED
      BY <3>1 DEF Renumbered, Numbers
  <2>2. g = [n \in Tree(p) |-> g[n]]
    BY DEF Numbers
  <2>3. Renumbered(p, value, g) = [n \in Tree(p) |-> Renumbered(p, value, g)[n]]
    BY DEF Renumbered
  <2> HIDE DEF g
  <2> QED
    BY <2>1, <2>2, <2>3
<1>2. PICK f : f = Renumbered(p, value, f) /\ Revisions(p, value) = [n \in Tree(p) |-> f[n]]
  <2> HIDE DEF g
  <2>1. \E f : f = Renumbered(p, value, f)
    BY <1>1
  <2>2. PICK f : f = CHOOSE h : h = Renumbered(p, value, h)
    OBVIOUS
  <2>3. f = Renumbered(p, value, f)
    BY <2>1, <2>2
  <2>4. Revisions(p, value) = [n \in Tree(p) |-> f[n]]
    BY <2>2 DEF Revisions, Renumbered
  <2> QED
    BY <2>3, <2>4
<1>3. f = [n \in Tree(p) |-> f[n]]
  BY <1>2 DEF Renumbered
<1> DEFINE Bad == {n \in Tree(p) : f[n] # g[n]}
<1>4. ASSUME Bad # {} PROVE FALSE
  <2>1. Bad \subseteq Nodes
    BY TreeParts
  <2> HIDE DEF Bad
  <2>2. PICK n \in Bad : Children[n] \cap Bad = {}
    BY <1>4, <2>1, Deepest
  <2> USE DEF Bad
  <2>3. n \in Tree(p) /\ f[n] # g[n] /\ Children[n] \subseteq Tree(p)
    BY TreeParts
  <2>4. \A c \in Children[n] : f[c] = Numbers(p, value)[c]
    BY <2>2, <2>3
  <2>5. Known(n) => (SameNodeData(n, value, [c \in Children[n] |-> f[c]]) <=> Agree(last, value, n))
    BY <2>3, <2>4, SameDataBelow
  <2>6. f[n] = IF ~Known(n) THEN 1
               ELSE last.revision[n] +
                    (IF SameNodeData(n, value, [c \in Children[n] |-> f[c]]) THEN 0 ELSE 1)
    BY <1>2, <2>3 DEF Renumbered
  <2> QED
    BY <2>3, <2>5, <2>6 DEF Numbers
<1>5. g = [n \in Tree(p) |-> g[n]]
  BY DEF Numbers
<1> HIDE DEF g
<1>6. f = g
  BY <1>3, <1>4, <1>5
<1> QED
  BY <1>2, <1>3, <1>6 DEF g

-----------------------------------------------------------------------------
(***************************************************************************)
(* Snapshots and batches.                                                  *)
(***************************************************************************)
\* From one snapshot of a page to a later one: revisions grow, and a node that
\* kept its revision kept all it shows.
Advance(S, T) ==
  /\ S.page = T.page
  /\ \A n \in Tree(T.page) :
       /\ S.revision[n] <= T.revision[n]
       /\ S.revision[n] = T.revision[n] => Agree(S, T.value, n)

\* A batch of snapshot T: the complete tree, or all of the nodes it names.
Carries(batch, T) ==
  /\ batch.page = T.page
  /\ batch.rootRevision = T.revision[Root[T.page]]
  /\ batch.structural => batch.value = T.value /\ batch.revision = T.revision
  /\ ~batch.structural =>
       /\ batch.changed \subseteq Visited(T.page) /\ batch.numbered \subseteq Tree(T.page)
       /\ \A n \in batch.changed : \A m \in Below[n] :
            batch.value[m] = T.value[m] /\ batch.revision[m] = T.revision[m]
       /\ \A n \in batch.numbered : batch.revision[n] = T.revision[n]

\* What a patch leaves out is as it was.
Spares(batch, S, T) ==
  ~batch.structural =>
    \A n \in Visited(T.page) \ batch.changed :
      /\ S.value[n] = T.value[n]
      /\ Kind[n] = "List" => Agree(S, T.value, n)

LEMMA SnapshotParts ==
  ASSUME NEW p \in Pages, NEW s \in [Slots -> Values], LastOK
  PROVE  /\ SnapshotOK(Snapshot(p, s)) /\ Snapshot(p, s).page = p
         /\ Snapshot(p, s).value = Evaluated(p, s)
         /\ Snapshot(p, s).revision = Numbers(p, Evaluated(p, s))
<1>1. Snapshot(p, s) = [page |-> p, value |-> Evaluated(p, s), revision |-> Numbers(p, Evaluated(p, s))]
  BY RevisionsAre DEF Snapshot
<1>2. Tree(p) \in SUBSET Nodes
  BY TreeParts
<1>3. Evaluated(p, s) \in [Tree(p) -> Texts]
  <2>1. ASSUME NEW n \in Tree(p)
        PROVE  (IF Bound[n] = None THEN None ELSE s[Bound[n]]) \in Texts
    BY <1>2, UiAssumption DEF Texts
  <2> QED
    BY <2>1 DEF Evaluated
<1>4. Numbers(p, Evaluated(p, s)) \in [Tree(p) -> Nat]
  BY NumbersTyped
<1> QED
  BY <1>1, <1>2, <1>3, <1>4 DEF SnapshotOK, Snapshots

LEMMA SnapshotAdvances ==
  ASSUME NEW p \in Pages, NEW s \in [Slots -> Values], LastOK, last # None, last.page = p
  PROVE  Advance(last, Snapshot(p, s))
<1>1. ASSUME NEW n \in Tree(p)
      PROVE  /\ last.revision[n] <= Snapshot(p, s).revision[n]
             /\ last.revision[n] = Snapshot(p, s).revision[n] => Agree(last, Snapshot(p, s).value, n)
  <2>1. Known(n)
    BY KnownPage
  <2>2. last.revision[n] \in Nat
    BY DEF LastOK, SnapshotOK
  <2>3. Snapshot(p, s).revision[n]
          = last.revision[n] + (IF Agree(last, Evaluated(p, s), n) THEN 0 ELSE 1)
    <3>1. Snapshot(p, s).revision = Numbers(p, Evaluated(p, s))
      BY SnapshotParts
    <3> QED
      BY <2>1, <3>1 DEF Numbers
  <2> QED
    BY <2>2, <2>3, SnapshotParts
<1> QED
  BY <1>1, SnapshotParts DEF Advance

LEMMA DeltaVisited ==
  ASSUME NEW snap
  PROVE  Delta(snap) \subseteq Visited(snap.page) /\ Visited(snap.page) \subseteq Tree(snap.page)
  BY DEF Delta, Visited

LEMMA BatchFields ==
  ASSUME NEW snap
  PROVE  /\ Batch(snap).structural = (\E n \in Tree(snap.page) : StructureChanged(snap, n))
         /\ Batch(snap).page = snap.page
         /\ Batch(snap).rootRevision = snap.revision[Root[snap.page]]
         /\ Batch(snap).changed = Delta(snap)
         /\ Batch(snap).numbered = {n \in Visited(snap.page) : Changed(snap, n)}
  BY DEF Batch

LEMMA BatchCarries ==
  ASSUME NEW snap, SnapshotOK(snap)
  PROVE  Carries(Batch(snap), snap)
<1> DEFINE structural == \E n \in Tree(snap.page) : StructureChanged(snap, n)
           nodes == IF structural THEN Tree(snap.page) ELSE UNION {Below[n] : n \in Delta(snap)}
           numbered == {n \in Visited(snap.page) : Changed(snap, n)}
<1>1. /\ Batch(snap).value = [n \in nodes |-> snap.value[n]]
      /\ Batch(snap).revision = [n \in nodes \cup numbered |-> snap.revision[n]]
  BY DEF Batch
<1>2. numbered \subseteq Tree(snap.page)
  BY DEF Visited
<1>3. CASE structural
  <2>1. nodes = Tree(snap.page) /\ nodes \cup numbered = Tree(snap.page)
    BY <1>2, <1>3
  <2>2. /\ snap.value = [n \in Tree(snap.page) |-> snap.value[n]]
        /\ snap.revision = [n \in Tree(snap.page) |-> snap.revision[n]]
    BY DEF SnapshotOK
  <2>3. Batch(snap).value = snap.value /\ Batch(snap).revision = snap.revision
    BY <1>1, <2>1, <2>2
  <2> QED
    BY <1>3, <2>3, BatchFields DEF Carries
<1>4. CASE ~structural
  <2>1. nodes = UNION {Below[n] : n \in Delta(snap)}
    BY <1>4
  <2>2. ASSUME NEW n \in Delta(snap), NEW m \in Below[n]
        PROVE  Batch(snap).value[m] = snap.value[m] /\ Batch(snap).revision[m] = snap.revision[m]
    BY <1>1, <2>1, <2>2
  <2>3. ASSUME NEW n \in numbered PROVE Batch(snap).revision[n] = snap.revision[n]
    BY <1>1, <2>3
  <2> QED
    BY <1>2, <1>4, <2>2, <2>3, BatchFields, DeltaVisited DEF Carries
<1> QED
  BY <1>3, <1>4

LEMMA BatchTyped ==
  ASSUME NEW snap, SnapshotOK(snap)
  PROVE  Batch(snap) \in Batches
<1>1. snap.page \in Pages
  BY DEF SnapshotOK, Snapshots
<1> DEFINE structural == \E n \in Tree(snap.page) : StructureChanged(snap, n)
           nodes == IF structural THEN Tree(snap.page) ELSE UNION {Below[n] : n \in Delta(snap)}
           numbered == {n \in Visited(snap.page) : Changed(snap, n)}
<1>2. /\ Visited(snap.page) \subseteq Tree(snap.page) /\ Tree(snap.page) \subseteq Nodes
      /\ Delta(snap) \subseteq Tree(snap.page)
  BY <1>1, DeltaVisited, TreeParts
<1>3. nodes \subseteq Tree(snap.page) /\ numbered \subseteq Tree(snap.page)
  BY <1>1, <1>2, TreeParts
<1>4. [n \in nodes |-> snap.value[n]] \in [nodes -> Texts]
  BY <1>3 DEF SnapshotOK
<1>5. [n \in nodes \cup numbered |-> snap.revision[n]] \in [nodes \cup numbered -> Nat]
  BY <1>3 DEF SnapshotOK
<1>6. snap.revision[Root[snap.page]] \in Nat
  BY <1>1, TreeParts DEF SnapshotOK
<1>7. /\ nodes \in SUBSET Nodes /\ nodes \cup numbered \in SUBSET Nodes
      /\ Delta(snap) \in SUBSET Nodes /\ numbered \in SUBSET Nodes
  BY <1>2, <1>3
<1>8. structural \in BOOLEAN
  OBVIOUS
<1>9. Batch(snap) = [structural |-> structural, page |-> snap.page,
                     rootRevision |-> snap.revision[Root[snap.page]],
                     changed |-> Delta(snap),
                     value |-> [n \in nodes |-> snap.value[n]],
                     revision |-> [n \in nodes \cup numbered |-> snap.revision[n]],
                     numbered |-> numbered]
  BY DEF Batch
<1> HIDE DEF structural, nodes, numbered
<1>10. [n \in nodes |-> snap.value[n]] \in UNION {[S -> Texts] : S \in SUBSET Nodes}
  BY <1>4, <1>7
<1>11. [n \in nodes \cup numbered |-> snap.revision[n]] \in UNION {[S -> Nat] : S \in SUBSET Nodes}
  BY <1>5, <1>7
<1> QED
  BY <1>1, <1>6, <1>7, <1>8, <1>9, <1>10, <1>11 DEF Batches

\* A page that is not shown yet is sent whole.
LEMMA OtherPageWhole ==
  ASSUME NEW p \in Pages, NEW s \in [Slots -> Values], LastOK,
         ~(last # None /\ last.page = p)
  PROVE  Batch(Snapshot(p, s)).structural
<1>1. Root[p] \in Tree(p) /\ ~Known(Root[p])
  BY TreeParts, KnownPage
<1>2. Snapshot(p, s).page = p
  BY SnapshotParts
<1>3. StructureChanged(Snapshot(p, s), Root[p])
  BY <1>1 DEF StructureChanged
<1> QED
  BY <1>1, <1>2, <1>3, BatchFields

LEMMA BatchSpares ==
  ASSUME NEW p \in Pages, NEW s \in [Slots -> Values], LastOK, last # None, last.page = p
  PROVE  Spares(Batch(Snapshot(p, s)), last, Snapshot(p, s))
<1> DEFINE snap == Snapshot(p, s)
<1>1. snap.page = p
  BY SnapshotParts
<1> HIDE DEF snap
<1>2. ASSUME NEW n \in Visited(p) \ Delta(snap)
      PROVE  last.value[n] = snap.value[n] /\ (Kind[n] = "List" => Agree(last, snap.value, n))
  <2>1. n \in Tree(p) /\ Known(n)
    BY KnownPage DEF Visited
  <2>2. CASE Kind[n] = "List"
    <3>1. ~Changed(snap, n)
      BY <1>1, <1>2, <2>2 DEF Delta
    <3>2. last.revision[n] = snap.revision[n]
      BY <2>1, <3>1 DEF Changed
    <3>3. Agree(last, snap.value, n)
      BY <1>1, <2>1, <3>2, SnapshotAdvances DEF Advance, snap
    <3> QED
      BY <2>1, <3>3, TreeParts DEF Agree
  <2>3. CASE Kind[n] # "List"
    BY <1>1, <1>2, <2>1, <2>3 DEF Delta, LocalChange
  <2> QED
    BY <2>2, <2>3
<1> QED
  BY <1>1, <1>2, BatchFields DEF Spares, snap

-----------------------------------------------------------------------------
(***************************************************************************)
(* The renderers.                                                          *)
(***************************************************************************)
HasViewFields(v) ==
  v = [page |-> v.page, root |-> v.root, shown |-> v.shown, cached |-> v.cached, tree |-> v.tree]

\* A remembered tree is one of the page on the screen.
ViewOK(v) == HasViewFields(v) /\ (v.tree # None => v.tree.page = v.page)

\* The views v show snapshot S, and no revision kept for a node, in the views or in
\* the remembered tree, is ahead of S.
Shows(v, S) ==
  /\ v.page = S.page /\ v.root = S.revision[Root[S.page]] /\ v.shown = S.value
  /\ v.cached \in [Tree(S.page) -> Nat]
  /\ \A n \in Tree(S.page) : v.cached[n] <= S.revision[n]
  /\ v.tree # None =>
       /\ v.tree.page = S.page
       /\ v.tree.revision \in [Tree(S.page) -> Nat]
       /\ \A n \in Tree(S.page) : v.tree.revision[n] <= S.revision[n]

\* A revision that was kept and is that of a later snapshot is that of all between.
LEMMA RevisionKept ==
  ASSUME NEW S, SnapshotOK(S), NEW T, SnapshotOK(T), Advance(S, T),
         NEW m \in Tree(T.page), NEW n \in Below[m],
         NEW r \in Nat, r <= S.revision[m], r = T.revision[m]
  PROVE  S.value[n] = T.value[n]
<1>1. S.revision[m] \in Nat /\ T.revision[m] \in Nat /\ S.revision[m] <= T.revision[m]
  BY DEF SnapshotOK, Advance
<1>2. S.revision[m] = T.revision[m]
  BY <1>1
<1> QED
  BY <1>2 DEF Advance, Agree

LEMMA GateHolds ==
  ASSUME NEW S, SnapshotOK(S), NEW T, SnapshotOK(T), Advance(S, T), Shows(view, S),
         NEW batch, NEW top \in Tree(T.page),
         \A m \in Below[top] : batch.revision[m] = T.revision[m],
         NEW n, Gated(batch, top, n)
  PROVE  S.value[n] = T.value[n]
<1>1. PICK m \in Below[top] : n \in Below[m] /\ m \in DOMAIN view.cached /\ view.cached[m] = batch.revision[m]
  BY DEF Gated
<1>2. T.page \in Pages /\ S.page = T.page
  BY DEF SnapshotOK, Snapshots, Advance
<1>3. m \in Tree(T.page)
  BY <1>2, TreeParts
<1>4. view.cached[m] \in Nat /\ view.cached[m] <= S.revision[m] /\ view.cached[m] = T.revision[m]
  BY <1>1, <1>2, <1>3 DEF Shows
<1> QED
  BY <1>1, <1>3, <1>4, RevisionKept

\* The node of a list below which all items are brought up to date.
LEMMA ItemsFollow ==
  ASSUME NEW S, SnapshotOK(S), NEW T, SnapshotOK(T), Advance(S, T), Shows(view, S),
         NEW batch, NEW l \in Tree(T.page),
         \A m \in Below[l] : batch.revision[m] = T.revision[m],
         NEW c \in Children[l], NEW n \in Below[c], n \notin ItemsReconciled(batch, l)
  PROVE  S.value[n] = T.value[n]
<1>1. T.page \in Pages
  BY DEF SnapshotOK, Snapshots
<1>2. c \in Tree(T.page) /\ Below[c] \subseteq Below[l]
  BY <1>1, TreeParts, BelowChild
<1>3. Gated(batch, c, n)
  BY DEF ItemsReconciled, Reconciled
<1> QED
  BY <1>2, <1>3, GateHolds

\* What Android leaves out of a complete tree, compared with the one it remembers,
\* is as it was; unless patches changed the views since.
LEMMA RememberedSpares ==
  ASSUME NEW S, SnapshotOK(S), NEW T, SnapshotOK(T), Advance(S, T), Shows(view, S),
         NEW batch, batch.structural, Carries(batch, T), Remembered(batch),
         view.tree.value = view.shown,
         NEW n \in Tree(T.page), n \notin ReconciledWithOld(batch)
  PROVE  S.value[n] = T.value[n]
<1>1. /\ T.page \in Pages /\ S.page = T.page /\ batch.page = T.page
      /\ batch.value = T.value /\ batch.revision = T.revision
  BY DEF SnapshotOK, Snapshots, Advance, Carries
<1>2. /\ view.tree.revision \in [Tree(T.page) -> Nat]
      /\ \A m \in Tree(T.page) : view.tree.revision[m] <= S.revision[m]
      /\ view.tree.value = S.value
  BY <1>1 DEF Shows, Remembered
<1>3. CASE n \notin Walked(batch)
  <2>1. PICK m \in Tree(T.page) : n \in Below[m] /\ view.tree.revision[m] = T.revision[m]
    BY <1>1, <1>3 DEF Walked
  <2>2. view.tree.revision[m] \in Nat /\ view.tree.revision[m] <= S.revision[m]
    BY <1>2
  <2> QED
    BY <2>1, <2>2, RevisionKept
<1>4. CASE n \in Walked(batch) /\ n \in Visited(T.page)
  BY <1>1, <1>2, <1>4 DEF ReconciledWithOld, WalkedViews
<1>5. CASE n \in Walked(batch) /\ n \notin Visited(T.page)
  <2>1. PICK l \in Visited(T.page) : /\ Kind[l] = "List" /\ n \in Below[l]
                                     /\ \E c \in Children[l] : n \in Below[c]
    BY <1>1, <1>5, HiddenInList
  <2>2. l \in Tree(T.page)
    BY DEF Visited
  <2>3. l \in Walked(batch)
    <3> SUFFICES ASSUME NEW m \in Tree(T.page), l \in Below[m]
                 PROVE  view.tree.revision[m] # batch.revision[m]
      BY <1>1, <2>2 DEF Walked
    <3>1. n \in Below[m]
      BY <1>1, <2>1, TreeParts, BelowBelow
    <3> QED
      BY <1>1, <1>5, <3>1 DEF Walked
  <2>4. PICK c \in Children[l] : n \in Below[c]
    BY <2>1
  <2>5. n \notin ItemsReconciled(batch, l)
    BY <1>1, <2>1, <2>3 DEF ReconciledWithOld, WalkedItems, WalkedViews
  <2>6. \A m \in Below[l] : batch.revision[m] = T.revision[m]
    BY <1>1
  <2> QED
    BY <2>2, <2>4, <2>5, <2>6, ItemsFollow
<1> QED
  BY <1>3, <1>4, <1>5

LEMMA TreeSpares ==
  ASSUME NEW S, SnapshotOK(S), NEW T, SnapshotOK(T), Advance(S, T), Shows(view, S),
         NEW batch, batch.structural, Carries(batch, T),
         Remembered(batch) => view.tree.value = view.shown,
         NEW n \in Tree(T.page), n \notin WrittenByTree(batch)
  PROVE  S.value[n] = T.value[n]
<1>1. T.page \in Pages /\ S.page = T.page /\ batch.page = T.page /\ batch.revision = T.revision
  BY DEF SnapshotOK, Snapshots, Advance, Carries
<1>2. CASE Remembered(batch)
  BY <1>2, RememberedSpares DEF WrittenByTree
<1>3. CASE ~Remembered(batch)
  <2>1. n \notin Reconciled(batch, Root[T.page])
    BY <1>1, <1>3 DEF WrittenByTree, Shows, Showing
  <2>2. Root[T.page] \in Tree(T.page) /\ Below[Root[T.page]] = Tree(T.page)
    BY <1>1, TreeParts DEF Tree
  <2>3. Gated(batch, Root[T.page], n)
    BY <2>1, <2>2 DEF Reconciled
  <2>4. \A m \in Below[Root[T.page]] : batch.revision[m] = T.revision[m]
    BY <1>1
  <2> QED
    BY <2>2, <2>3, <2>4, GateHolds
<1> QED
  BY <1>2, <1>3

\* A page that is not on the screen is written whole.
LEMMA NewTreeShows ==
  ASSUME NEW T, SnapshotOK(T), NEW batch, batch.structural, Carries(batch, T),
         ~Showing(batch.page)
  PROVE  Shows(AfterTree(batch), T)
<1>1. /\ T.page \in Pages /\ batch.page = T.page /\ batch.rootRevision = T.revision[Root[T.page]]
      /\ batch.value = T.value /\ batch.revision = T.revision
  BY DEF SnapshotOK, Snapshots, Carries
<1>2. /\ T.value = [n \in Tree(T.page) |-> T.value[n]]
      /\ T.revision = [n \in Tree(T.page) |-> T.revision[n]]
      /\ T.revision \in [Tree(T.page) -> Nat]
  BY DEF SnapshotOK
<1>3. /\ AfterTree(batch).page = T.page
      /\ AfterTree(batch).root = T.revision[Root[T.page]]
      /\ AfterTree(batch).shown = [n \in Tree(T.page) |-> T.value[n]]
      /\ AfterTree(batch).cached = [n \in Tree(T.page) |-> T.revision[n]]
      /\ AfterTree(batch).tree = IF host = "Android"
               THEN [page |-> T.page, value |-> T.value, revision |-> T.revision]
               ELSE None
  BY <1>1 DEF AfterTree
<1>4. \A n \in Tree(T.page) : T.revision[n] <= T.revision[n]
  BY <1>2
<1>5. AfterTree(batch).tree # None =>
        AfterTree(batch).tree.page = T.page /\ AfterTree(batch).tree.revision = T.revision
  BY <1>3
<1> HIDE DEF AfterTree
<1> QED
  BY <1>2, <1>3, <1>4, <1>5 DEF Shows

\* A complete tree of the page on the screen brings it from S to T.
LEMMA SameTreeShows ==
  ASSUME NEW S, SnapshotOK(S), NEW T, SnapshotOK(T), Advance(S, T), Shows(view, S),
         NEW batch, batch.structural, Carries(batch, T),
         Remembered(batch) => view.tree.value = view.shown
  PROVE  Shows(AfterTree(batch), T)
<1>1. /\ T.page \in Pages /\ S.page = T.page /\ batch.page = T.page
      /\ batch.rootRevision = T.revision[Root[T.page]]
      /\ batch.value = T.value /\ batch.revision = T.revision
  BY DEF SnapshotOK, Snapshots, Advance, Carries
<1>2. /\ T.value = [n \in Tree(T.page) |-> T.value[n]] /\ T.revision \in [Tree(T.page) -> Nat]
      /\ S.revision \in [Tree(T.page) -> Nat]
      /\ \A n \in Tree(T.page) : S.revision[n] <= T.revision[n]
  BY <1>1 DEF SnapshotOK, Advance
<1>3. /\ Showing(T.page) /\ view.shown = S.value /\ view.cached \in [Tree(T.page) -> Nat]
      /\ \A n \in Tree(T.page) : view.cached[n] <= S.revision[n]
  BY <1>1 DEF Shows, Showing
<1>4. /\ AfterTree(batch).page = T.page
      /\ AfterTree(batch).root = T.revision[Root[T.page]]
      /\ AfterTree(batch).shown =
           [n \in Tree(T.page) |-> IF n \notin WrittenByTree(batch) THEN S.value[n] ELSE T.value[n]]
      /\ AfterTree(batch).cached =
           [n \in Tree(T.page) |->
              IF n \notin NumberedByTree(batch) THEN view.cached[n] ELSE T.revision[n]]
      /\ AfterTree(batch).tree = IF host = "Android"
               THEN [page |-> T.page, value |-> T.value, revision |-> T.revision]
               ELSE None
  BY <1>1, <1>3 DEF AfterTree
<1>5. \A n \in Tree(T.page) : n \notin WrittenByTree(batch) => S.value[n] = T.value[n]
  BY TreeSpares
<1>6. AfterTree(batch).tree # None =>
        AfterTree(batch).tree.page = T.page /\ AfterTree(batch).tree.revision = T.revision
  BY <1>4
<1> HIDE DEF AfterTree
<1>7. AfterTree(batch).shown = T.value
  BY <1>2, <1>4, <1>5
<1>8. /\ AfterTree(batch).cached \in [Tree(T.page) -> Nat]
      /\ \A n \in Tree(T.page) : AfterTree(batch).cached[n] <= T.revision[n]
  <2>1. ASSUME NEW n \in Tree(T.page)
        PROVE  AfterTree(batch).cached[n] \in Nat /\ AfterTree(batch).cached[n] <= T.revision[n]
    BY <1>2, <1>3, <1>4
  <2>2. AfterTree(batch).cached = [n \in Tree(T.page) |-> AfterTree(batch).cached[n]]
    BY <1>4
  <2> QED
    BY <2>1, <2>2
<1>9. \A n \in Tree(T.page) : T.revision[n] <= T.revision[n]
  BY <1>2
<1> QED
  BY <1>2, <1>4, <1>6, <1>7, <1>8, <1>9 DEF Shows

\* What a patch writes it has.
LEMMA PatchWrites ==
  ASSUME NEW T, SnapshotOK(T), NEW batch, ~batch.structural, Carries(batch, T), host \in Hosts,
         NEW n \in WrittenByPatch(batch)
  PROVE  batch.value[n] = T.value[n] /\ batch.revision[n] = T.revision[n]
<1>1. T.page \in Pages
  BY DEF SnapshotOK, Snapshots
<1>2. host \in {"Android", "UIKit", "SwiftUI", "Harmony"}
  BY UiAssumption
<1>3. \E l \in batch.changed : n \in Below[l]
  <2>1. \A l \in batch.changed : l \in Nodes /\ l \in Below[l]
    BY <1>1, TreeParts DEF Carries, Visited
  <2>2. CASE n \in batch.changed
    BY <2>1, <2>2
  <2>3. CASE \E l \in batch.changed : n \in Reconciled(batch, l)
    BY <2>3 DEF Reconciled
  <2>4. CASE \E l \in batch.changed : n \in ItemsReconciled(batch, l)
    BY <2>1, <2>4, BelowChild DEF ItemsReconciled, Reconciled
  <2> QED
    BY <1>2, <2>2, <2>3, <2>4 DEF WrittenByPatch
<1> QED
  BY <1>3 DEF Carries

LEMMA PatchSpares ==
  ASSUME NEW S, SnapshotOK(S), NEW T, SnapshotOK(T), Advance(S, T), Shows(view, S),
         NEW batch, ~batch.structural, Carries(batch, T), Spares(batch, S, T), host \in Hosts,
         NEW n \in Tree(T.page), n \notin WrittenByPatch(batch)
  PROVE  S.value[n] = T.value[n]
<1>1. T.page \in Pages /\ S.page = T.page
  BY DEF SnapshotOK, Snapshots, Advance
<1>2. host \in {"Android", "UIKit", "SwiftUI", "Harmony"}
  BY UiAssumption
<1>3. n \in Nodes /\ n \in Below[n]
  BY <1>1, TreeParts
<1>4. \A l \in batch.changed : l \in Tree(T.page) /\ l \in Nodes
  BY <1>1, TreeParts DEF Carries, Visited
<1>5. \A l \in batch.changed : \A m \in Below[l] : batch.revision[m] = T.revision[m]
  BY DEF Carries
<1>6. ASSUME NEW l \in batch.changed, n \in Below[l], n \notin Reconciled(batch, l)
      PROVE  S.value[n] = T.value[n]
  <2>1. Gated(batch, l, n)
    BY <1>6 DEF Reconciled
  <2>2. \A m \in Below[l] : batch.revision[m] = T.revision[m]
    BY <1>5, <1>6
  <2>3. l \in Tree(T.page)
    BY <1>4, <1>6
  <2> QED
    BY <1>6, <2>2, <2>1, <2>3, GateHolds
<1>7. ASSUME NEW l \in batch.changed, NEW c \in Children[l], n \in Below[c],
             n \notin ItemsReconciled(batch, l)
      PROVE  S.value[n] = T.value[n]
  BY <1>4, <1>5, <1>7, ItemsFollow
<1>8. CASE n \in batch.changed
  <2>1. n \in Reconciled(batch, n) => n \in WrittenByPatch(batch)
    BY <1>2, <1>8 DEF WrittenByPatch
  <2> QED
    BY <1>3, <1>6, <1>8, <2>1
<1>9. CASE n \in Visited(T.page) \ batch.changed
  BY <1>9 DEF Spares
<1>10. CASE n \notin Visited(T.page)
  <2>1. PICK l \in Visited(T.page) : /\ Kind[l] = "List" /\ n \in Below[l]
                                     /\ \E c \in Children[l] : n \in Below[c]
    BY <1>1, <1>10, HiddenInList
  <2>2. CASE l \in batch.changed
    <3>1. PICK c \in Children[l] : n \in Below[c]
      BY <2>1
    <3>2. n \notin Reconciled(batch, l) \/ n \notin ItemsReconciled(batch, l)
      BY <1>2, <2>1, <2>2 DEF WrittenByPatch
    <3> QED
      BY <1>6, <1>7, <2>1, <2>2, <3>1, <3>2
  <2>3. CASE l \notin batch.changed
    BY <2>1, <2>3 DEF Spares, Agree
  <2> QED
    BY <2>2, <2>3
<1> QED
  BY <1>8, <1>9, <1>10

\* A patch brings the page on the screen from S to T.
LEMMA PatchShows ==
  ASSUME NEW S, SnapshotOK(S), NEW T, SnapshotOK(T), Advance(S, T), Shows(view, S), ViewOK(view),
         NEW batch, ~batch.structural, Carries(batch, T), Spares(batch, S, T), host \in Hosts
  PROVE  Shows(AfterPatch(batch), T)
<1> DEFINE written == WrittenByPatch(batch)
           numbered == IF host \in {"Harmony", "SwiftUI"} THEN written \cup batch.numbered
                       ELSE written
<1>1. /\ T.page \in Pages /\ S.page = T.page /\ batch.rootRevision = T.revision[Root[T.page]]
  BY DEF SnapshotOK, Snapshots, Advance, Carries
<1>2. /\ T.value = [n \in Tree(T.page) |-> T.value[n]] /\ T.revision \in [Tree(T.page) -> Nat]
      /\ S.revision \in [Tree(T.page) -> Nat] /\ S.value \in [Tree(T.page) -> Texts]
      /\ \A n \in Tree(T.page) : S.revision[n] <= T.revision[n]
  BY <1>1 DEF SnapshotOK, Advance
<1>3. /\ view.page = T.page /\ view.shown = S.value /\ view.cached \in [Tree(T.page) -> Nat]
      /\ \A n \in Tree(T.page) : view.cached[n] <= S.revision[n]
      /\ view.tree # None =>
           /\ view.tree.page = T.page
           /\ view.tree.revision \in [Tree(T.page) -> Nat]
           /\ \A n \in Tree(T.page) : view.tree.revision[n] <= S.revision[n]
  BY <1>1 DEF Shows
<1>4. /\ AfterPatch(batch).page = view.page
      /\ AfterPatch(batch).tree = view.tree
      /\ AfterPatch(batch).root = batch.rootRevision
      /\ AfterPatch(batch).shown =
           [n \in DOMAIN view.shown |-> IF n \in written THEN batch.value[n] ELSE view.shown[n]]
      /\ AfterPatch(batch).cached =
           [n \in DOMAIN view.cached |->
              IF n \in numbered THEN batch.revision[n] ELSE view.cached[n]]
  BY DEF AfterPatch, ViewOK, HasViewFields
<1>5. \A n \in Tree(T.page) : n \notin written => S.value[n] = T.value[n]
  BY PatchSpares
<1>6. \A n \in written : batch.value[n] = T.value[n] /\ batch.revision[n] = T.revision[n]
  BY PatchWrites
<1>7. \A n \in numbered : batch.revision[n] = T.revision[n]
  BY <1>6 DEF Carries
<1> HIDE DEF AfterPatch, written, numbered
<1>8. AfterPatch(batch).shown = T.value
  <2>1. DOMAIN view.shown = Tree(T.page)
    BY <1>2, <1>3
  <2>2. AfterPatch(batch).shown = [n \in Tree(T.page) |-> T.value[n]]
    BY <1>3, <1>4, <1>5, <1>6, <2>1
  <2> QED
    BY <1>2, <2>2
<1>9. /\ AfterPatch(batch).cached \in [Tree(T.page) -> Nat]
      /\ \A n \in Tree(T.page) : AfterPatch(batch).cached[n] <= T.revision[n]
  <2>1. DOMAIN view.cached = Tree(T.page)
    BY <1>3
  <2>2. ASSUME NEW n \in Tree(T.page)
        PROVE  AfterPatch(batch).cached[n] \in Nat /\ AfterPatch(batch).cached[n] <= T.revision[n]
    BY <1>2, <1>3, <1>4, <1>7, <2>1, <2>2
  <2>3. AfterPatch(batch).cached = [n \in Tree(T.page) |-> AfterPatch(batch).cached[n]]
    BY <1>4, <2>1
  <2> QED
    BY <2>2, <2>3
<1>10. AfterPatch(batch).tree # None =>
         \A n \in Tree(T.page) : AfterPatch(batch).tree.revision[n] <= T.revision[n]
  BY <1>2, <1>3, <1>4
<1> QED
  BY <1>1, <1>3, <1>4, <1>8, <1>9, <1>10 DEF Shows

\* What a renderer takes for a batch it had is one: it shows T already.
LEMMA IgnoredShows ==
  ASSUME NEW S, SnapshotOK(S), NEW T, SnapshotOK(T), Advance(S, T), Shows(view, S),
         NEW batch, Carries(batch, T), Ignored(batch)
  PROVE  Shows(view, T)
<1>1. /\ T.page \in Pages /\ S.page = T.page /\ batch.page = T.page
      /\ batch.rootRevision = T.revision[Root[T.page]]
  BY DEF SnapshotOK, Snapshots, Advance, Carries
<1>2. /\ S.value \in [Tree(T.page) -> Texts] /\ T.value \in [Tree(T.page) -> Texts]
      /\ T.revision \in [Tree(T.page) -> Nat] /\ S.revision \in [Tree(T.page) -> Nat]
      /\ \A n \in Tree(T.page) : S.revision[n] <= T.revision[n]
  BY <1>1 DEF SnapshotOK, Advance
<1>3. Root[T.page] \in Tree(T.page) /\ Below[Root[T.page]] = Tree(T.page)
  BY <1>1, TreeParts DEF Tree
<1>4. S.revision[Root[T.page]] = T.revision[Root[T.page]]
  <2>1. CASE batch.structural /\ host = "Android"
    <3>1. /\ view.tree # None
          /\ view.tree.revision[Root[T.page]] = T.revision[Root[T.page]]
      BY <1>1, <2>1 DEF Ignored, Remembered
    <3>2. /\ view.tree.revision[Root[T.page]] \in Nat
          /\ view.tree.revision[Root[T.page]] <= S.revision[Root[T.page]]
      BY <1>1, <1>3, <3>1 DEF Shows
    <3> QED
      BY <1>2, <1>3, <3>1, <3>2
  <2>2. CASE ~(batch.structural /\ host = "Android")
    BY <1>1, <2>2 DEF Ignored, Shows
  <2> QED
    BY <2>1, <2>2
<1>5. S.value = T.value
  <2>1. \A n \in Tree(T.page) : S.value[n] = T.value[n]
    BY <1>3, <1>4 DEF Advance, Agree
  <2> QED
    BY <1>2, <2>1
<1>6. \A n \in Tree(T.page) : view.cached[n] <= T.revision[n]
  <2> SUFFICES ASSUME NEW n \in Tree(T.page) PROVE view.cached[n] <= T.revision[n]
    OBVIOUS
  <2>1. view.cached[n] \in Nat /\ view.cached[n] <= S.revision[n]
    BY <1>1 DEF Shows
  <2> QED
    BY <1>2, <2>1
<1>7. ASSUME view.tree # None, NEW n \in Tree(T.page) PROVE view.tree.revision[n] <= T.revision[n]
  <2>1. view.tree.revision[n] \in Nat /\ view.tree.revision[n] <= S.revision[n]
    BY <1>1, <1>7 DEF Shows
  <2> QED
    BY <1>2, <2>1
<1> QED
  BY <1>1, <1>4, <1>5, <1>6, <1>7 DEF Shows

-----------------------------------------------------------------------------
(***************************************************************************)
(* The queue, and the invariant.                                           *)
(***************************************************************************)
\* The batches that are under way, and those that are not too old.
Queued ==
  {x \in {pending, decoding} \cup {posted[i] : i \in 1 .. Len(posted)} : x # None}

Waiting == {x \in Queued : x.generation = generation}

QueueTypes ==
  /\ pending \in Items \cup {None} /\ decoding \in Items \cup {None}
  /\ posted \in Seq(Items)

QueueOK ==
  /\ generation \in Nat
  /\ QueueTypes
  /\ \A x \in Queued : x.generation <= generation

\* The batch brings the views v to snapshot T: it has a page that is not shown, or
\* they show a snapshot that the batch was compared with.
Catches(v, batch, T) ==
  \/ batch.structural /\ v.page # batch.page
  \/ \E S \in Snapshots :
       SnapshotOK(S) /\ Shows(v, S) /\ Advance(S, T) /\ Spares(batch, S, T)

\* The views show what the runtime remembers, or will when they get what is under way.
Follows ==
  IF last = None THEN view.page = None
  ELSE \/ Shows(view, last)
       \/ Waiting # {} /\ \A x \in Waiting : Catches(view, x.batch, last)

UiInv ==
  /\ host \in Hosts
  /\ LastOK
  /\ last # None => last.value = Evaluated(last.page, state)
  /\ ViewOK(view)
  /\ QueueOK
  /\ last = None => Queued = {}
  /\ \A x \in Waiting : Carries(x.batch, last)
  /\ refused => lost
  /\ ~lost => Follows

LEMMA AdvanceSame ==
  ASSUME NEW S, SnapshotOK(S) PROVE Advance(S, S)
  BY DEF Advance, Agree, SnapshotOK

LEMMA SparesSame == ASSUME NEW S, NEW batch PROVE Spares(batch, S, S)
  BY DEF Spares, Agree

LEMMA AfterTreeOK == ASSUME NEW batch PROVE ViewOK(AfterTree(batch))
<1>1. /\ HasViewFields(AfterTree(batch))
      /\ AfterTree(batch).page = batch.page
      /\ AfterTree(batch).tree =
           IF host = "Android"
           THEN [page |-> batch.page, value |-> batch.value, revision |-> batch.revision]
           ELSE None
  BY DEF AfterTree, HasViewFields
<1> HIDE DEF AfterTree
<1> QED
  BY <1>1 DEF ViewOK

LEMMA AfterPatchOK == ASSUME NEW batch, ViewOK(view) PROVE ViewOK(AfterPatch(batch))
<1> DEFINE written == WrittenByPatch(batch)
           numbered == IF host \in {"Harmony", "SwiftUI"} THEN written \cup batch.numbered
                       ELSE written
           shown == [n \in DOMAIN view.shown |-> IF n \in written THEN batch.value[n] ELSE view.shown[n]]
           cached == [n \in DOMAIN view.cached |->
                        IF n \in numbered THEN batch.revision[n] ELSE view.cached[n]]
<1>1. AfterPatch(batch) = [view EXCEPT !.root = batch.rootRevision, !.shown = shown, !.cached = cached]
  BY DEF AfterPatch
<1> HIDE DEF shown, cached
<1>2. AfterPatch(batch) = [page |-> view.page, root |-> batch.rootRevision, shown |-> shown,
                           cached |-> cached, tree |-> view.tree]
  BY <1>1 DEF ViewOK, HasViewFields
<1> QED
  BY <1>2 DEF ViewOK, HasViewFields

\* A batch of snapshot T: unless others were missed, the views show T when the
\* renderer got it.
LEMMA CommitFollows ==
  ASSUME host \in Hosts, ViewOK(view), NEW T, SnapshotOK(T), NEW item, NEW missed,
         Carries(item.batch, T), Commit(item, missed),
         ~missed => Catches(view, item.batch, T)
  PROVE  ViewOK(view') /\ (refused' => lost') /\ (~lost' => Shows(view', T))
<1> DEFINE batch == item.batch
           old == Remembered(batch) /\ view.tree.value # view.shown
<1>1. /\ refused' = (~Showing(batch.page) /\ ~batch.structural)
      /\ view' = IF Ignored(batch) \/ refused' THEN view
                 ELSE IF batch.structural THEN AfterTree(batch) ELSE AfterPatch(batch)
      /\ lost' = IF batch.structural THEN Showing(batch.page) /\ (missed \/ old) ELSE missed
  BY DEF Commit
<1>2. Carries(batch, T) /\ batch.page = T.page
  BY DEF Carries
<1>3. ViewOK(view')
  BY <1>1, AfterTreeOK, AfterPatchOK
<1>4. ASSUME ~missed, Showing(batch.page) \/ ~batch.structural
      PROVE  \E S \in Snapshots :
               SnapshotOK(S) /\ Shows(view, S) /\ Advance(S, T) /\ Spares(batch, S, T)
  BY <1>4 DEF Catches, Showing
<1>5. ASSUME ~missed, Showing(batch.page) \/ ~batch.structural PROVE Showing(batch.page)
  BY <1>2, <1>4, <1>5 DEF Shows, Advance, Showing
<1>6. refused' => lost'
  BY <1>1, <1>5
<1>7. ASSUME ~lost', batch.structural, ~Showing(batch.page) PROVE Shows(view', T)
  <2>1. ~Ignored(batch)
    BY <1>7 DEF Ignored, Remembered, ViewOK, Showing
  <2>2. view' = AfterTree(batch)
    BY <1>1, <1>7, <2>1
  <2> QED
    BY <1>2, <1>7, <2>2, NewTreeShows
<1>8. ASSUME ~lost', Showing(batch.page) \/ ~batch.structural PROVE Shows(view', T)
  <2>1. ~missed /\ (batch.structural => ~old)
    BY <1>1, <1>8
  <2>2. PICK S \in Snapshots :
          SnapshotOK(S) /\ Shows(view, S) /\ Advance(S, T) /\ Spares(batch, S, T)
    BY <1>4, <1>8, <2>1
  <2>3. ~refused'
    BY <1>1, <1>5, <1>8, <2>1
  <2>4. CASE Ignored(batch)
    <3>1. view' = view
      BY <1>1, <2>4
    <3>2. Shows(view, T)
      BY <1>2, <2>2, <2>4, IgnoredShows
    <3> QED
      BY <3>1, <3>2
  <2>5. CASE ~Ignored(batch) /\ batch.structural
    <3>1. view' = AfterTree(batch)
      BY <1>1, <2>3, <2>5
    <3>2. Remembered(batch) => view.tree.value = view.shown
      BY <2>1, <2>5
    <3>3. Shows(AfterTree(batch), T)
      BY <1>2, <2>2, <2>5, <3>2, SameTreeShows
    <3> QED
      BY <3>1, <3>3
  <2>6. CASE ~Ignored(batch) /\ ~batch.structural
    <3>1. view' = AfterPatch(batch)
      BY <1>1, <2>3, <2>6
    <3>2. Shows(AfterPatch(batch), T)
      BY <1>2, <2>2, <2>6, PatchShows
    <3> QED
      BY <3>1, <3>2
  <2> QED
    BY <2>4, <2>5, <2>6
<1> QED
  BY <1>3, <1>6, <1>7, <1>8

\* A batch that was under way reaches the renderer, or is too old.
LEMMA CommitCurrentStep ==
  ASSUME UiInv, ~closed, NEW item \in Queued, CommitCurrent(item),
         UNCHANGED <<host, state, last, generation, closed>>, ~refused,
         QueueTypes', Queued' \subseteq Queued, Queued \subseteq Queued' \cup {item}
  PROVE  UiInv'
<1>1. Waiting' \subseteq Waiting
  BY DEF Waiting
<1>2. last # None /\ SnapshotOK(last)
  BY DEF UiInv, LastOK
<1>3. QueueOK' /\ LastOK' /\ (last = None => Queued = {})'
  BY <1>2 DEF UiInv, QueueOK, LastOK
<1>4. (\A x \in Waiting : Carries(x.batch, last))'
  BY <1>1 DEF UiInv
<1>5. (last # None => last.value = Evaluated(last.page, state))'
  BY DEF UiInv, Evaluated
<1>6. CASE Current(item)
  <2>1. item \in Waiting
    BY <1>6 DEF Current, Waiting
  <2>2. Commit(item, lost)
    BY <1>6 DEF CommitCurrent
  <2>3. Shows(view, last) => Catches(view, item.batch, last)
    BY <1>2, AdvanceSame, SparesSame DEF Catches, SnapshotOK
  <2>4. ~lost => Catches(view, item.batch, last)
    BY <1>2, <2>1, <2>3 DEF UiInv, Follows
  <2>5. Carries(item.batch, last) /\ host \in Hosts /\ ViewOK(view)
    BY <2>1 DEF UiInv
  <2>6. ViewOK(view') /\ (refused' => lost') /\ (~lost' => Shows(view', last))
    BY <1>2, <2>2, <2>4, <2>5, CommitFollows
  <2>7. ~lost' => Follows'
    BY <1>2, <2>6 DEF Follows
  <2> QED
    BY <1>3, <1>4, <1>5, <2>5, <2>6, <2>7 DEF UiInv
<1>7. CASE ~Current(item)
  <2>1. item \notin Waiting
    BY <1>7 DEF Current, Waiting
  <2>2. Waiting' = Waiting
    BY <1>1, <2>1 DEF Waiting
  <2>3. UNCHANGED <<view, refused, lost>>
    BY <1>7 DEF CommitCurrent, Keep
  <2>4. ~lost' => Follows'
    BY <2>2, <2>3 DEF UiInv, Follows
  <2> QED
    BY <1>3, <1>4, <1>5, <2>3, <2>4 DEF UiInv
<1> QED
  BY <1>6, <1>7

\* The queue hands a batch on.
LEMMA HandOnStep ==
  ASSUME UiInv, QueueTypes', Queued' = Queued,
         UNCHANGED <<host, state, last, generation, view, refused, lost>>
  PROVE  UiInv'
<1>1. Waiting' = Waiting
  BY DEF Waiting
<1>2. QueueOK'
  BY DEF UiInv, QueueOK
<1>3. Follows => Follows'
  BY <1>1 DEF Follows
<1>4. LastOK' /\ (last # None => last.value = Evaluated(last.page, state))'
  BY DEF UiInv, LastOK, Evaluated
<1> QED
  BY <1>1, <1>2, <1>3, <1>4 DEF UiInv

-----------------------------------------------------------------------------
(***************************************************************************)
(* The steps.                                                              *)
(***************************************************************************)
LEMMA NoneDiffers == \A x \in Items : x # None
  BY NoneAssumption

LEMMA SettledIsEmpty ==
  ASSUME Settled PROVE Queued = {} /\ Waiting = {}
  BY DEF Settled, Queued, Waiting

\* A batch that is made while nothing was missed is one of what the views show.
LEMMA RenderCatches ==
  ASSUME UiInv, NEW p \in Pages, NEW s \in [Slots -> Values], ~Missed
  PROVE  Catches(view, Batch(Snapshot(p, s)), Snapshot(p, s))
<1> DEFINE snap == Snapshot(p, s)
<1>1. LastOK /\ ~lost /\ Waiting = {}
  BY SettledIsEmpty DEF UiInv, Missed
<1>2. SnapshotOK(snap) /\ snap.page = p
  BY <1>1, SnapshotParts
<1>3. Batch(snap).page = p
  BY <1>2, BatchFields
<1>4. IF last = None THEN view.page = None ELSE Shows(view, last)
  BY <1>1 DEF UiInv, Follows
<1>5. CASE last # None /\ last.page = p
  <2>1. Advance(last, snap) /\ Spares(Batch(snap), last, snap)
    BY <1>1, <1>5, SnapshotAdvances, BatchSpares
  <2>2. SnapshotOK(last) /\ last \in Snapshots
    BY <1>1, <1>5 DEF LastOK, SnapshotOK
  <2> QED
    BY <1>4, <1>5, <2>1, <2>2 DEF Catches
<1>6. CASE ~(last # None /\ last.page = p)
  <2>1. Batch(snap).structural
    BY <1>1, <1>6, OtherPageWhole
  <2>2. view.page # p
    BY <1>4, <1>6, NoneAssumption DEF Shows
  <2> QED
    BY <1>3, <2>1, <2>2 DEF Catches
<1> QED
  BY <1>5, <1>6

LEMMA SuppressedStep ==
  ASSUME UiInv, NEW p \in Pages, NEW s \in [Slots -> Values], Suppressed(Snapshot(p, s)),
         state' = s, UNCHANGED <<host, last, generation, queue, lost, view, refused>>
  PROVE  UiInv'
<1> DEFINE snap == Snapshot(p, s)
<1>1. LastOK /\ last # None /\ SnapshotOK(last)
  BY DEF UiInv, LastOK, Suppressed
<1>2. /\ snap.page = p /\ snap.value = Evaluated(p, s) /\ SnapshotOK(snap)
      /\ last.page = p /\ last.revision[Root[p]] = snap.revision[Root[p]]
  BY <1>1, SnapshotParts DEF Suppressed
<1>3. Advance(last, snap)
  BY <1>1, <1>2, SnapshotAdvances
<1>4. Root[p] \in Tree(p) /\ Below[Root[p]] = Tree(p)
  BY TreeParts DEF Tree
<1> HIDE DEF snap
<1>5. last.value = snap.value
  <2>1. \A n \in Tree(p) : last.value[n] = snap.value[n]
    BY <1>2, <1>3, <1>4 DEF Advance, Agree
  <2>2. last.value \in [Tree(p) -> Texts] /\ snap.value \in [Tree(p) -> Texts]
    BY <1>1, <1>2 DEF SnapshotOK
  <2> QED
    BY <2>1, <2>2
<1>6. (last # None => last.value = Evaluated(last.page, state))'
  BY <1>2, <1>5 DEF Evaluated
<1>7. Queued' = Queued /\ Waiting' = Waiting /\ QueueTypes' = QueueTypes
  BY DEF queue, Queued, Waiting, QueueTypes
<1>8. QueueOK' /\ LastOK'
  BY <1>7 DEF UiInv, QueueOK, LastOK
<1>9. Follows => Follows'
  BY <1>7 DEF Follows
<1> QED
  BY <1>6, <1>7, <1>8, <1>9 DEF UiInv

\* What holds of the new snapshot, before the batch goes anywhere.
LEMMA RenderedParts ==
  ASSUME UiInv, NEW p \in Pages, NEW s \in [Slots -> Values],
         last' = Snapshot(p, s), state' = s, host' = host, generation' = generation + 1
  PROVE  /\ LastOK' /\ last' # None /\ SnapshotOK(last')
         /\ (last # None => last.value = Evaluated(last.page, state))'
         /\ Carries(Batch(Snapshot(p, s)), last')
         /\ [generation |-> generation', batch |-> Batch(Snapshot(p, s))] \in Items
         /\ host' \in Hosts /\ generation' \in Nat
         /\ \A x \in Queued : x.generation \in Nat /\ x.generation < generation'
<1> DEFINE snap == Snapshot(p, s)
<1>1. LastOK
  BY DEF UiInv
<1>2. SnapshotOK(snap) /\ snap.page = p /\ snap.value = Evaluated(p, s)
  BY <1>1, SnapshotParts
<1>3. Carries(Batch(snap), snap) /\ Batch(snap) \in Batches
  BY <1>2, BatchCarries, BatchTyped
<1> HIDE DEF snap
<1>4. snap # None
  BY <1>2, NoneAssumption DEF SnapshotOK
<1>5. last' = snap
  BY DEF snap
<1>6. LastOK' /\ SnapshotOK(last')
  BY <1>2, <1>5 DEF LastOK, SnapshotOK
<1>7. generation' \in Nat
  BY DEF UiInv, QueueOK
<1>8. [generation |-> generation', batch |-> Batch(snap)] \in Items
  BY <1>3, <1>7 DEF Items
<1>9. \A x \in Queued : x.generation \in Nat /\ x.generation < generation'
  <2> SUFFICES ASSUME NEW x \in Queued PROVE x.generation \in Nat /\ x.generation < generation'
    OBVIOUS
  <2>1. x \in Items
    <3>1. \A i \in 1 .. Len(posted) : posted[i] \in Items
      BY DEF UiInv, QueueOK, QueueTypes
    <3> QED
      BY <3>1 DEF UiInv, QueueOK, QueueTypes, Queued
  <2>2. x.generation \in Nat /\ generation \in Nat /\ x.generation <= generation
    BY <2>1 DEF UiInv, QueueOK, Items
  <2> QED
    BY <2>2
<1>10. (last # None => last.value = Evaluated(last.page, state))'
  BY <1>2, <1>5 DEF Evaluated
<1> QED
  BY <1>3, <1>4, <1>5, <1>6, <1>7, <1>8, <1>9, <1>10 DEF snap, UiInv

LEMMA StraightStep ==
  ASSUME UiInv, NEW p \in Pages, NEW s \in [Slots -> Values],
         last' = Snapshot(p, s), state' = s, host' = host, generation' = generation + 1,
         NEW item, item = [generation |-> generation + 1, batch |-> Batch(Snapshot(p, s))],
         Commit(item, Missed), UNCHANGED queue
  PROVE  UiInv'
<1>1. /\ LastOK' /\ last' # None /\ SnapshotOK(last')
      /\ (last # None => last.value = Evaluated(last.page, state))'
      /\ Carries(item.batch, last')
      /\ host' \in Hosts /\ generation' \in Nat
      /\ \A x \in Queued : x.generation \in Nat /\ x.generation < generation'
  BY RenderedParts
<1>2. Queued' = Queued /\ QueueTypes'
  BY DEF queue, Queued, QueueTypes, UiInv, QueueOK
<1>3. Waiting' = {}
  <2> SUFFICES ASSUME NEW x \in Queued, x.generation = generation' PROVE FALSE
    BY <1>2 DEF Waiting
  <2>1. x.generation < x.generation /\ x.generation \in Nat
    BY <1>1
  <2> QED
    BY <2>1
<1>4. QueueOK'
  <2>1. \A x \in Queued' : x.generation <= generation'
    <3> SUFFICES ASSUME NEW x \in Queued PROVE x.generation <= generation'
      BY <1>2
    <3>1. x.generation \in Nat /\ generation' \in Nat /\ x.generation < generation'
      BY <1>1
    <3> QED
      BY <3>1
  <2> QED
    BY <1>1, <1>2, <2>1 DEF QueueOK
<1>5. ~Missed => Catches(view, item.batch, last')
  BY RenderCatches
<1>6. PICK T : T = last'
  OBVIOUS
<1>7. ViewOK(view') /\ (refused' => lost') /\ (~lost' => Shows(view', T))
  <2>1. host \in Hosts /\ ViewOK(view)
    BY DEF UiInv
  <2>2. SnapshotOK(T) /\ Carries(item.batch, T) /\ (~Missed => Catches(view, item.batch, T))
    BY <1>1, <1>5, <1>6
  <2> QED
    BY <2>1, <2>2, CommitFollows
<1>8. ~lost' => Follows'
  BY <1>1, <1>6, <1>7 DEF Follows
<1> QED
  BY <1>1, <1>3, <1>4, <1>7, <1>8 DEF UiInv

LEMMA EnqueueStep ==
  ASSUME UiInv, NEW p \in Pages, NEW s \in [Slots -> Values], ~refused,
         last' = Snapshot(p, s), state' = s, host' = host, generation' = generation + 1,
         NEW item, item = [generation |-> generation + 1, batch |-> Batch(Snapshot(p, s))],
         Enqueue(item)
  PROVE  UiInv'
<1>1. /\ LastOK' /\ last' # None /\ SnapshotOK(last')
      /\ (last # None => last.value = Evaluated(last.page, state))'
      /\ Carries(item.batch, last')
      /\ host' \in Hosts /\ generation' \in Nat /\ item \in Items
      /\ \A x \in Queued : x.generation \in Nat /\ x.generation < generation'
  BY RenderedParts
<1>2. item # None /\ item.generation = generation'
  BY <1>1, NoneDiffers
<1>3. /\ posted' = posted
      /\ \/ decoding' = item /\ pending' = None
         \/ pending' = item /\ decoding' = decoding
      /\ UNCHANGED <<view, refused>> /\ lost' = Missed
  BY DEF Enqueue, Keep
<1>4. QueueTypes'
  BY <1>1, <1>3 DEF QueueTypes, UiInv, QueueOK
<1>5. Queued' \subseteq Queued \cup {item} /\ item \in Queued'
  BY <1>2, <1>3 DEF Queued
<1>6. Waiting' = {item}
  <2>1. ASSUME NEW x \in Queued, x.generation = generation' PROVE FALSE
    <3>1. x.generation \in Nat /\ x.generation < x.generation
      BY <1>1, <2>1
    <3> QED
      BY <3>1
  <2> QED
    BY <1>2, <1>5, <2>1 DEF Waiting
<1>7. QueueOK'
  <2>1. ASSUME NEW x \in Queued' PROVE x.generation <= generation'
    <3>1. CASE x = item
      BY <1>1, <1>2, <3>1
    <3>2. CASE x \in Queued
      <4>1. x.generation \in Nat /\ generation' \in Nat /\ x.generation < generation'
        BY <1>1, <3>2
      <4> QED
        BY <4>1
    <3> QED
      BY <1>5, <2>1, <3>1, <3>2
  <2> QED
    BY <1>1, <1>4, <2>1 DEF QueueOK
<1>8. ~lost' => Catches(view', item.batch, last')
  BY <1>3, RenderCatches
<1>9. ~lost' => Follows'
  BY <1>1, <1>6, <1>8 DEF Follows
<1>10. \A x \in Waiting' : Carries(x.batch, last')
  BY <1>1, <1>6
<1>11. ViewOK(view') /\ ~refused'
  BY <1>3 DEF UiInv
<1> QED
  BY <1>1, <1>7, <1>9, <1>10, <1>11 DEF UiInv

LEMMA RenderStep ==
  ASSUME UiInv, NEW p \in Pages, NEW s \in [Slots -> Values], NEW large, Render(p, s, large)
  PROVE  UiInv'
<1> DEFINE snap == Snapshot(p, s)
           item == [generation |-> generation + 1, batch |-> Batch(snap)]
<1>1. /\ ~refused /\ state' = s /\ UNCHANGED <<host, closed>>
      /\ \/ Suppressed(snap) /\ UNCHANGED <<last, generation, queue, lost>> /\ Keep
         \/ /\ last' = snap /\ generation' = generation + 1
            /\ Commit(item, Missed) /\ UNCHANGED queue
         \/ /\ last' = snap /\ generation' = generation + 1
            /\ Enqueue(item)
  BY DEF Render
<1>2. CASE Suppressed(snap) /\ UNCHANGED <<last, generation, queue, lost>> /\ Keep
  BY <1>1, <1>2, SuppressedStep DEF Keep
<1>3. CASE /\ last' = snap /\ generation' = generation + 1
           /\ Commit(item, Missed) /\ UNCHANGED queue
  <2>1. PICK x : x = item
    OBVIOUS
  <2> QED
    BY <1>1, <1>3, <2>1, StraightStep
<1>4. CASE last' = snap /\ generation' = generation + 1 /\ Enqueue(item)
  <2>1. PICK x : x = item
    OBVIOUS
  <2> QED
    BY <1>1, <1>4, <2>1, EnqueueStep
<1> QED
  BY <1>1, <1>2, <1>3, <1>4

LEMMA QueueSteps ==
  ASSUME UiInv, Take \/ Stop \/ Post
  PROVE  UiInv'
<1>1. UNCHANGED <<host, state, last, generation, view, refused, lost>>
  BY DEF Take, Stop, Post, runtime, Keep
<1>2. QueueTypes /\ posted \in Seq(Items)
  BY DEF UiInv, QueueOK, QueueTypes
<1>3. CASE Take
  <2>1. QueueTypes' /\ Queued' = Queued
    BY <1>2, <1>3 DEF Take, QueueTypes, Queued
  <2> QED
    BY <1>1, <2>1, HandOnStep
<1>4. CASE Stop
  <2>1. QueueTypes' /\ Queued' = Queued
    BY <1>2, <1>4 DEF Stop, QueueTypes, Queued
  <2> QED
    BY <1>1, <2>1, HandOnStep
<1>5. CASE Post
  <2>1. /\ decoding \in Items /\ posted' = Append(posted, decoding)
        /\ decoding' = None /\ pending' = pending
    BY <1>2, <1>5 DEF Post, QueueTypes
  <2>2. Len(posted) \in Nat /\ Len(posted') = Len(posted) + 1 /\ posted' \in Seq(Items)
    BY <1>2, <2>1
  <2>3. \A i \in 1 .. Len(posted) : posted'[i] = posted[i]
    BY <1>2, <2>1
  <2>4. posted'[Len(posted) + 1] = decoding
    BY <1>2, <2>1
  <2>5. {posted'[i] : i \in 1 .. Len(posted')} = {posted[i] : i \in 1 .. Len(posted)} \cup {decoding}
    <3>1. 1 .. Len(posted') = 1 .. Len(posted) \cup {Len(posted) + 1}
      BY <2>2
    <3> QED
      BY <2>3, <2>4, <3>1
  <2>6. Queued' = Queued
    BY <2>1, <2>5 DEF Queued
  <2>7. QueueTypes'
    BY <1>2, <2>1, <2>2 DEF QueueTypes
  <2> QED
    BY <1>1, <2>6, <2>7, HandOnStep
<1> QED
  BY <1>3, <1>4, <1>5

LEMMA RunPostedStep ==
  ASSUME UiInv, ~closed, RunPosted
  PROVE  UiInv'
<1>1. QueueTypes /\ posted \in Seq(Items) /\ posted # <<>>
  BY DEF UiInv, QueueOK, QueueTypes, RunPosted
<1>2. PICK item : item = posted[1]
  OBVIOUS
<1>3. Len(posted) \in Nat /\ 1 \in 1 .. Len(posted) /\ item \in Items /\ item = Head(posted)
  BY <1>1, <1>2
<1>4. /\ posted' = Tail(posted) /\ ~refused /\ CommitCurrent(item)
      /\ UNCHANGED <<host, state, last, generation, closed, pending, decoding>>
  BY <1>3 DEF RunPosted, runtime
<1>5. item \in Queued
  BY <1>2, <1>3, NoneDiffers DEF Queued
<1>6. posted' \in Seq(Items) /\ Len(posted') = Len(posted) - 1
  BY <1>1, <1>4
<1>7. \A i \in 1 .. Len(posted') : posted'[i] = posted[i + 1] /\ i + 1 \in 1 .. Len(posted)
  BY <1>1, <1>3, <1>4, <1>6
<1>8. {posted'[i] : i \in 1 .. Len(posted')} \subseteq {posted[i] : i \in 1 .. Len(posted)}
  BY <1>7
<1>9. ASSUME NEW i \in 1 .. Len(posted), i # 1
      PROVE  posted[i] \in {posted'[j] : j \in 1 .. Len(posted')}
  <2>1. i - 1 \in 1 .. Len(posted') /\ (i - 1) + 1 = i
    BY <1>3, <1>6, <1>9
  <2>2. posted'[i - 1] = posted[i]
    BY <1>7, <2>1
  <2> QED
    BY <2>1, <2>2
<1>10. Queued' \subseteq Queued
  BY <1>4, <1>8 DEF Queued
<1>11. Queued \subseteq Queued' \cup {item}
  BY <1>2, <1>4, <1>9 DEF Queued
<1>12. QueueTypes'
  BY <1>1, <1>4, <1>6 DEF QueueTypes
<1> QED
  BY <1>4, <1>5, <1>10, <1>11, <1>12, CommitCurrentStep

LEMMA DeliverStep ==
  ASSUME UiInv, ~closed, Deliver
  PROVE  UiInv'
<1>1. PICK item : item = decoding
  OBVIOUS
<1>2. /\ decoding # None /\ decoding' = pending /\ pending' = None /\ posted' = posted
      /\ ~refused /\ CommitCurrent(item)
      /\ UNCHANGED <<host, state, last, generation, closed>>
  BY <1>1 DEF Deliver, runtime
<1>3. item \in Queued /\ Queued' \subseteq Queued /\ Queued \subseteq Queued' \cup {item}
  BY <1>1, <1>2 DEF Queued
<1>4. QueueTypes'
  BY <1>2 DEF QueueTypes, UiInv, QueueOK
<1> QED
  BY <1>2, <1>3, <1>4, CommitCurrentStep

LEMMA UiInit == Init => UiInv
<1> SUFFICES ASSUME Init PROVE UiInv
  OBVIOUS
<1>1. last = None /\ generation = 0 /\ pending = None /\ decoding = None /\ posted = <<>>
  BY DEF Init
<1>2. Queued = {}
  BY <1>1 DEF Queued
<1>3. QueueOK /\ Waiting = {}
  BY <1>1, <1>2 DEF QueueOK, QueueTypes, Waiting
<1>4. ViewOK(view) /\ view.page = None
  BY DEF Init, ViewOK, HasViewFields
<1>5. Follows /\ LastOK
  BY <1>1, <1>4 DEF Follows, LastOK
<1> QED
  BY <1>1, <1>2, <1>3, <1>4, <1>5 DEF UiInv, Init

LEMMA UiStep ==
  ASSUME UiInv, ~closed, [Next]_vars
  PROVE  closed' \/ UiInv'
<1>1. CASE \E p \in Pages, s \in [Slots -> Values], large \in Sizes : Render(p, s, large)
  BY <1>1, RenderStep
<1>2. CASE Take \/ Stop \/ Post
  BY <1>2, QueueSteps
<1>3. CASE RunPosted
  BY <1>3, RunPostedStep
<1>4. CASE Deliver
  BY <1>4, DeliverStep
<1>5. CASE Close
  BY <1>5 DEF Close
<1>6. CASE UNCHANGED vars
  <2>1. UNCHANGED <<host, state, last, generation, view, refused, lost, pending, decoding, posted>>
    BY <1>6 DEF vars, queue
  <2>2. QueueTypes' /\ Queued' = Queued
    BY <2>1 DEF QueueTypes, Queued, UiInv, QueueOK
  <2> QED
    BY <2>1, <2>2, HandOnStep
<1> QED
  BY <1>1, <1>2, <1>3, <1>4, <1>5, <1>6 DEF Next

LEMMA ClosedStays ==
  ASSUME closed, [Next]_vars PROVE closed'
  BY DEF Next, Render, Take, Stop, Post, RunPosted, Deliver, Close, runtime, vars

LEMMA UiInvariant == Spec => [](closed \/ UiInv)
  BY UiInit, UiStep, ClosedStays, PTL DEF Spec

\* Whatever the pages, the renderer and the order in which batches are decoded: as long
\* as no batch was missed, the renderer can do what it is asked, and once nothing is
\* under way the screen shows what the last handler left.
THEOREM ScreenAlwaysFollows == Spec => []ScreenFollows
<1>1. closed \/ UiInv => ScreenFollows
  <2> SUFFICES ASSUME UiInv, ~lost, ~closed PROVE ~refused /\ (Settled => OnScreen)
    BY DEF ScreenFollows
  <2>1. ~refused
    BY DEF UiInv
  <2>2. ASSUME Settled, last # None PROVE Showing(last.page) /\ view.shown = Evaluated(last.page, state)
    <3>1. Shows(view, last)
      BY <2>2, SettledIsEmpty DEF UiInv, Follows
    <3> QED
      BY <2>2, <3>1 DEF UiInv, Shows, Showing
  <2> QED
    BY <2>1, <2>2 DEF OnScreen
<1> QED
  BY <1>1, UiInvariant, PTL
=============================================================================
