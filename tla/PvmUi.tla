------------------------------- MODULE PvmUi -------------------------------
(***************************************************************************)
(* What a render becomes on the screen.  The runtime takes a snapshot of   *)
(* the page, numbers its nodes with revisions, leaves out a page that did  *)
(* not change, and hands the host a batch: the complete tree, or a patch   *)
(* of the nodes that changed.  The host decodes a large batch away from    *)
(* its main thread, keeps the newest one that waits, and its renderer      *)
(* brings the native views up to date.                                     *)
(*                                                                         *)
(* Pages are static trees and node identifiers are unique over all pages,  *)
(* so children only change with the page.  The properties of a node are    *)
(* one value, that of the state slot they are bound to.                    *)
(***************************************************************************)
EXTENDS Integers, Sequences

CONSTANTS
  Nodes, Pages,
  Root,        \* the root of each page
  Children,    \* the children of each node
  Kind,        \* "Column", "Text", "List" or "NativeSurface"
  Bound,       \* the state slot the properties of a node are bound to, or None
  Slots, Values,
  Declared,    \* the value each slot starts with
  Hosts,       \* a subset of {"Android", "UIKit", "SwiftUI", "Harmony"}
  Sizes,       \* which batches are larger than the threshold of decoding
  MaxRenders,
  None

ASSUME UiAssumption ==
  /\ Root \in [Pages -> Nodes] /\ Children \in [Nodes -> SUBSET Nodes]
  /\ Bound \in [Nodes -> Slots \cup {None}]
  /\ Declared \in [Slots -> Values] /\ Sizes \subseteq BOOLEAN
  /\ Hosts \subseteq {"Android", "UIKit", "SwiftUI", "Harmony"}

\* The nodes of a page, and those at and below a node.
Below[n \in Nodes] == {n} \cup UNION {Below[c] : c \in Children[n]}
Tree(p) == Below[Root[p]]

\* Pages are nested where they are parsed, and each node of a module has an
\* identifier of its own.
ASSUME TreeAssumption ==
  /\ \A X \in SUBSET Nodes : X # {} => \E n \in X : Children[n] \cap X = {}
  /\ \A n, m \in Nodes : n # m => Children[n] \cap Children[m] = {}
  /\ \A p \in Pages, n \in Nodes : Root[p] \notin Children[n]
  /\ \A p, q \in Pages : p # q => Root[p] # Root[q]

\* What the runtime remembers, and what it sends to the host.
Texts == Values \cup {None}

Snapshots ==
  [page : Pages, value : UNION {[S -> Texts] : S \in SUBSET Nodes},
   revision : UNION {[S -> Nat] : S \in SUBSET Nodes}]

Batches ==
  [structural : BOOLEAN, page : Pages, rootRevision : Nat, changed : SUBSET Nodes,
   value : UNION {[S -> Texts] : S \in SUBSET Nodes},
   revision : UNION {[S -> Nat] : S \in SUBSET Nodes}, numbered : SUBSET Nodes]

Items == [generation : Nat, batch : Batches]

ASSUME NoneAssumption == None \notin Pages /\ None \notin Snapshots /\ None \notin Items

VARIABLES
  host,        \* the host this application runs on
  state,       \* the slots of the runtime
  last,        \* last_snapshot
  renders,     \* how often a handler ended in a render
  generation,  \* uiGeneration, requestGeneration
  pending,     \* the batch that waits for the worker
  working,     \* uiWorkerRunning, decodeTask
  decoding,    \* the batch the worker decodes
  posted,      \* Android: decoded batches the main thread has not run yet
  view,        \* the native views, and what the renderer remembers of them
  closed,
  refused,     \* the renderer refused a batch
  committed,   \* the generation the renderer got last
  lost         \* the renderer missed a batch, or compared with an old tree

queue == <<pending, working, decoding, posted>>
vars == <<host, state, last, renders, generation, queue, view, closed, refused, committed, lost>>

-----------------------------------------------------------------------------
(* The runtime: snapshots and revisions. *)

Known(n) == last # None /\ n \in Tree(last.page)

LocalChange(n, value) == ~Known(n) \/ last.value[n] # value[n]

\* mutant: the revisions of the children are not compared
SameOwnData(n, value, below) == ~LocalChange(n, value)

SameNodeData(n, value, below) ==
  ~LocalChange(n, value) /\ \A c \in Children[n] : below[c] = last.revision[c]

Revisions(p, value) ==
  LET revision[n \in Tree(p)] ==
        IF ~Known(n) THEN 1
        ELSE last.revision[n] +
             (IF SameNodeData(n, value, [c \in Children[n] |-> revision[c]]) THEN 0 ELSE 1)
  IN [n \in Tree(p) |-> revision[n]]

\* What the nodes of page p show when the slots hold s.
Evaluated(p, s) == [n \in Tree(p) |-> IF Bound[n] = None THEN None ELSE s[Bound[n]]]

Snapshot(p, s) ==
  LET value == Evaluated(p, s)
  IN [page |-> p, value |-> value, revision |-> Revisions(p, value)]

Changed(snap, n) == ~Known(n) \/ snap.revision[n] # last.revision[n]

StructureChanged(snap, n) ==
  ~Known(n) \/ (Kind[n] = "NativeSurface" /\ LocalChange(n, snap.value))

\* The nodes a patch looks at: a list goes whole, with its items.
Visited(p) ==
  {n \in Tree(p) : \A l \in Tree(p) \ {n} : Kind[l] = "List" => n \notin Below[l]}

Delta(snap) ==
  {n \in Visited(snap.page) :
     IF Kind[n] = "List" THEN Changed(snap, n) ELSE LocalChange(n, snap.value)}

\* The complete tree when the structure changed, and a patch otherwise.
Batch(snap) ==
  LET structural == \E n \in Tree(snap.page) : StructureChanged(snap, n)
      nodes == IF structural THEN Tree(snap.page) ELSE UNION {Below[n] : n \in Delta(snap)}
      numbered == {n \in Visited(snap.page) : Changed(snap, n)}
  IN [structural |-> structural,
      page |-> snap.page,
      rootRevision |-> snap.revision[Root[snap.page]],
      changed |-> Delta(snap),
      value |-> [n \in nodes |-> snap.value[n]],
      revision |-> [n \in nodes \cup numbered |-> snap.revision[n]],
      numbered |-> numbered]

Suppressed(snap) ==
  /\ last # None
  /\ last.page = snap.page
  /\ last.revision[Root[snap.page]] = snap.revision[Root[snap.page]]

-----------------------------------------------------------------------------
(* The renderers.  A view is kept, with all below it, when its cached      *)
(* revision is that of the node (SwiftUI: its revision gate).              *)

Showing(p) == view.page = p

\* A node between top and n has the revision that is cached for it.
Gated(batch, top, n) ==
  \E m \in Below[top] :
    n \in Below[m] /\ m \in DOMAIN view.cached /\ view.cached[m] = batch.revision[m]

\* What reconciling from node top writes.
Reconciled(batch, top) == {n \in Below[top] : ~Gated(batch, top, n)}

ItemsReconciled(batch, l) == UNION {Reconciled(batch, c) : c \in Children[l]}

\* Android compares the new tree with the one it remembers: the last complete
\* one, patches do not change it.
Walked(batch) ==
  {n \in Tree(batch.page) :
     \A m \in Tree(batch.page) :
       n \in Below[m] => view.tree.revision[m] # batch.revision[m]}

WalkedViews(batch) == Walked(batch) \cap Visited(batch.page)

WalkedItems(batch) ==
  UNION {ItemsReconciled(batch, l) : l \in {n \in WalkedViews(batch) : Kind[n] = "List"}}

ReconciledWithOld(batch) ==
  {n \in WalkedViews(batch) : view.tree.value[n] # batch.value[n]} \cup WalkedItems(batch)

Remembered(batch) == host = "Android" /\ view.tree # None /\ view.tree.page = batch.page

\* The nodes a complete tree writes to the screen.
WrittenByTree(batch) ==
  IF Remembered(batch) THEN ReconciledWithOld(batch)
  ELSE IF Showing(batch.page) THEN Reconciled(batch, Root[batch.page])
  ELSE Tree(batch.page)

\* The nodes whose cached revision a complete tree renews.
NumberedByTree(batch) ==
  IF Remembered(batch) THEN WalkedViews(batch) \cup WalkedItems(batch) ELSE WrittenByTree(batch)

AfterTree(batch) ==
  LET p == batch.page
      old(n) == Showing(p) /\ n \notin WrittenByTree(batch)
      kept(n) == Showing(p) /\ n \notin NumberedByTree(batch)
  IN [page |-> p,
      root |-> batch.rootRevision,
      shown |-> [n \in Tree(p) |-> IF old(n) THEN view.shown[n] ELSE batch.value[n]],
      cached |-> [n \in Tree(p) |-> IF kept(n) THEN view.cached[n] ELSE batch.revision[n]],
      tree |-> IF host = "Android"
               THEN [page |-> p, value |-> batch.value, revision |-> batch.revision]
               ELSE None]

\* The nodes a patch writes: UIKit and Android apply each changed node and
\* reconcile the items of a list, Harmony renders a list as in a complete tree,
\* and SwiftUI puts each changed subtree in place.
WrittenByPatch(batch) ==
  LET lists == {n \in batch.changed : Kind[n] = "List"}
  IN CASE host \in {"Android", "UIKit"} ->
            batch.changed \cup UNION {ItemsReconciled(batch, l) : l \in lists}
       [] host = "Harmony" ->
            (batch.changed \ lists) \cup UNION {Reconciled(batch, l) : l \in lists}
       [] host = "SwiftUI" -> UNION {Reconciled(batch, n) : n \in batch.changed}

AfterPatch(batch) ==
  LET written == WrittenByPatch(batch)
      numbered == IF host \in {"Harmony", "SwiftUI"} THEN written \cup batch.numbered
                  ELSE written
  IN [view EXCEPT
        !.root = batch.rootRevision,
        !.shown = [n \in DOMAIN @ |-> IF n \in written THEN batch.value[n] ELSE @[n]],
        !.cached = [n \in DOMAIN @ |-> IF n \in numbered THEN batch.revision[n] ELSE @[n]]]

\* The renderer has this revision of the root; only Android and Harmony ask
\* so of a complete tree, and Android asks the tree it remembers.
Ignored(batch) ==
  IF batch.structural /\ host = "Android"
  THEN Remembered(batch) /\ view.tree.revision[Root[batch.page]] = batch.rootRevision
  ELSE /\ Showing(batch.page)
       /\ view.root = batch.rootRevision
       /\ ~batch.structural \/ host = "Harmony"

\* The renderer gets a batch, after others it missed or not.  Only a renderer
\* that shows the page can patch it.
Commit(item, missed) ==
  LET batch == item.batch
      another == ~Showing(batch.page)
      old == Remembered(batch) /\ view.tree.value # view.shown
  IN /\ committed' = item.generation
     /\ refused' = (another /\ ~batch.structural)
     /\ view' = IF Ignored(batch) \/ refused' THEN view
                ELSE IF batch.structural THEN AfterTree(batch) ELSE AfterPatch(batch)
     /\ lost' = IF batch.structural THEN ~another /\ (missed \/ old) ELSE missed

-----------------------------------------------------------------------------
(* The queue in front of the renderer. *)

Keep == UNCHANGED <<view, refused, committed>>

\* mutant: what was decoded is committed
AnyIsCurrent(item) == TRUE

\* Only the newest generation is current.  Closing makes a generation of its
\* own on Android and Harmony; nothing tells the queue on iOS.
Current(item) == item.generation = generation /\ (host = "Android" => ~closed)

CommitCurrent(item) ==
  IF Current(item) THEN Commit(item, lost) ELSE Keep /\ UNCHANGED lost

Settled == pending = None /\ decoding = None /\ posted = <<>>

\* A batch that is under way will be too old when it has been decoded.
Missed == lost \/ ~Settled

\* A small batch goes straight to the renderer when nothing is under way.
Straight(large) == ~large /\ ~working /\ pending = None

\* The batch replaces the one that waits.  Harmony's worker takes it at once.
Enqueue(item) ==
  /\ working' = TRUE
  /\ IF host = "Harmony" /\ ~working
     THEN decoding' = item /\ pending' = None
     ELSE pending' = item /\ UNCHANGED decoding
  /\ UNCHANGED posted
  /\ lost' = Missed
  /\ Keep

\* A handler has left the slots as s and renders page p.
Render(p, s, large) ==
  LET snap == Snapshot(p, s)
      item == [generation |-> generation + 1, batch |-> Batch(snap)]
  IN /\ ~closed /\ ~refused
     /\ renders < MaxRenders
     /\ renders' = renders + 1
     /\ state' = s
     /\ IF Suppressed(snap)
        THEN UNCHANGED <<last, generation, queue, lost>> /\ Keep
        ELSE /\ last' = snap
             /\ generation' = generation + 1
             /\ IF Straight(large) THEN Commit(item, Missed) /\ UNCHANGED queue ELSE Enqueue(item)
     /\ UNCHANGED <<host, closed>>

runtime == <<host, state, last, renders, generation, closed>>

\* The worker takes the batch that waits.
Take ==
  /\ working /\ decoding = None /\ pending # None
  /\ decoding' = pending
  /\ pending' = None
  /\ UNCHANGED <<runtime, working, posted, lost>> /\ Keep

\* mutant: the worker stops after each batch
StopAfterOne ==
  /\ working /\ decoding = None
  /\ working' = FALSE
  /\ UNCHANGED <<runtime, pending, decoding, posted, lost>> /\ Keep

\* Android: the worker finds none and stops.
Stop ==
  /\ working /\ decoding = None /\ pending = None
  /\ working' = FALSE
  /\ UNCHANGED <<runtime, pending, decoding, posted, lost>> /\ Keep

\* Android: the worker posts what it decoded to the main thread.
Post ==
  /\ host = "Android" /\ decoding # None
  /\ posted' = Append(posted, decoding)
  /\ decoding' = None
  /\ UNCHANGED <<runtime, pending, working, lost>> /\ Keep

RunPosted ==
  /\ posted # <<>> /\ ~refused
  /\ posted' = Tail(posted)
  /\ CommitCurrent(Head(posted))
  /\ UNCHANGED <<runtime, pending, working, decoding>>

\* iOS and Harmony: the drain goes on where it runs, hands over what was
\* decoded and takes the next.
Deliver ==
  /\ host # "Android" /\ decoding # None /\ ~refused
  /\ decoding' = pending
  /\ pending' = None
  /\ working' = (pending # None)
  /\ CommitCurrent(decoding)
  /\ UNCHANGED <<runtime, posted>>

Close ==
  /\ ~closed
  /\ closed' = TRUE
  /\ IF host \in {"Android", "Harmony"}
     THEN generation' = generation + 1 /\ pending' = None
     ELSE UNCHANGED <<generation, pending>>
  /\ UNCHANGED <<host, state, last, renders, working, decoding, posted, lost>> /\ Keep

Init ==
  /\ host \in Hosts
  /\ state = Declared
  /\ last = None
  /\ renders = 0
  /\ generation = 0
  /\ pending = None /\ working = FALSE /\ decoding = None /\ posted = <<>>
  /\ view = [page |-> None, root |-> 0, shown |-> <<>>, cached |-> <<>>, tree |-> None]
  /\ closed = FALSE
  /\ refused = FALSE
  /\ committed = 0
  /\ lost = FALSE

Next ==
  \/ \E p \in Pages, s \in [Slots -> Values], large \in Sizes : Render(p, s, large)
  \/ Take \/ Stop \/ Post \/ RunPosted \/ Deliver \/ Close

Spec == Init /\ [][Next]_vars

\* The worker and the main thread are scheduled.
FairSpec ==
  Spec /\ WF_vars(Take) /\ WF_vars(Stop) /\ WF_vars(Post) /\ WF_vars(RunPosted) /\ WF_vars(Deliver)

-----------------------------------------------------------------------------
(* Properties. *)

OnScreen == last # None =>
  /\ Showing(last.page)
  /\ view.shown = Evaluated(last.page, state)

\* As long as no batch was missed, the renderer can do what it is asked, and
\* once nothing is under way the screen shows the page and the slots as the
\* last handler left them: neither a suppressed render, nor a patch, nor a view
\* that was kept for its revision leaves an old value, not on a page that is
\* entered again, whose revisions start at 1, either.
ScreenFollows == ~lost /\ ~closed => ~refused /\ (Settled => OnScreen)

\* When the handlers stop rendering, the newest batch is the last one the
\* renderer got, whatever the worker was doing when it came.
NewestCommitted == <>[](closed \/ refused \/ committed = generation)

\* "First render and structural changes safely fall back to full
\* reconciliation": after each batch that goes straight to the renderer the
\* screen shows what the runtime rendered.
FallbackIsFull == Settled /\ ~closed => OnScreen
=============================================================================
