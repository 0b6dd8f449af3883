---------------------------- MODULE PvmVerifier ----------------------------
(***************************************************************************)
(* Loading a module: decode it, then validate its handlers one by one, as  *)
(* parse_payload and validate_handler of client/src/runtime.cpp do.        *)
(*                                                                         *)
(* Validating a handler is a search of its control flow graph.  The stack  *)
(* shape on entry to an address is recorded the first time the address is  *)
(* reached; reaching it again with another shape rejects the module.  The  *)
(* deque of the code is a set here: the order of visits decides which of   *)
(* several errors is reported, never the verdict.                          *)
(***************************************************************************)
EXTENDS PvmBytecode

CONSTANT Modules  \* the modules that may be handed to the loader

ASSUME ModulesAssumption == Modules \subseteq RawModule

VARIABLES
  module,    \* the module being loaded, or running
  phase,     \* "raw", "validating", "loaded" or "rejected"
  checking,  \* the handler being validated
  incoming,  \* per handler, the shapes recorded on entry to its addresses
  worklist   \* addresses of the handler being validated still to visit

loadVars == <<module, phase, checking, incoming, worklist>>

EntryShape == [pc \in {0} |-> <<>>]

LoadInit ==
  /\ module \in Modules
  /\ phase = "raw"
  /\ checking = 0
  /\ incoming = [h \in HandlerIds(module) |-> EntryShape]
  /\ worklist = {}

\* The loop over handlers either starts with one more handler, or is over.
BeginHandler(h) ==
  IF h \in HandlerIds(module)
  THEN phase' = "validating" /\ checking' = h /\ worklist' = {0}
  ELSE phase' = "loaded" /\ worklist' = {} /\ UNCHANGED checking

Reject ==
  /\ phase' = "rejected"
  /\ worklist' = {}
  /\ UNCHANGED <<checking, incoming>>

Decode ==
  /\ phase = "raw"
  /\ IF Decodes(module) THEN BeginHandler(0) /\ UNCHANGED incoming ELSE Reject
  /\ UNCHANGED module

(***************************************************************************)
(* Visiting an address applies its instruction to the recorded shape and   *)
(* passes the result on to every successor.                                *)
(***************************************************************************)
ConflictIgnored(seen, next, shape) == FALSE        \* mutant: joins are not compared
ConflictAlways(seen, next, shape) == next \in DOMAIN seen  \* mutant: no joins at all

Conflict(seen, next, shape) == next \in DOMAIN seen /\ seen[next] # shape

Record(seen, targets, shape) ==
  [pc \in DOMAIN seen \cup targets |-> IF pc \in DOMAIN seen THEN seen[pc] ELSE shape]

\* The successors an address adds to the worklist.
EverySuccessor(seen, targets) == targets            \* mutant: visits them again
Unvisited(seen, targets) == targets \ DOMAIN seen

Visit(pc) ==
  LET seen  == incoming[checking]
      instr == Fetch(module, checking, pc)
      next  == Successors(instr, pc)
      shape == ShapeAfter(module, instr, seen[pc])
  IN  /\ phase = "validating"
      /\ pc \in worklist
      /\ IF /\ StepFits(module, checking, pc, seen[pc])
            /\ \A target \in next : ~Conflict(seen, target, shape)
         THEN /\ incoming' = [incoming EXCEPT ![checking] = Record(seen, next, shape)]
              /\ worklist' = (worklist \ {pc}) \cup Unvisited(seen, next)
              /\ UNCHANGED <<phase, checking>>
         ELSE Reject
      /\ UNCHANGED module

\* The worklist of a handler is empty: the handler is valid.
FinishHandler ==
  /\ phase = "validating"
  /\ worklist = {}
  /\ BeginHandler(checking + 1)
  /\ UNCHANGED <<module, incoming>>

LoadNext == Decode \/ FinishHandler \/ \E pc \in worklist : Visit(pc)

LoadSpec == LoadInit /\ [][LoadNext]_loadVars

-----------------------------------------------------------------------------
\* Types, and where the search stands: recorded addresses lie in their handler
\* and only recorded addresses are waiting to be visited.
LoadTypeOK ==
  /\ module \in RawModule
  /\ phase \in {"raw", "validating", "loaded", "rejected"}
  /\ checking \in Nat
  /\ DOMAIN incoming = HandlerIds(module)
  /\ phase \in {"validating", "loaded"} => Decodes(module)
  /\ phase = "validating" =>
       checking \in HandlerIds(module) /\ worklist \subseteq DOMAIN incoming[checking]
  /\ phase \in {"validating", "loaded"} =>
       \A h \in HandlerIds(module) :
         /\ DOMAIN incoming[h] \subseteq Addresses(module, h)
         /\ \A pc \in DOMAIN incoming[h] : incoming[h][pc] \in Shape

\* Soundness: every handler of an accepted module has a typing, the one the
\* search recorded.  Whatever follows from a typing (no underflow, no operand
\* of a wrong type, no address outside the handler, no more than max_stack
\* values) then holds of every path of the handler.
Soundness ==
  phase = "loaded" =>
    Decodes(module) /\ \A h \in HandlerIds(module) : WellTyped(module, h, incoming[h])

\* Completeness: a module is rejected for a handler only if no typing exists
\* for that handler.  The shapes a typing could use are bounded by the stack
\* budget.
BoundedShapes == UNION {[1 .. n -> ValueType] : n \in 0 .. module.limits.maxStack}

Typings(h) == UNION {[D -> BoundedShapes] : D \in SUBSET Addresses(module, h)}

Completeness ==
  phase = "rejected" =>
    \/ ~Decodes(module)
    \/ \A typing \in Typings(checking) : ~WellTyped(module, checking, typing)

\* Every address is put on the worklist at most once, whatever joins and loops
\* lead back to it, and the shape recorded for it is never revised.
VisitedOnce ==
  [][phase = "validating" /\ checking' = checking =>
       \A pc \in DOMAIN incoming[checking] :
         /\ pc \in worklist' => pc \in worklist
         /\ pc \in DOMAIN incoming'[checking]
         /\ incoming'[checking][pc] = incoming[checking][pc]]_loadVars

\* Loading always ends with a verdict, whatever loops the handlers contain.
Verdict == <>(phase \in {"loaded", "rejected"})
============================================================================
