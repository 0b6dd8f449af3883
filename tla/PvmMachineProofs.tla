-------------------------- MODULE PvmMachineProofs --------------------------
(***************************************************************************)
(* The loader and the runtime, for every set of modules, host and bound.   *)
(* First the loader: its state has the types PvmVerifier gives, and it     *)
(* accepts the well typed modules and no others.  Then the runtime: the    *)
(* interpreter raises none of the errors that validation rules out, and    *)
(* frames stay within their stack budget, in every interleaving of calls,  *)
(* callbacks and suspensions.                                              *)
(***************************************************************************)
EXTENDS PvmMachine, SequenceTheorems, FiniteSetTheorems, TLAPS

(***************************************************************************)
(* The operators of PvmBytecode.                                           *)
(***************************************************************************)
\* The type of a value is a value type.
LEMMA TypeOfValue == \A v \in Value : TypeOf(v) \in ValueType
  BY DEF Value, IntegerValue, BooleanValue, StringValue, Integer, Boolean, String,
         TypeOf, ValueType

\* An address of a handler holds an instruction.
LEMMA FetchType ==
  ASSUME NEW m \in RawModule, NEW h \in HandlerIds(m), NEW pc \in Addresses(m, h)
  PROVE  Fetch(m, h, pc) \in Instruction
  BY DEF RawModule, HandlerIds, Addresses, Fetch

\* A slot has a value type.
LEMMA SlotTypeType ==
  ASSUME NEW m \in RawModule, NEW s \in Slots(m)
  PROVE  SlotType(m, s) \in ValueType
  BY TypeOfValue DEF RawModule, Slots, SlotType

\* Dropping the top of a stack leaves what was below it.
LEMMA DropType ==
  ASSUME NEW S, NEW stack \in Seq(S), NEW n \in 0 .. Len(stack)
  PROVE  /\ Drop(stack, n) \in Seq(S)
         /\ Len(Drop(stack, n)) = Len(stack) - n
         /\ \A k \in 1 .. Len(stack) - n : Drop(stack, n)[k] = stack[k]
  BY DEF Drop

\* An instruction takes a number of operands and pushes at most one value.
LEMMA PopsType ==
  ASSUME NEW i \in Instruction
  PROVE  Pops(i) \in Nat
  BY DEF Instruction, Pops

LEMMA PushesType ==
  ASSUME NEW m \in RawModule, NEW i \in Instruction, OperandsDecode(m, i)
  PROVE  Pushes(m, i) \in Shape
<1>1. TypeOf(i.value) \in ValueType
  BY TypeOfValue DEF Instruction
<1>2. i.op = "StateGet" => SlotType(m, i.first) \in ValueType
  BY SlotTypeType DEF OperandsDecode
<1>3. {"Integer", "Boolean", "String"} \subseteq ValueType
  BY DEF ValueType
<1> QED
  BY <1>1, <1>2, <1>3 DEF Pushes, Shape

\* What an accepted instruction leaves is a shape.
LEMMA ShapeAfterType ==
  ASSUME NEW m \in RawModule, NEW i \in Instruction, OperandsDecode(m, i),
         NEW shape \in Shape, Accepts(m, i, shape)
  PROVE  ShapeAfter(m, i, shape) \in Shape
<1>1. Pops(i) \in 0 .. Len(shape)
  BY PopsType DEF Accepts, Shape
<1>2. Drop(shape, Pops(i)) \in Shape
  BY <1>1, DropType DEF Shape
<1> QED
  BY <1>2, PushesType DEF ShapeAfter, Shape

\* Decoding has checked every handler and every operand.
LEMMA DecodedHandler ==
  ASSUME NEW m \in RawModule, Decodes(m), NEW h \in HandlerIds(m)
  PROVE  /\ 0 \in Addresses(m, h)
         /\ \A pc \in Addresses(m, h) : OperandsDecode(m, Fetch(m, h, pc))
<1>1. /\ m.handlers[h + 1] # <<>>
      /\ \A pc \in Addresses(m, h) : OperandsDecode(m, Fetch(m, h, pc))
  BY DEF Decodes
<1>2. m.handlers[h + 1] \in Seq(Instruction)
  BY DEF RawModule, HandlerIds
<1>3. Len(m.handlers[h + 1]) \in Nat \ {0}
  BY <1>1, <1>2
<1> QED
  BY <1>1, <1>3 DEF Addresses

(***************************************************************************)
(* The search.  Every recorded address is either still to be visited or    *)
(* passes the shape recorded for it on to all its successors; handlers not *)
(* yet begun have nothing but their entry recorded; no recorded shape is   *)
(* larger than the stack budget.                                           *)
(***************************************************************************)
Searching == phase \in {"validating", "loaded"}

Waiting(h, pc) ==
  phase = "validating" /\ (h > checking \/ (h = checking /\ pc \in worklist))

EntryRecorded == \A h \in HandlerIds(module) : 0 \in DOMAIN incoming[h] /\ incoming[h][0] = <<>>

NotBegun ==
  \A h \in HandlerIds(module) :
    phase = "raw" \/ (phase = "validating" /\ h > checking) => incoming[h] = EntryShape

Visited ==
  Searching =>
    \A h \in HandlerIds(module) : \A pc \in DOMAIN incoming[h] :
      Waiting(h, pc) \/ TypedAt(module, h, incoming[h], pc)

ShapesFit ==
  Searching =>
    \A h \in HandlerIds(module) : \A pc \in DOMAIN incoming[h] :
      Len(incoming[h][pc]) <= module.limits.maxStack

LoadInv == LoadTypeOK /\ EntryRecorded /\ NotBegun /\ Visited /\ ShapesFit

\* The search ends with a typing of every handler.
LEMMA LoadInvSoundness == LoadInv => Soundness
<1> SUFFICES ASSUME LoadInv, phase = "loaded"
             PROVE  Decodes(module) /\ \A h \in HandlerIds(module) : WellTyped(module, h, incoming[h])
  BY DEF Soundness
<1>1. Decodes(module)
  BY DEF LoadInv, LoadTypeOK
<1>2. ASSUME NEW h \in HandlerIds(module)
      PROVE  WellTyped(module, h, incoming[h])
  <2>1. \A pc \in DOMAIN incoming[h] : TypedAt(module, h, incoming[h], pc)
    BY DEF LoadInv, Visited, Searching, Waiting
  <2>2. /\ DOMAIN incoming[h] \subseteq Addresses(module, h)
        /\ \A pc \in DOMAIN incoming[h] : incoming[h][pc] \in Shape
    BY DEF LoadInv, LoadTypeOK
  <2>3. 0 \in DOMAIN incoming[h] /\ incoming[h][0] = <<>>
    BY DEF LoadInv, EntryRecorded
  <2> QED
    BY <2>1, <2>2, <2>3 DEF WellTyped
<1> QED
  BY <1>1, <1>2

\* A handler of which only the entry is recorded.
LEMMA EntryShapeType ==
  /\ DOMAIN EntryShape = {0}
  /\ EntryShape[0] = <<>>
  /\ <<>> \in Shape
  /\ Len(<<>>) = 0
  BY DEF EntryShape, Shape

LEMMA LoadInvInit == LoadInit => LoadInv
<1> SUFFICES ASSUME LoadInit PROVE LoadInv
  OBVIOUS
<1>1. module \in RawModule
  BY ModulesAssumption DEF LoadInit
<1>2. \A h \in HandlerIds(module) : incoming[h] = EntryShape
  BY DEF LoadInit
<1>3. LoadTypeOK
  BY <1>1 DEF LoadInit, LoadTypeOK
<1>4. EntryRecorded /\ NotBegun
  BY <1>2, EntryShapeType DEF EntryRecorded, NotBegun
<1>5. Visited /\ ShapesFit
  BY DEF LoadInit, Visited, ShapesFit, Searching
<1> QED
  BY <1>3, <1>4, <1>5 DEF LoadInv

\* Beginning the handler n, or ending the loop, when the handlers before n are
\* done and the others have only their entry recorded.
LEMMA BeginHandlerStep ==
  ASSUME LoadInv, Decodes(module), NEW n \in Nat,
         BeginHandler(n), UNCHANGED <<module, incoming>>,
         \A h \in HandlerIds(module) :
           /\ h >= n => incoming[h] = EntryShape
           /\ h < n => \A pc \in DOMAIN incoming[h] :
                /\ pc \in Addresses(module, h)
                /\ incoming[h][pc] \in Shape
                /\ Len(incoming[h][pc]) <= module.limits.maxStack
                /\ TypedAt(module, h, incoming[h], pc)
  PROVE  LoadInv'
<1> USE DEF BeginHandler
<1>1. /\ module \in RawModule /\ module' = module
      /\ DOMAIN incoming = HandlerIds(module) /\ incoming' = incoming
      /\ checking \in Nat
  BY DEF LoadInv, LoadTypeOK
<1>2. HandlerIds(module) \subseteq Nat /\ HandlerIds(module)' = HandlerIds(module)
  BY <1>1 DEF HandlerIds, RawModule
<1>3. \A h \in HandlerIds(module) :
        /\ DOMAIN incoming[h] \subseteq Addresses(module, h)
        /\ \A pc \in DOMAIN incoming[h] :
             /\ incoming[h][pc] \in Shape
             /\ Len(incoming[h][pc]) <= module.limits.maxStack
  <2> TAKE h \in HandlerIds(module)
  <2>1. CASE h < n
    BY <2>1
  <2>2. CASE h >= n
    <3>1. module.limits.maxStack \in Nat
      BY <1>1 DEF RawModule, Limits
    <3> QED
      BY <2>2, <3>1, <1>1, DecodedHandler, EntryShapeType
  <2> QED
    BY <2>1, <2>2, <1>2
<1>4. EntryRecorded' /\ ShapesFit'
  BY <1>1, <1>2, <1>3 DEF LoadInv, EntryRecorded, ShapesFit
<1>5. CASE n \in HandlerIds(module)
  <2>1. phase' = "validating" /\ checking' = n /\ worklist' = {0}
    BY <1>5
  <2>2. incoming[n] = EntryShape /\ DOMAIN incoming[n] = {0}
    BY <1>5, EntryShapeType
  <2>3. LoadTypeOK'
    BY <1>1, <1>2, <1>3, <1>5, <2>1, <2>2 DEF LoadTypeOK, Addresses
  <2>4. NotBegun'
    BY <1>1, <1>2, <2>1 DEF NotBegun
  <2>5. Visited'
    <3> SUFFICES ASSUME NEW h \in HandlerIds(module), NEW pc \in DOMAIN incoming[h]
                 PROVE  Waiting(h, pc)' \/ TypedAt(module, h, incoming[h], pc)
      BY <1>1, <1>2 DEF Visited
    <3>1. CASE h < n
      BY <3>1
    <3>2. CASE h = n
      BY <3>2, <2>1, <2>2 DEF Waiting
    <3>3. CASE h > n
      BY <3>3, <2>1 DEF Waiting
    <3> QED
      BY <3>1, <3>2, <3>3, <1>2
  <2> QED
    BY <1>4, <2>3, <2>4, <2>5 DEF LoadInv
<1>6. CASE n \notin HandlerIds(module)
  <2>1. phase' = "loaded" /\ worklist' = {} /\ checking' = checking
    BY <1>6
  <2>2. \A h \in HandlerIds(module) : h < n
    BY <1>1, <1>2, <1>6 DEF HandlerIds, RawModule
  <2>3. LoadTypeOK'
    BY <1>1, <1>2, <1>3, <2>1 DEF LoadTypeOK, Addresses
  <2>4. NotBegun' /\ Visited'
    BY <1>1, <1>2, <2>1, <2>2 DEF NotBegun, Visited
  <2> QED
    BY <1>4, <2>3, <2>4 DEF LoadInv
<1> QED
  BY <1>5, <1>6

\* A module that is rejected keeps nothing but the types.
LEMMA RejectStep ==
  ASSUME LoadInv, Reject, UNCHANGED module
  PROVE  LoadInv'
<1>1. LoadTypeOK'
  BY DEF LoadInv, LoadTypeOK, Reject, HandlerIds
<1>2. EntryRecorded' /\ NotBegun' /\ Visited' /\ ShapesFit'
  BY DEF LoadInv, EntryRecorded, NotBegun, Visited, ShapesFit, Searching, Reject, HandlerIds
<1> QED
  BY <1>1, <1>2 DEF LoadInv

LEMMA DecodeStep == LoadInv /\ Decode => LoadInv'
<1> SUFFICES ASSUME LoadInv, Decode PROVE LoadInv'
  OBVIOUS
<1>1. CASE Decodes(module)
  <2>1. BeginHandler(0) /\ UNCHANGED <<module, incoming>>
    BY <1>1 DEF Decode
  <2>2. \A h \in HandlerIds(module) : h \in Nat /\ incoming[h] = EntryShape
    BY DEF Decode, LoadInv, NotBegun, LoadTypeOK, HandlerIds, RawModule
  <2> QED
    BY <1>1, <2>1, <2>2, BeginHandlerStep
<1>2. CASE ~Decodes(module)
  BY <1>2, RejectStep DEF Decode
<1> QED
  BY <1>1, <1>2

LEMMA FinishHandlerStep == LoadInv /\ FinishHandler => LoadInv'
<1> SUFFICES ASSUME LoadInv, FinishHandler PROVE LoadInv'
  OBVIOUS
<1>1. /\ Decodes(module) /\ checking \in Nat
      /\ BeginHandler(checking + 1) /\ UNCHANGED <<module, incoming>>
      /\ HandlerIds(module) \subseteq Int
  BY DEF FinishHandler, LoadInv, LoadTypeOK, HandlerIds, RawModule
<1>2. ASSUME NEW h \in HandlerIds(module), h >= checking + 1
      PROVE  incoming[h] = EntryShape
  BY <1>1, <1>2 DEF FinishHandler, LoadInv, NotBegun
<1>3. ASSUME NEW h \in HandlerIds(module), h < checking + 1, NEW pc \in DOMAIN incoming[h]
      PROVE  /\ pc \in Addresses(module, h)
             /\ incoming[h][pc] \in Shape
             /\ Len(incoming[h][pc]) <= module.limits.maxStack
             /\ TypedAt(module, h, incoming[h], pc)
  <2>1. /\ pc \in Addresses(module, h) /\ incoming[h][pc] \in Shape
        /\ Len(incoming[h][pc]) <= module.limits.maxStack
    BY DEF FinishHandler, LoadInv, LoadTypeOK, ShapesFit, Searching
  <2>2. ~Waiting(h, pc)
    BY <1>1, <1>3 DEF FinishHandler, Waiting
  <2>3. TypedAt(module, h, incoming[h], pc)
    BY <2>2 DEF FinishHandler, LoadInv, Visited, Searching
  <2> QED
    BY <2>1, <2>3
<1> QED
  BY <1>1, <1>2, <1>3, BeginHandlerStep

\* A typing stays right at an address when more addresses are recorded.
LEMMA TypedAtExtends ==
  ASSUME NEW h, NEW seen, NEW more, NEW pc \in DOMAIN seen,
         DOMAIN seen \subseteq DOMAIN more,
         \A k \in DOMAIN seen : more[k] = seen[k],
         TypedAt(module, h, seen, pc)
  PROVE  TypedAt(module, h, more, pc)
  BY DEF TypedAt

LEMMA VisitStep == ASSUME NEW pc \in worklist PROVE LoadInv /\ Visit(pc) => LoadInv'
<1> SUFFICES ASSUME LoadInv, Visit(pc) PROVE LoadInv'
  OBVIOUS
<1> DEFINE seen  == incoming[checking]
           instr == Fetch(module, checking, pc)
           next  == Successors(instr, pc)
           shape == ShapeAfter(module, instr, seen[pc])
           fits  == /\ StepFits(module, checking, pc, seen[pc])
                    /\ \A target \in next : ~Conflict(seen, target, shape)
           more  == Record(seen, next, shape)
<1>1. CASE ~fits
  BY <1>1, RejectStep DEF Visit
<1>2. CASE fits
  <2>1. /\ phase = "validating" /\ UNCHANGED <<module, phase, checking>>
        /\ incoming' = [incoming EXCEPT ![checking] = more]
        /\ worklist' = (worklist \ {pc}) \cup Unvisited(seen, next)
    BY <1>2 DEF Visit
  <2>2. /\ module \in RawModule /\ Decodes(module) /\ checking \in HandlerIds(module)
        /\ DOMAIN incoming = HandlerIds(module)
        /\ worklist \subseteq DOMAIN seen
        /\ DOMAIN seen \subseteq Addresses(module, checking)
        /\ \A k \in DOMAIN seen : seen[k] \in Shape
    BY <2>1 DEF LoadInv, LoadTypeOK
  <2>3. /\ incoming'[checking] = more
        /\ DOMAIN incoming' = HandlerIds(module)
        /\ \A h \in HandlerIds(module) \ {checking} : incoming'[h] = incoming[h]
    BY <2>1, <2>2
  <2>4. /\ DOMAIN more = DOMAIN seen \cup next
        /\ \A k \in DOMAIN seen : more[k] = seen[k]
        /\ \A k \in next \ DOMAIN seen : more[k] = shape
    BY DEF Record
  <2>5. shape \in Shape
    <3>1. instr \in Instruction /\ OperandsDecode(module, instr)
      BY <2>2, FetchType, DecodedHandler
    <3>2. Accepts(module, instr, seen[pc]) /\ seen[pc] \in Shape
      BY <1>2, <2>2 DEF StepFits
    <3> QED
      BY <2>2, <3>1, <3>2, ShapeAfterType
  <2>6. next \subseteq Addresses(module, checking)
    BY <1>2 DEF StepFits
  <2>7. HandlerIds(module)' = HandlerIds(module)
        /\ \A h : Addresses(module, h)' = Addresses(module, h)
    BY <2>1 DEF HandlerIds, Addresses
  <2>8. LoadTypeOK'
    <3>1. \A h \in HandlerIds(module) :
            /\ DOMAIN incoming'[h] \subseteq Addresses(module, h)
            /\ \A k \in DOMAIN incoming'[h] : incoming'[h][k] \in Shape
      <4> TAKE h \in HandlerIds(module)
      <4>1. CASE h = checking
        <5>1. \A k \in DOMAIN more : more[k] \in Shape
          BY <2>2, <2>4, <2>5
        <5> QED
          BY <4>1, <5>1, <2>2, <2>3, <2>4, <2>6
      <4>2. CASE h # checking
        BY <4>2, <2>1, <2>3 DEF LoadInv, LoadTypeOK
      <4> QED
        BY <4>1, <4>2
    <3>2. worklist' \subseteq DOMAIN incoming'[checking]
      BY <2>1, <2>2, <2>3, <2>4 DEF Unvisited
    <3>3. checking \in Nat
      BY DEF LoadInv, LoadTypeOK
    <3> QED
      BY <2>1, <2>2, <2>3, <2>7, <3>1, <3>2, <3>3 DEF LoadTypeOK
  <2>9. EntryRecorded'
    <3> SUFFICES ASSUME NEW h \in HandlerIds(module)
                 PROVE  0 \in DOMAIN incoming'[h] /\ incoming'[h][0] = <<>>
      BY <2>7 DEF EntryRecorded
    <3>1. 0 \in DOMAIN incoming[h] /\ incoming[h][0] = <<>>
      BY DEF LoadInv, EntryRecorded
    <3> QED
      BY <3>1, <2>3, <2>4
  <2>10. NotBegun'
    BY <2>1, <2>2, <2>3, <2>7 DEF LoadInv, NotBegun, HandlerIds, RawModule
  <2>11. ASSUME NEW k \in DOMAIN more
         PROVE  k \in worklist' \/ TypedAt(module, checking, more, k)
    <3>1. CASE k = pc
      <4>1. ASSUME NEW target \in next
            PROVE  target \in DOMAIN more /\ more[target] = shape
        BY <1>2, <2>4 DEF Conflict
      <4>2. more[pc] = seen[pc]
        BY <2>2, <2>4
      <4> QED
        BY <1>2, <3>1, <4>1, <4>2 DEF TypedAt
    <3>2. CASE k \in DOMAIN seen \ {pc}
      <4>1. k \in worklist \/ TypedAt(module, checking, seen, k)
        BY <2>1, <2>2, <3>2 DEF LoadInv, Visited, Searching, Waiting, HandlerIds, RawModule
      <4> QED
        BY <2>1, <2>4, <3>2, <4>1, TypedAtExtends
    <3>3. CASE k \notin DOMAIN seen
      BY <2>1, <2>4, <3>3 DEF Unvisited
    <3> QED
      BY <3>1, <3>2, <3>3
  <2>12. Visited'
    <3> SUFFICES ASSUME NEW h \in HandlerIds(module), NEW k \in DOMAIN incoming'[h]
                 PROVE  Waiting(h, k)' \/ TypedAt(module, h, incoming'[h], k)
      BY <2>1, <2>7 DEF Visited
    <3>1. CASE h = checking
      BY <3>1, <2>1, <2>3, <2>11 DEF Waiting
    <3>2. CASE h # checking
      <4>1. Waiting(h, k) \/ TypedAt(module, h, incoming[h], k)
        BY <3>2, <2>1, <2>3 DEF LoadInv, Visited, Searching
      <4> QED
        BY <3>2, <4>1, <2>1, <2>3 DEF Waiting
    <3> QED
      BY <3>1, <3>2
  <2>13. ShapesFit'
    <3> SUFFICES ASSUME NEW h \in HandlerIds(module), NEW k \in DOMAIN incoming'[h]
                 PROVE  Len(incoming'[h][k]) <= module.limits.maxStack
      BY <2>1, <2>7 DEF ShapesFit
    <3>1. \A j \in DOMAIN incoming[h] : Len(incoming[h][j]) <= module.limits.maxStack
      BY <2>1 DEF LoadInv, ShapesFit, Searching
    <3>2. Len(shape) <= module.limits.maxStack
      BY <1>2 DEF StepFits
    <3>3. CASE h = checking
      BY <3>1, <3>2, <3>3, <2>3, <2>4
    <3>4. CASE h # checking
      BY <3>1, <3>4, <2>3
    <3> QED
      BY <3>3, <3>4
  <2> QED
    BY <2>8, <2>9, <2>10, <2>12, <2>13 DEF LoadInv
<1> QED
  BY <1>1, <1>2

LEMMA LoadStutter == LoadInv /\ UNCHANGED loadVars => LoadInv'
  BY DEF LoadInv, LoadTypeOK, EntryRecorded, NotBegun, Visited, ShapesFit, Searching,
         Waiting, loadVars, HandlerIds, Addresses

\* The invariant is inductive for the steps of the loader.
LEMMA LoadInvNext == LoadInv /\ [LoadNext]_loadVars => LoadInv'
<1> SUFFICES ASSUME LoadInv, [LoadNext]_loadVars PROVE LoadInv'
  OBVIOUS
<1>1. CASE Decode
  BY <1>1, DecodeStep
<1>2. CASE FinishHandler
  BY <1>2, FinishHandlerStep
<1>3. ASSUME NEW pc \in worklist, Visit(pc) PROVE LoadInv'
  BY <1>3, VisitStep
<1>4. CASE UNCHANGED loadVars
  BY <1>4, LoadStutter
<1> QED
  BY <1>1, <1>2, <1>3, <1>4 DEF LoadNext

\* The loader keeps its types: the addresses it records lie in their handler
\* and only recorded addresses wait to be visited (validate_handler).
THEOREM LoadTypeCorrect == LoadSpec => []LoadTypeOK
<1>1. LoadInv => LoadTypeOK
  BY DEF LoadInv
<1> QED
  BY <1>1, LoadInvInit, LoadInvNext, PTL DEF LoadSpec

\* Every handler of a module that parse_payload accepts has a typing, whatever
\* the module: its paths neither underflow nor overflow the operand stack, meet
\* no operand of a wrong type and stay in the handler.
THEOREM LoaderSound == LoadSpec => []Soundness
  BY LoadInvInit, LoadInvNext, LoadInvSoundness, PTL DEF LoadSpec

(***************************************************************************)
(* What is rejected.  A typing has no choice: it gives an address the      *)
(* shape the search recorded, so it fails where the search fails.          *)
(***************************************************************************)
\* A typing of the handler agrees with what is recorded of it.
Forced(typing) ==
  \A pc \in DOMAIN incoming[checking] :
    pc \in DOMAIN typing /\ typing[pc] = incoming[checking][pc]

CompleteInv ==
  /\ phase = "validating" =>
       \A typing : WellTyped(module, checking, typing) => Forced(typing)
  /\ phase = "rejected" =>
       ~Decodes(module) \/ \A typing : ~WellTyped(module, checking, typing)

LEMMA CompleteBegin ==
  ASSUME LoadInv, NEW n, BeginHandler(n), UNCHANGED <<module, incoming>>,
         n \in HandlerIds(module) => incoming[n] = EntryShape
  PROVE  CompleteInv'
<1>1. CASE n \in HandlerIds(module)
  <2>1. phase' = "validating" /\ checking' = n /\ incoming' = incoming /\ module' = module
    BY <1>1 DEF BeginHandler
  <2>2. DOMAIN incoming[n] = {0} /\ incoming[n][0] = <<>>
    BY <1>1, EntryShapeType
  <2>3. \A typing : WellTyped(module, n, typing)
          => \A pc \in DOMAIN incoming[n] : pc \in DOMAIN typing /\ typing[pc] = incoming[n][pc]
    BY <2>2 DEF WellTyped
  <2> QED
    BY <2>1, <2>3 DEF CompleteInv, Forced
<1>2. CASE n \notin HandlerIds(module)
  BY <1>2 DEF BeginHandler, CompleteInv
<1> QED
  BY <1>1, <1>2

LEMMA CompleteVisit ==
  ASSUME LoadInv, CompleteInv, NEW pc \in worklist, Visit(pc)
  PROVE  CompleteInv'
<1> DEFINE seen  == incoming[checking]
           next  == Successors(Fetch(module, checking, pc), pc)
           shape == ShapeAfter(module, Fetch(module, checking, pc), seen[pc])
           fits  == /\ StepFits(module, checking, pc, seen[pc])
                    /\ \A target \in next : ~Conflict(seen, target, shape)
<1>1. /\ phase = "validating" /\ module' = module
      /\ checking \in HandlerIds(module) /\ pc \in DOMAIN seen
      /\ DOMAIN incoming = HandlerIds(module)
  BY DEF Visit, LoadInv, LoadTypeOK
<1>2. ASSUME NEW typing, WellTyped(module, checking, typing)
      PROVE  /\ fits
             /\ \A k \in DOMAIN seen : k \in DOMAIN typing /\ typing[k] = seen[k]
             /\ \A k \in next : k \in DOMAIN typing /\ typing[k] = shape
  <2>1. \A k \in DOMAIN seen : k \in DOMAIN typing /\ typing[k] = seen[k]
    BY <1>1, <1>2 DEF CompleteInv, Forced
  <2>2. pc \in DOMAIN typing /\ typing[pc] = seen[pc] /\ TypedAt(module, checking, typing, pc)
    BY <1>1, <1>2, <2>1 DEF WellTyped
  <2>3. \A k \in next : k \in DOMAIN typing /\ typing[k] = shape
    BY <2>2 DEF TypedAt
  <2>4. StepFits(module, checking, pc, seen[pc])
    BY <2>2 DEF TypedAt
  <2>5. \A target \in next : ~Conflict(seen, target, shape)
    BY <2>1, <2>3 DEF Conflict
  <2> QED
    BY <2>1, <2>3, <2>4, <2>5
<1>3. CASE fits
  <2>1. /\ incoming' = [incoming EXCEPT ![checking] = Record(seen, next, shape)]
        /\ phase' = phase /\ checking' = checking
    BY <1>3 DEF Visit
  <2>2. incoming'[checking] = Record(seen, next, shape)
    BY <1>1, <2>1
  <2>3. /\ DOMAIN incoming'[checking] = DOMAIN seen \cup next
        /\ \A k \in DOMAIN seen \cup next :
             incoming'[checking][k] = IF k \in DOMAIN seen THEN seen[k] ELSE shape
    BY <2>2 DEF Record
  <2> HIDE DEF seen, next, shape, fits
  <2>4. \A typing : WellTyped(module, checking, typing)
          => \A k \in DOMAIN incoming'[checking] :
               k \in DOMAIN typing /\ typing[k] = incoming'[checking][k]
    BY <1>2, <2>3
  <2> QED
    BY <1>1, <2>1, <2>4 DEF CompleteInv, Forced
<1>4. CASE ~fits
  <2>1. phase' = "rejected" /\ checking' = checking
    BY <1>4 DEF Visit, Reject
  <2> HIDE DEF fits
  <2> QED
    BY <1>1, <1>2, <1>4, <2>1 DEF CompleteInv
<1> QED
  BY <1>3, <1>4

LEMMA CompleteNext == LoadInv /\ CompleteInv /\ [LoadNext]_loadVars => CompleteInv'
<1> SUFFICES ASSUME LoadInv, CompleteInv, [LoadNext]_loadVars PROVE CompleteInv'
  OBVIOUS
<1>1. CASE Decode
  <2>1. CASE Decodes(module)
    <3>1. BeginHandler(0) /\ UNCHANGED <<module, incoming>>
      BY <1>1, <2>1 DEF Decode
    <3>2. 0 \in HandlerIds(module) => incoming[0] = EntryShape
      BY <1>1 DEF Decode, LoadInv, NotBegun
    <3> QED
      BY <3>1, <3>2, CompleteBegin
  <2>2. CASE ~Decodes(module)
    BY <1>1, <2>2 DEF Decode, Reject, CompleteInv
  <2> QED
    BY <2>1, <2>2
<1>2. CASE FinishHandler
  <2>1. BeginHandler(checking + 1) /\ UNCHANGED <<module, incoming>> /\ checking \in Nat
    BY <1>2 DEF FinishHandler, LoadInv, LoadTypeOK
  <2>2. checking + 1 \in HandlerIds(module) => incoming[checking + 1] = EntryShape
    BY <1>2, <2>1 DEF FinishHandler, LoadInv, NotBegun
  <2> QED
    BY <2>1, <2>2, CompleteBegin
<1>3. ASSUME NEW pc \in worklist, Visit(pc) PROVE CompleteInv'
  BY <1>3, CompleteVisit
<1>4. CASE UNCHANGED loadVars
  BY <1>4 DEF CompleteInv, Forced, loadVars
<1> QED
  BY <1>1, <1>2, <1>3, <1>4 DEF LoadNext

\* A module is rejected only for a handler that has no typing, of any size: the loader
\* refuses nothing that could have been run safely, by whatever path it got there.
THEOREM LoaderComplete == LoadSpec => []Completeness
<1>1. LoadInit => CompleteInv
  BY DEF LoadInit, CompleteInv
<1>2. CompleteInv => Completeness
  BY DEF CompleteInv, Completeness
<1> QED
  BY <1>1, <1>2, LoadInvInit, LoadInvNext, CompleteNext, PTL DEF LoadSpec

\* Joins and loops do not bring the search back: an address is put on the worklist once,
\* and its recorded shape stands.
THEOREM EachVisitedOnce == LoadSpec => VisitedOnce
<1> DEFINE once == phase = "validating" /\ checking' = checking =>
              \A pc \in DOMAIN incoming[checking] :
                /\ pc \in worklist' => pc \in worklist
                /\ pc \in DOMAIN incoming'[checking]
                /\ incoming'[checking][pc] = incoming[checking][pc]
<1>1. ASSUME LoadInv, LoadNext PROVE once
  <2> SUFFICES ASSUME phase = "validating", checking' = checking,
                      NEW k \in DOMAIN incoming[checking]
               PROVE  /\ k \in worklist' => k \in worklist
                      /\ k \in DOMAIN incoming'[checking]
                      /\ incoming'[checking][k] = incoming[checking][k]
    OBVIOUS
  <2>1. checking \in Nat /\ checking \in HandlerIds(module) /\ DOMAIN incoming = HandlerIds(module)
    BY <1>1 DEF LoadInv, LoadTypeOK
  <2>2. CASE Decode
    BY <2>2 DEF Decode
  <2>3. CASE FinishHandler
    BY <2>1, <2>3 DEF FinishHandler, BeginHandler
  <2>4. ASSUME NEW pc \in worklist, Visit(pc)
        PROVE  /\ k \in worklist' => k \in worklist
               /\ k \in DOMAIN incoming'[checking]
               /\ incoming'[checking][k] = incoming[checking][k]
    <3>1. CASE Reject
      BY <3>1 DEF Reject
    <3>2. CASE ~Reject
      <4> DEFINE seen  == incoming[checking]
                 next  == Successors(Fetch(module, checking, pc), pc)
                 shape == ShapeAfter(module, Fetch(module, checking, pc), seen[pc])
      <4>1. /\ incoming' = [incoming EXCEPT ![checking] = Record(seen, next, shape)]
            /\ worklist' = (worklist \ {pc}) \cup Unvisited(seen, next)
        BY <2>4, <3>2 DEF Visit
      <4> HIDE DEF next, shape
      <4>2. incoming'[checking] = Record(seen, next, shape)
        BY <2>1, <4>1
      <4> QED
        BY <4>1, <4>2 DEF Record, Unvisited
    <3> QED
      BY <3>1, <3>2
  <2> QED
    BY <1>1, <2>2, <2>3, <2>4 DEF LoadNext
<1>2. LoadInv /\ [LoadNext]_loadVars => [once]_loadVars
  BY <1>1
<1> QED
  BY <1>2, LoadInvInit, LoadInvNext, PTL DEF LoadSpec, VisitedOnce

-----------------------------------------------------------------------------
(***************************************************************************)
(* The runtime.  The invariant says that calls and suspended tasks are     *)
(* made of frames whose stacks have the shapes the loader recorded         *)
(* (GoodFrames, Suspended) and that the state table keeps the types of the *)
(* initial one.                                                            *)
(***************************************************************************)
GoodFrames == {f \in FrameType : FrameTyped(f)}

AwaitsResult(f) == Resumes(f, f.pc, Append(ShapeOf(f.stack), "String"))

Suspended == {f \in FrameType : f.wait = "none" /\ AwaitsResult(f)}

StateTables == {s \in Seq(Value) : ShapeOf(s) = ShapeOf(module.initial)}

Idle == ~started /\ calls = <<>> /\ DOMAIN tasks = {}

RunInv ==
  /\ LoadInv
  /\ phase = "loaded" \/ Idle
  /\ calls \in Seq(GoodFrames)
  /\ DOMAIN tasks \subseteq 1 .. nextTask - 1
  /\ \A id \in DOMAIN tasks : tasks[id] \in Suspended
  /\ state \in StateTables
  /\ started \in BOOLEAN
  /\ page \in Nat
  /\ nextTask \in Nat \ {0}
  /\ fault \notin RuledOut

(***************************************************************************)
(* The invariant implies the properties.                                   *)
(***************************************************************************)
LEMMA RunInvTypes == RunInv => RunTypeOK
<1> SUFFICES ASSUME RunInv PROVE RunTypeOK
  OBVIOUS
<1>1. \A n \in DOMAIN calls : calls[n] \in FrameType
  BY DEF RunInv, GoodFrames
<1>2. \A id \in DOMAIN tasks : id \in 1 .. nextTask - 1 /\ tasks[id] \in FrameType
  BY DEF RunInv, Suspended
<1> QED
  BY <1>1, <1>2 DEF RunInv, RunTypeOK, StateTables

LEMMA RunInvFrames == RunInv => FramesTyped
<1> SUFFICES ASSUME RunInv PROVE FramesTyped
  OBVIOUS
<1>1. calls # <<>> \/ DOMAIN tasks # {} \/ started => phase = "loaded"
  BY DEF RunInv, Idle
<1>2. \A n \in DOMAIN calls : FrameTyped(calls[n])
  BY DEF RunInv, GoodFrames
<1>3. \A id \in DOMAIN tasks :
        tasks[id].wait = "none" /\ AwaitsResult(tasks[id])
  BY DEF RunInv, Suspended
<1> QED
  BY <1>1, <1>2, <1>3 DEF RunInv, FramesTyped, StateTables, AwaitsResult

\* A shape has as many elements as its stack, and their types.
LEMMA ShapeOfType ==
  ASSUME NEW stack \in Seq(Value)
  PROVE  /\ ShapeOf(stack) \in Shape
         /\ Len(ShapeOf(stack)) = Len(stack)
         /\ \A n \in 1 .. Len(stack) : ShapeOf(stack)[n] = TypeOf(stack[n])
<1>1. \A n \in 1 .. Len(stack) : TypeOf(stack[n]) \in ValueType
  BY TypeOfValue
<1> QED
  BY <1>1 DEF ShapeOf, Shape

LEMMA RunInvBudget == RunInv => StackBudget
<1> SUFFICES ASSUME RunInv PROVE StackBudget
  OBVIOUS
<1> DEFINE max == module.limits.maxStack
<1>1. max \in Nat
  BY DEF RunInv, LoadInv, LoadTypeOK, RawModule, Limits
<1>2. calls # <<>> \/ DOMAIN tasks # {} => phase = "loaded"
  BY DEF RunInv, Idle
<1>3. ASSUME NEW f \in FrameType, NEW pc, NEW shape, phase = "loaded", Resumes(f, pc, shape)
      PROVE  Len(shape) <= max
  BY <1>3 DEF RunInv, LoadInv, ShapesFit, Searching, Resumes
<1>4. ASSUME NEW f \in GoodFrames, phase = "loaded"
      PROVE  Len(f.stack) <= max
  <2>1. f \in FrameType /\ f.stack \in Seq(Value) /\ FrameTyped(f)
    BY DEF GoodFrames, FrameType
  <2>2. Len(ShapeOf(f.stack)) = Len(f.stack) /\ ShapeOf(f.stack) \in Shape
    BY <2>1, ShapeOfType
  <2>3. CASE f.wait = "none"
    BY <2>1, <2>2, <2>3, <1>3, <1>4 DEF FrameTyped
  <2>4. CASE f.wait = "invoke"
    <3>1. Len(Append(ShapeOf(f.stack), "String")) <= max
      BY <2>1, <2>4, <1>3, <1>4 DEF FrameTyped
    <3>2. Len(Append(ShapeOf(f.stack), "String")) = Len(f.stack) + 1
      BY <2>2 DEF Shape
    <3> QED
      BY <3>1, <3>2, <1>1, <2>1
  <2>5. CASE f.wait = "render"
    BY <2>1, <2>2, <2>5, <1>1, <1>3, <1>4 DEF FrameTyped
  <2>6. CASE f.wait = "begin"
    BY <2>1, <2>6, <1>1 DEF FrameTyped
  <2> QED
    BY <2>1, <2>3, <2>4, <2>5, <2>6 DEF FrameType
<1>5. ASSUME NEW f \in Suspended, phase = "loaded"
      PROVE  Len(f.stack) < max
  <2>1. f \in FrameType /\ f.stack \in Seq(Value) /\ AwaitsResult(f)
    BY DEF Suspended, FrameType
  <2>2. Len(ShapeOf(f.stack)) = Len(f.stack) /\ ShapeOf(f.stack) \in Shape
    BY <2>1, ShapeOfType
  <2>3. Len(Append(ShapeOf(f.stack), "String")) <= max
    BY <2>1, <1>3, <1>5 DEF AwaitsResult
  <2>4. Len(Append(ShapeOf(f.stack), "String")) = Len(f.stack) + 1
    BY <2>2 DEF Shape
  <2> QED
    BY <2>1, <2>3, <2>4, <1>1
<1>6. \A n \in DOMAIN calls : calls[n] \in GoodFrames /\ phase = "loaded"
  BY <1>2 DEF RunInv
<1>7. \A id \in DOMAIN tasks : tasks[id] \in Suspended /\ phase = "loaded"
  BY <1>2 DEF RunInv
<1> QED
  BY <1>4, <1>5, <1>6, <1>7 DEF StackBudget

(***************************************************************************)
(* Initial states, and steps that leave the interpreter alone.             *)
(***************************************************************************)
LEMMA RunInvInit == MachineInit => RunInv
<1> SUFFICES ASSUME MachineInit PROVE RunInv
  OBVIOUS
<1>1. LoadInv
  BY LoadInvInit DEF MachineInit
<1>2. state \in StateTables
  BY <1>1 DEF MachineInit, LoadInv, LoadTypeOK, RawModule, StateTables
<1>3. fault \notin RuledOut
  BY DEF MachineInit, RuledOut
<1>4. Idle
  BY DEF MachineInit, Idle
<1>5. calls \in Seq(GoodFrames)
  BY DEF MachineInit
<1>6. page \in Nat /\ nextTask \in Nat \ {0}
  BY DEF MachineInit
<1>7. started \in BOOLEAN
  BY DEF MachineInit
<1> QED
  BY <1>1, <1>2, <1>3, <1>4, <1>5, <1>6, <1>7 DEF RunInv, Idle

\* What the invariant says of frames depends on the loader's variables only.
LEMMA LoadVarsFixed ==
  ASSUME RunInv, UNCHANGED loadVars
  PROVE  /\ LoadInv'
         /\ (phase = "loaded")' = (phase = "loaded")
         /\ GoodFrames' = GoodFrames
         /\ Suspended' = Suspended
         /\ StateTables' = StateTables
<1>1. LoadInv'
  BY LoadStutter DEF RunInv
<1>2. module' = module /\ incoming' = incoming /\ phase' = phase
  BY DEF loadVars
<1> QED
  BY <1>1, <1>2 DEF GoodFrames, Suspended, StateTables, FrameType, TreeType, FrameTyped, AwaitsResult,
                    Resumes, HandlerIds

LEMMA LoadStep == RunInv /\ Load => RunInv'
<1> SUFFICES ASSUME RunInv, Load PROVE RunInv'
  OBVIOUS
<1>1. LoadInv'
  BY LoadInvNext DEF RunInv, Load
<1>2. phase # "loaded" /\ module' = module
  BY DEF Load, LoadNext, Decode, FinishHandler, Visit
<1>3. Idle /\ Idle'
  BY <1>2 DEF RunInv, Load, Idle, runVars
<1>4. StateTables' = StateTables
  BY <1>2 DEF StateTables
<1>5. calls' \in Seq(GoodFrames')
  BY <1>3 DEF Idle
<1> QED
  BY <1>1, <1>3, <1>4, <1>5 DEF RunInv, Load, Idle, runVars

LEMMA RunStutter == RunInv /\ UNCHANGED vars => RunInv'
<1> SUFFICES ASSUME RunInv, UNCHANGED vars PROVE RunInv'
  OBVIOUS
<1> QED
  BY LoadVarsFixed DEF RunInv, Idle, vars, runVars

(***************************************************************************)
(* The host enters the runtime.                                            *)
(***************************************************************************)
\* What is known of the module once it is loaded.
LEMMA LoadedModule ==
  ASSUME RunInv, phase = "loaded"
  PROVE  /\ module \in RawModule
         /\ Decodes(module)
         /\ \A h \in HandlerIds(module) :
              h \in Int /\ WellTyped(module, h, incoming[h])
<1>1. Soundness /\ module \in RawModule
  BY LoadInvSoundness DEF RunInv, LoadInv, LoadTypeOK
<1> QED
  BY <1>1 DEF Soundness, HandlerIds, RawModule

\* A handler starts as its typing says.
LEMMA FreshFrame ==
  ASSUME RunInv, phase = "loaded", NEW h \in HandlerIds(module), NEW event \in EventType
  PROVE  Frame(h, event) \in GoodFrames
<1>1. h \in Int /\ 0 \in DOMAIN incoming[h] /\ incoming[h][0] = <<>>
  BY LoadedModule DEF WellTyped
<1>2. Frame(h, event) \in FrameType
  BY <1>1 DEF Frame, FrameType, TreeType
<1>3. FrameTyped(Frame(h, event))
  BY <1>1 DEF FrameTyped, Frame, Resumes, ShapeOf
<1> QED
  BY <1>2, <1>3 DEF GoodFrames

\* A tree is made of values of the state table.
LEMMA TreeTyped ==
  ASSUME RunInv, phase = "loaded", NEW p \in Pages(module)
  PROVE  <<Tree(p, state)>> \in TreeType
<1> DEFINE binds == module.pages[p + 1].binds
<1>1. module \in RawModule /\ p \in Nat /\ binds \subseteq Slots(module)
  BY LoadedModule DEF Pages, Decodes, PageDecodes, RawModule
<1>2. state \in Seq(Value) /\ Len(state) = Len(module.initial)
  <2>1. module.initial \in Seq(Value)
    BY <1>1 DEF RawModule
  <2>2. state \in Seq(Value) /\ ShapeOf(state) = ShapeOf(module.initial)
    BY DEF RunInv, StateTables
  <2> QED
    BY <2>1, <2>2, ShapeOfType
<1>3. \A s \in binds : state[s + 1] \in Value
  BY <1>1, <1>2 DEF Slots, RawModule
<1>4. [s \in binds |-> state[s + 1]] \in [binds -> Value]
  BY <1>3
<1>5. binds \in SUBSET (0 .. Len(module.initial))
  BY <1>1 DEF Slots, RawModule
<1>6. Tree(p, state) \in Nat \X UNION {[D -> Value] : D \in SUBSET (0 .. Len(module.initial))}
  BY <1>1, <1>4, <1>5 DEF Tree
<1> QED
  BY <1>6 DEF TreeType

LEMMA EventValuesType == EventValues \subseteq EventType
  BY MachineAssumption DEF EventValues, EventType, StringValue

\* The result of a capability completes the stack of a suspended frame.
LEMMA AppendShape ==
  ASSUME NEW stack \in Seq(Value), NEW v \in Value
  PROVE  /\ Append(stack, v) \in Seq(Value)
         /\ ShapeOf(Append(stack, v)) = Append(ShapeOf(stack), TypeOf(v))
  BY ShapeOfType DEF ShapeOf, Shape

LEMMA ResultType ==
  ASSUME NEW result \in Results
  PROVE  String(result) \in Value /\ TypeOf(String(result)) = "String"
  BY MachineAssumption DEF Value, StringValue, TypeOf, String

LEMMA ResumedFrame ==
  ASSUME RunInv, NEW id \in DOMAIN tasks, NEW result \in Results
  PROVE  Resumed(id, result) \in GoodFrames
<1> DEFINE f == tasks[id]
           r == Resumed(id, result)
<1>1. f \in FrameType /\ f.wait = "none" /\ AwaitsResult(f)
  BY DEF RunInv, Suspended
<1>2. /\ r \in FrameType /\ r.wait = "none" /\ r.handler = f.handler /\ r.pc = f.pc
      /\ r.stack = Append(f.stack, String(result))
  BY <1>1, ResultType, SMTT(30) DEF Resumed, FrameType
<1>3. ShapeOf(r.stack) = Append(ShapeOf(f.stack), "String")
  BY <1>1, <1>2, ResultType, AppendShape DEF FrameType
<1>4. FrameTyped(r)
  BY <1>1, <1>2, <1>3 DEF FrameTyped, AwaitsResult, Resumes
<1> QED
  BY <1>2, <1>4 DEF GoodFrames

TasksOK ==
  /\ nextTask \in Nat \ {0}
  /\ DOMAIN tasks \subseteq 1 .. nextTask - 1
  /\ \A id \in DOMAIN tasks : tasks[id] \in Suspended

\* A step of a loaded module has to account for what it changes.
LEMMA RunParts ==
  ASSUME RunInv, phase = "loaded", UNCHANGED loadVars,
         calls' \in Seq(GoodFrames), fault' \notin RuledOut,
         state' \in StateTables \/ UNCHANGED state,
         started' \in BOOLEAN \/ UNCHANGED started,
         page' \in Nat \/ UNCHANGED page,
         TasksOK' \/ UNCHANGED <<tasks, nextTask>>
  PROVE  RunInv'
<1>1. /\ LoadInv' /\ phase' = "loaded"
      /\ GoodFrames' = GoodFrames /\ Suspended' = Suspended /\ StateTables' = StateTables
  BY LoadVarsFixed DEF loadVars
<1>2. started' \in BOOLEAN
  BY DEF RunInv
<1>3. page' \in Nat /\ state' \in StateTables
  BY DEF RunInv
<1>4. TasksOK'
  BY <1>1 DEF RunInv, TasksOK
<1>5. (fault \notin RuledOut)'
  BY DEF RuledOut
<1> QED
  BY <1>1, <1>2, <1>3, <1>4, <1>5 DEF RunInv, TasksOK

LEMMA EnterStep ==
  ASSUME RunInv, NEW f \in GoodFrames, Enter(f)
  PROVE  calls' \in Seq(GoodFrames) /\ fault' \notin RuledOut
<1>1. calls' \in Seq(GoodFrames)
  BY DEF RunInv, Enter
<1>2. fault' \notin RuledOut
  BY DEF Enter, RuledOut
<1> QED
  BY <1>1, <1>2

LEMMA StartHandlerStep == RunInv /\ StartHandler => RunInv'
<1> SUFFICES ASSUME RunInv, StartHandler PROVE RunInv'
  OBVIOUS
<1>1. phase = "loaded"
  BY DEF StartHandler, HostHasControl
<1>2. module.entryHandler[1] \in HandlerIds(module) /\ <<>> \in EventType
  <2>1. module.entryHandler \in Seq(Nat) /\ module.entryHandler # <<>>
    BY <1>1, LoadedModule DEF StartHandler, RawModule
  <2> QED
    BY <1>1, <2>1, LoadedModule DEF Decodes, EventType
<1>3. calls' \in Seq(GoodFrames) /\ fault' \notin RuledOut
  BY <1>1, <1>2, FreshFrame, EnterStep DEF StartHandler
<1>4. started' \in BOOLEAN
  BY DEF StartHandler
<1> QED
  BY <1>1, <1>3, <1>4, RunParts DEF StartHandler

LEMMA StartPageStep == RunInv /\ StartPage => RunInv'
<1> SUFFICES ASSUME RunInv, StartPage PROVE RunInv'
  OBVIOUS
<1> DEFINE f == [Frame(NoHandler, <<>>) EXCEPT
                   !.wait = "render", !.tree = <<Tree(module.entryPage, state)>>]
<1>1. phase = "loaded"
  BY DEF StartPage, HostHasControl
<1>2. module.entryPage \in Pages(module) /\ module.entryPage \in Nat
  BY <1>1, LoadedModule DEF Decodes, RawModule
<1>3. f \in FrameType
  <2>1. <<Tree(module.entryPage, state)>> \in TreeType
    BY <1>1, <1>2, TreeTyped
  <2>2. Frame(NoHandler, <<>>) \in FrameType
    BY DEF Frame, FrameType, NoHandler, EventType, TreeType
  <2> QED
    BY <2>1, <2>2 DEF FrameType
<1>4. FrameTyped(f)
  BY DEF FrameTyped, Frame
<1>5. calls' \in Seq(GoodFrames) /\ fault' \notin RuledOut
  BY <1>3, <1>4, EnterStep DEF StartPage, GoodFrames
<1>6. started' \in BOOLEAN
  BY DEF StartPage
<1> QED
  BY <1>1, <1>2, <1>5, <1>6, RunParts DEF StartPage

LEMMA DispatchStep ==
  ASSUME NEW h \in HandlerIds(module), NEW event \in EventValues
  PROVE  RunInv /\ Dispatch(h, event) => RunInv'
<1> SUFFICES ASSUME RunInv, Dispatch(h, event) PROVE RunInv'
  OBVIOUS
<1>1. phase = "loaded"
  BY DEF Dispatch, HostHasControl
<1>2. calls' \in Seq(GoodFrames) /\ fault' \notin RuledOut
  BY <1>1, EventValuesType, FreshFrame, EnterStep DEF Dispatch
<1> QED
  BY <1>1, <1>2, RunParts DEF Dispatch

LEMMA CompleteEffectStep ==
  ASSUME NEW id \in DOMAIN tasks, NEW result \in Results
  PROVE  RunInv /\ CompleteEffect(id, result) => RunInv'
<1> SUFFICES ASSUME RunInv, CompleteEffect(id, result) PROVE RunInv'
  OBVIOUS
<1>1. phase = "loaded"
  BY DEF CompleteEffect, HostHasControl
<1>2. calls' \in Seq(GoodFrames) /\ fault' \notin RuledOut
  BY ResumedFrame, EnterStep DEF CompleteEffect
<1>3. TasksOK'
  BY LoadVarsFixed DEF CompleteEffect, Without, RunInv, TasksOK
<1> QED
  BY <1>1, <1>2, <1>3, RunParts DEF CompleteEffect

LEMMA CancelAllTasksStep == RunInv /\ CancelAllTasks => RunInv'
<1> SUFFICES ASSUME RunInv, CancelAllTasks PROVE RunInv'
  OBVIOUS
<1>1. phase = "loaded"
  BY DEF CancelAllTasks, HostHasControl
<1>2. calls' \in Seq(GoodFrames) /\ fault' \notin RuledOut
  BY DEF CancelAllTasks, RunInv
<1>3. TasksOK'
  BY DEF CancelAllTasks, RunInv, TasksOK
<1> QED
  BY <1>1, <1>2, <1>3, RunParts DEF CancelAllTasks

LEMMA RestoreStateStep ==
  ASSUME NEW slots \in RestoredTables
  PROVE  RunInv /\ RestoreState(slots) => RunInv'
<1> SUFFICES ASSUME RunInv, RestoreState(slots) PROVE RunInv'
  OBVIOUS
<1>1. phase = "loaded"
  BY DEF RestoreState, HostHasControl
<1>2. /\ slots \in Seq(Value) /\ module.initial \in Seq(Value)
      /\ DOMAIN slots = DOMAIN module.initial
  BY <1>1, LoadedModule, MachineAssumption DEF RestoreState, RawModule
<1>3. \A n \in DOMAIN slots : TypeOf(slots[n]) = TypeOf(module.initial[n])
  <2> TAKE n \in DOMAIN slots
  <2>1. n - 1 \in Slots(module) /\ (n - 1) + 1 = n
    BY <1>2 DEF Slots
  <2> QED
    BY <2>1 DEF RestoreState, SlotType
<1>4. slots \in StateTables
  BY <1>2, <1>3 DEF StateTables, ShapeOf
<1>5. calls' \in Seq(GoodFrames) /\ fault' \notin RuledOut
  BY DEF RestoreState, RunInv
<1> QED
  BY <1>1, <1>4, <1>5, RunParts DEF RestoreState

(***************************************************************************)
(* The interpreter: where the frame on top stands.                         *)
(***************************************************************************)
LEMMA TopFrame ==
  ASSUME RunInv, calls # <<>>
  PROVE  /\ phase = "loaded"
         /\ Top \in GoodFrames /\ Top \in FrameType /\ FrameTyped(Top)
         /\ Return \in Seq(GoodFrames)
         /\ \A f \in GoodFrames : WithTop(f) \in Seq(GoodFrames)
<1>1. calls \in Seq(GoodFrames) /\ Len(calls) \in 1 .. Len(calls)
  BY DEF RunInv
<1>2. phase = "loaded"
  BY DEF RunInv, Idle
<1>3. Top \in GoodFrames
  BY <1>1 DEF Top
<1>4. Return \in Seq(GoodFrames)
  BY <1>1, DropType DEF Return
<1>5. \A f \in GoodFrames : WithTop(f) \in Seq(GoodFrames)
  BY <1>1 DEF WithTop
<1> QED
  BY <1>2, <1>3, <1>4, <1>5 DEF GoodFrames

LEMMA ThrowStep ==
  ASSUME RunInv, calls # <<>>, NEW what, what \notin RuledOut, Throw(what)
  PROVE  calls' \in Seq(GoodFrames) /\ fault' \notin RuledOut
  BY TopFrame DEF Throw

LEMMA ReplaceStep ==
  ASSUME RunInv, calls # <<>>, NEW f \in GoodFrames, calls' = WithTop(f), UNCHANGED fault
  PROVE  calls' \in Seq(GoodFrames) /\ fault' \notin RuledOut
<1>1. fault' \notin RuledOut
  BY DEF RunInv
<1> QED
  BY <1>1, TopFrame

\* The address a frame goes on from lies in its handler, and its stack is
\* within budget.
LEMMA ResumesType ==
  ASSUME RunInv, phase = "loaded", NEW frame, NEW pc, NEW shape, Resumes(frame, pc, shape)
  PROVE  /\ frame.handler \in HandlerIds(module)
         /\ pc \in Addresses(module, frame.handler) /\ pc \in Nat
         /\ Len(shape) <= module.limits.maxStack
         /\ TypedAt(module, frame.handler, incoming[frame.handler], pc)
<1>1. /\ frame.handler \in HandlerIds(module)
      /\ pc \in DOMAIN incoming[frame.handler]
      /\ incoming[frame.handler][pc] = shape
  BY DEF Resumes
<1>2. WellTyped(module, frame.handler, incoming[frame.handler])
  BY <1>1, LoadedModule
<1>3. Len(shape) <= module.limits.maxStack
  BY <1>1 DEF RunInv, LoadInv, ShapesFit, Searching
<1> QED
  BY <1>1, <1>2, <1>3 DEF WellTyped, Addresses

\* The stack budget is never what stops a turn of the loop.
LEMMA ContinueStep ==
  ASSUME RunInv, calls # <<>>,
         NEW frame \in FrameType, NEW stack \in Seq(Value), NEW pc,
         Resumes(frame, pc, ShapeOf(stack)), Continue(frame, stack, pc)
  PROVE  calls' \in Seq(GoodFrames) /\ fault' \notin RuledOut
<1> DEFINE f == [frame EXCEPT !.stack = stack, !.pc = pc, !.wait = "none"]
<1>1. pc \in Nat /\ Len(ShapeOf(stack)) <= module.limits.maxStack
  BY TopFrame, ResumesType
<1>2. Len(stack) <= module.limits.maxStack
  BY <1>1, ShapeOfType
<1>3. calls' = WithTop(f) /\ UNCHANGED fault
  <2>1. ~(Len(stack) > module.limits.maxStack)
    <3>1. Len(stack) \in Nat /\ module.limits.maxStack \in Nat
      BY TopFrame, LoadedModule DEF RawModule, Limits
    <3> QED
      BY <1>2, <3>1
  <2> QED
    BY <2>1 DEF Continue
<1>4. f \in FrameType /\ f.wait = "none" /\ f.handler = frame.handler /\ f.pc = pc /\ f.stack = stack
  BY <1>1 DEF FrameType
<1>5. f \in GoodFrames
  BY <1>4 DEF GoodFrames, FrameTyped, Resumes
<1> QED
  BY <1>3, <1>5, ReplaceStep

\* The instruction fetched finds the operands its handler's typing promises,
\* and the typing covers wherever the instruction leads.
LEMMA FetchedInstr ==
  ASSUME RunInv, calls # <<>>, Top.wait = "none"
  PROVE  /\ Top.handler \in HandlerIds(module) /\ Top.pc \in Code
         /\ Top.stack \in Seq(Value)
         /\ Instr \in Instruction /\ OperandsDecode(module, Instr)
         /\ Accepts(module, Instr, ShapeOf(Top.stack))
         /\ Pops(Instr) \in 0 .. Len(Top.stack)
         /\ \A next \in Successors(Instr, Top.pc) :
              Resumes(Top, next, ShapeAfter(module, Instr, ShapeOf(Top.stack)))
<1>1. Top \in FrameType /\ Resumes(Top, Top.pc, ShapeOf(Top.stack)) /\ phase = "loaded"
  BY TopFrame DEF FrameTyped
<1>2. /\ Top.handler \in HandlerIds(module) /\ Top.pc \in Code
      /\ TypedAt(module, Top.handler, incoming[Top.handler], Top.pc)
  BY <1>1, ResumesType DEF Code
<1>3. Instr \in Instruction /\ OperandsDecode(module, Instr)
  BY <1>1, <1>2, LoadedModule, FetchType, DecodedHandler DEF Instr, Code
<1>4. incoming[Top.handler][Top.pc] = ShapeOf(Top.stack)
  BY <1>1 DEF Resumes
<1>5. Accepts(module, Instr, ShapeOf(Top.stack))
  BY <1>2, <1>4 DEF TypedAt, StepFits, Instr
<1>6. Top.stack \in Seq(Value)
  BY <1>1 DEF FrameType
<1>7. Pops(Instr) \in 0 .. Len(Top.stack)
  BY <1>3, <1>5, <1>6, PopsType, ShapeOfType DEF Accepts
<1>8. \A next \in Successors(Instr, Top.pc) :
        Resumes(Top, next, ShapeAfter(module, Instr, ShapeOf(Top.stack)))
  BY <1>2, <1>4 DEF TypedAt, Resumes, Instr
<1> QED
  BY <1>2, <1>3, <1>5, <1>6, <1>7, <1>8

\* Dropping and concatenating commute with taking the shape.
LEMMA DropShape ==
  ASSUME NEW stack \in Seq(Value), NEW n \in 0 .. Len(stack)
  PROVE  /\ Drop(stack, n) \in Seq(Value)
         /\ ShapeOf(Drop(stack, n)) = Drop(ShapeOf(stack), n)
<1>1. Drop(stack, n) \in Seq(Value) /\ Len(ShapeOf(stack)) = Len(stack)
  BY DropType, ShapeOfType
<1>2. ShapeOf(Drop(stack, n)) = [k \in 1 .. Len(stack) - n |-> TypeOf(stack[k])]
  BY DEF ShapeOf, Drop
<1>3. Drop(ShapeOf(stack), n) = [k \in 1 .. Len(stack) - n |-> TypeOf(stack[k])]
  BY <1>1, ShapeOfType DEF Drop
<1> QED
  BY <1>1, <1>2, <1>3

LEMMA ConcatShape ==
  ASSUME NEW s \in Seq(Value), NEW t \in Seq(Value)
  PROVE  s \o t \in Seq(Value) /\ ShapeOf(s \o t) = ShapeOf(s) \o ShapeOf(t)
<1>1. s \o t \in Seq(Value) /\ Len(s \o t) = Len(s) + Len(t)
  OBVIOUS
<1> DEFINE a == ShapeOf(s)
           b == ShapeOf(t)
           c == ShapeOf(s \o t)
<1>2. /\ a \in Seq(ValueType) /\ Len(a) = Len(s)
      /\ b \in Seq(ValueType) /\ Len(b) = Len(t)
      /\ c \in Seq(ValueType) /\ Len(c) = Len(s) + Len(t)
      /\ \A k \in 1 .. Len(s) : a[k] = TypeOf(s[k])
      /\ \A k \in 1 .. Len(t) : b[k] = TypeOf(t[k])
      /\ \A k \in 1 .. Len(s) + Len(t) : c[k] = TypeOf((s \o t)[k])
  BY <1>1, ShapeOfType DEF Shape
<1> HIDE DEF a, b, c
<1>3. a \o b \in Seq(ValueType) /\ Len(a \o b) = Len(s) + Len(t)
  <2>1. a \in Seq(ValueType) /\ b \in Seq(ValueType) /\ Len(a) = Len(s) /\ Len(b) = Len(t)
    BY <1>2
  <2>2. a \o b \in Seq(ValueType) /\ Len(a \o b) = Len(a) + Len(b)
    BY <2>1
  <2> QED
    BY <2>1, <2>2
<1>4. ASSUME NEW k \in 1 .. Len(s) + Len(t) PROVE c[k] = (a \o b)[k]
  <2>1. CASE k <= Len(s)
    <3>1. (s \o t)[k] = s[k] /\ k \in 1 .. Len(s)
      BY <2>1
    <3>2. (a \o b)[k] = a[k]
      BY <1>2, <2>1
    <3> QED
      BY <1>2, <3>1, <3>2
  <2>2. CASE ~(k <= Len(s))
    <3>1. (s \o t)[k] = t[k - Len(s)] /\ k - Len(s) \in 1 .. Len(t)
      BY <2>2
    <3>2. (a \o b)[k] = b[k - Len(s)]
      BY <1>2, <2>2
    <3> QED
      BY <1>2, <3>1, <3>2
  <2> QED
    BY <2>1, <2>2
<1>5. c = a \o b
  BY <1>2, <1>3, <1>4, SeqEqual
<1> QED
  BY <1>1, <1>5 DEF a, b, c

LEMMA RestType ==
  ASSUME RunInv, calls # <<>>, Top.wait = "none"
  PROVE  /\ Rest \in Seq(Value)
         /\ ShapeOf(Rest) = Drop(ShapeOf(Top.stack), Pops(Instr))
  BY FetchedInstr, DropShape DEF Rest

(***************************************************************************)
(* The interpreter: instructions that stay inside the runtime.             *)
(***************************************************************************)
\* Counting an instruction changes nothing the typing speaks of.
LEMMA CountedFrame ==
  ASSUME RunInv, calls # <<>>
  PROVE  /\ Counted \in FrameType
         /\ Counted.handler = Top.handler /\ Counted.pc = Top.pc
         /\ Counted.stack = Top.stack /\ Counted.wait = Top.wait
<1>1. Top \in FrameType
  BY TopFrame
<1> QED
  BY <1>1 DEF Counted, FrameType

\* Going on at a successor, with the stack the typing gives it.
LEMMA SuccessorStep ==
  ASSUME RunInv, calls # <<>>, Top.wait = "none",
         NEW results \in Seq(Value), ShapeOf(results) = Pushes(module, Instr),
         NEW next \in Successors(Instr, Top.pc),
         Continue(Counted, Rest \o results, next)
  PROVE  calls' \in Seq(GoodFrames) /\ fault' \notin RuledOut
<1>1. Rest \o results \in Seq(Value)
      /\ ShapeOf(Rest \o results) = ShapeOf(Rest) \o ShapeOf(results)
  BY RestType, ConcatShape
<1>2. ShapeOf(Rest \o results) = ShapeAfter(module, Instr, ShapeOf(Top.stack))
  BY <1>1, RestType DEF ShapeAfter
<1>3. Resumes(Top, next, ShapeOf(Rest \o results))
  BY <1>2, FetchedInstr
<1>4. Resumes(Counted, next, ShapeOf(Rest \o results))
  BY <1>3, CountedFrame DEF Resumes
<1> QED
  BY <1>1, <1>4, CountedFrame, ContinueStep

\* One value has the shape of its type.
LEMMA OneShape ==
  ASSUME NEW v \in Value
  PROVE  <<v>> \in Seq(Value) /\ ShapeOf(<<v>>) = <<TypeOf(v)>>
  BY DEF ShapeOf

LEMMA NoShape == <<>> \in Seq(Value) /\ ShapeOf(<<>>) = <<>>
  BY DEF ShapeOf

LEMMA InterruptStep == RunInv /\ Interrupt => RunInv'
<1> SUFFICES ASSUME RunInv, Interrupt PROVE RunInv'
  OBVIOUS
<1>1. calls # <<>> /\ Top.wait = "none" /\ UNCHANGED loadVars
  BY DEF Interrupt, Fetched
<1>2. Top.pc \in Code /\ ~(Len(Top.stack) < Pops(Instr))
  <2>1. Top.pc \in Code /\ Pops(Instr) \in 0 .. Len(Top.stack) /\ Top.stack \in Seq(Value)
    BY <1>1, FetchedInstr
  <2> QED
    BY <2>1
<1>3. Throw("instruction watchdog exceeded")
  BY <1>2 DEF Interrupt
<1>4. calls' \in Seq(GoodFrames) /\ fault' \notin RuledOut
  BY <1>1, <1>3, ThrowStep DEF RuledOut
<1> QED
  BY <1>1, <1>4, TopFrame, RunParts DEF Interrupt

LEMMA ComputeStep == RunInv /\ Compute => RunInv'
<1> SUFFICES ASSUME RunInv, Compute PROVE RunInv'
  OBVIOUS
<1>1. calls # <<>> /\ Top.wait = "none"
  BY DEF Compute, Runs, Fetched
<1>2. Instr \in Instruction /\ phase = "loaded" /\ Top \in FrameType
  BY <1>1, FetchedInstr, TopFrame
<1> SUFFICES calls' \in Seq(GoodFrames) /\ fault' \notin RuledOut
  BY <1>2, RunParts DEF Compute
<1>3. CASE Runs("Constant") /\ Yield(<<Instr.value>>)
  <2>1. Instr.value \in Value /\ Instr.op = "Constant"
    BY <1>2, <1>3 DEF Instruction, Runs
  <2>2. Pushes(module, Instr) = <<TypeOf(Instr.value)>>
    BY <2>1 DEF Pushes
  <2>3. Top.pc + 1 \in Successors(Instr, Top.pc)
    BY <2>1 DEF Successors
  <2> QED
    BY <1>1, <1>3, <2>1, <2>2, <2>3, OneShape, SuccessorStep DEF Yield
<1>4. CASE Runs("EventValue") /\ Top.event # <<>> /\ Yield(Top.event)
  <2>1. PICK v \in StringValue : Top.event = <<v>>
    BY <1>2, <1>4 DEF FrameType, EventType
  <2>2. v \in Value /\ TypeOf(v) = "String"
    BY <2>1 DEF StringValue, Value, TypeOf, String
  <2>3. Pushes(module, Instr) = <<"String">>
    BY <1>4 DEF Pushes, Runs
  <2>4. Top.pc + 1 \in Successors(Instr, Top.pc)
    BY <1>4 DEF Successors, Runs
  <2> QED
    BY <1>1, <1>4, <2>1, <2>2, <2>3, <2>4, OneShape, SuccessorStep DEF Yield
<1>5. CASE Runs("StateGet") /\ Yield(<<state[Instr.first + 1]>>)
  <2>1. Instr.op = "StateGet" /\ Instr.first \in Slots(module) /\ module.initial \in Seq(Value)
    BY <1>1, <1>2, <1>5, FetchedInstr, LoadedModule DEF Runs, OperandsDecode, RawModule
  <2>2. state \in Seq(Value) /\ ShapeOf(state) = ShapeOf(module.initial)
    BY DEF RunInv, StateTables
  <2>3. /\ Instr.first + 1 \in 1 .. Len(state)
        /\ TypeOf(state[Instr.first + 1]) = SlotType(module, Instr.first)
    BY <2>1, <2>2, ShapeOfType DEF Slots, SlotType
  <2>4. state[Instr.first + 1] \in Value
    BY <2>2, <2>3
  <2>5. Pushes(module, Instr) = <<TypeOf(state[Instr.first + 1])>>
    BY <2>1, <2>3 DEF Pushes
  <2>6. Top.pc + 1 \in Successors(Instr, Top.pc)
    BY <2>1 DEF Successors
  <2> QED
    BY <1>1, <1>5, <2>4, <2>5, <2>6, OneShape, SuccessorStep DEF Yield
<1>6. CASE Runs("Equal") /\ Yield(<<Boolean(Operand(1) = Operand(2))>>)
  <2> DEFINE v == Boolean(Operand(1) = Operand(2))
  <2>1. (Operand(1) = Operand(2)) \in BOOLEAN
    OBVIOUS
  <2>2. v \in Value /\ TypeOf(v) = "Boolean"
    BY <2>1 DEF BooleanValue, Value, TypeOf, Boolean
  <2>3. Pushes(module, Instr) = <<"Boolean">>
    BY <1>6 DEF Pushes, Runs
  <2>4. Top.pc + 1 \in Successors(Instr, Top.pc)
    BY <1>6 DEF Successors, Runs
  <2> HIDE DEF v
  <2>5. Yield(<<v>>)
    BY <1>6 DEF v
  <2> QED
    BY <1>1, <2>2, <2>3, <2>4, <2>5, OneShape, SuccessorStep DEF Yield
<1>7. CASE Runs("Pop") /\ Yield(<<>>)
  <2>1. Pushes(module, Instr) = <<>> /\ Top.pc + 1 \in Successors(Instr, Top.pc)
    BY <1>7 DEF Pushes, Successors, Runs
  <2> QED
    BY <1>1, <1>7, <2>1, NoShape, SuccessorStep DEF Yield
<1>8. CASE Runs("Jump") /\ Continue(Counted, Top.stack, Instr.first)
  <2>1. Pops(Instr) = 0 /\ Pushes(module, Instr) = <<>> /\ Instr.first \in Successors(Instr, Top.pc)
    BY <1>8 DEF Pops, Pushes, Successors, Runs
  <2>2. Rest \o <<>> = Top.stack
    BY <1>2, <2>1 DEF Rest, Drop, FrameType
  <2> QED
    BY <1>1, <1>8, <2>1, <2>2, NoShape, SuccessorStep
<1> QED
  BY <1>3, <1>4, <1>5, <1>6, <1>7, <1>8 DEF Compute

LEMMA EventValueMissingStep == RunInv /\ EventValueMissing => RunInv'
<1> SUFFICES ASSUME RunInv, EventValueMissing PROVE RunInv'
  OBVIOUS
<1>1. calls # <<>> /\ "handler requires a UI event value" \notin RuledOut
  BY DEF EventValueMissing, Runs, Fetched, RuledOut
<1>2. calls' \in Seq(GoodFrames) /\ fault' \notin RuledOut
  BY <1>1, ThrowStep DEF EventValueMissing
<1> QED
  BY <1>1, <1>2, TopFrame, RunParts DEF EventValueMissing

\* The operands of an instruction have the types validation looked for.
LEMMA OperandType ==
  ASSUME RunInv, calls # <<>>, Top.wait = "none", NEW n \in 1 .. Pops(Instr)
  PROVE  /\ Operand(n) \in Value
         /\ Peek(ShapeOf(Top.stack), n) = TypeOf(Operand(n))
<1>1. /\ Top.stack \in Seq(Value) /\ n \in Int
      /\ Len(Top.stack) - n + 1 \in 1 .. Len(Top.stack)
  BY FetchedInstr
<1> QED
  BY <1>1, ShapeOfType DEF Operand, Peek

LEMMA IntegerPayload ==
  ASSUME NEW v \in Value, TypeOf(v) = "Integer"
  PROVE  Payload(v) \in MinInteger .. MaxInteger
  BY DEF Value, IntegerValue, BooleanValue, StringValue, Integer, Boolean, String,
         TypeOf, Payload

LEMMA IntegerAddStep == RunInv /\ IntegerAdd => RunInv'
<1> SUFFICES ASSUME RunInv, IntegerAdd PROVE RunInv'
  OBVIOUS
<1> DEFINE left  == Payload(Operand(2))
           right == Payload(Operand(1))
<1>1. calls # <<>> /\ Top.wait = "none" /\ Instr.op = "IntegerAdd"
  BY DEF IntegerAdd, Runs, Fetched
<1>2. Pops(Instr) = 2
  BY <1>1 DEF Pops
<1>3. /\ Operand(1) \in Value /\ TypeOf(Operand(1)) = "Integer"
      /\ Operand(2) \in Value /\ TypeOf(Operand(2)) = "Integer"
  BY <1>1, <1>2, OperandType, FetchedInstr DEF Accepts
<1>4. /\ left \in Int /\ MinInteger <= left /\ left <= MaxInteger
      /\ right \in Int /\ MinInteger <= right /\ right <= MaxInteger
  BY <1>3, IntegerPayload, IntegerAssumption
<1> SUFFICES calls' \in Seq(GoodFrames) /\ fault' \notin RuledOut
  BY <1>1, TopFrame, RunParts DEF IntegerAdd
<1>5. CASE Overflows(left, right)
  <2>1. Throw("integer overflow")
    BY <1>3, <1>5 DEF IntegerAdd
  <2> QED
    BY <1>1, <2>1, ThrowStep DEF RuledOut
<1>6. CASE ~Overflows(left, right)
  <2> DEFINE v == Integer(left + right)
  <2>1. Yield(<<v>>)
    BY <1>3, <1>6 DEF IntegerAdd
  <2>2. left + right \in MinInteger .. MaxInteger
    BY <1>4, <1>6, IntegerAssumption DEF Overflows
  <2>3. v \in Value /\ TypeOf(v) = "Integer"
    BY <2>2 DEF Value, IntegerValue, Integer, TypeOf
  <2>4. Pushes(module, Instr) = <<"Integer">> /\ Top.pc + 1 \in Successors(Instr, Top.pc)
    BY <1>1 DEF Pushes, Successors
  <2> HIDE DEF v
  <2> QED
    BY <1>1, <2>1, <2>3, <2>4, OneShape, SuccessorStep DEF Yield
<1> QED
  BY <1>5, <1>6

LEMMA JumpIfFalseStep == RunInv /\ JumpIfFalse => RunInv'
<1> SUFFICES ASSUME RunInv, JumpIfFalse PROVE RunInv'
  OBVIOUS
<1> DEFINE next == IF Payload(Operand(1)) THEN Top.pc + 1 ELSE Instr.first
<1>1. calls # <<>> /\ Top.wait = "none" /\ Instr.op = "JumpIfFalse"
  BY DEF JumpIfFalse, Runs, Fetched
<1>2. Pops(Instr) = 1 /\ Pushes(module, Instr) = <<>>
  BY <1>1 DEF Pops, Pushes
<1>3. TypeOf(Operand(1)) = "Boolean"
  BY <1>1, <1>2, OperandType, FetchedInstr DEF Accepts
<1>4. Continue(Counted, Rest, next)
  BY <1>3 DEF JumpIfFalse
<1>5. next \in Successors(Instr, Top.pc)
  BY <1>1 DEF Successors
<1>6. Rest \o <<>> = Rest
  BY <1>1, RestType
<1> HIDE DEF next
<1>7. calls' \in Seq(GoodFrames) /\ fault' \notin RuledOut
  BY <1>1, <1>2, <1>4, <1>5, <1>6, NoShape, SuccessorStep
<1> QED
  BY <1>1, <1>7, TopFrame, RunParts DEF JumpIfFalse

LEMMA StateSetStep == RunInv /\ StateSet => RunInv'
<1> SUFFICES ASSUME RunInv, StateSet PROVE RunInv'
  OBVIOUS
<1> DEFINE slot  == Instr.first + 1
           after == [state EXCEPT ![slot] = Operand(1)]
<1>1. calls # <<>> /\ Top.wait = "none" /\ Instr.op = "StateSet"
  BY DEF StateSet, Runs, Fetched
<1>2. Pops(Instr) = 1 /\ Pushes(module, Instr) = <<>> /\ Top.pc + 1 \in Successors(Instr, Top.pc)
  BY <1>1 DEF Pops, Pushes, Successors
<1>3. Operand(1) \in Value /\ TypeOf(Operand(1)) = SlotType(module, Instr.first)
  BY <1>1, <1>2, OperandType, FetchedInstr DEF Accepts
<1>4. module.initial \in Seq(Value) /\ Instr.first \in Slots(module)
  BY <1>1, FetchedInstr, TopFrame, LoadedModule DEF OperandsDecode, RawModule
<1>5. state \in Seq(Value) /\ ShapeOf(state) = ShapeOf(module.initial)
  BY DEF RunInv, StateTables
<1>6. /\ slot \in 1 .. Len(state) /\ DOMAIN state = DOMAIN module.initial
      /\ \A k \in DOMAIN state : TypeOf(state[k]) = TypeOf(module.initial[k])
  <2>1. Len(state) = Len(module.initial)
    BY <1>4, <1>5, ShapeOfType
  <2> QED
    BY <1>4, <1>5, <2>1, ShapeOfType DEF Slots
<1>7. TypeOf(Operand(1)) = TypeOf(state[slot])
  BY <1>3, <1>6 DEF SlotType
<1>8. after \in StateTables
  <2>1. after \in Seq(Value) /\ DOMAIN after = DOMAIN state
    BY <1>3, <1>5, <1>6
  <2>2. \A k \in DOMAIN after : TypeOf(after[k]) = TypeOf(module.initial[k])
    BY <1>6, <1>7, <2>1
  <2> QED
    BY <1>6, <2>1, <2>2 DEF StateTables, ShapeOf
<1>9. CASE StateSize(after) > module.limits.maxStateBytes
  <2>1. Throw("state mutation exceeds its resource budget") /\ UNCHANGED state
    BY <1>7, <1>9 DEF StateSet
  <2>2. calls' \in Seq(GoodFrames) /\ fault' \notin RuledOut
    BY <1>1, <2>1, ThrowStep DEF RuledOut
  <2> QED
    BY <1>1, <2>1, <2>2, TopFrame, RunParts DEF StateSet
<1>10. CASE ~(StateSize(after) > module.limits.maxStateBytes)
  <2>1. Yield(<<>>) /\ state' = after
    BY <1>7, <1>10 DEF StateSet
  <2>2. calls' \in Seq(GoodFrames) /\ fault' \notin RuledOut
    BY <1>1, <1>2, <2>1, NoShape, SuccessorStep DEF Yield
  <2> QED
    BY <1>1, <1>8, <2>1, <2>2, TopFrame, RunParts DEF StateSet
<1> QED
  BY <1>9, <1>10

LEMMA HaltStep == RunInv /\ Halt => RunInv'
<1> SUFFICES ASSUME RunInv, Halt PROVE RunInv'
  OBVIOUS
<1>1. calls # <<>>
  BY DEF Halt, Runs, Fetched
<1>2. calls' \in Seq(GoodFrames) /\ fault' \notin RuledOut
  <2>1. fault' \notin RuledOut
    BY DEF Halt, RunInv
  <2> QED
    BY <1>1, <2>1, TopFrame DEF Halt
<1> QED
  BY <1>1, <1>2, TopFrame, RunParts DEF Halt

(***************************************************************************)
(* The interpreter: instructions that call the host.                       *)
(***************************************************************************)
\* The next address, for an instruction that falls through.
LEMMA FallThrough ==
  ASSUME RunInv, calls # <<>>, Top.wait = "none",
         Top.pc + 1 \in Successors(Instr, Top.pc), Pushes(module, Instr) = <<"String">>
  PROVE  Resumes(Top, Top.pc + 1, Append(ShapeOf(Rest), "String"))
<1>1. Resumes(Top, Top.pc + 1, ShapeAfter(module, Instr, ShapeOf(Top.stack)))
  BY FetchedInstr
<1>2. ShapeOf(Rest) \in Seq(ValueType)
  BY RestType, ShapeOfType DEF Shape
<1>3. ShapeAfter(module, Instr, ShapeOf(Top.stack)) = ShapeOf(Rest) \o <<"String">>
  BY RestType DEF ShapeAfter
<1>4. ShapeOf(Rest) \o <<"String">> = Append(ShapeOf(Rest), "String")
  BY <1>2
<1> QED
  BY <1>1, <1>3, <1>4

LEMMA RenderStep == RunInv /\ Render => RunInv'
<1> SUFFICES ASSUME RunInv, Render PROVE RunInv'
  OBVIOUS
<1> DEFINE tree == <<Tree(Instr.first, state)>>
           f    == [Counted EXCEPT !.wait = "render", !.tree = tree]
<1>1. calls # <<>> /\ Top.wait = "none" /\ Instr.op = "Render"
  BY DEF Render, Runs, Fetched
<1>2. /\ Pops(Instr) = 0 /\ Pushes(module, Instr) = <<>>
      /\ Top.pc + 1 \in Successors(Instr, Top.pc)
  BY <1>1 DEF Pops, Pushes, Successors
<1>3. Instr.first \in Pages(module) /\ Instr.first \in Nat
  BY <1>1, FetchedInstr DEF Accepts, Instruction
<1> SUFFICES calls' \in Seq(GoodFrames) /\ fault' \notin RuledOut
  BY <1>1, <1>3, TopFrame, RunParts DEF Render
<1>4. CASE Unchanged(tree)
  BY <1>1, <1>2, <1>3, <1>4, NoShape, SuccessorStep DEF Render, Yield
<1>5. CASE ~Unchanged(tree)
  <2>1. calls' = WithTop(f) /\ UNCHANGED fault
    BY <1>3, <1>5 DEF Render, Deliver
  <2>2. tree \in TreeType
    BY <1>1, <1>3, TopFrame, TreeTyped
  <2>3. /\ f \in FrameType /\ f.wait = "render" /\ f.handler = Top.handler
        /\ f.pc = Top.pc /\ f.stack = Top.stack
    <3> HIDE DEF tree
    <3> QED
      BY <1>1, <2>2, CountedFrame DEF FrameType
  <2>4. Resumes(Top, Top.pc + 1, ShapeOf(Top.stack))
    <3>1. Resumes(Top, Top.pc + 1, ShapeAfter(module, Instr, ShapeOf(Top.stack)))
      BY <1>1, <1>2, FetchedInstr
    <3>2. ShapeOf(Top.stack) \in Seq(ValueType)
      BY <1>1, FetchedInstr, ShapeOfType DEF Shape
    <3>3. ShapeAfter(module, Instr, ShapeOf(Top.stack)) = ShapeOf(Top.stack)
      BY <1>2, <3>2 DEF ShapeAfter, Drop
    <3> QED
      BY <3>1, <3>3
  <2>5. f \in GoodFrames
    BY <2>3, <2>4 DEF GoodFrames, FrameTyped, Resumes
  <2> QED
    BY <1>1, <2>1, <2>5, ReplaceStep
<1> QED
  BY <1>4, <1>5

LEMMA RenderReturnsStep == RunInv /\ RenderReturns => RunInv'
<1> SUFFICES ASSUME RunInv, RenderReturns PROVE RunInv'
  OBVIOUS
<1>1. calls # <<>> /\ Top.wait = "render" /\ Top \in FrameType /\ FrameTyped(Top)
  BY TopFrame DEF RenderReturns
<1> SUFFICES calls' \in Seq(GoodFrames) /\ fault' \notin RuledOut
  BY <1>1, TopFrame, RunParts DEF RenderReturns
<1>2. CASE Top.handler = NoHandler
  <2>1. calls' = Return /\ fault' \notin RuledOut
    BY <1>2 DEF RenderReturns, RunInv
  <2> QED
    BY <1>1, <2>1, TopFrame
<1>3. CASE Top.handler # NoHandler
  <2> DEFINE f == [Top EXCEPT !.tree = <<>>]
  <2>1. Continue(f, Top.stack, Top.pc + 1)
    BY <1>3 DEF RenderReturns
  <2>2. f \in FrameType /\ f.handler = Top.handler /\ Top.stack \in Seq(Value)
    <3>1. <<>> \in TreeType
      BY DEF TreeType
    <3>2. QED
      BY <1>1, <3>1 DEF FrameType
  <2>3. Resumes(Top, Top.pc + 1, ShapeOf(Top.stack))
    BY <1>1, <1>3 DEF FrameTyped
  <2>4. Resumes(f, Top.pc + 1, ShapeOf(Top.stack))
    BY <2>2, <2>3 DEF Resumes
  <2> HIDE DEF f
  <2> QED
    BY <1>1, <2>1, <2>2, <2>4, ContinueStep
<1> QED
  BY <1>2, <1>3

LEMMA EffectStep == RunInv /\ Effect => RunInv'
<1> SUFFICES ASSUME RunInv, Effect PROVE RunInv'
  OBVIOUS
<1> DEFINE f == [Counted EXCEPT !.wait = "invoke", !.stack = Rest]
<1>1. calls # <<>> /\ Top.wait = "none" /\ Instr.op = "Effect"
  BY DEF Effect, Runs, Fetched
<1>2. Resumes(Top, Top.pc + 1, Append(ShapeOf(Rest), "String"))
  BY <1>1, FallThrough DEF Pushes, Successors
<1>3. /\ f \in FrameType /\ f.wait = "invoke" /\ f.handler = Top.handler
      /\ f.pc = Top.pc /\ f.stack = Rest
  BY <1>1, CountedFrame, RestType DEF FrameType
<1>4. f \in GoodFrames
  BY <1>2, <1>3 DEF GoodFrames, FrameTyped, Resumes
<1>5. calls' \in Seq(GoodFrames) /\ fault' \notin RuledOut
  BY <1>1, <1>4, ReplaceStep DEF Effect
<1> QED
  BY <1>1, <1>5, TopFrame, RunParts DEF Effect

LEMMA EffectReturnsStep ==
  ASSUME NEW result \in Results
  PROVE  RunInv /\ EffectReturns(result) => RunInv'
<1> SUFFICES ASSUME RunInv, EffectReturns(result) PROVE RunInv'
  OBVIOUS
<1> DEFINE stack == Append(Top.stack, String(result))
<1>1. calls # <<>> /\ Top.wait = "invoke" /\ Top \in FrameType /\ FrameTyped(Top)
  BY TopFrame DEF EffectReturns
<1>2. Resumes(Top, Top.pc + 1, Append(ShapeOf(Top.stack), "String"))
  BY <1>1 DEF FrameTyped
<1>3. stack \in Seq(Value) /\ ShapeOf(stack) = Append(ShapeOf(Top.stack), "String")
  BY <1>1, ResultType, AppendShape DEF FrameType
<1>4. CASE FitsBudget(result)
  <2>1. Continue(Top, stack, Top.pc + 1)
    BY <1>4 DEF EffectReturns
  <2> HIDE DEF stack
  <2>2. calls' \in Seq(GoodFrames) /\ fault' \notin RuledOut
    BY <1>1, <1>2, <1>3, <2>1, ContinueStep
  <2> QED
    BY <1>1, <2>2, TopFrame, RunParts DEF EffectReturns
<1>5. CASE ~FitsBudget(result)
  <2>1. calls' \in Seq(GoodFrames) /\ fault' \notin RuledOut
    BY <1>1, <1>5, ThrowStep DEF EffectReturns, RuledOut
  <2> QED
    BY <1>1, <2>1, TopFrame, RunParts DEF EffectReturns
<1> QED
  BY <1>4, <1>5

\* The frame a task suspends, and the frame that waits for its begin_async.
AsSuspended(frame, stack, pc) == [frame EXCEPT !.stack = stack, !.pc = pc]

AsBegun(frame, id, stack) == [frame EXCEPT !.wait = "begin", !.task = id, !.stack = stack]

LEMMA SuspendFrame ==
  ASSUME NEW frame \in FrameType, NEW stack \in Seq(Value), NEW pc \in Nat
  PROVE  /\ AsSuspended(frame, stack, pc) \in FrameType
         /\ AsSuspended(frame, stack, pc).wait = frame.wait
         /\ AsSuspended(frame, stack, pc).handler = frame.handler
         /\ AsSuspended(frame, stack, pc).pc = pc
         /\ AsSuspended(frame, stack, pc).stack = stack
  BY DEF FrameType, AsSuspended

LEMMA BeginFrame ==
  ASSUME NEW frame \in FrameType, NEW id \in Nat, NEW stack \in Seq(Value)
  PROVE  /\ AsBegun(frame, id, stack) \in FrameType
         /\ AsBegun(frame, id, stack).wait = "begin"
         /\ AsBegun(frame, id, stack).stack = stack
  BY DEF FrameType, AsBegun

LEMMA AsyncEffectStep == RunInv /\ AsyncEffect => RunInv'
<1> SUFFICES ASSUME RunInv, AsyncEffect PROVE RunInv'
  OBVIOUS
<1> DEFINE suspended == [Counted EXCEPT !.stack = Rest, !.pc = @ + 1]
           f == [Counted EXCEPT !.wait = "begin", !.task = nextTask, !.stack = <<>>]
<1>1. calls # <<>> /\ Top.wait = "none" /\ Instr.op = "AsyncEffect"
  BY DEF AsyncEffect, Runs, Fetched
<1>2. CASE TasksFull
  <2>1. calls' \in Seq(GoodFrames) /\ fault' \notin RuledOut
    BY <1>1, <1>2, ThrowStep DEF AsyncEffect, RuledOut
  <2> QED
    BY <1>1, <1>2, <2>1, TopFrame, RunParts DEF AsyncEffect
<1>3. CASE ~TasksFull
  <2>1. Resumes(Top, Top.pc + 1, Append(ShapeOf(Rest), "String"))
    BY <1>1, FallThrough DEF Pushes, Successors
  <2>2. /\ suspended \in FrameType /\ suspended.wait = "none"
        /\ suspended.handler = Top.handler /\ suspended.pc = Top.pc + 1
        /\ suspended.stack = Rest
    <3>1. /\ Counted \in FrameType /\ Counted.wait = "none" /\ Rest \in Seq(Value)
          /\ Counted.handler = Top.handler /\ Counted.pc = Top.pc
      BY <1>1, CountedFrame, RestType
    <3>2. Counted.pc + 1 \in Nat
      BY <3>1 DEF FrameType
    <3>3. suspended = AsSuspended(Counted, Rest, Counted.pc + 1)
      BY DEF AsSuspended
    <3> HIDE DEF suspended
    <3> QED
      BY <3>1, <3>2, <3>3, SuspendFrame
  <2>3. suspended \in Suspended
    BY <2>1, <2>2 DEF Suspended, AwaitsResult, Resumes
  <2>4. nextTask \in Nat \ {0}
    BY DEF RunInv
  <2>5. f \in FrameType /\ f.wait = "begin" /\ f.stack = <<>>
    <3>1. Counted \in FrameType /\ <<>> \in Seq(Value) /\ nextTask \in Nat
      BY <1>1, <2>4, CountedFrame
    <3>2. f = AsBegun(Counted, nextTask, <<>>)
      BY DEF AsBegun
    <3> HIDE DEF f
    <3> QED
      BY <3>1, <3>2, BeginFrame
  <2>6. f \in GoodFrames
    BY <2>5 DEF GoodFrames, FrameTyped
  <2>7. /\ tasks' = With(tasks, nextTask, suspended) /\ nextTask' = nextTask + 1
        /\ calls' = WithTop(f) /\ UNCHANGED fault /\ UNCHANGED loadVars
    BY <1>3 DEF AsyncEffect, FollowingTask
  <2>8. calls' \in Seq(GoodFrames) /\ fault' \notin RuledOut
    BY <1>1, <2>6, <2>7, ReplaceStep
  <2>9. TasksOK'
    <3> HIDE DEF suspended
    <3>1. \A id \in DOMAIN tasks' : tasks'[id] \in Suspended
      BY <2>3, <2>7 DEF With, RunInv
    <3>2. DOMAIN tasks' \subseteq 1 .. nextTask' - 1 /\ nextTask' \in Nat \ {0}
      BY <2>4, <2>7 DEF With, RunInv
    <3> QED
      BY <2>7, <3>1, <3>2, LoadVarsFixed DEF TasksOK
  <2> QED
    BY <1>1, <2>7, <2>8, <2>9, TopFrame, RunParts DEF AsyncEffect
<1> QED
  BY <1>2, <1>3

LEMMA AsyncEffectReturnsStep == RunInv /\ AsyncEffectReturns => RunInv'
<1> SUFFICES ASSUME RunInv, AsyncEffectReturns PROVE RunInv'
  OBVIOUS
<1>1. calls # <<>> /\ fault' \notin RuledOut
  BY DEF AsyncEffectReturns, RunInv
<1>2. calls' \in Seq(GoodFrames)
  BY <1>1, TopFrame DEF AsyncEffectReturns
<1> QED
  BY <1>1, <1>2, TopFrame, RunParts DEF AsyncEffectReturns

LEMMA HostFailsStep == RunInv /\ HostFails => RunInv'
<1> SUFFICES ASSUME RunInv, HostFails PROVE RunInv'
  OBVIOUS
<1>1. calls # <<>>
  BY DEF HostFails
<1>2. calls' \in Seq(GoodFrames) /\ fault' \notin RuledOut
  BY <1>1, ThrowStep DEF HostFails, RuledOut
<1>3. TasksOK'
  <2>1. nextTask' = nextTask /\ Suspended' = Suspended
    BY LoadVarsFixed DEF HostFails
  <2> QED
    BY <2>1 DEF HostFails, Without, RunInv, TasksOK
<1> QED
  BY <1>1, <1>2, <1>3, TopFrame, RunParts DEF HostFails

(***************************************************************************)
(* The theorems.                                                           *)
(***************************************************************************)
LEMMA RunInvNext == RunInv /\ [Next]_vars => RunInv'
<1> SUFFICES ASSUME RunInv, [Next]_vars PROVE RunInv'
  OBVIOUS
<1>1. CASE Load
  BY <1>1, LoadStep
<1>2. CASE HostEnters
  BY <1>2, StartHandlerStep, StartPageStep, CancelAllTasksStep, RestoreStateStep,
     DispatchStep, CompleteEffectStep DEF HostEnters
<1>3. CASE Execute
  BY <1>3, InterruptStep, ComputeStep, EventValueMissingStep, IntegerAddStep,
     JumpIfFalseStep, StateSetStep, HaltStep, RenderStep, EffectStep, AsyncEffectStep
     DEF Execute
<1>4. CASE HostReturns
  BY <1>4, RenderReturnsStep, AsyncEffectReturnsStep, EffectReturnsStep DEF HostReturns
<1>5. CASE HostFails
  BY <1>5, HostFailsStep
<1>6. CASE UNCHANGED vars
  BY <1>6, RunStutter
<1> QED
  BY <1>1, <1>2, <1>3, <1>4, <1>5, <1>6 DEF Next

\* The state of the runtime keeps its types: Frame, the task table and the
\* state table of Runtime::Impl.
THEOREM RunTypeCorrect == Spec => []RunTypeOK
  BY RunInvInit, RunInvNext, RunInvTypes, PTL DEF Spec

\* Every frame, running or suspended, has the stack its handler's typing gives
\* to the address it goes on from, however calls, callbacks and completions of
\* tasks interleave.
THEOREM FramesStayTyped == Spec => []FramesTyped
  BY RunInvInit, RunInvNext, RunInvFrames, PTL DEF Spec

\* Type safety of the interpreter: run() raises none of the errors that
\* validate_handler rules out.
THEOREM TypeSafety == Spec => []NoRuledOutFault
<1>1. RunInv => NoRuledOutFault
  BY DEF RunInv, NoRuledOutFault
<1> QED
  BY <1>1, RunInvInit, RunInvNext, PTL DEF Spec

\* No frame holds more than max_stack values, and a suspended one has room for
\* its result.
THEOREM StackBounded == Spec => []StackBudget
  BY RunInvInit, RunInvNext, RunInvBudget, PTL DEF Spec

(***************************************************************************)
(* The task table.                                                         *)
(***************************************************************************)
BudgetInv == IsFiniteSet(DOMAIN tasks) /\ TaskBudget

LEMMA BudgetInit == MachineInit => BudgetInv
<1> SUFFICES ASSUME MachineInit PROVE BudgetInv
  OBVIOUS
<1>1. DOMAIN tasks = {} /\ module \in RawModule
  BY ModulesAssumption DEF MachineInit, LoadInit
<1>2. module.limits.maxTasks \in Nat
  BY <1>1 DEF RawModule, Limits
<1> QED
  BY <1>1, <1>2, FS_EmptySet DEF BudgetInv, TaskBudget

\* A step leaves the module alone and takes tasks away, or begins one when
\* there is room.
LEMMA TaskSteps ==
  ASSUME RunInv, [Next]_vars
  PROVE  /\ module' = module
         /\ \/ DOMAIN tasks' \subseteq DOMAIN tasks /\ nextTask' = nextTask
            \/ /\ ~TasksFull
               /\ DOMAIN tasks' = DOMAIN tasks \cup {nextTask}
               /\ nextTask' = nextTask + 1
<1>1. CASE Load
  BY <1>1 DEF Load, LoadNext, Decode, FinishHandler, Visit, runVars
<1>2. CASE HostEnters
  BY <1>2 DEF HostEnters, StartHandler, StartPage, CancelAllTasks, RestoreState, Dispatch,
              CompleteEffect, Without, loadVars
<1>3. CASE AsyncEffect
  <2>1. module' = module
    BY <1>3 DEF AsyncEffect, loadVars
  <2>2. CASE TasksFull
    BY <1>3, <2>1, <2>2 DEF AsyncEffect
  <2>3. CASE ~TasksFull
    BY <1>3, <2>1, <2>3 DEF AsyncEffect, With, FollowingTask
  <2> QED
    BY <2>2, <2>3
<1>4. CASE Execute /\ ~AsyncEffect
  BY <1>4 DEF Execute, Interrupt, Compute, EventValueMissing, IntegerAdd, JumpIfFalse,
              StateSet, Halt, Render, Effect, loadVars
<1>5. CASE HostReturns
  BY <1>5 DEF HostReturns, RenderReturns, AsyncEffectReturns, EffectReturns, loadVars
<1>6. CASE HostFails
  BY <1>6 DEF HostFails, Without, loadVars
<1>7. CASE UNCHANGED vars
  BY <1>7 DEF vars, loadVars, runVars
<1> QED
  BY <1>1, <1>2, <1>3, <1>4, <1>5, <1>6, <1>7 DEF Next

LEMMA BudgetNext == RunInv /\ BudgetInv /\ [Next]_vars => BudgetInv'
<1> SUFFICES ASSUME RunInv, BudgetInv, [Next]_vars PROVE BudgetInv'
  OBVIOUS
<1>1. module.limits.maxTasks \in Nat /\ Cardinality(DOMAIN tasks) \in Nat
  BY FS_CardinalityType DEF BudgetInv, RunInv, LoadInv, LoadTypeOK, RawModule, Limits
<1>2. CASE DOMAIN tasks' \subseteq DOMAIN tasks
  <2>1. /\ IsFiniteSet(DOMAIN tasks')
        /\ Cardinality(DOMAIN tasks') <= Cardinality(DOMAIN tasks)
        /\ Cardinality(DOMAIN tasks') \in Nat
    BY <1>2, FS_Subset, FS_CardinalityType DEF BudgetInv
  <2> QED
    BY <1>1, <2>1, TaskSteps DEF BudgetInv, TaskBudget
<1>3. CASE ~TasksFull /\ DOMAIN tasks' = DOMAIN tasks \cup {nextTask}
  <2>1. /\ IsFiniteSet(DOMAIN tasks')
        /\ Cardinality(DOMAIN tasks') <= Cardinality(DOMAIN tasks) + 1
        /\ Cardinality(DOMAIN tasks') \in Nat
    <3> DEFINE more == DOMAIN tasks \cup {nextTask}
    <3>1. IsFiniteSet(DOMAIN tasks) /\ DOMAIN tasks' = more
      BY <1>3 DEF BudgetInv
    <3>2. /\ IsFiniteSet(more)
          /\ Cardinality(more) = IF nextTask \in DOMAIN tasks
                                  THEN Cardinality(DOMAIN tasks)
                                  ELSE Cardinality(DOMAIN tasks) + 1
      BY <3>1, FS_AddElement
    <3> HIDE DEF more
    <3>3. Cardinality(more) \in Nat
      BY <3>2, FS_CardinalityType
    <3> QED
      BY <1>1, <3>1, <3>2, <3>3
  <2>2. Cardinality(DOMAIN tasks) < module.limits.maxTasks
    BY <1>1, <1>3 DEF TasksFull
  <2> QED
    BY <1>1, <2>1, <2>2, TaskSteps DEF BudgetInv, TaskBudget
<1> QED
  BY <1>2, <1>3, TaskSteps

\* No more than max_tasks frames are suspended at once.
THEOREM TasksBounded == Spec => []TaskBudget
<1>1. BudgetInv => TaskBudget
  BY DEF BudgetInv
<1> QED
  BY <1>1, RunInvInit, RunInvNext, BudgetInit, BudgetNext, PTL DEF Spec

\* Task ids are never used twice: complete_effect of a task that is gone finds
\* nothing, whatever was begun since.
THEOREM TasksNotRevived == Spec => NoRevival
<1> DEFINE step == /\ nextTask <= nextTask'
                   /\ \A id \in 1 .. nextTask - 1 : id \notin DOMAIN tasks => id \notin DOMAIN tasks'
<1>1. ASSUME RunInv, [Next]_vars PROVE step \/ UNCHANGED vars
  <2>1. nextTask \in Nat
    BY <1>1 DEF RunInv
  <2> QED
    BY <1>1, <2>1, TaskSteps
<1>2. RunInv /\ [Next]_vars => [step]_vars
  BY <1>1
<1> QED
  BY <1>2, RunInvInit, RunInvNext, PTL DEF Spec, NoRevival

(***************************************************************************)
(* The page on the screen, whatever the host makes of the trees it is      *)
(* given: it may refuse them, or enter the runtime before it takes them.   *)
(***************************************************************************)
\* The calls of a stack that wait for the host to take a tree.
Deliverers(c) == {n \in DOMAIN c : c[n].wait = "render"}

\* One tree at most is on its way, and it is of page p; if there is none, the tree t on
\* the screen is.
ViewOK(c, p, t) ==
  /\ \A n, k \in Deliverers(c) : n = k
  /\ \A n \in Deliverers(c) : c[n].tree[1][1] = p
  /\ Deliverers(c) = {} => (t # <<>> => t[1][1] = p)

PageInv ==
  /\ screen = shown
  /\ ~disturbed => ViewOK(calls, page, screen)

LEMMA ViewEnter ==
  ASSUME NEW S, NEW c \in Seq(S), NEW f, NEW p, NEW t,
         IF f.wait = "render" THEN Deliverers(c) = {} /\ f.tree[1][1] = p ELSE ViewOK(c, p, t)
  PROVE  ViewOK(Append(c, f), p, t)
<1>1. PICK d : d = Append(c, f)
  OBVIOUS
<1>2. /\ Len(c) \in Nat /\ DOMAIN c = 1 .. Len(c) /\ DOMAIN d = 1 .. Len(c) + 1
      /\ d[Len(c) + 1] = f /\ \A n \in DOMAIN c : d[n] = c[n]
  BY <1>1
<1>3. Deliverers(d) = Deliverers(c) \cup (IF f.wait = "render" THEN {Len(c) + 1} ELSE {})
  BY <1>2 DEF Deliverers
<1>4. \A n \in Deliverers(c) : d[n] = c[n]
  BY <1>2 DEF Deliverers
<1> QED
  BY <1>1, <1>2, <1>3, <1>4 DEF ViewOK

\* The innermost call ends; if it delivered a tree, that is the one on the screen.
LEMMA ViewReturn ==
  ASSUME NEW S, NEW c \in Seq(S), c # <<>>, NEW p, NEW t, ViewOK(c, p, t)
  PROVE  ViewOK(Drop(c, 1), p, IF c[Len(c)].wait = "render" THEN c[Len(c)].tree ELSE t)
<1>1. PICK d : d = Drop(c, 1)
  OBVIOUS
<1>2. /\ Len(c) \in Nat /\ Len(c) > 0 /\ DOMAIN c = 1 .. Len(c)
      /\ d = [n \in 1 .. Len(c) - 1 |-> c[n]]
  BY <1>1 DEF Drop
<1>3. DOMAIN d = 1 .. Len(c) - 1 /\ \A n \in DOMAIN d : d[n] = c[n]
  BY <1>2
<1>4. Deliverers(d) = Deliverers(c) \ {Len(c)} /\ \A n \in Deliverers(d) : d[n] = c[n]
  BY <1>2, <1>3 DEF Deliverers
<1>5. c[Len(c)].wait = "render" <=> Len(c) \in Deliverers(c)
  BY <1>2 DEF Deliverers
<1> QED
  BY <1>1, <1>4, <1>5 DEF ViewOK

\* It goes on, or waits for the host to take a tree.
LEMMA ViewReplace ==
  ASSUME NEW S, NEW c \in Seq(S), c # <<>>, NEW f, NEW p, NEW t,
         IF f.wait = "render" THEN Deliverers(c) = {} /\ f.tree[1][1] = p ELSE ViewOK(c, p, t)
  PROVE  ViewOK([c EXCEPT ![Len(c)] = f], p,
                IF c[Len(c)].wait = "render" THEN c[Len(c)].tree ELSE t)
<1>1. PICK d : d = [c EXCEPT ![Len(c)] = f]
  OBVIOUS
<1>2. /\ Len(c) \in Nat /\ Len(c) > 0 /\ DOMAIN c = 1 .. Len(c) /\ DOMAIN d = DOMAIN c
      /\ d[Len(c)] = f /\ \A n \in DOMAIN c : n # Len(c) => d[n] = c[n]
  BY <1>1
<1>3. Deliverers(d) = (Deliverers(c) \ {Len(c)}) \cup (IF f.wait = "render" THEN {Len(c)} ELSE {})
  BY <1>2 DEF Deliverers
<1>4. \A n \in Deliverers(c) : n # Len(c) => d[n] = c[n]
  BY <1>2 DEF Deliverers
<1>5. c[Len(c)].wait = "render" <=> Len(c) \in Deliverers(c)
  BY <1>2 DEF Deliverers
<1> DEFINE top == IF c[Len(c)].wait = "render" THEN c[Len(c)].tree ELSE t
<1>6. CASE f.wait = "render"
  <2>1. Deliverers(c) = {} /\ f.tree[1][1] = p /\ Deliverers(d) = {Len(c)}
    BY <1>3, <1>6
  <2> QED
    BY <1>1, <1>2, <2>1 DEF ViewOK
<1>7. CASE f.wait # "render"
  <2>1. ViewOK(c, p, t) /\ Deliverers(d) = Deliverers(c) \ {Len(c)}
    BY <1>3, <1>7
  <2>2. \A n, k \in Deliverers(d) : n = k
    BY <2>1 DEF ViewOK
  <2>3. \A n \in Deliverers(d) : d[n].tree[1][1] = p
    BY <1>4, <2>1 DEF ViewOK
  <2>4. CASE Len(c) \in Deliverers(c)
    <3>1. top = c[Len(c)].tree /\ top[1][1] = p
      BY <1>5, <2>1, <2>4 DEF ViewOK
    <3> QED
      BY <1>1, <2>2, <2>3, <3>1 DEF ViewOK
  <2>5. CASE Len(c) \notin Deliverers(c)
    <3>1. top = t /\ Deliverers(d) = Deliverers(c)
      BY <1>5, <2>1, <2>5
    <3> QED
      BY <1>1, <2>1, <2>2, <2>3, <3>1 DEF ViewOK
  <2> QED
    BY <2>4, <2>5
<1> QED
  BY <1>6, <1>7

LEMMA CallsAreSequence == RunInv => calls \in Seq(GoodFrames)
  BY DEF RunInv

LEMMA DeliveringIs == Delivering <=> Deliverers(calls) # {}
  BY DEF Delivering, Deliverers

LEMMA PageStays == PageInv /\ UNCHANGED <<calls, page, views>> => PageInv'
  BY DEF PageInv, views

\* A call without a tree to deliver begins, goes on or ends.
LEMMA PageEnter ==
  ASSUME RunInv, PageInv, NEW f, f.wait # "render", Enter(f), UNCHANGED <<page, views>>
  PROVE  PageInv'
<1>1. calls' = Append(calls, f)
  BY DEF Enter
<1>2. ViewOK(calls, page, screen) => ViewOK(Append(calls, f), page, screen)
  BY CallsAreSequence, ViewEnter
<1> QED
  BY <1>1, <1>2 DEF PageInv, views

LEMMA PageReturn ==
  ASSUME RunInv, PageInv, calls # <<>>, Top.wait # "render", calls' = Return,
         UNCHANGED <<page, views>>
  PROVE  PageInv'
<1>1. ViewOK(calls, page, screen) => ViewOK(Return, page, screen)
  BY CallsAreSequence, ViewReturn DEF Return, Top
<1> QED
  BY <1>1 DEF PageInv, views

LEMMA PageReplace ==
  ASSUME RunInv, PageInv, calls # <<>>, Top.wait # "render", NEW f, f.wait # "render",
         calls' = WithTop(f), UNCHANGED <<page, views>>
  PROVE  PageInv'
<1>1. ViewOK(calls, page, screen) => ViewOK(WithTop(f), page, screen)
  BY CallsAreSequence, ViewReplace DEF WithTop, Top
<1> QED
  BY <1>1 DEF PageInv, views

LEMMA ContinueCalls ==
  ASSUME NEW frame \in FrameType, NEW stack, NEW pc, Continue(frame, stack, pc)
  PROVE  calls' = Return \/ \E f : f.wait = "none" /\ calls' = WithTop(f)
<1> DEFINE f == [frame EXCEPT !.stack = stack, !.pc = pc, !.wait = "none"]
<1>1. f.wait = "none"
  BY DEF FrameType
<1> HIDE DEF f
<1>2. calls' = Return \/ calls' = WithTop(f)
  BY DEF Continue, Throw, f
<1> QED
  BY <1>1, <1>2

LEMMA PageContinue ==
  ASSUME RunInv, PageInv, calls # <<>>, Top.wait # "render",
         NEW frame \in FrameType, NEW stack, NEW pc,
         Continue(frame, stack, pc), UNCHANGED <<page, views>>
  PROVE  PageInv'
  BY ContinueCalls, PageReturn, PageReplace

LEMMA PageHostEnters ==
  ASSUME RunInv, PageInv, HostEnters
  PROVE  PageInv'
<1>1. CASE StartPage
  <2> DEFINE f == [Frame(NoHandler, <<>>) EXCEPT
                     !.wait = "render", !.tree = <<Tree(module.entryPage, state)>>]
  <2>1. f.wait = "render" /\ f.tree[1][1] = module.entryPage
    BY DEF Frame, Tree
  <2> HIDE DEF f
  <2>2. /\ calls' = Append(calls, f) /\ page' = module.entryPage
        /\ disturbed' = Delivering /\ UNCHANGED <<shown, screen>>
    BY <1>1 DEF StartPage, Enter, f
  <2>3. ~Delivering => ViewOK(Append(calls, f), module.entryPage, screen)
    BY <2>1, CallsAreSequence, DeliveringIs, ViewEnter
  <2> QED
    BY <2>2, <2>3 DEF PageInv
<1>2. CASE StartHandler
  <2>1. Frame(module.entryHandler[1], <<>>).wait = "none"
    BY DEF Frame
  <2> QED
    BY <1>2, <2>1, PageEnter DEF StartHandler
<1>3. ASSUME NEW h, NEW event, Dispatch(h, event) PROVE PageInv'
  <2>1. Frame(h, event).wait = "none"
    BY DEF Frame
  <2> QED
    BY <1>3, <2>1, PageEnter DEF Dispatch
<1>4. ASSUME NEW id \in DOMAIN tasks, NEW result \in Results, CompleteEffect(id, result)
      PROVE  PageInv'
  <2>1. Resumed(id, result).wait = "none"
    BY DEF RunInv, Suspended, Resumed, FrameType
  <2> QED
    BY <1>4, <2>1, PageEnter DEF CompleteEffect
<1>5. ASSUME CancelAllTasks \/ \E slots \in RestoredTables : RestoreState(slots) PROVE PageInv'
  BY <1>5, PageStays DEF CancelAllTasks, RestoreState
<1> QED
  BY <1>1, <1>2, <1>3, <1>4, <1>5 DEF HostEnters

\* A tree of the new page is on its way, or is the one on the screen.
LEMMA PageRender ==
  ASSUME RunInv, PageInv, Render
  PROVE  PageInv'
<1> DEFINE tree == <<Tree(Instr.first, state)>>
           f    == [Counted EXCEPT !.wait = "render", !.tree = tree]
<1>1. calls # <<>> /\ Top.wait = "none"
  BY DEF Render, Runs, Fetched
<1>2. Counted \in FrameType /\ Counted.wait = "none"
  BY <1>1, CountedFrame
<1>3. Instr.first \in Pages(module)
  BY <1>1, FetchedInstr DEF Accepts, Render, Runs
<1>4. tree # <<>> /\ tree[1][1] = Instr.first
  BY DEF Tree
<1>5. page' = Instr.first /\ disturbed' = Delivering /\ screen' = screen
  BY DEF Render
<1>6. CASE Unchanged(tree)
  <2>1. UNCHANGED shown /\ Continue(Counted, Rest \o <<>>, Top.pc + 1)
    BY <1>3, <1>6 DEF Render, Yield
  <2>2. screen = tree
    BY <1>6 DEF PageInv, Unchanged
  <2>3. ASSUME ~Delivering PROVE ViewOK(calls, Instr.first, screen)
    BY <1>4, <2>2, <2>3, DeliveringIs DEF ViewOK
  <2>4. ASSUME ~Delivering PROVE ViewOK(calls', Instr.first, screen)
    <3>1. CASE calls' = Return
      BY <1>1, <2>3, <2>4, <3>1, CallsAreSequence, ViewReturn DEF Return, Top
    <3>2. ASSUME NEW g, g.wait = "none", calls' = WithTop(g) PROVE ViewOK(calls', Instr.first, screen)
      BY <1>1, <2>3, <2>4, <3>2, CallsAreSequence, ViewReplace DEF WithTop, Top
    <3> QED
      BY <1>2, <2>1, <3>1, <3>2, ContinueCalls
  <2> QED
    BY <1>5, <2>1, <2>4 DEF PageInv
<1>7. CASE ~Unchanged(tree)
  <2>1. f.wait = "render" /\ f.tree = tree
    <3> HIDE DEF tree
    <3> QED
      BY <1>2 DEF FrameType
  <2>2. calls' = WithTop(f) /\ UNCHANGED shown
    BY <1>3, <1>7 DEF Render, Deliver
  <2> HIDE DEF f
  <2>3. ASSUME ~Delivering PROVE ViewOK(WithTop(f), Instr.first, screen)
    BY <1>1, <1>4, <2>1, <2>3, CallsAreSequence, DeliveringIs, ViewReplace DEF WithTop, Top
  <2> QED
    BY <1>5, <2>2, <2>3 DEF PageInv
<1> QED
  BY <1>6, <1>7

LEMMA PageExecute ==
  ASSUME RunInv, PageInv, Execute
  PROVE  PageInv'
<1>1. calls # <<>> /\ Top.wait = "none"
  BY DEF Execute, Interrupt, Compute, EventValueMissing, IntegerAdd, JumpIfFalse, StateSet,
         Halt, Render, Effect, AsyncEffect, Runs, Fetched
<1>2. Counted \in FrameType /\ Counted.wait = "none"
  BY <1>1, CountedFrame
<1>3. ASSUME NEW what, Throw(what), UNCHANGED <<page, views>> PROVE PageInv'
  BY <1>1, <1>3, PageReturn DEF Throw
<1>4. ASSUME NEW stack, NEW pc, Continue(Counted, stack, pc), UNCHANGED <<page, views>>
      PROVE  PageInv'
  BY <1>1, <1>2, <1>4, PageContinue
<1>5. CASE Interrupt \/ EventValueMissing
  BY <1>3, <1>5 DEF Interrupt, EventValueMissing
<1>6. CASE Compute
  BY <1>4, <1>6 DEF Compute, Yield
<1>7. CASE IntegerAdd \/ JumpIfFalse \/ StateSet
  BY <1>3, <1>4, <1>7 DEF IntegerAdd, JumpIfFalse, StateSet, Yield
<1>8. CASE Halt
  BY <1>1, <1>8, PageReturn DEF Halt
<1>9. CASE Effect
  <2> DEFINE f == [Counted EXCEPT !.wait = "invoke", !.stack = Rest]
  <2>1. f.wait = "invoke"
    BY <1>2 DEF FrameType
  <2> HIDE DEF f
  <2>2. calls' = WithTop(f)
    BY <1>9 DEF Effect, f
  <2> QED
    BY <1>1, <1>9, <2>1, <2>2, PageReplace DEF Effect
<1>10. CASE AsyncEffect
  <2> DEFINE f == [Counted EXCEPT !.wait = "begin", !.task = nextTask, !.stack = <<>>]
  <2>1. f.wait = "begin"
    BY <1>2 DEF FrameType
  <2> HIDE DEF f
  <2>2. CASE TasksFull
    BY <1>3, <1>10, <2>2 DEF AsyncEffect
  <2>3. CASE ~TasksFull
    <3>1. calls' = WithTop(f)
      BY <1>10, <2>3 DEF AsyncEffect, f
    <3> QED
      BY <1>1, <1>10, <2>1, <3>1, PageReplace DEF AsyncEffect
  <2> QED
    BY <2>2, <2>3
<1> QED
  BY <1>5, <1>6, <1>7, <1>8, <1>9, <1>10, PageRender DEF Execute

\* The tree that was taken is of the current page.
LEMMA PageHostReturns ==
  ASSUME RunInv, PageInv, HostReturns
  PROVE  PageInv'
<1>1. calls # <<>>
  BY DEF HostReturns, RenderReturns, AsyncEffectReturns, EffectReturns
<1>2. Top \in FrameType
  BY <1>1, TopFrame
<1>3. CASE RenderReturns
  <2>1. /\ Top.wait = "render" /\ shown' = Top.tree /\ screen' = Top.tree
        /\ UNCHANGED <<page, disturbed>>
    BY <1>3 DEF RenderReturns
  <2>2. [Top EXCEPT !.tree = <<>>] \in FrameType
    <3>1. <<>> \in TreeType
      BY DEF TreeType
    <3> QED
      BY <1>2, <3>1 DEF FrameType
  <2>3. calls' = Return \/ \E f : f.wait = "none" /\ calls' = WithTop(f)
    BY <1>3, <2>2, ContinueCalls DEF RenderReturns
  <2>4. ASSUME ViewOK(calls, page, screen), calls' = Return PROVE ViewOK(calls', page, Top.tree)
    BY <1>1, <2>1, <2>4, CallsAreSequence, ViewReturn DEF Return, Top
  <2>5. ASSUME ViewOK(calls, page, screen), NEW f, f.wait = "none", calls' = WithTop(f)
        PROVE  ViewOK(calls', page, Top.tree)
    BY <1>1, <2>1, <2>5, CallsAreSequence, ViewReplace DEF WithTop, Top
  <2> QED
    BY <2>1, <2>3, <2>4, <2>5 DEF PageInv
<1>4. CASE AsyncEffectReturns
  BY <1>1, <1>4, PageReturn DEF AsyncEffectReturns
<1>5. ASSUME NEW result \in Results, EffectReturns(result) PROVE PageInv'
  BY <1>1, <1>2, <1>5, PageReturn, PageContinue DEF EffectReturns, Throw
<1> QED
  BY <1>3, <1>4, <1>5 DEF HostReturns

\* A host that refuses a tree disturbs the page until the next one.
LEMMA PageHostFails ==
  ASSUME RunInv, PageInv, HostFails
  PROVE  PageInv'
<1>1. calls # <<>> /\ calls' = Return /\ UNCHANGED <<page, shown, screen>>
  BY DEF HostFails, Throw
<1>2. CASE Top.wait = "render"
  BY <1>1, <1>2 DEF HostFails, PageInv
<1>3. CASE Top.wait # "render"
  <2>1. ViewOK(calls, page, screen) => ViewOK(Return, page, screen)
    BY <1>1, <1>3, CallsAreSequence, ViewReturn DEF Return, Top
  <2>2. disturbed' <=> disturbed
    BY <1>3 DEF HostFails
  <2> QED
    BY <1>1, <2>1, <2>2 DEF PageInv
<1> QED
  BY <1>2, <1>3

LEMMA PageNext == RunInv /\ PageInv /\ [Next]_vars => PageInv'
<1> SUFFICES ASSUME RunInv, PageInv, [Next]_vars PROVE PageInv'
  OBVIOUS
<1>1. CASE Load \/ UNCHANGED vars
  BY <1>1, PageStays DEF Load, vars, runVars
<1> QED
  BY <1>1, PageHostEnters, PageExecute, PageHostReturns, PageHostFails DEF Next

\* Between calls, the page whose events the runtime accepts is the page on the screen,
\* for every host: one that refused a tree has the right one after the next render, since
\* no tree counts as shown before it was taken.
THEOREM PageIsShown == Spec => []PageShown
<1>1. MachineInit => PageInv
  BY DEF MachineInit, PageInv, ViewOK, Deliverers
<1>2. PageInv => PageShown
  BY DEF PageInv, ViewOK, Deliverers, PageShown
<1> QED
  BY <1>1, <1>2, RunInvInit, RunInvNext, PageNext, PTL DEF Spec

=============================================================================
