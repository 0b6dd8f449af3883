---------------------------- MODULE PvmBytecode ----------------------------
(***************************************************************************)
(* The values, instructions and decoded modules of PVM bytecode, with the  *)
(* effect an instruction has on the SHAPE of the operand stack, that is,   *)
(* on the sequence of the types of its values.                             *)
(*                                                                         *)
(* Everything here is constant-level: the loader of client/src/runtime.cpp *)
(* is PvmVerifier, its interpreter is PvmMachine.  As in the source,       *)
(* handlers, instructions, slots and pages are numbered from 0; TLA+       *)
(* sequences start at 1, hence the "+ 1" of the accessors.                 *)
(***************************************************************************)
EXTENDS Integers, Sequences, Functions

CONSTANTS
  MinInteger, MaxInteger,  \* the range of a 64-bit signed integer, narrowed
  Strings,                 \* string payloads, told apart only by identity
  StringSize               \* the size in bytes of each string

ASSUME IntegerAssumption ==
  /\ MinInteger \in Int
  /\ MaxInteger \in Int
  /\ MinInteger < 0
  /\ 0 < MaxInteger

ASSUME StringAssumption == StringSize \in [Strings -> Nat]

(***************************************************************************)
(* A value is a pair of its type and its payload.                          *)
(***************************************************************************)
ValueType == {"Integer", "Boolean", "String"}

Integer(n) == <<"Integer", n>>
Boolean(b) == <<"Boolean", b>>
String(s)  == <<"String", s>>

IntegerValue == {Integer(n) : n \in MinInteger .. MaxInteger}
BooleanValue == {Boolean(b) : b \in BOOLEAN}
StringValue  == {String(s)  : s \in Strings}
Value        == IntegerValue \cup BooleanValue \cup StringValue

TypeOf(v)  == v[1]
Payload(v) == v[2]

ValueSize(v) == IF TypeOf(v) = "String" THEN StringSize[Payload(v)] ELSE 8

\* The bytes of a state table, as initial state and mutations are budgeted.
StateSize(slots) ==
  SumFunction([i \in DOMAIN slots |-> ValueSize(slots[i])])

(***************************************************************************)
(* Instructions and modules as they leave the wire, before any check.      *)
(***************************************************************************)
Op == {"Constant", "EventValue", "StateGet", "StateSet", "IntegerAdd", "Equal",
       "Jump", "JumpIfFalse", "Effect", "AsyncEffect", "Pop", "Render", "Halt"}

Instruction == [op : Op, value : Value, first : Nat, args : Nat]

\* A page keeps what the interpreter needs of its node tree: the handlers its
\* events are bound to and the state slots its properties read.
Page == [events : SUBSET Nat, binds : SUBSET Nat]

Limits == [maxInstructions : Nat, maxStack : Nat, maxStateBytes : Nat, maxTasks : Nat]

\* entryHandler is <<h>> for the handler to start with, or <<>> for none.
RawModule ==
  [handlers : Seq(Seq(Instruction)), initial : Seq(Value), pages : Seq(Page),
   capabilities : Nat, entryPage : Nat,
   entryHandler : Seq(Nat), limits : Limits]

HandlerIds(m)    == 0 .. Len(m.handlers) - 1
Slots(m)         == 0 .. Len(m.initial) - 1
Pages(m)         == 0 .. Len(m.pages) - 1
Addresses(m, h)  == 0 .. Len(m.handlers[h + 1]) - 1
Fetch(m, h, pc)  == m.handlers[h + 1][pc + 1]
SlotType(m, s)   == TypeOf(m.initial[s + 1])

(***************************************************************************)
(* What decoding checks, before any handler is looked at: budgets, tables, *)
(* and the operands that index them.  Jump targets and rendered pages are  *)
(* NOT checked here; they are left to the validation of handlers.          *)
(***************************************************************************)
OperandsDecode(m, i) ==
  /\ i.op \in {"StateGet", "StateSet"} => i.first \in Slots(m)
  /\ i.op \in {"Effect", "AsyncEffect"} => i.first < m.capabilities /\ i.args <= 32

PageDecodes(m, page) ==
  /\ page.binds \subseteq Slots(m)
  /\ page.events \subseteq HandlerIds(m)

LimitsDecode(m) ==
  /\ 0 \notin {m.limits.maxInstructions, m.limits.maxStack,
               m.limits.maxStateBytes, m.limits.maxTasks}
  /\ StateSize(m.initial) <= m.limits.maxStateBytes

Decodes(m) ==
  /\ LimitsDecode(m)
  /\ \A h \in HandlerIds(m) :
       /\ m.handlers[h + 1] # <<>>
       /\ \A pc \in Addresses(m, h) : OperandsDecode(m, Fetch(m, h, pc))
  /\ \A p \in Pages(m) : PageDecodes(m, m.pages[p + 1])
  /\ m.entryPage \in Pages(m)
  /\ \A n \in DOMAIN m.entryHandler : m.entryHandler[n] \in HandlerIds(m)

(***************************************************************************)
(* The effect of an instruction on the shape of the stack.  A shape is a   *)
(* sequence of types whose last element is the top of the stack.           *)
(***************************************************************************)
Shape == Seq(ValueType)

Pops(i) ==
  CASE i.op \in {"StateSet", "JumpIfFalse", "Pop"} -> 1
    [] i.op \in {"IntegerAdd", "Equal"}            -> 2
    [] i.op \in {"Effect", "AsyncEffect"}          -> i.args
    [] OTHER                                       -> 0

Pushes(m, i) ==
  CASE i.op = "Constant"                                  -> <<TypeOf(i.value)>>
    [] i.op = "StateGet"                                  -> <<SlotType(m, i.first)>>
    [] i.op = "IntegerAdd"                                -> <<"Integer">>
    [] i.op = "Equal"                                     -> <<"Boolean">>
    [] i.op \in {"EventValue", "Effect", "AsyncEffect"}   -> <<"String">>
    [] OTHER                                              -> <<>>

Drop(stack, n) == [k \in 1 .. Len(stack) - n |-> stack[k]]

\* The n-th element from the top of a stack, the top being the first.
Peek(stack, n) == stack[Len(stack) - n + 1]

ShapeAfter(m, i, shape) == Drop(shape, Pops(i)) \o Pushes(m, i)

\* The operands are there and have the types the instruction needs.
Accepts(m, i, shape) ==
  /\ Pops(i) <= Len(shape)
  /\ i.op = "StateSet"    => Peek(shape, 1) = SlotType(m, i.first)
  /\ i.op = "IntegerAdd"  => Peek(shape, 1) = "Integer" /\ Peek(shape, 2) = "Integer"
  /\ i.op = "Equal"       => Peek(shape, 1) = Peek(shape, 2)
  /\ i.op = "JumpIfFalse" => Peek(shape, 1) = "Boolean"
  /\ i.op = "Render"      => i.first \in Pages(m)
  /\ i.op = "Halt"        => shape = <<>>

Successors(i, pc) ==
  CASE i.op = "Halt"        -> {}
    [] i.op = "Jump"        -> {i.first}
    [] i.op = "JumpIfFalse" -> {i.first, pc + 1}
    [] OTHER                -> {pc + 1}

StepFitsAnywhere(m, h, pc, shape) ==      \* mutant: jumps are not checked
  /\ Accepts(m, Fetch(m, h, pc), shape)
  /\ Len(ShapeAfter(m, Fetch(m, h, pc), shape)) <= m.limits.maxStack

\* The instruction at pc may be reached with the given shape: it finds its
\* operands and leaves no more than the stack budget.
StepFits(m, h, pc, shape) ==
  /\ Accepts(m, Fetch(m, h, pc), shape)
  /\ Len(ShapeAfter(m, Fetch(m, h, pc), shape)) <= m.limits.maxStack
  /\ Successors(Fetch(m, h, pc), pc) \subseteq Addresses(m, h)

(***************************************************************************)
(* A typing of a handler gives a shape to every address the handler may    *)
(* reach.  It is what the loader's validation is meant to establish, and   *)
(* is stated without the algorithm that looks for it.                      *)
(***************************************************************************)
TypedAt(m, h, typing, pc) ==
  /\ StepFits(m, h, pc, typing[pc])
  /\ \A next \in Successors(Fetch(m, h, pc), pc) :
       /\ next \in DOMAIN typing
       /\ typing[next] = ShapeAfter(m, Fetch(m, h, pc), typing[pc])

WellTyped(m, h, typing) ==
  /\ 0 \in DOMAIN typing
  /\ typing[0] = <<>>
  /\ DOMAIN typing \subseteq Addresses(m, h)
  /\ \A pc \in DOMAIN typing : typing[pc] \in Shape /\ TypedAt(m, h, typing, pc)

============================================================================
