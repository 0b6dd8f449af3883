---------------------------- MODULE MCPvmMachine ---------------------------
(***************************************************************************)
(* Instances of PvmMachine for TLC: every short program, valid or not, on  *)
(* its own or before a second handler, and a module whose handlers meet    *)
(* each other in callbacks and suspensions.                                *)
(***************************************************************************)
EXTENDS PvmMachine

CONSTANT MaxCode  \* bound: the longest handler enumerated

MCMinInteger == -2
MCStringSize == [s \in Strings |-> CASE s = "" -> 0 [] s = "a" -> 1 [] s = "long" -> 10]
MCTables     == {<<Integer(2), String("")>>, <<Boolean(FALSE), String("")>>}

Plain(op)        == [op |-> op, value |-> Integer(0), first |-> 0, args |-> 0]
At(op, n)        == [Plain(op) EXCEPT !.first = n]
Load1(v)         == [Plain("Constant") EXCEPT !.value = v]
Call(op, n)      == [Plain(op) EXCEPT !.args = n]

Base(handlers, initial, pages, entry, limits) ==
  [handlers |-> handlers, initial |-> initial, pages |-> pages,
   capabilities |-> 1, entryPage |-> 0, entryHandler |-> entry, limits |-> limits]

(***************************************************************************)
(* Every program of up to MaxCode instructions over a menu that holds each *)
(* opcode, with operands in and out of range; the shorter ones at two      *)
(* stack budgets.  No restored table fits them.                            *)
(***************************************************************************)
Menu ==
  {Plain(op) : op \in {"EventValue", "IntegerAdd", "Equal", "Pop", "Halt"}}
    \cup {Load1(v) : v \in {Integer(1), Boolean(FALSE)}}
    \cup {At("StateGet", n) : n \in 0 .. 2} \cup {At("StateSet", n) : n \in 0 .. 1}
    \cup {At(op, n) : op \in {"Jump", "JumpIfFalse"}, n \in 0 .. MaxCode}
    \cup {At("Render", n) : n \in 0 .. 1}
    \cup {Call("Effect", 1), [Call("Effect", 0) EXCEPT !.first = 1]}
    \cup {Call("AsyncEffect", n) : n \in 0 .. 1}

Programs == UNION {[1 .. n -> Menu] : n \in 0 .. MaxCode}

\* Page 1 is the one out of range.
Alone(handlers, depth) ==
  Base(handlers, <<String("a"), Integer(1)>>, <<[events |-> {0}, binds |-> {1}]>>, <<>>,
       [maxInstructions |-> 5, maxStack |-> depth, maxStateBytes |-> 9, maxTasks |-> 1])

ProgramModules ==
  {Alone(<<code>>, 2) : code \in Programs}
    \cup {Alone(<<code>>, 1) : code \in {c \in Programs : Len(c) < MaxCode}}
    \cup {Alone(<<first, second>>, 2) :
            first  \in {<<Plain("Halt")>>, <<Plain("Pop")>>},
            second \in {<<Plain("Halt")>>, <<At("Jump", 0)>>, <<Plain("Equal")>>}}

(***************************************************************************)
(* A counter page and a status page.  Handler 0 counts and shows, handler  *)
(* 1 asks a capability and stores the answer, handler 2 waits for a task   *)
(* with an operand already on the stack, handler 3 loops.  No module has   *)
(* room for "long"; the one with an entry handler has none for "a" either. *)
(***************************************************************************)
CountHandler ==
  <<At("StateGet", 0), Load1(Integer(1)), Plain("IntegerAdd"), At("StateSet", 0),
    At("Render", 0), Plain("Halt")>>

AskHandler ==
  <<At("StateGet", 1), Call("Effect", 1), At("StateSet", 1), At("Render", 1), Plain("Halt")>>

WaitHandler ==
  <<At("StateGet", 1), Call("AsyncEffect", 0), Plain("Equal"), At("JumpIfFalse", 5),
    At("Render", 0), Plain("Halt")>>

LoopHandler ==
  <<Load1(Boolean(FALSE)), At("JumpIfFalse", 0), Plain("Halt")>>

PageModules ==
  {Base(<<CountHandler, AskHandler, WaitHandler, LoopHandler>>,
        <<Integer(1), String("")>>,
        <<[events |-> {0, 1, 2}, binds |-> {0, 1}], [events |-> {0, 2, 3}, binds |-> {0, 1}]>>,
        entry,
        [maxInstructions |-> 6, maxStack |-> 2, maxStateBytes |-> 9 - Len(entry),
         maxTasks |-> 2 - Len(entry)])
     : entry \in {<<>>, <<1>>}}

AllModules == ProgramModules \cup PageModules
============================================================================
