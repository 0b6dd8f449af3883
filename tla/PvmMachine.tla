---------------------------- MODULE PvmMachine -----------------------------
(***************************************************************************)
(* The runtime of client/src/runtime.cpp (class Runtime::Impl): start,     *)
(* dispatch, complete_effect, cancel_all_tasks and restore, and the        *)
(* interpreter they run.                                                   *)
(*                                                                         *)
(* One entry of the C ABI is one C++ call.  It is not atomic to its host:  *)
(* an effect, an asynchronous effect and a new tree call the host back in  *)
(* the middle of a handler, and nothing stops the host from entering the   *)
(* runtime again from there (client/tests/c_api_smoke.cpp completes a task *)
(* inside the callback that starts it).  "calls" is therefore the stack of *)
(* C++ calls in progress; only its last element runs, and it runs unless   *)
(* it waits for a callback to return.                                      *)
(***************************************************************************)
EXTENDS PvmVerifier, FiniteSets

CONSTANTS
  Results,      \* the strings a capability or a UI event may deliver
  RestoredTables, \* the state tables a snapshot may hold
  ReentrantIn,  \* the callbacks from which the host enters the runtime again
  HostMayFail,  \* whether host callbacks may throw
  MaxNesting,   \* bound: C++ calls in progress at once
  MaxTaskId     \* bound: once as many effects were begun, no event is sent

ASSUME MachineAssumption ==
  /\ Results \subseteq Strings
  /\ RestoredTables \subseteq Seq(Value)
  /\ ReentrantIn \subseteq {"invoke", "begin", "render"}
  /\ HostMayFail \in BOOLEAN
  /\ MaxNesting \in Nat \ {0}
  /\ MaxTaskId \in Nat

VARIABLES
  started,  \* whether start was called
  state,    \* the state table
  page,     \* current_page, whose events may be dispatched
  shown,    \* last_snapshot: <<>> or <<tree>>
  screen,   \* history: the tree the host took last, <<>> or <<tree>>
  disturbed, \* history: the tree of the last render was refused, or met another's delivery
  tasks,    \* suspended frames by task id
  nextTask, \* next_task_id
  calls,    \* the C++ calls in progress
  fault     \* what the last call to end threw, or "none"

views   == <<shown, screen, disturbed>>
runVars == <<started, state, page, views, tasks, nextTask, calls, fault>>
vars    == <<loadVars, runVars>>

NoHandler == -1  \* the handler of a start that renders without one

(***************************************************************************)
(* A frame is a handler in execution.  "wait" names the host callback it   *)
(* is in, "task" the task that callback starts, "tree" the tree it shows.  *)
(***************************************************************************)
Frame(h, event) ==
  [handler |-> h, pc |-> 0, executed |-> 0, stack |-> <<>>, event |-> event,
   wait |-> "none", task |-> 0, tree |-> <<>>]

Top      == calls[Len(calls)]
Instr    == Fetch(module, Top.handler, Top.pc)
Code     == Addresses(module, Top.handler)
WithTop(frame) == [calls EXCEPT ![Len(calls)] = frame]
Return   == Drop(calls, 1)

\* A tree is told apart by its page and by the slots its properties read.
Tree(p, slots) == <<p, [s \in module.pages[p + 1].binds |-> slots[s + 1]]>>

\* The host has control: no call is in progress, or it is in a callback.
HostHasControl ==
  /\ phase = "loaded"
  /\ \/ calls = <<>>
     \/ /\ calls # <<>>
        /\ Top.wait \in ReentrantIn
        /\ Len(calls) < MaxNesting

\* The host has not taken some tree yet.
Delivering == \E n \in DOMAIN calls : calls[n].wait = "render"

MachineInit ==
  /\ LoadInit
  /\ started = FALSE
  /\ state = module.initial
  /\ page = 0
  /\ shown = <<>>
  /\ screen = <<>>
  /\ disturbed = FALSE
  /\ tasks = [id \in {} |-> 0]
  /\ nextTask = 1
  /\ calls = <<>>
  /\ fault = "none"

Load == LoadNext /\ UNCHANGED runVars

(***************************************************************************)
(* Entries of the C ABI.  A call that only throws leaves no trace and is   *)
(* not a step: a second start, an event the current page does not bind, a  *)
(* task that is missing or was cancelled, a value over budget.             *)
(***************************************************************************)
Enter(frame) == calls' = Append(calls, frame) /\ fault' = "none"

StartHandler ==
  /\ HostHasControl
  /\ ~started
  /\ module.entryHandler # <<>>
  /\ started' = TRUE
  /\ Enter(Frame(module.entryHandler[1], <<>>))
  /\ UNCHANGED <<loadVars, state, page, views, tasks, nextTask>>

StartPage ==
  /\ HostHasControl
  /\ ~started
  /\ module.entryHandler = <<>>
  /\ started' = TRUE
  /\ page' = module.entryPage
  /\ Enter([Frame(NoHandler, <<>>) EXCEPT
              !.wait = "render", !.tree = <<Tree(module.entryPage, state)>>])
  /\ disturbed' = Delivering
  /\ UNCHANGED <<loadVars, state, shown, screen, tasks, nextTask>>

FitsBudget(s) == StringSize[s] <= module.limits.maxStateBytes

EventValues == {<<>>} \cup {<<String(s)>> : s \in {r \in Results : FitsBudget(r)}}

Dispatch(h, event) ==
  /\ HostHasControl
  /\ started
  /\ nextTask <= MaxTaskId
  /\ h \in module.pages[page + 1].events
  /\ event \in EventValues
  /\ Enter(Frame(h, event))
  /\ UNCHANGED <<loadVars, started, state, page, views, tasks, nextTask>>

\* A suspended frame resumes with the result on its stack.
ResumedAsIs(id, result) == tasks[id]       \* mutant: the result is not pushed
Resumed(id, result) == [tasks[id] EXCEPT !.stack = Append(@, String(result))]

Without(f, id) == [k \in DOMAIN f \ {id} |-> f[k]]

CompleteEffect(id, result) ==
  /\ HostHasControl
  /\ started
  /\ FitsBudget(result)
  /\ id \in DOMAIN tasks
  /\ Enter(Resumed(id, result))
  /\ tasks' = Without(tasks, id)
  /\ UNCHANGED <<loadVars, started, state, page, views, nextTask>>

CancelResetsIds ==                         \* mutant: task ids start again
  /\ HostHasControl
  /\ DOMAIN tasks # {}
  /\ tasks' = [id \in {} |-> 0]
  /\ nextTask' = 1
  /\ UNCHANGED <<loadVars, started, state, page, views, calls, fault>>

CancelAllTasks ==
  /\ HostHasControl
  /\ DOMAIN tasks # {}
  /\ tasks' = [id \in {} |-> 0]
  /\ UNCHANGED <<loadVars, started, state, page, views, nextTask, calls, fault>>

\* A restored table keeps the type of every slot, whatever module version the
\* snapshot was taken from.
RestoreState(slots) ==
  /\ HostHasControl
  /\ ~started
  /\ DOMAIN slots = DOMAIN module.initial
  /\ \A s \in Slots(module) : TypeOf(slots[s + 1]) = SlotType(module, s)
  /\ state' = slots
  /\ UNCHANGED <<loadVars, started, page, views, tasks, nextTask, calls, fault>>

(***************************************************************************)
(* The interpreter.  An exception leaves the innermost call; the C ABI     *)
(* turns it into an error code, so a call further out goes on.             *)
(***************************************************************************)
Throw(what) == calls' = Return /\ fault' = what

\* The end of a turn of the loop of run, with the operand stack it leaves.
Continue(frame, stack, pc) ==
  IF Len(stack) > module.limits.maxStack
  THEN Throw("runtime stack budget exceeded")
  ELSE /\ calls' = WithTop([frame EXCEPT !.stack = stack, !.pc = pc, !.wait = "none"])
       /\ UNCHANGED fault

NotCounted == Top                          \* mutant: no watchdog
Counted == [Top EXCEPT !.executed = @ + 1]

\* The call in progress is at an instruction op, within its watchdog, and the
\* operands are there.
Fetched ==
  /\ calls # <<>>
  /\ Top.wait = "none"
  /\ Top.pc \in Code
  /\ Top.executed < module.limits.maxInstructions

Runs(op) ==
  /\ Fetched
  /\ Instr.op = op
  /\ Pops(Instr) <= Len(Top.stack)

Operand(n) == Peek(Top.stack, n)
Rest       == Drop(Top.stack, Pops(Instr))

\* Replace the operands by the given results and fall through.
Yield(results) == Continue(Counted, Rest \o results, Top.pc + 1)

Interrupt ==
  /\ \/ /\ calls # <<>>
        /\ Top.wait = "none"
        /\ Top.pc \notin Code
        /\ Throw("instruction pointer escaped handler")
     \/ /\ calls # <<>>
        /\ Top.wait = "none"
        /\ Top.pc \in Code
        /\ Top.executed >= module.limits.maxInstructions
        /\ Throw("instruction watchdog exceeded")
     \/ /\ Fetched
        /\ Len(Top.stack) < Pops(Instr)
        /\ Throw("runtime stack underflow")
  /\ UNCHANGED <<loadVars, started, state, page, views, tasks, nextTask>>

\* Instructions that touch nothing but the operand stack.
Compute ==
  /\ \/ Runs("Constant") /\ Yield(<<Instr.value>>)
     \/ Runs("EventValue") /\ Top.event # <<>> /\ Yield(Top.event)
     \/ Runs("StateGet") /\ Yield(<<state[Instr.first + 1]>>)
     \/ Runs("Equal") /\ Yield(<<Boolean(Operand(1) = Operand(2))>>)
     \/ Runs("Pop") /\ Yield(<<>>)
     \/ Runs("Jump") /\ Continue(Counted, Top.stack, Instr.first)
  /\ UNCHANGED <<loadVars, started, state, page, views, tasks, nextTask>>

EventValueMissing ==
  /\ Runs("EventValue")
  /\ Top.event = <<>>
  /\ Throw("handler requires a UI event value")
  /\ UNCHANGED <<loadVars, started, state, page, views, tasks, nextTask>>

Overflows(left, right) ==
  \/ right > 0 /\ left > MaxInteger - right
  \/ right < 0 /\ left < MinInteger - right

IntegerAdd ==
  LET left  == Payload(Operand(2))
      right == Payload(Operand(1))
  IN  /\ Runs("IntegerAdd")
      /\ IF {TypeOf(Operand(1)), TypeOf(Operand(2))} # {"Integer"}
         THEN Throw("bad variant access")
         ELSE IF Overflows(left, right)
              THEN Throw("integer overflow")
              ELSE Yield(<<Integer(left + right)>>)
      /\ UNCHANGED <<loadVars, started, state, page, views, tasks, nextTask>>

JumpIfFalse ==
  /\ Runs("JumpIfFalse")
  /\ IF TypeOf(Operand(1)) # "Boolean"
     THEN Throw("bad variant access")
     ELSE Continue(Counted, Rest, IF Payload(Operand(1)) THEN Top.pc + 1 ELSE Instr.first)
  /\ UNCHANGED <<loadVars, started, state, page, views, tasks, nextTask>>

StateSet ==
  LET slot  == Instr.first + 1
      after == [state EXCEPT ![slot] = Operand(1)]
  IN  /\ Runs("StateSet")
      /\ IF TypeOf(Operand(1)) # TypeOf(state[slot])
         THEN Throw("state assignment type mismatch") /\ UNCHANGED state
         ELSE IF StateSize(after) > module.limits.maxStateBytes
              THEN Throw("state mutation exceeds its resource budget") /\ UNCHANGED state
              ELSE Yield(<<>>) /\ state' = after
      /\ UNCHANGED <<loadVars, started, page, views, tasks, nextTask>>

Halt ==
  /\ Runs("Halt")
  /\ calls' = Return
  /\ UNCHANGED <<loadVars, started, state, page, views, tasks, nextTask, fault>>

(***************************************************************************)
(* Instructions that call the host.  The page is current before its tree   *)
(* is delivered; the tree is the last one only after the host took it.     *)
(***************************************************************************)
\* A tree equal to the last one is not delivered again.
SameSlots(tree) == shown # <<>> /\ shown[1][2] = tree[1][2]  \* mutant: whatever its page
Unchanged(tree) == shown = tree

RememberFirst(frame, tree) ==              \* mutant: taken for delivered at once
  /\ calls' = WithTop([frame EXCEPT !.wait = "render", !.tree = tree])
  /\ shown' = tree
  /\ UNCHANGED fault

Deliver(frame, tree) ==
  /\ calls' = WithTop([frame EXCEPT !.wait = "render", !.tree = tree])
  /\ UNCHANGED <<shown, fault>>

Render ==
  LET next == <<Tree(Instr.first, state)>>
  IN  /\ Runs("Render")
      /\ page' = Instr.first
      /\ IF Instr.first \notin Pages(module)
         THEN Throw("page index out of range") /\ UNCHANGED shown
         ELSE IF Unchanged(next)
              THEN Yield(<<>>) /\ UNCHANGED shown
              ELSE Deliver(Counted, next)
      /\ disturbed' = Delivering
      /\ UNCHANGED <<loadVars, started, state, screen, tasks, nextTask>>

RenderReturns ==
  /\ calls # <<>>
  /\ Top.wait = "render"
  /\ shown' = Top.tree
  /\ screen' = Top.tree
  /\ IF Top.handler = NoHandler
     THEN calls' = Return /\ UNCHANGED fault
     ELSE Continue([Top EXCEPT !.tree = <<>>], Top.stack, Top.pc + 1)
  /\ UNCHANGED <<loadVars, started, state, page, disturbed, tasks, nextTask>>

Effect ==
  /\ Runs("Effect")
  /\ calls' = WithTop([Counted EXCEPT !.wait = "invoke", !.stack = Rest])
  /\ UNCHANGED <<loadVars, started, state, page, views, tasks, nextTask, fault>>

EffectReturns(result) ==
  /\ calls # <<>>
  /\ Top.wait = "invoke"
  /\ IF FitsBudget(result)
     THEN Continue(Top, Append(Top.stack, String(result)), Top.pc + 1)
     ELSE Throw("capability result exceeds the module memory budget")
  /\ UNCHANGED <<loadVars, started, state, page, views, tasks, nextTask>>

\* The frame is suspended under its task before the host hears of the task,
\* so that the host may complete it before the callback returns.
With(f, id, x) == [k \in DOMAIN f \cup {id} |-> IF k = id THEN x ELSE f[k]]

SameTask == nextTask                       \* mutant: the counter stays
FollowingTask == nextTask + 1

TasksAlmostFull == Cardinality(DOMAIN tasks) > module.limits.maxTasks  \* mutant: off by one
TasksFull == Cardinality(DOMAIN tasks) >= module.limits.maxTasks

AsyncEffect ==
  LET suspended == [Counted EXCEPT !.stack = Rest, !.pc = @ + 1]
  IN  /\ Runs("AsyncEffect")
      /\ IF TasksFull
         THEN /\ Throw("asynchronous task budget exceeded")
              /\ UNCHANGED <<tasks, nextTask>>
         ELSE /\ tasks' = With(tasks, nextTask, suspended)
              /\ nextTask' = FollowingTask
              /\ calls' = WithTop([Counted EXCEPT !.wait = "begin", !.task = nextTask,
                                                  !.stack = <<>>])
              /\ UNCHANGED fault
      /\ UNCHANGED <<loadVars, started, state, page, views>>

AsyncEffectReturns ==
  /\ calls # <<>>
  /\ Top.wait = "begin"
  /\ calls' = Return
  /\ UNCHANGED <<loadVars, started, state, page, views, tasks, nextTask, fault>>

\* A callback throws; the task it was to begin is forgotten.
HostFails ==
  /\ HostMayFail
  /\ calls # <<>>
  /\ Top.wait # "none"
  /\ tasks' = IF Top.wait = "begin" THEN Without(tasks, Top.task) ELSE tasks
  /\ disturbed' = (disturbed \/ Top.wait = "render")
  /\ Throw("host callback failed")
  /\ UNCHANGED <<loadVars, started, state, page, shown, screen, nextTask>>

-----------------------------------------------------------------------------
Execute == Interrupt \/ Compute \/ EventValueMissing \/ IntegerAdd \/ JumpIfFalse
             \/ StateSet \/ Halt \/ Render \/ Effect \/ AsyncEffect

HostReturns ==
  \/ RenderReturns
  \/ AsyncEffectReturns
  \/ \E result \in Results : EffectReturns(result)

HostEnters ==
  \/ StartHandler
  \/ StartPage
  \/ CancelAllTasks
  \/ \E slots \in RestoredTables : RestoreState(slots)
  \/ \E h \in HandlerIds(module), event \in EventValues : Dispatch(h, event)
  \/ \E id \in DOMAIN tasks, result \in Results : CompleteEffect(id, result)

Next == Load \/ HostEnters \/ Execute \/ HostReturns \/ HostFails

Spec == MachineInit /\ [][Next]_vars

(***************************************************************************)
(* The loader waits for nothing, and a call for nothing but a callback.    *)
(* A host callback returns: synchronous capabilities must be bounded       *)
(* (docs/PERFORMANCE.md).  Calls entered from a callback may come between, *)
(* hence strong fairness at each depth of nesting.                         *)
(***************************************************************************)
FairSpec ==
  /\ Spec
  /\ WF_vars(Load) /\ WF_vars(Execute)
  /\ \A depth \in 1 .. MaxNesting : SF_vars(Len(calls) = depth /\ HostReturns)

-----------------------------------------------------------------------------
EventType == {<<>>} \cup {<<v>> : v \in StringValue}

TreeType == Seq(Nat \X UNION {[D -> Value] : D \in SUBSET (0 .. Len(module.initial))})

FrameType ==
  [handler : Int, pc : Nat, executed : Nat, stack : Seq(Value), event : EventType,
   wait : {"none", "invoke", "begin", "render"}, task : Nat, tree : TreeType]

RunTypeOK ==
  /\ started \in BOOLEAN
  /\ state \in Seq(Value)
  /\ page \in Nat
  /\ nextTask \in Nat
  /\ \A n \in DOMAIN calls : calls[n] \in FrameType
  /\ \A id \in DOMAIN tasks : id \in 1 .. nextTask - 1 /\ tasks[id] \in FrameType

(***************************************************************************)
(* The errors run() raises although validation has ruled them out.         *)
(***************************************************************************)
RuledOut ==
  {"instruction pointer escaped handler", "runtime stack underflow", "bad variant access",
   "state assignment type mismatch", "page index out of range",
   "runtime stack budget exceeded"}

\* No execution of a module that was loaded raises an error its validation
\* should have ruled out: not on any path, not after a suspension, and not
\* when handlers of other events ran in between or inside a callback.
NoRuledOutFault == fault \notin RuledOut

(***************************************************************************)
(* Why: at every moment, every frame in progress or suspended has the      *)
(* stack its handler's typing gives to the address it goes on from.        *)
(***************************************************************************)
ShapeOf(stack) == [n \in DOMAIN stack |-> TypeOf(stack[n])]

Resumes(frame, pc, shape) ==
  /\ frame.handler \in HandlerIds(module)
  /\ pc \in DOMAIN incoming[frame.handler]
  /\ incoming[frame.handler][pc] = shape

FrameTyped(frame) ==
  CASE frame.wait = "none"   -> Resumes(frame, frame.pc, ShapeOf(frame.stack))
    [] frame.wait = "invoke" -> Resumes(frame, frame.pc + 1, Append(ShapeOf(frame.stack), "String"))
    [] frame.wait = "render" -> \/ frame.handler = NoHandler /\ frame.stack = <<>>
                                \/ Resumes(frame, frame.pc + 1, ShapeOf(frame.stack))
    [] frame.wait = "begin"  -> frame.stack = <<>>

FramesTyped ==
  /\ calls # <<>> \/ DOMAIN tasks # {} \/ started => phase = "loaded"
  /\ \A n \in DOMAIN calls : FrameTyped(calls[n])
  /\ \A id \in DOMAIN tasks :
       /\ tasks[id].wait = "none"
       /\ Resumes(tasks[id], tasks[id].pc, Append(ShapeOf(tasks[id].stack), "String"))
  /\ ShapeOf(state) = ShapeOf(module.initial)

\* No frame holds more than max_stack values, and a suspended frame leaves
\* room for the result it waits for.
StackBudget ==
  /\ \A n \in DOMAIN calls : Len(calls[n].stack) <= module.limits.maxStack
  /\ \A id \in DOMAIN tasks : Len(tasks[id].stack) < module.limits.maxStack

\* No more than max_tasks frames are ever suspended, however calls nest.
TaskBudget == Cardinality(DOMAIN tasks) <= module.limits.maxTasks

\* A task that was completed, cancelled or refused is never pending again, so
\* a late or repeated completion of it cannot resume another frame.
NoRevival ==
  [][/\ nextTask <= nextTask'
     /\ \A id \in 1 .. nextTask - 1 : id \notin DOMAIN tasks => id \notin DOMAIN tasks']_vars

\* Between calls, the page whose events are dispatched is the page on the screen.  A host
\* that refuses a tree is left with the one before, on whatever page, and one that enters
\* the runtime before it has taken a tree may be left with either; but only until the
\* next tree is rendered, which is delivered unless the host has it.
PageShown == calls = <<>> /\ ~disturbed /\ screen # <<>> => screen[1][1] = page

\* Every call ends, whatever loops its handler contains.
CallsReturn == calls # <<>> ~> calls = <<>>

============================================================================
