----------------------------- MODULE PvmSession ----------------------------
(***************************************************************************)
(* The life of an application on one device: sessions of the runtime, the  *)
(* asynchronous capabilities its handlers begin, and the file its state is *)
(* persisted in from one session, and one release, to the next.            *)
(*                                                                         *)
(* The main thread runs one call at a time.  A capability answers on a     *)
(* thread of its own, and its answer is posted to the main thread; the     *)
(* process may be killed at any moment.  A handler is what it may do: set  *)
(* a slot, begin a task, and fail in the end.                              *)
(***************************************************************************)
EXTENDS PvmState, FiniteSets

CONSTANTS
  Hosts,       \* a subset of {"Android", "iOS", "Harmony"}
  Releases,    \* the modules that may be installed
  Written,     \* the values handlers set slots to
  Answers,     \* the strings capabilities answer
  MaxSessions, MaxTaskId, MaxGeneration,
  MaxAnswers,  \* how often a callback may be called that may be called again
  MaxPosted,   \* how many answers wait for the main thread at once
  None

ASSUME SessionAssumption ==
  /\ Hosts \subseteq {"Android", "iOS", "Harmony"}
  /\ Releases \subseteq StateModule /\ Releases # {}
  /\ \A m \in Releases : StatesDecode(m)
  /\ Written \subseteq Value /\ Answers \subseteq Strings
  /\ MaxSessions \in Nat /\ MaxTaskId \in Nat /\ MaxGeneration \in Nat
  /\ MaxAnswers \in Nat \ {0} /\ MaxPosted \in Nat \ {0}

VARIABLES
  host,
  session,     \* how many sessions were started
  alive,       \* handle != 0, not closed
  running,     \* the release of the session
  table,       \* the state table of its runtime
  tasks,       \* the ids of its suspended frames
  nextTask,
  generation,  \* taskGeneration
  failed,      \* Harmony: asyncFailure
  flight,      \* capabilities that have not answered for the last time
  posted,      \* answers on their way to the main thread
  file,        \* the state file
  writing,     \* the snapshot being written beside it
  saved,       \* history: release and table of the last completed persist
  opened,      \* history: the releases that were started since
  refused      \* history: suspended tasks with an answer refused for its size

runtime == <<session, alive, running, table, tasks, nextTask, generation, failed>>
vars == <<host, runtime, flight, posted, file, writing, saved, opened, refused>>

-----------------------------------------------------------------------------
(* Handlers and the answers they wait for. *)

\* The main thread is not inside a call.
MainThreadFree == writing = None

\* requireOpen, requireHandle
Open == alive /\ ~failed /\ MainThreadFree

AnswersOf(h) == IF h = "Harmony" THEN 1 ELSE MaxAnswers

Call(task) ==
  [session |-> session', task |-> task, generation |-> generation', left |-> AnswersOf(host)]

\* A handler of release m runs on a table, with the given tasks suspended.
Runs(m, slots, pending, next) ==
  /\ table' \in {slots} \cup Assignments(m, slots, Written)
  /\ \/ /\ UNCHANGED flight
        /\ tasks' = pending
        /\ nextTask' = next
     \/ /\ Cardinality(pending) < m.limits.maxTasks
        /\ next <= MaxTaskId
        /\ tasks' = pending \cup {next}
        /\ nextTask' = next + 1
        /\ flight' = flight \cup {Call(next)}

\* recordAsyncFailure; the other hosts report the error and go on.
RecordFailure ==
  /\ failed' = TRUE
  /\ generation' = generation + 1
  /\ tasks' = {}
  /\ refused' = {}

Closed ==
  /\ alive' = FALSE
  /\ failed' = FALSE
  /\ running' = None
  /\ table' = <<>>
  /\ tasks' = {}
  /\ nextTask' = 1
  /\ generation' = 0
  /\ refused' = {}

-----------------------------------------------------------------------------
(* Sessions. *)

Init ==
  /\ host \in Hosts
  /\ session = 0 /\ alive = FALSE /\ running = None
  /\ table = <<>> /\ tasks = {} /\ nextTask = 1
  /\ generation = 0 /\ failed = FALSE
  /\ flight = {} /\ posted = <<>>
  /\ file = None /\ writing = None
  /\ saved = None /\ opened = {} /\ refused = {}

\* A state file is restored, or deleted if the runtime refuses it.
KeepsFileOfSchema(m) ==        \* mutant: ids are kept only where the schema is
  file # None /\ Restorable(m, file) /\ file.schema = m.schema

KeepsFile(m) == file # None /\ Restorable(m, file)

FirstTable(m) == IF KeepsFile(m) THEN Restored(m, file) ELSE m.initial

OpenFile(m) ==
  /\ file' = IF KeepsFile(m) THEN file ELSE None
  /\ opened' = IF saved = None THEN {} ELSE opened \cup {m}
  /\ UNCHANGED saved

\* The module installed by then is any of the releases, newer or older.
Start(m) ==
  /\ ~alive
  /\ session < MaxSessions
  /\ session' = session + 1
  /\ alive' = TRUE
  /\ running' = m
  /\ generation' = 0
  /\ failed' = FALSE
  /\ Runs(m, FirstTable(m), {}, 1)
  /\ OpenFile(m)
  /\ UNCHANGED <<host, posted, writing, refused>>

\* The entry handler fails: the host is closed again.  A capability it began before
\* answers a closed session, so its answer is left out.
StartFails(m) ==
  /\ ~alive
  /\ session < MaxSessions
  /\ session' = session + 1
  /\ Closed
  /\ OpenFile(m)
  /\ UNCHANGED <<host, flight, posted, writing>>

Event ==
  /\ Open
  /\ UNCHANGED <<host, session, alive, running, generation, failed, posted,
                 file, writing, saved, opened, refused>>
  /\ Runs(running, table, tasks, nextTask)

-----------------------------------------------------------------------------
(* Answers. *)

\* A capability calls its completion, on Android and iOS perhaps again.
Answer(call, result) ==
  /\ call \in flight
  /\ Len(posted) < MaxPosted
  /\ posted' = Append(posted, [call |-> call, result |-> result])
  /\ flight' = (flight \ {call}) \cup
       (IF call.left > 1 THEN {[call EXCEPT !.left = @ - 1]} ELSE {})
  /\ UNCHANGED <<host, runtime, file, writing, saved, opened, refused>>

CurrentSession(call) ==        \* mutant: the generation is not compared
  alive /\ call.session = session

Current(call) == alive /\ call.session = session /\ call.generation = generation

TooLarge(result) == StringSize[result] > running.limits.maxStateBytes

\* Closed, cancelled or failed since: the answer is dropped.
DropAnswer(call) ==
  /\ ~Current(call)
  /\ UNCHANGED <<runtime, flight, refused>>

\* complete_effect throws before it takes the frame out of the table.
Refuse(call, result) ==
  /\ Current(call)
  /\ TooLarge(result) \/ call.task \notin tasks
  /\ IF host = "Harmony" THEN RecordFailure
     ELSE /\ refused' = refused \cup ({call.task} \cap tasks)
          /\ UNCHANGED <<failed, generation, tasks>>
  /\ UNCHANGED <<session, alive, running, table, nextTask, flight>>

Resume(call, result) ==
  /\ Current(call)
  /\ ~TooLarge(result)
  /\ call.task \in tasks
  /\ UNCHANGED <<session, alive, running, generation, failed>>
  /\ Runs(running, table, tasks \ {call.task}, nextTask)
  /\ refused' = refused \ {call.task}

\* The resumed handler fails after what it did, which only Harmony remembers.
ResumeFails(call, result) ==
  /\ host = "Harmony"
  /\ Current(call)
  /\ ~TooLarge(result)
  /\ call.task \in tasks
  /\ RecordFailure
  /\ table' \in {table} \cup Assignments(running, table, Written)
  /\ UNCHANGED <<session, alive, running, nextTask, flight>>

RunAnswer ==
  /\ MainThreadFree
  /\ posted # <<>>
  /\ posted' = Tail(posted)
  /\ LET call == Head(posted).call  result == Head(posted).result IN
       DropAnswer(call) \/ Refuse(call, result) \/ Resume(call, result) \/ ResumeFails(call, result)
  /\ UNCHANGED <<host, file, writing, saved, opened>>

CancelInHostOnly ==            \* mutant: the runtime keeps its frames
  /\ Open
  /\ generation < MaxGeneration
  /\ generation' = generation + 1
  /\ UNCHANGED <<host, session, alive, running, table, tasks, nextTask, failed,
                 flight, posted, file, writing, saved, opened, refused>>

CancelTasks ==
  /\ Open
  /\ generation < MaxGeneration
  /\ generation' = generation + 1
  /\ tasks' = {}
  /\ refused' = {}
  /\ UNCHANGED <<host, session, alive, running, table, nextTask, failed,
                 flight, posted, file, writing, saved, opened>>

\* A batch that was decoded away from the main thread is refused on delivery.
FailUi ==
  /\ host = "Harmony"
  /\ Open
  /\ RecordFailure
  /\ UNCHANGED <<host, session, alive, running, table, nextTask,
                 flight, posted, file, writing, saved, opened>>

-----------------------------------------------------------------------------
(* The state file. *)

Draft(closing) == [snapshot |-> Snapshot(running, table), closing |-> closing]

PersistInPlace ==              \* mutant: the file itself is overwritten
  /\ Open
  /\ CanSnapshot(running, table)
  /\ writing' = Draft(FALSE)
  /\ file' = Damaged
  /\ UNCHANGED <<host, runtime, flight, posted, saved, opened, refused>>

\* In the background; a snapshot the runtime refuses is not written.
Persist ==
  /\ Open
  /\ CanSnapshot(running, table)
  /\ writing' = Draft(FALSE)
  /\ UNCHANGED <<host, runtime, flight, posted, file, saved, opened, refused>>

\* Harmony persists first, and closes even if that fails.
PersistAndClose ==
  /\ host = "Harmony"
  /\ Open
  /\ CanSnapshot(running, table)
  /\ writing' = Draft(TRUE)
  /\ UNCHANGED <<host, runtime, flight, posted, file, saved, opened, refused>>

Close ==
  /\ alive /\ MainThreadFree
  /\ host = "Harmony" => failed \/ ~CanSnapshot(running, table)
  /\ Closed
  /\ UNCHANGED <<host, session, flight, posted, file, writing, saved, opened>>

AfterWriting ==
  /\ writing # None
  /\ writing' = None
  /\ IF writing.closing THEN Closed /\ UNCHANGED session ELSE UNCHANGED <<runtime, refused>>
  /\ UNCHANGED <<host, flight, posted>>

\* The draft is complete and takes the place of the file.
Move ==
  /\ AfterWriting
  /\ file' = writing.snapshot
  /\ saved' = [release |-> running, table |-> table]
  /\ opened' = {}

WriteFails ==
  /\ AfterWriting
  /\ UNCHANGED <<file, saved, opened>>

\* The process ends, with all that was on its way.
Kill ==
  /\ alive
  /\ Closed
  /\ flight' = {} /\ posted' = <<>>
  /\ writing' = None
  /\ UNCHANGED <<host, session, file, saved, opened>>

-----------------------------------------------------------------------------
Next ==
  \/ \E m \in Releases : Start(m) \/ StartFails(m)
  \/ Event
  \/ \E call \in flight, result \in Answers : Answer(call, result)
  \/ RunAnswer \/ CancelTasks \/ FailUi
  \/ Persist \/ PersistAndClose \/ Close \/ Move \/ WriteFails \/ Kill

Spec == Init /\ [][Next]_vars

(***************************************************************************)
(* Every capability answers, and the main thread serves its queue, between *)
(* the calls of the application (hence strongly).  Writing a file ends.    *)
(***************************************************************************)
FairSpec ==
  /\ Spec
  /\ WF_vars(\E call \in flight, result \in Answers : Answer(call, result))
  /\ SF_vars(RunAnswer)
  /\ WF_vars(Move \/ WriteFails)

-----------------------------------------------------------------------------
Waits(s, task) == alive /\ session = s /\ task \in tasks

\* An answer that nobody waits for, because its session was closed, its task
\* cancelled or answered before, changes neither the state nor the tasks of
\* whatever session runs when it arrives, and does not make it fail.
LateAnswersHarmless ==
  [][RunAnswer /\ ~Waits(Head(posted).call.session, Head(posted).call.task)
       => UNCHANGED <<table, tasks, failed>>]_vars

\* A task does not wait for ever: it is answered, cancelled or closed, unless
\* its answer was refused for its size, which leaves it suspended.  (Between two
\* sessions there is none, so that the wait of one is not taken for another's.)
AnsweredEnds ==
  \A task \in 1 .. MaxTaskId :
    Waits(session, task) ~> ~Waits(session, task) \/ task \in refused

\* The snapshot that was last persisted.
LastSnapshot == Snapshot(saved.release, saved.table)

\* A release and an earlier one are compatible if every id they share has one type, and
\* they share one if both have any (docs/DSL_V1.md:144-149).
Compatible(m, earlier) ==
  \/ m = earlier
  \/ /\ m.format >= 4 /\ earlier.format >= 4
     /\ \A i \in DOMAIN m.ids, n \in DOMAIN earlier.ids :
          SameId(m, earlier, i, n) => TypeOf(m.initial[i]) = TypeOf(earlier.initial[n])
     /\ m.ids # <<>> /\ earlier.ids # <<>> =>
          \E i \in DOMAIN m.ids, n \in DOMAIN earlier.ids : SameId(m, earlier, i, n)

\* A release finds what was persisted: the very table if it persisted it itself, else
\* the value of every id it shares and its own initial value of every other.
Finds(m) ==
  /\ file = LastSnapshot
  /\ Restorable(m, file)
  /\ m = saved.release => Restored(m, file) = saved.table
  /\ m # saved.release => \A i \in DOMAIN m.initial :
       \/ \E n \in DOMAIN saved.release.ids :
            SameId(m, saved.release, i, n) /\ Restored(m, file)[i] = saved.table[n]
       \/ /\ \A n \in DOMAIN saved.release.ids : ~SameId(m, saved.release, i, n)
          /\ Restored(m, file)[i] = m.initial[i]

\* State that was persisted is found again, by the release that persisted it and by every
\* release compatible with it, whatever happens between: kills, failed writes, and starts
\* of any releases compatible with it.  Budgets are what it depends on besides: the table
\* is within that of its release, which a migration may exceed, and within that of those
\* that read it.
StateSurvives ==
  LET Reads(m) == Compatible(m, saved.release) /\ WithinBudget(m, LastSnapshot) IN
    /\ saved # None
    /\ StateSize(saved.table) <= saved.release.limits.maxStateBytes
    /\ \A m \in opened : Reads(m)
    => \A m \in Releases : Reads(m) => Finds(m)

\* The same whatever the sizes of tables, as the documentation has it
\* (docs/DSL_V1.md:144: "Matching ID and type restores the old value.").
MatchingStateRestored ==
  saved # None /\ (\A m \in opened : Compatible(m, saved.release))
    => \A m \in Releases : Compatible(m, saved.release) => Finds(m)

\* A release that cannot read the snapshot leaves it for one that can, as the
\* documentation has it (docs/SECURITY_MODEL.md:141: "state migration incompatible |
\* retain snapshot/LKG and stop rollout").
SnapshotRetained == saved # None => file # None

============================================================================
