----------------------------- MODULE PvmRelease ----------------------------
(***************************************************************************)
(* Release control: publish.py and release.py on the repository of one     *)
(* application, channel, platform and profile, and the choice that serve.py*)
(* makes for each installation.                                            *)
(*                                                                         *)
(* An operator's command reads the control file, decides, and performs a   *)
(* list of atomic writes: each opens a temporary file of a fixed name,     *)
(* fills it and moves it to its place.  The command may be cut off between *)
(* any two of these, and nothing keeps a second command from running       *)
(* meanwhile.                                                              *)
(*                                                                         *)
(* Builds are told apart by their SHA-256; compilation and signing are     *)
(* deterministic and only decide which build a command publishes.          *)
(***************************************************************************)
EXTENDS Integers, Sequences

CONSTANTS
  Builds,        \* the modules that may be published
  ReleaseOf,     \* the release each is built as
  Operators,
  Concurrent,    \* whether a command may start while another runs
  Percentages,   \* values given to --percentage
  MaxInterrupts, \* bound: commands cut off
  None, Absent, Whole, Cut

ASSUME ReleaseAssumption ==
  /\ ReleaseOf \in [Builds -> Nat \ {0}]
  /\ None \notin Builds
  /\ Concurrent \in BOOLEAN
  /\ Percentages \subseteq 0 .. 100
  /\ MaxInterrupts \in Nat

VARIABLES
  file,        \* the repository: contents by name
  temporary,   \* contents of <name>.tmp
  at,          \* where each operator's command is
  pending,     \* the writes it has still to do
  publishing,  \* the build it publishes, until it has read the control file
  stopped,     \* history: releases stopped, and not raised since
  interrupts

commandVars == <<at, pending, publishing>>
releaseVars == <<file, temporary, commandVars, stopped, interrupts>>

Module(b)  == <<"module", b>>       \* modules/<sha256>.pvm
Access(b)  == <<"access", b>>       \* access/<sha256>.json
History(b) == <<"history", b>>      \* history/<release>-<sha256>.json
Manifest   == <<"manifest", None>>  \* manifest.json
Names      == {Manifest} \cup ({"module", "access", "history"} \X Builds)

\* "signed": the control format; older repositories kept an unsigned one.
Control == [signed : BOOLEAN, current : Builds, previous : Builds \cup {None},
            rollout : 0 .. 100]

Content == Control \cup Operators \cup {Absent, Whole, Cut}
Write   == [name : Names, content : Control \cup {Whole}]

\* What a file holds is told apart.
ASSUME ContentAssumption ==
  /\ Absent # Whole /\ Cut \notin {Absent, Whole}
  /\ {Absent, Whole, Cut} \cap Control = {}
  /\ Operators \cap ({Absent, Whole, Cut} \cup Control) = {}

ReleaseInit ==
  /\ \/ file = [n \in Names |-> Absent]
     \/ \E b \in Builds :
          file = [n \in Names |->
                    IF n \in {Module(b), Access(b)} THEN Whole
                    ELSE IF n = Manifest
                    THEN [signed |-> FALSE, current |-> b, previous |-> None, rollout |-> 100]
                    ELSE Absent]
  /\ temporary = [n \in Names |-> Absent]
  /\ at = [o \in Operators |-> "idle"]
  /\ pending = [o \in Operators |-> <<>>]
  /\ publishing = [o \in Operators |-> None]
  /\ stopped = {}
  /\ interrupts = 0

Readable  == file[Manifest] \in Control
Published == file[Manifest]

(***************************************************************************)
(* The atomic write that all commands share.  Who opens a temporary file   *)
(* empties it; a file moved before it was filled is filled in its new      *)
(* place; a temporary file that is gone fails the command.                 *)
(***************************************************************************)
Free(o) == Concurrent \/ \A p \in Operators : at[p] = "idle"

Perform(o, writes) ==
  /\ at' = [at EXCEPT ![o] = "open"]
  /\ pending' = [pending EXCEPT ![o] = writes]

Finish(o) ==
  /\ at' = [at EXCEPT ![o] = "idle"]
  /\ pending' = [pending EXCEPT ![o] = <<>>]
  /\ publishing' = [publishing EXCEPT ![o] = None]

Open(o) ==
  /\ at[o] = "open"
  /\ temporary' = [temporary EXCEPT ![Head(pending[o]).name] = o]
  /\ at' = [at EXCEPT ![o] = "fill"]
  /\ UNCHANGED <<file, pending, publishing, stopped, interrupts>>

Filled(files, o) ==
  [n \in Names |-> IF files[n] = o THEN Head(pending[o]).content ELSE files[n]]

Fill(o) ==
  /\ at[o] = "fill"
  /\ temporary' = Filled(temporary, o)
  /\ file' = Filled(file, o)
  /\ at' = [at EXCEPT ![o] = "move"]
  /\ UNCHANGED <<pending, publishing, stopped, interrupts>>

\* Putting a control file in place stops or raises the release it names.
Judge(name, content) ==
  stopped' = IF name # Manifest \/ content \notin Control THEN stopped
             ELSE IF content.rollout = 0 THEN stopped \cup {content.current}
             ELSE stopped \ {content.current}

Move(o) ==
  LET name == Head(pending[o]).name
      rest == Tail(pending[o])
  IN /\ UNCHANGED interrupts
     /\ at[o] = "move"
     /\ IF temporary[name] = Absent
        THEN Finish(o) /\ UNCHANGED <<file, temporary, stopped>>
        ELSE /\ file' = [file EXCEPT ![name] = temporary[name]]
             /\ temporary' = [temporary EXCEPT ![name] = Absent]
             /\ Judge(name, temporary[name])
             /\ IF rest = <<>> /\ publishing[o] = None
                THEN Finish(o)
                ELSE /\ at' = [at EXCEPT ![o] = IF rest = <<>> THEN "control" ELSE "open"]
                     /\ pending' = [pending EXCEPT ![o] = rest]
                     /\ UNCHANGED publishing

(***************************************************************************)
(* publish.py: the module unless it is there, its access policy, then the  *)
(* envelope of the release it supersedes, and the control file.            *)
(***************************************************************************)
ModuleOnly(b) == <<[name |-> Module(b), content |-> Whole]>>  \* mutant: no access policy
Prepared(b) ==
  LET module == [name |-> Module(b), content |-> Whole]
      access == [name |-> Access(b), content |-> Whole]
  IN IF file[Module(b)] = Absent THEN <<module, access>> ELSE <<access>>

Publish(o, b) ==
  /\ at[o] = "idle"
  /\ Free(o)
  /\ publishing' = [publishing EXCEPT ![o] = b]
  /\ Perform(o, Prepared(b))
  /\ UNCHANGED <<file, temporary, stopped, interrupts>>

AnyRelease(b) == TRUE  \* mutant: an older release is published
NewRelease(b) == Readable => ReleaseOf[Published.current] < ReleaseOf[b]

NoHistory(b) == <<>>  \* mutant: the superseded envelope is not kept
Superseded(b) ==
  IF ~Readable \/ file[History(Published.current)] # Absent THEN <<>>
  ELSE <<[name |-> History(Published.current), content |-> Whole]>>

\* The control file that publishing b leaves.  Publishing the current build
\* again writes what was read, in the signed format.
Successor(b) ==
  IF Readable /\ Published.current = b
  THEN [Published EXCEPT !.signed = TRUE]
  ELSE [signed |-> TRUE, current |-> b, rollout |-> 100,
        previous |-> IF Readable THEN Published.current ELSE None]

Replace(o) ==
  LET b == publishing[o]
      control == [name |-> Manifest, content |-> Successor(b)]
  IN /\ at[o] = "control"
     /\ \/ /\ Readable /\ Published.current = b
           /\ Perform(o, <<control>>)
           /\ publishing' = [publishing EXCEPT ![o] = None]
        \/ /\ file[Manifest] \in {Absent} \cup Control
           /\ Readable => Published.current # b
           /\ NewRelease(b)
           /\ Perform(o, Superseded(b) \o <<control>>)
           /\ publishing' = [publishing EXCEPT ![o] = None]
        \/ /\ \/ file[Manifest] \notin {Absent} \cup Control
              \/ Readable /\ Published.current # b /\ ~NewRelease(b)
           /\ Finish(o)
     /\ UNCHANGED <<file, temporary, stopped, interrupts>>

(***************************************************************************)
(* release.py: --percentage and --rollback.                                *)
(***************************************************************************)
SetRollout(o, percentage) ==
  /\ at[o] = "idle"
  /\ Free(o)
  /\ Readable /\ Published.signed
  /\ percentage < 100 => Published.previous # None
  /\ Perform(o, <<[name |-> Manifest, content |-> [Published EXCEPT !.rollout = percentage]]>>)
  /\ UNCHANGED <<file, temporary, publishing, stopped, interrupts>>

Rollback(o) ==
  /\ at[o] = "idle"
  /\ Free(o)
  /\ Readable /\ Published.signed
  /\ Published.previous # None
  /\ Perform(o, <<[name |-> Manifest, content |-> [Published EXCEPT !.rollout = 0]]>>)
  /\ UNCHANGED <<file, temporary, publishing, stopped, interrupts>>

\* The command is interrupted; what it was writing stays as it is.
Left(files, o) == [n \in Names |-> IF files[n] = o THEN Cut ELSE files[n]]

Interrupt(o) ==
  /\ at[o] # "idle"
  /\ interrupts < MaxInterrupts
  /\ interrupts' = interrupts + 1
  /\ Finish(o)
  /\ file' = Left(file, o)
  /\ temporary' = Left(temporary, o)
  /\ UNCHANGED stopped

Command(o) ==
  \/ \E b \in Builds : Publish(o, b)
  \/ \E percentage \in Percentages : SetRollout(o, percentage)
  \/ Rollback(o)

ReleaseNext ==
  \E o \in Operators :
    Command(o) \/ Open(o) \/ Fill(o) \/ Move(o) \/ Replace(o) \/ Interrupt(o)

(***************************************************************************)
(* serve.py: the build whose envelope an installation is sent, by the      *)
(* bucket its identifier hashes to, None for one that sends none.          *)
(***************************************************************************)
Servable == Readable /\ Published.signed

Above(bucket) == bucket = None \/ bucket > Published.rollout      \* mutant: one bucket too many
Among(bucket) == bucket # None /\ bucket < Published.rollout       \* mutant: the other way round
Later(bucket) == bucket = None \/ bucket >= Published.rollout

Selected(bucket) ==
  IF Published.rollout < 100 /\ Published.previous # None /\ Later(bucket)
  THEN Published.previous
  ELSE Published.current

\* An unauthenticated client gets a module only by a policy that says it is
\* public; a damaged module is not sent.
Fetchable(b) == file[Module(b)] = Whole /\ file[Access(b)] = Whole

-----------------------------------------------------------------------------
ReleaseTypeOK ==
  /\ file \in [Names -> Content]
  /\ temporary \in [Names -> Content]
  /\ at \in [Operators -> {"idle", "open", "fill", "move", "control"}]
  /\ pending \in [Operators -> Seq(Write)]
  /\ publishing \in [Operators -> Builds \cup {None}]
  /\ stopped \subseteq Builds
  /\ \A o \in Operators, n \in Names : o \in {file[n], temporary[n]} => at[o] = "fill"
  /\ \A o \in Operators : at[o] \in {"open", "fill", "move"} => pending[o] # <<>>
  /\ \A o \in Operators : at[o] = "control" => publishing[o] # None
============================================================================
