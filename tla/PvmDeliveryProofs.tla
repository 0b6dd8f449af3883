------------------------- MODULE PvmDeliveryProofs -------------------------
(***************************************************************************)
(* The repository and the installations, for any number of builds,         *)
(* releases, installations, rollouts and interruptions: the types hold     *)
(* whatever overlaps; when commands do not, no manifest names a missing    *)
(* module, the published release never goes back, envelopes are kept, and  *)
(* a rollout neither takes back an offer nor makes one that was stopped.   *)
(***************************************************************************)
EXTENDS PvmDelivery, SequenceTheorems, TLAPS

-----------------------------------------------------------------------------
(***************************************************************************)
(* Types.                                                                  *)
(***************************************************************************)
\* The files have names of their own.
LEMMA NamesDiffer ==
  ASSUME NEW b \in Builds
  PROVE  /\ {Module(b), Access(b), History(b), Manifest} \subseteq Names
         /\ Manifest \notin {Module(b), Access(b), History(b)}
         /\ Module(b) # Access(b) /\ Module(b) # History(b) /\ Access(b) # History(b)
  BY DEF Module, Access, History, Manifest, Names

LEMMA NamesApart ==
  ASSUME NEW b \in Builds, NEW c \in Builds
  PROVE  /\ Module(b) \notin {Access(c), History(c)} /\ Access(b) # History(c)
         /\ (Module(b) = Module(c) \/ Access(b) = Access(c) \/ History(b) = History(c)) => b = c
  BY DEF Module, Access, History

LEMMA TypesInit == Init => DeliveryTypeOK
<1> SUFFICES ASSUME Init PROVE DeliveryTypeOK
  OBVIOUS
<1>1. file \in [Names -> Content]
  <2>1. CASE file = [n \in Names |-> Absent]
    BY <2>1 DEF Content
  <2>2. ASSUME NEW b \in Builds,
               file = [n \in Names |->
                         IF n \in {Module(b), Access(b)} THEN Whole
                         ELSE IF n = Manifest
                         THEN [signed |-> FALSE, current |-> b, previous |-> None, rollout |-> 100]
                         ELSE Absent]
        PROVE  file \in [Names -> Content]
    <3>1. [signed |-> FALSE, current |-> b, previous |-> None, rollout |-> 100] \in Control
      BY DEF Control
    <3> QED
      BY <2>2, <3>1 DEF Content
  <2> QED
    BY <2>1, <2>2 DEF Init, ReleaseInit
<1>2. \A n \in Names : file[n] \notin Operators /\ temporary[n] \notin Operators
  <2>1. \A b \in Builds :
          [signed |-> FALSE, current |-> b, previous |-> None, rollout |-> 100] \in Control
    BY DEF Control
  <2> QED
    BY <2>1, ContentAssumption DEF Init, ReleaseInit
<1> QED
  BY <1>1, <1>2 DEF Init, ReleaseInit, DeliveryTypeOK, ReleaseTypeOK, Content

\* The first write of a command that has one.
LEMMA FirstWrite ==
  ASSUME ReleaseTypeOK, NEW o \in Operators, at[o] \in {"open", "fill", "move"}
  PROVE  /\ pending[o] \in Seq(Write) /\ pending[o] # <<>>
         /\ Head(pending[o]) \in Write /\ Tail(pending[o]) \in Seq(Write)
         /\ Head(pending[o]).name \in Names
         /\ Head(pending[o]).content \in Control \cup {Whole}
<1>1. pending[o] \in Seq(Write) /\ pending[o] # <<>>
  BY DEF ReleaseTypeOK
<1>2. Head(pending[o]) \in Write /\ Tail(pending[o]) \in Seq(Write)
  BY <1>1
<1> QED
  BY <1>1, <1>2 DEF Write

LEMMA PerformTypes ==
  ASSUME ReleaseTypeOK, NEW o \in Operators, NEW writes \in Seq(Write), writes # <<>>,
         at[o] # "fill", Perform(o, writes), UNCHANGED <<file, temporary, stopped, interrupts>>,
         publishing' \in [Operators -> Builds \cup {None}],
         \A p \in Operators \ {o} : publishing'[p] = publishing[p]
  PROVE  ReleaseTypeOK'
  BY DEF ReleaseTypeOK, Perform

LEMMA FinishTypes ==
  ASSUME ReleaseTypeOK, NEW o \in Operators, Finish(o), UNCHANGED stopped,
         file' \in [Names -> Content], temporary' \in [Names -> Content],
         \A p \in Operators, n \in Names : p \in {file'[n], temporary'[n]} =>
           p # o /\ at[p] = "fill"
  PROVE  ReleaseTypeOK'
  BY DEF ReleaseTypeOK, Finish

LEMMA PublishTypes ==
  ASSUME ReleaseTypeOK, NEW o \in Operators, NEW b \in Builds, Publish(o, b)
  PROVE  ReleaseTypeOK'
<1>1. \A n \in {Module(b), Access(b)} : [name |-> n, content |-> Whole] \in Write
  BY NamesDiffer DEF Write
<1>2. Prepared(b) \in Seq(Write) /\ Prepared(b) # <<>>
  BY <1>1 DEF Prepared
<1> QED
  BY <1>2, PerformTypes DEF Publish, ReleaseTypeOK

LEMMA PublishedParts ==
  ASSUME Readable
  PROVE  /\ Published \in Control /\ Published.current \in Builds
         /\ Published.previous \in Builds \cup {None} /\ Published.rollout \in 0 .. 100
         /\ Published.signed \in BOOLEAN
  BY DEF Readable, Published, Control

LEMMA ManifestWrite ==
  ASSUME NEW k \in Control
  PROVE  [name |-> Manifest, content |-> k] \in Write
  BY DEF Write, Names

LEMMA RolloutTypes ==
  ASSUME ReleaseTypeOK, NEW o \in Operators,
         Rollback(o) \/ \E percentage \in Percentages : SetRollout(o, percentage)
  PROVE  ReleaseTypeOK'
<1>1. PICK p \in 0 .. 100 :
        /\ at[o] = "idle" /\ Readable
        /\ Perform(o, <<[name |-> Manifest, content |-> [Published EXCEPT !.rollout = p]]>>)
        /\ UNCHANGED <<file, temporary, publishing, stopped, interrupts>>
  <2>1. CASE Rollback(o)
    BY <2>1 DEF Rollback
  <2>2. ASSUME NEW p \in Percentages, SetRollout(o, p)
        PROVE  \E q \in 0 .. 100 : q = p
    BY ReleaseAssumption
  <2> QED
    BY <2>1, <2>2 DEF SetRollout
<1>2. [Published EXCEPT !.rollout = p] \in Control
  BY <1>1, PublishedParts DEF Control
<1> DEFINE writes == <<[name |-> Manifest, content |-> [Published EXCEPT !.rollout = p]]>>
<1>3. writes \in Seq(Write) /\ writes # <<>>
  BY <1>2, ManifestWrite
<1>4. Perform(o, writes)
  BY <1>1
<1> HIDE DEF writes
<1> QED
  BY <1>1, <1>3, <1>4, PerformTypes DEF ReleaseTypeOK

LEMMA SuccessorType ==
  ASSUME NEW b \in Builds
  PROVE  Successor(b) \in Control
<1>1. CASE Readable /\ Published.current = b
  BY <1>1, PublishedParts DEF Successor, Control
<1>2. CASE ~(Readable /\ Published.current = b)
  BY <1>2, PublishedParts DEF Successor, Control
<1> QED
  BY <1>1, <1>2

LEMMA SupersededType ==
  ASSUME NEW b \in Builds
  PROVE  Superseded(b) \in Seq(Write)
<1>1. Readable => [name |-> History(Published.current), content |-> Whole] \in Write
  BY PublishedParts, NamesDiffer DEF Write
<1> QED
  BY <1>1 DEF Superseded

LEMMA ReplaceTypes ==
  ASSUME ReleaseTypeOK, NEW o \in Operators, Replace(o)
  PROVE  ReleaseTypeOK'
<1> DEFINE b == publishing[o]
           control == [name |-> Manifest, content |-> Successor(b)]
<1>1. at[o] = "control" /\ b \in Builds /\ b # None
  BY DEF Replace, ReleaseTypeOK
<1>2. control \in Write
  BY <1>1, SuccessorType, ManifestWrite
<1>3. /\ <<control>> \in Seq(Write) /\ <<control>> # <<>>
      /\ Superseded(b) \o <<control>> \in Seq(Write) /\ Superseded(b) \o <<control>> # <<>>
  BY <1>1, <1>2, SupersededType
<1>4. \/ \E writes \in {<<control>>, Superseded(b) \o <<control>>} :
           Perform(o, writes) /\ publishing' = [publishing EXCEPT ![o] = None]
      \/ Finish(o)
  BY DEF Replace
<1>5. UNCHANGED <<file, temporary, stopped, interrupts>>
  BY DEF Replace
<1> HIDE DEF b, control
<1>6. ASSUME NEW writes \in {<<control>>, Superseded(b) \o <<control>>},
             Perform(o, writes), publishing' = [publishing EXCEPT ![o] = None]
      PROVE  ReleaseTypeOK'
  <2>1. publishing' \in [Operators -> Builds \cup {None}]
    BY <1>6 DEF ReleaseTypeOK
  <2> QED
    BY <1>1, <1>3, <1>5, <1>6, <2>1, PerformTypes DEF ReleaseTypeOK
<1>7. CASE Finish(o)
  BY <1>1, <1>5, <1>7, FinishTypes DEF ReleaseTypeOK
<1> QED
  BY <1>4, <1>6, <1>7

LEMMA OpenTypes ==
  ASSUME ReleaseTypeOK, NEW o \in Operators, Open(o)
  PROVE  ReleaseTypeOK'
<1>1. Head(pending[o]).name \in Names /\ o \in Content
  BY FirstWrite DEF Open, Content
<1> QED
  BY <1>1, ContentAssumption DEF ReleaseTypeOK, Open

LEMMA FillTypes ==
  ASSUME ReleaseTypeOK, NEW o \in Operators, Fill(o)
  PROVE  ReleaseTypeOK'
<1>1. Head(pending[o]).content \in Content \ Operators
  BY FirstWrite, ContentAssumption DEF Fill, Content
<1>2. /\ file' \in [Names -> Content] /\ temporary' \in [Names -> Content]
      /\ \A n \in Names : /\ file'[n] \in (Content \ Operators) \cup ({file[n]} \ {o})
                          /\ temporary'[n] \in (Content \ Operators) \cup ({temporary[n]} \ {o})
  BY <1>1 DEF Fill, Filled, ReleaseTypeOK
<1> QED
  BY <1>1, <1>2 DEF ReleaseTypeOK, Fill

LEMMA MoveTypes ==
  ASSUME ReleaseTypeOK, NEW o \in Operators, Move(o)
  PROVE  ReleaseTypeOK'
<1> DEFINE name == Head(pending[o]).name
           rest == Tail(pending[o])
<1>1. at[o] = "move" /\ name \in Names /\ rest \in Seq(Write)
  BY FirstWrite DEF Move
<1>2. CASE temporary[name] = Absent
  <2>1. Finish(o) /\ UNCHANGED <<file, temporary, stopped>>
    BY <1>2 DEF Move
  <2> QED
    BY <1>1, <2>1, FinishTypes DEF ReleaseTypeOK
<1>3. CASE temporary[name] # Absent
  <2>1. /\ file' = [file EXCEPT ![name] = temporary[name]]
        /\ temporary' = [temporary EXCEPT ![name] = Absent]
        /\ Judge(name, temporary[name])
        /\ UNCHANGED interrupts
    BY <1>3 DEF Move
  <2>2. /\ file' \in [Names -> Content] /\ temporary' \in [Names -> Content]
        /\ \A p \in Operators, n \in Names :
             p \in {file'[n], temporary'[n]} => \E k \in Names : p \in {file[k], temporary[k]}
    BY <1>1, <2>1, ContentAssumption DEF ReleaseTypeOK, Content
  <2>3. stopped' \subseteq Builds
    BY <2>1 DEF Judge, ReleaseTypeOK, Control
  <2>4. CASE rest = <<>> /\ publishing[o] = None
    <3>1. Finish(o)
      BY <1>3, <2>4 DEF Move
    <3>2. stopped' \subseteq Builds /\ \A p \in Operators, n \in Names :
            p \in {file'[n], temporary'[n]} => p # o /\ at[p] = "fill"
      BY <1>1, <2>2, <2>3 DEF ReleaseTypeOK
    <3> HIDE DEF name, rest
    <3> QED
      BY <2>2, <3>1, <3>2 DEF ReleaseTypeOK, Finish
  <2>5. CASE ~(rest = <<>> /\ publishing[o] = None)
    <3>1. /\ at' = [at EXCEPT ![o] = IF rest = <<>> THEN "control" ELSE "open"]
          /\ pending' = [pending EXCEPT ![o] = rest]
          /\ UNCHANGED publishing
      BY <1>3, <2>5 DEF Move
    <3> HIDE DEF name, rest
    <3> QED
      BY <1>1, <2>2, <2>3, <2>5, <3>1 DEF ReleaseTypeOK
  <2> QED
    BY <2>4, <2>5
<1> QED
  BY <1>2, <1>3

LEMMA InterruptTypes ==
  ASSUME ReleaseTypeOK, NEW o \in Operators, Interrupt(o)
  PROVE  ReleaseTypeOK'
<1>1. /\ file' \in [Names -> Content] /\ temporary' \in [Names -> Content]
      /\ \A n \in Names : /\ file'[n] \in {Cut} \cup ({file[n]} \ {o})
                          /\ temporary'[n] \in {Cut} \cup ({temporary[n]} \ {o})
  BY DEF Interrupt, Left, ReleaseTypeOK, Content
<1>2. \A p \in Operators, n \in Names :
        p \in {file'[n], temporary'[n]} => p # o /\ p \in {file[n], temporary[n]}
  BY <1>1, ContentAssumption
<1> QED
  BY <1>1, <1>2, FinishTypes DEF Interrupt, ReleaseTypeOK

LEMMA ReleaseTypes ==
  ASSUME ReleaseTypeOK, ReleaseNext PROVE ReleaseTypeOK'
  BY PublishTypes, RolloutTypes, ReplaceTypes, OpenTypes, FillTypes, MoveTypes, InterruptTypes
  DEF ReleaseNext, Command

LEMMA SelectedType ==
  ASSUME Readable, NEW i \in Installations
  PROVE  Selected(Bucket[i]) \in Builds
  BY PublishedParts DEF Selected

LEMMA TypesNext == DeliveryTypeOK /\ [Next]_vars => DeliveryTypeOK'
<1> SUFFICES ASSUME DeliveryTypeOK, [Next]_vars PROVE DeliveryTypeOK'
  OBVIOUS
<1>1. CASE Operate
  BY <1>1, ReleaseTypes DEF DeliveryTypeOK, Operate
<1>2. ASSUME NEW i \in Installations, Ask(i) \/ Fetch(i) \/ GiveUp(i) PROVE DeliveryTypeOK'
  <2>1. ReleaseTypeOK'
    BY <1>2 DEF Ask, Fetch, GiveUp, DeliveryTypeOK, ReleaseTypeOK, releaseVars, commandVars
  <2>2. CASE Ask(i)
    BY <2>1, <2>2, SelectedType DEF Ask, Servable, DeliveryTypeOK
  <2>3. CASE Fetch(i) \/ GiveUp(i)
    BY <2>1, <2>3 DEF Fetch, GiveUp, DeliveryTypeOK
  <2> QED
    BY <1>2, <2>2, <2>3
<1>3. CASE UNCHANGED vars
  BY <1>3 DEF vars, releaseVars, commandVars, DeliveryTypeOK, ReleaseTypeOK
<1> QED
  BY <1>1, <1>2, <1>3 DEF Next

\* The types of the repository and of the installations, however commands overlap:
\* a file that is being filled always has a command that fills it.
THEOREM DeliveryTypeCorrect == Spec => []DeliveryTypeOK
  BY TypesInit, TypesNext, PTL DEF Spec

-----------------------------------------------------------------------------
(***************************************************************************)
(* The repository, when commands do not overlap.                           *)
(***************************************************************************)
Kept(b) == file[History(b)] = Whole

\* What a readable control file says can be acted upon: its modules are there, the
\* envelope of the previous release is in the history, a rollout that is not complete
\* has a previous release to fall back to, and a stopped one is at zero.
ControlSound == Readable =>
  /\ \A b \in {Published.current, Published.previous} \ {None} : Fetchable(b)
  /\ Published.previous # None => Kept(Published.previous) /\ Published.previous # Published.current
  /\ Published.rollout < 100 => Published.previous # None
  /\ Published.current \in stopped => Published.rollout = 0

\* A control file that a command is going to put in place follows the one that is
\* there: with the same releases, or with a newer one before them.
Follows(k) ==
  /\ Fetchable(k.current)
  /\ k.rollout < 100 => k.previous # None
  /\ \/ Readable /\ k.current = Published.current /\ k.previous = Published.previous
     \/ /\ Readable
        /\ ReleaseOf[Published.current] < ReleaseOf[k.current]
        /\ k.previous = Published.current
     \/ ~Readable /\ k.previous = None

PutWhole(name) == [name |-> name, content |-> Whole]
PutControl(k)  == [name |-> Manifest, content |-> k]

\* What a command that publishes b, or is about to leave control file k, has still to do.
Delivers(o, b) ==
  \/ pending[o] = <<PutWhole(Module(b)), PutWhole(Access(b))>>
  \/ pending[o] = <<PutWhole(Access(b))>> /\ file[Module(b)] = Whole

Controls(o, k) ==
  /\ Follows(k)
  /\ \/ /\ pending[o] = <<PutControl(k)>>
        /\ Readable /\ Published.current # k.current => Kept(Published.current)
     \/ Readable /\ pending[o] = <<PutWhole(History(Published.current)), PutControl(k)>>

Working(o) ==
  IF publishing[o] # None THEN Delivers(o, publishing[o])
  ELSE \E k \in Control : Controls(o, k)

CommandSound(o) ==
  /\ at[o] \in {"open", "fill", "move"} => Working(o)
  /\ at[o] = "control" => Fetchable(publishing[o])

\* The temporary file is in the hands of the one command there is.
Holds(o) ==
  /\ at[o] = "fill" => temporary[Head(pending[o]).name] = o
  /\ at[o] = "move" => temporary[Head(pending[o]).name] = Head(pending[o]).content

Alone == \A o, p \in Operators : at[o] # "idle" /\ at[p] # "idle" => o = p

NothingCut ==
  /\ file[Manifest] \in {Absent} \cup Control
  /\ \A n \in Names \ {Manifest} : file[n] \in {Absent, Whole}

RepositoryInv ==
  /\ ReleaseTypeOK
  /\ Alone
  /\ NothingCut
  /\ ControlSound
  /\ \A o \in Operators : /\ at[o] = "idle" => publishing[o] = None
                          /\ Holds(o)
                          /\ CommandSound(o)

\* What a step may do to the repository: no file is lost, and the control file goes on
\* from the one that was there, whose envelope is kept.
Advance ==
  /\ \A n \in Names \ {Manifest} : file[n] = Whole => file'[n] = Whole
  /\ Readable =>
       /\ Readable'
       /\ \/ /\ Published'.current = Published.current
             /\ Published'.previous = Published.previous
          \/ /\ ReleaseOf[Published.current] < ReleaseOf[Published'.current]
             /\ Published'.previous = Published.current
             /\ file'[History(Published.current)] = Whole

\* An installation knows, and runs, builds of the repository whose envelopes are kept.
Enveloped(b) == Readable /\ (b = Published.current \/ Kept(b))

InstallationsInv ==
  \A i \in Installations :
    /\ manifest[i] # None => Fetchable(manifest[i]) /\ Enveloped(manifest[i])
    /\ installed[i] # None => Enveloped(installed[i])

LEMMA RepositoryInit == Init => RepositoryInv
<1> SUFFICES ASSUME Init PROVE RepositoryInv
  OBVIOUS
<1>1. ReleaseTypeOK
  BY TypesInit DEF DeliveryTypeOK
<1>2. NothingCut /\ ControlSound
  <2>1. CASE file = [n \in Names |-> Absent]
    BY <2>1, NamesDiffer, ContentAssumption DEF NothingCut, ControlSound, Readable, Names
  <2>2. ASSUME NEW b \in Builds,
               file = [n \in Names |->
                         IF n \in {Module(b), Access(b)} THEN Whole
                         ELSE IF n = Manifest
                         THEN [signed |-> FALSE, current |-> b, previous |-> None, rollout |-> 100]
                         ELSE Absent]
        PROVE  NothingCut /\ ControlSound
    <3> DEFINE k == [signed |-> FALSE, current |-> b, previous |-> None, rollout |-> 100]
    <3>1. k \in Control
      BY DEF Control
    <3>2. file[Manifest] = k /\ file[Module(b)] = Whole /\ file[Access(b)] = Whole
      BY <2>2, NamesDiffer
    <3>3. NothingCut
      BY <2>2, <3>1, <3>2 DEF NothingCut
    <3>4. ControlSound
      BY <3>2 DEF ControlSound, Published, Fetchable, Init, ReleaseInit
    <3> QED
      BY <3>3, <3>4
  <2> QED
    BY <2>1, <2>2 DEF Init, ReleaseInit
<1> QED
  BY <1>1, <1>2 DEF Init, ReleaseInit, RepositoryInv, Alone, Holds, CommandSound

\* A command that works, or may start, is alone.
LEMMA OthersIdle ==
  ASSUME ~Concurrent, RepositoryInv, NEW o \in Operators, at[o] # "idle" \/ Free(o)
  PROVE  \A p \in Operators \ {o} : at[p] = "idle"
  BY DEF RepositoryInv, Alone, Free

\* A step of a command that leaves the repository alone.
LEMMA QuietInv ==
  ASSUME RepositoryInv, ReleaseTypeOK', NEW o \in Operators, UNCHANGED <<file, stopped>>,
         \A p \in Operators \ {o} : at[p] = "idle" /\ at'[p] = "idle" /\ publishing'[p] = None,
         at'[o] = "idle" => publishing'[o] = None,
         Holds(o)', CommandSound(o)'
  PROVE  RepositoryInv' /\ Advance
<1>1. Alone' /\ NothingCut' /\ ControlSound'
  BY DEF RepositoryInv, Alone, NothingCut, ControlSound, Readable, Published, Fetchable, Kept
<1>2. \A p \in Operators \ {o} : Holds(p)' /\ CommandSound(p)'
  BY DEF Holds, CommandSound
<1>3. Advance
  BY DEF Advance, Readable, Published
<1> QED
  BY <1>1, <1>2, <1>3 DEF RepositoryInv

\* Another command begins, or goes on.
LEMMA PerformInv ==
  ASSUME ~Concurrent, RepositoryInv, ReleaseTypeOK', NEW o \in Operators,
         at[o] # "idle" \/ Free(o), NEW writes, Perform(o, writes), UNCHANGED <<file, stopped>>,
         \A p \in Operators \ {o} : publishing'[p] = publishing[p],
         Working(o)'
  PROVE  RepositoryInv' /\ Advance
<1>1. /\ at'[o] = "open"
      /\ \A p \in Operators \ {o} : at[p] = "idle" /\ at'[p] = "idle" /\ publishing'[p] = None
  BY OthersIdle DEF Perform, RepositoryInv, ReleaseTypeOK
<1>2. Holds(o)' /\ CommandSound(o)'
  BY <1>1 DEF Holds, CommandSound
<1> QED
  BY <1>1, <1>2, QuietInv

LEMMA FinishInv ==
  ASSUME ~Concurrent, RepositoryInv, ReleaseTypeOK', NEW o \in Operators, at[o] # "idle",
         Finish(o), UNCHANGED <<file, stopped>>
  PROVE  RepositoryInv' /\ Advance
<1>1. /\ at'[o] = "idle" /\ publishing'[o] = None
      /\ \A p \in Operators \ {o} : at[p] = "idle" /\ at'[p] = "idle" /\ publishing'[p] = None
  BY OthersIdle DEF Finish, RepositoryInv, ReleaseTypeOK
<1>2. Holds(o)' /\ CommandSound(o)'
  BY <1>1 DEF Holds, CommandSound
<1> QED
  BY <1>1, <1>2, QuietInv

LEMMA PublishInv ==
  ASSUME ~Concurrent, RepositoryInv, NEW o \in Operators, NEW b \in Builds, Publish(o, b)
  PROVE  RepositoryInv' /\ Advance
<1>1. ReleaseTypeOK'
  BY PublishTypes DEF RepositoryInv
<1>2. publishing'[o] = b /\ b # None /\ \A p \in Operators \ {o} : publishing'[p] = publishing[p]
  BY ReleaseAssumption DEF Publish, RepositoryInv, ReleaseTypeOK
<1>3. pending'[o] = Prepared(b) /\ UNCHANGED file
  BY DEF Publish, Perform, RepositoryInv, ReleaseTypeOK
<1>4. file[Module(b)] \in {Absent, Whole}
  BY NamesDiffer DEF RepositoryInv, NothingCut
<1>5. Working(o)'
  BY <1>2, <1>3, <1>4 DEF Working, Delivers, Prepared, PutWhole
<1> QED
  BY <1>1, <1>2, <1>5, PerformInv DEF Publish

LEMMA RolloutInv ==
  ASSUME ~Concurrent, RepositoryInv, NEW o \in Operators,
         Rollback(o) \/ \E percentage \in Percentages : SetRollout(o, percentage)
  PROVE  RepositoryInv' /\ Advance
<1>1. ReleaseTypeOK'
  BY RolloutTypes DEF RepositoryInv
<1>2. PICK p \in 0 .. 100 :
        /\ Free(o) /\ at[o] = "idle" /\ Readable
        /\ p < 100 => Published.previous # None
        /\ Perform(o, <<PutControl([Published EXCEPT !.rollout = p])>>)
        /\ UNCHANGED <<file, temporary, publishing, stopped, interrupts>>
  <2>1. CASE Rollback(o)
    <3>1. 0 \in 0 .. 100
      OBVIOUS
    <3>2. /\ Free(o) /\ at[o] = "idle" /\ Readable /\ Published.previous # None
          /\ Perform(o, <<PutControl([Published EXCEPT !.rollout = 0])>>)
          /\ UNCHANGED <<file, temporary, publishing, stopped, interrupts>>
      BY <2>1, Zenon DEF Rollback, PutControl
    <3> QED
      BY <3>1, <3>2, Zenon
  <2>2. ASSUME NEW p \in Percentages, SetRollout(o, p)
        PROVE  \E q \in 0 .. 100 : q = p
    BY ReleaseAssumption
  <2> QED
    BY <2>1, <2>2 DEF SetRollout, PutControl
<1>3. PICK k \in Control :
        /\ k = [Published EXCEPT !.rollout = p] /\ k.rollout = p
        /\ k.current = Published.current /\ k.previous = Published.previous
  BY <1>2, PublishedParts DEF Control
<1>4. pending'[o] = <<PutControl(k)>> /\ publishing'[o] = None /\ UNCHANGED file
  BY <1>2, <1>3 DEF Perform, RepositoryInv, ReleaseTypeOK
<1>5. Published.current \in {Published.current, Published.previous} \ {None}
  BY <1>2, PublishedParts, ReleaseAssumption
<1>6. Follows(k)
  BY <1>2, <1>3, <1>5 DEF Follows, RepositoryInv, ControlSound
<1>7. Controls(o, k)'
  BY <1>3, <1>4, <1>6 DEF Controls, Follows, Readable, Published, Fetchable, Kept
<1>8. Working(o)'
  BY <1>4, <1>7 DEF Working
<1> QED
  BY <1>1, <1>2, <1>4, <1>8, PerformInv

\* The control file that publishing b leaves, once b can be fetched.
LEMMA SuccessorFollows ==
  ASSUME RepositoryInv, NEW b \in Builds, Fetchable(b),
         Readable => Published.current = b \/ NewRelease(b)
  PROVE  /\ Successor(b) \in Control /\ Follows(Successor(b))
         /\ Successor(b).current = b
<1>1. CASE Readable /\ Published.current = b
  <2>1. Successor(b) = [Published EXCEPT !.signed = TRUE]
    BY <1>1 DEF Successor
  <2>2. /\ Successor(b).current = b /\ Successor(b).previous = Published.previous
        /\ Successor(b).rollout = Published.rollout
    BY <1>1, <2>1, PublishedParts DEF Control
  <2> QED
    BY <1>1, <2>2, SuccessorType DEF Follows, RepositoryInv, ControlSound
<1>2. CASE ~(Readable /\ Published.current = b)
  <2>1. Successor(b) = [signed |-> TRUE, current |-> b, rollout |-> 100,
                        previous |-> IF Readable THEN Published.current ELSE None]
    BY <1>2 DEF Successor
  <2>2. /\ Successor(b).current = b /\ Successor(b).rollout = 100
        /\ Successor(b).previous = IF Readable THEN Published.current ELSE None
    BY <2>1
  <2> QED
    BY <1>2, <2>2, SuccessorType DEF Follows, NewRelease
<1> QED
  BY <1>1, <1>2

LEMMA ThenOne ==
  ASSUME NEW S, NEW x \in S, NEW y \in S
  PROVE  <<>> \o <<y>> = <<y>> /\ <<x>> \o <<y>> = <<x, y>>
<1>1. <<>> \o <<y>> = <<y>>
  OBVIOUS
<1>2. <<x>> \o <<y>> = <<x, y>>
  <2>1. /\ <<x>> \in Seq(S) /\ <<y>> \in Seq(S) /\ <<x, y>> \in Seq(S)
        /\ Len(<<x>>) = 1 /\ Len(<<y>>) = 1 /\ Len(<<x, y>>) = 2
    OBVIOUS
  <2> DEFINE s == <<x>>
             t == <<y>>
             u == <<x, y>>
  <2>2. s[1] = x /\ t[1] = y /\ u[1] = x /\ u[2] = y
    OBVIOUS
  <2>3. /\ s \in Seq(S) /\ t \in Seq(S) /\ u \in Seq(S)
        /\ Len(s) = 1 /\ Len(t) = 1 /\ Len(u) = 2
    BY <2>1
  <2> HIDE DEF s, t, u
  <2>4. /\ s \o t \in Seq(S) /\ Len(s \o t) = 2
        /\ (s \o t)[1] = s[1] /\ (s \o t)[2] = t[1]
    <3>1. /\ s \o t \in Seq(S) /\ Len(s \o t) = Len(s) + Len(t)
          /\ \A i \in 1 .. Len(s) + Len(t) :
               (s \o t)[i] = IF i <= Len(s) THEN s[i] ELSE t[i - Len(s)]
      BY <2>3, ConcatProperties
    <3> QED
      BY <2>3, <3>1
  <2>5. \A i \in 1 .. Len(s \o t) : (s \o t)[i] = u[i]
    BY <2>2, <2>4
  <2>6. s \o t = u
    BY <2>3, <2>4, <2>5, SeqEqual
  <2> QED
    BY <2>6 DEF s, t, u
<1> QED
  BY <1>1, <1>2

LEMMA SupersededThen ==
  ASSUME RepositoryInv, NEW b \in Builds, NEW k \in Control
  PROVE  LET writes == Superseded(b) \o <<PutControl(k)>>
         IN  \/ /\ writes = <<PutControl(k)>>
                /\ Readable => Kept(Published.current)
             \/ Readable /\ writes = <<PutWhole(History(Published.current)), PutControl(k)>>
<1>1. PutControl(k) \in Write
  BY ManifestWrite DEF PutControl
<1>2. CASE Superseded(b) = <<>>
  <2>1. Superseded(b) \o <<PutControl(k)>> = <<PutControl(k)>>
    BY <1>1, <1>2, ThenOne
  <2>2. Readable => file[History(Published.current)] # Absent
    BY <1>2 DEF Superseded
  <2>3. Readable => Kept(Published.current)
    BY <2>2, PublishedParts, NamesDiffer DEF Kept, RepositoryInv, NothingCut
  <2> QED
    BY <2>1, <2>3
<1>3. CASE Superseded(b) # <<>>
  <2>1. Readable /\ Superseded(b) = <<PutWhole(History(Published.current))>>
    BY <1>3 DEF Superseded, PutWhole
  <2>2. PutWhole(History(Published.current)) \in Write
    BY <2>1, PublishedParts, NamesDiffer DEF PutWhole, Write
  <2>3. Superseded(b) \o <<PutControl(k)>> = <<PutWhole(History(Published.current)), PutControl(k)>>
    BY <1>1, <2>1, <2>2, ThenOne
  <2> QED
    BY <2>1, <2>3
<1> QED
  BY <1>2, <1>3

LEMMA ReplaceInv ==
  ASSUME ~Concurrent, RepositoryInv, NEW o \in Operators, Replace(o)
  PROVE  RepositoryInv' /\ Advance
<1>1. ReleaseTypeOK'
  BY ReplaceTypes DEF RepositoryInv
<1>2. PICK b \in Builds : b = publishing[o] /\ at[o] = "control" /\ Fetchable(b)
  BY DEF Replace, RepositoryInv, ReleaseTypeOK, CommandSound
<1>3. UNCHANGED <<file, stopped>>
  BY DEF Replace
<1>4. PICK k \in Control : k = Successor(b)
  BY SuccessorType
<1>5. ASSUME NEW writes, Perform(o, writes), publishing' = [publishing EXCEPT ![o] = None],
             Readable => Published.current = b \/ NewRelease(b),
             \/ writes = <<PutControl(k)>> /\ (Readable => Published.current = b)
             \/ writes = Superseded(b) \o <<PutControl(k)>>
      PROVE  RepositoryInv' /\ Advance
  <2>1. Follows(k) /\ k.current = b
    BY <1>2, <1>4, <1>5, SuccessorFollows
  <2>2. /\ publishing'[o] = None /\ pending'[o] = writes
        /\ \A p \in Operators \ {o} : publishing'[p] = publishing[p]
    BY <1>5 DEF Perform, RepositoryInv, ReleaseTypeOK
  <2>3. \/ /\ writes = <<PutControl(k)>>
           /\ Readable /\ Published.current # k.current => Kept(Published.current)
        \/ Readable /\ writes = <<PutWhole(History(Published.current)), PutControl(k)>>
    BY <1>5, <2>1, SupersededThen
  <2>4. Controls(o, k)'
    BY <1>3, <2>1, <2>2, <2>3 DEF Controls, Follows, Readable, Published, Fetchable, Kept
  <2>5. Working(o)'
    BY <2>2, <2>4 DEF Working
  <2> QED
    BY <1>1, <1>2, <1>3, <1>5, <2>2, <2>5, PerformInv
<1>6. CASE Finish(o)
  BY <1>1, <1>2, <1>3, <1>6, FinishInv
<1> QED
  BY <1>2, <1>4, <1>5, <1>6 DEF Replace, PutControl

\* The write at hand of a command, and those that follow it.
LEMMA WorkAtHand ==
  ASSUME RepositoryInv, NEW o \in Operators, at[o] \in {"open", "fill", "move"}
  PROVE  /\ Working(o)
         /\ Head(pending[o]).name \in Names
         /\ Head(pending[o]).content \in Control \cup {Whole}
  BY FirstWrite DEF RepositoryInv, CommandSound

LEMMA OpenInv ==
  ASSUME ~Concurrent, RepositoryInv, NEW o \in Operators, Open(o)
  PROVE  RepositoryInv' /\ Advance
<1>1. ReleaseTypeOK'
  BY OpenTypes DEF RepositoryInv
<1>2. at[o] = "open" /\ at'[o] = "fill" /\ UNCHANGED <<file, pending, publishing, stopped>>
  BY DEF Open, RepositoryInv, ReleaseTypeOK
<1>3. \A p \in Operators \ {o} : at[p] = "idle" /\ at'[p] = "idle" /\ publishing'[p] = None
  BY <1>2, OthersIdle DEF Open, RepositoryInv, ReleaseTypeOK
<1>4. Working(o) /\ Head(pending[o]).name \in Names
  BY <1>2, WorkAtHand
<1>5. Holds(o)'
  BY <1>2, <1>4 DEF Holds, Open, RepositoryInv, ReleaseTypeOK
<1>6. CommandSound(o)'
  BY <1>2, <1>4 DEF CommandSound, Working, Delivers, Controls, Follows, Readable, Published,
     Fetchable, Kept
<1> QED
  BY <1>1, <1>2, <1>3, <1>5, <1>6, QuietInv

\* No file of the repository is being written in place.
LEMMA NothingOpen ==
  ASSUME RepositoryInv, NEW o \in Operators, NEW n \in Names
  PROVE  file[n] # o
  BY ContentAssumption DEF RepositoryInv, NothingCut

LEMMA FillInv ==
  ASSUME ~Concurrent, RepositoryInv, NEW o \in Operators, Fill(o)
  PROVE  RepositoryInv' /\ Advance
<1>1. ReleaseTypeOK'
  BY FillTypes DEF RepositoryInv
<1>2. at[o] = "fill" /\ at'[o] = "move" /\ UNCHANGED <<pending, publishing, stopped>>
  BY DEF Fill, RepositoryInv, ReleaseTypeOK
<1>3. file' = file
  BY NothingOpen DEF Fill, Filled, RepositoryInv, ReleaseTypeOK
<1>4. \A p \in Operators \ {o} : at[p] = "idle" /\ at'[p] = "idle" /\ publishing'[p] = None
  BY <1>2, OthersIdle DEF Fill, RepositoryInv, ReleaseTypeOK
<1>5. Working(o) /\ Head(pending[o]).name \in Names
  BY <1>2, WorkAtHand
<1>6. Holds(o)'
  BY <1>2, <1>5 DEF Holds, Fill, Filled, RepositoryInv
<1>7. CommandSound(o)'
  BY <1>2, <1>3, <1>5 DEF CommandSound, Working, Delivers, Controls, Follows, Readable, Published,
     Fetchable, Kept
<1> QED
  BY <1>1, <1>2, <1>3, <1>4, <1>6, <1>7, QuietInv

LEMMA InterruptInv ==
  ASSUME ~Concurrent, RepositoryInv, NEW o \in Operators, Interrupt(o)
  PROVE  RepositoryInv' /\ Advance
<1>1. ReleaseTypeOK'
  BY InterruptTypes DEF RepositoryInv
<1>2. file' = file
  BY NothingOpen DEF Interrupt, Left, RepositoryInv, ReleaseTypeOK
<1> QED
  BY <1>1, <1>2, FinishInv DEF Interrupt

\* Putting a module, a policy or an envelope in its place.
LEMMA PlacedInv ==
  ASSUME RepositoryInv, ReleaseTypeOK', NEW o \in Operators, NEW name \in Names \ {Manifest},
         file' = [file EXCEPT ![name] = Whole], UNCHANGED stopped,
         \A p \in Operators \ {o} : at[p] = "idle" /\ at'[p] = "idle" /\ publishing'[p] = None,
         at'[o] \in {"open", "control"}, CommandSound(o)'
  PROVE  RepositoryInv' /\ Advance
<1>1. file'[Manifest] = file[Manifest]
  BY NamesDiffer DEF Names
<1>2. /\ Manifest \in Names
      /\ \A n \in Names \ {Manifest} :
           file'[n] \in {Absent, Whole} /\ (file[n] = Whole => file'[n] = Whole)
  BY DEF RepositoryInv, NothingCut, ReleaseTypeOK, Names
<1>3. NothingCut'
  BY <1>1, <1>2 DEF RepositoryInv, NothingCut
<1>4. Readable' = Readable /\ Published' = Published
  BY <1>1 DEF Readable, Published
<1>5. \A b \in Builds : (Fetchable(b) => Fetchable(b)') /\ (Kept(b) => Kept(b)')
  BY <1>2, NamesDiffer DEF Fetchable, Kept
<1>6. ControlSound'
  BY <1>4, <1>5, PublishedParts DEF RepositoryInv, ControlSound
<1>7. \A p \in Operators : Holds(p)' /\ CommandSound(p)'
  BY DEF Holds, CommandSound
<1>8. Advance
  BY <1>2, <1>4 DEF Advance
<1> QED
  BY <1>3, <1>6, <1>7, <1>8 DEF RepositoryInv, Alone

\* Putting a control file in its place, the last write of its command.
LEMMA ControlInv ==
  ASSUME RepositoryInv, ReleaseTypeOK', NEW o \in Operators, NEW k \in Control,
         Controls(o, k), pending[o] = <<PutControl(k)>>,
         file' = [file EXCEPT ![Manifest] = k], Judge(Manifest, k),
         \A p \in Operators \ {o} : at[p] = "idle" /\ at'[p] = "idle" /\ publishing'[p] = None,
         at'[o] = "idle", publishing'[o] = None
  PROVE  RepositoryInv' /\ Advance
<1>1. k.current \in Builds /\ k.previous \in Builds \cup {None} /\ k.rollout \in 0 .. 100
  BY DEF Control
<1>2. /\ file'[Manifest] = k
      /\ \A n \in Names \ {Manifest} : file'[n] = file[n]
  BY DEF RepositoryInv, ReleaseTypeOK, Names
<1>3. NothingCut'
  BY <1>2 DEF RepositoryInv, NothingCut
<1>4. Readable' /\ Published' = k
  BY <1>2 DEF Readable, Published
<1>5. \A b \in Builds : Fetchable(b)' = Fetchable(b) /\ Kept(b)' = Kept(b)
  BY <1>2, NamesDiffer DEF Fetchable, Kept
<1>6. Readable /\ Published.current # k.current => Kept(Published.current)
  <2>1. PutControl(k) # PutWhole(History(Published.current))
    BY ContentAssumption DEF PutControl, PutWhole
  <2> QED
    BY <2>1 DEF Controls
<1>7. /\ \A b \in {k.current, k.previous} \ {None} : Fetchable(b)
      /\ k.previous # None => Kept(k.previous) /\ k.previous # k.current
  <2>1. CASE Readable /\ k.current = Published.current /\ k.previous = Published.previous
    BY <2>1 DEF RepositoryInv, ControlSound
  <2>2. CASE /\ Readable
             /\ ReleaseOf[Published.current] < ReleaseOf[k.current]
             /\ k.previous = Published.current
    <3>1. Published.current # k.current /\ Published.current \in Builds /\ Published.current # None
      BY <2>2, <1>1, PublishedParts, ReleaseAssumption
    <3>2. Fetchable(Published.current)
      BY <2>2, <3>1 DEF RepositoryInv, ControlSound
    <3> QED
      BY <2>2, <3>1, <3>2, <1>6 DEF Controls, Follows
  <2>3. CASE ~Readable /\ k.previous = None
    BY <2>3 DEF Controls, Follows
  <2> QED
    BY <2>1, <2>2, <2>3 DEF Controls, Follows
<1>8. k.current \in stopped' => k.rollout = 0
  BY DEF Judge
<1>9. ControlSound'
  BY <1>1, <1>4, <1>5, <1>7, <1>8 DEF ControlSound, Controls, Follows
<1>10. \A p \in Operators : Holds(p)' /\ CommandSound(p)'
  BY DEF Holds, CommandSound
<1>11. Advance
  <2>1. \A n \in Names \ {Manifest} : file[n] = Whole => file'[n] = Whole
    BY <1>2
  <2>2. Readable =>
          \/ k.current = Published.current /\ k.previous = Published.previous
          \/ /\ ReleaseOf[Published.current] < ReleaseOf[k.current]
             /\ k.previous = Published.current
             /\ file'[History(Published.current)] = Whole
    <3>1. CASE Readable /\ ReleaseOf[Published.current] < ReleaseOf[k.current]
      <4>1. Published.current # k.current /\ Published.current \in Builds
        BY <3>1, <1>1, PublishedParts, ReleaseAssumption
      <4>2. file'[History(Published.current)] = Whole
        BY <3>1, <4>1, <1>2, <1>6, NamesDiffer DEF Kept
      <4> QED
        BY <3>1, <4>1, <4>2 DEF Controls, Follows
    <3> QED
      BY <3>1 DEF Controls, Follows
  <2> QED
    BY <1>4, <2>1, <2>2 DEF Advance
<1> QED
  BY <1>3, <1>9, <1>10, <1>11 DEF RepositoryInv, Alone

LEMMA FirstAndRest ==
  ASSUME NEW x, NEW y
  PROVE  /\ Head(<<x>>) = x /\ Tail(<<x>>) = <<>>
         /\ Head(<<x, y>>) = x /\ Tail(<<x, y>>) = <<y>> /\ <<y>> # <<>>
  OBVIOUS

LEMMA MoveInv ==
  ASSUME ~Concurrent, RepositoryInv, NEW o \in Operators, Move(o)
  PROVE  RepositoryInv' /\ Advance
<1> DEFINE name == Head(pending[o]).name
           content == Head(pending[o]).content
           rest == Tail(pending[o])
<1>1. ReleaseTypeOK'
  BY MoveTypes DEF RepositoryInv
<1>2. at[o] = "move" /\ Working(o) /\ name \in Names /\ content \in Control \cup {Whole}
  BY WorkAtHand DEF Move
<1>3. temporary[name] = content /\ content # Absent
  BY <1>2, ContentAssumption DEF RepositoryInv, Holds
<1>4. /\ file' = [file EXCEPT ![name] = content]
      /\ Judge(name, content)
      /\ IF rest = <<>> /\ publishing[o] = None
         THEN Finish(o)
         ELSE /\ at' = [at EXCEPT ![o] = IF rest = <<>> THEN "control" ELSE "open"]
              /\ pending' = [pending EXCEPT ![o] = rest]
              /\ UNCHANGED publishing
  BY <1>3 DEF Move
<1>5. \A p \in Operators \ {o} : at[p] = "idle" /\ at'[p] = "idle" /\ publishing'[p] = None
  BY <1>2, <1>4, OthersIdle DEF Finish, RepositoryInv, ReleaseTypeOK
<1> HIDE DEF name, content, rest
<1>6. ASSUME name # Manifest, content = Whole,
             ~(rest = <<>> /\ publishing[o] = None),
             rest # <<>> => Working(o)', rest = <<>> => Fetchable(publishing[o])'
      PROVE  RepositoryInv' /\ Advance
  <2>1. at'[o] = IF rest = <<>> THEN "control" ELSE "open"
    BY <1>4, <1>6 DEF RepositoryInv, ReleaseTypeOK
  <2>2. UNCHANGED stopped
    BY <1>4, <1>6 DEF Judge
  <2>3. CommandSound(o)'
    BY <1>4, <1>6, <2>1 DEF CommandSound
  <2> QED
    BY <1>1, <1>2, <1>4, <1>5, <1>6, <2>1, <2>2, <2>3, PlacedInv
<1>7. ASSUME NEW b \in Builds, b = publishing[o], b # None,
             pending[o] = <<PutWhole(Module(b)), PutWhole(Access(b))>>
      PROVE  RepositoryInv' /\ Advance
  <2>1. name = Module(b) /\ content = Whole /\ rest = <<PutWhole(Access(b))>> /\ rest # <<>>
    BY <1>7, FirstAndRest DEF name, content, rest, PutWhole
  <2>2. pending'[o] = <<PutWhole(Access(b))>> /\ publishing'[o] = b /\ file'[Module(b)] = Whole
    BY <1>2, <1>4, <1>7, <2>1 DEF RepositoryInv, ReleaseTypeOK
  <2>3. Working(o)'
    BY <1>7, <2>2 DEF Working, Delivers
  <2> QED
    BY <1>6, <1>7, <2>1, <2>3, NamesDiffer
<1>8. ASSUME NEW b \in Builds, b = publishing[o], b # None,
             pending[o] = <<PutWhole(Access(b))>>, file[Module(b)] = Whole
      PROVE  RepositoryInv' /\ Advance
  <2>1. name = Access(b) /\ content = Whole /\ rest = <<>>
    BY <1>8, FirstAndRest DEF name, content, rest, PutWhole
  <2>2. publishing'[o] = b /\ file'[Module(b)] = Whole /\ file'[Access(b)] = Whole
    BY <1>2, <1>4, <1>8, <2>1, NamesDiffer DEF RepositoryInv, ReleaseTypeOK
  <2>3. Fetchable(publishing[o])'
    BY <2>2 DEF Fetchable
  <2> QED
    BY <1>6, <1>8, <2>1, <2>3, NamesDiffer
<1>9. ASSUME NEW k \in Control, Controls(o, k), publishing[o] = None,
             pending[o] = <<PutControl(k)>>
      PROVE  RepositoryInv' /\ Advance
  <2>1. name = Manifest /\ content = k /\ rest = <<>>
    BY <1>9, FirstAndRest DEF name, content, rest, PutControl
  <2>2. at'[o] = "idle" /\ publishing'[o] = None
    BY <1>4, <1>9, <2>1 DEF Finish, RepositoryInv, ReleaseTypeOK
  <2> QED
    BY <1>1, <1>4, <1>5, <1>9, <2>1, <2>2, ControlInv
<1>10. ASSUME NEW k \in Control, Follows(k), publishing[o] = None, Readable,
              pending[o] = <<PutWhole(History(Published.current)), PutControl(k)>>
       PROVE  RepositoryInv' /\ Advance
  <2>1. PICK c \in Builds : c = Published.current
    BY <1>10, PublishedParts
  <2>2. name = History(c) /\ content = Whole /\ rest = <<PutControl(k)>> /\ rest # <<>>
    BY <1>10, <2>1, FirstAndRest DEF name, content, rest, PutWhole
  <2>3. /\ pending'[o] = <<PutControl(k)>> /\ publishing'[o] = None
        /\ file'[History(c)] = Whole /\ file'[Manifest] = file[Manifest]
        /\ \A d \in Builds : file'[Module(d)] = file[Module(d)] /\ file'[Access(d)] = file[Access(d)]
    <3>1. pending'[o] = <<PutControl(k)>> /\ publishing'[o] = None
      BY <1>4, <1>10, <2>2 DEF RepositoryInv, ReleaseTypeOK
    <3>2. file' = [file EXCEPT ![History(c)] = Whole] /\ file \in [Names -> Content]
      BY <1>4, <2>2 DEF RepositoryInv, ReleaseTypeOK
    <3> QED
      BY <3>1, <3>2, NamesDiffer, NamesApart
  <2>4. Published' = Published /\ Readable'
    BY <1>10, <2>3 DEF Readable, Published
  <2>5. Follows(k)'
    <3>1. k.current \in Builds
      BY DEF Control
    <3> QED
      BY <1>10, <2>3, <2>4, <3>1 DEF Follows, Fetchable
  <2>6. Kept(Published.current)'
    BY <2>1, <2>3, <2>4 DEF Kept
  <2>7. Controls(o, k)'
    BY <2>3, <2>5, <2>6 DEF Controls
  <2>8. Working(o)'
    BY <2>3, <2>7 DEF Working
  <2> QED
    BY <1>6, <2>1, <2>2, <2>8, NamesDiffer
<1>11. CASE publishing[o] # None
  <2>1. PICK b \in Builds : b = publishing[o] /\ b # None
    BY <1>11 DEF RepositoryInv, ReleaseTypeOK
  <2> QED
    BY <1>2, <1>7, <1>8, <1>11, <2>1 DEF Working, Delivers
<1>12. CASE publishing[o] = None
  <2>1. PICK k \in Control : Controls(o, k)
    BY <1>2, <1>12 DEF Working
  <2>2. CASE pending[o] = <<PutControl(k)>>
    BY <1>9, <1>12, <2>1, <2>2
  <2>3. CASE pending[o] # <<PutControl(k)>>
    BY <1>10, <1>12, <2>1, <2>3 DEF Controls
  <2> QED
    BY <2>2, <2>3
<1> QED
  BY <1>11, <1>12

LEMMA RepositoryNext ==
  ASSUME ~Concurrent, RepositoryInv, [ReleaseNext]_releaseVars
  PROVE  RepositoryInv' /\ Advance
<1>1. CASE ReleaseNext
  BY <1>1, PublishInv, RolloutInv, ReplaceInv, OpenInv, FillInv, MoveInv, InterruptInv
  DEF ReleaseNext, Command
<1>2. CASE UNCHANGED releaseVars
  <2>1. /\ ReleaseTypeOK' /\ Alone' /\ NothingCut' /\ ControlSound'
        /\ \A o \in Operators : Holds(o)' = Holds(o) /\ CommandSound(o)' = CommandSound(o)
    BY <1>2 DEF releaseVars, commandVars, RepositoryInv, ReleaseTypeOK, Alone, NothingCut,
       ControlSound, Holds, CommandSound, Working, Delivers, Controls, Follows, Readable, Published,
       Fetchable, Kept
  <2>2. Advance
    BY <1>2 DEF releaseVars, Advance, Readable, Published
  <2> QED
    BY <1>2, <2>1, <2>2 DEF releaseVars, commandVars, RepositoryInv
<1> QED
  BY <1>1, <1>2

-----------------------------------------------------------------------------
(***************************************************************************)
(* The installations, when commands do not overlap.                        *)
(***************************************************************************)
\* What can be fetched and what is enveloped stays so.
LEMMA EnvelopedStays ==
  ASSUME ReleaseTypeOK, Advance, NEW b \in Builds
  PROVE  (Fetchable(b) => Fetchable(b)') /\ (Enveloped(b) => Enveloped(b)')
<1>1. Fetchable(b) => Fetchable(b)'
  BY NamesDiffer DEF Advance, Fetchable
<1>2. ASSUME Readable, Kept(b) PROVE Enveloped(b)'
  BY <1>2, NamesDiffer DEF Advance, Kept, Enveloped
<1>3. ASSUME Readable, b = Published.current PROVE Enveloped(b)'
  <2>1. Readable' /\ (b = Published'.current \/ file'[History(b)] = Whole)
    BY <1>3 DEF Advance
  <2> QED
    BY <2>1 DEF Enveloped, Kept
<1> QED
  BY <1>1, <1>2, <1>3 DEF Enveloped

\* The build an installation is offered can be fetched, and its envelope is kept.
LEMMA SelectedSound ==
  ASSUME RepositoryInv, Readable, NEW i \in Installations
  PROVE  /\ Selected(Bucket[i]) \in Builds
         /\ Fetchable(Selected(Bucket[i])) /\ Enveloped(Selected(Bucket[i]))
<1>1. Selected(Bucket[i]) \in Builds
  BY SelectedType
<1>2. /\ Selected(Bucket[i]) \in {Published.current, Published.previous} \ {None}
      /\ Selected(Bucket[i]) # Published.current => Selected(Bucket[i]) = Published.previous
  BY <1>1, ReleaseAssumption DEF Selected
<1> QED
  BY <1>1, <1>2 DEF RepositoryInv, ControlSound, Enveloped

LEMMA InstallationsNext ==
  ASSUME RepositoryInv, Advance, DeliveryTypeOK, InstallationsInv, [Next]_vars
  PROVE  InstallationsInv'
<1>1. ASSUME NEW b \in Builds
      PROVE  (Fetchable(b) => Fetchable(b)') /\ (Enveloped(b) => Enveloped(b)')
  BY EnvelopedStays DEF RepositoryInv
<1>2. DeliveryTypeOK'
  BY TypesNext
<1>3. ASSUME NEW i \in Installations
      PROVE  /\ \/ manifest'[i] \in {None, manifest[i]}
                \/ Fetchable(manifest'[i]) /\ Enveloped(manifest'[i])
             /\ installed'[i] \in {installed[i], manifest[i]}
  <2>1. CASE Operate \/ UNCHANGED vars
    BY <2>1 DEF Operate, vars
  <2>2. ASSUME NEW j \in Installations, Ask(j) PROVE <1>3!2
    BY <2>2, SelectedSound DEF Ask, Servable, DeliveryTypeOK
  <2>3. ASSUME NEW j \in Installations, Fetch(j) \/ GiveUp(j) PROVE <1>3!2
    BY <2>3 DEF Fetch, GiveUp, DeliveryTypeOK
  <2> QED
    BY <2>1, <2>2, <2>3 DEF Next
<1>4. ASSUME NEW i \in Installations
      PROVE  /\ manifest'[i] # None => Fetchable(manifest[i])' /\ Enveloped(manifest[i])'
             /\ installed'[i] # None => Enveloped(installed[i])'
  <2>1. PICK m \in Builds \cup {None} : m = manifest'[i]
    BY <1>2 DEF DeliveryTypeOK
  <2>2. PICK n \in Builds \cup {None} : n = installed'[i]
    BY <1>2 DEF DeliveryTypeOK
  <2>3. m # None => Fetchable(m)' /\ Enveloped(m)'
    BY <1>1, <1>3, <2>1 DEF InstallationsInv
  <2>4. n # None => Enveloped(n)'
    BY <1>1, <1>3, <2>2 DEF InstallationsInv
  <2> QED
    BY <2>1, <2>2, <2>3, <2>4 DEF Fetchable, Enveloped, Kept
<1> QED
  BY <1>4 DEF InstallationsInv

\* What an action of the specification may do to the repository.
LEMMA StepAdvances ==
  ASSUME ~Concurrent, RepositoryInv, [Next]_vars
  PROVE  RepositoryInv' /\ Advance
<1>1. [ReleaseNext]_releaseVars
  BY DEF Next, Operate, Ask, Fetch, GiveUp, vars
<1> QED
  BY <1>1, RepositoryNext

DeliveryInv == DeliveryTypeOK /\ RepositoryInv /\ InstallationsInv

LEMMA DeliveryInvariant == ~Concurrent => (Spec => []DeliveryInv)
<1> SUFFICES ASSUME ~Concurrent PROVE Spec => []DeliveryInv
  OBVIOUS
<1>1. Init => DeliveryInv
  BY TypesInit, RepositoryInit DEF DeliveryInv, InstallationsInv, Init
<1>2. DeliveryInv /\ [Next]_vars => DeliveryInv'
  BY TypesNext, StepAdvances, InstallationsNext DEF DeliveryInv
<1> QED
  BY <1>1, <1>2, PTL DEF Spec

\* Whatever manifest an installation has received, or could be sent, names a module
\* it can fetch.
THEOREM NothingIsMissing == ~Concurrent => (Spec => []NothingMissing)
<1> SUFFICES ASSUME ~Concurrent PROVE Spec => []NothingMissing
  OBVIOUS
<1>1. DeliveryInv => NothingMissing
  BY DEF DeliveryInv, RepositoryInv, ControlSound, InstallationsInv, NothingMissing
<1> QED
  BY <1>1, DeliveryInvariant, PTL

\* The envelope of every module that an installation runs is the current one, or in
\* the history.
THEOREM EnvelopesAreKept == ~Concurrent => (Spec => []EnvelopesKept)
<1> SUFFICES ASSUME ~Concurrent PROVE Spec => []EnvelopesKept
  OBVIOUS
<1>1. DeliveryInv => EnvelopesKept
  BY DEF DeliveryInv, InstallationsInv, Enveloped, Kept, EnvelopesKept
<1> QED
  BY <1>1, DeliveryInvariant, PTL

\* While a stopped release is the current one, its rollout is at zero and there is a
\* previous release: nobody is offered it.
THEOREM StopIsHeld == ~Concurrent => (Spec => []StopHolds)
<1> SUFFICES ASSUME ~Concurrent PROVE Spec => []StopHolds
  OBVIOUS
<1>1. ASSUME DeliveryInv, Servable, Published.current \in stopped, NEW i \in Installations
      PROVE  Selected(Bucket[i]) # Published.current
  <2>1. Published.rollout = 0 /\ Published.previous # None /\ Published.previous # Published.current
    BY <1>1 DEF DeliveryInv, RepositoryInv, ControlSound, Servable
  <2>2. Later(Bucket[i])
    BY <2>1, BucketAssumption DEF Later
  <2> QED
    BY <2>1, <2>2 DEF Selected
<1>2. DeliveryInv => StopHolds
  BY <1>1 DEF StopHolds
<1> QED
  BY <1>2, DeliveryInvariant, PTL

\* The published release never goes back, and a control file is never lost.
THEOREM ReleaseForward == ~Concurrent => (Spec => PublishedForward)
<1> SUFFICES ASSUME ~Concurrent PROVE Spec => PublishedForward
  OBVIOUS
<1>1. ASSUME DeliveryInv, DeliveryInv', [Next]_vars, Readable
      PROVE  Readable' /\ ReleaseOf[Published.current] <= ReleaseOf[Published.current]'
  <2>1. Advance
    BY <1>1, StepAdvances DEF DeliveryInv
  <2>2. Readable' /\ Published.current \in Builds /\ Published'.current \in Builds
    BY <1>1, <2>1, PublishedParts DEF Advance, Readable, Published, Control
  <2>3. ReleaseOf[Published.current] \in Nat /\ ReleaseOf[Published'.current] \in Nat
    BY <2>2, ReleaseAssumption
  <2> QED
    BY <1>1, <2>1, <2>2, <2>3 DEF Advance
<1>2. DeliveryInv /\ DeliveryInv' /\ [Next]_vars
        => [Readable => /\ Readable'
                        /\ ReleaseOf[Published.current] <= ReleaseOf[Published.current]']_vars
  BY <1>1
<1> QED
  BY <1>2, DeliveryInvariant, PTL DEF Spec, PublishedForward

\* An installation that was offered the current release is still offered it while its
\* rollout only widens: as long as the release stays, so does the one before it.
THEOREM OffersStand == ~Concurrent => (Spec => NoOscillation)
<1> SUFFICES ASSUME ~Concurrent PROVE Spec => NoOscillation
  OBVIOUS
<1> DEFINE Stands ==
      Servable /\ Servable' =>
        \A i \in Installations :
          Selected(Bucket[i]) = Published.current
            /\ Published.current = Published.current'
            /\ Published.rollout <= Published.rollout'
          => Selected(Bucket[i])' = Published.current
<1>1. ASSUME DeliveryInv, [Next]_vars PROVE Stands
  <2> SUFFICES ASSUME Servable, Servable', NEW i \in Installations,
                      Selected(Bucket[i]) = Published.current,
                      Published.current = Published'.current,
                      Published.rollout <= Published'.rollout
               PROVE  Selected(Bucket[i])' = Published.current
    OBVIOUS
  <2>1. Readable /\ Readable' /\ Published \in Control /\ Published' \in Control
    BY DEF Servable, Readable, Published
  <2>2. Published'.previous = Published.previous
    <3>1. Advance
      BY <1>1, StepAdvances DEF DeliveryInv
    <3>2. ReleaseOf[Published.current] \in Nat
      BY <2>1, ReleaseAssumption DEF Control
    <3> QED
      BY <2>1, <3>1, <3>2 DEF Advance
  <2>3. Published.rollout \in Int /\ Published'.rollout \in Int
    BY <2>1 DEF Control
  <2>4. Published.previous # Published.current \/ Published.previous = None
    BY <1>1, <2>1 DEF DeliveryInv, RepositoryInv, ControlSound
  <2>5. ~(Published.rollout < 100 /\ Published.previous # None /\ Later(Bucket[i]))
    BY <2>4 DEF Selected
  <2>6. ~(Published'.rollout < 100 /\ Published'.previous # None /\ Later(Bucket[i])')
    BY <2>2, <2>3, <2>5, BucketAssumption DEF Later
  <2> QED
    BY <2>6 DEF Selected
<1>2. DeliveryInv /\ [Next]_vars => [Stands]_vars
  BY <1>1
<1> QED
  BY <1>2, DeliveryInvariant, PTL DEF Spec, NoOscillation

-----------------------------------------------------------------------------
(***************************************************************************)
(* The installations.  They rely on nothing the operators do.              *)
(***************************************************************************)
\* The manifest an installation refreshes from is not older than its module: it was
\* judged by the module the installation still has.
ManifestsNewer == \A i \in Installations : manifest[i] # None => ~Older(i, manifest[i])

LEMMA ManifestsNewerNext ==
  DeliveryTypeOK /\ ManifestsNewer /\ [Next]_vars => ManifestsNewer'
<1> SUFFICES ASSUME DeliveryTypeOK, ManifestsNewer, [Next]_vars, NEW i \in Installations,
                    manifest'[i] # None
             PROVE  ~Older(i, manifest[i])'
  BY DEF ManifestsNewer
<1>1. CASE UNCHANGED <<manifest, installed>>
  BY <1>1 DEF ManifestsNewer, Older
<1>2. ASSUME NEW j \in Installations, Ask(j) PROVE ~Older(i, manifest[i])'
  <2>1. i = j => manifest'[i] = Selected(Bucket[j]) /\ ~Older(i, Selected(Bucket[j]))
    BY <1>2 DEF Ask, DeliveryTypeOK
  <2>2. i # j => manifest'[i] = manifest[i]
    BY <1>2 DEF Ask, DeliveryTypeOK
  <2> QED
    BY <1>2, <2>1, <2>2 DEF Ask, ManifestsNewer, Older
<1>3. ASSUME NEW j \in Installations, Fetch(j) \/ GiveUp(j) PROVE ~Older(i, manifest[i])'
  <2>1. i # j /\ manifest'[i] = manifest[i] /\ installed'[i] = installed[i]
    BY <1>3 DEF Fetch, GiveUp, DeliveryTypeOK
  <2> QED
    BY <2>1 DEF ManifestsNewer, Older
<1> QED
  BY <1>1, <1>2, <1>3 DEF Next, Operate, vars

\* One step of the world, seen by one installation: nothing, or the module of the
\* manifest it holds.
LEMMA StoreStep ==
  ASSUME DeliveryTypeOK, ManifestsNewer, [Next]_vars, NEW i \in Installations
  PROVE  \/ installed'[i] = installed[i]
         \/ /\ installed'[i] \in Builds /\ ~Older(i, installed'[i])
<1>1. CASE UNCHANGED installed
  BY <1>1
<1>2. ASSUME NEW j \in Installations, Fetch(j)
      PROVE  \/ installed'[i] = installed[i]
             \/ installed'[i] \in Builds /\ ~Older(i, installed'[i])
  <2>1. i # j => installed'[i] = installed[i]
    BY <1>2 DEF Fetch, DeliveryTypeOK
  <2>2. i = j => installed'[i] = manifest[i] /\ manifest[i] \in Builds
    BY <1>2 DEF Fetch, DeliveryTypeOK
  <2> QED
    BY <1>2, <2>1, <2>2 DEF ManifestsNewer, Fetch
<1> QED
  BY <1>1, <1>2 DEF Next, Operate, Ask, GiveUp, vars

\* However commands overlap and whatever is published, limited, stopped or taken
\* back meanwhile, no installation moves to an older release: each of them keeps
\* the promise of a module store, with the time between manifest and module.
THEOREM InstallationsKeepPromise == Spec => StoresPromise
<1> SUFFICES ASSUME NEW i \in Installations PROVE Spec => Store(i)!Spec
  BY DEF StoresPromise
<1> DEFINE Accepted == IF installed[i] = None THEN 0 ELSE ReleaseOf[installed[i]]
<1>1. Init => ManifestsNewer /\ Store(i)!Init
  BY DEF Init, ManifestsNewer, Store!Init
<1>2. DeliveryTypeOK /\ ManifestsNewer /\ [Next]_vars
        => [Store(i)!Next]_<<Accepted, installed[i]>>
  <2> SUFFICES ASSUME DeliveryTypeOK, ManifestsNewer, [Next]_vars, installed'[i] # installed[i]
               PROVE  Store(i)!Next
    OBVIOUS
  <2>1. installed'[i] \in Builds /\ ~Older(i, installed'[i])
    BY StoreStep
  <2>2. Store(i)!Activate(installed'[i])
    BY <2>1, ReleaseAssumption DEF Store!Activate, Older, DeliveryTypeOK
  <2> QED
    BY <2>1, <2>2 DEF Store!Next
<1> QED
  BY <1>1, <1>2, ManifestsNewerNext, DeliveryTypeCorrect, PTL DEF Spec, Store!Spec
=============================================================================
