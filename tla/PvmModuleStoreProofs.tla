------------------------ MODULE PvmModuleStoreProofs -----------------------
(***************************************************************************)
(* The module store, for any number of builds, refreshes, restarts and     *)
(* damaged files, on every platform: its types, and that only validated    *)
(* modules become current, also when refreshes overlap; and, when they do  *)
(* not, that the store implements PvmInstall.                              *)
(***************************************************************************)
EXTENDS PvmModuleStore, TLAPS

Fetching   == {"download", "writing", "staged", "valid", "cached", "installed"}
Switching  == {"recording", "recorded"}
Validated  == {"valid", "installed"}

SoundState(s) == s \in State => s.build \in Sound

\* What holds whether refreshes overlap or not: a refresh past its manifest has
\* a target, one past validation has one that was accepted, and every state
\* file, written or about to be, names such a build.
StoreInv ==
  /\ StoreTypeOK
  /\ \A p \in Refreshers : at[p] \in Fetching => target[p] \in Builds
  /\ \A p \in Refreshers : at[p] \in Validated => target[p] \in Sound
  /\ \A p \in Refreshers :
       at[p] \in Switching \cup {"prune"} => entry[p] \in State /\ entry[p].build \in Sound
  /\ SoundState(current)
  /\ SoundState(draft)

-----------------------------------------------------------------------------
\* The parts of a state file.
LEMMA StateParts ==
  ASSUME NEW s \in State
  PROVE  /\ s.build \in Builds
         /\ DOMAIN s.history \in {{1}, {1, 2}}
         /\ s.history[1] = s.build
         /\ \A n \in DOMAIN s.history : s.history[n] \in Builds
  BY DEF State

LEMMA StateMade ==
  ASSUME NEW b \in Builds, NEW h, h \in {<<b>>} \cup {<<b, c>> : c \in Builds \ {b}}
  PROVE  [build |-> b, history |-> h] \in State
<1>1. h \in Seq(Builds)
  <2>1. CASE h = <<b>>
    BY <2>1
  <2>2. ASSUME NEW c \in Builds, h = <<b, c>> PROVE h \in Seq(Builds)
    BY <2>2
  <2> QED
    BY <2>1, <2>2
<1>2. [build |-> b, history |-> h] \in [build : Builds, history : Seq(Builds)]
  BY <1>1
<1> QED
  BY <1>2 DEF State

LEMMA ReadableType == Readable \in State \cup {None}
  BY DEF Readable

\* The state a refresh writes has the form readState asks for: the build it kept
\* is another one.
LEMMA NewStateType ==
  ASSUME StoreTypeOK, NEW p \in Refreshers, target[p] \in Builds
  PROVE  NewState(p) \in State /\ NewState(p).build = target[p]
<1>1. CASE Kept(p) = {}
  BY <1>1, StateMade DEF NewState, History
<1>2. CASE Kept(p) # {}
  <2>1. previous[p] # None /\ previous[p] \in State
    BY <1>2 DEF Kept, StoreTypeOK
  <2>2. /\ Kept(p) \subseteq {1, 2}
        /\ \A n \in Kept(p) : previous[p].history[n] \in Builds \ {target[p]}
    BY <2>1, StateParts DEF Kept
  <2>3. \E n \in Kept(p) : \A m \in Kept(p) : n <= m
    BY <1>2, <2>2
  <2>4. Newest(p) \in Builds \ {target[p]}
    BY <2>2, <2>3 DEF Newest
  <2> QED
    BY <1>2, <2>4, StateMade DEF NewState, History
<1> QED
  BY <1>1, <1>2

-----------------------------------------------------------------------------
(***************************************************************************)
(* The invariant that does not depend on overlap.                          *)
(***************************************************************************)
LEMMA StoreInvInit == StoreInit => StoreInv
  BY ContentAssumption, StoreAssumption
  DEF StoreInit, StoreInv, StoreTypeOK, Content, Places, Fetching, Switching, Validated, SoundState

\* A place of its own is all that a step of a refresh changes in "at".
LEMMA GoToType ==
  ASSUME StoreTypeOK, NEW p \in Refreshers, NEW place \in Places, GoTo(p, place)
  PROVE  /\ at' \in [Refreshers -> Places]
         /\ at'[p] = place
         /\ \A q \in Refreshers \ {p} : at'[q] = at[q]
  BY DEF StoreTypeOK, GoTo

LEMMA BeginInv ==
  ASSUME StoreInv, NEW p \in Refreshers, Begin(p) PROVE StoreInv'
<1>1. "manifest" \in Places /\ GoTo(p, "manifest")
  BY DEF Begin, Places
<1>2. Tag \in Builds \cup {None} /\ Readable \in State \cup {None}
  BY ReadableType, StateParts DEF Tag, LastKnownGood, Usable
<1>3. StoreTypeOK'
  BY <1>1, <1>2, GoToType DEF StoreInv, StoreTypeOK, Begin, hostVars, fileVars
<1> QED
  BY <1>1, <1>3, GoToType
  DEF StoreInv, Begin, hostVars, fileVars, Fetching, Switching, Validated, SoundState

LEMMA AnswersInv ==
  ASSUME StoreInv, NEW p \in Refreshers, ManifestFails(p) \/ ManifestArrives(p) PROVE StoreInv'
<1>1. CASE ManifestFails(p)
  <2>1. "idle" \in Places /\ GoTo(p, "idle")
    BY <1>1 DEF ManifestFails, Places
  <2>2. StoreTypeOK'
    BY <1>1, <2>1, GoToType DEF StoreInv, StoreTypeOK, ManifestFails, hostVars, fileVars
  <2> QED
    BY <1>1, <2>1, <2>2, GoToType
    DEF StoreInv, ManifestFails, hostVars, fileVars, Fetching, Switching, Validated, SoundState
<1>2. CASE ManifestArrives(p)
  <2>1. PICK place \in {"cached", "download"} : GoTo(p, place)
    BY <1>2 DEF ManifestArrives
  <2>2. place \in Places
    BY DEF Places
  <2>3. file' \in [Builds -> Content]
    BY <1>2 DEF ManifestArrives, StoreInv, StoreTypeOK, Content
  <2>4. /\ target' \in [Refreshers -> Builds \cup {None}]
        /\ target'[p] \in Builds
        /\ \A q \in Refreshers \ {p} : target'[q] = target[q]
    BY <1>2 DEF ManifestArrives, StoreInv, StoreTypeOK
  <2>5. StoreTypeOK'
    BY <1>2, <2>1, <2>2, <2>3, <2>4, GoToType DEF StoreInv, StoreTypeOK, ManifestArrives, hostVars
  <2> QED
    BY <1>2, <2>1, <2>2, <2>4, <2>5, GoToType
    DEF StoreInv, ManifestArrives, hostVars, Fetching, Switching, Validated, SoundState
<1> QED
  BY <1>1, <1>2

\* A step that moves a refresh on and changes module files only.
LEMMA FilesInv ==
  ASSUME StoreInv, NEW p \in Refreshers, NEW place \in Places, GoTo(p, place),
         file' \in [Builds -> Content], tmp' \in [Builds -> Content],
         UNCHANGED <<hostVars, current, draft, previous, tag, target, entry>>,
         place \in Fetching => target[p] \in Builds,
         place \in Validated => target[p] \in Sound,
         place \notin Switching \cup {"prune"}
  PROVE  StoreInv'
<1>1. StoreTypeOK'
  BY GoToType DEF StoreInv, StoreTypeOK, hostVars
<1> QED
  BY <1>1, GoToType DEF StoreInv, hostVars, SoundState

LEMMA DiscardType ==
  ASSUME StoreTypeOK, NEW p \in Refreshers, Discard(p)
  PROVE  GoTo(p, "idle") /\ tmp' \in [Builds -> Content]
  BY DEF Discard, StoreTypeOK, Content

LEMMA DownloadInv ==
  ASSUME StoreInv, NEW p \in Refreshers,
         Download(p) \/ Written(p) \/ DownloadFails(p) \/ Validate(p)
  PROVE  StoreInv'
<1> USE DEF Places, Fetching, Validated, Switching
<1>0. StoreTypeOK /\ target[p] \in Builds
  BY DEF StoreInv, Download, Written, DownloadFails, Validate
<1>1. CASE Download(p)
  <2>1. PICK content \in {p, "whole"} : tmp' = [tmp EXCEPT ![target[p]] = content]
    BY <1>1 DEF Download, Place
  <2>2. tmp' \in [Builds -> Content]
    BY <2>1, <1>0 DEF StoreTypeOK, Content
  <2>3. PICK place \in {"writing", "staged"} : GoTo(p, place)
    BY <1>1 DEF Download
  <2> QED
    BY <1>0, <1>1, <2>2, <2>3, FilesInv DEF Download, StoreTypeOK
<1>2. CASE Written(p)
  <2>1. tmp' \in [Builds -> Content] /\ file' \in [Builds -> Content]
    BY <1>0, <1>2 DEF Written, Completed, StoreTypeOK, Content
  <2> QED
    BY <1>0, <1>2, <2>1, FilesInv DEF Written
<1>3. CASE DownloadFails(p)
  <2>1. GoTo(p, "idle") /\ tmp' \in [Builds -> Content]
    BY <1>0, <1>3, DiscardType DEF DownloadFails, StoreTypeOK
  <2> QED
    BY <1>0, <1>3, <2>1, FilesInv DEF DownloadFails, StoreTypeOK
<1>4. CASE Validate(p)
  <2>1. CASE DownloadIsValid(p)
    BY <1>0, <1>4, <2>1, FilesInv DEF Validate, DownloadIsValid, StoreTypeOK
  <2>2. CASE ~DownloadIsValid(p)
    <3>1. GoTo(p, "idle") /\ tmp' \in [Builds -> Content]
      BY <1>0, <1>4, <2>2, DiscardType DEF Validate
    <3> QED
      BY <1>0, <1>4, <3>1, FilesInv DEF Validate, StoreTypeOK
  <2> QED
    BY <2>1, <2>2
<1> QED
  BY <1>1, <1>2, <1>3, <1>4

LEMMA InstallInv ==
  ASSUME StoreInv, NEW p \in Refreshers, Install(p) \/ ValidateCached(p)
  PROVE  StoreInv'
<1> USE DEF Places, Fetching, Validated, Switching
<1>0. StoreTypeOK /\ target[p] \in Builds
  BY DEF StoreInv, Install, ValidateCached
<1>1. CASE Install(p)
  <2>0. target[p] \in Sound
    BY <1>1 DEF StoreInv, Install
  <2>1. CASE Movable(p)
    <3>1. /\ file' = [file EXCEPT ![target[p]] = tmp[target[p]]]
          /\ tmp' = [tmp EXCEPT ![target[p]] = "absent"]
          /\ GoTo(p, "installed")
      BY <1>1, <2>1 DEF Install
    <3>2. tmp' \in [Builds -> Content] /\ file' \in [Builds -> Content]
      BY <1>0, <3>1 DEF StoreTypeOK, Content
    <3> QED
      BY <1>0, <1>1, <2>0, <3>1, <3>2, FilesInv DEF Install
  <2>2. CASE ~Movable(p)
    <3>1. GoTo(p, "idle") /\ tmp' \in [Builds -> Content]
      BY <1>0, <1>1, <2>2, DiscardType DEF Install
    <3> QED
      BY <1>0, <1>1, <2>2, <3>1, FilesInv DEF Install, StoreTypeOK
  <2> QED
    BY <2>1, <2>2
<1>2. CASE ValidateCached(p)
  <2>1. CASE CachedIsValid(p)
    BY <1>0, <1>2, <2>1, FilesInv DEF ValidateCached, CachedIsValid, StoreTypeOK, fileVars
  <2>2. CASE ~CachedIsValid(p)
    BY <1>0, <1>2, <2>2, FilesInv DEF ValidateCached, StoreTypeOK, fileVars
  <2> QED
    BY <2>1, <2>2
<1> QED
  BY <1>1, <1>2

LEMMA RecordInv ==
  ASSUME StoreInv, NEW p \in Refreshers, Record(p) \/ Recorded(p) \/ Switch(p)
  PROVE  StoreInv'
<1> USE DEF Fetching, Validated, Switching
<1>0. StoreTypeOK
  BY DEF StoreInv
<1>1. CASE Record(p)
  <2>1. target[p] \in Builds /\ target[p] \in Sound
    BY <1>1 DEF StoreInv, Record
  <2>2. NewState(p) \in State /\ NewState(p).build \in Sound
    BY <1>0, <2>1, NewStateType
  <2>3. PICK place \in {"recording", "prune", "idle"} : GoTo(p, place)
    BY <1>1 DEF Record
  <2>4. current' \in {current, NewState(p)} /\ draft' \in {draft, p}
    BY <1>1 DEF Record
  <2>5. /\ entry' \in [Refreshers -> State \cup {None}]
        /\ entry'[p] = NewState(p)
        /\ \A q \in Refreshers \ {p} : entry'[q] = entry[q]
    BY <1>0, <1>1, <2>2 DEF Record, StoreTypeOK
  <2>6. place \in Places
    BY DEF Places
  <2>7. StoreTypeOK'
    BY <1>0, <1>1, <2>2, <2>3, <2>4, <2>5, <2>6, GoToType DEF StoreTypeOK, Record, hostVars
  <2>8. SoundState(current)' /\ SoundState(draft)'
    BY <2>2, <2>4, ContentAssumption DEF StoreInv, SoundState
  <2> QED
    BY <1>0, <1>1, <2>2, <2>3, <2>5, <2>6, <2>7, <2>8, GoToType DEF StoreInv, Record
<1>2. CASE Recorded(p)
  <2>1. entry[p] \in State /\ entry[p].build \in Sound
    BY <1>2 DEF StoreInv, Recorded
  <2>2. current' \in {current, entry[p]} /\ draft' \in {draft, entry[p]}
    BY <1>2 DEF Recorded
  <2>3. "recorded" \in Places /\ GoTo(p, "recorded")
    BY <1>2 DEF Recorded, Places
  <2>4. StoreTypeOK'
    BY <1>0, <1>2, <2>1, <2>2, <2>3, GoToType DEF StoreTypeOK, Recorded, hostVars
  <2>5. SoundState(current)' /\ SoundState(draft)'
    BY <2>1, <2>2 DEF StoreInv, SoundState
  <2> QED
    BY <1>0, <1>2, <2>1, <2>3, <2>4, <2>5, GoToType DEF StoreInv, Recorded
<1>3. CASE Switch(p)
  <2>1. entry[p] \in State /\ entry[p].build \in Sound
    BY <1>3 DEF StoreInv, Switch
  <2>2. current' \in {current, draft} /\ draft' \in {draft, None}
    BY <1>3 DEF Switch
  <2>3. PICK place \in {"idle", "prune"} : GoTo(p, place)
    BY <1>3 DEF Switch
  <2>4. place \in Places
    BY DEF Places
  <2>5. StoreTypeOK'
    BY <1>0, <1>3, <2>2, <2>3, <2>4, GoToType DEF StoreTypeOK, Switch, hostVars
  <2>6. SoundState(current)' /\ SoundState(draft)'
    BY <2>2, ContentAssumption DEF StoreInv, SoundState
  <2> QED
    BY <1>0, <1>3, <2>1, <2>3, <2>4, <2>5, <2>6, GoToType DEF StoreInv, Switch
<1> QED
  BY <1>1, <1>2, <1>3

LEMMA PruneInv ==
  ASSUME StoreInv, NEW p \in Refreshers, Prune(p) PROVE StoreInv'
<1> USE DEF Fetching, Validated, Switching
<1>1. file' \in [Builds -> Content]
  BY DEF Prune, StoreInv, StoreTypeOK, Content
<1>2. "idle" \in Places
  BY DEF Places
<1>3. CASE GoTo(p, "idle")
  <2>1. StoreTypeOK'
    BY <1>1, <1>2, <1>3, GoToType DEF StoreInv, StoreTypeOK, Prune, hostVars
  <2> QED
    BY <1>2, <1>3, <2>1, GoToType DEF StoreInv, Prune, SoundState
<1>4. CASE UNCHANGED at
  <2>1. StoreTypeOK'
    BY <1>1, <1>4 DEF StoreInv, StoreTypeOK, Prune, hostVars
  <2> QED
    BY <1>4, <2>1 DEF StoreInv, Prune, SoundState
<1> QED
  BY <1>3, <1>4 DEF Prune

LEMMA RestartInv == StoreInv /\ Restart => StoreInv'
<1> SUFFICES ASSUME StoreInv, Restart PROVE StoreInv'
  OBVIOUS
<1> USE DEF Fetching, Validated, Switching
<1>1. /\ \A c : Left(c, Unreadable) \in {c, Unreadable}
      /\ \A c \in Content : Left(c, "damaged") \in Content
  BY DEF Left, Content
<1>2. /\ current' \in {current, Unreadable} /\ draft' \in {draft, Unreadable}
      /\ file' \in [Builds -> Content] /\ tmp' \in [Builds -> Content]
  BY <1>1 DEF Restart, StoreInv, StoreTypeOK
<1>3. at' \in [Refreshers -> Places] /\ \A p \in Refreshers : at'[p] = "idle"
  BY DEF Restart, Places
<1>4. StoreTypeOK'
  BY <1>2, <1>3, StoreAssumption DEF StoreInv, StoreTypeOK, Restart
<1>5. SoundState(current)' /\ SoundState(draft)'
  BY <1>2, ContentAssumption DEF StoreInv, SoundState
<1> QED
  BY <1>3, <1>4, <1>5 DEF StoreInv

LEMMA SurroundingsInv == StoreInv /\ (Damage \/ Offer) => StoreInv'
<1> SUFFICES ASSUME StoreInv, Damage \/ Offer PROVE StoreInv'
  OBVIOUS
<1>1. CASE Damage
  <2>1. file' \in [Builds -> Content]
    BY <1>1 DEF Damage, StoreInv, StoreTypeOK, Content
  <2> QED
    BY <1>1, <2>1, StoreAssumption DEF Damage, StoreInv, StoreTypeOK, refreshVars, SoundState
<1>2. CASE Offer
  BY <1>2 DEF Offer, StoreInv, StoreTypeOK, refreshVars, fileVars, SoundState
<1> QED
  BY <1>1, <1>2

LEMMA StoreInvNext == StoreInv /\ [Next]_vars => StoreInv'
<1> SUFFICES ASSUME StoreInv, [Next]_vars PROVE StoreInv'
  OBVIOUS
<1>1. ASSUME NEW p \in Refreshers, Begin(p) \/ Proceed(p) \/ Answered(p) \/ Unanswered(p)
      PROVE  StoreInv'
  BY <1>1, BeginInv, AnswersInv, DownloadInv, InstallInv, RecordInv, PruneInv
  DEF Proceed, Answered, Unanswered
<1>2. CASE Restart \/ Damage \/ Offer
  BY <1>2, RestartInv, SurroundingsInv
<1>3. CASE UNCHANGED vars
  BY <1>3 DEF vars, hostVars, fileVars, refreshVars, StoreInv, StoreTypeOK, SoundState
<1> QED
  BY <1>1, <1>2, <1>3 DEF Next

\* Every variable of the store keeps its type, and every state file that a refresh
\* writes has the form that readState asks for.
THEOREM StoreTypeCorrect == Spec => []StoreTypeOK
<1>1. StoreInv => StoreTypeOK
  BY DEF StoreInv
<1> QED
  BY <1>1, StoreInvInit, StoreInvNext, PTL DEF Spec

\* A build the state file names was accepted by the runtime's validation, also
\* when any number of refreshes overlap and the process ends at any point.
THEOREM OnlyValidatedBuilds == Spec => []OnlyValidated
<1>1. StoreInv => OnlyValidated
  BY DEF StoreInv, SoundState, OnlyValidated, Readable
<1> QED
  BY <1>1, StoreInvInit, StoreInvNext, PTL DEF Spec

-----------------------------------------------------------------------------
(***************************************************************************)
(* Refreshes that do not overlap.  The state read at the beginning is then *)
(* still the state when it is replaced, so that the floor computed from it *)
(* is the right one, and what a refresh validated is what it activates.    *)
(***************************************************************************)
Progress(p) ==
  /\ at[p] = "recording" => draft = p
  /\ at[p] = "recorded" => draft = entry[p]
  /\ at[p] \notin {"idle", "prune"} => previous[p] = Readable
  /\ at[p] \in Fetching => Floor(p) <= ReleaseOf[target[p]]
  /\ at[p] = "valid" => tmp[target[p]] = "whole"
  /\ at[p] = "installed" => file[target[p]] = "whole"
  /\ at[p] \in Switching => /\ Floor(p) <= ReleaseOf[entry[p].build]
                            /\ file[entry[p].build] = "whole"
  /\ at[p] = "prune" => current = entry[p]

SerialInv ==
  /\ \A p, q \in Refreshers : at[p] # "idle" /\ at[q] # "idle" => p = q
  /\ current \notin Refreshers
  /\ \A p \in Refreshers : Progress(p)

\* What a step does to the state that a host sees.
SafeStep ==
  /\ Release(Readable) <= Release(Readable)'
  /\ Usable => Usable' \/ damages' # damages \/ minimum' # minimum
  /\ [Promise!Next]_<<Release(Readable), LastKnownGood>>

LEMMA ReleaseType == Release(Readable) \in Nat
  BY ReadableType, StateParts, StoreAssumption DEF Release

\* A step that leaves the state file alone may lose the last known good module
\* or get it back.
LEMMA SameState ==
  ASSUME StoreInv, UNCHANGED current,
         Usable => Usable' \/ damages' # damages \/ minimum' # minimum
  PROVE  SafeStep
<1>1. Readable' = Readable
  BY DEF Readable
<1>2. Release(Readable)' = Release(Readable) /\ Release(Readable) \in Nat
  BY <1>1, ReleaseType DEF Release
<1>3. CASE LastKnownGood' = None
  BY <1>2, <1>3 DEF SafeStep, Promise!Next, Promise!Lose
<1>4. CASE LastKnownGood' # None
  <2>1. Usable' /\ LastKnownGood' = Readable.build /\ Readable \in State
    BY <1>1, <1>4, ReadableType DEF LastKnownGood, Usable
  <2>2. Readable.build \in Sound
    BY <2>1, ContentAssumption DEF StoreInv, SoundState, Readable
  <2>3. Release(Readable) = ReleaseOf[Readable.build]
    BY <2>1, ContentAssumption DEF Release
  <2>4. Promise!Activate(Readable.build)
    BY <1>2, <2>1, <2>3 DEF Promise!Activate
  <2> QED
    BY <1>2, <2>1, <2>2, <2>4 DEF SafeStep, Promise!Next
<1> QED
  BY <1>3, <1>4

\* A step that puts a new state in place activates its build.
LEMMA Activation ==
  ASSUME StoreInv, UNCHANGED minimum, current' \in State, current'.build \in Sound,
         Larger(Release(Readable), minimum) <= ReleaseOf[current'.build],
         file'[current'.build] = "whole"
  PROVE  SafeStep
<1>1. Readable' = current' /\ current' # None
  BY ContentAssumption DEF Readable
<1>2. current'.build \in Builds /\ ReleaseOf[current'.build] \in Nat
  BY StateParts, StoreAssumption
<1>3. minimum \in Nat
  BY StoreAssumption DEF StoreInv, StoreTypeOK
<1>4. Release(Readable) <= ReleaseOf[current'.build] /\ minimum <= ReleaseOf[current'.build]
  BY <1>2, <1>3, ReleaseType DEF Larger
<1>5. Release(Readable)' = ReleaseOf[current'.build]
  BY <1>1 DEF Release
<1>6. Usable' /\ LastKnownGood' = current'.build
  BY <1>1, <1>4, <1>5 DEF Usable, LastKnownGood
<1>7. Promise!Activate(current'.build)
  BY <1>4, <1>5, <1>6 DEF Promise!Activate
<1> QED
  BY <1>4, <1>5, <1>6, <1>7 DEF SafeStep, Promise!Next

LEMMA SerialInvInit == StoreInit => SerialInv
  BY ContentAssumption DEF StoreInit, SerialInv, Progress, Fetching, Switching

\* Only the refresh that takes a step has progress to show for it.
LEMMA SerialStep ==
  ASSUME StoreInv, NEW p \in Refreshers, \A q \in Refreshers \ {p} : at[q] = "idle",
         NEW place \in Places, GoTo(p, place), current' \notin Refreshers, Progress(p)'
  PROVE  SerialInv'
<1>1. \A q \in Refreshers \ {p} : at'[q] = "idle"
  BY GoToType DEF StoreInv
<1>2. \A q \in Refreshers \ {p} : Progress(q)'
  BY <1>1 DEF Progress, Fetching, Switching
<1> QED
  BY <1>1, <1>2 DEF SerialInv

LEMMA OthersIdle ==
  ASSUME SerialInv, NEW p \in Refreshers, at[p] # "idle"
  PROVE  \A q \in Refreshers \ {p} : at[q] = "idle"
  BY DEF SerialInv

LEMMA FloorType ==
  ASSUME StoreInv, NEW p \in Refreshers PROVE Floor(p) \in Nat
  BY StateParts, StoreAssumption DEF StoreInv, StoreTypeOK, Floor, Larger, Release

LEMMA BeginSafe ==
  ASSUME StoreInv, SerialInv, ~Overlap, NEW p \in Refreshers, Begin(p)
  PROVE  SerialInv' /\ SafeStep
<1>1. "manifest" \in Places /\ GoTo(p, "manifest") /\ at'[p] = "manifest"
  BY GoToType DEF Begin, Places, StoreInv
<1>2. \A q \in Refreshers \ {p} : at[q] = "idle"
  BY DEF Begin
<1>3. previous'[p] = Readable /\ Readable' = Readable
  BY DEF Begin, StoreInv, StoreTypeOK, Readable, fileVars
<1>4. Progress(p)'
  BY <1>1, <1>3 DEF Progress, Fetching, Switching
<1>5. SerialInv'
  BY <1>1, <1>2, <1>4, SerialStep DEF Begin, fileVars, SerialInv
<1> QED
  BY <1>5, SameState DEF Begin, fileVars, hostVars, Usable, Readable

LEMMA AnswersSafe ==
  ASSUME StoreInv, SerialInv, NEW p \in Refreshers, ManifestFails(p) \/ ManifestArrives(p)
  PROVE  SerialInv' /\ SafeStep
<1>0. /\ \A q \in Refreshers \ {p} : at[q] = "idle"
      /\ current \notin Refreshers /\ previous[p] = Readable
  BY OthersIdle DEF ManifestFails, ManifestArrives, SerialInv, Progress
<1>1. CASE ManifestFails(p)
  <2>1. "idle" \in Places /\ GoTo(p, "idle") /\ at'[p] = "idle"
    BY <1>1, GoToType DEF ManifestFails, Places, StoreInv
  <2>2. SerialInv'
    BY <1>0, <1>1, <2>1, SerialStep DEF ManifestFails, fileVars, Progress, Fetching, Switching
  <2> QED
    BY <1>1, <2>2, SameState DEF ManifestFails, fileVars, hostVars, Usable, Readable
<1>2. CASE ManifestArrives(p)
  <2>1. PICK place \in {"cached", "download"} : GoTo(p, place)
    BY <1>2 DEF ManifestArrives
  <2>2. place \in Places /\ at'[p] = place
    BY <2>1, GoToType DEF Places, StoreInv
  <2>3. target'[p] = offer /\ Floor(p)' = Floor(p) /\ Readable' = Readable
    BY <1>2 DEF ManifestArrives, StoreInv, StoreTypeOK, Floor, Release, hostVars, Readable
  <2>4. Progress(p)'
    BY <1>0, <1>2, <2>2, <2>3 DEF ManifestArrives, Progress, Fetching, Switching
  <2>5. SerialInv'
    BY <1>0, <1>2, <2>1, <2>2, <2>4, SerialStep DEF ManifestArrives
  <2>6. Usable => Usable'
    <3>1. \A b \in Builds : file[b] = "whole" => file'[b] = "whole"
      BY <1>2 DEF ManifestArrives, StoreInv, StoreTypeOK
    <3> QED
      BY <1>2, <2>3, <3>1, ReadableType, StateParts
      DEF ManifestArrives, Usable, Release, hostVars
  <2> QED
    BY <1>2, <2>5, <2>6, SameState DEF ManifestArrives
<1> QED
  BY <1>1, <1>2

\* A step of the refresh that leaves both state file and host alone, and damages no
\* module.
LEMMA ModuleStep ==
  ASSUME StoreInv, SerialInv, NEW p \in Refreshers, at[p] # "idle",
         NEW place \in Places, GoTo(p, place), UNCHANGED <<current, minimum>>,
         \A b \in Builds : file[b] = "whole" => file'[b] = "whole",
         Progress(p)'
  PROVE  SerialInv' /\ SafeStep
<1>1. SerialInv'
  BY OthersIdle, SerialStep DEF SerialInv
<1>2. Usable => Usable'
  BY ReadableType, StateParts DEF Usable, Release, Readable
<1> QED
  BY <1>1, <1>2, SameState

LEMMA DownloadSafe ==
  ASSUME StoreInv, SerialInv, NEW p \in Refreshers,
         Download(p) \/ Written(p) \/ DownloadFails(p) \/ Validate(p)
  PROVE  SerialInv' /\ SafeStep
<1>0. /\ at[p] # "idle" /\ previous[p] = Readable /\ Floor(p) <= ReleaseOf[target[p]]
      /\ StoreTypeOK /\ target[p] \in Builds
  BY DEF Download, Written, DownloadFails, Validate, SerialInv, Progress, Fetching, StoreInv
<1>1. /\ UNCHANGED <<current, minimum, previous, target>>
      /\ Readable' = Readable /\ Floor(p)' = Floor(p)
  BY DEF Download, Written, DownloadFails, Validate, hostVars, Readable, Floor, Release
<1>2. CASE Download(p)
  <2>1. PICK place \in {"writing", "staged"} : GoTo(p, place)
    BY <1>2 DEF Download
  <2>2. place \in Places /\ at'[p] = place
    BY <1>0, <2>1, GoToType DEF Places
  <2>3. Progress(p)'
    BY <1>0, <1>1, <2>2 DEF Progress, Fetching, Switching
  <2> QED
    BY <1>0, <1>1, <1>2, <2>1, <2>2, <2>3, ModuleStep DEF Download
<1>3. CASE Written(p)
  <2>1. "staged" \in Places /\ GoTo(p, "staged") /\ at'[p] = "staged"
    BY <1>0, <1>3, GoToType DEF Written, Places
  <2>2. \A b \in Builds : file[b] = "whole" => file'[b] = "whole"
    BY <1>3, ContentAssumption DEF Written, Completed
  <2>3. Progress(p)'
    BY <1>0, <1>1, <2>1 DEF Progress, Fetching, Switching
  <2> QED
    BY <1>0, <1>1, <2>1, <2>2, <2>3, ModuleStep
<1>4. CASE DownloadFails(p)
  <2>1. "idle" \in Places /\ GoTo(p, "idle") /\ at'[p] = "idle"
    BY <1>0, <1>4, GoToType DEF DownloadFails, Discard, Places
  <2>2. Progress(p)'
    BY <2>1 DEF Progress, Fetching, Switching
  <2> QED
    BY <1>0, <1>1, <1>4, <2>1, <2>2, ModuleStep DEF DownloadFails
<1>5. CASE Validate(p)
  <2>1. PICK place \in {"valid", "idle"} :
          /\ GoTo(p, place)
          /\ place = "valid" => tmp[target[p]] = "whole" /\ UNCHANGED tmp
    BY <1>5 DEF Validate, DownloadIsValid, Discard
  <2>2. place \in Places /\ at'[p] = place
    BY <1>0, <2>1, GoToType DEF Places
  <2>3. Progress(p)'
    BY <1>0, <1>1, <2>1, <2>2 DEF Progress, Fetching, Switching
  <2> QED
    BY <1>0, <1>1, <1>5, <2>1, <2>2, <2>3, ModuleStep DEF Validate
<1> QED
  BY <1>2, <1>3, <1>4, <1>5

LEMMA InstallSafe ==
  ASSUME StoreInv, SerialInv, NEW p \in Refreshers, Install(p) \/ ValidateCached(p)
  PROVE  SerialInv' /\ SafeStep
<1>0. /\ at[p] # "idle" /\ previous[p] = Readable /\ Floor(p) <= ReleaseOf[target[p]]
      /\ StoreTypeOK /\ target[p] \in Builds
  BY DEF Install, ValidateCached, SerialInv, Progress, Fetching, StoreInv
<1>1. /\ UNCHANGED <<current, minimum, previous, target>>
      /\ Readable' = Readable /\ Floor(p)' = Floor(p)
  BY DEF Install, ValidateCached, hostVars, fileVars, Readable, Floor, Release
<1>2. PICK place \in {"installed", "idle"} :
        /\ GoTo(p, place)
        /\ place = "installed" => file'[target[p]] = "whole"
        /\ \A b \in Builds : file[b] = "whole" => file'[b] = "whole"
  <2>1. CASE Install(p)
    <3>1. tmp[target[p]] = "whole"
      BY <2>1 DEF Install, SerialInv, Progress
    <3> QED
      BY <1>0, <2>1, <3>1 DEF Install, Discard, StoreTypeOK
  <2>2. CASE ValidateCached(p)
    BY <2>2 DEF ValidateCached, CachedIsValid, fileVars
  <2> QED
    BY <2>1, <2>2
<1>3. place \in Places /\ at'[p] = place
  BY <1>0, <1>2, GoToType DEF Places
<1>4. Progress(p)'
  BY <1>0, <1>1, <1>2, <1>3 DEF Progress, Fetching, Switching
<1> QED
  BY <1>0, <1>1, <1>2, <1>3, <1>4, ModuleStep

LEMMA RecordSafe ==
  ASSUME StoreInv, SerialInv, NEW p \in Refreshers, Record(p)
  PROVE  SerialInv' /\ SafeStep
<1>0. /\ at[p] = "installed" /\ previous[p] = Readable /\ Floor(p) <= ReleaseOf[target[p]]
      /\ file[target[p]] = "whole" /\ StoreTypeOK
      /\ target[p] \in Builds /\ target[p] \in Sound /\ current \notin Refreshers
  BY DEF Record, SerialInv, Progress, Fetching, StoreInv, Validated
<1>1. NewState(p) \in State /\ NewState(p).build = target[p]
  BY <1>0, NewStateType
<1>2. UNCHANGED <<minimum, previous, file>> /\ entry'[p] = NewState(p)
  BY <1>0 DEF Record, hostVars, StoreTypeOK
<1>3. \A q \in Refreshers \ {p} : at[q] = "idle"
  BY <1>0, OthersIdle
<1>4. CASE UNCHANGED current /\ draft' = p /\ GoTo(p, "recording")
  <2>1. "recording" \in Places /\ at'[p] = "recording"
    BY <1>0, <1>4, GoToType DEF Places
  <2>2. Readable' = Readable /\ Floor(p)' = Floor(p)
    BY <1>2, <1>4 DEF Readable, Floor, Release
  <2>3. Progress(p)'
    BY <1>0, <1>1, <1>2, <1>4, <2>1, <2>2 DEF Progress, Fetching, Switching
  <2> QED
    BY <1>0, <1>2, <1>4, <2>1, <2>3, ModuleStep
<1>5. CASE current' = NewState(p) /\ \E place \in {"prune", "idle"} : GoTo(p, place)
  <2>1. PICK place \in {"prune", "idle"} : GoTo(p, place)
    BY <1>5
  <2>2. place \in Places /\ at'[p] = place
    BY <1>0, <2>1, GoToType DEF Places
  <2>3. Progress(p)'
    BY <1>2, <1>5, <2>2 DEF Progress, Fetching, Switching
  <2>4. SerialInv'
    BY <1>1, <1>3, <1>5, <2>1, <2>2, <2>3, SerialStep, ContentAssumption
  <2>5. SafeStep
    BY <1>0, <1>1, <1>2, <1>5, Activation DEF Floor
  <2> QED
    BY <2>4, <2>5
<1> QED
  BY <1>4, <1>5 DEF Record

LEMMA RecordedSafe ==
  ASSUME StoreInv, SerialInv, NEW p \in Refreshers, Recorded(p)
  PROVE  SerialInv' /\ SafeStep
<1>0. /\ at[p] = "recording" /\ draft = p /\ previous[p] = Readable /\ StoreTypeOK
      /\ Floor(p) <= ReleaseOf[entry[p].build] /\ file[entry[p].build] = "whole"
      /\ current \notin Refreshers
  BY DEF Recorded, SerialInv, Progress, Switching, StoreInv
<1>1. /\ UNCHANGED <<current, minimum, previous, file, entry>> /\ draft' = entry[p]
      /\ GoTo(p, "recorded")
  BY <1>0 DEF Recorded, hostVars
<1>2. "recorded" \in Places /\ at'[p] = "recorded"
  BY <1>0, <1>1, GoToType DEF Places
<1>3. Readable' = Readable /\ Floor(p)' = Floor(p)
  BY <1>1 DEF Readable, Floor, Release
<1>4. Progress(p)'
  BY <1>0, <1>1, <1>2, <1>3 DEF Progress, Fetching, Switching
<1> QED
  BY <1>0, <1>1, <1>2, <1>4, ModuleStep

LEMMA SwitchSafe ==
  ASSUME StoreInv, SerialInv, NEW p \in Refreshers, Switch(p)
  PROVE  SerialInv' /\ SafeStep
<1>0. /\ at[p] = "recorded" /\ draft = entry[p] /\ previous[p] = Readable /\ StoreTypeOK
      /\ Floor(p) <= ReleaseOf[entry[p].build] /\ file[entry[p].build] = "whole"
      /\ entry[p] \in State /\ entry[p].build \in Sound
  BY DEF Switch, SerialInv, Progress, Switching, StoreInv
<1>1. /\ current' = entry[p] /\ GoTo(p, "prune")
      /\ UNCHANGED <<minimum, file, entry>>
  BY <1>0, ContentAssumption DEF Switch, hostVars
<1>2. "prune" \in Places /\ at'[p] = "prune"
  BY <1>0, <1>1, GoToType DEF Places
<1>3. Progress(p)'
  BY <1>1, <1>2 DEF Progress, Fetching, Switching
<1>4. \A q \in Refreshers \ {p} : at[q] = "idle"
  BY <1>0, OthersIdle
<1>5. SerialInv'
  BY <1>0, <1>1, <1>2, <1>3, <1>4, SerialStep, ContentAssumption
<1>6. SafeStep
  BY <1>0, <1>1, Activation DEF Floor
<1> QED
  BY <1>5, <1>6

\* What is deleted is in no history, and so is not the current build.
LEMMA PruneSafe ==
  ASSUME StoreInv, SerialInv, NEW p \in Refreshers, Prune(p)
  PROVE  SerialInv' /\ SafeStep
<1>0. /\ at[p] = "prune" /\ current = entry[p] /\ entry[p] \in State /\ StoreTypeOK
  BY DEF Prune, SerialInv, Progress, StoreInv
<1>1. UNCHANGED <<current, minimum, entry>>
  BY DEF Prune, hostVars
<1>2. PICK place \in {"idle", "prune"} : GoTo(p, place)
  BY <1>0 DEF Prune, GoTo, StoreTypeOK
<1>3. place \in Places /\ at'[p] = place
  BY <1>0, <1>2, GoToType DEF Places
<1>4. Progress(p)'
  BY <1>0, <1>1, <1>3 DEF Progress, Fetching, Switching
<1>5. SerialInv'
  BY <1>0, <1>1, <1>2, <1>3, <1>4, OthersIdle, SerialStep DEF SerialInv
<1>6. Readable = entry[p] /\ Readable' = Readable
  BY <1>0, <1>1 DEF Readable
<1>7. entry[p].build \in Names(entry[p])
  BY <1>0, StateParts DEF Names
<1>8. file[entry[p].build] = "whole" => file'[entry[p].build] = "whole"
  BY <1>0, <1>7, StateParts DEF Prune, Stale, StoreTypeOK
<1>9. Usable => Usable'
  BY <1>0, <1>1, <1>6, <1>8, ReadableType, ContentAssumption DEF Usable, Release
<1> QED
  BY <1>1, <1>5, <1>9, SameState

LEMMA SurroundingsSafe ==
  ASSUME StoreInv, SerialInv, Restart \/ Damage \/ Offer
  PROVE  SerialInv' /\ SafeStep
<1>0. StoreTypeOK /\ current \notin Refreshers
  BY DEF StoreInv, SerialInv
<1>1. CASE Restart
  <2>1. current' = current /\ \A b \in Builds : file[b] = "whole" => file'[b] = "whole"
    BY <1>0, <1>1, ContentAssumption DEF Restart, Left
  <2>2. \A p \in Refreshers : at'[p] = "idle"
    BY <1>1 DEF Restart
  <2>3. SerialInv'
    BY <1>0, <2>1, <2>2 DEF SerialInv, Progress, Fetching, Switching
  <2>4. Usable => Usable' \/ minimum' # minimum
    BY <2>1, ReadableType, StateParts DEF Usable, Release, Readable
  <2> QED
    BY <2>1, <2>3, <2>4, SameState
<1>2. CASE Damage
  <2>1. damages' # damages /\ UNCHANGED <<current, refreshVars>>
    BY <1>0, <1>2, StoreAssumption DEF Damage, StoreTypeOK
  <2>2. \A p \in Refreshers : at'[p] = "idle"
    BY <1>2 DEF Damage, refreshVars
  <2>3. SerialInv'
    BY <1>0, <2>1, <2>2 DEF SerialInv, Progress, Fetching, Switching
  <2> QED
    BY <2>1, <2>3, SameState
<1>3. CASE Offer
  <2>1. UNCHANGED <<minimum, fileVars, refreshVars>>
    BY <1>3 DEF Offer
  <2>2. SerialInv'
    BY <2>1 DEF SerialInv, Progress, fileVars, refreshVars, Fetching, Switching, Readable,
                Floor, Release
  <2>3. Usable => Usable'
    BY <2>1 DEF Usable, Readable, Release, fileVars
  <2> QED
    BY <2>1, <2>2, <2>3, SameState DEF fileVars
<1> QED
  BY <1>1, <1>2, <1>3

LEMMA StepSafe ==
  ASSUME ~Overlap, StoreInv, SerialInv, [Next]_vars
  PROVE  SerialInv' /\ SafeStep
<1>1. ASSUME NEW p \in Refreshers, Begin(p) \/ Proceed(p) \/ Answered(p) \/ Unanswered(p)
      PROVE  SerialInv' /\ SafeStep
  BY <1>1, BeginSafe, AnswersSafe, DownloadSafe, InstallSafe, RecordSafe, RecordedSafe,
     SwitchSafe, PruneSafe
  DEF Proceed, Answered, Unanswered
<1>2. CASE Restart \/ Damage \/ Offer
  BY <1>2, SurroundingsSafe
<1>3. CASE UNCHANGED vars
  <2>1. SerialInv'
    BY <1>3 DEF vars, hostVars, fileVars, refreshVars, SerialInv, Progress, Fetching,
                Switching, Readable, Floor, Release
  <2>2. Usable => Usable'
    BY <1>3 DEF vars, hostVars, fileVars, Usable, Readable, Release
  <2> QED
    BY <1>3, <2>1, <2>2, SameState DEF vars, fileVars
<1> QED
  BY <1>1, <1>2, <1>3 DEF Next

LEMMA SafeBehaviours ==
  ASSUME ~Overlap PROVE Spec => [](StoreInv /\ SerialInv) /\ [][SafeStep]_vars
<1>1. StoreInv /\ SerialInv /\ [Next]_vars => (StoreInv /\ SerialInv)' /\ SafeStep
  BY StoreInvNext, StepSafe
<1> QED
  BY <1>1, StoreInvInit, SerialInvInit, PTL DEF Spec

\* The release that the state file records never goes back, if a host starts no
\* refresh before the last one is over.
THEOREM NeverDowngraded == ~Overlap => (Spec => NoDowngrade)
<1> SUFFICES ASSUME ~Overlap PROVE Spec => NoDowngrade
  OBVIOUS
<1>0. Spec => [](StoreInv /\ SerialInv) /\ [][SafeStep]_vars
  BY SafeBehaviours
<1>1. SafeStep => Release(Readable) <= Release(Readable)'
  BY DEF SafeStep
<1> QED
  BY <1>0, <1>1, PTL DEF NoDowngrade

\* Whatever fails, and wherever the process ends, such a refresh never takes the
\* last known good module away.
THEOREM LastKnownGoodKept == ~Overlap => (Spec => LkgKept)
<1> SUFFICES ASSUME ~Overlap PROVE Spec => LkgKept
  OBVIOUS
<1>0. Spec => [](StoreInv /\ SerialInv) /\ [][SafeStep]_vars
  BY SafeBehaviours
<1>1. SafeStep => (Usable => Usable' \/ damages' # damages \/ minimum' # minimum)
  BY DEF SafeStep
<1> QED
  BY <1>0, <1>1, PTL DEF LkgKept

\* Refresh by refresh, the store of every platform does what PvmInstall promises.
THEOREM StoreInstalls == ~Overlap => (Spec => InstallSpec)
<1> SUFFICES ASSUME ~Overlap PROVE Spec => InstallSpec
  OBVIOUS
<1>0. Spec => [](StoreInv /\ SerialInv) /\ [][SafeStep]_vars
  BY SafeBehaviours
<1>1. StoreInit => Promise!Init
  BY ContentAssumption DEF StoreInit, Promise!Init, Readable, Release, LastKnownGood, Usable
<1>2. SafeStep => [Promise!Next]_<<Release(Readable), LastKnownGood>>
  BY DEF SafeStep
<1>3. UNCHANGED vars => UNCHANGED <<Release(Readable), LastKnownGood>>
  BY DEF vars, hostVars, fileVars, Readable, Release, LastKnownGood, Usable
<1> QED
  BY <1>0, <1>1, <1>2, <1>3, PTL DEF InstallSpec, Promise!Spec, Spec

-----------------------------------------------------------------------------
(***************************************************************************)
(* What a refresh deletes.  Nothing of the history it writes is missing    *)
(* when it writes it, and nothing of that is deleted afterwards, so that   *)
(* what is left when no file is stale is the history.                      *)
(***************************************************************************)
Finishing == {"recording", "recorded", "prune"}

HistoryHeld == \A p \in Refreshers : at[p] \in Finishing => Names(entry[p]) \subseteq Present

\* All a finishing refresh names is there when it starts: the module it has just
\* installed, and one it has looked for.
LEMMA NewNames ==
  ASSUME StoreTypeOK, NEW p \in Refreshers, target[p] \in Builds,
         file[target[p]] = "whole", platform # "harmony"
  PROVE  Names(NewState(p)) \subseteq Present
<1>1. target[p] \in Present
  BY DEF Present
<1>2. CASE Kept(p) = {}
  BY <1>1, <1>2 DEF Names, NewState, History
<1>3. CASE Kept(p) # {}
  <2>1. previous[p] # None /\ previous[p] \in State
    BY <1>3 DEF Kept, StoreTypeOK
  <2>2. /\ Kept(p) \subseteq {1, 2}
        /\ \A n \in Kept(p) : previous[p].history[n] \in Present
    BY <2>1, StateParts DEF Kept, Present
  <2>3. \E n \in Kept(p) : \A m \in Kept(p) : n <= m
    BY <1>3, <2>2
  <2>4. Newest(p) \in Present
    BY <2>2, <2>3 DEF Newest
  <2> QED
    BY <1>1, <1>3, <2>4 DEF Names, NewState, History
<1> QED
  BY <1>2, <1>3

\* A step of a refresh that was not finishing and is not now.
LEMMA NotFinishing ==
  ASSUME StoreInv, NEW p \in Refreshers, \A q \in Refreshers \ {p} : at[q] = "idle",
         NEW place \in Places \ Finishing, GoTo(p, place)
  PROVE  HistoryHeld'
<1> \A q \in Refreshers : at'[q] \notin Finishing
  BY GoToType DEF StoreInv, Finishing
<1> QED
  BY DEF HistoryHeld

\* A step of a refresh that is finishing.
LEMMA FinishingStep ==
  ASSUME StoreInv, NEW p \in Refreshers, \A q \in Refreshers \ {p} : at[q] = "idle",
         at' = at \/ \E place \in Places : GoTo(p, place),
         Names(entry'[p]) \subseteq Present'
  PROVE  HistoryHeld'
<1> \A q \in Refreshers \ {p} : at'[q] = "idle"
  BY GoToType DEF StoreInv
<1> QED
  BY DEF HistoryHeld, Finishing, Names

LEMMA HistoryRecorded ==
  ASSUME StoreInv, SerialInv, HistoryHeld, NEW p \in Refreshers,
         Record(p) \/ Recorded(p) \/ Switch(p) \/ Prune(p)
  PROVE  HistoryHeld'
<1>0. /\ StoreTypeOK
      /\ \A q \in Refreshers \ {p} : at[q] = "idle"
  BY OthersIdle DEF StoreInv, Record, Recorded, Switch, Prune
<1>1. CASE Record(p)
  <2>1. target[p] \in Builds /\ file[target[p]] = "whole"
    BY <1>1 DEF Record, StoreInv, SerialInv, Progress, Fetching
  <2>2. CASE platform = "harmony"
    <3>1. GoTo(p, "idle") /\ "idle" \in Places \ Finishing
      BY <1>1, <2>2 DEF Record, Streams, Places, Finishing
    <3> QED
      BY <1>0, <3>1, NotFinishing
  <2>3. CASE platform # "harmony"
    <3>1. PICK place \in {"recording", "prune", "idle"} : GoTo(p, place)
      BY <1>1 DEF Record
    <3>2. place \in Places
      BY DEF Places
    <3>3. entry'[p] = NewState(p) /\ Present' = Present
      BY <1>0, <1>1 DEF Record, StoreTypeOK, Present
    <3>4. Names(entry'[p]) \subseteq Present'
      BY <1>0, <2>1, <2>3, <3>3, NewNames
    <3> QED
      BY <1>0, <3>1, <3>2, <3>4, FinishingStep
  <2> QED
    BY <2>2, <2>3
<1>2. CASE Recorded(p) \/ Switch(p)
  <2>1. PICK place \in {"recorded", "prune", "idle"} : GoTo(p, place)
    BY <1>2 DEF Recorded, Switch
  <2>2. place \in Places
    BY DEF Places
  <2>3. at[p] \in Finishing /\ entry'[p] = entry[p] /\ Present' = Present
    BY <1>2 DEF Recorded, Switch, Finishing, Present
  <2>4. Names(entry'[p]) \subseteq Present'
    BY <2>3 DEF HistoryHeld
  <2> QED
    BY <1>0, <2>1, <2>2, <2>4, FinishingStep
<1>3. CASE Prune(p)
  <2>1. at[p] \in Finishing /\ entry'[p] = entry[p]
    BY <1>3 DEF Prune, Finishing
  <2>2. Names(entry[p]) \subseteq Present
    BY <2>1 DEF HistoryHeld
  <2>3. Names(entry[p]) \subseteq Present'
    <3>1. CASE UNCHANGED file
      BY <2>2, <3>1 DEF Present
    <3>2. ASSUME NEW b \in Stale(p), file' = [file EXCEPT ![b] = "absent"]
          PROVE  Names(entry[p]) \subseteq Present'
      BY <1>0, <2>2, <3>2 DEF Present, Stale, StoreTypeOK
    <3> QED
      BY <1>3, <3>1, <3>2 DEF Prune
  <2>4. at' = at \/ \E place \in Places : GoTo(p, place)
    BY <1>3 DEF Prune, Places
  <2> QED
    BY <1>0, <2>1, <2>3, <2>4, FinishingStep
<1> QED
  BY <1>1, <1>2, <1>3

LEMMA HistoryFetched ==
  ASSUME ~Overlap, StoreInv, SerialInv, NEW p \in Refreshers,
         \/ Begin(p) \/ Answered(p) \/ Unanswered(p)
         \/ Written(p) \/ Validate(p) \/ Install(p) \/ ValidateCached(p)
  PROVE  HistoryHeld'
<1>1. \A q \in Refreshers \ {p} : at[q] = "idle"
  <2>1. CASE Begin(p)
    BY <2>1 DEF Begin
  <2>2. CASE at[p] # "idle"
    BY <2>2, OthersIdle
  <2> QED
    BY <2>1, <2>2 DEF Answered, Unanswered, ManifestArrives, Download, ManifestFails,
       DownloadFails, Written, Validate, Install, ValidateCached
<1>2. \E place \in {"idle", "manifest", "download", "writing", "staged", "valid", "cached",
                    "installed"} : GoTo(p, place)
  BY DEF Begin, Answered, Unanswered, ManifestArrives, Download, ManifestFails, DownloadFails,
         Written, Validate, Install, ValidateCached, Discard
<1> QED
  BY <1>1, <1>2, NotFinishing DEF Places, Finishing

LEMMA HistoryNext ==
  ASSUME ~Overlap, StoreInv, SerialInv, HistoryHeld, [Next]_vars PROVE HistoryHeld'
<1>1. ASSUME NEW p \in Refreshers, Begin(p) \/ Proceed(p) \/ Answered(p) \/ Unanswered(p)
      PROVE  HistoryHeld'
  BY <1>1, HistoryRecorded, HistoryFetched DEF Proceed
<1>2. CASE Restart \/ Damage
  BY <1>2 DEF Restart, Damage, refreshVars, HistoryHeld, Finishing
<1>3. CASE Offer \/ UNCHANGED vars
  BY <1>3 DEF Offer, vars, fileVars, refreshVars, HistoryHeld, Present
<1> QED
  BY <1>1, <1>2, <1>3 DEF Next

\* A refresh whose deletions come to an end has left the modules of its history,
\* all of them and no others.
THEOREM StoreKeptTidy == ~Overlap => (Spec => Tidy)
<1> SUFFICES ASSUME ~Overlap PROVE Spec => Tidy
  OBVIOUS
<1> DEFINE TidyStep ==
      \A p \in Refreshers :
        at[p] = "prune" /\ at'[p] = "idle" /\ restarts' = restarts =>
          Present = Names(Readable)
<1>1. Spec => [](StoreInv /\ SerialInv)
  BY SafeBehaviours, PTL
<1>2. StoreInit => HistoryHeld
  BY DEF StoreInit, HistoryHeld, Finishing
<1>3. StoreInv /\ SerialInv /\ HistoryHeld /\ [Next]_vars => TidyStep
  <2> SUFFICES ASSUME StoreInv, SerialInv, HistoryHeld, [Next]_vars,
                      NEW p \in Refreshers,
                      at[p] = "prune", at'[p] = "idle", restarts' = restarts
               PROVE  Present = Names(Readable)
    OBVIOUS
  <2>1. StoreTypeOK /\ current = entry[p] /\ entry[p] \in State
    BY DEF StoreInv, SerialInv, Progress
  <2>2. \A q \in Refreshers \ {p} : at[q] = "idle"
    BY OthersIdle
  <2>3. ~Restart
    BY <2>1, StoreAssumption DEF Restart, StoreTypeOK
  <2>4. Prune(p)
    <3>1. ~UNCHANGED at
      BY DEF Fetching
    <3>2. ~(Damage \/ Offer \/ UNCHANGED vars)
      BY <3>1 DEF Damage, Offer, refreshVars, vars
    <3>3. PICK q \in Refreshers : Begin(q) \/ Proceed(q) \/ Answered(q) \/ Unanswered(q)
      BY <2>3, <3>2 DEF Next
    <3>4. q = p
      <4>1. CASE Begin(q)
        BY <4>1 DEF Begin
      <4>2. CASE at[q] # "idle"
        BY <2>2, <4>2
      <4> QED
        BY <3>3, <4>1, <4>2 DEF Proceed, Answered, Unanswered, ManifestArrives, Download,
           ManifestFails, DownloadFails, Written, Validate, Install, ValidateCached, Record,
           Recorded, Switch, Prune
    <3> QED
      BY <3>3, <3>4 DEF Begin, Proceed, Answered, Unanswered, ManifestArrives, Download,
         ManifestFails, DownloadFails, Written, Validate, Install, ValidateCached, Record,
         Recorded, Switch
  <2>5. Stale(p) = {}
    BY <2>4 DEF Prune
  <2>6. Names(entry[p]) \subseteq Present
    BY DEF HistoryHeld, Finishing
  <2> QED
    BY <2>1, <2>5, <2>6 DEF Stale, Readable
<1>4. StoreInv /\ SerialInv /\ HistoryHeld /\ [Next]_vars => HistoryHeld'
  BY HistoryNext
<1> QED
  BY <1>1, <1>2, <1>3, <1>4, PTL DEF Spec, Tidy

=============================================================================
