--------------------------- MODULE PvmModuleStore --------------------------
(***************************************************************************)
(* The module store of one installation: PvmModuleStore.kt (Android),      *)
(* PVMModuleStore.swift (iOS), PvmModuleStore.ets (Harmony) and            *)
(* client/tools/provision.py (desktop).  One algorithm, four variants:     *)
(* they differ in where other refreshes of the same store may come in      *)
(* between, in whether a temporary file is seen half written, in what a    *)
(* rename does to an existing file, and in whether old modules are deleted.*)
(*                                                                         *)
(* A refresh reads the state file, asks the service for the manifest,      *)
(* downloads the module it names, validates it, moves it to its place,     *)
(* rewrites the state file and deletes what the history does not name.     *)
(* Every file operation is a step of its own: the process may end between  *)
(* any two, and so may another refresh come in, where the platform lets it.*)
(*                                                                         *)
(* A manifest and a module are told apart by the SHA-256 of the module     *)
(* ("build"); the ETag of a manifest is a function of it.                  *)
(***************************************************************************)
EXTENDS Integers, Sequences, FiniteSets

CONSTANTS
  Builds,      \* the modules the service may offer
  ReleaseOf,   \* the release each was built as
  Sound,       \* the builds the runtime's validation accepts
  Platforms,   \* the platforms of the instance
  Refreshers,  \* callers of refresh
  Overlap,     \* whether a refresh may start while another is in progress
  Minimums,    \* values of minimumRelease over the versions of the host app
  None, Unreadable,
  MaxDamages,  \* bound: files that go bad
  MaxRestarts  \* bound: ends of the process

ASSUME StoreAssumption ==
  /\ ReleaseOf \in [Builds -> Nat \ {0}]
  /\ Sound \subseteq Builds
  /\ Platforms \subseteq {"android", "ios", "harmony", "desktop"}
  /\ Overlap \in BOOLEAN
  /\ Minimums \subseteq Nat
  /\ None \notin Builds
  /\ MaxDamages \in Nat
  /\ MaxRestarts \in Nat

VARIABLES
  platform,  \* which of the four stores this is
  minimum,   \* minimumRelease of the host application
  offer,     \* the build the service selects for this installation
  current,   \* current.json
  draft,     \* current.tmp
  file,      \* modules/<sha256>.pvm
  tmp,       \* modules/<sha256>.tmp
  at,        \* where each refresh is
  previous,  \* the state each refresh read first
  tag,       \* the ETag it sent, as the build it stands for
  target,    \* the build of the manifest it received
  entry,     \* the state it is writing
  damages, restarts

fileVars    == <<current, draft, file, tmp>>
refreshVars == <<at, previous, tag, target, entry>>
hostVars    == <<platform, minimum, offer, damages, restarts>>
vars        == <<hostVars, fileVars, refreshVars>>

\* The form readState asks for: the current build first, and at most one other.
State == {s \in [build : Builds, history : Seq(Builds)] :
            /\ s.history \in {<<s.build>>} \cup {<<s.build, b>> : b \in Builds \ {s.build}}}

\* Contents of files are told apart.
ASSUME ContentAssumption ==
  /\ \A c \in {None, Unreadable} \cup Refreshers : c \notin State
  /\ \A p \in Refreshers : p \notin {None, "absent", "whole", "damaged"}

Actor   == platform \in {"ios", "harmony"}      \* others run only at awaits
Streams == platform \in {"android", "desktop"}  \* files are written in place

Places == {"idle", "manifest", "download", "writing", "staged", "valid", "cached",
           "installed", "recording", "recorded", "prune"}

\* Where a refresh awaits the network, or on iOS the validator.
Awaits == {"idle", "manifest", "download"} \cup
          IF platform = "ios" THEN {"staged", "cached"} ELSE {}

MayRun(p) == ~Actor \/ \A q \in Refreshers \ {p} : at[q] \in Awaits

StoreInit ==
  /\ platform \in Platforms
  /\ minimum \in Minimums
  /\ offer \in Builds
  /\ current = None
  /\ draft = None
  /\ file = [b \in Builds |-> "absent"]
  /\ tmp = [b \in Builds |-> "absent"]
  /\ at = [p \in Refreshers |-> "idle"]
  /\ previous = [p \in Refreshers |-> None]
  /\ tag = [p \in Refreshers |-> None]
  /\ target = [p \in Refreshers |-> None]
  /\ entry = [p \in Refreshers |-> None]
  /\ damages = 0
  /\ restarts = 0

(***************************************************************************)
(* What the store knows: readState and lastKnownGood.                      *)
(***************************************************************************)
Readable == IF current \in State THEN current ELSE None

Release(s) == IF s = None THEN 0 ELSE ReleaseOf[s.build]

Usable ==
  /\ Readable # None
  /\ minimum <= Release(Readable)
  /\ file[Readable.build] = "whole"

LastKnownGood == IF Usable THEN Readable.build ELSE None

(***************************************************************************)
(* The manifest.  The ETag is sent only when there is a module to fall     *)
(* back on, so that "not modified" always finds one.                       *)
(***************************************************************************)
GoTo(p, place) == at' = [at EXCEPT ![p] = place]

TagOfState == IF Readable = None THEN None ELSE Readable.build  \* mutant: cached or not
Tag == LastKnownGood

Begin(p) ==
  /\ at[p] = "idle"
  /\ Overlap \/ \A q \in Refreshers : at[q] = "idle"
  /\ MayRun(p)
  /\ GoTo(p, "manifest")
  /\ previous' = [previous EXCEPT ![p] = Readable]
  /\ tag' = [tag EXCEPT ![p] = Tag]
  /\ UNCHANGED <<hostVars, fileVars, target, entry>>

\* No answer, an answer that is refused, or 304: the refresh falls back on the
\* last known good module.
ManifestFails(p) ==
  /\ at[p] = "manifest"
  /\ MayRun(p)
  /\ GoTo(p, "idle")
  /\ UNCHANGED <<hostVars, fileVars, previous, tag, target, entry>>

Larger(m, n) == IF m < n THEN n ELSE m

MinimumOnly(p) == minimum  \* mutant: the installed release is no floor
Floor(p) == Larger(Release(previous[p]), minimum)

\* A signed manifest of another build: unless it is too old, whatever already
\* is at its place is used if intact and removed if not.
ManifestArrives(p) ==
  /\ at[p] = "manifest"
  /\ MayRun(p)
  /\ offer # tag[p]
  /\ Floor(p) <= ReleaseOf[offer]
  /\ target' = [target EXCEPT ![p] = offer]
  /\ IF file[offer] = "whole"
     THEN GoTo(p, "cached") /\ UNCHANGED file
     ELSE GoTo(p, "download") /\ file' = [file EXCEPT ![offer] = "absent"]
  /\ UNCHANGED <<hostVars, current, draft, tmp, previous, tag, entry>>

(***************************************************************************)
(* The module.  A file in the course of being written holds its writer; it *)
(* may be renamed meanwhile, and is written on under its new name.         *)
(***************************************************************************)
Place(content) == tmp' = [tmp EXCEPT ![content[1]] = content[2]]

Download(p) ==
  /\ at[p] = "download"
  /\ MayRun(p)
  /\ IF Streams
     THEN Place(<<target[p], p>>) /\ GoTo(p, "writing")
     ELSE Place(<<target[p], "whole">>) /\ GoTo(p, "staged")
  /\ UNCHANGED <<hostVars, current, draft, file, previous, tag, target, entry>>

Completed(files, p, content) ==
  [b \in Builds |-> IF files[b] = p THEN content ELSE files[b]]

Written(p) ==
  /\ at[p] = "writing"
  /\ tmp' = Completed(tmp, p, "whole")
  /\ file' = Completed(file, p, "whole")
  /\ GoTo(p, "staged")
  /\ UNCHANGED <<hostVars, current, draft, previous, tag, target, entry>>

\* Whatever fails from here on removes the temporary file, under its name.
Discard(p) ==
  /\ GoTo(p, "idle")
  /\ tmp' = [tmp EXCEPT ![target[p]] = "absent"]

DownloadFails(p) ==
  /\ at[p] \in {"download", "writing"}
  /\ MayRun(p)
  /\ IF at[p] = "writing" \/ platform = "android"
     THEN Discard(p)
     ELSE GoTo(p, "idle") /\ UNCHANGED tmp
  /\ UNCHANGED <<hostVars, current, draft, file, previous, tag, target, entry>>

DownloadUnchecked(p) == tmp[target[p]] = "whole"  \* mutant: validation is skipped
DownloadIsValid(p) == tmp[target[p]] = "whole" /\ target[p] \in Sound

Validate(p) ==
  /\ at[p] = "staged"
  /\ MayRun(p)
  /\ IF DownloadIsValid(p)
     THEN GoTo(p, "valid") /\ UNCHANGED tmp
     ELSE Discard(p)
  /\ UNCHANGED <<hostVars, current, draft, file, previous, tag, target, entry>>

\* A rename replaces the file that is there, moveItem of iOS refuses to.
Movable(p) ==
  /\ tmp[target[p]] # "absent"
  /\ platform = "ios" => file[target[p]] = "absent"

Install(p) ==
  /\ at[p] = "valid"
  /\ IF Movable(p)
     THEN /\ file' = [file EXCEPT ![target[p]] = tmp[target[p]]]
          /\ tmp' = [tmp EXCEPT ![target[p]] = "absent"]
          /\ GoTo(p, "installed")
     ELSE Discard(p) /\ UNCHANGED file
  /\ UNCHANGED <<hostVars, current, draft, previous, tag, target, entry>>

CachedIsValid(p) == file[target[p]] = "whole" /\ target[p] \in Sound

ValidateCached(p) ==
  /\ at[p] = "cached"
  /\ MayRun(p)
  /\ GoTo(p, IF CachedIsValid(p) THEN "installed" ELSE "idle")
  /\ UNCHANGED <<hostVars, fileVars, previous, tag, target, entry>>

(***************************************************************************)
(* The state file: the new build, then the newest other one of the state   *)
(* that was read at the beginning.  Harmony does not ask whether its file  *)
(* still exists.                                                           *)
(***************************************************************************)
\* The builds of the state read at the beginning that may be kept, by their
\* places in its history.
Kept(p) ==
  IF previous[p] = None
  THEN {}
  ELSE {n \in DOMAIN previous[p].history :
          /\ previous[p].history[n] # target[p]
          /\ IF platform = "harmony" THEN n = 1 ELSE file[previous[p].history[n]] # "absent"}

Newest(p) == previous[p].history[CHOOSE n \in Kept(p) : \A m \in Kept(p) : n <= m]

WholeHistory(p) ==                             \* mutant: never shortened
  <<target[p]>> \o IF previous[p] = None THEN <<>> ELSE previous[p].history
LostHistory(p) ==                              \* mutant: files are not looked for
  IF previous[p] = None \/ target[p] = previous[p].build
  THEN <<target[p]>> ELSE <<target[p], previous[p].build>>
History(p) == IF Kept(p) = {} THEN <<target[p]>> ELSE <<target[p], Newest(p)>>

NewState(p) == [build |-> target[p], history |-> History(p)]

Record(p) ==
  /\ at[p] = "installed"
  /\ entry' = [entry EXCEPT ![p] = NewState(p)]
  /\ CASE Streams -> draft' = p /\ GoTo(p, "recording") /\ UNCHANGED current
       [] platform = "ios" -> current' = NewState(p) /\ GoTo(p, "prune") /\ UNCHANGED draft
       [] OTHER -> current' = NewState(p) /\ GoTo(p, "idle") /\ UNCHANGED draft
  /\ UNCHANGED <<hostVars, file, tmp, previous, tag, target>>

Recorded(p) ==
  /\ at[p] = "recording"
  /\ draft' = IF draft = p THEN entry[p] ELSE draft
  /\ current' = IF current = p THEN entry[p] ELSE current
  /\ GoTo(p, "recorded")
  /\ UNCHANGED <<hostVars, file, tmp, previous, tag, target, entry>>

Switch(p) ==
  /\ at[p] = "recorded"
  /\ IF draft = None
     THEN GoTo(p, "idle") /\ UNCHANGED <<current, draft>>
     ELSE current' = draft /\ draft' = None /\ GoTo(p, "prune")
  /\ UNCHANGED <<hostVars, file, tmp, previous, tag, target, entry>>

Names(s) == {s.history[n] : n \in DOMAIN s.history}
Present == {b \in Builds : file[b] # "absent"}

StaleBefore(p) ==  \* mutant: by the state that was read
  IF previous[p] = None THEN {} ELSE Present \ Names(previous[p])
Stale(p) == Present \ Names(entry[p])

Prune(p) ==
  /\ at[p] = "prune"
  /\ \/ /\ Stale(p) = {}
        /\ GoTo(p, "idle")
        /\ UNCHANGED file
     \/ /\ \E b \in Stale(p) : file' = [file EXCEPT ![b] = "absent"]
        /\ UNCHANGED at
  /\ UNCHANGED <<hostVars, current, draft, tmp, previous, tag, target, entry>>

(***************************************************************************)
(* The surroundings: the process ends at any point and a newer host app    *)
(* may ask for more; a stored module goes bad while no refresh runs; the   *)
(* service selects another build.                                          *)
(***************************************************************************)
\* A file whose writer is gone keeps what was written.
Left(content, bad) == IF content \in Refreshers THEN bad ELSE content

Restart ==
  /\ restarts < MaxRestarts
  /\ restarts' = restarts + 1
  /\ minimum' \in {m \in Minimums : minimum <= m}
  /\ at' = [p \in Refreshers |-> "idle"]
  /\ current' = Left(current, Unreadable)
  /\ draft' = Left(draft, Unreadable)
  /\ file' = [b \in Builds |-> Left(file[b], "damaged")]
  /\ tmp' = [b \in Builds |-> Left(tmp[b], "damaged")]
  /\ UNCHANGED <<platform, offer, damages, previous, tag, target, entry>>

Damage ==
  /\ damages < MaxDamages
  /\ damages' = damages + 1
  /\ \A p \in Refreshers : at[p] = "idle"
  /\ \E b \in Builds : file[b] = "whole" /\ file' = [file EXCEPT ![b] = "damaged"]
  /\ UNCHANGED <<platform, minimum, offer, restarts, current, draft, tmp, refreshVars>>

Offer ==
  /\ offer' \in Builds \ {offer}
  /\ UNCHANGED <<platform, minimum, damages, restarts, fileVars, refreshVars>>

-----------------------------------------------------------------------------
Proceed(p) == Written(p) \/ Validate(p) \/ Install(p) \/ ValidateCached(p) \/ Record(p)
                \/ Recorded(p) \/ Switch(p) \/ Prune(p)

Answered(p) == ManifestArrives(p) \/ Download(p)

Unanswered(p) == ManifestFails(p) \/ DownloadFails(p)

Next ==
  \/ \E p \in Refreshers : Begin(p) \/ Proceed(p) \/ Answered(p) \/ Unanswered(p)
  \/ Restart \/ Damage \/ Offer

Spec == StoreInit /\ [][Next]_vars

(***************************************************************************)
(* A host refreshes again (docs/OPERATIONS.md, "bounded retry with         *)
(* jitter"), a refresh runs on when it waits for nothing, and neither the  *)
(* manifest nor the module is out of reach for ever: one that is asked for *)
(* again and again arrives, complete, in the end.                          *)
(***************************************************************************)
FairSpec ==
  /\ Spec
  /\ \A p \in Refreshers :
       /\ WF_vars(Begin(p))
       /\ WF_vars(Proceed(p))
       /\ WF_vars(Unanswered(p))
       /\ SF_vars(ManifestArrives(p))
       /\ SF_vars(Download(p))
       /\ SF_vars(Written(p))

-----------------------------------------------------------------------------
Content == {"absent", "whole", "damaged"} \cup Refreshers

\* Every variable has its type; what is written to the state file is always of
\* the form that readState asks for.
StoreTypeOK ==
  /\ platform \in Platforms
  /\ minimum \in Minimums
  /\ offer \in Builds
  /\ current \in State \cup Refreshers \cup {None, Unreadable}
  /\ draft \in State \cup Refreshers \cup {None, Unreadable}
  /\ file \in [Builds -> Content]
  /\ tmp \in [Builds -> Content]
  /\ at \in [Refreshers -> Places]
  /\ previous \in [Refreshers -> State \cup {None}]
  /\ tag \in [Refreshers -> Builds \cup {None}]
  /\ target \in [Refreshers -> Builds \cup {None}]
  /\ entry \in [Refreshers -> State \cup {None}]
  /\ damages \in 0 .. MaxDamages
  /\ restarts \in 0 .. MaxRestarts

\* A refresh, failed, interrupted or complete, never takes the last known good
\* module away: only a damaged file or a new minimum does
\* (PvmModuleStore.kt, "a refresh failure never removes or replaces it").
LkgKept ==
  [][Usable => \/ Usable'
               \/ damages' # damages
               \/ minimum' # minimum]_vars

\* The release the state file records never goes back, through refreshes that
\* fail, repeat or meet an older offer, and through restarts.
NoDowngrade == [][Release(Readable) <= Release(Readable)']_vars

\* Only a module that the runtime's validation accepted is ever activated.
OnlyValidated == Readable # None => Readable.build \in Sound

\* A refresh that deletes old modules leaves those of its history, all of them.
Tidy ==
  [][\A p \in Refreshers :
       at[p] = "prune" /\ at'[p] = "idle" /\ restarts' = restarts =>
         Present = Names(Readable)]_vars

\* The store keeps what a store promises.
Promise == INSTANCE PvmInstall WITH
             accepted <- Release(Readable), lkg <- LastKnownGood

InstallSpec == Promise!Spec

\* A module that the service goes on offering, and that is new enough, is
\* installed in the end, whatever happened to the files before.
Recovers ==
  \A b \in Sound :
    <>[](offer = b /\ Release(Readable) <= ReleaseOf[b] /\ minimum <= ReleaseOf[b])
      => []<>(LastKnownGood = b)

=============================================================================
