---------------------------- MODULE PvmDelivery ----------------------------
(***************************************************************************)
(* Installations of an application, refreshing their modules from the      *)
(* repository of PvmRelease while operators publish and set rollouts.      *)
(* Between the manifest and the module it names, operators go on.  The     *)
(* store of an installation is as PvmInstall says: it moves to a module    *)
(* that is at least as new.                                                *)
(***************************************************************************)
EXTENDS PvmRelease

CONSTANTS
  Installations,
  Bucket  \* the bucket of each installation's identifier, or None

ASSUME BucketAssumption == Bucket \in [Installations -> 0 .. 99 \cup {None}]

VARIABLES
  manifest,   \* the build of the manifest an installation refreshes from
  installed   \* its last known good module

vars == <<releaseVars, manifest, installed>>

Init ==
  /\ ReleaseInit
  /\ manifest = [i \in Installations |-> None]
  /\ installed = [i \in Installations |-> None]

Older(i, b) == installed[i] # None /\ ReleaseOf[b] < ReleaseOf[installed[i]]

\* The service answers 304 for the installed build; an older one is refused.
Ask(i) ==
  /\ manifest[i] = None
  /\ Servable
  /\ LET b == Selected(Bucket[i])
     IN /\ b # installed[i]
        /\ ~Older(i, b)
        /\ manifest' = [manifest EXCEPT ![i] = b]
  /\ UNCHANGED <<releaseVars, installed>>

Fetch(i) ==
  /\ manifest[i] # None
  /\ Fetchable(manifest[i])
  /\ installed' = [installed EXCEPT ![i] = manifest[i]]
  /\ manifest' = [manifest EXCEPT ![i] = None]
  /\ UNCHANGED releaseVars

GiveUp(i) ==
  /\ manifest[i] # None
  /\ manifest' = [manifest EXCEPT ![i] = None]
  /\ UNCHANGED <<releaseVars, installed>>

Operate == ReleaseNext /\ UNCHANGED <<manifest, installed>>

Next == Operate \/ \E i \in Installations : Ask(i) \/ Fetch(i) \/ GiveUp(i)

Spec == Init /\ [][Next]_vars

\* An installation refreshes again and again, and its downloads do not all fail.
FairSpec == Spec /\ \A i \in Installations : WF_vars(Ask(i)) /\ SF_vars(Fetch(i))

-----------------------------------------------------------------------------
\* Every variable has its type; a command that writes has something to write, and
\* a file that is being written has a command that writes it.
DeliveryTypeOK ==
  /\ ReleaseTypeOK
  /\ manifest \in [Installations -> Builds \cup {None}]
  /\ installed \in [Installations -> Builds \cup {None}]

\* Whatever manifest an installation has received, or could be sent, names a
\* module it can fetch, at every step of a publication and after one that was
\* interrupted.
NothingMissing ==
  /\ Readable => \A b \in {Published.current, Published.previous} \ {None} : Fetchable(b)
  /\ \A i \in Installations : manifest[i] # None => Fetchable(manifest[i])

\* The published release never goes back: publishing only raises it, and a
\* rollout or a rollback leaves it alone.
PublishedForward ==
  [][Readable => /\ Readable'
                 /\ ReleaseOf[Published.current] <= ReleaseOf[Published.current]']_vars

\* The envelope of every module an installation runs is kept: it is the current
\* one or in the history (docs/OPERATIONS.md: "preserve the bad module and signed
\* envelope for analysis").
EnvelopesKept ==
  \A i \in Installations :
    installed[i] # None =>
      Readable /\ (installed[i] = Published.current \/ file[History(installed[i])] = Whole)

\* While the rollout of a release only widens, an installation that was offered
\* it is still offered it ("a device does not oscillate").
NoOscillation ==
  [][Servable /\ Servable' =>
       \A i \in Installations :
         Selected(Bucket[i]) = Published.current
           /\ Published.current = Published.current'
           /\ Published.rollout <= Published.rollout'
         => Selected(Bucket[i])' = Published.current]_vars

\* While a stopped release is the current one, nobody is offered it.
StopHolds ==
  Servable /\ Published.current \in stopped =>
    \A i \in Installations : Selected(Bucket[i]) # Published.current

\* After an emergency stop nobody is offered the release any more, until its own
\* rollout is raised (docs/OPERATIONS.md: "sets rollout to zero and stops
\* additional upgrades").
StopStands ==
  Servable => \A i \in Installations : Selected(Bucket[i]) \notin stopped

\* A release that stays published to everybody reaches every installation.
Reaches ==
  \A b \in Builds :
    <>[](Servable /\ Published.current = b /\ Published.rollout = 100)
      => <>(\A i \in Installations : installed[i] = b)
\* Every installation keeps what PvmInstall promises, of the modules on offer.
Store(i) == INSTANCE PvmInstall WITH
              Sound <- Builds, lkg <- installed[i],
              accepted <- IF installed[i] = None THEN 0 ELSE ReleaseOf[installed[i]]

StoresPromise == \A i \in Installations : Store(i)!Spec
============================================================================
