----------------------------- MODULE PvmInstall ----------------------------
(***************************************************************************)
(* What a module store promises the host application: the last known good  *)
(* module is validated, and moves only to releases at least as new as any  *)
(* that was ever accepted (docs/SECURITY_MODEL.md, "Anti-rollback").  It   *)
(* may be lost, to a damaged file or to a host that asks for more, but not *)
(* the memory of what was accepted.                                        *)
(***************************************************************************)
EXTENDS Integers

CONSTANTS
  Builds,     \* modules, told apart by their SHA-256
  ReleaseOf,  \* the release each was built as
  Sound,      \* those the runtime accepts
  None

VARIABLES
  accepted,   \* the newest release accepted so far, 0 before the first
  lkg         \* the last known good module, or None

Init == accepted = 0 /\ lkg = None

Activate(b) ==
  /\ accepted <= ReleaseOf[b]
  /\ accepted' = ReleaseOf[b]
  /\ lkg' = b

Lose == lkg' = None /\ UNCHANGED accepted

Next == Lose \/ \E b \in Sound : Activate(b)

Spec == Init /\ [][Next]_<<accepted, lkg>>
============================================================================
