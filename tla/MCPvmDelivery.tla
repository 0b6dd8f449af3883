--------------------------- MODULE MCPvmDelivery ---------------------------
(***************************************************************************)
(* Instances of PvmDelivery for TLC: releases 1 to 3, and a second build   *)
(* of release 2; installations on both sides of a rollout of 10 percent,   *)
(* and one that sends no identifier.                                       *)
(***************************************************************************)
EXTENDS PvmDelivery

CONSTANTS one, two, again, three, i1, i2, i3

MCReleaseOf == [b \in Builds |-> CASE b = one -> 1 [] b \in {two, again} -> 2 [] b = three -> 3]
MCBucket == [i \in Installations |-> CASE i = i1 -> 0 [] i = i2 -> 10 [] OTHER -> None]
============================================================================
