-------------------------- MODULE MCPvmModuleStore -------------------------
(***************************************************************************)
(* Instances of PvmModuleStore for TLC: releases 1 to 3, and a build of    *)
(* release 3 that the runtime refuses.                                     *)
(***************************************************************************)
EXTENDS PvmModuleStore, TLC

CONSTANTS one, two, three, bad

MCReleaseOf == (one :> 1) @@ (two :> 2) @@ (three :> 3) @@ (bad :> 3)
============================================================================
