---------------------------- MODULE MCPvmSession ---------------------------
(***************************************************************************)
(* An instance of PvmSession for TLC: releases of which each differs from  *)
(* the others in what state migration distinguishes.                       *)
(***************************************************************************)
EXTENDS PvmSession

MCMinInteger == -1
MCStringSize == [s \in Strings |-> CASE s = "a" -> 1 [] s = "bbbb" -> 4 [] OTHER -> 12]

Release(format, schema, ids, initial) ==
  [format |-> format, schema |-> schema, ids |-> ids, initial |-> initial,
   limits |-> [maxInstructions |-> 9, maxStack |-> 9, maxStateBytes |-> 10, maxTasks |-> 1]]

\* 7 is the status and 8 the count; slots are in the order of their names.
StatusOnly == Release(5, 1, <<7>>, <<String("a")>>)
WithCount  == Release(5, 2, <<8, 7>>, <<Integer(0), String("a")>>)
CountOnly  == Release(5, 3, <<8>>, <<Integer(0)>>)
Old        == Release(3, 1, <<>>, <<String("a")>>)

Upgrades    == {StatusOnly, WithCount, Old}
TwoReleases == {StatusOnly, WithCount}
Unrelated   == {StatusOnly, CountOnly}

MCWritten == {Integer(1), String("bbbb")}
============================================================================
