------------------------------ MODULE PvmState -----------------------------
(***************************************************************************)
(* Snapshots of the state table, and what a module makes of a snapshot it  *)
(* or another release wrote.  From format 4 on every slot has an id that   *)
(* survives renaming and reordering, and a snapshot (version 2) is read by *)
(* id; before, it is read by position (version 1).                         *)
(*                                                                         *)
(* A snapshot is what its bytes decode to.  Its size in bytes is kept,     *)
(* since three budgets count the same table in three ways.                 *)
(***************************************************************************)
EXTENDS PvmBytecode

\* A value that is no snapshot of any version: an empty or damaged file.
CONSTANT Damaged

\* The longest string whose length fits a snapshot (65535).
CONSTANT MaxText

\* What persistence needs of a loaded module; its ids are <<>> before format 4.
StateModule ==
  [format : Nat, schema : Nat, ids : Seq(Nat \ {0}), initial : Seq(Value), limits : Limits]

ASSUME DamagedAssumption ==
  Damaged \notin [version : {1, 2}, schema : Nat, ids : Seq(Nat \ {0}), values : Seq(Value)]

\* What parse_payload asks of the tables of states.
StatesDecode(m) ==
  /\ Len(m.ids) = IF m.format >= 4 THEN Len(m.initial) ELSE 0
  /\ IsInjective(m.ids)
  /\ StateSize(m.initial) <= m.limits.maxStateBytes

-----------------------------------------------------------------------------
\* The bytes a value takes in a snapshot, without its id and type.
WrittenSize(v) ==
  CASE TypeOf(v) = "String"  -> 2 + StringSize[Payload(v)]
    [] TypeOf(v) = "Integer" -> 8
    [] TypeOf(v) = "Boolean" -> 1

SnapshotSize(m, slots) ==
  16 + Len(slots) * (IF m.format >= 4 THEN 9 ELSE 1)
     + SumFunction([i \in DOMAIN slots |-> WrittenSize(slots[i])])

CanSnapshot(m, slots) ==
  /\ \A i \in DOMAIN slots :
       TypeOf(slots[i]) = "String" => StringSize[Payload(slots[i])] <= MaxText
  /\ SnapshotSize(m, slots) <= m.limits.maxStateBytes + Len(slots) * 11 + 16

Snapshot(m, slots) ==
  [version |-> IF m.format >= 4 THEN 2 ELSE 1,
   schema  |-> m.schema, ids |-> m.ids, values |-> slots]

-----------------------------------------------------------------------------
\* The bytes of a value as restore_state adds them up.
ReadSize(v) ==
  CASE TypeOf(v) = "String"  -> StringSize[Payload(v)]
    [] TypeOf(v) = "Integer" -> 8
    [] TypeOf(v) = "Boolean" -> 1

WithinBudget(m, s) ==
  SumFunction([i \in DOMAIN s.values |-> ReadSize(s.values[i])]) <= m.limits.maxStateBytes

\* The slot i of m and the field n of snapshot s have the same id.
SameId(m, s, i, n) == m.ids[i] = s.ids[n]

RestorableByPosition(m, s) ==
  /\ s.schema = m.schema
  /\ Len(s.values) = Len(m.initial)
  /\ \A i \in DOMAIN s.values : TypeOf(s.values[i]) = TypeOf(m.initial[i])

RestorableById(m, s) ==
  /\ Len(m.ids) = Len(m.initial)
  /\ \A i \in DOMAIN m.ids, n \in DOMAIN s.ids :
       SameId(m, s, i, n) => TypeOf(s.values[n]) = TypeOf(m.initial[i])
  /\ s.ids # <<>> /\ m.ids # <<>> =>
       \E i \in DOMAIN m.ids, n \in DOMAIN s.ids : SameId(m, s, i, n)

Restorable(m, s) ==
  /\ s # Damaged
  /\ WithinBudget(m, s)
  /\ IF s.version = 1 THEN RestorableByPosition(m, s) ELSE RestorableById(m, s)

RestoredByPosition(m, s) ==  \* mutant: a snapshot with ids is read by position
  [i \in DOMAIN m.initial |-> IF i \in DOMAIN s.values THEN s.values[i] ELSE m.initial[i]]

Restored(m, s) ==
  IF s.version = 1 THEN s.values
  ELSE [i \in DOMAIN m.initial |->
          IF \E n \in DOMAIN s.ids : SameId(m, s, i, n)
          THEN s.values[CHOOSE n \in DOMAIN s.ids : SameId(m, s, i, n)]
          ELSE m.initial[i]]

-----------------------------------------------------------------------------
\* The values an assignment may give slot i; the budget counts the table as it would
\* be, so that a table over it can only shrink.
Assignable(m, slots, i, values) ==
  {v \in values :
     /\ TypeOf(v) = TypeOf(slots[i])
     /\ StateSize(slots) - ValueSize(slots[i]) + ValueSize(v) <= m.limits.maxStateBytes}

\* The tables an assignment to one slot leads to.
Assignments(m, slots, values) ==
  UNION {{[slots EXCEPT ![i] = v] : v \in Assignable(m, slots, i, values)} : i \in DOMAIN slots}

============================================================================
