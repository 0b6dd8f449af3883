-------------------------- MODULE PvmSessionProofs -------------------------
(***************************************************************************)
(* Sessions, answers and the state file, for any releases, any number of   *)
(* sessions and any answers: the table of a session has the types of its   *)
(* module, whatever file it was restored from; answers that nobody waits   *)
(* for do no harm; and persisted state is found again by the releases that *)
(* share its ids.                                                          *)
(***************************************************************************)
EXTENDS PvmSession, FiniteSetTheorems, SequenceTheorems, TLAPS

-----------------------------------------------------------------------------
(***************************************************************************)
(* The sizes of state tables, which are sums over their slots.  A sum is a *)
(* recursive function on the subsets of its domain; that the recursion     *)
(* defines one, and what it is, is proved here by the least subset for     *)
(* which it would not.                                                     *)
(***************************************************************************)
Chosen(s) == CHOOSE x \in s : TRUE

SumStep(fun, h, s) == IF s = {} THEN 0 ELSE fun[Chosen(s)] + h[s \ {Chosen(s)}]

\* h gives every subset of S its sum.
IsSum(fun, S, h) == h = [s \in SUBSET S |-> SumStep(fun, h, s)]

LEMMA ChosenIn == ASSUME NEW s, s # {} PROVE Chosen(s) \in s
  BY DEF Chosen

\* Of some subsets of a finite set, there is one that holds no other.
LEMMA LeastSubset ==
  ASSUME NEW S, IsFiniteSet(S), NEW T, T \subseteq SUBSET S, T # {}
  PROVE  \E s \in T : \A t \in T : t \subseteq s => t = s
<1>1. IsWellFoundedOn(StrictSubsetOrdering(S), SUBSET S)
  BY FS_StrictSubsetOrderingWellFounded, FS_FiniteSubsetsOfFinite
<1>2. \E s \in T : \A t \in T : <<t, s>> \notin StrictSubsetOrdering(S)
  BY <1>1, WFMin
<1> QED
  BY <1>2 DEF StrictSubsetOrdering

LEMMA SumIsUnique ==
  ASSUME NEW fun, NEW S, IsFiniteSet(S), NEW A, NEW B, S \subseteq A, S \subseteq B,
         NEW g, NEW h, IsSum(fun, A, g), IsSum(fun, B, h)
  PROVE  g[S] = h[S]
<1> DEFINE Differ == {s \in SUBSET S : g[s] # h[s]}
<1>1. ASSUME Differ # {} PROVE FALSE
  <2> Differ \subseteq SUBSET S
    OBVIOUS
  <2> HIDE DEF Differ
  <2>1. PICK s \in Differ : \A t \in Differ : t \subseteq s => t = s
    BY <1>1, LeastSubset
  <2> USE DEF Differ
  <2>2. s \subseteq S /\ s \subseteq A /\ s \subseteq B /\ g[s] # h[s]
    BY <2>1
  <2>3. g[s] = SumStep(fun, g, s) /\ h[s] = SumStep(fun, h, s)
    BY <2>2 DEF IsSum
  <2>4. s # {}
    BY <2>2, <2>3 DEF SumStep
  <2>5. PICK r : r = s \ {Chosen(s)}
    OBVIOUS
  <2>6. r \subseteq s /\ r # s /\ r \subseteq S
    BY <2>2, <2>4, <2>5, ChosenIn
  <2>7. g[r] = h[r]
    BY <2>1, <2>6
  <2> QED
    BY <2>2, <2>3, <2>4, <2>5, <2>7 DEF SumStep
<1> QED
  BY <1>1

LEMMA SumExists ==
  ASSUME NEW fun, NEW S, IsFiniteSet(S)
  PROVE  \E h : IsSum(fun, S, h)
<1> DEFINE Without == {s \in SUBSET S : ~ \E h : IsSum(fun, s, h)}
<1>1. ASSUME Without # {} PROVE FALSE
  <2> Without \subseteq SUBSET S
    OBVIOUS
  <2> HIDE DEF Without
  <2>1. PICK s \in Without : \A t \in Without : t \subseteq s => t = s
    BY <1>1, LeastSubset
  <2> USE DEF Without
  <2>2. s \subseteq S /\ ~ \E h : IsSum(fun, s, h)
    BY <2>1
  <2> DEFINE Of(t) == CHOOSE h : IsSum(fun, t, h)
  <2>3. ASSUME NEW t, t \subseteq s, t # s PROVE IsSum(fun, t, Of(t))
    <3>1. t \notin Without /\ t \subseteq S
      BY <2>1, <2>2, <2>3
    <3> QED
      BY <3>1
  <2> DEFINE value(t) == IF t = {} THEN 0
                         ELSE fun[Chosen(t)] + Of(t \ {Chosen(t)})[t \ {Chosen(t)}]
             sum == [t \in SUBSET s |-> value(t)]
  <2> HIDE DEF Of
  <2>4. ASSUME NEW t \in SUBSET s, t # s PROVE value(t) = Of(t)[t]
    <3>1. IsSum(fun, t, Of(t))
      BY <2>3, <2>4
    <3>2. Of(t)[t] = SumStep(fun, Of(t), t)
      BY <3>1 DEF IsSum
    <3>3. CASE t # {}
      <4>1. PICK r : r = t \ {Chosen(t)}
        OBVIOUS
      <4>2. r \subseteq t /\ r \subseteq s /\ r # s
        BY <2>4, <3>3, <4>1, ChosenIn
      <4>3. IsFiniteSet(r)
        BY <2>2, <4>2, FS_Subset
      <4>4. IsSum(fun, r, Of(r))
        BY <2>3, <4>2
      <4>5. Of(t)[r] = Of(r)[r]
        BY <3>1, <4>2, <4>3, <4>4, SumIsUnique
      <4> QED
        BY <3>2, <3>3, <4>1, <4>5 DEF SumStep
    <3> QED
      BY <3>2, <3>3 DEF SumStep
  <2>5. ASSUME NEW t \in SUBSET s PROVE sum[t] = SumStep(fun, sum, t)
    <3>1. CASE t # {}
      <4>1. PICK r : r = t \ {Chosen(t)}
        OBVIOUS
      <4>2. r \in SUBSET s /\ r # s
        BY <3>1, <4>1, ChosenIn
      <4>3. sum[r] = Of(r)[r]
        BY <2>4, <4>2
      <4>4. sum[t] = fun[Chosen(t)] + Of(r)[r]
        BY <3>1, <4>1
      <4> HIDE DEF sum
      <4> QED
        BY <3>1, <4>1, <4>3, <4>4 DEF SumStep
    <3> QED
      BY <3>1 DEF SumStep
  <2>6. DOMAIN sum = SUBSET s /\ sum = [t \in SUBSET s |-> sum[t]]
    OBVIOUS
  <2> HIDE DEF sum
  <2>7. IsSum(fun, s, sum)
    BY <2>5, <2>6 DEF IsSum
  <2> QED
    BY <2>2, <2>7
<1>2. S \notin Without
  BY <1>1
<1> QED
  BY <1>2

LEMMA SumIsSum ==
  ASSUME NEW fun, NEW S, IsFiniteSet(S)
  PROVE  IsSum(fun, S, CHOOSE h : IsSum(fun, S, h))
  BY SumExists

LEMMA SumUnfold ==
  ASSUME NEW fun, NEW S
  PROVE  SumFunctionOnSet(fun, S) = (CHOOSE h : IsSum(fun, S, h))[S]
  BY DEF SumFunctionOnSet, FoldFunctionOnSet, MapThenFoldSet, IsSum, SumStep, Chosen

\* A sum is the value of a chosen element and the sum of the others.
LEMMA SumOfChosen ==
  ASSUME NEW fun, NEW S, IsFiniteSet(S), S # {}
  PROVE  SumFunctionOnSet(fun, S) =
           fun[Chosen(S)] + SumFunctionOnSet(fun, S \ {Chosen(S)})
<1>1. PICK h : h = CHOOSE k : IsSum(fun, S, k)
  OBVIOUS
<1>2. PICK R : R = S \ {Chosen(S)}
  OBVIOUS
<1>3. PICK g : g = CHOOSE k : IsSum(fun, R, k)
  OBVIOUS
<1>4. IsFiniteSet(R) /\ R \subseteq S
  BY <1>2, FS_Subset
<1>5. IsSum(fun, S, h) /\ IsSum(fun, R, g)
  BY <1>1, <1>3, <1>4, SumIsSum
<1>6. h[R] = g[R]
  BY <1>4, <1>5, SumIsUnique
<1>7. h[S] = fun[Chosen(S)] + h[R]
  BY <1>2, <1>5 DEF IsSum, SumStep
<1> QED
  BY <1>1, <1>2, <1>3, <1>6, <1>7, SumUnfold

LEMMA SumOfNone == ASSUME NEW fun PROVE SumFunctionOnSet(fun, {}) = 0
<1>1. IsSum(fun, {}, CHOOSE h : IsSum(fun, {}, h))
  BY SumIsSum, FS_EmptySet
<1> QED
  BY <1>1, SumUnfold DEF IsSum, SumStep

-----------------------------------------------------------------------------
(***************************************************************************)
(* What sums are good for.                                                 *)
(***************************************************************************)
LEMMA SumInNat ==
  ASSUME NEW S, IsFiniteSet(S), NEW fun, \A x \in S : fun[x] \in Nat
  PROVE  SumFunctionOnSet(fun, S) \in Nat
<1> DEFINE Bad == {s \in SUBSET S : SumFunctionOnSet(fun, s) \notin Nat}
<1>1. ASSUME Bad # {} PROVE FALSE
  <2> Bad \subseteq SUBSET S
    OBVIOUS
  <2> HIDE DEF Bad
  <2>1. PICK s \in Bad : \A t \in Bad : t \subseteq s => t = s
    BY <1>1, LeastSubset
  <2> USE DEF Bad
  <2>2. s \subseteq S /\ SumFunctionOnSet(fun, s) \notin Nat
    BY <2>1
  <2>3. s # {}
    BY <2>2, SumOfNone
  <2>4. PICK x : x = Chosen(s)
    OBVIOUS
  <2>5. x \in s /\ SumFunctionOnSet(fun, s) = fun[x] + SumFunctionOnSet(fun, s \ {x})
    BY <2>2, <2>3, <2>4, ChosenIn, SumOfChosen, FS_Subset
  <2>6. SumFunctionOnSet(fun, s \ {x}) \in Nat
    BY <2>1, <2>2, <2>5
  <2> QED
    BY <2>2, <2>5, <2>6
<1> QED
  BY <1>1

\* Sums of smaller values are smaller.
LEMMA SumMonotone ==
  ASSUME NEW S, IsFiniteSet(S), NEW f, NEW g,
         \A x \in S : f[x] \in Nat /\ g[x] \in Nat /\ f[x] <= g[x]
  PROVE  SumFunctionOnSet(f, S) <= SumFunctionOnSet(g, S)
<1> DEFINE Bad == {s \in SUBSET S : ~(SumFunctionOnSet(f, s) <= SumFunctionOnSet(g, s))}
<1>1. ASSUME Bad # {} PROVE FALSE
  <2> Bad \subseteq SUBSET S
    OBVIOUS
  <2> HIDE DEF Bad
  <2>1. PICK s \in Bad : \A t \in Bad : t \subseteq s => t = s
    BY <1>1, LeastSubset
  <2> USE DEF Bad
  <2>2. s \subseteq S /\ ~(SumFunctionOnSet(f, s) <= SumFunctionOnSet(g, s))
    BY <2>1
  <2>3. s # {}
    BY <2>2, SumOfNone
  <2>4. PICK x : x = Chosen(s)
    OBVIOUS
  <2>5. PICK r : r = s \ {x}
    OBVIOUS
  <2>6. /\ x \in s /\ r \subseteq S /\ r \subseteq s /\ r # s
        /\ SumFunctionOnSet(f, s) = f[x] + SumFunctionOnSet(f, r)
        /\ SumFunctionOnSet(g, s) = g[x] + SumFunctionOnSet(g, r)
    BY <2>2, <2>3, <2>4, <2>5, ChosenIn, SumOfChosen, FS_Subset
  <2>7. SumFunctionOnSet(f, r) <= SumFunctionOnSet(g, r)
    BY <2>1, <2>6
  <2>8. SumFunctionOnSet(f, r) \in Nat /\ SumFunctionOnSet(g, r) \in Nat
    BY <2>6, SumInNat, FS_Subset
  <2> QED
    BY <2>2, <2>6, <2>7, <2>8
<1> QED
  BY <1>1

\* The element a sum is taken apart at does not matter.
LEMMA SumOfAny ==
  ASSUME NEW S, IsFiniteSet(S), NEW fun, \A x \in S : fun[x] \in Nat, NEW e \in S
  PROVE  SumFunctionOnSet(fun, S) = fun[e] + SumFunctionOnSet(fun, S \ {e})
<1> DEFINE Bad == {s \in SUBSET S :
       \E d \in s : SumFunctionOnSet(fun, s) # fun[d] + SumFunctionOnSet(fun, s \ {d})}
<1>1. ASSUME Bad # {} PROVE FALSE
  <2> Bad \subseteq SUBSET S
    OBVIOUS
  <2> HIDE DEF Bad
  <2>1. PICK s \in Bad : \A t \in Bad : t \subseteq s => t = s
    BY <1>1, LeastSubset
  <2> USE DEF Bad
  <2>2. PICK d \in s : SumFunctionOnSet(fun, s) # fun[d] + SumFunctionOnSet(fun, s \ {d})
    BY <2>1
  <2>3. s \subseteq S /\ IsFiniteSet(s)
    BY <2>1, FS_Subset
  <2>4. PICK x : x = Chosen(s)
    OBVIOUS
  <2>5. x \in s /\ SumFunctionOnSet(fun, s) = fun[x] + SumFunctionOnSet(fun, s \ {x})
    BY <2>2, <2>3, <2>4, ChosenIn, SumOfChosen
  <2>6. x # d
    BY <2>2, <2>5
  <2>7. PICK both : both = s \ {x, d}
    OBVIOUS
  <2>8. both = (s \ {x}) \ {d} /\ both = (s \ {d}) \ {x}
    BY <2>7
  <2>9. SumFunctionOnSet(fun, s \ {x}) = fun[d] + SumFunctionOnSet(fun, both)
    <3>1. s \ {x} \in SUBSET S /\ s \ {x} \subseteq s /\ s \ {x} # s /\ d \in s \ {x}
      BY <2>2, <2>3, <2>5, <2>6
    <3>2. s \ {x} \notin Bad
      BY <2>1, <3>1
    <3> QED
      BY <2>8, <3>1, <3>2
  <2>10. SumFunctionOnSet(fun, s \ {d}) = fun[x] + SumFunctionOnSet(fun, both)
    <3>1. s \ {d} \in SUBSET S /\ s \ {d} \subseteq s /\ s \ {d} # s /\ x \in s \ {d}
      BY <2>2, <2>3, <2>5, <2>6
    <3>2. s \ {d} \notin Bad
      BY <2>1, <3>1
    <3> QED
      BY <2>8, <3>1, <3>2
  <2>11. fun[x] \in Nat /\ fun[d] \in Nat /\ SumFunctionOnSet(fun, both) \in Nat
    BY <2>2, <2>3, <2>5, <2>7, SumInNat, FS_Subset
  <2> QED
    BY <2>2, <2>5, <2>9, <2>10, <2>11
<1> QED
  BY <1>1

\* A sum depends on the values of its elements only.
LEMMA SumOfSame ==
  ASSUME NEW S, IsFiniteSet(S), NEW f, NEW g,
         \A x \in S : f[x] \in Nat /\ f[x] = g[x]
  PROVE  SumFunctionOnSet(f, S) = SumFunctionOnSet(g, S)
<1>1. /\ SumFunctionOnSet(f, S) <= SumFunctionOnSet(g, S)
      /\ SumFunctionOnSet(g, S) <= SumFunctionOnSet(f, S)
  BY SumMonotone
<1> QED
  BY <1>1, SumInNat

\* The sum after one value was exchanged.
Exchanged(f, g, S, e) == SumFunctionOnSet(g, S) = SumFunctionOnSet(f, S) - f[e] + g[e]

LEMMA SumExcept ==
  ASSUME NEW S, NEW f, NEW g, NEW e, IsFiniteSet(S), e \in S,
         \A x \in S : f[x] \in Nat /\ g[x] \in Nat,
         \A x \in S : x # e => g[x] = f[x]
  PROVE  Exchanged(f, g, S, e)
<1>1. PICK R : R = S \ {e}
  OBVIOUS
<1>2. R \subseteq S /\ IsFiniteSet(R)
  BY <1>1, FS_Subset
<1>3. SumFunctionOnSet(f, S) = f[e] + SumFunctionOnSet(f, R)
  BY <1>1, SumOfAny
<1>4. SumFunctionOnSet(g, S) = g[e] + SumFunctionOnSet(g, R)
  BY <1>1, SumOfAny
<1>5. SumFunctionOnSet(f, R) = SumFunctionOnSet(g, R) /\ SumFunctionOnSet(f, R) \in Nat
  BY <1>1, <1>2, SumOfSame, SumInNat
<1> QED
  BY <1>3, <1>4, <1>5 DEF Exchanged

-----------------------------------------------------------------------------
(***************************************************************************)
(* The sizes of state tables.                                              *)
(***************************************************************************)
LEMMA ValueIsTyped ==
  ASSUME NEW v \in Value
  PROVE  /\ TypeOf(v) \in ValueType
         /\ TypeOf(v) = "String" => StringSize[Payload(v)] \in Nat
         /\ ValueSize(v) \in Nat
<1>1. CASE v \in StringValue
  <2>1. PICK s \in Strings : v = String(s)
    BY <1>1 DEF StringValue
  <2>2. TypeOf(v) = "String" /\ Payload(v) = s /\ StringSize[s] \in Nat
    BY <2>1, StringAssumption DEF String, TypeOf, Payload
  <2> QED
    BY <2>2 DEF ValueType, ValueSize
<1>2. CASE v \in IntegerValue
  BY <1>2 DEF IntegerValue, Integer, TypeOf, ValueType, ValueSize
<1>3. CASE v \in BooleanValue
  BY <1>3 DEF BooleanValue, Boolean, TypeOf, ValueType, ValueSize
<1> QED
  BY <1>1, <1>2, <1>3 DEF Value

\* The size of a table is the sum of the sizes of its slots.
LEMMA StateSizeIsSum ==
  ASSUME NEW slots \in Seq(Value)
  PROVE  /\ IsFiniteSet(DOMAIN slots)
         /\ \A i \in DOMAIN slots : slots[i] \in Value /\ ValueSize(slots[i]) \in Nat
         /\ StateSize(slots) =
              SumFunctionOnSet([i \in DOMAIN slots |-> ValueSize(slots[i])], DOMAIN slots)
         /\ StateSize(slots) \in Nat
<1>1. Len(slots) \in Nat /\ DOMAIN slots = 1 .. Len(slots)
  BY LenProperties
<1>2. IsFiniteSet(DOMAIN slots)
  BY <1>1, FS_Interval
<1>3. \A i \in DOMAIN slots : slots[i] \in Value /\ ValueSize(slots[i]) \in Nat
  BY <1>1, ElementOfSeq, ValueIsTyped
<1>4. PICK sizes : sizes = [i \in DOMAIN slots |-> ValueSize(slots[i])]
  OBVIOUS
<1>5. DOMAIN sizes = DOMAIN slots /\ \A i \in DOMAIN slots : sizes[i] \in Nat
  BY <1>3, <1>4
<1>6. StateSize(slots) = SumFunctionOnSet(sizes, DOMAIN slots)
  BY <1>4, <1>5 DEF StateSize, SumFunction
<1>7. SumFunctionOnSet(sizes, DOMAIN slots) \in Nat
  BY <1>2, <1>5, SumInNat
<1> QED
  BY <1>2, <1>3, <1>4, <1>6, <1>7

\* The size a mutation is admitted by, computed from the slot it changes alone, is the
\* size of the table it leads to.
LEMMA StateSizeAfter ==
  ASSUME NEW slots \in Seq(Value), NEW i \in DOMAIN slots, NEW v \in Value
  PROVE  StateSize([slots EXCEPT ![i] = v]) = StateSize(slots) - ValueSize(slots[i]) + ValueSize(v)
<1>1. PICK after : after = [slots EXCEPT ![i] = v]
  OBVIOUS
<1>2. /\ after \in Seq(Value) /\ DOMAIN after = DOMAIN slots
      /\ after[i] = v /\ \A k \in DOMAIN slots \ {i} : after[k] = slots[k]
  BY <1>1, ExceptSeq, LenProperties
<1>3. PICK f : f = [k \in DOMAIN slots |-> ValueSize(slots[k])]
  OBVIOUS
<1>4. PICK g : g = [k \in DOMAIN after |-> ValueSize(after[k])]
  OBVIOUS
<1>5. \A k \in DOMAIN slots : f[k] = ValueSize(slots[k]) /\ f[k] \in Nat
  BY <1>3, StateSizeIsSum
<1>6. \A k \in DOMAIN slots : g[k] = ValueSize(after[k]) /\ g[k] \in Nat
  <2>1. \A k \in DOMAIN after : ValueSize(after[k]) \in Nat
    BY <1>2, StateSizeIsSum
  <2> QED
    BY <1>2, <1>4, <2>1
<1>7. \A k \in DOMAIN slots \ {i} : g[k] = f[k]
  BY <1>2, <1>5, <1>6
<1>8. IsFiniteSet(DOMAIN slots)
  BY StateSizeIsSum
<1>9. SumFunctionOnSet(g, DOMAIN slots) = SumFunctionOnSet(f, DOMAIN slots) - f[i] + g[i]
  <2>1. PICK D : D = DOMAIN slots
    OBVIOUS
  <2>2. /\ IsFiniteSet(D) /\ i \in D
        /\ \A k \in D : f[k] \in Nat /\ g[k] \in Nat
        /\ \A k \in D : k # i => g[k] = f[k]
    BY <1>5, <1>6, <1>7, <1>8, <2>1
  <2>3. Exchanged(f, g, D, i)
    BY ONLY <2>2, SumExcept
  <2> QED
    BY <2>1, <2>3 DEF Exchanged
<1>10. StateSize(slots) = SumFunctionOnSet(f, DOMAIN slots)
  BY <1>3, StateSizeIsSum
<1>11. StateSize(after) = SumFunctionOnSet(g, DOMAIN slots)
  BY <1>2, <1>4, StateSizeIsSum
<1> QED
  BY <1>1, <1>2, <1>5, <1>6, <1>9, <1>10, <1>11


-----------------------------------------------------------------------------
(***************************************************************************)
(* The state table and the state file.                                     *)
(***************************************************************************)
\* A table with a slot of the right type for each slot of the module.
TypedTable(m, slots) ==
  /\ slots \in Seq(Value)
  /\ Len(slots) = Len(m.initial)
  /\ \A i \in DOMAIN slots : TypeOf(slots[i]) = TypeOf(m.initial[i])

SnapshotRecord ==
  [version : {1, 2}, schema : Nat, ids : Seq(Nat \ {0}), values : Seq(Value)]

SnapshotSound(s) ==
  /\ s \in SnapshotRecord
  /\ s.version = 2 => Len(s.ids) = Len(s.values)

\* The table of a session, and a table that was restored, has the types of its module.
TableTyped == alive => TypedTable(running, table)

\* What is being written is the table as it is, and what was last persisted is the
\* file, unless a release was started since that refuses it.
StateInv ==
  /\ alive => running \in Releases
  /\ TableTyped
  /\ writing # None => alive /\ writing.snapshot = Snapshot(running, table)
  /\ file # None => SnapshotSound(file)
  /\ opened \subseteq Releases
  /\ saved # None =>
       /\ saved.release \in Releases
       /\ TypedTable(saved.release, saved.table)
       /\ (\A m \in opened : Restorable(m, LastSnapshot)) => file = LastSnapshot

-----------------------------------------------------------------------------
(***************************************************************************)
(* The calls whose answers are still to come.                              *)
(***************************************************************************)
CallRecord == [session : Nat, task : Nat, generation : Nat, left : Nat]

SessionTypes ==
  /\ session \in Nat /\ generation \in Nat /\ nextTask \in Nat
  /\ tasks \subseteq Nat
  /\ flight \subseteq CallRecord
  /\ posted \in Seq([call : CallRecord, result : Answers])

\* A call is of this session or an earlier one, and its task waits for it if its
\* answer would be heard.
CallSound(c) ==
  /\ c.session <= session
  /\ alive /\ c.session = session => c.task < nextTask /\ c.generation <= generation
  /\ Current(c) => c.task \in tasks

SameTask(c, d) == c.session = d.session /\ c.task = d.task

\* The calls that have not answered, and those whose answers are posted.
Calls(calls, answers) == calls \cup {answers[k].call : k \in DOMAIN answers}

\* There is one call to a task.
OneEach(calls, answers) ==
  /\ \A c \in calls : c.left = 1
  /\ \A c, d \in calls : SameTask(c, d) => c = d
  /\ \A c \in calls, k \in DOMAIN answers : ~SameTask(c, answers[k].call)
  /\ \A j, k \in DOMAIN answers : SameTask(answers[j].call, answers[k].call) => j = k

\* On Harmony a capability answers once.
CallsInv == host = "Harmony" =>
  /\ OneEach(flight, posted)
  /\ \A c \in Calls(flight, posted) : CallSound(c)

LEMMA SessionTypesInit == Init => SessionTypes
  BY DEF Init, SessionTypes

\* A handler leaves the tasks alone, or begins one.
LEMMA RunsEffect ==
  ASSUME NEW m, NEW slots, NEW pending, NEW next, Runs(m, slots, pending, next)
  PROVE  \/ flight' = flight /\ tasks' = pending /\ nextTask' = next
         \/ /\ tasks' = pending \cup {next}
            /\ nextTask' = next + 1
            /\ flight' = flight \cup {Call(next)}
  BY DEF Runs

\* What it begins is a call like any other.
LEMMA RunsTypes ==
  ASSUME SessionTypes, NEW m, NEW slots, NEW pending \in SUBSET Nat, NEW next \in Nat,
         Runs(m, slots, pending, next), session' \in Nat, generation' \in Nat
  PROVE  flight' \subseteq CallRecord /\ tasks' \subseteq Nat /\ nextTask' \in Nat
<1>1. AnswersOf(host) \in Nat
  BY SessionAssumption DEF AnswersOf
<1>2. Call(next) \in CallRecord
  BY <1>1 DEF Call, CallRecord
<1> QED
  <2>1. CASE flight' = flight /\ tasks' = pending /\ nextTask' = next
    BY <2>1 DEF SessionTypes
  <2>2. CASE /\ tasks' = pending \cup {next}
             /\ nextTask' = next + 1
             /\ flight' = flight \cup {Call(next)}
    BY <1>2, <2>2 DEF SessionTypes
  <2> QED
    BY <2>1, <2>2, RunsEffect

LEMMA AnswerTypes ==
  ASSUME SessionTypes, NEW call \in flight, NEW result \in Answers, Answer(call, result)
  PROVE  SessionTypes'
<1>1. call \in CallRecord /\ [call |-> call, result |-> result] \in [call : CallRecord, result : Answers]
  BY DEF SessionTypes
<1>2. call.left > 1 => [call EXCEPT !.left = @ - 1] \in CallRecord
  BY <1>1 DEF CallRecord
<1>3. flight' \subseteq CallRecord
  BY <1>2 DEF Answer, SessionTypes
<1>4. posted' \in Seq([call : CallRecord, result : Answers])
  BY <1>1 DEF Answer, SessionTypes
<1> QED
  BY <1>3, <1>4 DEF Answer, SessionTypes, runtime

LEMMA RunAnswerTypes ==
  ASSUME SessionTypes, RunAnswer
  PROVE  SessionTypes'
<1> DEFINE call   == Head(posted).call
           result == Head(posted).result
<1>1. posted' \in Seq([call : CallRecord, result : Answers])
  BY DEF RunAnswer, SessionTypes
<1>2. CASE DropAnswer(call) \/ Refuse(call, result) \/ ResumeFails(call, result)
  <2>1. CASE DropAnswer(call)
    BY <1>1, <2>1 DEF DropAnswer, SessionTypes, runtime
  <2>2. CASE Refuse(call, result)
    <3>1. /\ UNCHANGED <<session, nextTask, flight>>
          /\ generation' = generation + 1 \/ generation' = generation
          /\ tasks' = {} \/ tasks' = tasks
      BY <2>2 DEF Refuse, RecordFailure
    <3>2. generation \in Nat /\ tasks \subseteq Nat
      BY DEF SessionTypes
    <3>3. generation' \in Nat
      BY <3>1, <3>2
    <3>4. tasks' \subseteq Nat
      BY <3>1, <3>2
    <3> QED
      BY <1>1, <3>1, <3>3, <3>4 DEF SessionTypes
  <2>3. CASE ResumeFails(call, result)
    BY <1>1, <2>3 DEF ResumeFails, RecordFailure, SessionTypes
  <2> QED
    BY <1>2, <2>1, <2>2, <2>3
<1>3. CASE Resume(call, result)
  <2>1. /\ UNCHANGED <<session, generation>>
        /\ Runs(running, table, tasks \ {call.task}, nextTask)
    BY <1>3 DEF Resume
  <2>2. tasks \ {call.task} \in SUBSET Nat /\ nextTask \in Nat
    BY DEF SessionTypes
  <2>3. flight' \subseteq CallRecord /\ tasks' \subseteq Nat /\ nextTask' \in Nat
    BY <2>1, <2>2, RunsTypes DEF SessionTypes
  <2> QED
    BY <1>1, <2>1, <2>3 DEF SessionTypes
<1> QED
  BY <1>2, <1>3 DEF RunAnswer

LEMMA StartTypes ==
  ASSUME SessionTypes, NEW m \in Releases, Start(m)
  PROVE  SessionTypes'
<1>1. /\ session' \in Nat /\ generation' \in Nat
      /\ UNCHANGED posted /\ Runs(m, FirstTable(m), {}, 1)
  BY DEF Start, SessionTypes
<1>2. flight' \subseteq CallRecord /\ tasks' \subseteq Nat /\ nextTask' \in Nat
  BY <1>1, RunsTypes
<1> QED
  BY <1>1, <1>2 DEF SessionTypes

LEMMA EventTypes ==
  ASSUME SessionTypes, Event
  PROVE  SessionTypes'
<1>1. flight' \subseteq CallRecord /\ tasks' \subseteq Nat /\ nextTask' \in Nat
  BY RunsTypes DEF Event, SessionTypes
<1> QED
  BY <1>1 DEF Event, SessionTypes

LEMMA ClosedTypes ==
  ASSUME SessionTypes, Closed, session' \in Nat, flight' \subseteq CallRecord,
         posted' \in Seq([call : CallRecord, result : Answers])
  PROVE  SessionTypes'
  BY DEF Closed, SessionTypes

LEMMA SessionTypesNext == SessionTypes /\ [Next]_vars => SessionTypes'
<1> SUFFICES ASSUME SessionTypes, [Next]_vars PROVE SessionTypes'
  OBVIOUS
<1>1. ASSUME NEW m \in Releases, StartFails(m) PROVE SessionTypes'
  BY <1>1, ClosedTypes DEF StartFails, SessionTypes
<1>2. CASE CancelTasks \/ FailUi
  BY <1>2 DEF CancelTasks, FailUi, RecordFailure, SessionTypes
<1>3. CASE Persist \/ PersistAndClose
  BY <1>3 DEF Persist, PersistAndClose, SessionTypes, runtime
<1>4. CASE Close \/ Kill
  <2>1. CASE Close
    BY <2>1, ClosedTypes DEF Close, SessionTypes
  <2>2. CASE Kill
    <3>1. posted' \in Seq([call : CallRecord, result : Answers]) /\ flight' \subseteq CallRecord
      BY <2>2 DEF Kill
    <3> QED
      BY <2>2, <3>1, ClosedTypes DEF Kill, SessionTypes
  <2> QED
    BY <1>4, <2>1, <2>2
<1>5. CASE Move \/ WriteFails
  <2>1. AfterWriting /\ UNCHANGED <<session, flight, posted>>
    BY <1>5 DEF Move, WriteFails, AfterWriting, runtime
  <2>2. CASE Closed
    BY <2>1, <2>2, ClosedTypes DEF SessionTypes
  <2>3. CASE UNCHANGED runtime
    BY <2>1, <2>3 DEF SessionTypes, runtime
  <2> QED
    BY <2>1, <2>2, <2>3 DEF AfterWriting
<1>6. CASE UNCHANGED vars
  BY <1>6 DEF vars, SessionTypes, runtime
<1> QED
  BY <1>1, <1>2, <1>3, <1>4, <1>5, <1>6, StartTypes, EventTypes, AnswerTypes, RunAnswerTypes DEF Next

-----------------------------------------------------------------------------
(***************************************************************************)
(* Answers that nobody waits for.                                          *)
(***************************************************************************)
\* A call stays what it was when its session has ended, when its task was cancelled,
\* and when another task has been answered.
LEMMA CallStays ==
  ASSUME SessionTypes, SessionTypes', NEW c \in CallRecord, CallSound(c),
         \/ session < session'
         \/ session <= session' /\ ~alive'
         \/ /\ session' = session /\ alive' = alive /\ nextTask <= nextTask'
            /\ generation < generation'
         \/ /\ session' = session /\ alive' = alive /\ nextTask <= nextTask'
            /\ generation' = generation
            /\ c.session = session /\ c.task \in tasks => c.task \in tasks'
  PROVE  CallSound(c)'
<1>1. /\ c.session \in Nat /\ c.task \in Nat /\ c.generation \in Nat
      /\ session \in Nat /\ session' \in Nat /\ nextTask \in Nat /\ nextTask' \in Nat
      /\ generation \in Nat /\ generation' \in Nat
  BY DEF CallRecord, SessionTypes
<1>2. CASE session < session'
  BY <1>1, <1>2 DEF CallSound, Current
<1>3. CASE session <= session' /\ ~alive'
  BY <1>1, <1>3 DEF CallSound, Current
<1>4. CASE /\ session' = session /\ alive' = alive /\ nextTask <= nextTask'
           /\ generation < generation'
  BY <1>1, <1>4 DEF CallSound, Current
<1>5. CASE /\ session' = session /\ alive' = alive /\ nextTask <= nextTask'
           /\ generation' = generation
           /\ c.session = session /\ c.task \in tasks => c.task \in tasks'
  BY <1>1, <1>5 DEF CallSound, Current
<1> QED
  BY <1>2, <1>3, <1>4, <1>5

LEMMA CallsTyped ==
  ASSUME SessionTypes
  PROVE  Calls(flight, posted) \subseteq CallRecord
<1>1. posted \in Seq([call : CallRecord, result : Answers])
  BY DEF SessionTypes
<1>2. ASSUME NEW k \in DOMAIN posted PROVE posted[k].call \in CallRecord
  <2>1. k \in 1 .. Len(posted)
    BY <1>1, LenProperties
  <2>2. posted[k] \in [call : CallRecord, result : Answers]
    BY <1>1, <2>1, ElementOfSeq
  <2> QED
    BY <2>2
<1> QED
  BY <1>2 DEF Calls, SessionTypes

\* The first answer is taken out of the queue.
LEMMA CallsTail ==
  ASSUME NEW S, NEW calls, NEW answers \in Seq(S), answers # <<>>, OneEach(calls, answers)
  PROVE  /\ OneEach(calls, Tail(answers))
         /\ Head(answers).call \in Calls(calls, answers)
         /\ Calls(calls, Tail(answers)) \subseteq Calls(calls, answers)
         /\ \A c \in Calls(calls, Tail(answers)) : ~SameTask(c, Head(answers).call)
<1>1. /\ Len(answers) \in Nat /\ Len(answers) >= 1 /\ DOMAIN answers = 1 .. Len(answers)
      /\ Tail(answers) \in Seq(S) /\ Len(Tail(answers)) = Len(answers) - 1
      /\ \A k \in 1 .. Len(Tail(answers)) : Tail(answers)[k] = answers[k + 1]
      /\ Head(answers) = answers[1]
  BY HeadTailProperties, LenProperties, EmptySeq
<1>2. DOMAIN Tail(answers) = 1 .. Len(answers) - 1
  BY <1>1, LenProperties
<1>3. \A k \in DOMAIN Tail(answers) :
        Tail(answers)[k] = answers[k + 1] /\ k + 1 \in DOMAIN answers /\ k + 1 # 1
  BY <1>1, <1>2
<1>4. OneEach(calls, Tail(answers))
  <2>1. \A j, k \in DOMAIN Tail(answers) : j + 1 = k + 1 => j = k
    BY <1>2
  <2> QED
    BY <1>3, <2>1 DEF OneEach
<1>5. 1 \in DOMAIN answers
  BY <1>1
<1> QED
  BY <1>1, <1>3, <1>4, <1>5 DEF OneEach, Calls, SameTask

\* A call answers, for the last time.
LEMMA CallsAnswer ==
  ASSUME NEW S, NEW calls, NEW answers \in Seq(S), NEW answer \in S, answer.call \in calls,
         OneEach(calls, answers)
  PROVE  /\ OneEach(calls \ {answer.call}, Append(answers, answer))
         /\ Calls(calls \ {answer.call}, Append(answers, answer)) \subseteq Calls(calls, answers)
<1> DEFINE more == Append(answers, answer)
<1>1. /\ Len(answers) \in Nat /\ DOMAIN answers = 1 .. Len(answers)
      /\ more \in Seq(S) /\ Len(more) = Len(answers) + 1
      /\ \A k \in 1 .. Len(answers) : more[k] = answers[k]
      /\ more[Len(answers) + 1] = answer
  BY AppendProperties, LenProperties
<1>2. DOMAIN more = 1 .. Len(answers) + 1
  BY <1>1, LenProperties
<1> HIDE DEF more
<1>3. \A k \in DOMAIN more :
        \/ k \in DOMAIN answers /\ more[k] = answers[k]
        \/ k = Len(answers) + 1 /\ more[k] = answer
  BY <1>1, <1>2
<1>4. OneEach(calls \ {answer.call}, more)
  BY <1>3 DEF OneEach, SameTask
<1>5. Calls(calls \ {answer.call}, more) \subseteq Calls(calls, answers)
  BY <1>3 DEF Calls
<1> QED
  BY <1>4, <1>5 DEF more

\* A call to another task.
LEMMA CallsBegin ==
  ASSUME NEW calls, NEW answers, OneEach(calls, answers), NEW call, call.left = 1,
         \A c \in Calls(calls, answers) : ~SameTask(c, call)
  PROVE  /\ OneEach(calls \cup {call}, answers)
         /\ Calls(calls \cup {call}, answers) = Calls(calls, answers) \cup {call}
<1>1. \A c \in Calls(calls, answers) : ~SameTask(c, call) /\ ~SameTask(call, c)
  BY DEF SameTask
<1> QED
  BY <1>1 DEF OneEach, Calls

\* A handler runs, with the answers that are still posted.
LEMMA CallsRun ==
  ASSUME SessionTypes, SessionTypes', host = "Harmony",
         NEW m, NEW slots, NEW pending, NEW next \in Nat, Runs(m, slots, pending, next),
         OneEach(flight, posted'),
         \A c \in Calls(flight, posted') :
           CallSound(c)' /\ (c.session < session' \/ c.task < next),
         Calls(flight, posted') \subseteq CallRecord
  PROVE  OneEach(flight', posted') /\ \A c \in Calls(flight', posted') : CallSound(c)'
<1>1. CASE flight' = flight
  BY <1>1
<1>2. CASE /\ tasks' = pending \cup {next}
           /\ nextTask' = next + 1
           /\ flight' = flight \cup {Call(next)}
  <2>1. PICK d : d = [session |-> session', task |-> next, generation |-> generation', left |-> 1]
    OBVIOUS
  <2>2. d = Call(next)
    BY <2>1 DEF Call, AnswersOf
  <2>3. d.session = session' /\ d.task = next /\ d.generation = generation' /\ d.left = 1
    BY <2>1
  <2>4. CallSound(d)'
    BY <1>2, <2>3 DEF CallSound, SessionTypes
  <2>5. \A c \in Calls(flight, posted') : ~SameTask(c, d)
    BY <2>3, SMTT(30) DEF SameTask, SessionTypes, CallRecord
  <2>6. /\ OneEach(flight \cup {d}, posted')
        /\ Calls(flight \cup {d}, posted') = Calls(flight, posted') \cup {d}
    <3>1. OneEach(flight, posted') /\ d.left = 1
      BY <2>3
    <3> QED
      BY <2>5, <3>1, CallsBegin
  <2>7. flight' = flight \cup {d}
    BY <1>2, <2>2
  <2> QED
    BY <2>4, <2>6, <2>7
<1> QED
  BY <1>1, <1>2, RunsEffect

\* The session ends, or no task of it is answered.
Rests ==
  \/ session < session'
  \/ session <= session' /\ ~alive'
  \/ /\ session' = session /\ alive' = alive /\ nextTask <= nextTask'
     /\ generation < generation'
  \/ /\ session' = session /\ alive' = alive /\ nextTask <= nextTask'
     /\ generation' = generation /\ tasks' = tasks

\* No call is begun and none answers, or all of them end.
CallsKept ==
  \/ flight' = flight /\ posted' = posted
  \/ flight' = {} /\ posted' = <<>>

LEMMA CallsRest ==
  ASSUME SessionTypes, SessionTypes', CallsInv, host' = host, Rests, CallsKept
  PROVE  CallsInv'
<1>1. CASE flight' = flight /\ posted' = posted
  <2>1. ASSUME NEW c \in CallRecord, CallSound(c) PROVE CallSound(c)'
    BY <2>1, CallStays DEF Rests
  <2>2. CASE host = "Harmony"
    <3>1. \A c \in Calls(flight, posted) : CallSound(c)'
      BY <2>1, <2>2, CallsTyped DEF CallsInv
    <3> QED
      BY <1>1, <2>2, <3>1 DEF CallsInv
  <2> QED
    BY <2>2 DEF CallsInv
<1>2. CASE flight' = {} /\ posted' = <<>>
  <2>1. OneEach({}, <<>>) /\ Calls({}, <<>>) = {}
    BY DEF OneEach, Calls
  <2> QED
    BY <1>2, <2>1 DEF CallsInv
<1> QED
  BY <1>1, <1>2 DEF CallsKept

LEMMA StartCalls ==
  ASSUME SessionTypes, CallsInv, NEW m \in Releases, Start(m)
  PROVE  CallsInv'
<1> SUFFICES ASSUME host = "Harmony" PROVE CallsInv'
  BY DEF CallsInv, Start
<1>1. SessionTypes'
  BY StartTypes
<1>2. /\ session' = session + 1 /\ UNCHANGED <<host, posted>>
      /\ Runs(m, FirstTable(m), {}, 1)
  BY DEF Start
<1>3. session < session'
  BY <1>2 DEF SessionTypes
<1>4. ASSUME NEW c \in Calls(flight, posted) PROVE CallSound(c)' /\ c.session < session'
  <2>1. c \in CallRecord /\ CallSound(c)
    BY <1>4, CallsTyped DEF CallsInv
  <2>2. CallSound(c)'
    BY <1>1, <1>3, <2>1, CallStays
  <2>3. c.session < session'
    BY <1>2, <2>1 DEF CallSound, CallRecord, SessionTypes
  <2> QED
    BY <2>2, <2>3
<1>5. OneEach(flight, posted)
  BY DEF CallsInv
<1>6. OneEach(flight', posted') /\ \A c \in Calls(flight', posted') : CallSound(c)'
  BY <1>1, <1>2, <1>4, <1>5, CallsTyped, CallsRun
<1> QED
  BY <1>6 DEF CallsInv

LEMMA EventCalls ==
  ASSUME SessionTypes, CallsInv, Event
  PROVE  CallsInv'
<1> SUFFICES ASSUME host = "Harmony" PROVE CallsInv'
  BY DEF CallsInv, Event
<1>1. SessionTypes'
  BY EventTypes
<1>2. /\ alive /\ UNCHANGED <<host, posted, session, alive, generation>>
      /\ Runs(running, table, tasks, nextTask)
  BY DEF Event, Open
<1>3. nextTask <= nextTask' /\ tasks \subseteq tasks'
  BY <1>2, RunsEffect DEF SessionTypes
<1>4. ASSUME NEW c \in Calls(flight, posted)
      PROVE  CallSound(c)' /\ (c.session < session' \/ c.task < nextTask)
  <2>1. c \in CallRecord /\ CallSound(c)
    BY <1>4, CallsTyped DEF CallsInv
  <2>2. CallSound(c)'
    BY <1>1, <1>2, <1>3, <2>1, CallStays
  <2>3. c.session < session' \/ c.task < nextTask
    BY <1>2, <2>1 DEF CallSound, CallRecord, SessionTypes
  <2> QED
    BY <2>2, <2>3
<1>5. OneEach(flight, posted) /\ nextTask \in Nat
  BY DEF CallsInv, SessionTypes
<1>6. OneEach(flight', posted') /\ \A c \in Calls(flight', posted') : CallSound(c)'
  BY <1>1, <1>2, <1>4, <1>5, CallsTyped, CallsRun
<1> QED
  BY <1>6 DEF CallsInv

LEMMA AnswerCalls ==
  ASSUME SessionTypes, CallsInv, NEW call \in flight, NEW result \in Answers, Answer(call, result)
  PROVE  CallsInv'
<1> SUFFICES ASSUME host = "Harmony" PROVE CallsInv'
  BY DEF CallsInv, Answer
<1> DEFINE answer == [call |-> call, result |-> result]
<1>1. /\ UNCHANGED <<host, runtime>> /\ posted' = Append(posted, answer)
      /\ flight' = flight \ {call}
  BY DEF Answer, CallsInv, OneEach
<1>2. answer \in [call : CallRecord, result : Answers] /\ answer.call = call
  BY DEF SessionTypes
<1>3. posted \in Seq([call : CallRecord, result : Answers])
  BY DEF SessionTypes
<1> HIDE DEF answer
<1>4. /\ OneEach(flight \ {call}, Append(posted, answer))
      /\ Calls(flight \ {call}, Append(posted, answer)) \subseteq Calls(flight, posted)
  BY <1>2, <1>3, CallsAnswer DEF CallsInv
<1>5. \A c \in Calls(flight, posted) : CallSound(c)'
  BY <1>1 DEF CallsInv, CallSound, Current, runtime
<1> QED
  BY <1>1, <1>4, <1>5 DEF CallsInv

LEMMA RunAnswerCalls ==
  ASSUME SessionTypes, CallsInv, RunAnswer
  PROVE  CallsInv'
<1> SUFFICES ASSUME host = "Harmony" PROVE CallsInv'
  BY DEF CallsInv, RunAnswer
<1> DEFINE call   == Head(posted).call
           result == Head(posted).result
<1>1. SessionTypes'
  BY RunAnswerTypes
<1>2. posted # <<>> /\ posted' = Tail(posted) /\ UNCHANGED host
  BY DEF RunAnswer
<1>3. posted \in Seq([call : CallRecord, result : Answers])
  BY DEF SessionTypes
<1>4. /\ OneEach(flight, posted') /\ call \in Calls(flight, posted)
      /\ Calls(flight, posted') \subseteq Calls(flight, posted)
      /\ \A c \in Calls(flight, posted') : ~SameTask(c, call)
  BY <1>2, <1>3, CallsTail DEF CallsInv
<1>5. Calls(flight, posted') \subseteq CallRecord
  BY <1>4, CallsTyped
<1>6. \A c \in Calls(flight, posted') : CallSound(c)
  BY <1>4 DEF CallsInv
<1> HIDE DEF call, result
<1>7. ASSUME UNCHANGED flight, \A c \in Calls(flight, posted') : CallSound(c)' PROVE CallsInv'
  BY <1>4, <1>7 DEF CallsInv
<1>8. CASE DropAnswer(call)
  <2>1. UNCHANGED <<session, alive, generation, tasks, nextTask, flight>>
    BY <1>8 DEF DropAnswer, runtime
  <2> QED
    BY <1>6, <1>7, <2>1 DEF CallSound, Current
<1>9. CASE Refuse(call, result) \/ ResumeFails(call, result)
  <2>1. UNCHANGED <<session, alive, nextTask, flight>> /\ generation' = generation + 1
    BY <1>9 DEF Refuse, ResumeFails, RecordFailure
  <2>2. generation < generation' /\ nextTask <= nextTask'
    BY <2>1 DEF SessionTypes
  <2>3. \A c \in Calls(flight, posted') : CallSound(c)'
    BY <1>1, <1>5, <1>6, <2>1, <2>2, CallStays
  <2> QED
    BY <1>7, <2>1, <2>3
<1>10. CASE Resume(call, result)
  <2>1. /\ Current(call) /\ UNCHANGED <<session, alive, generation>>
        /\ Runs(running, table, tasks \ {call.task}, nextTask)
    BY <1>10 DEF Resume
  <2>2. nextTask <= nextTask' /\ tasks \ {call.task} \subseteq tasks' /\ nextTask \in Nat
    BY <2>1, RunsEffect DEF SessionTypes
  <2>3. ASSUME NEW c \in Calls(flight, posted')
        PROVE  CallSound(c)' /\ (c.session < session' \/ c.task < nextTask)
    <3>1. c \in CallRecord /\ CallSound(c) /\ ~SameTask(c, call)
      BY <1>4, <1>5, <1>6, <2>3
    <3>2. c.session = session /\ c.task \in tasks => c.task \in tasks'
      BY <2>1, <2>2, <3>1 DEF SameTask, Current
    <3>3. CallSound(c)'
      BY <1>1, <2>1, <2>2, <3>1, <3>2, CallStays
    <3>4. c.session < session' \/ c.task < nextTask
      BY <2>1, <3>1 DEF CallSound, CallRecord, SessionTypes, Current
    <3> QED
      BY <3>3, <3>4
  <2>4. OneEach(flight', posted') /\ \A c \in Calls(flight', posted') : CallSound(c)'
    BY <1>1, <1>4, <1>5, <2>1, <2>2, <2>3, CallsRun
  <2> QED
    BY <2>4 DEF CallsInv
<1> QED
  BY <1>8, <1>9, <1>10 DEF RunAnswer, call, result

LEMMA CallsNext == SessionTypes /\ CallsInv /\ [Next]_vars => CallsInv'
<1> SUFFICES ASSUME SessionTypes, CallsInv, [Next]_vars PROVE CallsInv'
  OBVIOUS
<1>1. SessionTypes'
  BY SessionTypesNext
<1>2. session \in Nat /\ generation \in Nat /\ nextTask \in Nat
  BY DEF SessionTypes
<1>3. ASSUME NEW m \in Releases, StartFails(m) PROVE CallsInv'
  <2>1. Rests
    BY <1>2, <1>3 DEF StartFails, Rests
  <2>2. host' = host /\ CallsKept
    BY <1>3 DEF StartFails, CallsKept
  <2> QED
    BY <1>1, <2>1, <2>2, CallsRest
<1>4. CASE CancelTasks \/ FailUi
  <2>1. /\ session' = session /\ alive' = alive /\ nextTask' = nextTask
        /\ generation' = generation + 1
    BY <1>4 DEF CancelTasks, FailUi, RecordFailure
  <2>2. Rests
    BY <1>2, <2>1 DEF Rests
  <2>3. host' = host /\ CallsKept
    BY <1>4 DEF CancelTasks, FailUi, CallsKept
  <2> QED
    BY <1>1, <2>2, <2>3, CallsRest
<1>5. ASSUME UNCHANGED <<host, session, alive, nextTask, generation, tasks, flight, posted>>
      PROVE  CallsInv'
  <2>1. Rests
    BY <1>2, <1>5 DEF Rests
  <2>2. host' = host /\ CallsKept
    BY <1>5 DEF CallsKept
  <2> QED
    BY <1>1, <2>1, <2>2, CallsRest
<1>6. ASSUME Closed, host' = host, session' = session, CallsKept
      PROVE  CallsInv'
  <2>1. Rests
    BY <1>2, <1>6 DEF Closed, Rests
  <2> QED
    BY <1>1, <1>6, <2>1, CallsRest
<1>7. CASE Persist \/ PersistAndClose
  BY <1>5, <1>7 DEF Persist, PersistAndClose, runtime
<1>8. CASE Close \/ Kill
  <2>1. CASE Close
    <3>1. Closed /\ host' = host /\ session' = session /\ CallsKept
      BY <2>1 DEF Close, CallsKept
    <3> QED
      BY <1>6, <3>1
  <2>2. CASE Kill
    <3>1. Closed /\ host' = host /\ session' = session /\ CallsKept
      BY <2>2 DEF Kill, CallsKept
    <3> QED
      BY <1>6, <3>1
  <2> QED
    BY <1>8, <2>1, <2>2
<1>9. CASE Move \/ WriteFails
  <2>1. /\ host' = host /\ flight' = flight /\ posted' = posted
        /\ (Closed /\ session' = session) \/ UNCHANGED runtime
    BY <1>9 DEF Move, WriteFails, AfterWriting
  <2>2. CASE Closed /\ session' = session
    <3>1. CallsKept
      BY <2>1 DEF CallsKept
    <3> QED
      BY <1>6, <2>1, <2>2, <3>1
  <2>3. CASE UNCHANGED runtime
    BY <1>5, <2>1, <2>3 DEF runtime
  <2> QED
    BY <2>1, <2>2, <2>3
<1>10. CASE UNCHANGED vars
  BY <1>5, <1>10 DEF vars, runtime
<1> QED
  BY <1>3, <1>4, <1>7, <1>8, <1>9, <1>10, StartCalls, EventCalls, AnswerCalls, RunAnswerCalls
  DEF Next

LEMMA CallsInvariant == Spec => [](SessionTypes /\ CallsInv)
<1>1. Init => CallsInv
  BY DEF Init, CallsInv, OneEach, Calls
<1> QED
  BY <1>1, SessionTypesInit, SessionTypesNext, CallsNext, PTL DEF Spec

\* An answer that nobody waits for changes neither the state nor the tasks of the session
\* that runs when it arrives, and does not make it fail: what is refused on Harmony,
\* which takes a refusal for a failure of the application, has a task that waits.
THEOREM LateAnswersDoNoHarm == Spec => LateAnswersHarmless
<1>1. ASSUME SessionTypes, CallsInv, RunAnswer,
             ~Waits(Head(posted).call.session, Head(posted).call.task)
      PROVE  UNCHANGED <<table, tasks, failed>>
  <2> DEFINE call   == Head(posted).call
             result == Head(posted).result
  <2>1. ~(Current(call) /\ call.task \in tasks)
    BY <1>1 DEF Waits, Current
  <2>2. host = "Harmony" => ~Current(call)
    <3>1. posted \in Seq([call : CallRecord, result : Answers]) /\ posted # <<>>
      BY <1>1 DEF RunAnswer, SessionTypes
    <3>2. host = "Harmony" => call \in Calls(flight, posted)
      BY <1>1, <3>1, CallsTail DEF CallsInv
    <3> QED
      BY <1>1, <2>1, <3>2 DEF CallsInv, CallSound
  <2> HIDE DEF call, result
  <2>3. CASE DropAnswer(call)
    BY <2>3 DEF DropAnswer, runtime
  <2>4. CASE Refuse(call, result)
    BY <2>2, <2>4 DEF Refuse
  <2>5. CASE Resume(call, result) \/ ResumeFails(call, result)
    BY <2>1, <2>5 DEF Resume, ResumeFails
  <2> QED
    BY <1>1, <2>3, <2>4, <2>5 DEF RunAnswer, call, result
<1>2. SessionTypes /\ CallsInv /\ [Next]_vars
        => [RunAnswer /\ ~Waits(Head(posted).call.session, Head(posted).call.task)
              => UNCHANGED <<table, tasks, failed>>]_vars
  BY <1>1
<1> QED
  BY <1>2, CallsInvariant, PTL DEF Spec, LateAnswersHarmless

-----------------------------------------------------------------------------
(***************************************************************************)
(* The tables of sessions, and what is made of them by the next.           *)
(***************************************************************************)
LEMMA ReleasesAreModules ==
  ASSUME NEW m \in Releases
  PROVE  /\ m.format \in Nat /\ m.schema \in Nat /\ m.ids \in Seq(Nat \ {0})
         /\ m.initial \in Seq(Value)
         /\ StatesDecode(m)
  BY SessionAssumption DEF StateModule

LEMMA InitialTyped ==
  ASSUME NEW m \in Releases
  PROVE  TypedTable(m, m.initial)
  BY ReleasesAreModules DEF TypedTable

\* Whatever a file holds, what a release makes of it fits the release.
LEMMA RestoredTyped ==
  ASSUME NEW m \in Releases, NEW s, SnapshotSound(s), Restorable(m, s)
  PROVE  TypedTable(m, Restored(m, s))
<1>1. s.values \in Seq(Value) /\ s.ids \in Seq(Nat \ {0}) /\ s.version \in {1, 2}
  BY DEF SnapshotSound, SnapshotRecord
<1>2. m.initial \in Seq(Value) /\ m.ids \in Seq(Nat \ {0})
  BY ReleasesAreModules
<1>3. CASE s.version = 1
  <2>1. Restored(m, s) = s.values
    BY <1>3 DEF Restored
  <2>2. RestorableByPosition(m, s)
    BY <1>3 DEF Restorable
  <2> QED
    BY <1>1, <2>1, <2>2 DEF RestorableByPosition, TypedTable
<1>4. CASE s.version = 2
  <2>1. RestorableById(m, s) /\ Len(s.ids) = Len(s.values)
    BY <1>4 DEF Restorable, SnapshotSound
  <2>2. DOMAIN s.ids = DOMAIN s.values /\ DOMAIN m.ids = DOMAIN m.initial
    BY <1>1, <1>2, <2>1, LenProperties DEF RestorableById
  <2>3. ASSUME NEW i \in DOMAIN m.initial
        PROVE  Restored(m, s)[i] \in Value /\ TypeOf(Restored(m, s)[i]) = TypeOf(m.initial[i])
    <3>1. CASE \E n \in DOMAIN s.ids : SameId(m, s, i, n)
      <4>1. PICK n \in DOMAIN s.ids : n = CHOOSE k \in DOMAIN s.ids : SameId(m, s, i, k)
        BY <3>1
      <4>2. SameId(m, s, i, n)
        BY <3>1, <4>1
      <4>3. Restored(m, s)[i] = s.values[n]
        BY <1>4, <3>1, <4>1 DEF Restored
      <4>4. s.values[n] \in Value
        BY <1>1, <2>2, LenProperties, ElementOfSeq
      <4> QED
        BY <2>1, <2>2, <4>2, <4>3, <4>4 DEF RestorableById
    <3>2. CASE ~\E n \in DOMAIN s.ids : SameId(m, s, i, n)
      <4>1. Restored(m, s)[i] = m.initial[i]
        BY <1>4, <3>2 DEF Restored
      <4> QED
        BY <1>2, <4>1, LenProperties, ElementOfSeq
    <3> QED
      BY <3>1, <3>2
  <2>4. DOMAIN Restored(m, s) = DOMAIN m.initial /\ Restored(m, s) = [i \in DOMAIN m.initial |-> Restored(m, s)[i]]
    BY <1>4 DEF Restored
  <2>5. PICK t : t = Restored(m, s)
    OBVIOUS
  <2>6. Len(m.initial) \in Nat /\ DOMAIN m.initial = 1 .. Len(m.initial)
    BY <1>2, LenProperties
  <2>7. t \in Seq(Value)
    BY <2>3, <2>4, <2>5, <2>6, IsASeq
  <2>8. Len(t) = Len(m.initial)
    BY <2>4, <2>5, <2>6, <2>7, LenProperties
  <2> QED
    BY <2>3, <2>4, <2>5, <2>7, <2>8 DEF TypedTable
<1> QED
  BY <1>1, <1>3, <1>4

LEMMA AssignmentsTyped ==
  ASSUME NEW m \in Releases, NEW slots, TypedTable(m, slots),
         NEW t \in Assignments(m, slots, Written)
  PROVE  TypedTable(m, t)
<1>0. PICK i \in DOMAIN slots : t \in {[slots EXCEPT ![i] = v] : v \in Assignable(m, slots, i, Written)}
  BY DEF Assignments
<1>1. PICK v \in Assignable(m, slots, i, Written) : t = [slots EXCEPT ![i] = v]
  BY <1>0
<1>2. v \in Value /\ TypeOf(v) = TypeOf(slots[i])
  BY SessionAssumption DEF Assignable
<1>3. slots \in Seq(Value) /\ DOMAIN slots = 1 .. Len(slots)
  BY LenProperties DEF TypedTable
<1>4. t \in Seq(Value) /\ Len(t) = Len(slots) /\ DOMAIN t = DOMAIN slots
  BY <1>1, <1>2, <1>3, ExceptSeq
<1>5. \A k \in DOMAIN slots : t[k] = IF k = i THEN v ELSE slots[k]
  BY <1>1, <1>3
<1> QED
  BY <1>2, <1>4, <1>5 DEF TypedTable

LEMMA SnapshotIsSound ==
  ASSUME NEW m \in Releases, NEW slots, TypedTable(m, slots)
  PROVE  SnapshotSound(Snapshot(m, slots))
  BY ReleasesAreModules DEF SnapshotSound, SnapshotRecord, Snapshot, TypedTable, StatesDecode

LEMMA FirstTableTyped ==
  ASSUME StateInv, NEW m \in Releases
  PROVE  TypedTable(m, FirstTable(m))
  BY InitialTyped, RestoredTyped DEF StateInv, FirstTable, KeepsFile

\* A session starts, or ends before it has begun.
LEMMA OpenFileState ==
  ASSUME StateInv, NEW m \in Releases, OpenFile(m), ~alive, writing' = writing,
         alive' => running' \in Releases /\ TypedTable(running', table')
  PROVE  StateInv'
<1>1. writing = None
  BY DEF StateInv
<1>2. file' # None => file' = file /\ file # None
  BY DEF OpenFile, KeepsFile
<1>3. opened' \subseteq Releases
  BY DEF OpenFile, StateInv
<1>4. saved' = saved /\ LastSnapshot' = LastSnapshot
  BY DEF OpenFile, LastSnapshot
<1>5. ASSUME saved # None, \A k \in opened' : Restorable(k, LastSnapshot)
      PROVE  file' = LastSnapshot
  <2>1. \A k \in opened : Restorable(k, LastSnapshot)
    BY <1>5 DEF OpenFile
  <2>2. file = LastSnapshot /\ Restorable(m, file)
    BY <1>5, <2>1 DEF OpenFile, StateInv
  <2> QED
    BY <2>2 DEF OpenFile, KeepsFile
<1> QED
  BY <1>1, <1>2, <1>3, <1>4, <1>5 DEF StateInv, TableTyped

\* The main thread changes nothing but the table.
LEMMA RunState ==
  ASSUME StateInv, MainThreadFree, UNCHANGED <<alive, running, file, writing, saved, opened>>,
         table' = table \/ (alive /\ table' \in Assignments(running, table, Written))
  PROVE  StateInv'
<1>1. alive' => running' \in Releases /\ TypedTable(running', table')
  BY AssignmentsTyped DEF StateInv, TableTyped
<1> QED
  BY <1>1 DEF StateInv, TableTyped, MainThreadFree, LastSnapshot

\* The session ends.
LEMMA ClosedState ==
  ASSUME StateInv, Closed, writing' = None, UNCHANGED <<file, saved, opened>>
  PROVE  StateInv'
  BY DEF StateInv, TableTyped, Closed, LastSnapshot

LEMMA StateNext == StateInv /\ [Next]_vars => StateInv'
<1> SUFFICES ASSUME StateInv, [Next]_vars PROVE StateInv'
  OBVIOUS
<1>1. ASSUME NEW m \in Releases, Start(m) PROVE StateInv'
  <2>1. table' = FirstTable(m) \/ table' \in Assignments(m, FirstTable(m), Written)
    BY <1>1 DEF Start, Runs
  <2>2. TypedTable(m, table')
    BY <2>1, FirstTableTyped, AssignmentsTyped
  <2> QED
    BY <1>1, <2>2, OpenFileState DEF Start
<1>2. ASSUME NEW m \in Releases, StartFails(m) PROVE StateInv'
  BY <1>2, OpenFileState DEF StartFails, Closed
<1>3. CASE Event
  BY <1>3, RunState DEF Event, Runs, Open
<1>4. ASSUME NEW call \in flight, NEW result \in Answers, Answer(call, result) PROVE StateInv'
  BY <1>4 DEF Answer, StateInv, TableTyped, LastSnapshot, runtime
<1>5. CASE RunAnswer
  <2> DEFINE call   == Head(posted).call
             result == Head(posted).result
  <2> HIDE DEF call, result
  <2>1. /\ MainThreadFree /\ UNCHANGED <<file, writing, saved, opened>>
        /\ DropAnswer(call) \/ Refuse(call, result) \/ Resume(call, result) \/ ResumeFails(call, result)
    BY <1>5 DEF RunAnswer, call, result
  <2>2. CASE DropAnswer(call) \/ Refuse(call, result)
    BY <2>1, <2>2, RunState DEF DropAnswer, Refuse, runtime
  <2>3. CASE Resume(call, result) \/ ResumeFails(call, result)
    <3>1. /\ alive /\ UNCHANGED <<alive, running>>
          /\ table' = table \/ table' \in Assignments(running, table, Written)
      BY <2>3 DEF Resume, ResumeFails, Runs, Current
    <3> QED
      BY <2>1, <3>1, RunState
  <2> QED
    BY <2>1, <2>2, <2>3
<1>6. CASE CancelTasks \/ FailUi
  BY <1>6, RunState DEF CancelTasks, FailUi, Open
<1>7. CASE Persist \/ PersistAndClose
  BY <1>7 DEF Persist, PersistAndClose, StateInv, TableTyped, LastSnapshot, Open, Draft, runtime
<1>8. CASE Close
  BY <1>8, ClosedState DEF Close, MainThreadFree
<1>9. CASE Move
  <2>1. /\ alive /\ file' = Snapshot(running, table)
        /\ saved' = [release |-> running, table |-> table] /\ opened' = {}
        /\ running \in Releases /\ TypedTable(running, table)
        /\ writing' = None
    BY <1>9 DEF Move, AfterWriting, StateInv, TableTyped
  <2>2. SnapshotSound(file')
    BY <2>1, SnapshotIsSound
  <2>3. alive' => UNCHANGED <<running, table>>
    BY <1>9 DEF Move, AfterWriting, Closed, runtime
  <2>4. LastSnapshot' = Snapshot(running, table)
    BY <2>1 DEF LastSnapshot
  <2> QED
    BY <2>1, <2>2, <2>3, <2>4 DEF StateInv, TableTyped
<1>10. CASE WriteFails
  BY <1>10, ClosedState DEF WriteFails, AfterWriting, StateInv, TableTyped, LastSnapshot, runtime
<1>11. CASE Kill
  BY <1>11, ClosedState DEF Kill
<1>12. CASE UNCHANGED vars
  BY <1>12 DEF vars, runtime, StateInv, TableTyped, LastSnapshot
<1> QED
  BY <1>1, <1>2, <1>3, <1>4, <1>5, <1>6, <1>7, <1>8, <1>9, <1>10, <1>11, <1>12 DEF Next

LEMMA StateInvariant == Spec => []StateInv
<1>1. Init => StateInv
  BY DEF Init, StateInv, TableTyped
<1> QED
  BY <1>1, StateNext, PTL DEF Spec

\* Whatever file a session was restored from, a table has the slots of the release that
\* runs, with the types its bytecode was verified for.
THEOREM TablesStayTyped == Spec => []TableTyped
<1>1. StateInv => TableTyped
  BY DEF StateInv
<1> QED
  BY <1>1, StateInvariant, PTL

\* A handler leaves the table alone or leaves it within the budget of its release: a
\* table that was restored over the budget is changed only to fit it again.
ChangesFit ==
  [][session' = session /\ alive'
       => table' = table \/ StateSize(table') <= running.limits.maxStateBytes]_vars

LEMMA AssignmentsFit ==
  ASSUME NEW m \in Releases, NEW slots, TypedTable(m, slots),
         NEW t \in Assignments(m, slots, Written)
  PROVE  StateSize(t) <= m.limits.maxStateBytes
<1>1. PICK i \in DOMAIN slots : t \in {[slots EXCEPT ![i] = v] : v \in Assignable(m, slots, i, Written)}
  BY DEF Assignments
<1>2. PICK v \in Assignable(m, slots, i, Written) : t = [slots EXCEPT ![i] = v]
  BY <1>1
<1>3. /\ v \in Value
      /\ StateSize(slots) - ValueSize(slots[i]) + ValueSize(v) <= m.limits.maxStateBytes
  BY SessionAssumption DEF Assignable
<1> QED
  BY <1>2, <1>3, StateSizeAfter DEF TypedTable

\* Only a table that was restored may exceed the budget of its release; whatever
\* handlers do to a table leaves it within.
THEOREM TableChangesFit == Spec => ChangesFit
<1> DEFINE Fits == session' = session /\ alive'
                     => table' = table \/ StateSize(table') <= running.limits.maxStateBytes
<1>1. ASSUME StateInv, SessionTypes, [Next]_vars PROVE [Fits]_vars
  <2>1. CASE \E m \in Releases : Start(m) \/ StartFails(m)
    <3>1. session' = session + 1
      BY <2>1 DEF Start, StartFails
    <3> QED
      BY <1>1, <3>1 DEF SessionTypes
  <2>2. CASE Event
    <3>1. alive /\ (table' = table \/ table' \in Assignments(running, table, Written))
      BY <2>2 DEF Event, Runs, Open
    <3> QED
      BY <1>1, <3>1, AssignmentsFit DEF StateInv, TableTyped
  <2>3. CASE RunAnswer
    <3> DEFINE call   == Head(posted).call
               result == Head(posted).result
    <3> HIDE DEF call, result
    <3>1. DropAnswer(call) \/ Refuse(call, result) \/ Resume(call, result) \/ ResumeFails(call, result)
      BY <2>3 DEF RunAnswer, call, result
    <3>2. CASE DropAnswer(call) \/ Refuse(call, result)
      BY <3>2 DEF DropAnswer, Refuse, runtime
    <3>3. CASE Resume(call, result) \/ ResumeFails(call, result)
      <4>1. alive /\ (table' = table \/ table' \in Assignments(running, table, Written))
        BY <3>3 DEF Resume, ResumeFails, Runs, Current
      <4> QED
        BY <1>1, <4>1, AssignmentsFit DEF StateInv, TableTyped
    <3> QED
      BY <3>1, <3>2, <3>3
  <2>4. CASE Move \/ WriteFails
    BY <2>4 DEF Move, WriteFails, AfterWriting, Closed, runtime
  <2>5. CASE Close \/ Kill
    BY <2>5 DEF Close, Kill, Closed
  <2>6. CASE CancelTasks \/ FailUi \/ Persist \/ PersistAndClose
    BY <2>6 DEF CancelTasks, FailUi, Persist, PersistAndClose, runtime
  <2>7. ASSUME NEW call \in flight, NEW result \in Answers, Answer(call, result) PROVE Fits
    BY <2>7 DEF Answer, runtime
  <2> QED
    BY <1>1, <2>1, <2>2, <2>3, <2>4, <2>5, <2>6, <2>7 DEF Next
<1> QED
  BY <1>1, StateInvariant, CallsInvariant, PTL DEF Spec, ChangesFit

-----------------------------------------------------------------------------
(***************************************************************************)
(* Persisted state is found again.                                         *)
(***************************************************************************)
\* What a snapshot is budgeted by when it is read is no more than what the table was
\* budgeted by.
LEMMA ReadBudget ==
  ASSUME NEW m \in Releases, NEW slots, TypedTable(m, slots),
         StateSize(slots) <= m.limits.maxStateBytes
  PROVE  WithinBudget(m, Snapshot(m, slots))
<1>1. slots \in Seq(Value)
  BY DEF TypedTable
<1>2. PICK f : f = [i \in DOMAIN slots |-> ReadSize(slots[i])]
  OBVIOUS
<1>3. PICK g : g = [i \in DOMAIN slots |-> ValueSize(slots[i])]
  OBVIOUS
<1>4. ASSUME NEW i \in DOMAIN slots PROVE f[i] \in Nat /\ g[i] \in Nat /\ f[i] <= g[i]
  <2>1. slots[i] \in Value
    BY <1>1, StateSizeIsSum
  <2>2. PICK v : v = slots[i]
    OBVIOUS
  <2>3. f[i] = ReadSize(v) /\ g[i] = ValueSize(v)
    BY <1>2, <1>3, <2>2
  <2>4. ReadSize(v) \in Nat /\ ValueSize(v) \in Nat /\ ReadSize(v) <= ValueSize(v)
    BY <2>1, <2>2, ValueIsTyped DEF ReadSize, ValueSize, ValueType
  <2> QED
    BY <2>3, <2>4
<1>5. IsFiniteSet(DOMAIN slots)
  BY <1>1, StateSizeIsSum
<1>6. SumFunctionOnSet(f, DOMAIN slots) <= SumFunctionOnSet(g, DOMAIN slots)
  BY <1>4, <1>5, SumMonotone
<1>7. StateSize(slots) = SumFunctionOnSet(g, DOMAIN slots)
  BY <1>1, <1>3, StateSizeIsSum
<1>8. SumFunctionOnSet(f, DOMAIN slots) \in Nat /\ SumFunctionOnSet(g, DOMAIN slots) \in Nat
  BY <1>4, <1>5, SumInNat
<1>9. m.limits.maxStateBytes \in Nat
  BY SessionAssumption DEF StateModule, Limits
<1>10. SumFunctionOnSet(f, DOMAIN slots) <= m.limits.maxStateBytes
  BY <1>6, <1>7, <1>8, <1>9
<1>11. DOMAIN f = DOMAIN slots /\ Snapshot(m, slots).values = slots
  BY <1>2 DEF Snapshot
<1> QED
  BY <1>2, <1>10, <1>11 DEF WithinBudget, SumFunction

\* The release that persisted a table restores it.
LEMMA SameRelease ==
  ASSUME NEW m \in Releases, NEW slots, TypedTable(m, slots),
         StateSize(slots) <= m.limits.maxStateBytes
  PROVE  /\ Restorable(m, Snapshot(m, slots))
         /\ Restored(m, Snapshot(m, slots)) = slots
<1>1. PICK s : s = Snapshot(m, slots)
  OBVIOUS
<1>2. /\ s.version = IF m.format >= 4 THEN 2 ELSE 1
      /\ s.schema = m.schema /\ s.ids = m.ids /\ s.values = slots
  BY <1>1 DEF Snapshot
<1>3. s # Damaged /\ WithinBudget(m, s)
  BY <1>1, ReadBudget, SnapshotIsSound, DamagedAssumption DEF SnapshotSound, SnapshotRecord
<1>4. /\ m.format \in Nat /\ m.ids \in Seq(Nat \ {0}) /\ m.initial \in Seq(Value)
      /\ StatesDecode(m)
  BY ReleasesAreModules
<1>5. /\ slots \in Seq(Value) /\ Len(slots) = Len(m.initial) /\ DOMAIN slots = DOMAIN m.initial
      /\ \A i \in DOMAIN slots : TypeOf(slots[i]) = TypeOf(m.initial[i])
  BY <1>4, LenProperties DEF TypedTable
<1>6. CASE m.format >= 4
  <2>1. s.version = 2 /\ Len(m.ids) = Len(m.initial) /\ DOMAIN m.ids = DOMAIN m.initial
    BY <1>2, <1>4, <1>6, LenProperties DEF StatesDecode
  <2>2. \A i, n \in DOMAIN m.ids : SameId(m, s, i, n) <=> i = n
    BY <1>2, <1>4 DEF SameId, StatesDecode, IsInjective
  <2>3. m.ids # <<>> => 1 \in DOMAIN m.ids
    BY <1>4, LenProperties, EmptySeq
  <2>4. RestorableById(m, s)
    BY <1>2, <1>5, <2>1, <2>2, <2>3 DEF RestorableById
  <2>5. \A i \in DOMAIN m.initial : Restored(m, s)[i] = slots[i]
    <3> SUFFICES ASSUME NEW i \in DOMAIN m.initial PROVE Restored(m, s)[i] = slots[i]
      OBVIOUS
    <3>1. i = CHOOSE n \in DOMAIN s.ids : SameId(m, s, i, n)
      BY <1>2, <2>1, <2>2
    <3>2. \E n \in DOMAIN s.ids : SameId(m, s, i, n)
      BY <1>2, <2>1, <2>2
    <3> QED
      BY <1>2, <2>1, <3>1, <3>2 DEF Restored
  <2>6. Restored(m, s) = [i \in DOMAIN m.initial |-> Restored(m, s)[i]]
    BY <2>1 DEF Restored
  <2>7. slots = [i \in DOMAIN m.initial |-> slots[i]]
    BY <1>5
  <2>8. Restored(m, s) = slots
    BY <2>5, <2>6, <2>7
  <2> QED
    BY <1>1, <1>3, <2>1, <2>4, <2>8 DEF Restorable
<1>7. CASE ~(m.format >= 4)
  <2>1. s.version = 1
    BY <1>2, <1>7
  <2> QED
    BY <1>1, <1>2, <1>3, <1>5, <2>1 DEF Restorable, Restored, RestorableByPosition
<1> QED
  BY <1>6, <1>7

\* A compatible release does not refuse what another persisted.
LEMMA CompatibleRestores ==
  ASSUME NEW m \in Releases, NEW r \in Releases, NEW slots, TypedTable(r, slots), m # r,
         Compatible(m, r), WithinBudget(m, Snapshot(r, slots))
  PROVE  Restorable(m, Snapshot(r, slots))
<1>1. PICK s : s = Snapshot(r, slots)
  OBVIOUS
<1>2. /\ m.format >= 4 /\ r.format >= 4
      /\ \A i \in DOMAIN m.ids, n \in DOMAIN r.ids :
           SameId(m, r, i, n) => TypeOf(m.initial[i]) = TypeOf(r.initial[n])
      /\ m.ids # <<>> /\ r.ids # <<>> =>
           \E i \in DOMAIN m.ids, n \in DOMAIN r.ids : SameId(m, r, i, n)
  BY DEF Compatible
<1>3. s.version = 2 /\ s.ids = r.ids /\ s.values = slots
  BY <1>1, <1>2 DEF Snapshot
<1>4. s # Damaged /\ WithinBudget(m, s)
  BY <1>1, SnapshotIsSound, DamagedAssumption DEF SnapshotSound, SnapshotRecord
<1>5. /\ Len(m.ids) = Len(m.initial) /\ Len(r.ids) = Len(r.initial)
      /\ r.ids \in Seq(Nat \ {0}) /\ r.initial \in Seq(Value)
  BY <1>2, ReleasesAreModules DEF StatesDecode
<1>6. \A n \in DOMAIN r.ids : TypeOf(slots[n]) = TypeOf(r.initial[n])
  <2>1. slots \in Seq(Value) /\ Len(slots) = Len(r.ids)
    BY <1>5 DEF TypedTable
  <2>2. DOMAIN slots = DOMAIN r.ids
    BY <1>5, <2>1, LenProperties
  <2> QED
    BY <2>2 DEF TypedTable
<1>7. \A i \in DOMAIN m.ids, n \in DOMAIN s.ids : SameId(m, s, i, n) <=> SameId(m, r, i, n)
  BY <1>3 DEF SameId
<1>8. RestorableById(m, s)
  BY <1>2, <1>3, <1>5, <1>6, <1>7 DEF RestorableById
<1> QED
  BY <1>1, <1>3, <1>4, <1>8 DEF Restorable

\* It finds the values of the ids the two share, and has its own for the others.
LEMMA OtherRelease ==
  ASSUME NEW m \in Releases, NEW r \in Releases, NEW slots, TypedTable(r, slots),
         r.format >= 4, Restorable(m, Snapshot(r, slots)), NEW i \in DOMAIN m.initial
  PROVE  \/ \E n \in DOMAIN r.ids :
              SameId(m, r, i, n) /\ Restored(m, Snapshot(r, slots))[i] = slots[n]
         \/ /\ \A n \in DOMAIN r.ids : ~SameId(m, r, i, n)
            /\ Restored(m, Snapshot(r, slots))[i] = m.initial[i]
<1>1. PICK s : s = Snapshot(r, slots)
  OBVIOUS
<1>2. s.version = 2 /\ s.ids = r.ids /\ s.values = slots
  BY <1>1 DEF Snapshot
<1>3. \A n \in DOMAIN r.ids : SameId(m, s, i, n) <=> SameId(m, r, i, n)
  BY <1>2 DEF SameId
<1>4. CASE \E n \in DOMAIN s.ids : SameId(m, s, i, n)
  <2>1. PICK n \in DOMAIN s.ids : n = CHOOSE k \in DOMAIN s.ids : SameId(m, s, i, k)
    BY <1>4
  <2>2. SameId(m, s, i, n) /\ Restored(m, s)[i] = s.values[n]
    BY <1>2, <1>4, <2>1 DEF Restored
  <2> QED
    BY <1>1, <1>2, <1>3, <2>2
<1>5. CASE ~\E n \in DOMAIN s.ids : SameId(m, s, i, n)
  <2>1. Restored(m, s)[i] = m.initial[i]
    BY <1>2, <1>5 DEF Restored
  <2> QED
    BY <1>1, <1>2, <1>3, <1>5, <2>1
<1> QED
  BY <1>4, <1>5

\* State that was persisted survives kills, failed writes and starts of compatible
\* releases: the release that persisted it restores the very table, every other finds
\* what it shares with it by id.
THEOREM PersistedStateSurvives == Spec => []StateSurvives
<1>1. ASSUME StateInv PROVE StateSurvives
  <2> DEFINE Reads(m) == Compatible(m, saved.release) /\ WithinBudget(m, LastSnapshot)
  <2> SUFFICES ASSUME saved # None,
                      StateSize(saved.table) <= saved.release.limits.maxStateBytes,
                      \A k \in opened : Reads(k),
                      NEW m \in Releases, Reads(m)
               PROVE  Finds(m)
    BY DEF StateSurvives
  <2>1. PICK r, slots : r = saved.release /\ slots = saved.table
    OBVIOUS
  <2>2. /\ r \in Releases /\ TypedTable(r, slots) /\ LastSnapshot = Snapshot(r, slots)
        /\ StateSize(slots) <= r.limits.maxStateBytes
    BY <1>1, <2>1 DEF StateInv, LastSnapshot
  <2>3. ASSUME NEW k \in Releases, Reads(k) PROVE Restorable(k, LastSnapshot)
    <3>1. CASE k = r
      BY <2>2, <3>1, SameRelease
    <3>2. CASE k # r
      BY <2>1, <2>2, <2>3, <3>2, CompatibleRestores
    <3> QED
      BY <3>1, <3>2
  <2>4. \A k \in opened : Restorable(k, LastSnapshot)
    BY <1>1, <2>3 DEF StateInv
  <2>5. file = LastSnapshot /\ Restorable(m, file)
    BY <1>1, <2>3, <2>4 DEF StateInv
  <2>6. CASE m = r
    <3>1. Restored(m, file) = slots
      BY <2>2, <2>5, <2>6, SameRelease
    <3> QED
      BY <2>1, <2>5, <2>6, <3>1 DEF Finds
  <2>7. CASE m # r
    <3>1. r.format >= 4
      BY <2>1, <2>7 DEF Compatible
    <3>2. \A i \in DOMAIN m.initial :
            \/ \E n \in DOMAIN r.ids : SameId(m, r, i, n) /\ Restored(m, file)[i] = slots[n]
            \/ /\ \A n \in DOMAIN r.ids : ~SameId(m, r, i, n)
               /\ Restored(m, file)[i] = m.initial[i]
      BY <2>2, <2>5, <3>1, OtherRelease
    <3> QED
      BY <2>1, <2>5, <2>7, <3>2 DEF Finds
  <2> QED
    BY <2>6, <2>7
<1> QED
  BY <1>1, StateInvariant, PTL

=============================================================================
