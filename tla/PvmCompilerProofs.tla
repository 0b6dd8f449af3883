------------------------- MODULE PvmCompilerProofs -------------------------
(***************************************************************************)
(* What the compiler's operators compute, for every source.                *)
(*                                                                         *)
(* The operators on sequences are recursive functions.  Nothing is assumed *)
(* of them: that such functions exist, and what they yield, is derived     *)
(* below from the well-foundedness of finite sets.                         *)
(***************************************************************************)
EXTENDS PvmCompiler, SequenceTheorems, FiniteSetTheorems, TLAPS

-----------------------------------------------------------------------------
(***************************************************************************)
(* Induction and recursion over the natural numbers, on sets and functions *)
(***************************************************************************)
\* A set that holds 0 and, with a number, the next one holds all of them.
LEMMA Induction ==
  ASSUME NEW S, 0 \in S, \A n \in Nat : n \in S => n + 1 \in S
  PROVE  Nat \subseteq S
<1> SUFFICES ASSUME NEW m \in Nat, m \notin S PROVE FALSE
  OBVIOUS
<1> DEFINE Outside == {k \in 0 .. m : k \notin S}
           Initials == {0 .. k : k \in Outside}
<1>1. IsFiniteSet(0 .. m)
  BY FS_Interval
<1>2. IsWellFoundedOn(StrictSubsetOrdering(0 .. m), SUBSET (0 .. m))
  BY <1>1, FS_StrictSubsetOrderingWellFounded, FS_FiniteSubsetsOfFinite
<1>3. Initials \subseteq SUBSET (0 .. m) /\ Initials # {}
  <2>1. m \in Outside
    OBVIOUS
  <2> QED
    BY <2>1
<1>4. PICK s \in Initials : \A t \in Initials : <<t, s>> \notin StrictSubsetOrdering(0 .. m)
  <2> HIDE DEF Initials
  <2> QED
    BY <1>2, <1>3, WFMin
<1>5. PICK k \in Outside : s = 0 .. k
  OBVIOUS
<1>6. k \in Nat /\ k # 0 /\ k <= m /\ k - 1 \in Nat
  OBVIOUS
<1>7. k - 1 \in Outside
  <2>1. k - 1 \in S => k \in S
    BY <1>6
  <2> QED
    BY <1>5, <1>6, <2>1
<1>8. 0 .. (k - 1) \in Initials
  BY <1>7
<1>9. k \in 0 .. k /\ k \notin 0 .. (k - 1) /\ 0 .. (k - 1) \subseteq 0 .. k
  BY <1>6
<1> QED
  BY <1>3, <1>4, <1>5, <1>8, <1>9 DEF StrictSubsetOrdering

\* A function defined by its value at 0 and a step exists.
Approximates(S, a, step, n, g) ==
  /\ g \in [0 .. n -> S] /\ g[0] = a
  /\ \A k \in 0 .. n - 1 : g[k + 1] = step[<<k, g[k]>>]

LEMMA ApproximationsAgree ==
  ASSUME NEW S, NEW a, NEW step, NEW n \in Nat, NEW m \in Nat, n <= m, NEW g, NEW h,
         Approximates(S, a, step, n, g), Approximates(S, a, step, m, h)
  PROVE  \A k \in 0 .. n : g[k] = h[k]
<1> DEFINE Agree == {k \in Nat : k <= n => g[k] = h[k]}
<1>1. 0 \in Agree
  BY DEF Approximates
<1>2. ASSUME NEW k \in Nat, k \in Agree PROVE k + 1 \in Agree
  <2> SUFFICES ASSUME k + 1 <= n PROVE g[k + 1] = h[k + 1]
    OBVIOUS
  <2>1. g[k] = h[k] /\ k \in 0 .. n - 1 /\ k \in 0 .. m - 1
    BY <1>2
  <2> QED
    BY <2>1 DEF Approximates
<1> HIDE DEF Agree
<1>3. Nat \subseteq Agree
  BY <1>1, <1>2, Induction
<1> QED
  BY <1>3 DEF Agree

Recurs(S, a, step, f) ==
  f \in [Nat -> S] /\ f[0] = a /\ \A n \in Nat : f[n + 1] = step[<<n, f[n]>>]

LEMMA Recursion ==
  ASSUME NEW S, NEW a \in S, NEW step \in [Nat \X S -> S]
  PROVE  \E f : Recurs(S, a, step, f)
<1> DEFINE Reached == {n \in Nat : \E g : Approximates(S, a, step, n, g)}
<1>1. 0 \in Reached
  <2>1. Approximates(S, a, step, 0, [k \in 0 .. 0 |-> a])
    BY DEF Approximates
  <2> QED
    BY <2>1
<1>2. ASSUME NEW n \in Nat, n \in Reached PROVE n + 1 \in Reached
  <2>1. PICK g : Approximates(S, a, step, n, g)
    BY <1>2
  <2> DEFINE h == [k \in 0 .. n + 1 |-> IF k = n + 1 THEN step[<<n, g[n]>>] ELSE g[k]]
  <2>2. g[n] \in S
    BY <2>1 DEF Approximates
  <2>3. step[<<n, g[n]>>] \in S
    BY <2>2
  <2>4. h \in [0 .. n + 1 -> S] /\ h[0] = a
    BY <2>1, <2>3 DEF Approximates
  <2>5. ASSUME NEW k \in 0 .. n PROVE h[k + 1] = step[<<k, h[k]>>]
    <3>1. CASE k = n
      <4>1. n \in 0 .. n + 1 /\ n + 1 \in 0 .. n + 1 /\ n # n + 1
        OBVIOUS
      <4>2. h[n + 1] = step[<<n, g[n]>>] /\ h[n] = g[n]
        BY <4>1
      <4> QED
        BY <3>1, <4>2
    <3>2. CASE k # n
      <4>1. k \in 0 .. n - 1 /\ h[k] = g[k] /\ h[k + 1] = g[k + 1]
        BY <3>2
      <4> QED
        BY <2>1, <4>1 DEF Approximates
    <3> QED
      BY <3>1, <3>2
  <2>6. (n + 1) - 1 = n
    OBVIOUS
  <2> HIDE DEF h
  <2>7. Approximates(S, a, step, n + 1, h)
    BY <2>4, <2>5, <2>6 DEF Approximates
  <2> QED
    BY <2>7
<1> DEFINE G(n) == CHOOSE g : Approximates(S, a, step, n, g)
           f == [n \in Nat |-> G(n)[n]]
<1> HIDE DEF Reached
<1>3. Nat \subseteq Reached
  BY <1>1, <1>2, Induction
<1> USE DEF Reached
<1>4. ASSUME NEW n \in Nat PROVE Approximates(S, a, step, n, G(n))
  <2>1. \E g : Approximates(S, a, step, n, g)
    BY <1>3
  <2> QED
    BY <2>1
<1> HIDE DEF G
<1>5. f \in [Nat -> S]
  <2>1. ASSUME NEW n \in Nat PROVE G(n)[n] \in S
    <3>1. Approximates(S, a, step, n, G(n))
      BY <1>4
    <3> QED
      BY <3>1 DEF Approximates
  <2> QED
    BY <2>1
<1>6. f[0] = a
  <2>1. Approximates(S, a, step, 0, G(0))
    BY <1>4
  <2> QED
    BY <2>1 DEF Approximates
<1>7. ASSUME NEW n \in Nat PROVE f[n + 1] = step[<<n, f[n]>>]
  <2>1. Approximates(S, a, step, n, G(n)) /\ Approximates(S, a, step, n + 1, G(n + 1))
    BY <1>4
  <2>2. G(n)[n] = G(n + 1)[n]
    BY <2>1, ApproximationsAgree
  <2>3. n \in 0 .. (n + 1) - 1
    OBVIOUS
  <2>4. G(n + 1)[n + 1] = step[<<n, G(n + 1)[n]>>]
    BY <2>1, <2>3 DEF Approximates
  <2> QED
    BY <2>2, <2>4
<1> HIDE DEF f
<1> QED
  BY <1>5, <1>6, <1>7 DEF Recurs

-----------------------------------------------------------------------------
(***************************************************************************)
(* Sequences                                                               *)
(***************************************************************************)
\* f gives the elements of each prefix that are in the set.
Sieves(X, s, set, f) ==
  /\ f \in [0 .. Len(s) -> Seq(X)]
  /\ f[0] = <<>>
  /\ \A k \in 1 .. Len(s) : f[k] = f[k - 1] \o (IF s[k] \in set THEN <<s[k]>> ELSE <<>>)
  /\ Among(s, set) = f[Len(s)]

LEMMA AmongFunction ==
  ASSUME NEW X, NEW s \in Seq(X), NEW set
  PROVE  \E f : Sieves(X, s, set, f)
<1> DEFINE Piece(k) == IF s[k] \in set THEN <<s[k]>> ELSE <<>>
           step == [x \in Nat \X Seq(X) |->
                      IF x[1] < Len(s) THEN x[2] \o Piece(x[1] + 1) ELSE x[2]]
           Body(f) == [k \in 0 .. Len(s) |-> IF k = 0 THEN <<>> ELSE f[k - 1] \o Piece(k)]
<1>1. Len(s) \in Nat /\ \A k \in 1 .. Len(s) : s[k] \in X
  BY LenProperties
<1>2. ASSUME NEW k \in 1 .. Len(s) PROVE Piece(k) \in Seq(X)
  BY <1>1
<1> HIDE DEF Piece
<1>3. step \in [Nat \X Seq(X) -> Seq(X)]
  <2>1. ASSUME NEW n \in Nat, NEW t \in Seq(X)
        PROVE (IF n < Len(s) THEN t \o Piece(n + 1) ELSE t) \in Seq(X)
    <3>1. CASE n < Len(s)
      <4>1. Piece(n + 1) \in Seq(X)
        BY <1>1, <1>2, <3>1
      <4> QED
        BY <3>1, <4>1, ConcatProperties
    <3> QED
      BY <3>1
  <2> QED
    BY <2>1
<1>4. PICK g \in [Nat -> Seq(X)] : g[0] = <<>> /\ \A n \in Nat : g[n + 1] = step[<<n, g[n]>>]
  <2> DEFINE SX == Seq(X)
  <2>1. <<>> \in SX /\ step \in [Nat \X SX -> SX]
    BY <1>3, EmptySeq
  <2> HIDE DEF step, SX
  <2>2. \E g : Recurs(SX, <<>>, step, g)
    BY <2>1, Recursion
  <2> QED
    BY <2>2 DEF SX, Recurs
<1>5. ASSUME NEW k \in 1 .. Len(s) PROVE g[k] = g[k - 1] \o Piece(k)
  <2>1. k - 1 \in Nat /\ k - 1 < Len(s) /\ (k - 1) + 1 = k /\ g[k - 1] \in Seq(X)
    BY <1>1, SMTT(30)
  <2>2. g[(k - 1) + 1] = step[<<k - 1, g[k - 1]>>]
    BY <1>4, <2>1
  <2> QED
    BY <2>1, <2>2
<1> DEFINE h == [k \in 0 .. Len(s) |-> g[k]]
<1>6. h = Body(h)
  <2>1. ASSUME NEW k \in 0 .. Len(s) PROVE h[k] = IF k = 0 THEN <<>> ELSE h[k - 1] \o Piece(k)
    <3>1. CASE k = 0
      BY <1>1, <1>4, <3>1
    <3>2. CASE k # 0
      <4>1. k \in 1 .. Len(s) /\ k - 1 \in 0 .. Len(s)
        BY <1>1, <3>2
      <4>2. g[k] = g[k - 1] \o Piece(k)
        BY <1>5, <4>1
      <4> QED
        BY <3>2, <4>1, <4>2
    <3> QED
      BY <3>1, <3>2
  <2> QED
    BY <2>1
<1> HIDE DEF h
<1> DEFINE f == CHOOSE f : f = Body(f)
<1>7. f = Body(f)
  BY <1>6
<1>8. Among(s, set) = f[Len(s)]
  BY DEF Among, Piece
<1> HIDE DEF f
<1>9. f[0] = <<>> /\ \A k \in 1 .. Len(s) : f[k] = f[k - 1] \o Piece(k)
  <2>1. \A k \in 0 .. Len(s) : f[k] = IF k = 0 THEN <<>> ELSE f[k - 1] \o Piece(k)
    BY <1>7
  <2>2. 0 \in 0 .. Len(s) /\ \A k \in 1 .. Len(s) : k \in 0 .. Len(s) /\ k # 0
    BY <1>1
  <2> QED
    BY <2>1, <2>2
<1>10. DOMAIN f = 0 .. Len(s)
  BY <1>7
<1>11. \A k \in 0 .. Len(s) : f[k] \in Seq(X)
  <2> DEFINE Typed == {k \in Nat : k <= Len(s) => f[k] \in Seq(X)}
  <2>1. 0 \in Typed
    BY <1>9, EmptySeq
  <2>2. ASSUME NEW k \in Nat, k \in Typed PROVE k + 1 \in Typed
    <3> SUFFICES ASSUME k + 1 <= Len(s) PROVE f[k + 1] \in Seq(X)
      OBVIOUS
    <3>1. f[k] \in Seq(X) /\ k + 1 \in 1 .. Len(s) /\ (k + 1) - 1 = k
      BY <1>1, <2>2
    <3>2. f[k + 1] = f[k] \o Piece(k + 1) /\ Piece(k + 1) \in Seq(X)
      BY <1>2, <1>9, <3>1
    <3> QED
      BY <3>1, <3>2, ConcatProperties
  <2> HIDE DEF Typed
  <2>3. Nat \subseteq Typed
    BY <2>1, <2>2, Induction
  <2> QED
    BY <1>1, <2>3 DEF Typed
<1>12. f \in [0 .. Len(s) -> Seq(X)]
  <2>1. f = [k \in 0 .. Len(s) |-> f[k]]
    BY <1>7, <1>10
  <2> QED
    BY <1>11, <2>1
<1> QED
  BY <1>8, <1>9, <1>12 DEF Piece, Sieves

\* Among keeps the elements that are in the set, and repeats none.
LEMMA AmongElements ==
  ASSUME NEW X, NEW s \in Seq(X), NEW set
  PROVE  /\ Among(s, set) \in Seq(X)
         /\ ToSet(Among(s, set)) = {x \in ToSet(s) : x \in set}
         /\ IsInjective(s) => IsInjective(Among(s, set))
<1>1. PICK f : Sieves(X, s, set, f)
  BY AmongFunction
<1>2. Len(s) \in Nat /\ DOMAIN s = 1 .. Len(s)
  BY LenProperties
<1> DEFINE Prefix(k) == {x \in {s[j] : j \in 1 .. k} : x \in set}
           Good == {k \in Nat : k <= Len(s) =>
                      /\ ToSet(f[k]) = Prefix(k)
                      /\ IsInjective(s) => IsInjective(f[k])}
<1>3. 0 \in Good
  BY <1>1 DEF Sieves, ToSet, IsInjective
<1>4. ASSUME NEW k \in Nat, k \in Good PROVE k + 1 \in Good
  <2> SUFFICES ASSUME k + 1 <= Len(s)
               PROVE  /\ ToSet(f[k + 1]) = Prefix(k + 1)
                      /\ IsInjective(s) => IsInjective(f[k + 1])
    OBVIOUS
  <2>1. /\ k + 1 \in 1 .. Len(s) /\ (k + 1) - 1 = k /\ k \in 0 .. Len(s)
        /\ f[k] \in Seq(X) /\ s[k + 1] \in X
    BY <1>1, <1>2 DEF Sieves
  <2>2. ToSet(f[k]) = Prefix(k) /\ (IsInjective(s) => IsInjective(f[k]))
    BY <1>4, <2>1
  <2>3. f[k + 1] = f[k] \o (IF s[k + 1] \in set THEN <<s[k + 1]>> ELSE <<>>)
    BY <1>1, <2>1 DEF Sieves
  <2>4. Prefix(k + 1) = IF s[k + 1] \in set THEN Prefix(k) \cup {s[k + 1]} ELSE Prefix(k)
    OBVIOUS
  <2>5. CASE s[k + 1] \notin set
    BY <2>1, <2>2, <2>3, <2>4, <2>5, ConcatEmptySeq
  <2>6. CASE s[k + 1] \in set
    <3>1. f[k + 1] = f[k] \o <<s[k + 1]>>
      BY <2>3, <2>6
    <3>2. Len(f[k]) \in Nat /\ DOMAIN f[k] = 1 .. Len(f[k])
      BY <2>1, LenProperties
    <3>3. /\ DOMAIN f[k + 1] = 1 .. Len(f[k]) + 1
          /\ \A j \in 1 .. Len(f[k]) : f[k + 1][j] = f[k][j]
          /\ f[k + 1][Len(f[k]) + 1] = s[k + 1]
      BY <2>1, <3>1, <3>2
    <3>4. ToSet(f[k + 1]) = ToSet(f[k]) \cup {s[k + 1]}
      <4>1. \A j \in 1 .. Len(f[k]) + 1 : j \in 1 .. Len(f[k]) \/ j = Len(f[k]) + 1
        BY <3>2
      <4>2. \A j \in 1 .. Len(f[k]) : j \in 1 .. Len(f[k]) + 1
        BY <3>2
      <4>3. Len(f[k]) + 1 \in 1 .. Len(f[k]) + 1
        BY <3>2
      <4> QED
        BY <3>2, <3>3, <4>1, <4>2, <4>3 DEF ToSet
    <3>5. ASSUME IsInjective(s) PROVE IsInjective(f[k + 1])
      <4>1. s[k + 1] \notin {s[j] : j \in 1 .. k}
        BY <1>2, <2>1, <3>5 DEF IsInjective
      <4>2. \A j \in 1 .. Len(f[k]) : f[k][j] # s[k + 1]
        BY <2>2, <3>2, <4>1 DEF ToSet
      <4> QED
        BY <2>2, <3>2, <3>3, <3>5, <4>2, SMTT(30) DEF IsInjective
    <3> QED
      BY <2>2, <2>4, <2>6, <3>4, <3>5
  <2> QED
    BY <2>5, <2>6
<1> HIDE DEF Good
<1>5. Nat \subseteq Good
  BY <1>3, <1>4, Induction
<1>6. Len(s) \in Good
  BY <1>2, <1>5
<1>7. ToSet(f[Len(s)]) = Prefix(Len(s)) /\ (IsInjective(s) => IsInjective(f[Len(s)]))
  BY <1>2, <1>6 DEF Good
<1>8. Prefix(Len(s)) = {x \in ToSet(s) : x \in set}
  BY <1>2 DEF ToSet
<1>9. f[Len(s)] \in Seq(X) /\ Among(s, set) = f[Len(s)]
  BY <1>1, <1>2 DEF Sieves
<1> QED
  BY <1>7, <1>8, <1>9

\* f joins the first so many sequences.
Joins(X, ss, f) ==
  /\ f \in [0 .. Len(ss) -> Seq(X)]
  /\ f[0] = <<>>
  /\ \A k \in 1 .. Len(ss) : f[k] = f[k - 1] \o ss[k]
  /\ FlattenSeq(ss) = f[Len(ss)]

LEMMA FlattenFunction ==
  ASSUME NEW X, NEW ss \in Seq(Seq(X))
  PROVE  \E f : Joins(X, ss, f)
<1> DEFINE SX == Seq(X)
           step == [x \in Nat \X SX |-> IF x[1] < Len(ss) THEN x[2] \o ss[x[1] + 1] ELSE x[2]]
           Body(f) == [i \in 1 .. Len(ss) |-> IF i = 1 THEN ss[i] ELSE f[i - 1] \o ss[i]]
<1>1. Len(ss) \in Nat /\ \A k \in 1 .. Len(ss) : ss[k] \in SX
  BY LenProperties
<1>2. step \in [Nat \X SX -> SX] /\ <<>> \in SX
  <2>1. ASSUME NEW n \in Nat, NEW t \in SX
        PROVE (IF n < Len(ss) THEN t \o ss[n + 1] ELSE t) \in SX
    <3>1. CASE n < Len(ss)
      <4>1. ss[n + 1] \in SX
        BY <1>1, <3>1
      <4> QED
        BY <3>1, <4>1, ConcatProperties
    <3> QED
      BY <3>1
  <2> QED
    BY <2>1, EmptySeq
<1> HIDE DEF step, SX
<1>3. PICK g : Recurs(SX, <<>>, step, g)
  BY <1>2, Recursion
<1> USE DEF step
<1>4. ASSUME NEW k \in 1 .. Len(ss) PROVE g[k] = g[k - 1] \o ss[k]
  <2>1. k - 1 \in Nat /\ k - 1 < Len(ss) /\ (k - 1) + 1 = k
    BY <1>1
  <2>2. g[(k - 1) + 1] = step[<<k - 1, g[k - 1]>>] /\ g[k - 1] \in SX
    BY <1>3, <2>1 DEF Recurs
  <2> QED
    BY <2>1, <2>2
<1> HIDE DEF step
<1>5. g \in [Nat -> Seq(X)] /\ g[0] = <<>>
  BY <1>3 DEF Recurs, SX
<1> DEFINE j == [k \in 0 .. Len(ss) |-> g[k]]
<1>6. /\ j \in [0 .. Len(ss) -> Seq(X)] /\ j[0] = <<>>
      /\ \A k \in 1 .. Len(ss) : j[k] = j[k - 1] \o ss[k]
  <2>1. j \in [0 .. Len(ss) -> Seq(X)]
    BY <1>1, <1>5
  <2>2. j[0] = <<>>
    BY <1>1, <1>5
  <2>3. ASSUME NEW k \in 1 .. Len(ss) PROVE j[k] = j[k - 1] \o ss[k]
    <3>1. k \in 0 .. Len(ss) /\ k - 1 \in 0 .. Len(ss)
      BY <1>1
    <3>2. g[k] = g[k - 1] \o ss[k]
      BY <1>4
    <3> QED
      BY <3>1, <3>2
  <2> HIDE DEF j
  <2> QED
    BY <2>1, <2>2, <2>3
<1> HIDE DEF j
<1>8. \A k \in 1 .. Len(ss) : ss[k] \in Seq(X)
  BY <1>1 DEF SX
<1>7. FlattenSeq(ss) = j[Len(ss)]
  <2>1. CASE Len(ss) = 0
    <3>1. ss = <<>>
      BY <2>1, EmptySeq
    <3> QED
      BY <1>6, <2>1, <3>1 DEF FlattenSeq
  <2>2. CASE Len(ss) # 0
    <3> DEFINE h == [k \in 1 .. Len(ss) |-> j[k]]
    <3>1. h = Body(h)
      <4>1. ASSUME NEW k \in 1 .. Len(ss)
            PROVE h[k] = IF k = 1 THEN ss[k] ELSE h[k - 1] \o ss[k]
        <5>1. CASE k = 1
          <6>1. j[k] = j[k - 1] \o ss[k] /\ ss[k] \in Seq(X) /\ k - 1 = 0
            <7>1. j[k] = j[k - 1] \o ss[k] /\ ss[k] \in Seq(X)
              BY <1>6, <1>8
            <7> QED
              BY <5>1, <7>1
          <6>2. j[k] = ss[k]
            BY <1>6, <6>1, ConcatEmptySeq
          <6> QED
            BY <5>1, <6>2
        <5>2. CASE k # 1
          <6>1. k - 1 \in 1 .. Len(ss)
            BY <1>1, <5>2
          <6>2. j[k] = j[k - 1] \o ss[k] /\ h[k] = j[k] /\ h[k - 1] = j[k - 1]
            BY <1>6, <6>1
          <6> QED
            BY <5>2, <6>2
        <5> QED
          BY <5>1, <5>2
      <4> HIDE DEF h
      <4>2. h = [k \in 1 .. Len(ss) |-> h[k]]
        BY DEF h
      <4> QED
        BY <4>1, <4>2
    <3> DEFINE f == CHOOSE f : f = Body(f)
    <3> HIDE DEF h
    <3>2. f = Body(f)
      BY <3>1
    <3>3. FlattenSeq(ss) = f[Len(ss)]
      BY <2>2 DEF FlattenSeq
    <3> HIDE DEF f
    <3>4. \A k \in 1 .. Len(ss) : f[k] = IF k = 1 THEN ss[k] ELSE f[k - 1] \o ss[k]
      BY <3>2
    <3> HIDE DEF Body
    <3> DEFINE Same == {k \in Nat : k + 1 <= Len(ss) => f[k + 1] = j[k + 1]}
    <3>5. 0 \in Same
      <4>1. 1 \in 1 .. Len(ss)
        BY <1>1, <2>2
      <4>2. f[1] = ss[1] /\ j[1] = j[1 - 1] \o ss[1] /\ ss[1] \in Seq(X) /\ 1 - 1 = 0
        <5>1. f[1] = ss[1] /\ j[1] = j[1 - 1] \o ss[1]
          BY <1>6, <3>4, <4>1
        <5>2. ss[1] \in Seq(X)
          BY <1>8, <4>1
        <5> QED
          BY <5>1, <5>2
      <4>3. j[0] \o ss[1] = ss[1]
        BY <1>6, <4>2, ConcatEmptySeq
      <4>4. 0 + 1 = 1
        OBVIOUS
      <4> QED
        BY <4>2, <4>3, <4>4
    <3>6. ASSUME NEW k \in Nat, k \in Same PROVE k + 1 \in Same
      <4> SUFFICES ASSUME (k + 1) + 1 <= Len(ss) PROVE f[(k + 1) + 1] = j[(k + 1) + 1]
        OBVIOUS
      <4>1. /\ (k + 1) + 1 \in 1 .. Len(ss) /\ (k + 1) + 1 # 1 /\ ((k + 1) + 1) - 1 = k + 1
            /\ f[k + 1] = j[k + 1]
        BY <1>1, <3>6
      <4> DEFINE n == (k + 1) + 1
      <4>2. n \in 1 .. Len(ss) /\ n # 1 /\ f[n - 1] = j[n - 1]
        BY <4>1
      <4> HIDE DEF n
      <4>3. f[n] = f[n - 1] \o ss[n] /\ j[n] = j[n - 1] \o ss[n]
        BY <1>6, <3>4, <4>2
      <4> QED
        BY <4>2, <4>3 DEF n
    <3> HIDE DEF Same
    <3>7. Nat \subseteq Same
      BY <3>5, <3>6, Induction
    <3>8. Len(ss) - 1 \in Nat /\ (Len(ss) - 1) + 1 = Len(ss) /\ Len(ss) <= Len(ss)
      BY <1>1, <2>2
    <3>9. f[Len(ss)] = j[Len(ss)]
      <4>1. Len(ss) - 1 \in Same
        BY <3>7, <3>8
      <4> QED
        BY <3>8, <4>1 DEF Same
    <3> QED
      BY <3>3, <3>9
  <2> QED
    BY <2>1, <2>2
<1> HIDE DEF j
<1> QED
  BY <1>6, <1>7 DEF Joins

LEMMA ConcatElements ==
  ASSUME NEW X, NEW s \in Seq(X), NEW t \in Seq(X)
  PROVE  ToSet(s \o t) = ToSet(s) \cup ToSet(t)
<1>1. Len(s) \in Nat /\ Len(t) \in Nat /\ DOMAIN s = 1 .. Len(s) /\ DOMAIN t = 1 .. Len(t)
  BY LenProperties
<1>2. /\ DOMAIN (s \o t) = 1 .. Len(s) + Len(t)
      /\ \A i \in 1 .. Len(s) + Len(t) :
           (s \o t)[i] = IF i <= Len(s) THEN s[i] ELSE t[i - Len(s)]
  BY ConcatProperties, LenProperties
<1>3. \A i \in 1 .. Len(s) + Len(t) : i <= Len(s) => i \in 1 .. Len(s)
  BY <1>1
<1>4. \A i \in 1 .. Len(s) + Len(t) : ~(i <= Len(s)) => i - Len(s) \in 1 .. Len(t)
  BY <1>1
<1>5. ToSet(s \o t) \subseteq ToSet(s) \cup ToSet(t)
  BY <1>1, <1>2, <1>3, <1>4 DEF ToSet
<1>6. \A i \in 1 .. Len(s) : i \in 1 .. Len(s) + Len(t) /\ (s \o t)[i] = s[i]
  BY <1>1, <1>2
<1>7. \A i \in 1 .. Len(t) : Len(s) + i \in 1 .. Len(s) + Len(t) /\ (s \o t)[Len(s) + i] = t[i]
  BY <1>1, <1>2
<1>8. ToSet(s) \cup ToSet(t) \subseteq ToSet(s \o t)
  <2>1. \A x \in ToSet(s) : x \in ToSet(s \o t)
    BY <1>1, <1>2, <1>6 DEF ToSet
  <2>2. ASSUME NEW x \in ToSet(t) PROVE x \in ToSet(s \o t)
    <3>1. PICK i \in 1 .. Len(t) : x = t[i]
      BY <1>1 DEF ToSet
    <3>2. Len(s) + i \in DOMAIN (s \o t) /\ (s \o t)[Len(s) + i] = x
      BY <1>2, <1>7, <3>1
    <3> QED
      BY <3>2 DEF ToSet
  <2> QED
    BY <2>1, <2>2
<1> QED
  BY <1>5, <1>8

\* FlattenSeq holds the elements of all its sequences.
LEMMA FlattenElements ==
  ASSUME NEW X, NEW ss \in Seq(Seq(X))
  PROVE  /\ FlattenSeq(ss) \in Seq(X)
         /\ ToSet(FlattenSeq(ss)) = UNION {ToSet(ss[k]) : k \in DOMAIN ss}
<1>1. PICK f : Joins(X, ss, f)
  BY FlattenFunction
<1>2. Len(ss) \in Nat /\ DOMAIN ss = 1 .. Len(ss) /\ \A k \in 1 .. Len(ss) : ss[k] \in Seq(X)
  BY LenProperties
<1> DEFINE Prefix(k) == UNION {ToSet(ss[i]) : i \in 1 .. k}
           Good == {k \in Nat : k <= Len(ss) => ToSet(f[k]) = Prefix(k)}
<1>3. 0 \in Good
  BY <1>1 DEF Joins, ToSet
<1>4. ASSUME NEW k \in Nat, k \in Good PROVE k + 1 \in Good
  <2> SUFFICES ASSUME k + 1 <= Len(ss) PROVE ToSet(f[k + 1]) = Prefix(k + 1)
    OBVIOUS
  <2>1. k + 1 \in 1 .. Len(ss) /\ (k + 1) - 1 = k /\ k \in 0 .. Len(ss)
    BY <1>2
  <2>2. /\ f[k] \in Seq(X) /\ ss[k + 1] \in Seq(X)
        /\ f[k + 1] = f[k] \o ss[k + 1] /\ ToSet(f[k]) = Prefix(k)
    <3>1. f[k] \in Seq(X) /\ ss[k + 1] \in Seq(X)
      BY <1>1, <1>2, <2>1 DEF Joins
    <3>2. f[k + 1] = f[(k + 1) - 1] \o ss[k + 1]
      BY <1>1, <2>1 DEF Joins
    <3>3. ToSet(f[k]) = Prefix(k)
      BY <1>2, <1>4, <2>1
    <3> QED
      BY <2>1, <3>1, <3>2, <3>3
  <2>3. ToSet(f[k] \o ss[k + 1]) = ToSet(f[k]) \cup ToSet(ss[k + 1])
    BY <2>2, ConcatElements
  <2>4. Prefix(k + 1) = Prefix(k) \cup ToSet(ss[k + 1])
    <3>1. 1 .. k + 1 = (1 .. k) \cup {k + 1}
      OBVIOUS
    <3> QED
      BY <3>1
  <2> QED
    BY <2>2, <2>3, <2>4
<1> HIDE DEF Good
<1>5. Nat \subseteq Good
  BY <1>3, <1>4, Induction
<1>6. ToSet(f[Len(ss)]) = Prefix(Len(ss))
  <2>1. Len(ss) \in Good /\ Len(ss) <= Len(ss)
    BY <1>2, <1>5
  <2> QED
    BY <2>1 DEF Good
<1>7. FlattenSeq(ss) = f[Len(ss)] /\ f[Len(ss)] \in Seq(X)
  BY <1>1, <1>2 DEF Joins
<1> QED
  BY <1>2, <1>6, <1>7

\* To change every element and to flatten can be done in either order.
Mapped(ss, G) == [k \in DOMAIN ss |-> [i \in DOMAIN ss[k] |-> G[ss[k][i]]]]

Maps(G, X, Y) == G \in [X -> Y]

LEMMA FlattenMap ==
  ASSUME NEW X, NEW ss \in Seq(Seq(X)), NEW Y, NEW G, Maps(G, X, Y)
  PROVE  /\ Mapped(ss, G) \in Seq(Seq(Y))
         /\ FlattenSeq(Mapped(ss, G)) \in Seq(Y)
         /\ Len(FlattenSeq(Mapped(ss, G))) = Len(FlattenSeq(ss))
         /\ \A i \in DOMAIN FlattenSeq(ss) :
              FlattenSeq(Mapped(ss, G))[i] = G[FlattenSeq(ss)[i]]
<1> DEFINE Of(s) == [i \in DOMAIN s |-> G[s[i]]]
           tt == [k \in DOMAIN ss |-> Of(ss[k])]
<1>0. tt = Mapped(ss, G) /\ G \in [X -> Y]
  BY DEF Mapped, Maps
<1>1. Len(ss) \in Nat /\ DOMAIN ss = 1 .. Len(ss) /\ \A k \in 1 .. Len(ss) : ss[k] \in Seq(X)
  BY LenProperties
<1>2. ASSUME NEW s \in Seq(X)
      PROVE /\ Of(s) \in Seq(Y) /\ Len(Of(s)) = Len(s)
            /\ \A i \in 1 .. Len(s) : Of(s)[i] = G[s[i]]
  <2>1. Len(s) \in Nat /\ DOMAIN s = 1 .. Len(s) /\ \A i \in 1 .. Len(s) : s[i] \in X
    BY LenProperties
  <2>2. Of(s) \in [1 .. Len(s) -> Y]
    BY <1>0, <2>1
  <2> QED
    BY <2>1, <2>2
<1>3. tt \in Seq(Seq(Y)) /\ Len(tt) = Len(ss) /\ \A k \in 1 .. Len(ss) : tt[k] = Of(ss[k])
  <2>1. \A k \in 1 .. Len(ss) : Of(ss[k]) \in Seq(Y)
    BY <1>1, <1>2
  <2> HIDE DEF Of
  <2>2. tt \in [1 .. Len(ss) -> Seq(Y)]
    BY <1>1, <2>1
  <2> QED
    BY <1>1, <2>2
<1> HIDE DEF tt
<1>4. PICK f : Joins(X, ss, f)
  BY FlattenFunction
<1>5. PICK g : Joins(Y, tt, g)
  BY <1>3, FlattenFunction
<1> DEFINE Good == {k \in Nat : k <= Len(ss) => g[k] = Of(f[k])}
<1>6. 0 \in Good
  BY <1>4, <1>5 DEF Joins
<1>7. ASSUME NEW k \in Nat, k \in Good PROVE k + 1 \in Good
  <2> SUFFICES ASSUME k + 1 <= Len(ss) PROVE g[k + 1] = Of(f[k + 1])
    OBVIOUS
  <2>1. k + 1 \in 1 .. Len(ss) /\ (k + 1) - 1 = k /\ k \in 0 .. Len(ss)
    BY <1>1
  <2>2. /\ f[k] \in Seq(X) /\ ss[k + 1] \in Seq(X) /\ f[k + 1] = f[k] \o ss[k + 1]
        /\ g[k + 1] = g[k] \o tt[k + 1] /\ g[k] = Of(f[k]) /\ tt[k + 1] = Of(ss[k + 1])
    <3>1. f[k] \in Seq(X) /\ ss[k + 1] \in Seq(X) /\ tt[k + 1] = Of(ss[k + 1])
      BY <1>1, <1>3, <1>4, <2>1 DEF Joins
    <3>2. f[k + 1] = f[(k + 1) - 1] \o ss[k + 1]
      BY <1>4, <2>1 DEF Joins
    <3>3. g[k + 1] = g[(k + 1) - 1] \o tt[k + 1]
      BY <1>3, <1>5, <2>1 DEF Joins
    <3>4. g[k] = Of(f[k])
      BY <1>1, <1>7, <2>1
    <3> HIDE DEF Of
    <3> QED
      BY <2>1, <3>1, <3>2, <3>3, <3>4
  <2> DEFINE a == f[k]
             b == ss[k + 1]
  <2>3. a \in Seq(X) /\ b \in Seq(X)
    BY <2>2
  <2> HIDE DEF a, b
  <2>4. /\ Of(a) \in Seq(Y) /\ Len(Of(a)) = Len(a) /\ \A i \in 1 .. Len(a) : Of(a)[i] = G[a[i]]
        /\ Of(b) \in Seq(Y) /\ Len(Of(b)) = Len(b) /\ \A i \in 1 .. Len(b) : Of(b)[i] = G[b[i]]
    BY <1>2, <2>3
  <2>5. /\ a \o b \in Seq(X) /\ Len(a \o b) = Len(a) + Len(b)
        /\ \A i \in 1 .. Len(a) + Len(b) : (a \o b)[i] = IF i <= Len(a) THEN a[i] ELSE b[i - Len(a)]
    BY <2>3, ConcatProperties
  <2>6. /\ Of(a \o b) \in Seq(Y) /\ Len(Of(a \o b)) = Len(a \o b)
        /\ \A i \in 1 .. Len(a \o b) : Of(a \o b)[i] = G[(a \o b)[i]]
    BY <1>2, <2>5
  <2> DEFINE oa == Of(a)
             ob == Of(b)
             oab == Of(a \o b)
  <2> HIDE DEF Of
  <2>7. /\ oa \in Seq(Y) /\ Len(oa) = Len(a) /\ \A i \in 1 .. Len(a) : oa[i] = G[a[i]]
        /\ ob \in Seq(Y) /\ Len(ob) = Len(b) /\ \A i \in 1 .. Len(b) : ob[i] = G[b[i]]
        /\ oab \in Seq(Y) /\ Len(oab) = Len(a) + Len(b)
        /\ \A i \in 1 .. Len(a) + Len(b) : oab[i] = G[(a \o b)[i]]
    BY <2>4, <2>5, <2>6
  <2> HIDE DEF oa, ob, oab
  <2>8. /\ oa \o ob \in Seq(Y) /\ Len(oa \o ob) = Len(oa) + Len(ob)
        /\ \A i \in 1 .. Len(oa) + Len(ob) :
             (oa \o ob)[i] = IF i <= Len(oa) THEN oa[i] ELSE ob[i - Len(oa)]
    <3>1. oa \in Seq(Y) /\ ob \in Seq(Y)
      BY <2>7
    <3> QED
      BY <3>1, ConcatProperties
  <2>9. Len(a) \in Nat /\ Len(b) \in Nat
    BY <2>3, LenProperties
  <2>10. \A i \in 1 .. Len(oab) : oab[i] = (oa \o ob)[i]
    <3> SUFFICES ASSUME NEW i \in 1 .. Len(a) + Len(b) PROVE oab[i] = (oa \o ob)[i]
      BY <2>7
    <3>1. CASE i <= Len(a)
      <4>1. i \in 1 .. Len(a)
        BY <2>9, <3>1
      <4> QED
        BY <2>5, <2>7, <2>8, <3>1, <4>1, ZenonT(40)
    <3>2. CASE ~(i <= Len(a))
      <4>1. i - Len(a) \in 1 .. Len(b)
        BY <2>9, <3>2
      <4>2. (a \o b)[i] = b[i - Len(a)] /\ oab[i] = G[(a \o b)[i]]
        BY <2>5, <2>7, <3>2
      <4>3. (oa \o ob)[i] = ob[i - Len(a)]
        BY <2>7, <2>8, <3>2
      <4> QED
        BY <2>7, <4>1, <4>2, <4>3
    <3> QED
      BY <3>1, <3>2
  <2>11. oab = oa \o ob
    BY <2>7, <2>8, <2>10, SeqEqual
  <2> QED
    BY <2>2, <2>11 DEF oa, ob, oab, a, b
<1> HIDE DEF Good
<1>8. Nat \subseteq Good
  BY <1>6, <1>7, Induction
<1>9. g[Len(ss)] = Of(f[Len(ss)])
  BY <1>1, <1>8 DEF Good
<1>10. FlattenSeq(tt) = Of(FlattenSeq(ss))
  BY <1>3, <1>4, <1>5, <1>9 DEF Joins
<1> QED
  <2>1. FlattenSeq(ss) \in Seq(X)
    BY FlattenElements
  <2>2. FlattenSeq(tt) \in Seq(Y) /\ Len(FlattenSeq(tt)) = Len(FlattenSeq(ss))
    BY <1>2, <1>10, <2>1
  <2>3. \A i \in DOMAIN FlattenSeq(ss) : FlattenSeq(tt)[i] = G[FlattenSeq(ss)[i]]
    BY <1>10
  <2> HIDE DEF Of
  <2> QED
    BY <1>0, <1>3, <2>2, <2>3

\* A set of numbers has a least one.
LEMMA LeastNumber ==
  ASSUME NEW S \in SUBSET Nat, S # {}
  PROVE  \E m \in S : \A n \in S : m <= n
<1> SUFFICES ASSUME \A m \in S : \E n \in S : ~(m <= n) PROVE FALSE
  OBVIOUS
<1> DEFINE Below == {n \in Nat : \A k \in S : n <= k}
<1>1. 0 \in Below
  OBVIOUS
<1>2. ASSUME NEW n \in Nat, n \in Below PROVE n + 1 \in Below
  <2>1. n \notin S
    BY <1>2
  <2>2. ASSUME NEW k \in S PROVE n + 1 <= k
    <3>1. n <= k /\ n # k /\ k \in Nat
      BY <1>2, <2>1
    <3> QED
      BY <3>1
  <2> QED
    BY <2>2
<1> HIDE DEF Below
<1>3. Nat \subseteq Below
  BY <1>1, <1>2, Induction
<1>4. PICK k \in S : TRUE
  OBVIOUS
<1>5. k + 1 <= k /\ k \in Nat
  <2>1. k + 1 \in Below
    BY <1>3
  <2> QED
    BY <2>1 DEF Below
<1> QED
  BY <1>5

\* Interned keeps every element, once.
LEMMA InternedElements ==
  ASSUME NEW X, NEW s \in Seq(X)
  PROVE  /\ Interned(s) \in Seq(X)
         /\ ToSet(Interned(s)) = ToSet(s)
         /\ IsInjective(Interned(s))
<1> DEFINE First == {k \in DOMAIN s : \A j \in 1 .. k - 1 : s[j] # s[k]}
           numbers == [k \in DOMAIN s |-> k]
           first == Among(numbers, First)
<1>1. Len(s) \in Nat /\ DOMAIN s = 1 .. Len(s) /\ \A k \in 1 .. Len(s) : s[k] \in X
  BY LenProperties
<1>2. numbers \in Seq(Nat) /\ ToSet(numbers) = DOMAIN s /\ IsInjective(numbers)
  <2>1. numbers \in [1 .. Len(s) -> Nat] /\ DOMAIN numbers = DOMAIN s
    BY <1>1
  <2> QED
    BY <1>1, <2>1 DEF ToSet, IsInjective
<1> HIDE DEF numbers
<1>3. first \in Seq(Nat) /\ ToSet(first) = First /\ IsInjective(first)
  BY <1>2, AmongElements
<1>4. Interned(s) = [n \in DOMAIN first |-> s[first[n]]]
  BY DEF Interned, numbers
<1> HIDE DEF first
<1>5. /\ Len(first) \in Nat /\ DOMAIN first = 1 .. Len(first)
      /\ \A n \in 1 .. Len(first) : first[n] \in First
  BY <1>3, LenProperties DEF ToSet
<1>6. Interned(s) \in Seq(X)
  <2>1. \A n \in 1 .. Len(first) : s[first[n]] \in X
    BY <1>1, <1>5
  <2>2. Interned(s) \in [1 .. Len(first) -> X]
    BY <1>4, <1>5, <2>1
  <2> QED
    BY <1>5, <2>2
<1>7. ToSet(Interned(s)) = ToSet(s)
  <2>1. ToSet(Interned(s)) \subseteq ToSet(s)
    BY <1>1, <1>4, <1>5 DEF ToSet
  <2>2. ASSUME NEW k \in DOMAIN s PROVE s[k] \in ToSet(Interned(s))
    <3> DEFINE Same == {j \in DOMAIN s : s[j] = s[k]}
    <3>1. PICK m \in Same : \A j \in Same : m <= j
      <4>1. Same \in SUBSET Nat /\ Same # {}
        BY <1>1
      <4> HIDE DEF Same
      <4> QED
        BY <4>1, LeastNumber
    <3>2. m \in First
      <4> SUFFICES ASSUME NEW j \in 1 .. m - 1 PROVE s[j] # s[m]
        OBVIOUS
      <4>1. j \in DOMAIN s /\ ~(m <= j)
        BY <1>1
      <4> QED
        BY <3>1, <4>1
    <3>3. PICK n \in DOMAIN first : first[n] = m
      BY <1>3, <3>2 DEF ToSet
    <3>4. Interned(s)[n] = s[k] /\ n \in DOMAIN Interned(s)
      BY <1>4, <3>1, <3>3
    <3> QED
      BY <3>4 DEF ToSet
  <2>3. ToSet(s) \subseteq ToSet(Interned(s))
    BY <2>2 DEF ToSet
  <2> QED
    BY <2>1, <2>3
<1>8. IsInjective(Interned(s))
  <2> SUFFICES ASSUME NEW a \in DOMAIN first, NEW b \in DOMAIN first, s[first[a]] = s[first[b]]
               PROVE  a = b
    BY <1>4 DEF IsInjective
  <2>1. /\ first[a] \in 1 .. Len(s) /\ first[b] \in 1 .. Len(s)
        /\ \A j \in 1 .. first[a] - 1 : s[j] # s[first[a]]
        /\ \A j \in 1 .. first[b] - 1 : s[j] # s[first[b]]
    BY <1>1, <1>5
  <2>2. ~(first[a] < first[b])
    <3>1. first[a] < first[b] => first[a] \in 1 .. first[b] - 1
      BY <1>1, <2>1
    <3> QED
      BY <2>1, <3>1
  <2>3. ~(first[b] < first[a])
    <3>1. first[b] < first[a] => first[b] \in 1 .. first[a] - 1
      BY <1>1, <2>1
    <3> QED
      BY <2>1, <3>1
  <2>4. first[a] = first[b]
    BY <1>1, <2>1, <2>2, <2>3
  <2> QED
    BY <1>3, <2>4 DEF IsInjective
<1> QED
  BY <1>6, <1>7, <1>8

-----------------------------------------------------------------------------
(***************************************************************************)
(* Names and numbers                                                       *)
(***************************************************************************)
LEMMA SortedNames ==
  ASSUME NEW names \in SUBSET Names
  PROVE  /\ Sorted(names) \in Seq(names)
         /\ Len(Sorted(names)) \in Nat /\ DOMAIN Sorted(names) = 1 .. Len(Sorted(names))
         /\ \A k \in DOMAIN Sorted(names) : Sorted(names)[k] \in names
         /\ ToSet(Sorted(names)) = names
         /\ IsInjective(Sorted(names))
<1>1. NameOrder \in Seq(STRING) /\ IsInjective(NameOrder)
  BY NameAssumption
<1>2. /\ Sorted(names) \in Seq(STRING)
      /\ ToSet(Sorted(names)) = {x \in Names : x \in names}
      /\ IsInjective(Sorted(names))
  BY <1>1, AmongElements DEF Sorted, Names
<1>3. ToSet(Sorted(names)) = names
  BY <1>2
<1>4. Len(Sorted(names)) \in Nat /\ DOMAIN Sorted(names) = 1 .. Len(Sorted(names))
  BY <1>2, LenProperties
<1>5. \A k \in DOMAIN Sorted(names) : Sorted(names)[k] \in names
  BY <1>3 DEF ToSet
<1>6. Sorted(names) \in [1 .. Len(Sorted(names)) -> STRING]
  BY <1>2, LenProperties
<1>7. Sorted(names) \in [1 .. Len(Sorted(names)) -> names]
  BY <1>4, <1>5, <1>6
<1> QED
  BY <1>2, <1>3, <1>4, <1>5, <1>7

\* The number of a name is that of its place in the sorted table.
LEMMA IdOfName ==
  ASSUME NEW names \in SUBSET Names, NEW n \in names
  PROVE  /\ IdOf(n, names) \in 0 .. Len(Sorted(names)) - 1
         /\ IdOf(n, names) + 1 \in DOMAIN Sorted(names)
         /\ Sorted(names)[IdOf(n, names) + 1] = n
<1>1. /\ Len(Sorted(names)) \in Nat /\ DOMAIN Sorted(names) = 1 .. Len(Sorted(names))
      /\ ToSet(Sorted(names)) = names
  BY SortedNames
<1> DEFINE place == CHOOSE k \in DOMAIN Sorted(names) : Sorted(names)[k] = n
<1>2. place \in DOMAIN Sorted(names) /\ Sorted(names)[place] = n
  <2>1. \E k \in DOMAIN Sorted(names) : Sorted(names)[k] = n
    BY <1>1 DEF ToSet
  <2> QED
    BY <2>1
<1>3. IdOf(n, names) = place - 1
  BY DEF IdOf
<1> HIDE DEF place
<1>4. place - 1 \in 0 .. Len(Sorted(names)) - 1 /\ (place - 1) + 1 = place
  BY <1>1, <1>2
<1> QED
  BY <1>2, <1>3, <1>4

LEMMA TableInOrder ==
  ASSUME NEW t, DOMAIN t \in SUBSET Names
  PROVE  /\ DOMAIN InOrder(t) = DOMAIN Sorted(DOMAIN t)
         /\ Len(InOrder(t)) = Len(Sorted(DOMAIN t)) /\ Len(InOrder(t)) \in Nat
         /\ DOMAIN InOrder(t) = 1 .. Len(InOrder(t))
         /\ \A k \in DOMAIN InOrder(t) :
              /\ InOrder(t)[k] = t[Sorted(DOMAIN t)[k]]
              /\ Sorted(DOMAIN t)[k] \in DOMAIN t
         /\ \A n \in DOMAIN t :
              /\ IdOf(n, DOMAIN t) + 1 \in DOMAIN InOrder(t)
              /\ InOrder(t)[IdOf(n, DOMAIN t) + 1] = t[n]
         /\ ToSet(InOrder(t)) = Range(t)
<1> DEFINE names == Sorted(DOMAIN t)
<1>1. /\ Len(names) \in Nat /\ DOMAIN names = 1 .. Len(names)
      /\ \A k \in DOMAIN names : names[k] \in DOMAIN t
      /\ ToSet(names) = DOMAIN t
  BY SortedNames
<1>2. InOrder(t) = [k \in 1 .. Len(names) |-> t[names[k]]]
  BY <1>1 DEF InOrder
<1>3. \A n \in DOMAIN t : IdOf(n, DOMAIN t) + 1 \in DOMAIN names /\ names[IdOf(n, DOMAIN t) + 1] = n
  BY IdOfName
<1> HIDE DEF names
<1>4. DOMAIN InOrder(t) = 1 .. Len(names) /\ Len(InOrder(t)) = Len(names)
  BY <1>1, <1>2
<1>5. \A k \in 1 .. Len(names) : InOrder(t)[k] = t[names[k]]
  BY <1>2
<1>6. ToSet(InOrder(t)) = Range(t)
  BY <1>1, <1>4, <1>5 DEF ToSet, Range
<1> QED
  BY <1>1, <1>3, <1>4, <1>5, <1>6 DEF names

LEMMA ConstantIdOf ==
  ASSUME NEW X, NEW pool \in Seq(X), NEW s \in ToSet(pool)
  PROVE  /\ ConstantId(pool, s) \in 0 .. Len(pool) - 1
         /\ ConstantId(pool, s) + 1 \in DOMAIN pool
         /\ pool[ConstantId(pool, s) + 1] = s
<1>1. Len(pool) \in Nat /\ DOMAIN pool = 1 .. Len(pool)
  BY LenProperties
<1> DEFINE place == CHOOSE k \in DOMAIN pool : pool[k] = s
<1>2. place \in DOMAIN pool /\ pool[place] = s
  <2>1. \E k \in DOMAIN pool : pool[k] = s
    BY DEF ToSet
  <2> QED
    BY <2>1
<1>3. ConstantId(pool, s) = place - 1
  BY DEF ConstantId
<1> HIDE DEF place
<1>4. place - 1 \in 0 .. Len(pool) - 1 /\ (place - 1) + 1 = place
  BY <1>1, <1>2
<1> QED
  BY <1>1, <1>2, <1>3, <1>4

-----------------------------------------------------------------------------
(***************************************************************************)
(* The nodes of a source, and its strings                                  *)
(***************************************************************************)
NodesIn(source) == UNION {ToSet(page) : page \in Range(source.pages)}

AnyString == STRING \cup Strings \cup {EmptyString}

Part == [kind : {"literal", "state"}, of : AnyString]

LEMMA FunctionIsSeq ==
  ASSUME NEW n \in Nat, NEW Y, NEW f \in [1 .. n -> Y]
  PROVE  f \in Seq(Y) /\ Len(f) = n /\ DOMAIN f = 1 .. n
OBVIOUS

LEMMA FrontOf ==
  ASSUME NEW S, NEW s \in Seq(S), NEW n \in 0 .. Len(s)
  PROVE  /\ SubSeq(s, 1, n) \in Seq(S) /\ Len(SubSeq(s, 1, n)) = n
         /\ \A k \in 1 .. n : SubSeq(s, 1, n)[k] = s[k]
         /\ SubSeq(s, 1, n) = [k \in 1 .. n |-> s[k]]
<1>1. n \in Nat /\ \A k \in 1 .. n : s[k] \in S
  BY LenProperties
<1>2. /\ SubSeq(s, 1, n) \in Seq(S) /\ Len(SubSeq(s, 1, n)) = n
      /\ \A k \in 1 .. n : SubSeq(s, 1, n)[k] = s[k]
  BY <1>1, SubSeqProperties
<1> QED
  BY <1>1, <1>2

LEMMA ElementIsIn ==
  ASSUME NEW s, NEW k \in DOMAIN s
  PROVE  s[k] \in ToSet(s)
BY DEF ToSet

LEMMA AllNodesOf ==
  ASSUME NEW source, IsSource(source)
  PROVE  /\ InOrder(source.pages) \in Seq(Seq(NodesIn(source)))
         /\ AllNodes(source) \in Seq(NodesIn(source))
         /\ ToSet(AllNodes(source)) = NodesIn(source)
         /\ \A node \in NodesIn(source) : IsTable(node.props, Template) /\ IsTable(node.events, STRING)
<1>1. DOMAIN source.pages \in SUBSET Names
  BY DEF IsSource
<1>2. ASSUME NEW page \in Range(source.pages)
      PROVE  /\ page \in Seq(NodesIn(source))
             /\ \A k \in DOMAIN page : IsTable(page[k].props, Template) /\ IsTable(page[k].events, STRING)
  <2>1. IsPage(page)
    BY DEF IsSource
  <2>2. page \in Seq(ToSet(page)) /\ ToSet(page) \subseteq NodesIn(source)
    BY <2>1 DEF IsPage, NodesIn
  <2>3. page \in Seq(NodesIn(source))
    BY <2>2, SeqMonotonic
  <2> QED
    BY <2>1, <2>3 DEF IsPage
<1> DEFINE ss == InOrder(source.pages)
<1>3. /\ Len(ss) \in Nat /\ DOMAIN ss = 1 .. Len(ss) /\ ToSet(ss) = Range(source.pages)
      /\ \A k \in 1 .. Len(ss) : ss[k] \in Range(source.pages)
  BY <1>1, TableInOrder DEF ToSet
<1>4. ss \in Seq(Seq(NodesIn(source)))
  <2>1. ss \in [1 .. Len(ss) -> Seq(NodesIn(source))]
    <3>1. ss = [k \in DOMAIN ss |-> ss[k]]
      BY DEF InOrder
    <3> HIDE DEF ss
    <3> QED
      BY <1>2, <1>3, <3>1
  <2> HIDE DEF ss
  <2> QED
    BY <1>3, <2>1, FunctionIsSeq
<1> HIDE DEF ss
<1>5. /\ FlattenSeq(ss) \in Seq(NodesIn(source))
      /\ ToSet(FlattenSeq(ss)) = UNION {ToSet(ss[k]) : k \in DOMAIN ss}
  BY <1>4, FlattenElements
<1>6. UNION {ToSet(ss[k]) : k \in DOMAIN ss} = NodesIn(source)
  <2>1. {ToSet(ss[k]) : k \in DOMAIN ss} = {ToSet(page) : page \in ToSet(ss)}
    BY DEF ToSet
  <2> QED
    BY <1>3, <2>1 DEF NodesIn
<1>7. AllNodes(source) = FlattenSeq(ss)
  BY DEF AllNodes, ss
<1>8. ASSUME NEW node \in NodesIn(source)
      PROVE  IsTable(node.props, Template) /\ IsTable(node.events, STRING)
  <2>1. PICK page \in Range(source.pages) : node \in ToSet(page)
    BY DEF NodesIn
  <2>2. PICK k \in DOMAIN page : node = page[k]
    BY <2>1 DEF ToSet
  <2> QED
    BY <1>2, <2>2
<1> QED
  BY <1>4, <1>5, <1>6, <1>7, <1>8 DEF ss

LEMMA PartsOf ==
  ASSUME NEW template \in Template
  PROVE  /\ Parts(template) \in Seq(Part) /\ Len(Parts(template)) \in Nat \ {0}
         /\ DOMAIN Parts(template) = 1 .. Len(Parts(template))
<1>1. CASE template = <<>>
  <2>2. [kind |-> "literal", of |-> EmptyString] \in Part
    BY DEF Part, AnyString
  <2>3. Parts(template) = <<[kind |-> "literal", of |-> EmptyString]>>
    BY <1>1 DEF Parts, Literal
  <2> QED
    BY <2>2, <2>3
<1>2. CASE template # <<>>
  <2>1. template \in Seq(Part)
    <3> DEFINE Given == [kind : {"literal", "state"}, of : STRING]
    <3>1. template \in Seq(Given)
      BY DEF Template
    <3>2. Given \subseteq Part
      BY DEF Part, AnyString
    <3> HIDE DEF Given
    <3> QED
      BY <3>1, <3>2, SeqMonotonic
  <2> QED
    BY <1>2, <2>1, EmptySeq, LenProperties DEF Parts
<1> QED
  BY <1>1, <1>2

\* The literals of a node are those of all its templates.
LEMMA LiteralsOfNode ==
  ASSUME NEW node, IsTable(node.props, Template)
  PROVE  /\ LiteralsOf(node) \in Seq(AnyString)
         /\ \A key \in DOMAIN node.props : \A k \in DOMAIN Parts(node.props[key]) :
              Parts(node.props[key])[k].kind = "literal" =>
                Parts(node.props[key])[k].of \in ToSet(LiteralsOf(node))
<1> DEFINE table == InOrder(node.props)
           ss == [k \in DOMAIN table |-> Parts(table[k])]
           parts == FlattenSeq(ss)
           literals == Among(parts, {p \in ToSet(parts) : p.kind = "literal"})
<1>1. DOMAIN node.props \in SUBSET Names /\ \A key \in DOMAIN node.props : node.props[key] \in Template
  BY DEF IsTable
<1>2. /\ Len(table) \in Nat /\ DOMAIN table = 1 .. Len(table)
      /\ \A k \in DOMAIN table : /\ table[k] = node.props[Sorted(DOMAIN node.props)[k]]
                                 /\ Sorted(DOMAIN node.props)[k] \in DOMAIN node.props
      /\ \A key \in DOMAIN node.props :
           /\ IdOf(key, DOMAIN node.props) + 1 \in DOMAIN table
           /\ table[IdOf(key, DOMAIN node.props) + 1] = node.props[key]
  BY <1>1, TableInOrder
<1>3. LiteralsOf(node) = [k \in DOMAIN literals |-> literals[k].of]
  BY DEF LiteralsOf
<1> HIDE DEF table
<1>4. ss \in Seq(Seq(Part)) /\ DOMAIN ss = DOMAIN table
  <2>1. \A k \in 1 .. Len(table) : Parts(table[k]) \in Seq(Part)
    BY <1>1, <1>2, PartsOf
  <2>2. ss \in [1 .. Len(table) -> Seq(Part)]
    BY <1>2, <2>1
  <2> HIDE DEF ss
  <2> QED
    BY <1>2, <2>2, FunctionIsSeq
<1>5. \A k \in DOMAIN table : ss[k] = Parts(table[k])
  OBVIOUS
<1> HIDE DEF ss
<1>6. parts \in Seq(Part) /\ ToSet(parts) = UNION {ToSet(ss[k]) : k \in DOMAIN ss}
  BY <1>4, FlattenElements
<1> HIDE DEF parts
<1>7. literals \in Seq(Part) /\ ToSet(literals) = {p \in ToSet(parts) : p.kind = "literal"}
  BY <1>6, AmongElements
<1> HIDE DEF literals
<1>8. LiteralsOf(node) \in Seq(AnyString)
  <2>1. Len(literals) \in Nat /\ DOMAIN literals = 1 .. Len(literals)
        /\ \A k \in 1 .. Len(literals) : literals[k] \in Part
    BY <1>7, LenProperties
  <2>2. LiteralsOf(node) \in [1 .. Len(literals) -> AnyString]
    BY <1>3, <2>1 DEF Part
  <2> QED
    BY <2>1, <2>2, FunctionIsSeq
<1>9. ASSUME NEW key \in DOMAIN node.props, NEW k \in DOMAIN Parts(node.props[key]),
             Parts(node.props[key])[k].kind = "literal"
      PROVE  Parts(node.props[key])[k].of \in ToSet(LiteralsOf(node))
  <2> DEFINE p == Parts(node.props[key])[k]
             place == IdOf(key, DOMAIN node.props) + 1
  <2>1. place \in DOMAIN ss /\ ss[place] = Parts(node.props[key])
    BY <1>2, <1>4, <1>5
  <2>2. p \in ToSet(ss[place])
    BY <2>1, ElementIsIn
  <2>3. p \in ToSet(parts)
    BY <1>6, <2>1, <2>2
  <2>4. p \in ToSet(literals)
    BY <1>7, <1>9, <2>3
  <2>5. PICK j \in DOMAIN literals : literals[j] = p
    BY <2>4 DEF ToSet
  <2>6. j \in DOMAIN LiteralsOf(node) /\ LiteralsOf(node)[j] = p.of
    BY <1>3, <2>5
  <2> QED
    BY <2>6 DEF ToSet
<1> QED
  BY <1>8, <1>9

\* The initial value of a state that is a string.
LEMMA StateStringsOf ==
  ASSUME NEW source, IsSource(source), StatesHold(source)
  PROVE  /\ StateStrings(source) \in Seq(AnyString)
         /\ \A n \in StateNames(source) :
              source.state[n].type = "String" =>
                Payload(source.state[n].initial) \in ToSet(StateStrings(source))
<1> DEFINE Slot == [type : STRING, initial : Value, persistence : STRING]
           table == InOrder(source.state)
           IsText == {slot \in Range(source.state) : slot.type = "String"}
           strings == Among(table, IsText)
<1>1. DOMAIN source.state \in SUBSET Names /\ \A n \in DOMAIN source.state : source.state[n] \in Slot
  BY DEF IsSource, IsTable
<1>2. /\ Len(table) \in Nat /\ DOMAIN table = 1 .. Len(table) /\ ToSet(table) = Range(source.state)
      /\ \A k \in DOMAIN table : table[k] = source.state[Sorted(DOMAIN source.state)[k]]
                                 /\ Sorted(DOMAIN source.state)[k] \in DOMAIN source.state
  BY <1>1, TableInOrder
<1>3. table \in Seq(Slot)
  <2>1. table = [k \in DOMAIN table |-> table[k]]
    BY DEF InOrder
  <2> HIDE DEF table
  <2>2. table \in [1 .. Len(table) -> Slot]
    BY <1>1, <1>2, <2>1
  <2> QED
    BY <1>2, <2>2, FunctionIsSeq
<1>4. StateStrings(source) = [k \in DOMAIN strings |-> Payload(strings[k].initial)]
  BY DEF StateStrings
<1> HIDE DEF table
<1>5. strings \in Seq(Slot) /\ ToSet(strings) = {x \in ToSet(table) : x \in IsText}
  <2> HIDE DEF IsText
  <2> QED
    BY <1>3, AmongElements
<1> HIDE DEF strings
<1>6. Len(strings) \in Nat /\ DOMAIN strings = 1 .. Len(strings)
  BY <1>5, LenProperties
<1>7. ASSUME NEW slot \in IsText PROVE Payload(slot.initial) \in AnyString
  <2>1. PICK n \in DOMAIN source.state : slot = source.state[n]
    BY DEF Range
  <2>2. slot.initial \in Value /\ TypeOf(slot.initial) = "String"
    BY <1>1, <2>1 DEF StatesHold, StateNames
  <2>3. Payload(slot.initial) \in Strings
    BY <2>2 DEF Value, IntegerValue, BooleanValue, StringValue, Integer, Boolean, String, TypeOf, Payload
  <2> QED
    BY <2>3 DEF AnyString
<1>8. \A k \in 1 .. Len(strings) : strings[k] \in IsText
  BY <1>5, <1>6 DEF ToSet
<1>9. StateStrings(source) \in Seq(AnyString)
  <2>1. StateStrings(source) \in [1 .. Len(strings) -> AnyString]
    BY <1>4, <1>6, <1>7, <1>8
  <2> QED
    BY <1>6, <2>1, FunctionIsSeq
<1>10. ASSUME NEW n \in StateNames(source), source.state[n].type = "String"
       PROVE  Payload(source.state[n].initial) \in ToSet(StateStrings(source))
  <2>1. source.state[n] \in IsText
    BY <1>10 DEF StateNames, Range
  <2>2. source.state[n] \in ToSet(strings)
    BY <1>2, <1>5, <2>1
  <2>3. PICK k \in DOMAIN strings : strings[k] = source.state[n]
    BY <2>2 DEF ToSet
  <2>4. k \in DOMAIN StateStrings(source)
        /\ StateStrings(source)[k] = Payload(source.state[n].initial)
    BY <1>4, <2>3
  <2> QED
    BY <2>4 DEF ToSet
<1> QED
  BY <1>9, <1>10

InstructionsIn(source) == UNION {ToSet(source.handlers[n]) : n \in HandlerNames(source)}

\* The strings of an instruction: a constant's value, an effect's operation.
LEMMA InstructionStringsOf ==
  ASSUME NEW i \in SourceInstruction
  PROVE  /\ InstructionStrings(i) \in Seq(AnyString)
         /\ i.op = "Constant" /\ TypeOf(i.value) = "String" =>
              Payload(i.value) \in ToSet(InstructionStrings(i))
         /\ i.op \in {"Effect", "AsyncEffect"} => i.operation \in ToSet(InstructionStrings(i))
<1>1. i.value \in Value /\ i.operation \in STRING
  BY DEF SourceInstruction
<1>2. TypeOf(i.value) = "String" => Payload(i.value) \in AnyString
  BY <1>1 DEF Value, IntegerValue, BooleanValue, StringValue, Integer, Boolean, String, TypeOf, Payload,
              AnyString
<1>3. i.operation \in AnyString
  BY <1>1 DEF AnyString
<1>4. \A x : x \in ToSet(<<x>>)
  BY DEF ToSet
<1>5. \A x \in AnyString : <<x>> \in Seq(AnyString)
  OBVIOUS
<1>6. <<>> \in Seq(AnyString)
  OBVIOUS
<1> HIDE DEF AnyString
<1>7. CASE i.op = "Constant" /\ TypeOf(i.value) = "String"
  <2>1. InstructionStrings(i) = <<Payload(i.value)>>
    BY <1>7 DEF InstructionStrings
  <2> QED
    BY <1>2, <1>4, <1>5, <1>7, <2>1
<1>8. CASE ~(i.op = "Constant" /\ TypeOf(i.value) = "String") /\ i.op \in {"Effect", "AsyncEffect"}
  <2>1. InstructionStrings(i) = <<i.operation>>
    BY <1>8 DEF InstructionStrings
  <2> QED
    BY <1>3, <1>4, <1>5, <1>8, <2>1
<1>9. CASE ~(i.op = "Constant" /\ TypeOf(i.value) = "String") /\ i.op \notin {"Effect", "AsyncEffect"}
  <2>1. InstructionStrings(i) = <<>>
    BY <1>9 DEF InstructionStrings
  <2> QED
    BY <1>6, <1>9, <2>1
<1> QED
  BY <1>7, <1>8, <1>9

LEMMA HandlersOf ==
  ASSUME NEW source, IsSource(source)
  PROVE  /\ InOrder(source.handlers) \in Seq(Seq(SourceInstruction))
         /\ \A n \in HandlerNames(source) : source.handlers[n] \in Seq(SourceInstruction)
         /\ FlattenSeq(InOrder(source.handlers)) \in Seq(SourceInstruction)
         /\ ToSet(FlattenSeq(InOrder(source.handlers))) = InstructionsIn(source)
<1> DEFINE ss == InOrder(source.handlers)
<1>1. /\ DOMAIN source.handlers \in SUBSET Names
      /\ \A n \in DOMAIN source.handlers : source.handlers[n] \in Seq(SourceInstruction)
  BY DEF IsSource, IsTable
<1>2. /\ Len(ss) \in Nat /\ DOMAIN ss = 1 .. Len(ss) /\ ToSet(ss) = Range(source.handlers)
      /\ \A k \in DOMAIN ss : ss[k] = source.handlers[Sorted(DOMAIN source.handlers)[k]]
                              /\ Sorted(DOMAIN source.handlers)[k] \in DOMAIN source.handlers
  BY <1>1, TableInOrder
<1>3. ss \in Seq(Seq(SourceInstruction))
  <2>1. ss = [k \in DOMAIN ss |-> ss[k]]
    BY DEF InOrder
  <2> HIDE DEF ss
  <2>2. ss \in [1 .. Len(ss) -> Seq(SourceInstruction)]
    BY <1>1, <1>2, <2>1
  <2> QED
    BY <1>2, <2>2, FunctionIsSeq
<1> HIDE DEF ss
<1>4. /\ FlattenSeq(ss) \in Seq(SourceInstruction)
      /\ ToSet(FlattenSeq(ss)) = UNION {ToSet(ss[k]) : k \in DOMAIN ss}
  BY <1>3, FlattenElements
<1>5. UNION {ToSet(ss[k]) : k \in DOMAIN ss} = InstructionsIn(source)
  <2>1. {ToSet(ss[k]) : k \in DOMAIN ss} = {ToSet(code) : code \in ToSet(ss)}
    BY DEF ToSet
  <2>2. {ToSet(source.handlers[n]) : n \in HandlerNames(source)} = {ToSet(code) : code \in Range(source.handlers)}
    BY DEF Range, HandlerNames
  <2> QED
    BY <1>2, <2>1, <2>2 DEF InstructionsIn
<1> QED
  BY <1>1, <1>3, <1>4, <1>5 DEF ss, HandlerNames

\* The strings of a sequence of things, each of which gives some.
LEMMA StringsGathered ==
  ASSUME NEW s, NEW n \in Nat, DOMAIN s = 1 .. n, \A k \in 1 .. n : s[k] \in Seq(AnyString)
  PROVE  /\ FlattenSeq([k \in DOMAIN s |-> s[k]]) \in Seq(AnyString)
         /\ \A k \in 1 .. n : ToSet(s[k]) \subseteq ToSet(FlattenSeq([j \in DOMAIN s |-> s[j]]))
<1> DEFINE t == [k \in DOMAIN s |-> s[k]]
<1>1. t \in Seq(Seq(AnyString)) /\ DOMAIN t = 1 .. n /\ \A k \in 1 .. n : t[k] = s[k]
  <2>1. t \in [1 .. n -> Seq(AnyString)] /\ \A k \in 1 .. n : t[k] = s[k]
    OBVIOUS
  <2> HIDE DEF t
  <2> QED
    BY <2>1, FunctionIsSeq
<1> HIDE DEF t
<1>2. FlattenSeq(t) \in Seq(AnyString) /\ ToSet(FlattenSeq(t)) = UNION {ToSet(t[k]) : k \in DOMAIN t}
  BY <1>1, FlattenElements
<1>3. \A k \in 1 .. n : ToSet(s[k]) \subseteq ToSet(FlattenSeq(t))
  BY <1>1, <1>2
<1> QED
  BY <1>2, <1>3 DEF t

LEMMA HandlerStringsOf ==
  ASSUME NEW source, IsSource(source)
  PROVE  /\ HandlerStrings(source) \in Seq(AnyString)
         /\ \A i \in InstructionsIn(source) :
              ToSet(InstructionStrings(i)) \subseteq ToSet(HandlerStrings(source))
<1> DEFINE code == FlattenSeq(InOrder(source.handlers))
           s == [k \in DOMAIN code |-> InstructionStrings(code[k])]
<1>1. code \in Seq(SourceInstruction) /\ ToSet(code) = InstructionsIn(source)
  BY HandlersOf
<1>2. HandlerStrings(source) = FlattenSeq(s)
  BY DEF HandlerStrings
<1> HIDE DEF code
<1>3. /\ Len(code) \in Nat /\ DOMAIN code = 1 .. Len(code)
      /\ \A k \in 1 .. Len(code) : code[k] \in SourceInstruction
  BY <1>1, LenProperties
<1>4. \A k \in 1 .. Len(code) : s[k] = InstructionStrings(code[k]) /\ s[k] \in Seq(AnyString)
  BY <1>3, InstructionStringsOf
<1>5. DOMAIN s = 1 .. Len(code) /\ s = [k \in DOMAIN s |-> s[k]]
  BY <1>3
<1> HIDE DEF s
<1>6. /\ FlattenSeq(s) \in Seq(AnyString)
      /\ \A k \in 1 .. Len(code) : ToSet(s[k]) \subseteq ToSet(FlattenSeq(s))
  BY <1>3, <1>4, <1>5, StringsGathered
<1>7. ASSUME NEW i \in InstructionsIn(source)
      PROVE  ToSet(InstructionStrings(i)) \subseteq ToSet(FlattenSeq(s))
  <2>1. PICK k \in 1 .. Len(code) : i = code[k]
    BY <1>1, <1>3 DEF ToSet
  <2> QED
    BY <1>4, <1>6, <2>1
<1> QED
  BY <1>2, <1>6, <1>7

LEMMA PageStringsOf ==
  ASSUME NEW source, IsSource(source)
  PROVE  /\ PageStrings(source) \in Seq(AnyString)
         /\ \A node \in NodesIn(source) : ToSet(LiteralsOf(node)) \subseteq ToSet(PageStrings(source))
<1> DEFINE nodes == AllNodes(source)
           s == [k \in DOMAIN nodes |-> LiteralsOf(nodes[k])]
<1>1. /\ nodes \in Seq(NodesIn(source)) /\ ToSet(nodes) = NodesIn(source)
      /\ \A node \in NodesIn(source) : IsTable(node.props, Template)
  BY AllNodesOf
<1>2. PageStrings(source) = FlattenSeq(s)
  BY DEF PageStrings
<1> HIDE DEF nodes
<1>3. /\ Len(nodes) \in Nat /\ DOMAIN nodes = 1 .. Len(nodes)
      /\ \A k \in 1 .. Len(nodes) : nodes[k] \in NodesIn(source)
  BY <1>1, LenProperties
<1>4. \A k \in 1 .. Len(nodes) : s[k] = LiteralsOf(nodes[k]) /\ s[k] \in Seq(AnyString)
  BY <1>1, <1>3, LiteralsOfNode
<1>5. DOMAIN s = 1 .. Len(nodes) /\ s = [k \in DOMAIN s |-> s[k]]
  BY <1>3
<1> HIDE DEF s
<1>6. /\ FlattenSeq(s) \in Seq(AnyString)
      /\ \A k \in 1 .. Len(nodes) : ToSet(s[k]) \subseteq ToSet(FlattenSeq(s))
  BY <1>3, <1>4, <1>5, StringsGathered
<1>7. ASSUME NEW node \in NodesIn(source)
      PROVE  ToSet(LiteralsOf(node)) \subseteq ToSet(FlattenSeq(s))
  <2>1. PICK k \in 1 .. Len(nodes) : node = nodes[k]
    BY <1>1, <1>3 DEF ToSet
  <2> QED
    BY <1>4, <1>6, <2>1
<1> QED
  BY <1>2, <1>6, <1>7

\* The pool holds every string of the source, once.
PoolHolds(source, pool) ==
  /\ pool \in Seq(AnyString) /\ IsInjective(pool)
  /\ \A n \in StateNames(source) :
       source.state[n].type = "String" => Payload(source.state[n].initial) \in ToSet(pool)
  /\ \A i \in InstructionsIn(source) : ToSet(InstructionStrings(i)) \subseteq ToSet(pool)
  /\ \A node \in NodesIn(source) : ToSet(LiteralsOf(node)) \subseteq ToSet(pool)

LEMMA PoolIsComplete ==
  ASSUME NEW source, IsSource(source), StatesHold(source)
  PROVE  PoolHolds(source, Constants(source))
<1> DEFINE a  == StateStrings(source)
           b  == HandlerStrings(source)
           c  == PageStrings(source)
           ab == a \o b
<1>1. a \in Seq(AnyString) /\ b \in Seq(AnyString) /\ c \in Seq(AnyString)
  BY StateStringsOf, HandlerStringsOf, PageStringsOf
<1>4. Constants(source) = Interned(ab \o c)
  BY DEF Constants
<1> HIDE DEF a, b, c
<1>2. ab \in Seq(AnyString) /\ ToSet(ab) = ToSet(a) \cup ToSet(b)
  BY <1>1, ConcatProperties, ConcatElements
<1> HIDE DEF ab
<1>3. ab \o c \in Seq(AnyString) /\ ToSet(ab \o c) = ToSet(a) \cup ToSet(b) \cup ToSet(c)
  BY <1>1, <1>2, ConcatProperties, ConcatElements
<1>5. /\ Constants(source) \in Seq(AnyString) /\ IsInjective(Constants(source))
      /\ ToSet(Constants(source)) = ToSet(a) \cup ToSet(b) \cup ToSet(c)
  BY <1>3, <1>4, InternedElements
<1> USE DEF a, b, c
<1>6. \A n \in StateNames(source) :
        source.state[n].type = "String" => Payload(source.state[n].initial) \in ToSet(a)
  BY StateStringsOf
<1>7. \A i \in InstructionsIn(source) : ToSet(InstructionStrings(i)) \subseteq ToSet(b)
  BY HandlerStringsOf
<1>8. \A node \in NodesIn(source) : ToSet(LiteralsOf(node)) \subseteq ToSet(c)
  BY PageStringsOf
<1> HIDE DEF a, b, c
<1> QED
  BY <1>5, <1>6, <1>7, <1>8 DEF PoolHolds

-----------------------------------------------------------------------------
(***************************************************************************)
(* What build writes                                                       *)
(***************************************************************************)
HandlerTable(source, pool) ==
  [k \in DOMAIN InOrder(source.handlers) |-> EncodedHandler(source, pool, InOrder(source.handlers)[k])]

PageTable(source, pool) ==
  [k \in DOMAIN InOrder(source.pages) |-> EncodedPage(source, pool, InOrder(source.pages)[k])]

LimitsOf(source, format) ==
  IF 2 <= format THEN source.module.budget ELSE [source.module.budget EXCEPT !.maxTasks = 64]

EntryOf(source) ==
  IF source.module.entryHandler = None THEN <<>>
  ELSE <<IdOf(source.module.entryHandler, HandlerNames(source))>>

LEMMA BuildWrites ==
  ASSUME NEW source, NEW format, NEW p \in ToSet(Build(source, format))
  PROVE  /\ Accepted(source, format)
         /\ p.format = format /\ p.minimumRuntime = source.module.minimumRuntime
         /\ p.release = source.module.release /\ p.keyVersion = source.module.keyVersion
         /\ p.profile = source.delivery.profile /\ p.platform = source.delivery.platform
         /\ p.limits = LimitsOf(source, format)
         /\ p.capabilities = Sorted(Capabilities(source))
         /\ p.versions = CapabilityVersions(source, format)
         /\ p.domains = Sorted(ToSet(source.module.domains))
         /\ p.scopes = Sorted(ToSet(source.module.scopes))
         /\ p.constants = Constants(source)
         /\ p.states = EncodedStates(source, Constants(source), format)
         /\ p.handlers = HandlerTable(source, Constants(source))
         /\ p.pages = PageTable(source, Constants(source))
         /\ p.entryPage = IdOf(source.module.entryPage, PageNames(source))
         /\ p.entryHandler = EntryOf(source)
<1>1. Accepted(source, format)
  <2>1. CASE ~Accepted(source, format)
    <3>1. Build(source, format) = <<>>
      BY <2>1 DEF Build
    <3> QED
      BY <3>1 DEF ToSet
  <2> QED
    BY <2>1
<1>2. PICK r : Build(source, format) = <<r>>
  BY <1>1, Zenon DEF Build
<1>3. p = r
  BY <1>2 DEF ToSet
<1>4. p = Build(source, format)[1]
  BY <1>2, <1>3
<1> QED
  BY <1>1, <1>4, SMTT(30) DEF Build, LimitsOf, EntryOf, HandlerTable, PageTable

LEMMA ValuePair ==
  ASSUME NEW v \in Value
  PROVE  /\ v = <<TypeOf(v), Payload(v)>> /\ TypeOf(v) \in ValueType
         /\ TypeOf(v) = "String" => Payload(v) \in Strings
BY DEF Value, IntegerValue, BooleanValue, StringValue, Integer, Boolean, String, TypeOf,
       Payload, ValueType

\* A value comes back from the pool as it went in.
LEMMA ValueResolved ==
  ASSUME NEW pool \in Seq(AnyString), NEW v \in Value,
         TypeOf(v) = "String" => Payload(v) \in ToSet(pool),
         NEW p, p.constants = pool
  PROVE  /\ Resolved(p, Encoded(pool, v)) = v
         /\ TypeOf(Encoded(pool, v)) = TypeOf(v)
<1>1. CASE TypeOf(v) = "String"
  <2> DEFINE id == ConstantId(pool, Payload(v))
  <2>1. pool[id + 1] = Payload(v)
    BY <1>1, ConstantIdOf
  <2>2. Encoded(pool, v) = <<"String", id>>
    BY <1>1 DEF Encoded
  <2> HIDE DEF id
  <2>3. TypeOf(<<"String", id>>) = "String" /\ Payload(<<"String", id>>) = id
    BY DEF TypeOf, Payload
  <2>4. Resolved(p, Encoded(pool, v)) = <<"String", Payload(v)>>
    BY <2>1, <2>2, <2>3 DEF Resolved, String
  <2> QED
    BY <1>1, <2>2, <2>3, <2>4, ValuePair
<1>2. CASE TypeOf(v) # "String"
  BY <1>2 DEF Encoded, Resolved
<1> QED
  BY <1>1, <1>2

LEMMA TablesOf ==
  ASSUME NEW source, IsSource(source)
  PROVE  /\ StateNames(source) \in SUBSET Names /\ HandlerNames(source) \in SUBSET Names
         /\ PageNames(source) \in SUBSET Names /\ Capabilities(source) \in SUBSET Names
         /\ ToSet(source.module.domains) \in SUBSET Names
         /\ ToSet(source.module.scopes) \in SUBSET Names
         /\ \A n \in StateNames(source) : source.state[n].initial \in Value
<1>1. ASSUME NEW s \in Seq(Names) PROVE ToSet(s) \subseteq Names
  BY LenProperties DEF ToSet
<1> QED
  BY <1>1 DEF IsSource, IsTable, StateNames, HandlerNames, PageNames, Capabilities

\* The operands of an encoded instruction are in their tables.
LEMMA InstructionEncoded ==
  ASSUME NEW source, NEW format, IsSource(source), NEW pool, PoolHolds(source, pool),
         NEW i \in InstructionsIn(source), InstructionHolds(source, format, i),
         NEW e, e = EncodedInstruction(source, pool, i)
  PROVE  /\ e.op = i.op /\ e.args = i.args /\ e.value = Encoded(pool, i.value)
         /\ i \in SourceInstruction /\ e.op \in Op
         /\ e.op = "AsyncEffect" => 2 <= format
         /\ e.op = "EventValue" => 5 <= format
         /\ e.op \in {"StateGet", "StateSet"} =>
              /\ i.name \in StateNames(source) /\ e.first = IdOf(i.name, StateNames(source))
         /\ e.op \in {"Effect", "AsyncEffect"} =>
              /\ i.name \in Capabilities(source) /\ e.first = IdOf(i.name, Capabilities(source))
              /\ i.operation \in ToSet(pool) /\ e.second = ConstantId(pool, i.operation)
              /\ e.args \in 0 .. 32
         /\ e.op = "Render" =>
              /\ i.name \in PageNames(source) /\ e.first = IdOf(i.name, PageNames(source))
         /\ e.op \in {"Jump", "JumpIfFalse"} => e.first = i.target /\ 0 <= i.target
         /\ e.op \notin {"StateGet", "StateSet", "Effect", "AsyncEffect", "Render", "Jump",
                         "JumpIfFalse"} => e.first = 0
         /\ TypeOf(i.value) = "String" => i.op = "Constant" /\ Payload(i.value) \in ToSet(pool)
         /\ i.value \in Value
<1>1. i \in SourceInstruction
  <2>1. PICK n \in HandlerNames(source) : i \in ToSet(source.handlers[n])
    BY DEF InstructionsIn
  <2>2. PICK k \in DOMAIN source.handlers[n] : i = source.handlers[n][k]
    BY <2>1 DEF ToSet
  <2>3. source.handlers[n] \in Seq(SourceInstruction)
    BY HandlersOf
  <2> QED
    BY <2>2, <2>3, LenProperties
<1>2. ToSet(InstructionStrings(i)) \subseteq ToSet(pool)
  BY DEF PoolHolds
<1>3. i.value \in Value /\ (i.op # "Constant" => i.value = Integer(0))
  BY <1>1 DEF SourceInstruction
<1>4. TypeOf(i.value) = "String" => i.op = "Constant"
  BY <1>3 DEF Integer, TypeOf
<1>5. /\ TypeOf(i.value) = "String" => Payload(i.value) \in ToSet(pool)
      /\ i.op \in {"Effect", "AsyncEffect"} => i.operation \in ToSet(pool)
  BY <1>1, <1>2, <1>4, InstructionStringsOf
<1>6. e.op = i.op /\ e.args = i.args /\ e.value = Encoded(pool, i.value)
  BY DEF EncodedInstruction
<1>7. /\ i.op \in {"StateGet", "StateSet"} => e.first = IdOf(i.name, StateNames(source))
      /\ i.op \in {"Effect", "AsyncEffect"} =>
           e.first = IdOf(i.name, Capabilities(source)) /\ e.second = ConstantId(pool, i.operation)
      /\ i.op = "Render" => e.first = IdOf(i.name, PageNames(source))
      /\ i.op \in {"Jump", "JumpIfFalse"} => e.first = i.target
      /\ i.op \notin {"StateGet", "StateSet", "Effect", "AsyncEffect", "Render", "Jump",
                      "JumpIfFalse"} => e.first = 0
  BY DEF EncodedInstruction
<1> QED
  BY <1>1, <1>3, <1>4, <1>5, <1>6, <1>7 DEF InstructionHolds

\* A handler keeps its instructions, and ends with halt.
LEMMA HandlerEncoded ==
  ASSUME NEW source, NEW pool, NEW raw \in Seq(SourceInstruction),
         NEW got, got = EncodedHandler(source, pool, raw)
  PROVE  /\ Len(raw) \in Nat /\ DOMAIN raw = 1 .. Len(raw)
         /\ Len(got) \in Nat \ {0} /\ DOMAIN got = 1 .. Len(got)
         /\ Len(got) = Len(raw) \/ Len(got) = Len(raw) + 1
         /\ \A k \in DOMAIN raw : got[k] = EncodedInstruction(source, pool, raw[k])
         /\ Len(got) = Len(raw) + 1 => got[Len(raw) + 1] = HaltInstruction
         /\ got[Len(got)].op = "Halt"
         /\ Last(got).op = "Halt"
<1> DEFINE e == [k \in DOMAIN raw |-> EncodedInstruction(source, pool, raw[k])]
           All == {EncodedInstruction(source, pool, raw[k]) : k \in DOMAIN raw} \cup {HaltInstruction}
<1>1. Len(raw) \in Nat /\ DOMAIN raw = 1 .. Len(raw)
  BY LenProperties
<1>2. e \in [1 .. Len(raw) -> All]
  BY <1>1
<1>3. \A k \in DOMAIN raw : e[k] = EncodedInstruction(source, pool, raw[k])
  OBVIOUS
<1>4. got = Halted(e)
  BY DEF EncodedHandler
<1>5. HaltInstruction \in All
  OBVIOUS
<1> HIDE DEF e, All
<1>6. e \in Seq(All) /\ Len(e) = Len(raw) /\ DOMAIN e = DOMAIN raw
  BY <1>1, <1>2, FunctionIsSeq
<1>7. CASE e = <<>> \/ Last(e).op # "Halt"
  <2>1. got = Append(e, HaltInstruction)
    BY <1>4, <1>7 DEF Halted
  <2>2. /\ Len(got) = Len(raw) + 1 /\ DOMAIN got = 1 .. Len(got)
        /\ got[Len(raw) + 1] = HaltInstruction /\ \A k \in 1 .. Len(raw) : got[k] = e[k]
    BY <1>1, <1>5, <1>6, <2>1, AppendProperties
  <2>3. HaltInstruction.op = "Halt"
    BY DEF HaltInstruction
  <2> QED
    BY <1>1, <1>3, <2>2, <2>3 DEF Last
<1>8. CASE ~(e = <<>> \/ Last(e).op # "Halt")
  <2>1. got = e
    BY <1>4, <1>8 DEF Halted
  <2>2. Len(e) # 0
    BY <1>6, <1>8, EmptySeq
  <2>3. e[Len(e)].op = "Halt"
    BY <1>8 DEF Last
  <2>4. Last(got) = got[Len(got)] /\ got[Len(got)].op = "Halt"
    BY <2>1, <2>3 DEF Last
  <2>5. Len(got) = Len(raw) /\ Len(raw) # 0 /\ DOMAIN got = DOMAIN raw
    BY <1>6, <2>1, <2>2
  <2>6. Len(raw) # Len(raw) + 1
    <3>1. \A n \in Nat : n # n + 1
      OBVIOUS
    <3> QED
      BY <1>1, <3>1
  <2> QED
    BY <1>1, <1>3, <2>1, <2>4, <2>5, <2>6
<1> QED
  BY <1>7, <1>8

\* A template has a segment for each of its parts.
LEMMA SegmentsOf ==
  ASSUME NEW source, NEW pool, NEW template \in Template,
         NEW got, got = Segments(source, pool, template)
  PROVE  /\ Len(got) = Len(Parts(template)) /\ Len(got) \in Nat \ {0}
         /\ DOMAIN got = DOMAIN Parts(template) /\ DOMAIN got = 1 .. Len(got)
         /\ \A k \in DOMAIN got :
              /\ Parts(template)[k].kind \in {"literal", "state"}
              /\ Parts(template)[k].kind = "literal" =>
                   got[k] = <<1, ConstantId(pool, Parts(template)[k].of)>>
              /\ Parts(template)[k].kind = "state" =>
                   got[k] = <<2, IdOf(Parts(template)[k].of, StateNames(source))>>
<1>1. /\ Parts(template) \in Seq(Part) /\ Len(Parts(template)) \in Nat \ {0}
      /\ DOMAIN Parts(template) = 1 .. Len(Parts(template))
  BY PartsOf
<1>2. DOMAIN got = DOMAIN Parts(template)
  BY DEF Segments
<1>3. Len(got) = Len(Parts(template))
  <2> DEFINE All == {got[k] : k \in DOMAIN got}
  <2>1. got = [k \in DOMAIN got |-> got[k]]
    BY DEF Segments
  <2>2. got \in [1 .. Len(Parts(template)) -> All]
    BY <1>1, <1>2, <2>1
  <2> HIDE DEF All
  <2> QED
    BY <1>1, <2>2, FunctionIsSeq
<1>4. \A k \in DOMAIN got : Parts(template)[k].kind \in {"literal", "state"}
  <2>1. \A k \in DOMAIN got : Parts(template)[k] \in Part
    BY <1>1, <1>2
  <2> QED
    BY <2>1 DEF Part
<1> QED
  BY <1>1, <1>2, <1>3, <1>4 DEF Segments

\* What a node that holds may name.
LEMMA NodeNames ==
  ASSUME NEW source, IsSource(source), NEW pool, PoolHolds(source, pool),
         NEW node \in NodesIn(source), NodeHolds(source, node),
         NEW key \in DOMAIN node.props, NEW k \in DOMAIN Parts(node.props[key])
  PROVE  LET part == Parts(node.props[key])[k]
         IN  /\ part.kind = "literal" => part.of \in ToSet(pool)
             /\ part.kind = "state" => part.of \in StateNames(source)
<1>1. IsTable(node.props, Template)
  BY AllNodesOf
<1>2. Parts(node.props[key])[k].kind = "literal" =>
        Parts(node.props[key])[k].of \in ToSet(pool)
  <2>1. ToSet(LiteralsOf(node)) \subseteq ToSet(pool)
    BY DEF PoolHolds
  <2> QED
    BY <1>1, <2>1, LiteralsOfNode
<1>3. Parts(node.props[key])[k].kind = "state" =>
        Parts(node.props[key])[k].of \in StateNames(source)
  <2>1. CASE node.props[key] = <<>>
    <3>1. k = 1 /\ Parts(node.props[key])[k].kind = "literal"
      BY <2>1 DEF Parts, Literal
    <3> QED
      BY <3>1
  <2>2. CASE node.props[key] # <<>>
    BY <2>2 DEF Parts, NodeHolds
  <2> QED
    BY <2>1, <2>2
<1> QED
  BY <1>2, <1>3

\* The nodes of the package are those of the source, one for one.
LEMMA PackageNodesOf ==
  ASSUME NEW source, IsSource(source), NEW pool, NEW p,
         p.pages = PageTable(source, pool)
  PROVE  /\ PackageNodes(p) = [k \in DOMAIN AllNodes(source) |->
                                 EncodedNode(source, pool, AllNodes(source)[k])]
         /\ Len(PackageNodes(p)) = Len(AllNodes(source))
         /\ DOMAIN AllNodes(source) = 1 .. Len(AllNodes(source))
         /\ DOMAIN PackageNodes(p) = DOMAIN AllNodes(source)
         /\ \A k \in DOMAIN AllNodes(source) : AllNodes(source)[k] \in NodesIn(source)
<1> DEFINE ss == InOrder(source.pages)
           X == NodesIn(source)
           Y == {EncodedNode(source, pool, node) : node \in X}
           G == [node \in X |-> EncodedNode(source, pool, node)]
           tt == Mapped(ss, G)
<1>1. ss \in Seq(Seq(X)) /\ AllNodes(source) \in Seq(X)
  BY AllNodesOf
<1>2. G \in [X -> Y] /\ \A node \in X : G[node] = EncodedNode(source, pool, node)
  OBVIOUS
<1>3. AllNodes(source) = FlattenSeq(ss)
  BY DEF AllNodes
<1>4. p.pages = tt
  <2>1. ASSUME NEW k \in DOMAIN ss
        PROVE  EncodedPage(source, pool, ss[k]) = [i \in DOMAIN ss[k] |-> G[ss[k][i]]]
    <3>1. ss[k] \in Seq(X)
      BY <1>1, LenProperties
    <3>2. \A i \in DOMAIN ss[k] : ss[k][i] \in X
      BY <3>1, LenProperties
    <3> QED
      BY <3>2 DEF EncodedPage
  <2> QED
    BY <2>1 DEF Mapped, PageTable
<1> HIDE DEF ss, X, Y, G
<1>6. /\ FlattenSeq(tt) \in Seq(Y) /\ Len(FlattenSeq(tt)) = Len(FlattenSeq(ss))
      /\ \A i \in DOMAIN FlattenSeq(ss) : FlattenSeq(tt)[i] = G[FlattenSeq(ss)[i]]
  <2>1. Maps(G, X, Y)
    BY <1>2 DEF Maps
  <2> QED
    BY <1>1, <2>1, FlattenMap
<1> HIDE DEF tt
<1>7. /\ DOMAIN AllNodes(source) = 1 .. Len(AllNodes(source)) /\ Len(AllNodes(source)) \in Nat
      /\ \A k \in DOMAIN AllNodes(source) : AllNodes(source)[k] \in X
  BY <1>1, LenProperties
<1>8. PackageNodes(p) = [k \in DOMAIN AllNodes(source) |-> EncodedNode(source, pool, AllNodes(source)[k])]
  <2> DEFINE nodes == FlattenSeq(tt)
  <2>1. PackageNodes(p) = nodes
    BY <1>4 DEF PackageNodes
  <2>2. nodes \in Seq(Y) /\ Len(nodes) = Len(AllNodes(source))
        /\ \A i \in DOMAIN AllNodes(source) : nodes[i] = G[AllNodes(source)[i]]
    BY <1>3, <1>6
  <2> HIDE DEF nodes
  <2>3. nodes = [i \in 1 .. Len(nodes) |-> nodes[i]] /\ DOMAIN nodes = DOMAIN AllNodes(source)
    BY <1>7, <2>2
  <2> QED
    BY <1>2, <1>7, <2>1, <2>2, <2>3
<1>9. Len(PackageNodes(p)) = Len(AllNodes(source))
  BY <1>3, <1>4, <1>6 DEF PackageNodes
<1> QED
  BY <1>7, <1>8, <1>9 DEF X

-----------------------------------------------------------------------------
(***************************************************************************)
(* The search of _check_handler                                            *)
(***************************************************************************)
InstructionIs(i, slotTypes) ==
  /\ i.op \in Op /\ i.first \in Nat /\ i.args \in Nat
  /\ i.op \in {"StateGet", "StateSet"} => slotTypes[i.first + 1] \in ValueType
  /\ i.op = "Constant" => TypeOf(i.value) \in ValueType

CodeIs(code, slotTypes) ==
  /\ Len(code) \in Nat \ {0} /\ DOMAIN code = 1 .. Len(code)
  /\ \A k \in DOMAIN code : InstructionIs(code[k], slotTypes)

\* Both sides agree on how many values an instruction takes ...
LEMMA OperandCount ==
  ASSUME NEW i, NEW slotTypes, InstructionIs(i, slotTypes)
  PROVE  Len(Operands(i, slotTypes)) = Pops(i) /\ Pops(i) \in Nat
         /\ DOMAIN Operands(i, slotTypes) = 1 .. Pops(i)
<1>1. i.op \in Op /\ i.args \in Nat
  BY DEF InstructionIs
<1>2. CASE i.op \in {"StateSet", "JumpIfFalse", "Pop"}
  <2>1. \E x : Operands(i, slotTypes) = <<x>>
    BY <1>2 DEF Operands
  <2>2. Pops(i) = 1
    BY <1>2 DEF Pops
  <2> QED
    BY <2>1, <2>2
<1>3. CASE i.op \in {"IntegerAdd", "Equal"}
  <2>1. \E x, y : Operands(i, slotTypes) = <<x, y>>
    BY <1>3 DEF Operands
  <2>2. Pops(i) = 2
    BY <1>3 DEF Pops
  <2> QED
    BY <2>1, <2>2
<1>4. CASE i.op \in {"Effect", "AsyncEffect"}
  <2>1. Operands(i, slotTypes) = [k \in 1 .. i.args |-> ValueType]
    BY <1>4 DEF Operands
  <2>2. Pops(i) = i.args
    BY <1>4 DEF Pops
  <2>3. [k \in 1 .. i.args |-> ValueType] \in [1 .. i.args -> {ValueType}]
    OBVIOUS
  <2>4. Len(Operands(i, slotTypes)) = i.args
    BY <1>1, <2>1, <2>3, FunctionIsSeq
  <2> QED
    BY <1>1, <2>1, <2>2, <2>4
<1>5. CASE i.op \notin {"StateSet", "JumpIfFalse", "Pop", "IntegerAdd", "Equal", "Effect", "AsyncEffect"}
  <2>1. Operands(i, slotTypes) = <<>> /\ Pops(i) = 0
    BY <1>5 DEF Operands, Pops
  <2> QED
    BY <2>1
<1> QED
  BY <1>2, <1>3, <1>4, <1>5

\* ... on where control goes ...
LEMMA FollowIsSuccessors ==
  ASSUME NEW i, NEW slotTypes, InstructionIs(i, slotTypes), NEW pc \in Nat
  PROVE  /\ Follow(i, pc) \in Seq(Nat)
         /\ ToSet(Follow(i, pc)) = Successors(i, pc)
<1>1. i.first \in Nat /\ pc + 1 \in Nat
  BY DEF InstructionIs
<1>2. CASE i.op = "Jump"
  <2>1. Follow(i, pc) = <<i.first>> /\ Successors(i, pc) = {i.first}
    BY <1>2 DEF Follow, Successors
  <2> QED
    BY <1>1, <2>1 DEF ToSet
<1>3. CASE i.op = "JumpIfFalse"
  <2>1. Follow(i, pc) = <<i.first, pc + 1>> /\ Successors(i, pc) = {i.first, pc + 1}
    BY <1>3 DEF Follow, Successors
  <2>2. ToSet(<<i.first, pc + 1>>) = {i.first, pc + 1}
    BY DEF ToSet
  <2> QED
    BY <1>1, <2>1, <2>2
<1>4. CASE i.op = "Halt"
  <2>1. Follow(i, pc) = <<>> /\ Successors(i, pc) = {}
    BY <1>4 DEF Follow, Successors
  <2> QED
    BY <2>1 DEF ToSet
<1>5. CASE i.op \notin {"Jump", "JumpIfFalse", "Halt"}
  <2>1. Follow(i, pc) = <<pc + 1>> /\ Successors(i, pc) = {pc + 1}
    BY <1>5 DEF Follow, Successors
  <2> QED
    BY <1>1, <2>1 DEF ToSet
<1> QED
  BY <1>2, <1>3, <1>4, <1>5

LEMMA ResultsAreShapes ==
  ASSUME NEW i, NEW slotTypes, InstructionIs(i, slotTypes)
  PROVE  Results(i, slotTypes) \in Shape
<1>1. {"Integer", "Boolean", "String"} \subseteq ValueType
  BY DEF ValueType
<1>2. CASE i.op = "Constant"
  BY <1>2 DEF Results, InstructionIs, Shape
<1>3. CASE i.op = "StateGet"
  BY <1>3 DEF Results, InstructionIs, Shape
<1>4. CASE i.op \in {"IntegerAdd", "Equal", "EventValue", "Effect", "AsyncEffect"}
  <2>1. \E x \in ValueType : Results(i, slotTypes) = <<x>>
    BY <1>1, <1>4 DEF Results
  <2> QED
    BY <2>1 DEF Shape
<1>5. CASE i.op \notin {"Constant", "StateGet", "IntegerAdd", "Equal", "EventValue", "Effect", "AsyncEffect"}
  <2>1. Results(i, slotTypes) = <<>>
    BY <1>5 DEF Results
  <2> QED
    BY <2>1 DEF Shape
<1> QED
  BY <1>2, <1>3, <1>4, <1>5

LEMMA StackAfterIsShape ==
  ASSUME NEW i, NEW slotTypes, InstructionIs(i, slotTypes), NEW stack \in Shape,
         Len(Operands(i, slotTypes)) <= Len(stack)
  PROVE  /\ StackAfter(i, stack, slotTypes) \in Shape
         /\ StackAfter(i, stack, slotTypes) = Drop(stack, Pops(i)) \o Results(i, slotTypes)
<1> DEFINE n == Len(stack) - Pops(i)
<1>1. Len(Operands(i, slotTypes)) = Pops(i) /\ Pops(i) \in Nat
  BY OperandCount
<1>2. stack \in Seq(ValueType) /\ Len(stack) \in Nat
  BY LenProperties DEF Shape
<1>3. n \in 0 .. Len(stack)
  BY <1>1, <1>2
<1>4. SubSeq(stack, 1, n) \in Seq(ValueType) /\ SubSeq(stack, 1, n) = Drop(stack, Pops(i))
  BY <1>2, <1>3, FrontOf DEF Drop
<1>5. StackAfter(i, stack, slotTypes) = SubSeq(stack, 1, n) \o Results(i, slotTypes)
  BY <1>1 DEF StackAfter
<1> HIDE DEF n
<1>6. Results(i, slotTypes) \in Seq(ValueType)
  BY ResultsAreShapes DEF Shape
<1> QED
  BY <1>4, <1>5, <1>6, ConcatProperties DEF Shape

\* An address has been visited: its instruction fits, and what follows is known.
Visited(code, slotTypes, incoming, a) ==
  /\ Takes(code[a + 1], incoming[a], slotTypes)
  /\ \A t \in ToSet(Follow(code[a + 1], a)) :
       /\ t \in DOMAIN incoming
       /\ incoming[t] = StackAfter(code[a + 1], incoming[a], slotTypes)

CodeAddresses(code) == 0 .. Len(code) - 1

Searches(code, slotTypes) ==
  {x \in [incoming : UNION {[A -> Shape] : A \in SUBSET CodeAddresses(code)},
          queue    : Seq(CodeAddresses(code))] :
     /\ 0 \in DOMAIN x.incoming /\ x.incoming[0] = <<>>
     /\ ToSet(x.queue) \subseteq DOMAIN x.incoming
     /\ \A a \in DOMAIN x.incoming \ ToSet(x.queue) : Visited(code, slotTypes, x.incoming, a)}

LEMMA SearchFacts ==
  ASSUME NEW code, NEW slotTypes, NEW x \in Searches(code, slotTypes)
  PROVE  /\ x = [incoming |-> x.incoming, queue |-> x.queue]
         /\ DOMAIN x.incoming \subseteq CodeAddresses(code)
         /\ \A a \in DOMAIN x.incoming : x.incoming[a] \in Shape
         /\ x.queue \in Seq(CodeAddresses(code))
         /\ 0 \in DOMAIN x.incoming /\ x.incoming[0] = <<>>
         /\ ToSet(x.queue) \subseteq DOMAIN x.incoming
         /\ \A a \in DOMAIN x.incoming \ ToSet(x.queue) : Visited(code, slotTypes, x.incoming, a)
<1>1. x \in [incoming : UNION {[A -> Shape] : A \in SUBSET CodeAddresses(code)},
             queue    : Seq(CodeAddresses(code))]
  BY DEF Searches
<1>2. PICK A \in SUBSET CodeAddresses(code) : x.incoming \in [A -> Shape]
  BY <1>1
<1> QED
  BY <1>1, <1>2 DEF Searches

LEMMA SearchStarts ==
  ASSUME NEW code, NEW slotTypes, CodeIs(code, slotTypes)
  PROVE  SearchStart \in Searches(code, slotTypes)
<1> DEFINE f == [pc \in {0} |-> <<>>]
<1>1. 0 \in CodeAddresses(code)
  <2>1. \A n \in Nat \ {0} : 0 \in 0 .. n - 1
    OBVIOUS
  <2> QED
    BY <2>1 DEF CodeIs, CodeAddresses
<1>2. f \in [{0} -> Shape] /\ f[0] = <<>> /\ DOMAIN f = {0}
  BY DEF Shape
<1>3. {0} \in SUBSET CodeAddresses(code) /\ <<0>> \in Seq(CodeAddresses(code)) /\ ToSet(<<0>>) = {0}
  BY <1>1 DEF ToSet
<1> HIDE DEF f
<1>4. f \in UNION {[A -> Shape] : A \in SUBSET CodeAddresses(code)}
  BY <1>2, <1>3
<1>5. SearchStart = [incoming |-> f, queue |-> <<0>>]
  BY DEF SearchStart, f
<1> QED
  BY <1>2, <1>3, <1>4, <1>5 DEF Searches

LEMMA VisitKeepsSearch ==
  ASSUME NEW code, NEW slotTypes, CodeIs(code, slotTypes), NEW x \in Searches(code, slotTypes),
         x.queue # <<>>, Fits(code, slotTypes, x)
  PROVE  Visit(code, slotTypes, x) \in Searches(code, slotTypes)
<1> DEFINE Addr  == CodeAddresses(code)
           pc    == Head(x.queue)
           i     == code[pc + 1]
           known == DOMAIN x.incoming
           new   == ToSet(Follow(i, pc)) \ known
           stack == StackAfter(i, x.incoming[pc], slotTypes)
           more  == Interned(Among(Follow(i, pc), new))
           incoming == [t \in known \cup new |-> IF t \in known THEN x.incoming[t] ELSE stack]
           queue    == Tail(x.queue) \o more
<1>1. /\ known \subseteq Addr /\ \A a \in known : x.incoming[a] \in Shape
      /\ x.queue \in Seq(Addr) /\ 0 \in known /\ x.incoming[0] = <<>>
      /\ ToSet(x.queue) \subseteq known
      /\ \A a \in known \ ToSet(x.queue) : Visited(code, slotTypes, x.incoming, a)
  BY SearchFacts
<1>2. Visit(code, slotTypes, x) = [incoming |-> incoming, queue |-> queue]
  BY DEF Visit
<1>3. pc \in Addr /\ Tail(x.queue) \in Seq(Addr) /\ ToSet(x.queue) = {pc} \cup ToSet(Tail(x.queue))
  <2> DEFINE q == x.queue
  <2>1. q \in Seq(Addr) /\ q # <<>>
    BY <1>1
  <2> HIDE DEF q, Addr
  <2>2. /\ Head(q) \in Addr /\ Tail(q) \in Seq(Addr) /\ Len(Tail(q)) = Len(q) - 1
        /\ \A k \in 1 .. Len(Tail(q)) : Tail(q)[k] = q[k + 1]
    BY <2>1, HeadTailProperties
  <2>3. /\ Len(q) \in Nat \ {0} /\ DOMAIN q = 1 .. Len(q) /\ DOMAIN Tail(q) = 1 .. Len(q) - 1
        /\ Head(q) = q[1]
    BY <2>1, <2>2, LenProperties, EmptySeq
  <2>4. ASSUME NEW e \in ToSet(q) PROVE e \in {Head(q)} \cup ToSet(Tail(q))
    <3>1. PICK k \in 1 .. Len(q) : e = q[k]
      BY <2>3 DEF ToSet
    <3>2. CASE k = 1
      BY <2>3, <3>1, <3>2
    <3>3. CASE k # 1
      <4>1. k - 1 \in 1 .. Len(q) - 1 /\ (k - 1) + 1 = k
        BY <2>3, <3>1, <3>3
      <4>2. e = Tail(q)[k - 1]
        BY <2>2, <3>1, <4>1
      <4> QED
        BY <2>3, <4>1, <4>2 DEF ToSet
    <3> QED
      BY <3>2, <3>3
  <2>5. ASSUME NEW e \in ToSet(Tail(q)) PROVE e \in ToSet(q)
    <3>1. PICK k \in 1 .. Len(q) - 1 : e = Tail(q)[k]
      BY <2>3 DEF ToSet
    <3>2. k + 1 \in 1 .. Len(q) /\ e = q[k + 1]
      BY <2>2, <2>3, <3>1
    <3> QED
      BY <2>3, <3>2 DEF ToSet
  <2>6. Head(q) \in ToSet(q)
    <3>1. 1 \in 1 .. Len(q)
      BY <2>3
    <3> QED
      BY <2>3, <3>1 DEF ToSet
  <2> QED
    BY <2>2, <2>4, <2>5, <2>6 DEF q
<1>4. pc \in known /\ pc \in Nat /\ x.incoming[pc] \in Shape
  BY <1>1, <1>3 DEF CodeAddresses
<1>5. InstructionIs(i, slotTypes)
  <2>1. pc \in 0 .. Len(code) - 1 /\ Len(code) \in Nat \ {0} /\ DOMAIN code = 1 .. Len(code)
        /\ \A k \in DOMAIN code : InstructionIs(code[k], slotTypes)
    BY <1>3 DEF CodeIs, CodeAddresses
  <2>2. pc + 1 \in 1 .. Len(code)
    <3>1. \A n \in Nat \ {0} : \A k \in 0 .. n - 1 : k + 1 \in 1 .. n
      OBVIOUS
    <3> QED
      BY <2>1, <3>1
  <2> QED
    BY <2>1, <2>2
<1>6. /\ Takes(i, x.incoming[pc], slotTypes)
      /\ \A t \in ToSet(Follow(i, pc)) :
           t < Len(code) /\ (t \in known => x.incoming[t] = stack)
  BY DEF Fits
<1> HIDE DEF pc, i
<1>7. Follow(i, pc) \in Seq(Nat)
  BY <1>4, <1>5, FollowIsSuccessors
<1>8. ToSet(Follow(i, pc)) \subseteq Addr
  <2>1. \A t \in ToSet(Follow(i, pc)) : t \in Nat
    BY <1>7, LenProperties DEF ToSet
  <2>2. Len(code) \in Nat
    <3>1. \A n \in Nat \ {0} : n \in Nat
      OBVIOUS
    <3> QED
      BY <3>1 DEF CodeIs
  <2>3. \A n, t \in Nat : t < n => t \in 0 .. n - 1
    OBVIOUS
  <2> QED
    BY <1>6, <2>1, <2>2, <2>3 DEF CodeAddresses
<1>9. stack \in Shape
  <2>1. Len(Operands(i, slotTypes)) <= Len(x.incoming[pc])
    BY <1>6 DEF Takes
  <2> QED
    BY <1>4, <1>5, <2>1, StackAfterIsShape
<1> HIDE DEF stack, Addr, known
<1>10. new \subseteq Addr /\ new \subseteq ToSet(Follow(i, pc)) /\ new \cap known = {}
  BY <1>8
<1> HIDE DEF new
<1>11. more \in Seq(Addr) /\ ToSet(more) = new
  <2> DEFINE some == Among(Follow(i, pc), new)
  <2>1. Follow(i, pc) \in Seq(Addr)
    <3>1. Follow(i, pc) \in [1 .. Len(Follow(i, pc)) -> Addr] /\ Len(Follow(i, pc)) \in Nat
      BY <1>7, <1>8, LenProperties DEF ToSet
    <3> QED
      BY <3>1, FunctionIsSeq
  <2>2. some \in Seq(Addr) /\ ToSet(some) = {t \in ToSet(Follow(i, pc)) : t \in new}
    BY <2>1, AmongElements
  <2> HIDE DEF some
  <2>3. Interned(some) \in Seq(Addr) /\ ToSet(Interned(some)) = ToSet(some)
    BY <2>2, InternedElements
  <2> QED
    BY <1>10, <2>2, <2>3 DEF some
<1> HIDE DEF more
<1>12. queue \in Seq(Addr) /\ ToSet(queue) = ToSet(Tail(x.queue)) \cup new
  <2> DEFINE tail == Tail(x.queue)
  <2>1. tail \in Seq(Addr) /\ queue = tail \o more
    BY <1>3
  <2> HIDE DEF tail, queue
  <2>2. tail \o more \in Seq(Addr)
    BY <1>11, <2>1, ConcatProperties
  <2>3. ToSet(tail \o more) = ToSet(tail) \cup ToSet(more)
    BY <1>11, <2>1, ConcatElements
  <2> QED
    BY <1>11, <2>1, <2>2, <2>3 DEF tail
<1>13. /\ DOMAIN incoming = known \cup new
       /\ \A t \in known : incoming[t] = x.incoming[t]
       /\ \A t \in new : incoming[t] = stack
       /\ incoming \in [known \cup new -> Shape]
  BY <1>1, <1>9, <1>10
<1> HIDE DEF incoming, queue
<1>14. incoming \in UNION {[A -> Shape] : A \in SUBSET Addr}
  BY <1>1, <1>10, <1>13
<1>15. ASSUME NEW a \in DOMAIN incoming \ ToSet(queue)
       PROVE  Visited(code, slotTypes, incoming, a)
  <2>1. a \in known /\ a \notin ToSet(Tail(x.queue))
    BY <1>12, <1>13
  <2>2. CASE a = pc
    <3>1. Takes(code[a + 1], incoming[a], slotTypes)
      BY <1>4, <1>6, <1>13, <2>2 DEF i
    <3>2. ASSUME NEW t \in ToSet(Follow(code[a + 1], a))
          PROVE  t \in DOMAIN incoming /\ incoming[t] = StackAfter(code[a + 1], incoming[a], slotTypes)
      <4>1. t \in ToSet(Follow(i, pc))
        BY <2>2 DEF i
      <4>2. t \in known \/ t \in new
        BY <4>1 DEF new
      <4>3. StackAfter(code[a + 1], incoming[a], slotTypes) = stack
        BY <1>4, <1>13, <2>2 DEF i, stack
      <4> QED
        BY <1>6, <1>13, <4>1, <4>2, <4>3
    <3> QED
      BY <3>1, <3>2 DEF Visited
  <2>3. CASE a # pc
    <3>1. Visited(code, slotTypes, x.incoming, a)
      BY <1>1, <1>3, <2>1, <2>3
    <3> QED
      BY <1>13, <2>1, <3>1 DEF Visited, known
  <2> QED
    BY <2>2, <2>3
<1>16. ToSet(queue) \subseteq DOMAIN incoming /\ 0 \in DOMAIN incoming /\ incoming[0] = <<>>
  BY <1>1, <1>3, <1>12, <1>13
<1>17. \A f, q : f \in UNION {[A -> Shape] : A \in SUBSET Addr} /\ q \in Seq(Addr)
                /\ 0 \in DOMAIN f /\ f[0] = <<>> /\ ToSet(q) \subseteq DOMAIN f
                /\ (\A a \in DOMAIN f \ ToSet(q) : Visited(code, slotTypes, f, a))
                => [incoming |-> f, queue |-> q] \in Searches(code, slotTypes)
  BY DEF Searches, Addr
<1> QED
  BY <1>2, <1>12, <1>14, <1>15, <1>16, <1>17

SearchTurn(code, slotTypes, search) ==
  IF search.queue # <<>> /\ Fits(code, slotTypes, search)
  THEN Visit(code, slotTypes, search) ELSE search

\* Whatever the search has found after all its turns, it keeps to its invariant.
LEMMA ExploredIsSearch ==
  ASSUME NEW code, NEW slotTypes, CodeIs(code, slotTypes)
  PROVE  Explored(code, slotTypes) \in Searches(code, slotTypes)
<1> DEFINE S == Searches(code, slotTypes)
           L == Len(code)
           Turn(search) == SearchTurn(code, slotTypes, search)
           step == [z \in Nat \X S |-> Turn(z[2])]
           Body(f) == [n \in 0 .. L |-> IF n = 0 THEN SearchStart ELSE Turn(f[n - 1])]
<1>1. L \in Nat
  <2>1. \A n \in Nat \ {0} : n \in Nat
    OBVIOUS
  <2> QED
    BY <2>1 DEF CodeIs
<1>2. SearchStart \in S
  BY SearchStarts
<1>3. ASSUME NEW x \in S PROVE Turn(x) \in S
  BY VisitKeepsSearch DEF SearchTurn
<1>4. Explored(code, slotTypes) = (CHOOSE f : f = Body(f))[L]
  BY DEF Explored, SearchTurn
<1> HIDE DEF Turn, S, L
<1>5. step \in [Nat \X S -> S]
  BY <1>3
<1>6. \A n \in Nat : \A x \in S : step[<<n, x>>] = Turn(x)
  OBVIOUS
<1> HIDE DEF step
<1>7. PICK g \in [Nat -> S] : g[0] = SearchStart /\ \A n \in Nat : g[n + 1] = step[<<n, g[n]>>]
  <2>1. \E g : Recurs(S, SearchStart, step, g)
    BY <1>2, <1>5, Recursion
  <2> QED
    BY <2>1 DEF Recurs
<1> DEFINE h == [k \in 0 .. L |-> g[k]]
<1>8. h = Body(h)
  <2>1. ASSUME NEW k \in 0 .. L PROVE h[k] = IF k = 0 THEN SearchStart ELSE Turn(h[k - 1])
    <3>1. CASE k = 0
      BY <1>1, <1>7, <3>1
    <3>2. CASE k # 0
      <4>1. k - 1 \in Nat /\ k - 1 \in 0 .. L /\ (k - 1) + 1 = k
        BY <1>1, <3>2
      <4>2. g[(k - 1) + 1] = step[<<k - 1, g[k - 1]>>] /\ g[k - 1] \in S
        BY <1>7, <4>1
      <4>3. g[k] = Turn(g[k - 1])
        BY <1>6, <4>1, <4>2
      <4> QED
        BY <3>2, <4>1, <4>3
    <3> QED
      BY <3>1, <3>2
  <2> QED
    BY <2>1
<1> HIDE DEF h
<1> DEFINE f == CHOOSE f : f = Body(f)
<1>9. f = Body(f)
  BY <1>8
<1>10. Explored(code, slotTypes) = f[L]
  BY <1>4
<1> HIDE DEF f
<1>11. \A k \in 0 .. L : f[k] = IF k = 0 THEN SearchStart ELSE Turn(f[k - 1])
  BY <1>9
<1> DEFINE Kept == {k \in Nat : k <= L => f[k] \in S}
<1>12. 0 \in Kept
  BY <1>1, <1>2, <1>11
<1>13. ASSUME NEW k \in Nat, k \in Kept PROVE k + 1 \in Kept
  <2> SUFFICES ASSUME k + 1 <= L PROVE f[k + 1] \in S
    OBVIOUS
  <2>1. f[k] \in S /\ k + 1 \in 0 .. L /\ k + 1 # 0 /\ (k + 1) - 1 = k
    BY <1>1, <1>13
  <2>2. f[k + 1] = Turn(f[k])
    BY <1>11, <2>1
  <2> QED
    BY <1>3, <2>1, <2>2
<1> HIDE DEF Kept
<1>14. Nat \subseteq Kept
  BY <1>12, <1>13, Induction
<1>15. f[L] \in S
  BY <1>1, <1>14 DEF Kept
<1> QED
  BY <1>10, <1>15 DEF S

\* Code the compiler accepts: every address it reached was visited.
LEMMA CheckedIsTyped ==
  ASSUME NEW code, NEW slotTypes, CodeIs(code, slotTypes), Checked(code, slotTypes),
         NEW typing, typing = Explored(code, slotTypes).incoming
  PROVE  /\ 0 \in DOMAIN typing /\ typing[0] = <<>>
         /\ DOMAIN typing \subseteq CodeAddresses(code)
         /\ \A a \in DOMAIN typing : typing[a] \in Shape /\ Visited(code, slotTypes, typing, a)
<1> DEFINE x == Explored(code, slotTypes)
<1>1. x \in Searches(code, slotTypes)
  BY ExploredIsSearch
<1>2. x.queue = <<>> /\ typing = x.incoming
  BY DEF Checked
<1> HIDE DEF x
<1>3. ToSet(x.queue) = {}
  BY <1>2 DEF ToSet
<1> QED
  BY <1>1, <1>2, <1>3, SearchFacts

\* An instruction that takes its operands is accepted by the loader: the shapes of
\* the compiler and those of the loader are the same.
LEMMA TakesIsAccepts ==
  ASSUME NEW i, NEW slotTypes, InstructionIs(i, slotTypes), NEW stack \in Shape,
         Takes(i, stack, slotTypes),
         NEW m, NEW j, j.op = i.op, j.first = i.first, j.args = i.args,
         i.op = "Constant" => TypeOf(j.value) = TypeOf(i.value),
         i.op \in {"StateGet", "StateSet"} => SlotType(m, i.first) = slotTypes[i.first + 1],
         i.op = "Render" => i.first \in Pages(m)
  PROVE  /\ Accepts(m, j, stack)
         /\ ShapeAfter(m, j, stack) = StackAfter(i, stack, slotTypes)
         /\ ShapeAfter(m, j, stack) \in Shape
<1>1. /\ Len(Operands(i, slotTypes)) = Pops(i) /\ Pops(i) \in Nat
      /\ DOMAIN Operands(i, slotTypes) = 1 .. Pops(i)
  BY OperandCount
<1>2. /\ Pops(i) <= Len(stack)
      /\ \A k \in 1 .. Pops(i) : stack[Len(stack) + 1 - k] \in Operands(i, slotTypes)[k]
      /\ i.op = "Equal" => stack[Len(stack)] = stack[Len(stack) - 1]
      /\ i.op = "Halt" => stack = <<>>
  BY <1>1 DEF Takes
<1>3. Len(stack) \in Nat
  BY LenProperties DEF Shape
<1>4. Pops(j) = Pops(i)
  BY DEF Pops
<1>5. \A k \in 1 .. Pops(i) : Peek(stack, k) = stack[Len(stack) + 1 - k]
  <2>1. \A n \in Nat : \A k \in Nat : n - k + 1 = n + 1 - k
    OBVIOUS
  <2>2. \A k \in 1 .. Pops(i) : k \in Nat
    BY <1>1
  <2> QED
    BY <1>3, <2>1, <2>2 DEF Peek
<1>6. \A k \in 1 .. Pops(i) : Peek(stack, k) \in Operands(i, slotTypes)[k]
  BY <1>2, <1>5
<1>7. Accepts(m, j, stack)
  <2>1. j.op = "StateSet" => Peek(stack, 1) = SlotType(m, j.first)
    <3> SUFFICES ASSUME i.op = "StateSet" PROVE Peek(stack, 1) = SlotType(m, i.first)
      OBVIOUS
    <3>1. Pops(i) = 1 /\ Operands(i, slotTypes) = <<{slotTypes[i.first + 1]}>>
      BY DEF Pops, Operands
    <3>2. Peek(stack, 1) \in {slotTypes[i.first + 1]}
      BY <1>6, <3>1
    <3> QED
      BY <3>2
  <2>2. j.op = "IntegerAdd" => Peek(stack, 1) = "Integer" /\ Peek(stack, 2) = "Integer"
    <3> SUFFICES ASSUME i.op = "IntegerAdd" PROVE Peek(stack, 1) = "Integer" /\ Peek(stack, 2) = "Integer"
      OBVIOUS
    <3>1. Pops(i) = 2 /\ Operands(i, slotTypes) = <<{"Integer"}, {"Integer"}>>
      BY DEF Pops, Operands
    <3>2. Peek(stack, 1) \in {"Integer"} /\ Peek(stack, 2) \in {"Integer"}
      BY <1>6, <3>1
    <3> QED
      BY <3>2
  <2>3. j.op = "Equal" => Peek(stack, 1) = Peek(stack, 2)
    <3> SUFFICES ASSUME i.op = "Equal" PROVE Peek(stack, 1) = Peek(stack, 2)
      OBVIOUS
    <3>1. stack[Len(stack)] = stack[Len(stack) - 1]
      BY <1>2
    <3>2. Len(stack) - 1 + 1 = Len(stack) /\ Len(stack) - 2 + 1 = Len(stack) - 1
      BY <1>3
    <3> QED
      BY <3>1, <3>2 DEF Peek
  <2>4. j.op = "JumpIfFalse" => Peek(stack, 1) = "Boolean"
    <3> SUFFICES ASSUME i.op = "JumpIfFalse" PROVE Peek(stack, 1) = "Boolean"
      OBVIOUS
    <3>1. Pops(i) = 1 /\ Operands(i, slotTypes) = <<{"Boolean"}>>
      BY DEF Pops, Operands
    <3>2. Peek(stack, 1) \in {"Boolean"}
      BY <1>6, <3>1
    <3> QED
      BY <3>2
  <2> QED
    BY <1>2, <1>4, <2>1, <2>2, <2>3, <2>4 DEF Accepts
<1>8. Pushes(m, j) = Results(i, slotTypes)
  BY DEF Pushes, Results
<1>9. /\ StackAfter(i, stack, slotTypes) \in Shape
      /\ StackAfter(i, stack, slotTypes) = Drop(stack, Pops(i)) \o Results(i, slotTypes)
  BY <1>1, <1>2, StackAfterIsShape
<1> QED
  BY <1>4, <1>7, <1>8, <1>9 DEF ShapeAfter
=============================================================================
