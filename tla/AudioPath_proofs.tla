-------------------------- MODULE AudioPath_proofs --------------------------
(***************************************************************************)
(* Proofs about AudioPath for every value of its constants: streams,       *)
(* messages and chunks of any length, any sample rates and durations.      *)
(*                                                                         *)
(* The functions of AudioPath are recursive, over the messages of a stream *)
(* or the chunks of a session.  What they compute is proved by induction   *)
(* over the naturals, stated for sets and not for predicates.              *)
(***************************************************************************)
EXTENDS AudioPath, SequenceTheorems, WellFoundedInduction, TLAPS

-----------------------------------------------------------------------------
(* Induction and recursion over the naturals.                              *)

LEMMA Least ==
    ASSUME NEW T \in SUBSET Nat, T # {}
    PROVE  \E x \in T : \A y \in T : x <= y
<1> DEFINE R == OpToRel(<, Nat)
<1>1. IsWellFoundedOn(R, Nat)
  BY NatLessThanWellFounded
<1>2. \E x \in T : \A y \in T : <<y, x>> \notin R
  BY <1>1, WFMin
<1>3. \A x, y \in Nat : y < x => <<y, x>> \in R
  BY DEF OpToRel
<1> HIDE DEF R
<1>4. PICK x \in T : \A y \in T : <<y, x>> \notin R
  BY <1>2
<1>5. ASSUME NEW y \in T PROVE x <= y
  <2>1. x \in Nat /\ y \in Nat
    OBVIOUS
  <2>2. ~(y < x)
    BY <1>3, <1>4, <2>1
  <2>3. QED
    BY <2>1, <2>2
<1>6. QED
  BY <1>5

LEMMA Induction ==
    ASSUME NEW T, 0 \in T, \A k \in Nat : k \in T => k + 1 \in T
    PROVE  \A k \in Nat : k \in T
<1>1. SUFFICES ASSUME Nat \ T # {} PROVE FALSE
  OBVIOUS
<1>2. PICK k \in Nat \ T : \A j \in Nat \ T : k <= j
  BY <1>1, Least
<1>3. k - 1 \in Nat
  BY <1>2
<1>4. k - 1 \in T
  BY <1>2, <1>3
<1>5. (k - 1) + 1 \in T
  BY <1>3, <1>4
<1>6. QED
  BY <1>2, <1>5

(* Repeating a step that stays in S: the values it takes one after the     *)
(* other are a function.                                                   *)
StaysIn(step, n, S) == \A i \in 1..n, v \in S : step[<<i, v>>] \in S
Run(f, x, step, n, S) ==
    /\ f \in [0..n -> S]
    /\ f[0] = x
    /\ \A i \in 1..n : f[i] = step[<<i, f[i - 1]>>]
HasRun(x, step, n, S) == \E f : Run(f, x, step, n, S)

LEMMA Iteration ==
    ASSUME NEW S, NEW x \in S, NEW n \in Nat, NEW step, StaysIn(step, n, S)
    PROVE  HasRun(x, step, n, S)
<1> DEFINE T == {k \in Nat : k <= n => HasRun(x, step, k, S)}
<1>1. 0 \in T
  <2>1. Run([i \in 0..0 |-> x], x, step, 0, S)
    BY DEF Run
  <2>2. QED
    BY <2>1 DEF HasRun
<1>2. ASSUME NEW k \in Nat, k \in T PROVE k + 1 \in T
  <2>1. SUFFICES ASSUME k + 1 <= n PROVE HasRun(x, step, k + 1, S)
    OBVIOUS
  <2>2. PICK f : Run(f, x, step, k, S)
    BY <1>2, <2>1 DEF HasRun
  <2> DEFINE g == [i \in 0..k + 1 |-> IF i <= k THEN f[i] ELSE step[<<i, f[i - 1]>>]]
  <2>3. \A i \in 0..k : g[i] = f[i] /\ f[i] \in S
    BY <2>2 DEF Run
  <2>4. g[k + 1] = step[<<k + 1, f[k]>>]
    OBVIOUS
  <2>5. g = [i \in 0..k + 1 |-> g[i]]
    OBVIOUS
  <2> HIDE DEF g
  <2>6. g \in [0..k + 1 -> S]
    <3>1. k + 1 \in 1..n
      BY <2>1
    <3>2. f[k] \in S
      BY <2>3
    <3>3. g[k + 1] \in S
      BY <2>4, <3>1, <3>2 DEF StaysIn
    <3>4. \A i \in 0..k + 1 : g[i] \in S
      BY <2>3, <3>3
    <3>5. QED
      BY <2>5, <3>4
  <2>7. ASSUME NEW i \in 1..k + 1 PROVE g[i] = step[<<i, g[i - 1]>>]
    <3>1. g[i - 1] = f[i - 1]
      BY <2>3
    <3>2. CASE i \in 1..k
      BY <2>2, <2>3, <3>1, <3>2 DEF Run
    <3>3. CASE i = k + 1
      BY <2>4, <3>1, <3>3
    <3>4. QED
      BY <3>2, <3>3
  <2>8. Run(g, x, step, k + 1, S)
    BY <2>2, <2>3, <2>6, <2>7 DEF Run
  <2>9. QED
    BY <2>8 DEF HasRun
<1>3. n \in T
  <2> HIDE DEF T
  <2>1. QED
    BY <1>1, <1>2, Induction
<1>4. QED
  BY <1>3

-----------------------------------------------------------------------------
(* What FlattenSeq of SequencesExt computes.                               *)

Joins(f, s) ==
    /\ f[1] = s[1]
    /\ \A i \in 2..Len(s) : f[i] = f[i - 1] \o s[i]
Agree(f, g, n) == \A i \in 1..n : f[i] = g[i]

LEMMA FlattenJoins ==
    ASSUME NEW B, NEW s \in Seq(Seq(B)), s # <<>>
    PROVE  \E f \in [1..Len(s) -> Seq(B)] : Joins(f, s) /\ FlattenSeq(s) = f[Len(s)]
<1> DEFINE n == Len(s)
           F == CHOOSE f : f = [i \in 1..n |-> IF i = 1 THEN s[i] ELSE f[i - 1] \o s[i]]
           step == [p \in (1..n) \X Seq(B) |-> p[2] \o s[p[1]]]
<1>1. n \in Nat \ {0}
  BY EmptySeq
<1>2. \A i \in 1..n : s[i] \in Seq(B)
  BY ElementOfSeq
<1>3. <<>> \in Seq(B)
  BY EmptySeq
<1>4. ASSUME NEW i \in 1..n, NEW v \in Seq(B)
      PROVE  step[<<i, v>>] = v \o s[i] /\ step[<<i, v>>] \in Seq(B)
  BY <1>2, ConcatProperties
<1>5. FlattenSeq(s) = F[n]
  BY <1>1, Zenon DEF FlattenSeq
<1> HIDE DEF step, n
<1>6. PICK g : Run(g, <<>>, step, n, Seq(B))
  <2>1. StaysIn(step, n, Seq(B))
    BY <1>4 DEF StaysIn
  <2>2. QED
    BY <1>1, <1>3, <2>1, Iteration DEF HasRun
<1>7. /\ \A i \in 0..n : g[i] \in Seq(B)
      /\ g[0] = <<>>
      /\ \A i \in 1..n : g[i] = step[<<i, g[i - 1]>>]
  BY <1>6 DEF Run
<1>8. ASSUME NEW i \in 1..n PROVE g[i] = g[i - 1] \o s[i]
  <2>1. g[i - 1] \in Seq(B)
    BY <1>1, <1>7
  <2>2. QED
    BY <1>4, <1>7, <2>1
<1>9. g[1] = s[1]
  <2>1. 1 \in 1..n /\ 1 - 1 = 0
    BY <1>1
  <2>2. g[1] = <<>> \o s[1]
    BY <1>7, <1>8, <2>1
  <2>3. QED
    BY <1>2, <2>1, <2>2, ConcatEmptySeq
<1> DEFINE h == [i \in 1..n |-> g[i]]
<1>10. h = [i \in 1..n |-> IF i = 1 THEN s[i] ELSE h[i - 1] \o s[i]]
  <2>1. ASSUME NEW i \in 1..n PROVE g[i] = IF i = 1 THEN s[i] ELSE h[i - 1] \o s[i]
    <3>1. i # 1 => h[i - 1] = g[i - 1]
      BY <1>1
    <3>2. QED
      BY <1>8, <1>9, <3>1
  <2>2. QED
    BY <2>1
<1> HIDE DEF h
<1>11. F = [i \in 1..n |-> IF i = 1 THEN s[i] ELSE F[i - 1] \o s[i]]
  BY <1>10, Zenon
<1> HIDE DEF F
<1>12. F[1] = s[1] /\ \A i \in 2..n : F[i] = F[i - 1] \o s[i]
  <2>1. ASSUME NEW i \in 1..n PROVE F[i] = IF i = 1 THEN s[i] ELSE F[i - 1] \o s[i]
    BY <1>11
  <2>2. 1 \in 1..n /\ \A i \in 2..n : i \in 1..n /\ i # 1
    BY <1>1
  <2>3. QED
    BY <2>1, <2>2
<1>13. F \in [1..n -> Seq(B)]
  <2> DEFINE T == {k \in Nat : k \in 1..n => F[k] \in Seq(B)}
  <2>1. 0 \in T
    OBVIOUS
  <2>2. ASSUME NEW k \in Nat, k \in T PROVE k + 1 \in T
    <3>1. SUFFICES ASSUME k + 1 \in 1..n PROVE F[k + 1] \in Seq(B)
      OBVIOUS
    <3>2. CASE k = 0
      <4>1. F[1] = s[1] /\ s[1] \in Seq(B)
        BY <1>2, <1>12, <3>1, <3>2
      <4>2. QED
        BY <3>2, <4>1
    <3>3. CASE k # 0
      <4>1. k \in 1..n /\ k + 1 \in 2..n /\ (k + 1) - 1 = k
        BY <1>1, <3>1, <3>3
      <4>2. F[k] \in Seq(B) /\ s[k + 1] \in Seq(B)
        BY <1>2, <2>2, <3>1, <4>1
      <4>3. F[k + 1] = F[k] \o s[k + 1]
        BY <1>12, <4>1
      <4>4. QED
        BY <4>2, <4>3, ConcatProperties
    <3>4. QED
      BY <3>2, <3>3
  <2> HIDE DEF T
  <2>3. \A k \in Nat : k \in T
    BY <2>1, <2>2, Induction
  <2>4. \A k \in 1..n : F[k] \in Seq(B)
    BY <1>1, <2>3 DEF T
  <2>5. F = [i \in 1..n |-> F[i]]
    BY <1>11
  <2>6. QED
    BY <2>4, <2>5
<1>14. QED
  BY <1>5, <1>12, <1>13 DEF Joins, n

LEMMA JoinsUnique ==
    ASSUME NEW s, NEW t, NEW f, NEW g, Joins(f, s), Joins(g, t),
           Len(s) \in Nat, Len(t) \in Nat, Len(s) <= Len(t),
           Agree(s, t, Len(s))
    PROVE  Agree(f, g, Len(s))
<1> DEFINE T == {k \in Nat : k \in 1..Len(s) => f[k] = g[k]}
<1>1. 0 \in T
  OBVIOUS
<1>2. ASSUME NEW k \in Nat, k \in T PROVE k + 1 \in T
  <2>1. SUFFICES ASSUME k + 1 \in 1..Len(s) PROVE f[k + 1] = g[k + 1]
    OBVIOUS
  <2>2. s[k + 1] = t[k + 1]
    BY <2>1 DEF Agree
  <2>3. CASE k = 0
    BY <2>2, <2>3 DEF Joins
  <2>4. CASE k # 0
    <3>1. f[k] = g[k]
      BY <1>2, <2>1, <2>4
    <3>2. k + 1 \in 2..Len(s) /\ k + 1 \in 2..Len(t) /\ (k + 1) - 1 = k
      BY <2>1, <2>4
    <3>3. f[k + 1] = f[k] \o s[k + 1] /\ g[k + 1] = g[k] \o t[k + 1]
      BY <3>2 DEF Joins
    <3>4. QED
      BY <2>2, <3>1, <3>3
  <2>5. QED
    BY <2>3, <2>4
<1> HIDE DEF T
<1>3. \A k \in Nat : k \in T
  BY <1>1, <1>2, Induction
<1>4. QED
  BY <1>3 DEF T, Agree

LEMMA FlattenEmpty == FlattenSeq(<<>>) = <<>>
  BY DEF FlattenSeq

LEMMA FlattenType ==
    ASSUME NEW B, NEW s \in Seq(Seq(B))
    PROVE  FlattenSeq(s) \in Seq(B)
<1>1. CASE s = <<>>
  BY <1>1, FlattenEmpty, EmptySeq
<1>2. CASE s # <<>>
  <2>1. PICK f \in [1..Len(s) -> Seq(B)] : FlattenSeq(s) = f[Len(s)]
    BY <1>2, FlattenJoins
  <2>2. Len(s) \in 1..Len(s)
    BY <1>2, EmptySeq
  <2>3. QED
    BY <2>1, <2>2
<1>3. QED
  BY <1>1, <1>2

LEMMA FlattenAppend ==
    ASSUME NEW B, NEW s \in Seq(Seq(B)), NEW x \in Seq(B)
    PROVE  FlattenSeq(Append(s, x)) = FlattenSeq(s) \o x
<1> DEFINE t == Append(s, x)
<1>1. /\ t \in Seq(Seq(B)) /\ t # <<>> /\ Len(t) = Len(s) + 1
      /\ \A i \in 1..Len(s) : t[i] = s[i]
      /\ t[Len(t)] = x /\ Len(s) \in Nat
  BY AppendProperties, LenProperties
<1> HIDE DEF t
<1>2. PICK g \in [1..Len(t) -> Seq(B)] : Joins(g, t) /\ FlattenSeq(t) = g[Len(t)]
  BY <1>1, FlattenJoins
<1>3. CASE s = <<>>
  <2>1. Len(t) = 1
    BY <1>1, <1>3, EmptySeq
  <2>2. FlattenSeq(t) = x
    BY <1>1, <1>2, <2>1 DEF Joins
  <2>3. QED
    BY <1>3, <2>2, FlattenEmpty, ConcatEmptySeq DEF t
<1>4. CASE s # <<>>
  <2>1. PICK f \in [1..Len(s) -> Seq(B)] : Joins(f, s) /\ FlattenSeq(s) = f[Len(s)]
    BY <1>4, FlattenJoins
  <2>2. Len(s) \in 1..Len(s) /\ Len(t) \in 2..Len(t)
    BY <1>1, <1>4, EmptySeq
  <2>3. f[Len(s)] = g[Len(s)]
    <3>1. Len(s) \in Nat /\ Len(t) \in Nat /\ Len(s) <= Len(t)
      BY <1>1
    <3>2. Agree(s, t, Len(s))
      BY <1>1 DEF Agree
    <3>3. Joins(f, s) /\ Joins(g, t)
      BY <1>2, <2>1
    <3>4. Agree(f, g, Len(s))
      BY <3>1, <3>2, <3>3, JoinsUnique
    <3>5. QED
      BY <2>2, <3>4 DEF Agree
  <2>4. g[Len(t)] = g[Len(t) - 1] \o t[Len(t)]
    BY <1>2, <2>2 DEF Joins
  <2>5. Len(t) - 1 = Len(s)
    BY <1>1
  <2>6. QED
    BY <1>1, <1>2, <2>1, <2>3, <2>4, <2>5 DEF t
<1>5. QED
  BY <1>3, <1>4

(* A sequence grows by the next item of another one.                       *)
LEMMA PrefixAppend ==
    ASSUME NEW S, NEW t \in Seq(S), NEW k \in Nat, k + 1 <= Len(t)
    PROVE  /\ SubSeq(t, 1, k) \in Seq(S) /\ t[k + 1] \in S
           /\ SubSeq(t, 1, k + 1) = Append(SubSeq(t, 1, k), t[k + 1])
<1>1. Len(t) \in Nat /\ \A i \in 1..Len(t) : t[i] \in S
  BY LenProperties, ElementOfSeq
<1>2. SubSeq(t, 1, k) \in Seq(S)
  BY <1>1, SubSeqProperties
<1>3. k + 1 \in 1..Len(t) /\ 1 \in 1..Len(t) /\ k + 1 \in 1..Len(t) /\ (k + 1) - 1 = k
  BY <1>1
<1>4. t[k + 1] \in S
  BY <1>1, <1>3
<1>5. SubSeq(t, 1, k + 1) = SubSeq(t, 1, (k + 1) - 1) \o <<t[k + 1]>>
  BY <1>3, SubSeqRecursiveSecond
<1>6. QED
  BY <1>2, <1>3, <1>4, <1>5, AppendIsConcat

LEMMA ConcatAppend ==
    ASSUME NEW S, NEW s \in Seq(S), NEW t \in Seq(S), NEW x \in S
    PROVE  s \o Append(t, x) = Append(s \o t, x)
<1>1. <<x>> \in Seq(S)
  OBVIOUS
<1>2. s \o t \in Seq(S)
  BY ConcatProperties
<1>3. Append(t, x) = t \o <<x>>
  BY AppendIsConcat
<1>4. Append(s \o t, x) = (s \o t) \o <<x>>
  BY <1>2, AppendIsConcat
<1>5. (s \o t) \o <<x>> = s \o (t \o <<x>>)
  BY <1>1, ConcatAssociative
<1>6. QED
  BY <1>3, <1>4, <1>5

LEMMA FlattenConcatAppend ==
    ASSUME NEW B, NEW s \in Seq(Seq(B)), NEW u \in Seq(Seq(B)), NEW x \in Seq(B),
           FlattenSeq(s \o u) = FlattenSeq(s) \o FlattenSeq(u)
    PROVE  FlattenSeq(s \o Append(u, x)) = FlattenSeq(s) \o FlattenSeq(Append(u, x))
<1> DEFINE a == FlattenSeq(s)
           b == FlattenSeq(u)
<1>1. s \o Append(u, x) = Append(s \o u, x)
  BY ConcatAppend
<1>2. s \o u \in Seq(Seq(B))
  BY ConcatProperties
<1>3. FlattenSeq(Append(s \o u, x)) = FlattenSeq(s \o u) \o x
  BY <1>2, FlattenAppend
<1>4. FlattenSeq(Append(u, x)) = b \o x
  BY FlattenAppend
<1>5. a \in Seq(B) /\ b \in Seq(B)
  BY FlattenType
<1> HIDE DEF a, b
<1>6. (a \o b) \o x = a \o (b \o x)
  BY <1>5, ConcatAssociative
<1>7. QED
  BY <1>1, <1>3, <1>4, <1>6 DEF a, b

LEMMA FlattenConcat ==
    ASSUME NEW B, NEW s \in Seq(Seq(B)), NEW t \in Seq(Seq(B))
    PROVE  FlattenSeq(s \o t) = FlattenSeq(s) \o FlattenSeq(t)
<1> DEFINE u(k) == SubSeq(t, 1, k)
           T == {k \in Nat : k <= Len(t) => FlattenSeq(s \o u(k)) = FlattenSeq(s) \o FlattenSeq(u(k))}
<1>1. 0 \in T
  <2>1. u(0) = <<>>
    BY SubSeqEmpty
  <2>2. s \o <<>> = s /\ FlattenSeq(s) \o <<>> = FlattenSeq(s)
    BY FlattenType, ConcatEmptySeq
  <2>3. QED
    BY <2>1, <2>2, FlattenEmpty
<1>2. ASSUME NEW k \in Nat, k \in T PROVE k + 1 \in T
  <2>1. SUFFICES ASSUME k + 1 <= Len(t)
                 PROVE  FlattenSeq(s \o u(k + 1)) = FlattenSeq(s) \o FlattenSeq(u(k + 1))
    OBVIOUS
  <2>2. u(k) \in Seq(Seq(B)) /\ t[k + 1] \in Seq(B) /\ u(k + 1) = Append(u(k), t[k + 1])
    BY <2>1, PrefixAppend
  <2>3. FlattenSeq(s \o u(k)) = FlattenSeq(s) \o FlattenSeq(u(k))
    BY <1>2, <2>1, LenProperties
  <2> HIDE DEF u
  <2>4. QED
    BY <2>2, <2>3, FlattenConcatAppend
<1>3. u(Len(t)) = t /\ Len(t) \in Nat
  BY SubSeqFull, LenProperties
<1> HIDE DEF T, u
<1>4. Len(t) \in T
  BY <1>1, <1>2, <1>3, Induction
<1>5. FlattenSeq(s \o u(Len(t))) = FlattenSeq(s) \o FlattenSeq(u(Len(t)))
  BY <1>3, <1>4 DEF T
<1>6. QED
  BY <1>3, <1>5

-----------------------------------------------------------------------------
(* Arithmetic of chunks.                                                   *)

LEMMA DivMod ==
    ASSUME NEW n \in Nat, NEW t \in Nat \ {0}
    PROVE  /\ n \div t \in Nat /\ n % t \in 0..t - 1
           /\ n = ((n \div t) * t) + (n % t)
  OBVIOUS

LEMMA Multiples ==
    ASSUME NEW q \in Nat, NEW k \in Nat, NEW t \in Nat, k <= q
    PROVE  /\ q * t \in Nat /\ k * t <= q * t /\ (k + 1) * t = k * t + t
<1>1. (q - k) \in Nat /\ (q - k) * t \in Nat
  OBVIOUS
<1>2. QED
  BY <1>1

LEMMA MaxOfTwo ==
    ASSUME NEW a \in Int, NEW b \in Int
    PROVE  Max({a, b}) = IF a >= b THEN a ELSE b
  BY DEF Max

LEMMA MinOfTwo ==
    ASSUME NEW a \in Int, NEW b \in Int
    PROVE  Min({a, b}) = IF a <= b THEN a ELSE b
  BY DEF Min

(* A chunk is a positive number of whole samples, whatever the rate and    *)
(* the duration.                                                           *)
LEMMA TargetIsWhole ==
    ASSUME NEW rate \in Rate, NEW ms \in Duration, NEW width \in Width
    PROVE  /\ TargetBytes(rate, ms, width) \in Nat \ {0}
           /\ TargetBytes(rate, ms, width) % width = 0
<1> DEFINE samples == (rate * ms) \div 1000
           least == Max({1, rate \div 50})
<1>1. rate \in Nat /\ ms \in Nat /\ width \in {2, 4}
  BY AudioAssumption
<1>2. samples \in Nat /\ rate \div 50 \in Nat
  <2>1. rate * ms \in Nat
    BY <1>1
  <2>2. \A n \in Nat : n \div 1000 \in Nat /\ n \div 50 \in Nat
    OBVIOUS
  <2>3. QED
    BY <1>1, <2>1, <2>2
<1>3. least \in Nat \ {0}
  BY <1>2, MaxOfTwo
<1> HIDE DEF samples, least
<1>4. samples * width \in Nat /\ width * least \in Nat
  BY <1>1, <1>2, <1>3
<1>5. /\ Min({samples * width, 1048576}) \in {samples * width, 1048576}
      /\ Min({samples * width, 1048576}) \in Int
  BY <1>4, MinOfTwo
<1>6. TargetBytes(rate, ms, width) = Max({width * least, Min({samples * width, 1048576})})
  BY DEF TargetBytes, samples, least
<1>7. /\ TargetBytes(rate, ms, width) \in {width * least, samples * width, 1048576}
      /\ TargetBytes(rate, ms, width) >= width * least
  BY <1>4, <1>5, <1>6, MaxOfTwo
<1>8. CASE width = 2
  BY <1>2, <1>3, <1>7, <1>8
<1>9. CASE width = 4
  BY <1>2, <1>3, <1>7, <1>9
<1>10. QED
  BY <1>1, <1>8, <1>9

-----------------------------------------------------------------------------
(* The full chunks at the front of a buffer.                               *)

(* Where chunk i starts and ends.                                          *)
LEMMA Pieces ==
    ASSUME NEW n \in Nat, NEW t \in Nat \ {0}, NEW k \in Nat, k <= n \div t
    PROVE  /\ n \div t \in Nat /\ k * t \in Nat /\ k * t <= n
           /\ n - (n \div t) * t \in 0..t - 1
           /\ (k + 1) * t = k * t + t
<1> DEFINE q == n \div t
<1>1. q \in Nat /\ n % t \in 0..t - 1 /\ n = (q * t) + (n % t)
  BY DivMod
<1> HIDE DEF q
<1>2. q * t \in Nat /\ k * t \in Nat /\ k * t <= q * t /\ (k + 1) * t = k * t + t
  <2>1. k <= q
    BY DEF q
  <2>2. k * t \in Nat /\ q * t \in Nat
    BY <1>1
  <2>3. QED
    BY <1>1, <2>1, <2>2, Multiples
<1>3. n - q * t \in 0..t - 1 /\ k * t <= n
  BY <1>1, <1>2
<1>4. QED
  BY <1>1, <1>2, <1>3 DEF q

LEMMA CutChunks ==
    ASSUME NEW B, NEW buf \in Seq(B), NEW t \in Nat \ {0}
    PROVE  /\ Cut(buf, t) \in Seq(Seq(B))
           /\ Len(Cut(buf, t)) = Len(buf) \div t
           /\ \A i \in 1..Len(buf) \div t :
                  /\ Cut(buf, t)[i] = SubSeq(buf, (i - 1) * t + 1, i * t)
                  /\ Len(Cut(buf, t)[i]) = t
<1> DEFINE q == Len(buf) \div t
           chunk(i) == SubSeq(buf, (i - 1) * t + 1, i * t)
<1>1. Len(buf) \in Nat /\ \A i \in 1..Len(buf) : buf[i] \in B
  BY LenProperties, ElementOfSeq
<1>2. q \in Nat
  BY <1>1, DivMod
<1>3. ASSUME NEW i \in 1..q PROVE chunk(i) \in Seq(B) /\ Len(chunk(i)) = t
  <2> DEFINE a == (i - 1) * t
             b == i * t
  <2>1. i - 1 \in Nat /\ i - 1 <= q /\ i \in Nat /\ i <= q /\ (i - 1) + 1 = i
    BY <1>2
  <2>2. a \in Nat /\ b \in Nat /\ b <= Len(buf)
    BY <1>1, <2>1, Pieces
  <2>3. ((i - 1) + 1) * t = a + t
    BY <1>1, <2>1, Pieces
  <2>4. b = a + t
    BY <2>1, <2>3
  <2> HIDE DEF a, b
  <2>5. \A j \in a + 1..b : buf[j] \in B
    BY <1>1, <2>2
  <2>6. /\ SubSeq(buf, a + 1, b) \in Seq(B)
        /\ Len(SubSeq(buf, a + 1, b)) = IF a + 1 <= b THEN b - (a + 1) + 1 ELSE 0
    BY <2>2, <2>5, SubSeqProperties
  <2>7. QED
    BY <2>2, <2>4, <2>6 DEF a, b
<1>4. Cut(buf, t) = [i \in 1..q |-> chunk(i)]
  BY DEF Cut
<1> HIDE DEF q, chunk
<1>5. [i \in 1..q |-> chunk(i)] \in Seq(Seq(B))
  BY <1>2, <1>3, IsASeq
<1>6. Len([i \in 1..q |-> chunk(i)]) = q
  BY <1>2
<1>7. QED
  BY <1>3, <1>4, <1>5, <1>6 DEF q, chunk

LEMMA FlattenCut ==
    ASSUME NEW B, NEW buf \in Seq(B), NEW t \in Nat \ {0}
    PROVE  FlattenSeq(Cut(buf, t)) = SubSeq(buf, 1, (Len(buf) \div t) * t)
<1> DEFINE q == Len(buf) \div t
           cut == Cut(buf, t)
           u(k) == SubSeq(cut, 1, k)
           T == {k \in Nat : k <= q => FlattenSeq(u(k)) = SubSeq(buf, 1, k * t)}
<1>1. Len(buf) \in Nat
  BY LenProperties
<1>2. q \in Nat
  BY <1>1, DivMod
<1>3. /\ cut \in Seq(Seq(B)) /\ Len(cut) = q
      /\ \A i \in 1..q : cut[i] = SubSeq(buf, (i - 1) * t + 1, i * t)
  BY CutChunks
<1>4. 0 \in T
  <2>1. u(0) = <<>>
    BY SubSeqEmpty
  <2>2. SubSeq(buf, 1, 0 * t) = <<>>
    BY SubSeqEmpty
  <2>3. QED
    BY <2>1, <2>2, FlattenEmpty
<1> HIDE DEF cut
<1>5. ASSUME NEW k \in Nat, k \in T PROVE k + 1 \in T
  <2>1. SUFFICES ASSUME k + 1 <= q PROVE FlattenSeq(u(k + 1)) = SubSeq(buf, 1, (k + 1) * t)
    OBVIOUS
  <2>2. k <= q /\ k + 1 \in 1..q /\ k + 1 \in Nat /\ (k + 1) - 1 = k
    BY <1>2, <2>1
  <2>3. u(k) \in Seq(Seq(B)) /\ cut[k + 1] \in Seq(B) /\ u(k + 1) = Append(u(k), cut[k + 1])
    BY <1>3, <2>1, PrefixAppend
  <2>4. FlattenSeq(u(k)) = SubSeq(buf, 1, k * t)
    BY <1>5, <2>2
  <2>5. cut[k + 1] = SubSeq(buf, k * t + 1, (k + 1) * t)
    BY <1>3, <2>2
  <2>6. FlattenSeq(u(k + 1)) = FlattenSeq(u(k)) \o cut[k + 1]
    <3> HIDE DEF u
    <3>1. QED
      BY <2>3, FlattenAppend
  <2> DEFINE a == k * t
             b == (k + 1) * t
  <2>7. a \in Nat /\ b = a + t
    BY <1>1, <2>2, Pieces
  <2>8. b \in Nat /\ b <= Len(buf)
    BY <1>1, <2>1, <2>2, Pieces
  <2> HIDE DEF a, b
  <2>9. 1 \in 1..Len(buf) + 1 /\ a \in 1 - 1..Len(buf) /\ b \in a..Len(buf)
    BY <1>1, <2>7, <2>8
  <2>10. SubSeq(buf, 1, a) \o SubSeq(buf, a + 1, b) = SubSeq(buf, 1, b)
    BY <2>9, ConcatAdjacentSubSeq
  <2>11. QED
    BY <2>4, <2>5, <2>6, <2>10 DEF a, b
<1>6. u(q) = cut
  BY <1>3, SubSeqFull
<1> HIDE DEF T, u, q
<1>7. q \in T
  BY <1>2, <1>4, <1>5, Induction
<1>8. FlattenSeq(u(q)) = SubSeq(buf, 1, q * t)
  BY <1>2, <1>7 DEF T
<1>9. QED
  BY <1>6, <1>8 DEF q, cut

-----------------------------------------------------------------------------
(* A message joins the buffer.                                             *)

(* What the feed loop keeps: a buffer shorter than the target, and chunks  *)
(* of exactly the target.                                                  *)
FeedState(B, t) ==
    {state \in [buf : Seq(B), fed : Seq(Seq(B))] :
        Len(state.buf) < t /\ \A i \in 1..Len(state.fed) : Len(state.fed[i]) = t}

(* The bytes the loop has taken.                                           *)
Taken(state) == FlattenSeq(state.fed) \o state.buf

LEMMA CoalesceKeeps ==
    ASSUME NEW B, NEW t \in Nat \ {0}, NEW state \in FeedState(B, t), NEW m \in Seq(B)
    PROVE  /\ Coalesce(state, m, t) \in FeedState(B, t)
           /\ Taken(Coalesce(state, m, t)) = Taken(state) \o m
<1> DEFINE buf == state.buf \o m
           cut == Cut(buf, t)
           q == Len(buf) \div t
           rest == SubSeq(buf, q * t + 1, Len(buf))
           fed == state.fed \o cut
<1>1. /\ state.buf \in Seq(B) /\ state.fed \in Seq(Seq(B))
      /\ \A i \in 1..Len(state.fed) : Len(state.fed[i]) = t
  BY DEF FeedState
<1>2. buf \in Seq(B) /\ Len(buf) \in Nat
  BY <1>1, ConcatProperties, LenProperties
<1> HIDE DEF buf
<1>3. /\ cut \in Seq(Seq(B)) /\ Len(cut) = q
      /\ \A i \in 1..q : Len(cut[i]) = t
  BY <1>2, CutChunks
<1>4. FlattenSeq(cut) = SubSeq(buf, 1, q * t)
  BY <1>2, FlattenCut
<1>5. /\ q \in Nat /\ q * t \in Nat /\ q * t <= Len(buf)
      /\ Len(buf) - q * t \in 0..t - 1
  <2>1. q \in Nat
    BY <1>2, DivMod
  <2> HIDE DEF q
  <2>2. q <= Len(buf) \div t
    BY <2>1 DEF q
  <2>3. QED
    BY <1>2, <2>1, <2>2, Pieces DEF q
<1>6. Coalesce(state, m, t) = [buf |-> rest, fed |-> fed]
  BY <1>3 DEF Coalesce, buf
<1> HIDE DEF cut, q
<1> DEFINE c == q * t
<1>7. c \in Nat /\ c <= Len(buf) /\ Len(buf) - c \in 0..t - 1
  BY <1>5
<1>8. rest = SubSeq(buf, c + 1, Len(buf)) /\ FlattenSeq(cut) = SubSeq(buf, 1, c)
  BY <1>4
<1> HIDE DEF c, rest
<1>9. rest \in Seq(B) /\ Len(rest) = IF c + 1 <= Len(buf) THEN Len(buf) - (c + 1) + 1 ELSE 0
  <2>1. \A i \in c + 1..Len(buf) : buf[i] \in B
    BY <1>2, <1>7, ElementOfSeq
  <2>2. QED
    BY <1>2, <1>7, <1>8, <2>1, SubSeqProperties
<1>10. Len(rest) < t
  BY <1>2, <1>7, <1>9
<1>11. fed \in Seq(Seq(B)) /\ \A i \in 1..Len(fed) : Len(fed[i]) = t
  <2>1. /\ fed \in Seq(Seq(B)) /\ Len(fed) = Len(state.fed) + q
        /\ \A i \in 1..Len(state.fed) + q :
               fed[i] = IF i <= Len(state.fed) THEN state.fed[i] ELSE cut[i - Len(state.fed)]
    BY <1>1, <1>3, ConcatProperties
  <2>2. Len(state.fed) \in Nat
    BY <1>1, LenProperties
  <2> HIDE DEF fed
  <2>3. ASSUME NEW i \in 1..Len(fed) PROVE Len(fed[i]) = t
    <3>1. CASE i <= Len(state.fed)
      <4>1. i \in 1..Len(state.fed)
        BY <1>5, <2>1, <2>2, <3>1
      <4>2. fed[i] = state.fed[i]
        BY <2>1, <3>1
      <4>3. QED
        BY <1>1, <4>1, <4>2
    <3>2. CASE ~(i <= Len(state.fed))
      <4>1. i - Len(state.fed) \in 1..q
        BY <1>5, <2>1, <2>2, <3>2
      <4>2. fed[i] = cut[i - Len(state.fed)]
        BY <2>1, <3>2
      <4>3. QED
        BY <1>3, <4>1, <4>2
    <3>3. QED
      BY <3>1, <3>2
  <2>4. QED
    BY <2>1, <2>3
<1>12. FlattenSeq(cut) \o rest = buf
  <2>1. 1 \in 1..Len(buf) + 1 /\ c \in 1 - 1..Len(buf) /\ Len(buf) \in c..Len(buf)
    BY <1>2, <1>7
  <2>2. SubSeq(buf, 1, c) \o SubSeq(buf, c + 1, Len(buf)) = SubSeq(buf, 1, Len(buf))
    BY <1>2, <2>1, ConcatAdjacentSubSeq
  <2>3. SubSeq(buf, 1, Len(buf)) = buf
    BY <1>2, SubSeqFull
  <2>4. QED
    BY <1>8, <2>2, <2>3
<1>13. FlattenSeq(fed) = FlattenSeq(state.fed) \o FlattenSeq(cut)
  BY <1>1, <1>3, FlattenConcat
<1> HIDE DEF fed
<1> DEFINE f == FlattenSeq(state.fed)
           g == FlattenSeq(cut)
<1>14. f \in Seq(B) /\ g \in Seq(B)
  BY <1>1, <1>3, FlattenType
<1>15. FlattenSeq(fed) = f \o g /\ g \o rest = state.buf \o m /\ Taken(state) = f \o state.buf
  BY <1>12, <1>13 DEF Taken, buf
<1> HIDE DEF f, g
<1> DEFINE b == state.buf
<1>21. b \in Seq(B) /\ rest \in Seq(B)
  BY <1>1, <1>9
<1> HIDE DEF b
<1>22. \A x, y, z \in Seq(B) : (x \o y) \o z = x \o (y \o z)
  BY ConcatAssociative
<1>16. (f \o g) \o rest = f \o (g \o rest)
  BY <1>14, <1>21, <1>22
<1>17. (f \o b) \o m = f \o (b \o m)
  BY <1>14, <1>21, <1>22
<1>18. Taken([buf |-> rest, fed |-> fed]) = FlattenSeq(fed) \o rest
  BY DEF Taken
<1>19. [buf |-> rest, fed |-> fed] \in FeedState(B, t)
  BY <1>9, <1>10, <1>11 DEF FeedState
<1>20. QED
  BY <1>6, <1>15, <1>16, <1>17, <1>18, <1>19 DEF b

-----------------------------------------------------------------------------
(* A whole stream.                                                         *)

Fresh == [buf |-> <<>>, fed |-> <<>>]
Feeds(f, messages, t) ==
    /\ f[0] = Fresh
    /\ \A i \in 1..Len(messages) : f[i] = Coalesce(f[i - 1], messages[i], t)
Flushed(state) == IF state.buf = <<>> THEN state.fed ELSE Append(state.fed, state.buf)

LEMMA FreshFeedState ==
    ASSUME NEW B, NEW t \in Nat \ {0}
    PROVE  Fresh \in FeedState(B, t) /\ Taken(Fresh) = <<>>
<1>1. <<>> \in Seq(B) /\ <<>> \in Seq(Seq(B)) /\ Len(<<>>) = 0
  BY EmptySeq
<1>2. Taken(Fresh) = <<>>
  BY <1>1, FlattenEmpty, ConcatEmptySeq DEF Taken, Fresh
<1>3. QED
  BY <1>1, <1>2 DEF Fresh, FeedState

LEMMA FeedLoopFeeds ==
    ASSUME NEW B, NEW messages \in Seq(Seq(B)), NEW t \in Nat \ {0}
    PROVE  \E f : Feeds(f, messages, t) /\ FeedLoop(messages, t) = Flushed(f[Len(messages)])
<1> DEFINE n == Len(messages)
           S == FeedState(B, t)
           F == CHOOSE f : f = [i \in 0..n |->
                    IF i = 0 THEN [buf |-> <<>>, fed |-> <<>>]
                             ELSE Coalesce(f[i - 1], messages[i], t)]
           step == [p \in (1..n) \X S |-> Coalesce(p[2], messages[p[1]], t)]
<1>1. n \in Nat /\ \A i \in 1..n : messages[i] \in Seq(B)
  BY LenProperties, ElementOfSeq
<1>2. FeedLoop(messages, t) = IF F[n].buf = <<>> THEN F[n].fed ELSE Append(F[n].fed, F[n].buf)
  BY Zenon DEF FeedLoop
<1> HIDE DEF n, S
<1>3. ASSUME NEW i \in 1..n, NEW v \in S
      PROVE  step[<<i, v>>] = Coalesce(v, messages[i], t) /\ step[<<i, v>>] \in S
  <2>1. step[<<i, v>>] = Coalesce(v, messages[i], t)
    OBVIOUS
  <2>2. Coalesce(v, messages[i], t) \in S
    BY <1>1, CoalesceKeeps DEF S
  <2>3. QED
    BY <2>1, <2>2
<1> HIDE DEF step
<1>4. PICK g : Run(g, Fresh, step, n, S)
  <2>1. StaysIn(step, n, S)
    BY <1>3 DEF StaysIn
  <2>2. Fresh \in S
    BY FreshFeedState DEF S
  <2>3. QED
    BY <1>1, <2>1, <2>2, Iteration DEF HasRun
<1>5. /\ g = [i \in 0..n |-> g[i]]
      /\ \A i \in 0..n : g[i] \in S
      /\ g[0] = Fresh
      /\ \A i \in 1..n : g[i] = step[<<i, g[i - 1]>>]
  BY <1>4 DEF Run
<1>6. ASSUME NEW i \in 0..n
      PROVE  g[i] = IF i = 0 THEN Fresh ELSE Coalesce(g[i - 1], messages[i], t)
  <2>1. CASE i = 0
    BY <1>5, <2>1
  <2>2. CASE i # 0
    <3>1. i \in 1..n /\ i - 1 \in 0..n
      BY <1>1, <2>2
    <3>2. g[i - 1] \in S
      BY <1>5, <3>1
    <3>3. QED
      BY <1>3, <1>5, <2>2, <3>1, <3>2
  <2>3. QED
    BY <2>1, <2>2
<1>7. g = [i \in 0..n |-> IF i = 0 THEN Fresh ELSE Coalesce(g[i - 1], messages[i], t)]
  BY <1>5, <1>6
<1>8. F = [i \in 0..n |-> IF i = 0 THEN Fresh ELSE Coalesce(F[i - 1], messages[i], t)]
  BY <1>7, Zenon DEF Fresh
<1> HIDE DEF F
<1>9. \A i \in 0..n : F[i] = IF i = 0 THEN Fresh ELSE Coalesce(F[i - 1], messages[i], t)
  BY <1>8
<1>10. 0 \in 0..n /\ \A i \in 1..n : i \in 0..n /\ i # 0
  BY <1>1
<1>11. Feeds(F, messages, t)
  BY <1>9, <1>10 DEF Feeds, n
<1>12. FeedLoop(messages, t) = Flushed(F[Len(messages)])
  BY <1>2 DEF Flushed, n
<1>13. QED
  BY <1>11, <1>12

(* The feed loop's invariant: what it has taken is what it was sent.       *)
LEMMA FeedLoopTakes ==
    ASSUME NEW B, NEW messages \in Seq(Seq(B)), NEW t \in Nat \ {0}
    PROVE  \E last \in FeedState(B, t) :
               /\ Taken(last) = FlattenSeq(messages)
               /\ FeedLoop(messages, t) = Flushed(last)
<1> DEFINE n == Len(messages)
           u(i) == SubSeq(messages, 1, i)
           Sent(v, i) == v \in FeedState(B, t) /\ Taken(v) = FlattenSeq(u(i))
<1>1. n \in Nat
  BY LenProperties
<1>2. PICK f : Feeds(f, messages, t) /\ FeedLoop(messages, t) = Flushed(f[n])
  BY FeedLoopFeeds
<1> DEFINE T == {i \in Nat : i <= n => Sent(f[i], i)}
<1>3. 0 \in T
  <2>1. u(0) = <<>>
    BY SubSeqEmpty
  <2>2. f[0] \in FeedState(B, t) /\ Taken(f[0]) = <<>>
    BY <1>2, FreshFeedState DEF Feeds
  <2>3. QED
    BY <2>1, <2>2, FlattenEmpty
<1>4. ASSUME NEW i \in Nat, i \in T PROVE i + 1 \in T
  <2>1. SUFFICES ASSUME i + 1 <= n PROVE Sent(f[i + 1], i + 1)
    OBVIOUS
  <2>2. /\ u(i) \in Seq(Seq(B)) /\ messages[i + 1] \in Seq(B)
        /\ u(i + 1) = Append(u(i), messages[i + 1])
    BY <2>1, PrefixAppend
  <2>3. i <= n /\ i + 1 \in 1..n /\ (i + 1) - 1 = i
    BY <1>1, <2>1
  <2>4. f[i] \in FeedState(B, t) /\ Taken(f[i]) = FlattenSeq(u(i))
    BY <1>4, <2>3
  <2> HIDE DEF u
  <2>5. f[i + 1] = Coalesce(f[i], messages[i + 1], t)
    BY <1>2, <2>3 DEF Feeds
  <2>6. /\ f[i + 1] \in FeedState(B, t)
        /\ Taken(f[i + 1]) = Taken(f[i]) \o messages[i + 1]
    <3>1. messages[i + 1] \in Seq(B)
      BY <2>2
    <3>2. f[i] \in FeedState(B, t)
      BY <2>4
    <3>3. /\ Coalesce(f[i], messages[i + 1], t) \in FeedState(B, t)
          /\ Taken(Coalesce(f[i], messages[i + 1], t)) = Taken(f[i]) \o messages[i + 1]
      BY <3>1, <3>2, CoalesceKeeps, Zenon
    <3>4. QED
      BY <2>5, <3>3
  <2>7. FlattenSeq(u(i + 1)) = FlattenSeq(u(i)) \o messages[i + 1]
    BY <2>2, FlattenAppend
  <2>8. QED
    BY <2>4, <2>6, <2>7
<1>5. u(n) = messages
  BY SubSeqFull
<1> HIDE DEF T, u
<1>6. n \in T
  BY <1>1, <1>3, <1>4, Induction
<1>7. f[n] \in FeedState(B, t) /\ Taken(f[n]) = FlattenSeq(messages)
  BY <1>1, <1>5, <1>6 DEF T
<1>8. QED
  BY <1>2, <1>7

LEMMA FlushedIsTaken ==
    ASSUME NEW B, NEW t \in Nat \ {0}, NEW last \in FeedState(B, t)
    PROVE  /\ Flushed(last) \in Seq(Seq(B))
           /\ FlattenSeq(Flushed(last)) = Taken(last)
           /\ \A i \in 1..Len(Flushed(last)) :
                  \/ Len(Flushed(last)[i]) = t
                  \/ /\ i = Len(Flushed(last)) /\ Flushed(last)[i] = last.buf
                     /\ Len(last.buf) \in 1..t
<1>1. /\ last.buf \in Seq(B) /\ last.fed \in Seq(Seq(B)) /\ Len(last.buf) < t
      /\ \A i \in 1..Len(last.fed) : Len(last.fed[i]) = t
  BY DEF FeedState
<1>2. FlattenSeq(last.fed) \in Seq(B)
  BY <1>1, FlattenType
<1>3. CASE last.buf = <<>>
  <2>1. FlattenSeq(last.fed) \o <<>> = FlattenSeq(last.fed)
    BY <1>2, ConcatEmptySeq
  <2>2. QED
    BY <1>1, <1>3, <2>1 DEF Flushed, Taken
<1>4. CASE last.buf # <<>>
  <2> DEFINE all == Append(last.fed, last.buf)
  <2>1. Flushed(last) = all
    BY <1>4 DEF Flushed
  <2>2. FlattenSeq(all) = FlattenSeq(last.fed) \o last.buf
    BY <1>1, FlattenAppend
  <2>3. /\ all \in Seq(Seq(B)) /\ Len(all) = Len(last.fed) + 1
        /\ \A i \in 1..Len(last.fed) : all[i] = last.fed[i]
        /\ all[Len(last.fed) + 1] = last.buf
    BY <1>1, AppendProperties
  <2>4. Len(last.fed) \in Nat /\ Len(last.buf) \in 1..t
    <3>1. Len(last.fed) \in Nat
      BY <1>1, LenProperties
    <3>2. Len(last.buf) \in Nat \ {0}
      BY <1>1, <1>4, EmptySeq
    <3>3. QED
      BY <1>1, <3>1, <3>2
  <2> HIDE DEF all
  <2>5. ASSUME NEW i \in 1..Len(all)
        PROVE  \/ Len(all[i]) = t
               \/ i = Len(all) /\ all[i] = last.buf
    <3>1. CASE i = Len(all)
      BY <2>3, <3>1
    <3>2. CASE i # Len(all)
      <4>1. i \in 1..Len(last.fed)
        BY <2>3, <2>4, <3>2
      <4>2. QED
        BY <1>1, <2>3, <4>1
    <3>3. QED
      BY <3>1, <3>2
  <2>6. QED
    BY <2>1, <2>2, <2>3, <2>4, <2>5 DEF Taken
<1>5. QED
  BY <1>3, <1>4

(* However a client cuts its audio into messages, the actor is fed the same*)
(* bytes in the same order, in chunks of exactly the target but the last,  *)
(* which is not empty: the feed loop of StreamingRecognize loses, repeats  *)
(* and reorders nothing, for streams and messages of any length.           *)
THEOREM CoalescingKeepsAudioHolds == CoalescingKeepsAudio
<1> SUFFICES ASSUME NEW messages \in Stream, NEW rate \in Rate,
                    NEW ms \in Duration, NEW width \in Width
             PROVE  LET target == TargetBytes(rate, ms, width)
                        chunks == FeedLoop(messages, target)
                    IN  /\ FlattenSeq(chunks) = FlattenSeq(messages)
                        /\ \A i \in 1..Len(chunks) :
                               Len(chunks[i]) \in IF i < Len(chunks) THEN {target} ELSE 1..target
  BY Zenon DEF CoalescingKeepsAudio
<1> DEFINE t == TargetBytes(rate, ms, width)
           chunks == FeedLoop(messages, t)
<1>1. messages \in Seq(Seq(Byte))
  BY AudioAssumption
<1>2. t \in Nat \ {0}
  BY TargetIsWhole
<1> HIDE DEF t
<1>3. PICK last \in FeedState(Byte, t) :
        Taken(last) = FlattenSeq(messages) /\ chunks = Flushed(last)
  BY <1>1, <1>2, FeedLoopTakes
<1> HIDE DEF chunks
<1>4. /\ chunks \in Seq(Seq(Byte)) /\ FlattenSeq(chunks) = FlattenSeq(messages)
      /\ \A i \in 1..Len(chunks) :
             Len(chunks[i]) = t \/ (i = Len(chunks) /\ Len(chunks[i]) \in 1..t)
  BY <1>2, <1>3, FlushedIsTaken
<1>5. ASSUME NEW i \in 1..Len(chunks)
      PROVE  Len(chunks[i]) \in IF i < Len(chunks) THEN {t} ELSE 1..t
  <2>1. Len(chunks) \in Nat
    BY <1>4, LenProperties
  <2>2. t \in 1..t
    BY <1>2
  <2>3. QED
    BY <1>4, <2>1, <2>2
<1>6. QED
  BY <1>4, <1>5 DEF t, chunks

-----------------------------------------------------------------------------
(* Whole samples.                                                          *)

LEMMA WholeSum ==
    ASSUME NEW width \in {2, 4}, NEW a \in Nat, NEW b \in Nat, a % width = 0
    PROVE  (a + b) % width = b % width
<1>1. CASE width = 2
  BY <1>1
<1>2. CASE width = 4
  BY <1>2
<1>3. QED
  BY <1>1, <1>2

LEMMA FlattenWhole ==
    ASSUME NEW B, NEW s \in Seq(Seq(B)), NEW width \in {2, 4},
           \A i \in 1..Len(s) : Len(s[i]) % width = 0
    PROVE  Len(FlattenSeq(s)) \in Nat /\ Len(FlattenSeq(s)) % width = 0
<1> DEFINE u(k) == SubSeq(s, 1, k)
           T == {k \in Nat : k <= Len(s) => Len(FlattenSeq(u(k))) % width = 0}
<1>1. 0 \in T
  <2>1. u(0) = <<>>
    BY SubSeqEmpty
  <2>2. Len(<<>>) = 0 /\ 0 % width = 0
    BY EmptySeq
  <2>3. QED
    BY <2>1, <2>2, FlattenEmpty
<1>2. Len(s) \in Nat
  BY LenProperties
<1>3. ASSUME NEW k \in Nat, k \in T PROVE k + 1 \in T
  <2>1. SUFFICES ASSUME k + 1 <= Len(s) PROVE Len(FlattenSeq(u(k + 1))) % width = 0
    OBVIOUS
  <2>2. k <= Len(s) /\ k + 1 \in 1..Len(s)
    BY <1>2, <2>1
  <2> DEFINE x == s[k + 1]
  <2>3. u(k) \in Seq(Seq(B)) /\ x \in Seq(B) /\ u(k + 1) = Append(u(k), x)
    BY <2>1, PrefixAppend
  <2>4. Len(FlattenSeq(u(k))) % width = 0 /\ Len(x) % width = 0
    BY <1>3, <2>2
  <2> HIDE DEF u, x
  <2>5. FlattenSeq(u(k + 1)) = FlattenSeq(u(k)) \o x
    BY <2>3, FlattenAppend
  <2>6. FlattenSeq(u(k)) \in Seq(B)
    BY <2>3, FlattenType
  <2> DEFINE f == FlattenSeq(u(k))
  <2>7. Len(f \o x) = Len(f) + Len(x)
    <3> HIDE DEF f
    <3>1. f \in Seq(B)
      BY <2>6 DEF f
    <3>2. QED
      BY <2>3, <3>1, ConcatProperties
  <2>8. Len(f) \in Nat /\ Len(x) \in Nat
    BY <2>3, <2>6, LenProperties
  <2>9. (Len(f) + Len(x)) % width = Len(x) % width
    BY <2>4, <2>8, WholeSum
  <2>10. QED
    BY <2>4, <2>5, <2>7, <2>9
<1>4. u(Len(s)) = s
  BY SubSeqFull
<1> HIDE DEF T, u
<1>5. Len(s) \in T
  BY <1>1, <1>2, <1>3, Induction
<1>6. Len(FlattenSeq(s)) % width = 0
  BY <1>2, <1>4, <1>5 DEF T
<1>7. Len(FlattenSeq(s)) \in Nat
  BY FlattenType, LenProperties
<1>8. QED
  BY <1>6, <1>7

(* No chunk ends within a sample unless the client's whole audio does, so  *)
(* that frombuffer raises in the actor for no chunk of a client that sends *)
(* whole samples, however its messages cut them.                           *)
THEOREM ChunksDecodeHolds == ChunksDecode
<1> SUFFICES ASSUME NEW messages \in Stream, NEW rate \in Rate,
                    NEW ms \in Duration, NEW width \in Width
             PROVE  LET chunks == FeedLoop(messages, TargetBytes(rate, ms, width))
                    IN  \A i \in 1..Len(chunks) :
                            Decodes(chunks[i], width)
                                \/ (i = Len(chunks) /\ Len(FlattenSeq(messages)) % width # 0)
  BY Zenon DEF ChunksDecode
<1> DEFINE t == TargetBytes(rate, ms, width)
           chunks == FeedLoop(messages, t)
<1>1. messages \in Seq(Seq(Byte)) /\ width \in {2, 4}
  BY AudioAssumption
<1>2. t \in Nat \ {0} /\ t % width = 0
  BY TargetIsWhole
<1> HIDE DEF t
<1>3. PICK last \in FeedState(Byte, t) :
        Taken(last) = FlattenSeq(messages) /\ chunks = Flushed(last)
  BY <1>1, <1>2, FeedLoopTakes
<1> HIDE DEF chunks
<1>4. \A i \in 1..Len(chunks) :
         Len(chunks[i]) = t \/ (i = Len(chunks) /\ chunks[i] = last.buf)
  BY <1>2, <1>3, FlushedIsTaken
<1>5. last.buf \in Seq(Byte) /\ last.fed \in Seq(Seq(Byte))
  BY DEF FeedState
<1> DEFINE f == FlattenSeq(last.fed)
<1>6. Len(f) \in Nat /\ Len(f) % width = 0
  <2>1. \A i \in 1..Len(last.fed) : Len(last.fed[i]) % width = 0
    BY <1>2 DEF FeedState
  <2>2. QED
    BY <1>1, <1>5, <2>1, FlattenWhole
<1>7. f \in Seq(Byte)
  BY <1>5, FlattenType
<1>8. FlattenSeq(messages) = f \o last.buf
  BY <1>3 DEF Taken
<1> HIDE DEF f
<1>9. Len(FlattenSeq(messages)) = Len(f) + Len(last.buf) /\ Len(last.buf) \in Nat
  BY <1>5, <1>7, <1>8, ConcatProperties, LenProperties
<1>10. Len(FlattenSeq(messages)) % width = Len(last.buf) % width
  <2>1. (Len(f) + Len(last.buf)) % width = Len(last.buf) % width
    BY <1>1, <1>6, <1>9, WholeSum, Zenon
  <2>2. QED
    BY <1>9, <2>1
<1>11. ASSUME NEW i \in 1..Len(chunks)
       PROVE  Decodes(chunks[i], width)
                  \/ (i = Len(chunks) /\ Len(FlattenSeq(messages)) % width # 0)
  BY <1>2, <1>4, <1>10 DEF Decodes
<1>12. QED
  BY <1>11 DEF t, chunks

-----------------------------------------------------------------------------
(* One chunk at the gate.                                                  *)

LEMMA Greatest ==
    ASSUME NEW a \in Nat, NEW b \in Nat, NEW S \in SUBSET (a..b), S # {}
    PROVE  Max(S) \in S /\ \A y \in S : y <= Max(S)
<1> DEFINE D == {b - y : y \in S}
<1>1. D \in SUBSET Nat /\ D # {}
  <2>1. \A y \in S : y \in Nat /\ y <= b
    OBVIOUS
  <2>2. \A y \in S : b - y \in Nat
    BY <2>1
  <2>3. QED
    BY <2>2
<1>2. PICK d \in D : \A e \in D : d <= e
  BY <1>1, Least
<1>3. PICK x \in S : d = b - x
  OBVIOUS
<1>4. ASSUME NEW y \in S PROVE x >= y
  <2>1. b - x <= b - y
    BY <1>2, <1>3
  <2>2. x \in Nat /\ y \in Nat
    OBVIOUS
  <2>3. QED
    BY <2>1, <2>2
<1>5. \E z \in S : \A y \in S : z >= y
  BY <1>4
<1>6. Max(S) \in S /\ \A y \in S : Max(S) >= y
  BY <1>5, Zenon DEF Max
<1>7. QED
  <2>1. \A y \in S : y \in Nat
    OBVIOUS
  <2>2. Max(S) \in Nat
    BY <1>6, <2>1
  <2>3. QED
    BY <1>6, <2>1, <2>2

NoSpeech(speech, a, b) == \A w \in a..b : ~speech[w]
LastSpeech(speech, m, h, g) == m \in h + 1..g /\ speech[m] /\ NoSpeech(speech, m + 1, g)

(* The last k windows of the first h are silent, and there were no more or *)
(* the one before them was speech.                                         *)
Quiet(speech, h, k) ==
    /\ k \in 0..h
    /\ NoSpeech(speech, h - k + 1, h)
    /\ k = h \/ speech[h - k]

(* What the gate keeps.                                                    *)
Silent(W, speech, h, silence) == \E k \in 0..h : Quiet(speech, h, k) /\ silence = k * W
GateState(W, speech) ==
    {g \in [buffered : Nat, heard : Nat, silence : Nat, verdict : BOOLEAN] :
        g.buffered < W /\ Silent(W, speech, g.heard, g.silence)}

LEMMA NewGateState ==
    ASSUME NEW W \in {256, 512}, NEW speech
    PROVE  NewGate \in GateState(W, speech)
<1>1. Quiet(speech, 0, 0) /\ 0 \in 0..0 /\ 0 = 0 * W
  BY DEF Quiet, NoSpeech
<1>2. Silent(W, speech, 0, 0)
  BY <1>1 DEF Silent
<1>3. QED
  BY <1>2 DEF NewGate, GateState

(* Windows h + 1 to g after the first h: the silence goes on, or starts at *)
(* the last of them that was speech.                                       *)
LEMMA SilenceGoesOn ==
    ASSUME NEW W \in {256, 512}, NEW speech, NEW h \in Nat, NEW g \in Nat, h <= g,
           NEW silence \in Nat, Silent(W, speech, h, silence),
           NoSpeech(speech, h + 1, g)
    PROVE  LET all == silence + (g - h) * W
           IN  all \in Nat /\ Silent(W, speech, g, all)
<1>1. PICK k \in 0..h : Quiet(speech, h, k) /\ silence = k * W
  BY DEF Silent
<1> DEFINE l == k + (g - h)
<1>2. l \in 0..g /\ g - l = h - k /\ (l = g <=> k = h)
  OBVIOUS
<1>3. NoSpeech(speech, g - l + 1, g)
  <2>1. ASSUME NEW w \in g - l + 1..g PROVE w \in h - k + 1..h \/ w \in h + 1..g
    BY <1>2
  <2>2. QED
    BY <1>1, <2>1 DEF Quiet, NoSpeech
<1>4. l = g \/ speech[g - l]
  BY <1>1, <1>2 DEF Quiet
<1>5. Quiet(speech, g, l)
  BY <1>2, <1>3, <1>4 DEF Quiet
<1>6. silence + (g - h) * W = l * W /\ l * W \in Nat
  <2>1. CASE W = 256
    BY <1>1, <2>1
  <2>2. CASE W = 512
    BY <1>1, <2>2
  <2>3. QED
    BY <2>1, <2>2
<1> HIDE DEF l
<1>7. QED
  BY <1>2, <1>5, <1>6 DEF Silent

LEMMA SilenceStarts ==
    ASSUME NEW W \in {256, 512}, NEW speech, NEW h \in Nat, NEW g \in Nat,
           NEW m, LastSpeech(speech, m, h, g)
    PROVE  (g - m) * W \in Nat /\ Silent(W, speech, g, (g - m) * W)
<1> DEFINE l == g - m
<1>1. l \in 0..g /\ g - l = m
  BY DEF LastSpeech
<1>2. Quiet(speech, g, l)
  <2>1. NoSpeech(speech, g - l + 1, g) /\ speech[g - l]
    BY <1>1 DEF LastSpeech
  <2>2. QED
    BY <1>1, <2>1 DEF Quiet
<1>3. l * W \in Nat
  <2>1. CASE W = 256
    BY <1>1, <2>1
  <2>2. CASE W = 512
    BY <1>1, <2>2
  <2>3. QED
    BY <2>1, <2>2
<1> HIDE DEF l
<1>4. Silent(W, speech, g, l * W)
  BY <1>1, <1>2 DEF Silent
<1>5. QED
  BY <1>3, <1>4 DEF l

(* What is_speech does with a chunk of the given number of samples.        *)
LEMMA IsSpeechKeeps ==
    ASSUME NEW s, NEW speech, NEW samples \in Nat,
           NEW W, W = WindowSamples(s), NEW g \in GateState(W, speech)
    PROVE  LET next == IsSpeech(s, g, samples, speech)
           IN  /\ next \in GateState(W, speech)
               /\ g.heard <= next.heard
               /\ next.heard * W + next.buffered = (g.heard * W + g.buffered) + samples
               /\ ~next.verdict <=> /\ NoSpeech(speech, g.heard + 1, next.heard)
                                    /\ ~(next.silence < MinSilenceSamples(s))
<1> DEFINE total == g.buffered + samples
           heard == g.heard + total \div W
           crossed == {w \in g.heard + 1..heard : speech[w]}
           silence == IF crossed # {} THEN (heard - Max(crossed)) * W
                      ELSE g.silence + (heard - g.heard) * W
           verdict == crossed # {} \/ silence < MinSilenceSamples(s)
           next == [buffered |-> total % W, heard |-> heard,
                    silence |-> silence, verdict |-> verdict]
<1>1. W \in {256, 512}
  BY DEF WindowSamples
<1>2. /\ g.buffered \in Nat /\ g.heard \in Nat /\ g.silence \in Nat
      /\ g.buffered < W /\ Silent(W, speech, g.heard, g.silence)
  BY DEF GateState
<1>3. IsSpeech(s, g, samples, speech) = next
  BY DEF IsSpeech
<1>4. total \in Nat /\ total \div W \in Nat /\ total % W \in Nat /\ total % W < W
  <2>1. total \in Nat
    BY <1>2
  <2>2. CASE W = 256
    BY <2>1, <2>2
  <2>3. CASE W = 512
    BY <2>1, <2>3
  <2>4. QED
    BY <1>1, <2>1, <2>2, <2>3
<1>5. heard \in Nat /\ g.heard <= heard
  BY <1>2, <1>4
<1>6. (heard * W) + (total % W) = (g.heard * W + g.buffered) + samples
  <2> DEFINE q == total \div W
             r == total % W
             h == g.heard
  <2>1. W \in Nat \ {0}
    BY <1>1
  <2>2. total = (q * W) + r
    BY <1>4, <2>1, DivMod
  <2>3. q \in Nat /\ r \in Nat /\ h \in Nat /\ total = g.buffered + samples /\ heard = h + q
    BY <1>2, <1>4
  <2> HIDE DEF q, r, h, total, heard
  <2>4. ASSUME W = 256 PROVE (h + q) * W + r = (h * W + g.buffered) + samples
    BY <1>2, <2>2, <2>3, <2>4
  <2>5. ASSUME W = 512 PROVE (h + q) * W + r = (h * W + g.buffered) + samples
    BY <1>2, <2>2, <2>3, <2>5
  <2>6. (h + q) * W + r = (h * W + g.buffered) + samples
    BY <1>1, <1>2, <2>2, <2>3, <2>4, <2>5
  <2>7. QED
    BY <2>3, <2>6 DEF r, h
<1> HIDE DEF total, heard
<1>7. silence \in Nat /\ Silent(W, speech, heard, silence)
  <2>1. CASE crossed = {}
    <3>1. NoSpeech(speech, g.heard + 1, heard)
      BY <2>1 DEF NoSpeech
    <3>2. silence = g.silence + (heard - g.heard) * W
      BY <2>1
    <3> HIDE DEF crossed, silence
    <3> DEFINE h == g.heard
               old == g.silence
    <3>5. h \in Nat /\ old \in Nat
      BY <1>2
    <3>6. h <= heard
      BY <1>5
    <3>7. Silent(W, speech, h, old)
      BY <1>2
    <3> HIDE DEF h, old
    <3>3. old + (heard - h) * W \in Nat /\ Silent(W, speech, heard, old + (heard - h) * W)
      <4>1. NoSpeech(speech, h + 1, heard)
        BY <3>1 DEF h
      <4>2. QED
        BY <1>1, <1>5, <3>5, <3>6, <3>7, <4>1, SilenceGoesOn
    <3>4. QED
      BY <3>2, <3>3 DEF h, old
  <2>2. CASE crossed # {}
    <3> DEFINE m == Max(crossed)
    <3>1. g.heard + 1 \in Nat /\ crossed \in SUBSET (g.heard + 1..heard)
      BY <1>2
    <3>2. silence = (heard - m) * W
      BY <2>2
    <3>3. \A w \in g.heard + 1..heard : w \in crossed <=> speech[w]
      OBVIOUS
    <3> HIDE DEF crossed, silence
    <3>4. m \in crossed /\ \A y \in crossed : y <= m
      BY <1>5, <2>2, <3>1, Greatest
    <3> HIDE DEF m
    <3>5. m \in g.heard + 1..heard /\ speech[m]
      BY <3>1, <3>3, <3>4
    <3>6. NoSpeech(speech, m + 1, heard)
      <4>1. ASSUME NEW w \in m + 1..heard, speech[w] PROVE FALSE
        <5>1. w \in g.heard + 1..heard /\ ~(w <= m)
          BY <1>2, <1>5, <3>5
        <5>2. QED
          BY <3>3, <3>4, <4>1, <5>1
      <4>2. QED
        BY <4>1 DEF NoSpeech
    <3>9. LastSpeech(speech, m, g.heard, heard)
      BY <3>5, <3>6 DEF LastSpeech
    <3>7. (heard - m) * W \in Nat /\ Silent(W, speech, heard, (heard - m) * W)
      BY <1>1, <1>2, <1>5, <3>9, SilenceStarts
    <3>8. QED
      BY <3>2, <3>7
  <2>3. QED
    BY <2>1, <2>2
<1> HIDE DEF silence
<1>8. next \in GateState(W, speech)
  BY <1>4, <1>5, <1>7 DEF GateState
<1>9. ~next.verdict <=> /\ NoSpeech(speech, g.heard + 1, next.heard)
                       /\ ~(next.silence < MinSilenceSamples(s))
  <2>1. ~verdict <=> crossed = {} /\ ~(silence < MinSilenceSamples(s))
    OBVIOUS
  <2>2. crossed = {} <=> NoSpeech(speech, g.heard + 1, heard)
    BY DEF NoSpeech
  <2>3. next.verdict = verdict /\ next.heard = heard /\ next.silence = silence
    OBVIOUS
  <2> HIDE DEF verdict, crossed, next
  <2>4. QED
    BY <2>1, <2>2, <2>3
<1>10. next.heard = heard /\ next.buffered = total % W
  OBVIOUS
<1> HIDE DEF next
<1>11. QED
  BY <1>3, <1>5, <1>6, <1>8, <1>9, <1>10

-----------------------------------------------------------------------------
(* All the chunks of a session at the gate.                                *)

Gates(f, s, warmup, chunks, speech) ==
    \A i \in 0..Len(chunks) :
        f[i] = IF i <= warmup THEN NewGate ELSE IsSpeech(s, f[i - 1], chunks[i], speech)
Counts(f, warmup, chunks) ==
    \A i \in 0..Len(chunks) : f[i] = IF i <= warmup THEN 0 ELSE f[i - 1] + chunks[i]

LEMMA PassesGates ==
    ASSUME NEW s, NEW warmup \in Nat, NEW chunks \in Seq(Nat), NEW speech
    PROVE  \E f : /\ Gates(f, s, warmup, chunks, speech)
                  /\ \A i \in 1..Len(chunks) :
                         Passes(s, warmup, chunks, speech)[i] <=> (GateBuilt(s) => f[i].verdict)
<1> DEFINE n == Len(chunks)
           W == WindowSamples(s)
           S == GateState(W, speech)
           F == CHOOSE f : f = [i \in 0..n |->
                    IF i <= warmup THEN NewGate ELSE IsSpeech(s, f[i - 1], chunks[i], speech)]
           step == [p \in (1..n) \X S |->
                    IF p[1] <= warmup THEN NewGate ELSE IsSpeech(s, p[2], chunks[p[1]], speech)]
<1>1. n \in Nat /\ \A i \in 1..n : chunks[i] \in Nat
  BY LenProperties, ElementOfSeq
<1>2. Passes(s, warmup, chunks, speech) = [i \in 1..n |-> GateBuilt(s) => F[i].verdict]
  BY Zenon DEF Passes
<1>3. W \in {256, 512}
  BY DEF WindowSamples
<1>4. NewGate \in S
  BY <1>3, NewGateState
<1> HIDE DEF n, S
<1>5. ASSUME NEW i \in 1..n, NEW v \in S
      PROVE  /\ step[<<i, v>>] =
                    IF i <= warmup THEN NewGate ELSE IsSpeech(s, v, chunks[i], speech)
             /\ step[<<i, v>>] \in S
  <2>1. step[<<i, v>>] = IF i <= warmup THEN NewGate ELSE IsSpeech(s, v, chunks[i], speech)
    OBVIOUS
  <2>2. IsSpeech(s, v, chunks[i], speech) \in S
    BY <1>1, IsSpeechKeeps DEF S
  <2>3. QED
    BY <1>4, <2>1, <2>2
<1> HIDE DEF step
<1>6. PICK g : Run(g, NewGate, step, n, S)
  <2>1. StaysIn(step, n, S)
    BY <1>5 DEF StaysIn
  <2>2. QED
    BY <1>1, <1>4, <2>1, Iteration DEF HasRun
<1>7. /\ g = [i \in 0..n |-> g[i]]
      /\ \A i \in 0..n : g[i] \in S
      /\ g[0] = NewGate
      /\ \A i \in 1..n : g[i] = step[<<i, g[i - 1]>>]
  BY <1>6 DEF Run
<1>8. ASSUME NEW i \in 0..n
      PROVE  g[i] = IF i <= warmup THEN NewGate ELSE IsSpeech(s, g[i - 1], chunks[i], speech)
  <2>1. CASE i = 0
    BY <1>7, <2>1
  <2>2. CASE i # 0
    <3>1. i \in 1..n /\ i - 1 \in 0..n
      BY <1>1, <2>2
    <3>2. g[i - 1] \in S
      BY <1>7, <3>1
    <3>3. QED
      BY <1>5, <1>7, <3>1, <3>2
  <2>3. QED
    BY <2>1, <2>2
<1>9. g = [i \in 0..n |->
             IF i <= warmup THEN NewGate ELSE IsSpeech(s, g[i - 1], chunks[i], speech)]
  BY <1>7, <1>8
<1>10. F = [i \in 0..n |->
             IF i <= warmup THEN NewGate ELSE IsSpeech(s, F[i - 1], chunks[i], speech)]
  BY <1>9, Zenon
<1> HIDE DEF F
<1>11. Gates(F, s, warmup, chunks, speech)
  BY <1>10 DEF Gates, n
<1>12. \A i \in 1..Len(chunks) :
          Passes(s, warmup, chunks, speech)[i] <=> (GateBuilt(s) => F[i].verdict)
  BY <1>2, Zenon DEF n
<1>13. QED
  BY <1>11, <1>12

LEMMA HeardCounts ==
    ASSUME NEW s, NEW warmup \in Nat, NEW chunks \in Seq(Nat)
    PROVE  \E f : /\ Counts(f, warmup, chunks)
                  /\ \A i : Heard(s, warmup, chunks, i) = f[i] \div WindowSamples(s)
<1> DEFINE n == Len(chunks)
           F == CHOOSE f : f = [j \in 0..n |-> IF j <= warmup THEN 0 ELSE f[j - 1] + chunks[j]]
           step == [p \in (1..n) \X Nat |-> IF p[1] <= warmup THEN 0 ELSE p[2] + chunks[p[1]]]
<1>1. n \in Nat /\ \A i \in 1..n : chunks[i] \in Nat
  BY LenProperties, ElementOfSeq
<1>2. \A i : Heard(s, warmup, chunks, i) = F[i] \div WindowSamples(s)
  BY Zenon DEF Heard
<1> HIDE DEF n
<1>5. ASSUME NEW i \in 1..n, NEW v \in Nat
      PROVE  /\ step[<<i, v>>] = IF i <= warmup THEN 0 ELSE v + chunks[i]
             /\ step[<<i, v>>] \in Nat
  BY <1>1
<1> HIDE DEF step
<1>6. PICK g : Run(g, 0, step, n, Nat)
  <2>1. StaysIn(step, n, Nat)
    BY <1>5 DEF StaysIn
  <2>2. 0 \in Nat
    OBVIOUS
  <2>3. QED
    BY <1>1, <2>1, <2>2, Iteration DEF HasRun
<1>7. /\ g = [i \in 0..n |-> g[i]]
      /\ \A i \in 0..n : g[i] \in Nat
      /\ g[0] = 0
      /\ \A i \in 1..n : g[i] = step[<<i, g[i - 1]>>]
  BY <1>6 DEF Run
<1>8. ASSUME NEW i \in 0..n
      PROVE  g[i] = IF i <= warmup THEN 0 ELSE g[i - 1] + chunks[i]
  <2>1. CASE i = 0
    BY <1>7, <2>1
  <2>2. CASE i # 0
    <3>1. i \in 1..n /\ i - 1 \in 0..n
      BY <1>1, <2>2
    <3>2. g[i - 1] \in Nat
      BY <1>7, <3>1
    <3>3. QED
      BY <1>5, <1>7, <3>1, <3>2
  <2>3. QED
    BY <2>1, <2>2
<1>9. g = [i \in 0..n |-> IF i <= warmup THEN 0 ELSE g[i - 1] + chunks[i]]
  BY <1>7, <1>8
<1>10. F = [i \in 0..n |-> IF i <= warmup THEN 0 ELSE F[i - 1] + chunks[i]]
  BY <1>9, Zenon
<1> HIDE DEF F
<1>11. Counts(F, warmup, chunks)
  BY <1>10 DEF Counts, n
<1>12. QED
  BY <1>2, <1>11

LEMMA WindowsOf ==
    ASSUME NEW W \in {256, 512}, NEW h \in Nat, NEW b \in Nat, b < W
    PROVE  (h * W + b) \div W = h
<1>1. CASE W = 256
  BY <1>1
<1>2. CASE W = 512
  BY <1>2
<1>3. QED
  BY <1>1, <1>2

(* The gate's invariant: every sample after the warm-up is in a window     *)
(* heard or in the buffer, and the silence is the length of the last run of*)
(* silent windows.                                                         *)
LEMMA GatesCount ==
    ASSUME NEW s, NEW warmup \in Nat, NEW chunks \in Seq(Nat), NEW speech,
           NEW f, Gates(f, s, warmup, chunks, speech),
           NEW c, Counts(c, warmup, chunks)
    PROVE  \A i \in 0..Len(chunks) :
               /\ f[i] \in GateState(WindowSamples(s), speech)
               /\ c[i] \div WindowSamples(s) = f[i].heard
<1> DEFINE n == Len(chunks)
           W == WindowSamples(s)
           Right(g, k) == g \in GateState(W, speech) /\ k = g.heard * W + g.buffered
           T == {i \in Nat : i <= n => Right(f[i], c[i])}
<1>1. n \in Nat /\ \A i \in 1..n : chunks[i] \in Nat
  BY LenProperties, ElementOfSeq
<1>2. W \in {256, 512}
  BY DEF WindowSamples
<1>3. Right(NewGate, 0)
  <2>1. NewGate \in GateState(W, speech)
    BY <1>2, NewGateState
  <2>2. NewGate.heard * W + NewGate.buffered = 0
    BY <1>2 DEF NewGate
  <2>3. QED
    BY <2>1, <2>2
<1>4. ASSUME NEW i \in 0..n, i <= warmup PROVE Right(f[i], c[i])
  <2>1. f[i] = NewGate /\ c[i] = 0
    BY <1>4 DEF Gates, Counts
  <2> HIDE DEF Right
  <2>2. QED
    BY <1>3, <2>1
<1>5. 0 \in T
  <2> HIDE DEF Right
  <2>1. 0 \in 0..n
    BY <1>1
  <2>2. QED
    BY <1>4, <2>1
<1>6. ASSUME NEW i \in Nat, i \in T PROVE i + 1 \in T
  <2>1. SUFFICES ASSUME i + 1 <= n PROVE Right(f[i + 1], c[i + 1])
    OBVIOUS
  <2>2. i <= n /\ i + 1 \in 1..n /\ i + 1 \in 0..n /\ (i + 1) - 1 = i
    BY <1>1, <2>1
  <2>3. CASE i + 1 <= warmup
    <3> HIDE DEF Right
    <3>1. QED
      BY <1>4, <2>2, <2>3
  <2>4. CASE ~(i + 1 <= warmup)
    <3>1. Right(f[i], c[i])
      BY <1>6, <2>2
    <3> DEFINE g == f[i]
               m == chunks[i + 1]
    <3>2. g \in GateState(W, speech) /\ c[i] = g.heard * W + g.buffered
      BY <3>1
    <3>3. f[i + 1] = IsSpeech(s, g, m, speech) /\ c[i + 1] = c[i] + m
      BY <2>2, <2>4 DEF Gates, Counts
    <3>4. m \in Nat
      BY <1>1, <2>2
    <3> DEFINE next == IsSpeech(s, g, m, speech)
    <3> HIDE DEF g, m
    <3>5. /\ next \in GateState(W, speech)
          /\ next.heard * W + next.buffered = (g.heard * W + g.buffered) + m
      BY <3>2, <3>4, IsSpeechKeeps
    <3> HIDE DEF next
    <3>6. QED
      BY <3>2, <3>3, <3>5 DEF next
  <2>5. QED
    BY <2>3, <2>4
<1> HIDE DEF T, Right
<1>7. \A i \in Nat : i \in T
  BY <1>5, <1>6, Induction
<1>8. \A i \in 0..n : Right(f[i], c[i])
  BY <1>1, <1>7 DEF T
<1>9. ASSUME NEW i \in 0..n
      PROVE  f[i] \in GateState(W, speech) /\ c[i] \div W = f[i].heard
  <2>1. f[i] \in GateState(W, speech) /\ c[i] = f[i].heard * W + f[i].buffered
    BY <1>8 DEF Right
  <2>2. f[i].heard \in Nat /\ f[i].buffered \in Nat /\ f[i].buffered < W
    BY <2>1 DEF GateState
  <2> DEFINE h == f[i].heard
             b == f[i].buffered
  <2>3. h \in Nat /\ b \in Nat /\ b < W
    BY <2>2
  <2> HIDE DEF W, h, b
  <2>4. (h * W + b) \div W = h
    BY <1>2, <2>3, WindowsOf
  <2>5. QED
    BY <2>1, <2>4 DEF h, b
<1>10. QED
  BY <1>9

LongRun(W, speech, h, L) ==
    \E k \in 0..h : NoSpeech(speech, h - k + 1, h) /\ k * W >= L

(* That the gate counts a silence of at least L is that some run of silent *)
(* windows, ending now, is that long.                                      *)
LEMMA LongSilence ==
    ASSUME NEW W \in {256, 512}, NEW speech, NEW h \in Nat, NEW silence \in Nat,
           Silent(W, speech, h, silence), NEW L \in Nat
    PROVE  ~(silence < L) <=> LongRun(W, speech, h, L)
<1>1. PICK k \in 0..h : Quiet(speech, h, k) /\ silence = k * W
  BY DEF Silent
<1>2. k \in Nat /\ NoSpeech(speech, h - k + 1, h)
  BY <1>1 DEF Quiet
<1>3. ASSUME NEW l \in 0..h, NoSpeech(speech, h - l + 1, h) PROVE l <= k
  <2>1. SUFFICES ASSUME l > k PROVE FALSE
    BY <1>2
  <2>2. speech[h - k]
    BY <1>1, <2>1 DEF Quiet
  <2>3. h - k \in h - l + 1..h
    BY <2>1
  <2>4. QED
    BY <1>3, <2>2, <2>3 DEF NoSpeech
<1>4. ASSUME NEW l \in 0..h, l <= k, l * W >= L PROVE ~(k * W < L)
  <2>1. CASE W = 256
    BY <1>2, <1>4, <2>1
  <2>2. CASE W = 512
    BY <1>2, <1>4, <2>2
  <2>3. QED
    BY <2>1, <2>2
<1>5. ~(k * W < L) => k * W >= L
  <2>1. CASE W = 256
    BY <1>2, <2>1
  <2>2. CASE W = 512
    BY <1>2, <2>2
  <2>3. QED
    BY <2>1, <2>2
<1>6. QED
  BY <1>1, <1>2, <1>3, <1>4, <1>5 DEF LongRun

(* The gate drops a chunk exactly when it completes no window of speech and*)
(* the windows of at least the last min_silence samples heard are silent,  *)
(* wherever the boundaries of the chunks fall among the windows: what      *)
(* is_speech counts from chunk to chunk is the silence of the whole        *)
(* session.  Without a gate, and during the warm-up, nothing is dropped.   *)
THEOREM GateIsHysteresisHolds == GateIsHysteresis
<1> SUFFICES ASSUME NEW s \in Setting, NEW chunks \in Cutting,
                    NEW speech \in Hearing, NEW warmup \in Warmup,
                    NEW i \in 1..Len(chunks)
             PROVE  LET now == Heard(s, warmup, chunks, i)
                        before == Heard(s, warmup, chunks, i - 1)
                        silent(k) == \A w \in now - k + 1..now : ~speech[w]
                    IN  ~Passes(s, warmup, chunks, speech)[i] <=>
                            /\ GateBuilt(s) /\ i > warmup
                            /\ silent(now - before)
                            /\ \E k \in 0..now :
                                   silent(k) /\ k * WindowSamples(s) >= MinSilenceSamples(s)
  BY Zenon DEF GateIsHysteresis
<1> DEFINE n == Len(chunks)
           W == WindowSamples(s)
           L == MinSilenceSamples(s)
           passes == Passes(s, warmup, chunks, speech)[i]
           now == Heard(s, warmup, chunks, i)
           before == Heard(s, warmup, chunks, i - 1)
<1>1. chunks \in Seq(Nat) /\ warmup \in Nat
  BY AudioAssumption
<1>2. n \in Nat /\ \A j \in 1..n : chunks[j] \in Nat
  BY <1>1, LenProperties, ElementOfSeq
<1>3. W \in {256, 512}
  BY DEF WindowSamples
<1>4. L \in Nat
  <2>1. s.rate \in Nat /\ s.minSilenceMs \in Nat
    BY AudioAssumption
  <2>2. s.rate * s.minSilenceMs \in Nat
    BY <2>1
  <2>3. \A x \in Nat : x \div 1000 \in Nat
    OBVIOUS
  <2>4. QED
    BY <2>2, <2>3 DEF MinSilenceSamples
<1>5. PICK f : /\ Gates(f, s, warmup, chunks, speech)
               /\ \A j \in 1..n : Passes(s, warmup, chunks, speech)[j] <=> (GateBuilt(s) => f[j].verdict)
  BY <1>1, PassesGates
<1>6. PICK c : /\ Counts(c, warmup, chunks)
               /\ \A j : Heard(s, warmup, chunks, j) = c[j] \div W
  BY <1>1, HeardCounts
<1>7. i \in 0..n /\ i - 1 \in 0..n
  BY <1>2
<1>8. \A j \in 0..n : f[j] \in GateState(W, speech) /\ c[j] \div W = f[j].heard
  BY <1>1, <1>5, <1>6, GatesCount
<1>9. /\ f[i] \in GateState(W, speech) /\ f[i - 1] \in GateState(W, speech)
      /\ now = f[i].heard /\ before = f[i - 1].heard
  BY <1>6, <1>7, <1>8
<1>10. passes <=> (GateBuilt(s) => f[i].verdict)
  BY <1>5
<1> HIDE DEF n, passes, now, before, W, L
<1>11. /\ now \in Nat /\ before \in Nat
       /\ f[i].silence \in Nat /\ Silent(W, speech, now, f[i].silence)
  BY <1>9 DEF GateState
<1>12. ~(f[i].silence < L) <=> LongRun(W, speech, now, L)
  <2> DEFINE silence == f[i].silence
  <2>1. silence \in Nat /\ Silent(W, speech, now, silence)
    BY <1>11
  <2> HIDE DEF silence
  <2>2. ~(silence < L) <=> LongRun(W, speech, now, L)
    BY <1>3, <1>4, <1>11, <2>1, LongSilence
  <2>3. QED
    BY <2>2 DEF silence
<1>13. CASE i <= warmup
  <2>1. f[i] = NewGate
    BY <1>5, <1>7, <1>13 DEF Gates, n
  <2>2. passes
    <3>1. f[i].verdict
      BY <2>1 DEF NewGate
    <3>2. QED
      BY <1>10, <3>1
  <2>3. ~(i > warmup)
    BY <1>1, <1>2, <1>13
  <2>4. QED
    BY <2>2, <2>3 DEF passes
<1>14. CASE ~(i <= warmup)
  <2> DEFINE g == f[i - 1]
             m == chunks[i]
             next == IsSpeech(s, g, m, speech)
  <2>1. f[i] = next
    BY <1>5, <1>7, <1>14 DEF Gates, n
  <2>2. g \in GateState(W, speech) /\ m \in Nat
    BY <1>2, <1>9 DEF n
  <2> HIDE DEF g, m
  <2>3. ~next.verdict <=> /\ NoSpeech(speech, g.heard + 1, next.heard)
                         /\ ~(next.silence < L)
    BY <2>2, IsSpeechKeeps DEF W, L
  <2>4. ~f[i].verdict <=> NoSpeech(speech, before + 1, now) /\ ~(f[i].silence < L)
    BY <1>9, <2>1, <2>3 DEF g
  <2>5. before + 1 = now - (now - before) + 1
    BY <1>11
  <2>6. ~passes <=> /\ GateBuilt(s)
                   /\ NoSpeech(speech, now - (now - before) + 1, now)
                   /\ LongRun(W, speech, now, L)
    BY <1>10, <1>12, <2>4, <2>5
  <2>7. i > warmup
    BY <1>1, <1>14
  <2>8. QED
    BY <2>6, <2>7 DEF passes, NoSpeech, LongRun, W, L, now, before
<1>15. QED
  BY <1>13, <1>14

=============================================================================
