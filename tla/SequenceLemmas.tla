---------------------------- MODULE SequenceLemmas ----------------------------
(***************************************************************************)
(* Facts about the naturals, sequences and the operators of SequencesExt,  *)
(* for sequences of any length and of anything: induction up to a number,  *)
(* the elements of a sequence that is joined, listed from a set or         *)
(* flattened.                                                              *)
(***************************************************************************)
EXTENDS Integers, Sequences, SequencesExt, FiniteSetTheorems, WellFoundedInduction, TLAPS

Minimal(x, F) == \A y \in F : y \subseteq x => y = x

LEMMA MinimalSubset ==
  ASSUME NEW S, IsFiniteSet(S), NEW F, F # {}, \A x \in F : x \subseteq S
  PROVE  \E x \in F : Minimal(x, F)
<1>1. F \subseteq FiniteSubsetsOf(S)
  BY FS_FiniteSubsetsOfFinite
<1>2. \E x \in F : \A y \in F : ~ (<<y, x>> \in StrictSubsetOrdering(S))
  BY <1>1, FS_StrictSubsetOrderingWellFounded, WFMin, Zenon
<1> QED
  BY <1>2 DEF StrictSubsetOrdering, Minimal

LEMMA Smallest ==
  ASSUME NEW T \in SUBSET Nat, T # {}
  PROVE  \E x \in T : \A y \in T : x <= y
<1>1. PICK n \in T : TRUE
  OBVIOUS
<1> DEFINE F == {1 .. k : k \in {i \in T : i <= n}}
<1>2. IsFiniteSet(1 .. n)
  BY FS_Interval
<1>3. (\A x \in F : x \subseteq 1 .. n) /\ F # {}
  BY <1>1
<1>4. \A i \in T : i <= n => 1 .. i \in F
  OBVIOUS
<1>5. \A x \in F : \E i \in T : i <= n /\ x = 1 .. i
  OBVIOUS
<1> HIDE DEF F
<1>6. PICK x \in F : Minimal(x, F)
  BY <1>2, <1>3, MinimalSubset, Zenon
<1>7. PICK k \in T : k <= n /\ x = 1 .. k
  BY <1>5
<1>8. ASSUME NEW j \in T, j < k
      PROVE  FALSE
  <2>1. 1 .. j \in F /\ 1 .. j \subseteq x
    BY <1>4, <1>7, <1>8
  <2>2. 1 .. j = x
    BY <1>6, <2>1, Zenon DEF Minimal
  <2>3. k \in 1 .. k /\ k \notin 1 .. j
    BY <1>8
  <2> QED
    BY <1>7, <2>2, <2>3
<1> QED
  BY <1>8

\* Induction up to n, for a property given by the set of the numbers that have it.
LEMMA UpTo ==
  ASSUME NEW n \in Nat, NEW P, 0 \in P, \A k \in 0 .. n - 1 : k \in P => k + 1 \in P
  PROVE  \A k \in 0 .. n : k \in P
<1> DEFINE T == {k \in 0 .. n : k \notin P}
<1> SUFFICES ASSUME T # {}
             PROVE  FALSE
  OBVIOUS
<1>1. T \in SUBSET Nat
  OBVIOUS
<1>2. PICK k \in T : \A j \in T : k <= j
  BY <1>1, Smallest
<1>3. k # 0 /\ k - 1 \in 0 .. n - 1 /\ k - 1 \in 0 .. n /\ (k - 1) + 1 = k
  BY <1>2
<1>4. k - 1 \in P
  BY <1>2, <1>3
<1> QED
  BY <1>3, <1>4

-----------------------------------------------------------------------------
\* Sequences of anything: what holds of its elements is left to the invariants.
IsSeq(s) == s \in Seq(ToSet(s))

LEMMA Joined ==
  ASSUME NEW s, NEW u, IsSeq(s), IsSeq(u)
  PROVE  IsSeq(s \o u) /\ ToSet(s \o u) = ToSet(s) \cup ToSet(u)
<1> DEFINE S == ToSet(s) \cup ToSet(u)
           r == s \o u
<1>1. s \in Seq(S) /\ u \in Seq(S)
  BY DEF IsSeq
<1>2. r \in Seq(S) /\ Len(r) = Len(s) + Len(u)
  BY <1>1
<1>3. \A i \in 1 .. Len(r) : r[i] = IF i <= Len(s) THEN s[i] ELSE u[i - Len(s)]
  BY <1>1
<1>4. \A i \in 1 .. Len(s) : i \in 1 .. Len(r) /\ r[i] = s[i]
  BY <1>1, <1>2, <1>3
<1>5. \A i \in 1 .. Len(u) : i + Len(s) \in 1 .. Len(r) /\ r[i + Len(s)] = u[i]
  BY <1>1, <1>2, <1>3
<1>6. DOMAIN r = 1 .. Len(r) /\ DOMAIN s = 1 .. Len(s) /\ DOMAIN u = 1 .. Len(u)
  BY <1>1, <1>2
<1> HIDE DEF r
<1>7. ToSet(r) \subseteq S
  BY <1>2, <1>6 DEF ToSet
<1>8. S \subseteq ToSet(r)
  BY <1>4, <1>5, <1>6 DEF ToSet
<1>9. ToSet(r) = S
  BY <1>7, <1>8
<1> QED
  BY <1>2, <1>9 DEF IsSeq, r

LEMMA SeqIsSeq ==
  ASSUME NEW S, NEW s \in Seq(S)
  PROVE  IsSeq(s) /\ ToSet(s) \subseteq S
BY DEF IsSeq, ToSet

LEMMA SeqWider ==
  ASSUME NEW S, NEW T, S \subseteq T, NEW s \in Seq(S)
  PROVE  s \in Seq(T)
OBVIOUS

LEMMA OneIsSeq ==
  ASSUME NEW e
  PROVE  IsSeq(<<e>>) /\ ToSet(<<e>>) = {e}
BY DEF IsSeq, ToSet

LEMMA Appended ==
  ASSUME NEW s, IsSeq(s), NEW e
  PROVE  IsSeq(Append(s, e)) /\ ToSet(Append(s, e)) = ToSet(s) \cup {e}
<1>1. Append(s, e) = s \o <<e>>
  BY DEF IsSeq
<1> QED
  BY <1>1, OneIsSeq, Joined

(***************************************************************************)
(* SetToSeq lists a finite set, each element once.                         *)
(***************************************************************************)
LEMMA SetToSeqLists ==
  ASSUME NEW S, IsFiniteSet(S)
  PROVE  IsSeq(SetToSeq(S)) /\ ToSet(SetToSeq(S)) = S /\ IsInjective(SetToSeq(S))
<1> DEFINE n == Cardinality(S)
           q == SetToSeq(S)
<1>1. n \in Nat /\ ExistsBijection(1 .. n, S)
  BY FS_CardinalityType
<1>2. \E f \in [1 .. n -> S] : IsInjective(f)
  BY <1>1, Zenon DEF ExistsBijection, Bijection, Injection, IsInjective
<1>3. q \in [1 .. n -> S] /\ IsInjective(q)
  BY <1>2, Zenon DEF SetToSeq
<1> HIDE DEF q
<1>4. q \in Injection(1 .. n, S)
  BY <1>3 DEF Injection, IsInjective
<1>5. Cardinality(1 .. n) = n
  BY <1>1, FS_Interval
<1>6. q \in Surjection(1 .. n, S)
  BY <1>4, <1>5, FS_Injection
<1>7. q \in Seq(S)
  BY <1>1, <1>3
<1>8. DOMAIN q = 1 .. n
  BY <1>3
<1>9. ToSet(q) = S
  BY <1>3, <1>6, <1>8 DEF ToSet, Surjection
<1> QED
  BY <1>3, <1>7, <1>9 DEF IsSeq, q

\* The list of nothing, and of one element.
LEMMA SetToSeqNone == SetToSeq({}) = <<>>
<1> DEFINE q == SetToSeq({})
<1>1. IsFiniteSet({})
  BY FS_EmptySet
<1>2. IsSeq(q) /\ ToSet(q) = {}
  BY <1>1, SetToSeqLists
<1> HIDE DEF q
<1>3. q \in Seq({})
  BY <1>2 DEF IsSeq
<1>4. q = <<>>
  BY <1>3
<1> QED
  BY <1>4 DEF q

LEMMA SetToSeqOne ==
  ASSUME NEW x
  PROVE  SetToSeq({x}) = <<x>>
<1> DEFINE q == SetToSeq({x})
<1>1. IsFiniteSet({x})
  BY FS_Singleton
<1>2. IsSeq(q) /\ ToSet(q) = {x} /\ IsInjective(q)
  BY <1>1, SetToSeqLists
<1> HIDE DEF q
<1>3. /\ q \in Seq({x}) /\ Len(q) \in Nat /\ DOMAIN q = 1 .. Len(q)
      /\ \A i \in 1 .. Len(q) : q[i] = x
  BY <1>2 DEF IsSeq
<1>4. \A i, j \in 1 .. Len(q) : i = j
  BY <1>2, <1>3 DEF IsInjective
<1>5. Len(q) # 0
  <2>1. PICK i \in DOMAIN q : q[i] = x
    BY <1>2 DEF ToSet
  <2> QED
    BY <1>3, <2>1
<1>6. Len(q) = 1
  <2>1. ~ (Len(q) >= 2)
    <3>1. SUFFICES ASSUME Len(q) >= 2 PROVE FALSE
      OBVIOUS
    <3>2. 1 \in 1 .. Len(q) /\ 2 \in 1 .. Len(q)
      BY <1>3, <3>1
    <3> QED
      BY <1>4, <3>2
  <2> QED
    BY <1>3, <1>5, <2>1
<1>7. q = <<x>>
  BY <1>3, <1>6
<1> QED
  BY <1>7 DEF q

LEMMA ToSetFinite ==
  ASSUME NEW s, IsSeq(s)
  PROVE  IsFiniteSet(ToSet(s))
<1> DEFINE n == Len(s)
<1>1. n \in Nat /\ s \in [1 .. n -> ToSet(s)] /\ DOMAIN s = 1 .. n
  BY DEF IsSeq
<1>2. s \in Surjection(1 .. n, ToSet(s))
  BY <1>1 DEF Surjection, ToSet
<1>3. IsFiniteSet(1 .. n)
  BY <1>1, FS_Interval
<1> QED
  BY <1>2, <1>3, FS_Surjection

-----------------------------------------------------------------------------
(***************************************************************************)
(* Lists one after another.  FlatBy(f, seqs, n): f gives the first i of    *)
(* the lists of seqs, joined.                                              *)
(***************************************************************************)
FlatBy(f, seqs, n) ==
  f = [i \in 1 .. n |-> IF i = 1 THEN seqs[i] ELSE f[i-1] \o seqs[i]]

LEMMA FlatExists ==
  ASSUME NEW seqs, NEW n \in Nat
  PROVE  \E f : FlatBy(f, seqs, n)
<1> DEFINE P == {k \in Nat : \E f : FlatBy(f, seqs, k)}
<1>1. 0 \in P
  <2> DEFINE f == [i \in 1 .. 0 |-> 0]
  <2>1. \A i \in 1 .. 0 : FALSE
    OBVIOUS
  <2>2. FlatBy(f, seqs, 0)
    BY <2>1, Zenon DEF FlatBy
  <2> QED
    BY <2>2, Zenon
<1>2. ASSUME NEW k \in 0 .. n - 1, k \in P
      PROVE  k + 1 \in P
  <2>1. PICK g : FlatBy(g, seqs, k)
    BY <1>2, Zenon
  <2>2. \A i \in 1 .. k : g[i] = IF i = 1 THEN seqs[i] ELSE g[i-1] \o seqs[i]
    BY <2>1, Zenon DEF FlatBy
  <2> DEFINE last == IF k + 1 = 1 THEN seqs[k + 1] ELSE g[k] \o seqs[k + 1]
             f == [i \in 1 .. k + 1 |-> IF i = k + 1 THEN last ELSE g[i]]
  <2>3. /\ k + 1 \in Nat /\ k + 1 \in 1 .. k + 1 /\ (k + 1) - 1 = k /\ k # k + 1
        /\ \A i \in 1 .. k : i # k + 1 /\ i \in 1 .. k + 1
        /\ \A i \in 1 .. k : i # 1 => i - 1 \in 1 .. k
        /\ \A i \in 1 .. k + 1 : i = k + 1 \/ i \in 1 .. k
        /\ k + 1 # 1 => k \in 1 .. k
    OBVIOUS
  <2>4. f[k + 1] = last /\ \A i \in 1 .. k : f[i] = g[i]
    <3> HIDE DEF last
    <3> QED
      BY <2>3, Zenon
  <2>5. DOMAIN f = 1 .. k + 1 /\ f = [i \in DOMAIN f |-> f[i]]
    <3> HIDE DEF last
    <3> QED
      BY Zenon
  <2> HIDE DEF f
  <2>6. ASSUME NEW i \in 1 .. k + 1
        PROVE  f[i] = IF i = 1 THEN seqs[i] ELSE f[i-1] \o seqs[i]
    <3>1. CASE i = k + 1
      <4>1. f[i] = IF i = 1 THEN seqs[i] ELSE g[k] \o seqs[i]
        BY <2>4, <3>1, Zenon
      <4>2. i # 1 => f[i - 1] = g[k]
        BY <2>3, <2>4, <3>1, Zenon
      <4> QED
        BY <4>1, <4>2, Zenon
    <3>2. CASE i \in 1 .. k
      <4>1. f[i] = g[i] /\ (i # 1 => f[i - 1] = g[i - 1])
        BY <2>3, <2>4, <3>2, Zenon
      <4> QED
        BY <2>2, <3>2, <4>1, Zenon
    <3> QED
      BY <2>3, <3>1, <3>2
  <2>7. FlatBy(f, seqs, k + 1)
    BY <2>5, <2>6, Zenon DEF FlatBy
  <2> QED
    BY <2>3, <2>7, Zenon
<1> HIDE DEF P
<1>3. n \in P
  BY <1>1, <1>2, UpTo
<1> QED
  BY <1>3, Zenon DEF P

LEMMA FlattenInduction ==
  ASSUME NEW n \in Nat, NEW S, NEW seqs \in Seq(Seq(S)), Len(seqs) = n,
         NEW R, <<>> \in R[0],
         \A i \in 1 .. n : \A s \in R[i - 1] : s \in Seq(S) => s \o seqs[i] \in R[i]
  PROVE  FlattenSeq(seqs) \in R[n] /\ FlattenSeq(seqs) \in Seq(S)
<1>1. CASE n = 0
  <2> DEFINE none == <<>>
  <2>1. seqs = none /\ none \in Seq(S)
    BY <1>1
  <2>2. FlattenSeq(seqs) = seqs
    BY <1>1, Zenon DEF FlattenSeq
  <2>3. none \in R[0]
    BY Zenon
  <2> HIDE DEF none
  <2>4. FlattenSeq(seqs) = none
    BY <2>1, <2>2, Zenon
  <2> QED
    BY <1>1, <2>1, <2>3, <2>4, Zenon
<1>2. CASE n # 0
  <2> DEFINE f == CHOOSE f : FlatBy(f, seqs, n)
  <2>1. FlattenSeq(seqs) = f[n]
    BY <1>2, Zenon DEF FlattenSeq, FlatBy
  <2>2. FlatBy(f, seqs, n)
    BY FlatExists, Zenon
  <2> HIDE DEF f
  <2>3. \A i \in 1 .. n : f[i] = IF i = 1 THEN seqs[i] ELSE f[i-1] \o seqs[i]
    BY <2>2, Zenon DEF FlatBy
  <2>4. \A i \in 1 .. n : seqs[i] \in Seq(S)
    OBVIOUS
  <2> DEFINE P == {k \in Nat : k = 0 \/ (f[k] \in R[k] /\ f[k] \in Seq(S))}
  <2>5. 0 \in P
    OBVIOUS
  <2>6. ASSUME NEW k \in 0 .. n - 1, k \in P
        PROVE  k + 1 \in P
    <3>1. k + 1 \in 1 .. n /\ k + 1 \in Nat /\ (k + 1) - 1 = k
      OBVIOUS
    <3>2. seqs[k + 1] \in Seq(S)
      BY <2>4, <3>1, Zenon
    <3>3. CASE k = 0
      <4> DEFINE none == <<>>
                 s == seqs[k + 1]
      <4>1. none \in Seq(S) /\ none \o s = s
        BY <3>2
      <4>2. none \in R[(k + 1) - 1]
        BY <3>1, <3>3, Zenon
      <4> HIDE DEF none
      <4>3. none \o seqs[k + 1] \in R[k + 1]
        BY <3>1, <4>1, <4>2, Zenon
      <4>4. f[k + 1] = s
        <5>1. k + 1 = 1
          BY <3>3
        <5> QED
          BY <2>3, <3>1, <5>1, Zenon
      <4> QED
        BY <3>1, <3>2, <4>1, <4>3, <4>4, Zenon
    <3>4. CASE k # 0
      <4>1. f[k] \in R[(k + 1) - 1] /\ f[k] \in Seq(S)
        BY <2>6, <3>1, <3>4, Zenon
      <4>2. f[k] \o seqs[k + 1] \in R[k + 1]
        BY <3>1, <4>1, Zenon
      <4>3. f[k + 1] = f[k] \o seqs[k + 1]
        <5>1. k + 1 # 1
          BY <3>4
        <5> QED
          BY <2>3, <3>1, <5>1, Zenon
      <4>4. f[k] \o seqs[k + 1] \in Seq(S)
        BY <3>2, <4>1
      <4> QED
        BY <3>1, <4>2, <4>3, <4>4, Zenon
    <3> QED
      BY <3>3, <3>4
  <2> HIDE DEF P
  <2>7. \A k \in 0 .. n : k \in P
    BY <2>5, <2>6, UpTo, Zenon
  <2>8. n \in 0 .. n
    OBVIOUS
  <2>9. n \in P
    BY <2>7, <2>8, Zenon
  <2> QED
    BY <1>2, <2>1, <2>9, Zenon DEF P
<1> QED
  BY <1>1, <1>2
\* What a flattened list has: the elements of its lists.
LEMMA FlattenedSet ==
  ASSUME NEW S, NEW n \in Nat, NEW seqs \in Seq(Seq(S)), Len(seqs) = n
  PROVE  /\ FlattenSeq(seqs) \in Seq(S)
         /\ ToSet(FlattenSeq(seqs)) = UNION {ToSet(seqs[i]) : i \in 1 .. n}
<1> DEFINE U(k) == UNION {ToSet(seqs[i]) : i \in 1 .. k}
           R == [k \in Nat |-> {s \in Seq(S) : ToSet(s) = U(k)}]
<1>1. <<>> \in R[0]
  <2> DEFINE none == <<>>
  <2>1. none \in Seq(S) /\ DOMAIN none = {} /\ 1 .. 0 = {}
    OBVIOUS
  <2>2. ToSet(none) = {} /\ U(0) = {}
    <3> HIDE DEF none
    <3> QED
      BY <2>1 DEF ToSet
  <2> HIDE DEF none, U
  <2>3. none \in R[0]
    BY <2>1, <2>2
  <2> QED
    BY <2>3 DEF none
<1>2. ASSUME NEW i \in 1 .. n, NEW s \in R[i - 1]
      PROVE  s \o seqs[i] \in R[i]
  <2>1. i \in Nat /\ i - 1 \in Nat /\ 1 .. i = (1 .. i - 1) \cup {i}
    BY SMTT(60)
  <2>2. seqs[i] \in Seq(S)
    OBVIOUS
  <2>3. s \in Seq(S) /\ ToSet(s) = U(i - 1)
    <3> HIDE DEF U
    <3> QED
      BY <2>1
  <2>4. s \o seqs[i] \in Seq(S) /\ ToSet(s \o seqs[i]) = ToSet(s) \cup ToSet(seqs[i])
    <3>1. s \o seqs[i] \in Seq(S)
      BY <2>2, <2>3
    <3>2. IsSeq(s) /\ IsSeq(seqs[i])
      BY <2>2, <2>3, SeqIsSeq
    <3> QED
      BY <3>1, <3>2, Joined
  <2>5. U(i) = U(i - 1) \cup ToSet(seqs[i])
    BY <2>1
  <2> HIDE DEF U
  <2> QED
    BY <2>1, <2>3, <2>4, <2>5
<1>3. \A s \in R[n] : ToSet(s) = U(n)
  <2> HIDE DEF U
  <2> QED
    OBVIOUS
<1> HIDE DEF R
<1>4. FlattenSeq(seqs) \in R[n] /\ FlattenSeq(seqs) \in Seq(S)
  BY <1>1, <1>2, FlattenInduction
<1> QED
  BY <1>3, <1>4

\* A list of lists that is empty, or of empty lists.
LEMMA FlattenNone ==
  ASSUME NEW S, NEW n \in Nat, NEW seqs \in Seq(Seq(S)), Len(seqs) = n,
         \A i \in 1 .. n : seqs[i] = <<>>
  PROVE  FlattenSeq(seqs) = <<>>
<1> DEFINE q == FlattenSeq(seqs)
           none == <<>>
<1>1. q \in Seq(S) /\ ToSet(q) = UNION {ToSet(seqs[i]) : i \in 1 .. n}
  BY FlattenedSet
<1>2. none \in Seq(S) /\ DOMAIN none = {}
  OBVIOUS
<1>3. \A i \in 1 .. n : seqs[i] = none
  OBVIOUS
<1> HIDE DEF none, q
<1>4. ToSet(none) = {}
  BY <1>2 DEF ToSet
<1>5. ToSet(q) = {}
  BY <1>1, <1>3, <1>4
<1>6. DOMAIN q = {}
  BY <1>5 DEF ToSet
<1>7. q = <<>>
  BY <1>1, <1>6
<1> QED
  BY <1>7 DEF q

\* One more list goes to the end.
LEMMA FlattenAppend ==
  ASSUME NEW S, NEW seqs \in Seq(Seq(S)), NEW x \in Seq(S)
  PROVE  FlattenSeq(Append(seqs, x)) = FlattenSeq(seqs) \o x
<1> DEFINE n == Len(seqs)
           more == Append(seqs, x)
           g == CHOOSE f : FlatBy(f, more, n + 1)
<1>1. /\ n \in Nat /\ n + 1 \in Nat /\ Len(more) = n + 1 /\ n + 1 # 0 /\ more[n + 1] = x
      /\ \A i \in 1 .. n : more[i] = seqs[i] /\ i \in 1 .. n + 1
      /\ n + 1 \in 1 .. n + 1 /\ (n + 1) - 1 = n
  OBVIOUS
<1> HIDE DEF n, more
<1>2. FlattenSeq(more) = g[n + 1]
  BY <1>1, Zenon DEF FlattenSeq, FlatBy
<1>3. FlatBy(g, more, n + 1)
  BY <1>1, FlatExists, Zenon
<1> HIDE DEF g
<1>4. \A i \in 1 .. n + 1 : g[i] = IF i = 1 THEN more[i] ELSE g[i-1] \o more[i]
  BY <1>3, Zenon DEF FlatBy
<1>5. CASE n = 0
  <2> DEFINE none == <<>>
  <2>1. seqs = none /\ none \o x = x
    BY <1>5 DEF n
  <2>2. FlattenSeq(seqs) = seqs
    BY <1>5, Zenon DEF FlattenSeq, n
  <2> HIDE DEF none
  <2>3. n + 1 = 1
    BY <1>5
  <2>4. g[n + 1] = x
    BY <1>1, <1>4, <2>3, Zenon
  <2>5. FlattenSeq(more) = FlattenSeq(seqs) \o x
    BY <1>2, <2>1, <2>2, <2>4, Zenon
  <2> QED
    BY <2>5 DEF more
<1>6. CASE n # 0
  <2> DEFINE f == CHOOSE f : FlatBy(f, seqs, n)
  <2>1. FlattenSeq(seqs) = f[n]
    BY <1>6, Zenon DEF FlattenSeq, FlatBy, n
  <2>2. FlatBy(f, seqs, n)
    BY <1>1, FlatExists, Zenon
  <2> HIDE DEF f
  <2>3. \A i \in 1 .. n : f[i] = IF i = 1 THEN seqs[i] ELSE f[i-1] \o seqs[i]
    BY <2>2, Zenon DEF FlatBy
  <2> DEFINE P == {k \in Nat : k = 0 \/ g[k] = f[k]}
  <2>4. 0 \in P
    OBVIOUS
  <2>5. ASSUME NEW k \in 0 .. n - 1, k \in P
        PROVE  k + 1 \in P
    <3>1. k + 1 \in 1 .. n /\ k + 1 \in 1 .. n + 1 /\ k + 1 \in Nat /\ (k + 1) - 1 = k
          /\ (k = 0 <=> k + 1 = 1)
      BY <1>1
    <3>2. /\ g[k + 1] = IF k + 1 = 1 THEN more[k + 1] ELSE g[k] \o more[k + 1]
          /\ f[k + 1] = IF k + 1 = 1 THEN seqs[k + 1] ELSE f[k] \o seqs[k + 1]
          /\ more[k + 1] = seqs[k + 1]
      <4>1. /\ g[k + 1] = IF k + 1 = 1 THEN more[k + 1] ELSE g[(k + 1)-1] \o more[k + 1]
            /\ f[k + 1] = IF k + 1 = 1 THEN seqs[k + 1] ELSE f[(k + 1)-1] \o seqs[k + 1]
        BY <1>4, <2>3, <3>1, Zenon
      <4> QED
        BY <1>1, <3>1, <4>1, Zenon
    <3>3. k = 0 \/ g[k] = f[k]
      BY <2>5, Zenon
    <3>4. CASE k = 0
      <4>1. g[k + 1] = more[k + 1] /\ f[k + 1] = seqs[k + 1]
        BY <3>1, <3>2, <3>4, Zenon
      <4> QED
        BY <3>1, <3>2, <4>1
    <3>5. CASE k # 0
      <4>1. g[k + 1] = g[k] \o more[k + 1] /\ f[k + 1] = f[k] \o seqs[k + 1]
        BY <3>1, <3>2, <3>5, Zenon
      <4>2. g[k + 1] = f[k + 1]
        BY <3>2, <3>3, <3>5, <4>1, Zenon
      <4> QED
        BY <3>1, <4>2
    <3> QED
      BY <3>4, <3>5
  <2> HIDE DEF P
  <2>6. \A k \in 0 .. n : k \in P
    BY <1>1, <2>4, <2>5, UpTo, Zenon
  <2>7. n \in 0 .. n /\ n + 1 # 1
    BY <1>1, <1>6
  <2>8. g[n] = f[n]
    BY <1>6, <2>6, <2>7, Zenon DEF P
  <2>9. g[n + 1] = g[n] \o x
    BY <1>1, <1>4, <2>7, Zenon
  <2>10. FlattenSeq(more) = FlattenSeq(seqs) \o x
    BY <1>2, <2>1, <2>8, <2>9, Zenon
  <2> QED
    BY <2>10 DEF more
<1> QED
  BY <1>5, <1>6


=============================================================================
