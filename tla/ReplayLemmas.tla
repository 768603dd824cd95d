----------------------------- MODULE ReplayLemmas -----------------------------
(***************************************************************************)
(* What a replay of stored messages leaves, for a list of any length.      *)
(*                                                                         *)
(* First the fold that pushes the messages one by one: it is a function on *)
(* the subsets of the positions, and that there is such a function needs   *)
(* the induction of SequenceLemmas.  Then what a merge may leave of the    *)
(* messages pushed: a replay of that, and of messages pushed since, leaves *)
(* the same of more messages.                                              *)
(***************************************************************************)
EXTENDS MergeOperator, QueueLemmas, SequenceLemmas

-----------------------------------------------------------------------------
(***************************************************************************)
(* The fold.  PushedBy(f, q, time, s, k): f tells, for each set of the     *)
(* first k positions, what pushing the messages at them to q leaves.       *)
(***************************************************************************)
PushedBy(f, q, time, s, k) ==
  f = [I \in SUBSET (1 .. k) |->
         IF I = {} THEN q ELSE Push(f[I \ {Max(I)}], time, s[Max(I)])]

LEMMA LargestElement ==
  ASSUME NEW k \in Nat, NEW I \in SUBSET (1 .. k), I # {}
  PROVE  Max(I) \in I /\ \A i \in I : i <= Max(I)
<1> DEFINE T == {k - i : i \in I}
<1>0. \A i \in I : i \in Int /\ i <= k /\ k - i \in Nat
  BY SMT
<1>1. T \in SUBSET Nat /\ T # {}
  BY <1>0, Zenon
<1>2. PICK y \in T : \A z \in T : y <= z
  BY <1>1, Smallest, Zenon
<1>3. PICK x \in I : y = k - x
  BY <1>2, Zenon
<1>4. ASSUME NEW i \in I
      PROVE  i <= x
  <2>1. k - x <= k - i
    BY <1>2, <1>3, Zenon
  <2> QED
    BY <1>0, <2>1
<1>5. \E m \in I : \A i \in I : m >= i
  BY <1>3, <1>4
<1>6. Max(I) \in I /\ \A i \in I : Max(I) >= i
  BY <1>5, Zenon DEF Max
<1>7. \A i, j \in Int : j >= i => i <= j
  OBVIOUS
<1> QED
  BY <1>6, <1>7

LEMMA LargestUpTo ==
  ASSUME NEW k \in Nat, NEW I \in SUBSET (1 .. k), k \in I
  PROVE  Max(I) = k
<1> DEFINE m == Max(I)
<1>1. m \in I /\ k <= m
  BY LargestElement
<1>2. m \in 1 .. k
  BY <1>1
<1> HIDE DEF m
<1>3. m = k
  BY <1>1, <1>2
<1> QED
  BY <1>3 DEF m

LEMMA FoldExists ==
  ASSUME NEW q, NEW time, NEW s, NEW n \in Nat
  PROVE  \E f : PushedBy(f, q, time, s, n)
<1> DEFINE P == {k \in Nat : \E f : PushedBy(f, q, time, s, k)}
<1>1. 0 \in P
  <2> DEFINE f == [I \in SUBSET (1 .. 0) |-> q]
  <2>1. \A I \in SUBSET (1 .. 0) : I = {}
    OBVIOUS
  <2>2. f = [I \in SUBSET (1 .. 0) |->
               IF I = {} THEN q ELSE Push(f[I \ {Max(I)}], time, s[Max(I)])]
    BY <2>1, Zenon
  <2>3. PushedBy(f, q, time, s, 0)
    BY <2>2, Zenon DEF PushedBy
  <2> QED
    BY <2>3, Zenon
<1>2. ASSUME NEW k \in 0 .. n - 1, k \in P
      PROVE  k + 1 \in P
  <2>0. k + 1 \in Nat
    OBVIOUS
  <2>1. PICK g : PushedBy(g, q, time, s, k)
    BY <1>2, Zenon
  <2>2. \A I \in SUBSET (1 .. k) :
          g[I] = IF I = {} THEN q ELSE Push(g[I \ {Max(I)}], time, s[Max(I)])
    BY <2>1, Zenon DEF PushedBy
  <2> DEFINE f == [I \in SUBSET (1 .. k + 1) |->
                     IF k + 1 \in I THEN Push(g[I \ {k + 1}], time, s[k + 1]) ELSE g[I]]
  <2>3. ASSUME NEW I \in SUBSET (1 .. k + 1)
        PROVE  f[I] = IF I = {} THEN q ELSE Push(f[I \ {Max(I)}], time, s[Max(I)])
    <3>1. CASE k + 1 \in I
      <4>1. Max(I) = k + 1 /\ I # {}
        BY <2>0, <3>1, LargestUpTo
      <4>2. I \ {k + 1} \in SUBSET (1 .. k + 1) /\ k + 1 \notin I \ {k + 1}
        OBVIOUS
      <4>3. f[I \ {k + 1}] = g[I \ {k + 1}] /\ f[I] = Push(g[I \ {k + 1}], time, s[k + 1])
        BY <3>1, <4>2, Zenon
      <4> QED
        BY <4>1, <4>3, Zenon
    <3>2. CASE k + 1 \notin I
      <4>1. I \in SUBSET (1 .. k)
        BY <3>2
      <4>2. f[I] = g[I]
        BY <3>2, Zenon
      <4>3. CASE I = {}
        BY <2>2, <4>1, <4>2, <4>3, Zenon
      <4>4. CASE I # {}
        <5>1. I \ {Max(I)} \in SUBSET (1 .. k) /\ k + 1 \notin I \ {Max(I)}
          BY <3>2, <4>1
        <5>2. I \ {Max(I)} \in SUBSET (1 .. k + 1)
          OBVIOUS
        <5>3. f[I \ {Max(I)}] = g[I \ {Max(I)}]
          BY <5>1, <5>2, Zenon
        <5> QED
          BY <2>2, <4>1, <4>2, <4>4, <5>3, Zenon
      <4> QED
        BY <4>3, <4>4
    <3> QED
      BY <3>1, <3>2
  <2>4. f = [I \in SUBSET (1 .. k + 1) |->
               IF I = {} THEN q ELSE Push(f[I \ {Max(I)}], time, s[Max(I)])]
    <3>1. DOMAIN f = SUBSET (1 .. k + 1) /\ f = [I \in DOMAIN f |-> f[I]]
      BY Zenon
    <3> HIDE DEF f
    <3> QED
      BY <2>3, <3>1, Zenon
  <2>5. PushedBy(f, q, time, s, k + 1)
    <3> HIDE DEF f
    <3> QED
      BY <2>4, Zenon DEF PushedBy
  <2> QED
    BY <2>0, <2>5, Zenon
<1> HIDE DEF P
<1>3. n \in P
  BY <1>1, <1>2, UpTo
<1> QED
  BY <1>3, Zenon DEF P

(***************************************************************************)
(* Induction along the list: R[k] is a set of queues that pushing the      *)
(* first k messages leads into.                                            *)
(***************************************************************************)
LEMMA PushAllInduction ==
  ASSUME NEW q, NEW time, NEW s \in Seq(Message), NEW R, q \in R[0],
         \A k \in 1 .. Len(s) : \A x \in R[k - 1] : Push(x, time, s[k]) \in R[k]
  PROVE  PushAll(q, time, s) \in R[Len(s)]
<1>1. Len(s) \in Nat /\ DOMAIN s = 1 .. Len(s)
  OBVIOUS
<1> DEFINE n == Len(s)
           f == CHOOSE g : PushedBy(g, q, time, s, n)
<1>2. PushAll(q, time, s) = f[1 .. n]
  <2>1. PushAll(q, time, s) =
          LET iter == CHOOSE g : g = [I \in SUBSET (DOMAIN s) |->
                        IF I = {} THEN q ELSE Push(g[I \ {Max(I)}], time, s[Max(I)])]
          IN  iter[DOMAIN s]
    BY Zenon DEF PushAll, FoldLeft, MapThenFoldSet
  <2> QED
    BY <1>1, <2>1, Zenon DEF PushedBy
<1>3. PushedBy(f, q, time, s, n)
  BY <1>1, FoldExists, Zenon
<1> HIDE DEF f
<1>4. \A I \in SUBSET (1 .. n) :
        f[I] = IF I = {} THEN q ELSE Push(f[I \ {Max(I)}], time, s[Max(I)])
  BY <1>3, Zenon DEF PushedBy
<1> DEFINE P == {k \in Nat : f[1 .. k] \in R[k]}
<1>5. 0 \in P
  <2>1. 1 .. 0 = {} /\ {} \in SUBSET (1 .. n)
    OBVIOUS
  <2>2. f[{}] = q
    BY <1>4, <2>1, Zenon
  <2> QED
    BY <2>1, <2>2
<1>6. ASSUME NEW k \in 0 .. n - 1, k \in P
      PROVE  k + 1 \in P
  <2>1. k + 1 \in 1 .. n /\ (k + 1) - 1 = k /\ k + 1 \in Nat
    BY <1>1
  <2>2. 1 .. k + 1 \in SUBSET (1 .. n) /\ 1 .. k + 1 # {} /\ k + 1 \in 1 .. k + 1
    <3>1. ASSUME NEW a \in Nat, NEW b \in 0 .. a - 1
          PROVE  1 .. b + 1 \in SUBSET (1 .. a) /\ 1 .. b + 1 # {} /\ b + 1 \in 1 .. b + 1
      <4>1. b \in Int /\ 0 <= b /\ b <= a - 1
        OBVIOUS
      <4>2. 1 .. b + 1 \subseteq 1 .. a
        BY <4>1
      <4>3. b + 1 \in 1 .. b + 1
        BY <4>1
      <4> QED
        BY <4>2, <4>3
    <3> QED
      BY <1>1, <3>1, Zenon
  <2>3. Max(1 .. k + 1) = k + 1
    BY <2>1, <2>2, LargestUpTo, ZenonT(60)
  <2>4. (1 .. k + 1) \ {k + 1} = 1 .. k
    OBVIOUS
  <2>5. f[1 .. k + 1] = Push(f[1 .. k], time, s[k + 1])
    BY <1>4, <2>2, <2>3, <2>4, Zenon
  <2>6. f[1 .. k] \in R[(k + 1) - 1]
    BY <1>6, <2>1
  <2>7. Push(f[1 .. k], time, s[k + 1]) \in R[k + 1]
    BY <2>1, <2>6, Zenon
  <2> QED
    BY <2>1, <2>5, <2>7
<1> HIDE DEF P
<1>7. n \in P
  <2>1. \A k \in 0 .. n : k \in P
    BY <1>1, <1>5, <1>6, UpTo, Zenon
  <2>2. n \in 0 .. n
    BY <1>1
  <2> QED
    BY <2>1, <2>2
<1> QED
  BY <1>2, <1>7 DEF P

(***************************************************************************)
(* The same for a replay: the time may change between two messages, and    *)
(* the dead are removed at the end.                                        *)
(***************************************************************************)
LEMMA ReplayInduction ==
  ASSUME NEW before, NEW after, NEW s \in Seq(Message), NEW k \in 0 .. Len(s),
         NEW R, EmptyQueue \in R[0],
         \A i \in 1 .. Len(s) : \A x \in R[i - 1] :
           Push(x, before, s[i]) \in R[i] /\ Push(x, after, s[i]) \in R[i]
  PROVE  \E x \in R[Len(s)] : Replay(s, before, k, after) = RemoveDeath(x, after)
<1> DEFINE n == Len(s)
           s1 == SubSeq(s, 1, k)
           s2 == SubSeq(s, k + 1, n)
           x1 == PushAll(EmptyQueue, before, s1)
           x2 == PushAll(x1, after, s2)
           R2 == [i \in Nat |-> R[k + i]]
<1>1. n \in Nat /\ k \in Nat /\ k <= n /\ n - k \in Nat
  OBVIOUS
<1>2. s1 \in Seq(Message) /\ Len(s1) = k /\ \A i \in 1 .. k : s1[i] = s[i]
  OBVIOUS
<1>3. s2 \in Seq(Message) /\ Len(s2) = n - k /\ \A i \in 1 .. n - k : s2[i] = s[k + i]
  OBVIOUS
<1> HIDE DEF n, s1, s2
<1>4. x1 \in R[k]
  <2>1. ASSUME NEW i \in 1 .. k, NEW x \in R[i - 1]
        PROVE  Push(x, before, s1[i]) \in R[i]
    <3>1. i \in 1 .. n
      BY <1>1
    <3>2. Push(x, before, s[i]) \in R[i]
      BY <3>1, Zenon DEF n
    <3> QED
      BY <1>2, <3>2, Zenon
  <2> QED
    BY <1>2, <2>1, PushAllInduction, Zenon
<1>5. R2[0] = R[k] /\ R2[n - k] = R[n]
  <2>1. k + 0 = k /\ k + (n - k) = n /\ 0 \in Nat
    BY <1>1
  <2> QED
    BY <1>1, <2>1, Zenon
<1>6. ASSUME NEW i \in 1 .. n - k, NEW x \in R2[i - 1]
      PROVE  Push(x, after, s2[i]) \in R2[i]
  <2>1. i - 1 \in Nat /\ i \in Nat /\ k + (i - 1) = (k + i) - 1 /\ k + i \in 1 .. n
    BY <1>1
  <2>2. R2[i - 1] = R[(k + i) - 1] /\ R2[i] = R[k + i]
    BY <2>1, Zenon
  <2> HIDE DEF R2
  <2>3. Push(x, after, s[k + i]) \in R[k + i]
    BY <2>1, <2>2, Zenon DEF n
  <2> QED
    BY <1>3, <2>2, <2>3, Zenon
<1> HIDE DEF R2
<1>7. x2 \in R2[n - k]
  <2>1. x1 \in R2[0]
    BY <1>4, <1>5, Zenon
  <2> HIDE DEF x1
  <2> QED
    BY <1>3, <1>6, <2>1, PushAllInduction, Zenon
<1>8. Replay(s, before, k, after) = RemoveDeath(x2, after)
  BY Zenon DEF Replay, s1, s2, n
<1> HIDE DEF x2
<1> QED
  BY <1>5, <1>7, <1>8, Zenon DEF n

-----------------------------------------------------------------------------
(***************************************************************************)
(* Where the messages come from that a push of m leaves in a queue of the  *)
(* messages S: m did not concern them, or they stand for m, or m changed   *)
(* their content where they stood.                                         *)
(***************************************************************************)
Spared(v, S, m) == v \in S /\ (v.identity = m.identity => m.action = "publish")

Placement(v, m) ==
  /\ v.identity = m.identity
  /\ v.cursor = m.cursor
  /\ v.arrival = m.arrival
  /\ v.content = m.content

Rewritten(v, S, m) ==
  /\ m.action \in {"update", "modify"}
  /\ v.identity = m.identity
  /\ v.content = m.content
  /\ \E u \in S : u.identity = m.identity /\ v.cursor = u.cursor /\ v.arrival = u.arrival

Origin(v, S, m) == Spared(v, S, m) \/ Placement(v, m) \/ Rewritten(v, S, m)

LEMMA BornPlacement ==
  ASSUME NEW m \in Message, NEW t \in Int
  PROVE  Placement(Born(m, t), m)
BY DEF Message, Born, Placement

LEMMA RewritingOrigin ==
  ASSUME NEW m \in Message, m.action \in {"update", "modify"},
         NEW S \in SUBSET Message, NEW u \in S, u.identity = m.identity
  PROVE  Origin(Updated(u, m), S, m) /\ Origin(Modified(u, m), S, m)
<1>1. u \in Message
  OBVIOUS
<1>2. /\ Updated(u, m).identity = u.identity
      /\ Modified(u, m).identity = u.identity
  BY <1>1 DEF Message, Updated, Modified
<1>3. Rewritten(Updated(u, m), S, m)
  BY <1>1, <1>2, UpdatedFields DEF Rewritten
<1>4. Rewritten(Modified(u, m), S, m)
  BY <1>1, <1>2, ModifiedFields DEF Rewritten
<1> QED
  BY <1>3, <1>4 DEF Origin

LEMMA EffectOrigin ==
  ASSUME NEW m \in Message, NEW t \in Int, NEW S \in SUBSET Message, NEW v \in Effect(S, m, t)
  PROVE  Origin(v, S, m)
<1>1. CASE v = Born(m, t)
  BY <1>1, BornPlacement DEF Origin
<1>2. CASE v \in Others(S, m)
  BY <1>2 DEF Others, Origin, Spared
<1>3. CASE v \in S /\ (m.action = "publish" \/ Same(S, m) = {})
  <2>1. Spared(v, S, m)
    BY <1>3 DEF Spared, Same, Others
  <2> QED
    BY <2>1 DEF Origin
<1>4. CASE /\ m.action \in {"update", "modify"}
           /\ \E u \in Same(S, m) : v = Updated(u, m) \/ v = Modified(u, m)
  <2>1. PICK u \in Same(S, m) : v = Updated(u, m) \/ v = Modified(u, m)
    BY <1>4
  <2>2. u \in S /\ u.identity = m.identity
    BY DEF Same, Others
  <2> QED
    BY <1>4, <2>1, <2>2, RewritingOrigin, Zenon
<1>5. CASE m.action = "publish"
  BY <1>1, <1>3, <1>5 DEF Effect
<1>6. CASE m.action \in {"replace", "remove"}
  BY <1>1, <1>2, <1>6 DEF Effect
<1>7. CASE m.action \in {"update", "modify"}
  BY <1>1, <1>2, <1>3, <1>4, <1>7 DEF Effect
<1> QED
  BY <1>5, <1>6, <1>7 DEF Message, Actions

LEMMA PushOrigin ==
  ASSUME NEW x, SoundQueue(x), NEW t \in Int, NEW m \in Message, NewerThan(m, x.msgs),
         NEW v \in ToSet(Push(x, t, m).msgs)
  PROVE  Origin(v, ToSet(x.msgs), m)
<1> DEFINE S == ToSet(x.msgs)
<1>1. S \in SUBSET Message
  BY TypeOfSound DEF ToSet
<1>2. PICK expired \in SUBSET {y \in S : Dead(y, t)} :
        ToSet(Push(x, t, m).msgs) =
          IF HandedBack(m) THEN (IF m.limit = 0 THEN {} ELSE S \ expired)
          ELSE Latest(m.limit, Effect(S \ expired, m, t))
  BY PushElements, Zenon
<1> HIDE DEF S
<1>3. CASE HandedBack(m)
  <2>1. v \in S /\ m.action = "publish"
    BY <1>2, <1>3 DEF HandedBack
  <2> QED
    BY <2>1 DEF Origin, Spared, S
<1>4. CASE ~ HandedBack(m)
  <2>1. v \in Effect(S \ expired, m, t)
    BY <1>2, <1>4 DEF Latest
  <2>2. Origin(v, S \ expired, m)
    BY <1>1, <2>1, EffectOrigin
  <2> QED
    BY <2>2 DEF Origin, Spared, Rewritten, S
<1> QED
  BY <1>3, <1>4

-----------------------------------------------------------------------------
(***************************************************************************)
(* The messages of a store, measured by the first n of the messages l that *)
(* were pushed: each stands where one of them was placed, no replace or    *)
(* remove of its identity came after it, and no other change came after    *)
(* its content.                                                            *)
(***************************************************************************)
Numbered(l) == \A i \in DOMAIN l : l[i].arrival = i /\ l[i].content = i

Placed(v, n, l) == v.arrival \in 1 .. n /\ v.cursor = l[v.arrival].cursor

Current(v, n, l) ==
  \A j \in 1 .. n : l[j].identity = v.identity =>
    /\ l[j].action \in {"replace", "remove"} => j <= v.arrival
    /\ l[j].action # "publish" => j <= v.content

Merged(s, n, l) ==
  /\ s \in Seq(Message)
  /\ Ordered(s)
  /\ \A v \in ToSet(s) : Placed(v, n, l) /\ Current(v, n, l)

\* What push needs of the messages of a list that are pushed one after the other.
InTurn(w) == \A i, j \in DOMAIN w : i < j /\ w[i].cursor = w[j].cursor => w[i].arrival < w[j].arrival

(***************************************************************************)
(* The list w of a replay: size messages of a store that the first n       *)
(* messages were merged into, and the messages pushed after these.         *)
(***************************************************************************)
Replayable(w, size, n, l) ==
  /\ w \in Seq(Message)
  /\ l \in Seq(Message)
  /\ Numbered(l)
  /\ n \in Nat
  /\ size \in 0 .. Len(w)
  /\ n + (Len(w) - size) <= Len(l)
  /\ InTurn(w)
  /\ \A i \in 1 .. size : Placed(w[i], n, l) /\ Current(w[i], n, l)
  /\ \A i \in size + 1 .. Len(w) : w[i] = l[n + (i - size)]

\* The pushed messages that the first i messages of the list w stand for.
Reach(i, size, n) == IF i <= size THEN n ELSE n + (i - size)

\* A queue that the first i messages of the list w were pushed to.
Midway(x, i, w, size, n, l) ==
  /\ SoundQueue(x)
  /\ \A v \in ToSet(x.msgs) :
       /\ \E j \in 1 .. i : v.cursor = w[j].cursor /\ v.arrival = w[j].arrival
       /\ Current(v, Reach(i, size, n), l)

LEMMA OriginCurrent ==
  ASSUME NEW l \in Seq(Message), NEW n \in Nat, NEW n2, NEW m, NEW S,
         \A u \in S : Current(u, n, l),
         Current(m, n2, l),
         \/ n2 = n
         \/ n2 = n + 1 /\ l[n + 1].identity = m.identity /\ l[n + 1].action = m.action,
         NEW v, Origin(v, S, m)
  PROVE  Current(v, n2, l)
<1>1. CASE Spared(v, S, m)
  <2>1. Current(v, n, l)
    BY <1>1 DEF Spared
  <2> SUFFICES ASSUME NEW j \in 1 .. n2, l[j].identity = v.identity
               PROVE  /\ l[j].action \in {"replace", "remove"} => j <= v.arrival
                      /\ l[j].action # "publish" => j <= v.content
    BY DEF Current
  <2>2. CASE j \in 1 .. n
    BY <2>1, <2>2 DEF Current
  <2>3. CASE j \notin 1 .. n
    <3>1. j = n + 1 /\ n2 = n + 1
      BY <2>3
    <3>2. m.action = "publish"
      BY <1>1, <3>1 DEF Spared
    <3> QED
      BY <3>1, <3>2
  <2> QED
    BY <2>2, <2>3
<1>2. CASE Placement(v, m)
  BY <1>2 DEF Placement, Current
<1>3. CASE Rewritten(v, S, m)
  <2>1. PICK u \in S : u.identity = m.identity /\ v.arrival = u.arrival
    BY <1>3 DEF Rewritten
  <2>2. Current(u, n, l)
    OBVIOUS
  <2>3. v.identity = m.identity /\ v.content = m.content /\ m.action \in {"update", "modify"}
    BY <1>3 DEF Rewritten
  <2> SUFFICES ASSUME NEW j \in 1 .. n2, l[j].identity = v.identity
               PROVE  /\ l[j].action \in {"replace", "remove"} => j <= v.arrival
                      /\ l[j].action # "publish" => j <= v.content
    BY DEF Current
  <2>4. l[j].action # "publish" => j <= v.content
    BY <2>3 DEF Current
  <2>5. CASE j \in 1 .. n
    BY <2>1, <2>2, <2>3, <2>4, <2>5 DEF Current
  <2>6. CASE j \notin 1 .. n
    <3>1. j = n + 1 /\ n2 = n + 1
      BY <2>6
    <3> QED
      BY <2>3, <2>4, <3>1
  <2> QED
    BY <2>5, <2>6
<1> QED
  BY <1>1, <1>2, <1>3 DEF Origin

\* One step of a replay.
LEMMA PushMidway ==
  ASSUME NEW w, NEW size, NEW n, NEW l, Replayable(w, size, n, l),
         NEW i \in 1 .. Len(w), NEW x, Midway(x, i - 1, w, size, n, l), NEW t \in Int
  PROVE  NewerThan(w[i], x.msgs) /\ Midway(Push(x, t, w[i]), i, w, size, n, l)
<1> DEFINE m == w[i]
           n1 == Reach(i - 1, size, n)
           n2 == Reach(i, size, n)
           S == ToSet(x.msgs)
           y == Push(x, t, m)
<1>1. /\ Len(w) \in Nat
      /\ Len(l) \in Nat
      /\ size \in Nat
      /\ i \in DOMAIN w
      /\ i \in Nat
      /\ i - 1 \in Nat
      /\ m \in Message
      /\ n \in Nat
      /\ l \in Seq(Message)
  BY DEF Replayable
<1>2. SoundQueue(x)
  BY DEF Midway
<1>3. NewerThan(m, x.msgs)
  <2> SUFFICES ASSUME NEW v \in S, v.cursor = m.cursor
               PROVE  v.arrival < m.arrival
    BY DEF NewerThan
  <2>1. PICK j \in 1 .. i - 1 : v.cursor = w[j].cursor /\ v.arrival = w[j].arrival
    BY Zenon DEF Midway
  <2>2. j \in DOMAIN w /\ j < i
    BY <1>1
  <2> QED
    BY <1>1, <2>1, <2>2 DEF Replayable, InTurn
<1>4. /\ n1 \in Nat /\ n2 \in Nat
      /\ \/ n2 = n1
         \/ n2 = n1 + 1 /\ m = l[n2] /\ n2 \in 1 .. Len(l)
  <2>1. CASE i <= size
    BY <1>1, <2>1 DEF Reach
  <2>2. CASE i > size
    <3>1. n2 = n + (i - size) /\ n1 = n + (i - 1 - size) /\ n2 = n1 + 1
      BY <1>1, <2>2, SMTT(90) DEF Reach
    <3>2. m = l[n + (i - size)]
      BY <1>1, <2>2, SMTT(90) DEF Replayable
    <3>3. n2 <= Len(l)
      <4>1. n + (Len(w) - size) <= Len(l) /\ i <= Len(w)
        BY <1>1 DEF Replayable
      <4>2. \A a, b, c, d, e \in Int : a + (b - c) <= d /\ e <= b => a + (e - c) <= d
        OBVIOUS
      <4>3. n + (i - size) <= Len(l)
        BY <1>1, <4>1, <4>2, SMTT(90)
      <4> HIDE DEF n2
      <4> QED
        BY <3>1, <4>3, Zenon
    <3>4. i - size \in Nat /\ i - 1 - size \in Nat /\ i - size >= 1
      BY <1>1, <2>2, SMTT(90)
    <3> HIDE DEF m, n1, n2
    <3>5. m = l[n2]
      BY <3>1, <3>2
    <3>6. n1 \in Nat /\ n2 \in 1 .. Len(l)
      <4>1. \A a, b \in Nat : a + b \in Nat /\ (b >= 1 => a + b >= 1)
        OBVIOUS
      <4>2. n1 \in Nat /\ n2 \in Nat /\ n2 >= 1
        BY <1>1, <3>1, <3>4, <4>1, Zenon
      <4> QED
        BY <1>1, <3>3, <4>2
    <3> QED
      BY <3>1, <3>5, <3>6
  <2> QED
    BY <1>1, <2>1, <2>2
<1>5. Current(m, n2, l)
  <2>1. CASE i <= size
    BY <1>1, <2>1 DEF Replayable, Reach
  <2>2. CASE i > size
    <3>1. n2 = n + (i - size) /\ n2 \in DOMAIN l /\ m = l[n2]
      BY <1>1, <2>2, SMTT(90) DEF Reach, Replayable
    <3>2. m.arrival = n2 /\ m.content = n2
      BY <3>1 DEF Replayable, Numbered
    <3> QED
      BY <3>2, <1>4 DEF Current
  <2> QED
    BY <1>1, <2>1, <2>2
<1>6. SoundQueue(y)
  BY <1>1, <1>2, <1>3, PushSound
<1>7. ASSUME NEW v \in ToSet(y.msgs)
      PROVE  /\ \E j \in 1 .. i : v.cursor = w[j].cursor /\ v.arrival = w[j].arrival
             /\ Current(v, n2, l)
  <2>1. Origin(v, S, m)
    BY <1>1, <1>2, <1>3, PushOrigin
  <2>2. \A u \in S : /\ \E j \in 1 .. i - 1 : u.cursor = w[j].cursor /\ u.arrival = w[j].arrival
                     /\ Current(u, n1, l)
    BY Zenon DEF Midway
  <2>3. 1 .. i - 1 \subseteq 1 .. i /\ i \in 1 .. i
    BY <1>1
  <2> HIDE DEF m, n1, n2, S, y
  <2>4. \E j \in 1 .. i : v.cursor = w[j].cursor /\ v.arrival = w[j].arrival
    <3>1. Spared(v, S, m) => v \in S
      BY DEF Spared
    <3>2. Placement(v, m) => v.cursor = w[i].cursor /\ v.arrival = w[i].arrival
      BY DEF Placement, m
    <3>3. Rewritten(v, S, m) => \E u \in S : v.cursor = u.cursor /\ v.arrival = u.arrival
      BY DEF Rewritten
    <3> QED
      BY <2>1, <2>2, <2>3, <3>1, <3>2, <3>3, Zenon DEF Origin
  <2>5. \/ n2 = n1
        \/ n2 = n1 + 1 /\ l[n1 + 1].identity = m.identity /\ l[n1 + 1].action = m.action
    BY <1>4
  <2>6. Current(v, n2, l)
    BY <1>1, <1>4, <1>5, <2>1, <2>2, <2>5, OriginCurrent
  <2> QED
    BY <2>4, <2>6
<1> HIDE DEF m, n2, y
<1> QED
  BY <1>3, <1>6, <1>7, Zenon DEF Midway, m, n2, y

-----------------------------------------------------------------------------
(***************************************************************************)
(* A replay as a whole, of the messages of a store and those that were     *)
(* pushed since.                                                           *)
(***************************************************************************)
LEMMA JoinedReplayable ==
  ASSUME NEW l \in Seq(Message), Numbered(l), NEW n \in Nat, NEW s, Merged(s, n, l),
         NEW ops \in Seq(Message), n + Len(ops) <= Len(l),
         \A i \in 1 .. Len(ops) : ops[i] = l[n + i]
  PROVE  /\ Replayable(s \o ops, Len(s), n, l)
         /\ Len(s \o ops) = Len(s) + Len(ops)
         /\ Reach(Len(s \o ops), Len(s), n) = n + Len(ops)
<1> DEFINE size == Len(s)
           d == Len(ops)
           w == s \o ops
<1>1. s \in Seq(Message) /\ size \in Nat /\ d \in Nat /\ Len(l) \in Nat /\ DOMAIN s = 1 .. size
  BY DEF Merged
<1>2. /\ w \in Seq(Message)
      /\ Len(w) = size + d
      /\ DOMAIN w = 1 .. size + d
      /\ \A i \in 1 .. size : w[i] = s[i]
      /\ \A i \in size + 1 .. size + d : w[i] = ops[i - size]
  BY <1>1
<1> HIDE DEF size, d, w
<1>3. \A i \in size + 1 .. size + d : i - size \in 1 .. d /\ n + (i - size) \in DOMAIN l
  BY <1>1 DEF d
<1>4. \A i \in size + 1 .. size + d : w[i] = l[n + (i - size)]
  BY <1>2, <1>3, Zenon DEF d
<1>5. \A i \in 1 .. size : w[i] \in ToSet(s) /\ Placed(w[i], n, l) /\ Current(w[i], n, l)
  BY <1>1, <1>2, Zenon DEF Merged, ToSet
<1>6. InTurn(w)
  <2> SUFFICES ASSUME NEW i \in 1 .. size + d, NEW j \in 1 .. size + d, i < j,
                      w[i].cursor = w[j].cursor
               PROVE  w[i].arrival < w[j].arrival
    BY <1>2 DEF InTurn
  <2>1. CASE j <= size
    <3>1. i \in DOMAIN s /\ j \in DOMAIN s
      BY <1>1, <2>1
    <3>2. s[i].cursor = s[j].cursor /\ s[i] \in Message /\ s[j] \in Message
      BY <1>1, <1>2, <3>1
    <3>3. s[i].arrival < s[j].arrival
      BY <3>1, <3>2, MessageFields, SMTT(90) DEF Merged, Ordered
    <3> QED
      BY <1>1, <1>2, <3>1, <3>3
  <2>2. CASE i <= size /\ j > size
    <3>1. i \in 1 .. size /\ j \in size + 1 .. size + d
      BY <1>1, <2>2
    <3>2. w[i].arrival \in 1 .. n
      BY <1>5, <3>1 DEF Placed
    <3>3. w[j].arrival = n + (j - size)
      BY <1>3, <1>4, <3>1 DEF Numbered
    <3> QED
      BY <1>1, <3>1, <3>2, <3>3, SMTT(90)
  <2>3. CASE i > size
    <3>1. i \in size + 1 .. size + d /\ j \in size + 1 .. size + d
      BY <1>1, <2>3
    <3>2. w[i].arrival = n + (i - size) /\ w[j].arrival = n + (j - size)
      BY <1>3, <1>4, <3>1 DEF Numbered
    <3> QED
      BY <1>1, <3>1, <3>2
  <2> QED
    BY <1>1, <2>1, <2>2, <2>3
<1>7. n + (Len(w) - size) <= Len(l) /\ size \in 0 .. Len(w)
  BY <1>1, <1>2 DEF d
<1>8. Reach(size + d, size, n) = n + d
  BY <1>1 DEF Reach
<1>9. Replayable(w, size, n, l)
  BY <1>2, <1>4, <1>5, <1>6, <1>7, Zenon DEF Replayable
<1> QED
  BY <1>2, <1>8, <1>9 DEF size, d, w

\* A queue that all messages of the list were pushed to holds the messages of a store.
LEMMA MidwayMerged ==
  ASSUME NEW w, NEW size, NEW n, NEW l, Replayable(w, size, n, l),
         NEW x, Midway(x, Len(w), w, size, n, l)
  PROVE  Merged(x.msgs, Reach(Len(w), size, n), l)
<1> DEFINE r == Reach(Len(w), size, n)
<1>1. /\ Len(w) \in Nat
      /\ Len(l) \in Nat
      /\ size \in Nat
      /\ size <= Len(w)
      /\ n \in Nat
      /\ DOMAIN l = 1 .. Len(l)
  BY DEF Replayable
<1>2. r \in Nat /\ n <= r
  BY <1>1 DEF Reach
<1>3. ASSUME NEW v \in ToSet(x.msgs)
      PROVE  Placed(v, r, l)
  <2>1. PICK j \in 1 .. Len(w) : v.cursor = w[j].cursor /\ v.arrival = w[j].arrival
    BY Zenon DEF Midway
  <2>2. Placed(w[j], r, l)
    <3>1. CASE j <= size
      <4>1. Placed(w[j], n, l)
        BY <1>1, <3>1 DEF Replayable
      <4> QED
        BY <1>1, <1>2, <4>1 DEF Placed
    <3>2. CASE j > size
      <4>1. w[j] = l[n + (j - size)] /\ n + (j - size) \in 1 .. Len(l)
        BY <1>1, <3>2, SMTT(90) DEF Replayable
      <4>2. w[j].arrival = n + (j - size)
        BY <1>1, <4>1 DEF Replayable, Numbered
      <4>3. n + (j - size) \in 1 .. r
        BY <1>1, <3>2 DEF Reach
      <4> QED
        BY <4>1, <4>2, <4>3 DEF Placed
    <3> QED
      BY <1>1, <3>1, <3>2
  <2> HIDE DEF r
  <2> QED
    BY <2>1, <2>2 DEF Placed
<1>4. x.msgs \in Seq(Message) /\ Ordered(x.msgs)
  BY TypeOfSound DEF Midway
<1> QED
  BY <1>3, <1>4 DEF Midway, Merged

LEMMA EmptyMidway ==
  ASSUME NEW w, NEW size \in Nat, NEW n, NEW l
  PROVE  Midway(EmptyQueue, 0, w, size, n, l)
<1>1. EmptyQueue.msgs = <<>> /\ EmptyQueue \in QueueType
  BY DEF EmptyQueue, QueueType
<1>2. ToSet(<<>>) = {} /\ Ordered(<<>>) /\ DieTogether(<<>>)
  BY DEF ToSet, Ordered, DieTogether
<1> QED
  BY <1>1, <1>2 DEF Midway, SoundQueue

\* What is left of the messages of a store is the messages of a store.
LEMMA MergedPart ==
  ASSUME NEW n, NEW l, NEW s, Merged(s, n, l), NEW r \in Seq(Message), Ordered(r),
         ToSet(r) \subseteq ToSet(s)
  PROVE  Merged(r, n, l)
BY DEF Merged

(***************************************************************************)
(* A replay leaves the messages of a store that the pushed messages are    *)
(* merged into, and none that was dead at its end.                         *)
(***************************************************************************)
LEMMA ReplayMerges ==
  ASSUME NEW l, NEW n, NEW size, NEW w, Replayable(w, size, n, l),
         NEW before \in Int, NEW after \in Int, NEW k \in 0 .. Len(w),
         NEW r, r = Replay(w, before, k, after)
  PROVE  /\ SoundQueue(r)
         /\ Merged(r.msgs, Reach(Len(w), size, n), l)
         /\ \A v \in ToSet(r.msgs) : ~ Dead(v, after)
<1> DEFINE R == [i \in Nat |-> {x \in QueueType : Midway(x, i, w, size, n, l)}]
<1>1. w \in Seq(Message) /\ Len(w) \in Nat /\ size \in Nat
  BY DEF Replayable
<1>2. EmptyQueue \in R[0]
  BY <1>1, EmptyMidway DEF EmptyQueue, QueueType
<1>3. ASSUME NEW i \in 1 .. Len(w), NEW x \in R[i - 1], NEW t \in Int
      PROVE  Push(x, t, w[i]) \in R[i]
  <2>1. i \in Nat /\ i - 1 \in Nat
    BY <1>1
  <2>2. Midway(x, i - 1, w, size, n, l)
    BY <2>1
  <2>3. Midway(Push(x, t, w[i]), i, w, size, n, l)
    BY <2>2, PushMidway
  <2> QED
    BY <2>1, <2>3 DEF Midway, SoundQueue
<1>4. R[Len(w)] = {x \in QueueType : Midway(x, Len(w), w, size, n, l)}
  BY <1>1
<1> HIDE DEF R
<1>5. PICK x \in R[Len(w)] : Replay(w, before, k, after) = RemoveDeath(x, after)
  BY <1>1, <1>2, <1>3, ReplayInduction, Zenon
<1>6. Midway(x, Len(w), w, size, n, l)
  BY <1>4
<1>7. Merged(x.msgs, Reach(Len(w), size, n), l)
  BY <1>6, MidwayMerged
<1>8. /\ SoundQueue(r)
      /\ ToSet(r.msgs) = {v \in ToSet(x.msgs) : ~ Dead(v, after)}
  BY <1>5, <1>6, RemoveDeathSound DEF Midway
<1>9. Merged(r.msgs, Reach(Len(w), size, n), l)
  BY <1>7, <1>8, TypeOfSound, MergedPart
<1> QED
  BY <1>8, <1>9

(***************************************************************************)
(* A copy is a part of the queue, in its order.                            *)
(***************************************************************************)
LEMMA CopyToPart ==
  ASSUME NEW x, SoundQueue(x), NEW c \in Int, NEW n \in Nat
  PROVE  /\ CopyTo(x, c, n) \in Seq(Message)
         /\ Ordered(CopyTo(x, c, n))
         /\ ToSet(CopyTo(x, c, n)) \subseteq ToSet(x.msgs)
<1> DEFINE s == x.msgs
           p == LowerBound(s, c)
           size == Len(s) + 1 - p
           some == Min({size, n})
           first == Len(s) + 1 - some
           r == SubSeq(s, first, Len(s))
<1>1. s \in Seq(Message) /\ Ordered(s) /\ Len(s) \in Nat
  BY TypeOfSound
<1>2. p \in 1 .. Len(s) + 1
  BY <1>1, LowerBoundIsBound
<1>3. CopyTo(x, c, n) = r
  BY DEF CopyTo
<1> HIDE DEF s, p
<1>4. size \in Nat /\ size <= Len(s)
  BY <1>1, <1>2
<1> HIDE DEF size
<1>5. some = IF size <= n THEN size ELSE n
  BY <1>4, MinOfTwo
<1> HIDE DEF some
<1>6. first \in 1 .. Len(s) + 1
  BY <1>1, <1>4, <1>5
<1> HIDE DEF first
<1> DEFINE m == Len(s) - first + 1
<1>7. /\ m \in Nat
      /\ r \in Seq(Message)
      /\ DOMAIN r = 1 .. m
      /\ \A i \in 1 .. m : r[i] = s[first - 1 + i]
      /\ DOMAIN s = 1 .. Len(s)
  BY <1>1, <1>6
<1>8. \A i \in 1 .. m : first - 1 + i \in DOMAIN s
  BY <1>1, <1>6, <1>7
<1>9. \A i, j \in 1 .. m : i < j => first - 1 + i < first - 1 + j
  BY <1>6, <1>7
<1> HIDE DEF r, m
<1>10. Ordered(r)
  <2>1. \A i, j \in DOMAIN s : i < j => Before(s[i], s[j])
    BY <1>1, Zenon DEF Ordered, Before
  <2>2. ASSUME NEW i \in 1 .. m, NEW j \in 1 .. m, i < j
        PROVE  Before(r[i], r[j])
    <3>1. Before(s[first - 1 + i], s[first - 1 + j])
      BY <1>8, <1>9, <2>1, <2>2, Zenon
    <3>2. r[i] = s[first - 1 + i] /\ r[j] = s[first - 1 + j]
      BY <1>7, Zenon
    <3> QED
      BY <3>1, <3>2, Zenon
  <2> QED
    BY <1>7, <2>2, Zenon DEF Ordered, Before
<1>11. ToSet(r) \subseteq ToSet(s)
  BY <1>7, <1>8, Zenon DEF ToSet
<1> QED
  BY <1>3, <1>7, <1>10, <1>11 DEF s

\* Nothing but a store of all that was pushed: the replay of a store without operands.
LEMMA StoreReplayable ==
  ASSUME NEW l \in Seq(Message), Numbered(l), NEW s, Merged(s, Len(l), l)
  PROVE  Replayable(s, Len(s), Len(l), l) /\ Reach(Len(s), Len(s), Len(l)) = Len(l)
<1>1. s \in Seq(Message)
  BY DEF Merged
<1> DEFINE none == <<>>
<1>2. none \in Seq(Message)
  OBVIOUS
<1>3. Len(none) = 0 /\ s \o none = s
  BY <1>1
<1> HIDE DEF none
<1>4. /\ Replayable(s \o none, Len(s), Len(l), l)
      /\ Reach(Len(s \o none), Len(s), Len(l)) = Len(l) + Len(none)
  <2> DEFINE n == Len(l)
  <2>1. n \in Nat /\ Merged(s, n, l)
    OBVIOUS
  <2>2. n + Len(none) <= Len(l) /\ \A i \in 1 .. Len(none) : none[i] = l[n + i]
    BY <1>3
  <2> HIDE DEF n
  <2>3. /\ Replayable(s \o none, Len(s), n, l)
        /\ Reach(Len(s \o none), Len(s), n) = n + Len(none)
    BY <1>2, <2>1, <2>2, JoinedReplayable
  <2> QED
    BY <2>3 DEF n
<1>5. Len(l) + Len(none) = Len(l)
  BY <1>3
<1> QED
  BY <1>3, <1>4, <1>5

-----------------------------------------------------------------------------
(***************************************************************************)
(* A replay of any list in which messages of one cursor come in the order  *)
(* of their arrival.  Upto(x, i, w): the queue x is sound, and each of its *)
(* messages stands where one of the first i of w was placed.               *)
(***************************************************************************)
Upto(x, i, w) ==
  /\ SoundQueue(x)
  /\ \A v \in ToSet(x.msgs) : \E j \in 1 .. i : v.cursor = w[j].cursor /\ v.arrival = w[j].arrival

Stands(v, w) == \E j \in DOMAIN w : v.cursor = w[j].cursor /\ v.arrival = w[j].arrival

LEMMA PushUpto ==
  ASSUME NEW w \in Seq(Message), InTurn(w), NEW i \in 1 .. Len(w), NEW x, Upto(x, i - 1, w),
         NEW t \in Int
  PROVE  NewerThan(w[i], x.msgs) /\ Upto(Push(x, t, w[i]), i, w)
<1> DEFINE m == w[i]
           y == Push(x, t, m)
<1>1. /\ i \in DOMAIN w /\ i \in Nat /\ m \in Message /\ SoundQueue(x)
      /\ \A j \in 1 .. i - 1 : j \in DOMAIN w /\ j < i /\ j \in 1 .. i
      /\ i \in 1 .. i
  BY DEF Upto
<1>2. NewerThan(m, x.msgs)
  <2> SUFFICES ASSUME NEW v \in ToSet(x.msgs), v.cursor = m.cursor
               PROVE  v.arrival < m.arrival
    BY DEF NewerThan
  <2>1. PICK j \in 1 .. i - 1 : v.cursor = w[j].cursor /\ v.arrival = w[j].arrival
    BY Zenon DEF Upto
  <2> QED
    BY <1>1, <2>1 DEF InTurn
<1>3. /\ SoundQueue(y)
      /\ \A v \in ToSet(y.msgs) :
           \/ v \in ToSet(SweepOnce(x, t).msgs)
           \/ v.content = m.content /\ StandsFor(v, x.msgs, m)
  BY <1>1, <1>2, PushSound
<1>4. ToSet(SweepOnce(x, t).msgs) \subseteq ToSet(x.msgs)
  BY <1>1, SweepOnceSound
<1>5. \A u \in ToSet(x.msgs) : \E j \in 1 .. i : u.cursor = w[j].cursor /\ u.arrival = w[j].arrival
  BY <1>1, Zenon DEF Upto
<1>6. \E j \in 1 .. i : m.cursor = w[j].cursor /\ m.arrival = w[j].arrival
  BY <1>1, Zenon
<1> HIDE DEF m, y
<1>7. ASSUME NEW v \in ToSet(y.msgs)
      PROVE  \E j \in 1 .. i : v.cursor = w[j].cursor /\ v.arrival = w[j].arrival
  <2>1. v \in ToSet(x.msgs) \/ StandsFor(v, x.msgs, m)
    BY <1>3, <1>4
  <2>2. \E u \in ToSet(x.msgs) \cup {m} : v.cursor = u.cursor /\ v.arrival = u.arrival
    BY <2>1, Zenon DEF StandsFor
  <2> QED
    BY <1>5, <1>6, <2>2, Zenon
<1> QED
  BY <1>2, <1>3, <1>7, Zenon DEF Upto, m, y

(***************************************************************************)
(* Induction along such a list, for the queues that stand for it.          *)
(***************************************************************************)
LEMMA ReplayInTurn ==
  ASSUME NEW w \in Seq(Message), InTurn(w), NEW before \in Int, NEW after \in Int,
         NEW k \in 0 .. Len(w), NEW G, EmptyQueue \in G[0],
         \A i \in 1 .. Len(w), t \in {before, after} : \A x \in G[i - 1] :
           Upto(x, i - 1, w) => Push(x, t, w[i]) \in G[i]
  PROVE  \E x \in G[Len(w)] : /\ Upto(x, Len(w), w)
                              /\ Replay(w, before, k, after) = RemoveDeath(x, after)
<1> DEFINE R == [i \in Nat |-> {x \in G[i] : Upto(x, i, w)}]
<1>1. Len(w) \in Nat /\ 0 \in Nat
  OBVIOUS
<1>2. EmptyQueue \in R[0]
  <2>1. EmptyQueue.msgs = <<>> /\ EmptyQueue \in QueueType
    BY DEF EmptyQueue, QueueType
  <2>2. ToSet(<<>>) = {} /\ Ordered(<<>>) /\ DieTogether(<<>>)
    BY DEF ToSet, Ordered, DieTogether
  <2>3. Upto(EmptyQueue, 0, w)
    BY <2>1, <2>2 DEF Upto, SoundQueue
  <2> QED
    BY <1>1, <2>3, Zenon
<1>3. ASSUME NEW i \in 1 .. Len(w), NEW x \in R[i - 1], NEW t \in {before, after}
      PROVE  Push(x, t, w[i]) \in R[i]
  <2>1. i \in Nat /\ i - 1 \in Nat /\ t \in Int
    BY <1>1
  <2>2. x \in G[i - 1] /\ Upto(x, i - 1, w)
    BY <2>1, Zenon
  <2>3. Push(x, t, w[i]) \in G[i]
    BY <2>2, Zenon
  <2>4. Upto(Push(x, t, w[i]), i, w)
    BY <2>1, <2>2, PushUpto
  <2> QED
    BY <2>1, <2>3, <2>4, Zenon
<1>4. R[Len(w)] = {x \in G[Len(w)] : Upto(x, Len(w), w)}
  BY <1>1, Zenon
<1> HIDE DEF R
<1>5. PICK x \in R[Len(w)] : Replay(w, before, k, after) = RemoveDeath(x, after)
  BY <1>2, <1>3, ReplayInduction, Zenon
<1> QED
  BY <1>4, <1>5, Zenon

LEMMA ReplayStands ==
  ASSUME NEW w \in Seq(Message), InTurn(w), NEW before \in Int, NEW after \in Int,
         NEW k \in 0 .. Len(w), NEW r, r = Replay(w, before, k, after)
  PROVE  /\ SoundQueue(r)
         /\ \A v \in ToSet(r.msgs) : ~ Dead(v, after) /\ Stands(v, w)
<1> DEFINE G == [i \in Nat |-> {EmptyQueue} \cup {x \in QueueType : SoundQueue(x)}]
<1>1. Len(w) \in Nat /\ 0 \in Nat /\ DOMAIN w = 1 .. Len(w)
  OBVIOUS
<1>2. EmptyQueue \in G[0]
  BY <1>1, Zenon
<1>3. ASSUME NEW i \in 1 .. Len(w), NEW t \in {before, after}, NEW x \in G[i - 1],
             Upto(x, i - 1, w)
      PROVE  Push(x, t, w[i]) \in G[i]
  <2>1. SoundQueue(Push(x, t, w[i])) /\ i \in Nat
    BY <1>3, PushUpto DEF Upto
  <2> QED
    BY <2>1, Zenon DEF SoundQueue
<1> HIDE DEF G
<1>4. PICK x \in G[Len(w)] : /\ Upto(x, Len(w), w)
                             /\ Replay(w, before, k, after) = RemoveDeath(x, after)
  BY <1>2, <1>3, ReplayInTurn, Zenon
<1>5. /\ SoundQueue(r)
      /\ ToSet(r.msgs) = {v \in ToSet(x.msgs) : ~ Dead(v, after)}
  BY <1>4, RemoveDeathSound DEF Upto
<1>6. \A v \in ToSet(x.msgs) : Stands(v, w)
  BY <1>1, <1>4, Zenon DEF Upto, Stands
<1> QED
  BY <1>5, <1>6, Zenon

(***************************************************************************)
(* A replay leaves nothing outside a set that the actions of its list do   *)
(* not lead out of.                                                        *)
(***************************************************************************)
LEMMA ReplayWithin ==
  ASSUME NEW w \in Seq(Message), InTurn(w), NEW before \in Int, NEW after \in Int,
         NEW k \in 0 .. Len(w), NEW U,
         \A m \in ToSet(w), S \in SUBSET U, t \in Int : Effect(S, m, t) \subseteq U
  PROVE  ToSet(Replay(w, before, k, after).msgs) \subseteq U
<1> DEFINE G == [i \in Nat |-> {x \in {EmptyQueue} \cup QueueType : ToSet(x.msgs) \subseteq U}]
<1>1. Len(w) \in Nat /\ 0 \in Nat /\ DOMAIN w = 1 .. Len(w)
  OBVIOUS
<1>2. EmptyQueue \in G[0]
  <2>1. ToSet(EmptyQueue.msgs) = {}
    BY DEF EmptyQueue, ToSet
  <2> QED
    BY <1>1, <2>1
<1>3. ASSUME NEW i \in 1 .. Len(w), NEW t \in {before, after}, NEW x \in G[i - 1],
             Upto(x, i - 1, w)
      PROVE  Push(x, t, w[i]) \in G[i]
  <2> DEFINE y == Push(x, t, w[i])
             S == ToSet(x.msgs)
  <2>1. i \in Nat /\ i - 1 \in Nat /\ t \in Int /\ w[i] \in Message /\ w[i] \in ToSet(w)
    BY <1>1 DEF ToSet
  <2>2. S \subseteq U /\ SoundQueue(x) /\ NewerThan(w[i], x.msgs)
    BY <1>3, <2>1, PushUpto DEF Upto
  <2>3. y \in QueueType
    BY <1>3, <2>1, PushUpto DEF Upto, SoundQueue
  <2>4. PICK expired \in SUBSET {v \in S : Dead(v, t)} :
          ToSet(y.msgs) = IF HandedBack(w[i]) THEN (IF w[i].limit = 0 THEN {} ELSE S \ expired)
                          ELSE Latest(w[i].limit, Effect(S \ expired, w[i], t))
    BY <2>1, <2>2, PushElements, Zenon
  <2>5. Effect(S \ expired, w[i], t) \subseteq U
    <3>1. S \ expired \in SUBSET U
      BY <2>2
    <3> QED
      BY <2>1, <3>1, Zenon
  <2> HIDE DEF y, S
  <2>6. ToSet(y.msgs) \subseteq U
    BY <2>2, <2>4, <2>5 DEF Latest
  <2> QED
    BY <2>1, <2>3, <2>6, Zenon DEF y
<1>4. \A x \in G[Len(w)] : ToSet(x.msgs) \subseteq U
  BY <1>1, Zenon
<1> HIDE DEF G
<1>5. PICK x \in G[Len(w)] : /\ Upto(x, Len(w), w)
                             /\ Replay(w, before, k, after) = RemoveDeath(x, after)
  BY <1>2, <1>3, ReplayInTurn, Zenon
<1>6. ToSet(RemoveDeath(x, after).msgs) = {v \in ToSet(x.msgs) : ~ Dead(v, after)}
  BY <1>5, RemoveDeathSound DEF Upto
<1> QED
  BY <1>4, <1>5, <1>6

-----------------------------------------------------------------------------
(***************************************************************************)
(* What is kept of messages that are only published.  T are the messages   *)
(* in question and n is no more than the limit of any of them; then those  *)
(* that are not among the n latest of T are all that a push may take away, *)
(* apart from the dead.                                                    *)
(***************************************************************************)
Remains(v, S, time, n, T) == v \in S \/ Dead(v, time) \/ v \notin Latest(n, T)

Lasting(v, n) ==
  /\ v \in Message
  /\ v.action = "publish"
  /\ v.lifetime # 0
  /\ v.birthtime # 0
  /\ v.limit >= n

\* A message that is handed back and takes nothing with it.
Passed(v) ==
  /\ v \in Message
  /\ v.action = "publish"
  /\ v.lifetime = 0
  /\ v.limit # 0

Keepable(n, T) == n \in Nat /\ IsFiniteSet(T) /\ \A v \in T : Lasting(v, n)

\* What is among the latest of a set is so among fewer.
LEMMA LatestOfFewer ==
  ASSUME NEW T, IsFiniteSet(T), NEW S \in SUBSET T, NEW n \in Nat, NEW k \in Nat, n <= k,
         NEW v \in S, v \in Latest(n, T)
  PROVE  v \in Latest(k, S)
<1> DEFINE A == {y \in S : Before(v, y)}
           B == {y \in T : Before(v, y)}
<1>1. IsFiniteSet(B)
  BY FS_Subset
<1>2. A \subseteq B
  OBVIOUS
<1>3. IsFiniteSet(A) /\ Cardinality(A) <= Cardinality(B)
  BY <1>1, <1>2, FS_Subset
<1>4. Cardinality(A) \in Nat /\ Cardinality(B) \in Nat
  BY <1>1, <1>3, FS_CardinalityType
<1>5. Cardinality(B) < n
  BY Zenon DEF Latest
<1> HIDE DEF A, B
<1>6. Cardinality(A) < k
  BY <1>3, <1>4, <1>5
<1> QED
  BY <1>6, Zenon DEF Latest, A

\* There are no more messages in a list than positions.
LEMMA ListedSize ==
  ASSUME NEW l \in Seq(Message)
  PROVE  IsFiniteSet(ToSet(l)) /\ Cardinality(ToSet(l)) <= Len(l)
<1> DEFINE f == [i \in DOMAIN l |-> l[i]]
<1>1. Len(l) \in Nat /\ DOMAIN l = 1 .. Len(l)
  OBVIOUS
<1>2. IsFiniteSet(DOMAIN l) /\ Cardinality(DOMAIN l) = Len(l)
  BY <1>1, FS_Interval, SMTT(90)
<1>3. f \in Surjection(DOMAIN l, ToSet(l))
  BY DEF Surjection, ToSet
<1> QED
  BY <1>2, <1>3, FS_Surjection

LEMMA RemainsOn ==
  ASSUME NEW T2, IsFiniteSet(T2), NEW T \in SUBSET T2, NEW n \in Nat, NEW n2 \in Nat, n2 <= n,
         NEW v \in T, NEW S, NEW S2, S \subseteq S2, v \in Message,
         NEW time \in Int, NEW time2 \in Int, time <= time2, Remains(v, S, time, n, T)
  PROVE  Remains(v, S2, time2, n2, T2)
<1>1. Deathtime(v) \in Int
  BY MessageFields DEF Deathtime
<1>2. Dead(v, time) => Dead(v, time2)
  BY <1>1 DEF Dead
<1>3. v \in Latest(n2, T2) => v \in Latest(n, T)
  BY LatestOfFewer
<1> QED
  BY <1>2, <1>3, Zenon DEF Remains

(***************************************************************************)
(* One push keeps them.                                                    *)
(***************************************************************************)
LEMMA PushKeeps ==
  ASSUME NEW T, NEW n, Keepable(n, T), NEW x, SoundQueue(x), ToSet(x.msgs) \subseteq T,
         NEW m, m \in T \/ Passed(m), NewerThan(m, x.msgs),
         NEW t \in Int, NEW after \in Int, t <= after
  PROVE  /\ ToSet(Push(x, t, m).msgs) \subseteq T
         /\ \A v \in ToSet(x.msgs) : Remains(v, ToSet(Push(x, t, m).msgs), after, n, T)
         /\ m \in T => Remains(m, ToSet(Push(x, t, m).msgs), after, n, T)
<1> DEFINE S == ToSet(x.msgs)
           P == ToSet(Push(x, t, m).msgs)
<1>1. T \in SUBSET Message /\ IsFiniteSet(T) /\ n \in Nat
  BY DEF Keepable, Lasting
<1>2. m \in Message /\ m.action = "publish" /\ S \subseteq T
  BY DEF Keepable, Lasting, Passed
<1>3. PICK expired \in SUBSET {y \in S : Dead(y, t)} :
        P = IF HandedBack(m) THEN (IF m.limit = 0 THEN {} ELSE S \ expired)
            ELSE Latest(m.limit, Effect(S \ expired, m, t))
  BY <1>2, PushElements, Zenon
<1>4. \A v \in expired : Dead(v, after)
  <2>1. \A v \in expired : v \in Message /\ Dead(v, t)
    BY <1>1, <1>2
  <2>2. \A v \in Message : Deathtime(v) \in Int
    BY MessageFields DEF Deathtime
  <2> QED
    BY <2>1, <2>2 DEF Dead
<1> HIDE DEF P, S
<1>5. \A v \in expired : Remains(v, P, after, n, T)
  BY <1>4, Zenon DEF Remains
<1>6. CASE Passed(m) /\ m \notin T
  <2>1. P = S \ expired
    BY <1>3, <1>6 DEF HandedBack, Unlimited, Passed
  <2>2. \A v \in S : Remains(v, P, after, n, T)
    BY <1>5, <2>1, Zenon DEF Remains
  <2> QED
    BY <1>2, <1>6, <2>1, <2>2, Zenon DEF P, S
<1>7. CASE m \in T /\ m.limit = 0
  <2>1. n = 0 /\ m.limit \in Nat
    BY <1>1, <1>2, <1>7, MessageFields DEF Keepable, Lasting
  <2>2. HandedBack(m)
    BY <1>2, <1>7 DEF HandedBack, Unlimited
  <2>3. P = {}
    BY <1>3, <1>7, <2>2
  <2>4. Latest(n, T) = {}
    <3> SUFFICES ASSUME NEW v \in T
                 PROVE  ~ (Cardinality({y \in T : Before(v, y)}) < n)
      BY DEF Latest
    <3>1. IsFiniteSet({y \in T : Before(v, y)})
      BY <1>1, FS_Subset
    <3>2. Cardinality({y \in T : Before(v, y)}) \in Nat
      BY <3>1, FS_CardinalityType
    <3> QED
      BY <2>1, <3>2
  <2> QED
    BY <2>3, <2>4, Zenon DEF Remains, P, S
<1>8. CASE m \in T /\ m.limit # 0
  <2> DEFINE L == (S \ expired) \cup {m}
  <2>1. Lasting(m, n)
    BY <1>8 DEF Keepable
  <2>2. ~ HandedBack(m) /\ Born(m, t) = m
    BY <1>8, <2>1 DEF HandedBack, Unlimited, Born, Lasting
  <2>3. Effect(S \ expired, m, t) = L
    BY <1>2, <2>2 DEF Effect
  <2>4. P = Latest(m.limit, L)
    BY <1>3, <2>2, <2>3, Zenon
  <2>5. L \subseteq T
    BY <1>2, <1>8
  <2>6. m.limit \in Nat /\ n <= m.limit
    BY <1>1, <1>2, <2>1, MessageFields DEF Lasting
  <2>7. ASSUME NEW v \in L
        PROVE  Remains(v, P, after, n, T)
    <3>1. v \in Latest(n, T) => v \in Latest(m.limit, L)
      BY <1>1, <2>5, <2>6, <2>7, LatestOfFewer
    <3> QED
      BY <2>4, <3>1, Zenon DEF Remains
  <2>8. P \subseteq T
    BY <2>4, <2>5 DEF Latest
  <2>9. (\A v \in S : v \in L \/ v \in expired) /\ m \in L
    BY Zenon
  <2> HIDE DEF L
  <2> QED
    BY <1>5, <2>7, <2>8, <2>9, Zenon DEF P, S
<1> QED
  BY <1>6, <1>7, <1>8

(***************************************************************************)
(* And so does a replay.                                                   *)
(***************************************************************************)
LEMMA ReplayKeeps ==
  ASSUME NEW T, NEW n, Keepable(n, T), NEW w \in Seq(Message), InTurn(w),
         \A i \in DOMAIN w : w[i] \in T \/ Passed(w[i]),
         NEW before \in Int, NEW after \in Int, before <= after, NEW k \in 0 .. Len(w),
         NEW r, r = Replay(w, before, k, after)
  PROVE  /\ ToSet(r.msgs) \subseteq T
         /\ \A v \in ToSet(w) \cap T : Remains(v, ToSet(r.msgs), after, n, T)
<1> DEFINE Good(x, i) ==
             /\ ToSet(x.msgs) \subseteq T
             /\ \A j \in 1 .. i : w[j] \in T => Remains(w[j], ToSet(x.msgs), after, n, T)
           G == [i \in Nat |-> {x \in {EmptyQueue} \cup QueueType : Good(x, i)}]
<1>1. Len(w) \in Nat /\ 0 \in Nat /\ DOMAIN w = 1 .. Len(w)
  OBVIOUS
<1>2. EmptyQueue \in G[0]
  <2>1. ToSet(EmptyQueue.msgs) = {}
    BY DEF EmptyQueue, ToSet
  <2>2. Good(EmptyQueue, 0)
    BY <2>1
  <2> QED
    BY <1>1, <2>2, Zenon
<1>3. ASSUME NEW i \in 1 .. Len(w), NEW t \in {before, after}, NEW x \in G[i - 1],
             Upto(x, i - 1, w)
      PROVE  Push(x, t, w[i]) \in G[i]
  <2> DEFINE y == Push(x, t, w[i])
             m == w[i]
  <2>1. /\ i \in Nat /\ i - 1 \in Nat /\ t \in Int /\ t <= after /\ i \in DOMAIN w
        /\ \A j \in 1 .. i : j \in 1 .. i - 1 \/ j = i
    BY <1>1
  <2>2. Good(x, i - 1)
    BY <2>1, Zenon
  <2>3. SoundQueue(x) /\ NewerThan(m, x.msgs) /\ y \in QueueType
    BY <1>3, <2>1, PushUpto DEF Upto, SoundQueue
  <2> HIDE DEF m, G
  <2>4. m \in T \/ Passed(m)
    BY <2>1, Zenon DEF m
  <2>5. /\ ToSet(Push(x, t, m).msgs) \subseteq T
        /\ \A v \in ToSet(x.msgs) : Remains(v, ToSet(Push(x, t, m).msgs), after, n, T)
        /\ m \in T => Remains(m, ToSet(Push(x, t, m).msgs), after, n, T)
    BY <2>1, <2>2, <2>3, <2>4, PushKeeps
  <2>6. y = Push(x, t, m)
    BY Zenon DEF m
  <2> HIDE DEF y
  <2>7. ASSUME NEW j \in 1 .. i, w[j] \in T
        PROVE  Remains(w[j], ToSet(y.msgs), after, n, T)
    <3>1. CASE j \in 1 .. i - 1
      <4>1. Remains(w[j], ToSet(x.msgs), after, n, T)
        BY <2>2, <2>7, <3>1, Zenon
      <4> QED
        BY <2>5, <2>6, <4>1, Zenon DEF Remains
    <3>2. CASE j = i
      BY <2>5, <2>6, <2>7, <3>2, Zenon DEF m
    <3> QED
      BY <2>1, <3>1, <3>2
  <2>8. Good(y, i)
    BY <2>5, <2>6, <2>7, Zenon
  <2> QED
    BY <2>1, <2>3, <2>8, Zenon DEF G, y
<1>4. \A x \in G[Len(w)] : Good(x, Len(w))
  BY <1>1, Zenon
<1> HIDE DEF G
<1>5. PICK x \in G[Len(w)] : /\ Upto(x, Len(w), w)
                             /\ Replay(w, before, k, after) = RemoveDeath(x, after)
  BY <1>2, <1>3, ReplayInTurn, Zenon
<1>6. ToSet(r.msgs) = {v \in ToSet(x.msgs) : ~ Dead(v, after)}
  BY <1>5, RemoveDeathSound DEF Upto
<1>7. Good(x, Len(w))
  BY <1>4
<1>8. ASSUME NEW v \in ToSet(w) \cap T
      PROVE  Remains(v, ToSet(r.msgs), after, n, T)
  <2>1. PICK j \in 1 .. Len(w) : v = w[j]
    BY <1>1 DEF ToSet
  <2>2. Remains(v, ToSet(x.msgs), after, n, T)
    BY <1>7, <2>1
  <2> QED
    BY <1>6, <2>2, Zenon DEF Remains
<1> QED
  BY <1>6, <1>7, <1>8

-----------------------------------------------------------------------------
(***************************************************************************)
(* One key of the store: its value and the operands behind it, in turn.    *)
(***************************************************************************)
LEMMA JoinedElements ==
  ASSUME NEW s \in Seq(Message), NEW ops \in Seq(Message)
  PROVE  /\ s \o ops \in Seq(Message)
         /\ Len(s \o ops) = Len(s) + Len(ops)
         /\ DOMAIN (s \o ops) = 1 .. Len(s) + Len(ops)
         /\ \A i \in 1 .. Len(s) : (s \o ops)[i] = s[i]
         /\ \A i \in 1 .. Len(ops) : (s \o ops)[Len(s) + i] = ops[i]
         /\ ToSet(s \o ops) = ToSet(s) \cup ToSet(ops)
<1> DEFINE w == s \o ops
           a == Len(s)
           b == Len(ops)
<1>1. /\ w \in Seq(Message) /\ Len(w) = a + b /\ DOMAIN w = 1 .. a + b
      /\ DOMAIN s = 1 .. a /\ DOMAIN ops = 1 .. b /\ a \in Nat /\ b \in Nat
      /\ \A i \in 1 .. a : w[i] = s[i]
      /\ \A i \in 1 .. b : w[a + i] = ops[i]
  OBVIOUS
<1> HIDE DEF w, a, b
<1>2. /\ \A i \in 1 .. a : i \in 1 .. a + b
      /\ \A i \in 1 .. b : a + i \in 1 .. a + b
      /\ \A i \in 1 .. a + b : i \in 1 .. a \/ (i - a \in 1 .. b /\ a + (i - a) = i)
  BY <1>1
<1>3. (\A i \in 1 .. a : s[i] \in ToSet(w)) /\ (\A i \in 1 .. b : ops[i] \in ToSet(w))
  <2>1. \A i \in 1 .. a + b : w[i] \in ToSet(w)
    BY <1>1, Zenon DEF ToSet
  <2> QED
    BY <1>1, <1>2, <2>1, Zenon
<1>4. ASSUME NEW i \in 1 .. a + b
      PROVE  w[i] \in ToSet(s) \cup ToSet(ops)
  <2>1. CASE i \in 1 .. a
    BY <1>1, <2>1, Zenon DEF ToSet
  <2>2. CASE i - a \in 1 .. b /\ a + (i - a) = i
    <3>1. w[i] = ops[i - a]
      BY <1>1, <2>2, Zenon
    <3> QED
      BY <1>1, <2>2, <3>1, Zenon DEF ToSet
  <2> QED
    BY <1>2, <2>1, <2>2
<1>5. ToSet(w) \subseteq ToSet(s) \cup ToSet(ops)
  BY <1>1, <1>4, Zenon DEF ToSet
<1>6. ToSet(s) \subseteq ToSet(w)
  BY <1>1, <1>3, Zenon DEF ToSet
<1>7. ToSet(ops) \subseteq ToSet(w)
  BY <1>1, <1>3, Zenon DEF ToSet
<1> QED
  BY <1>1, <1>5, <1>6, <1>7 DEF w, a, b

\* The two lists of which each is in turn, and the second after the first.
LEMMA JoinedInTurn ==
  ASSUME NEW s \in Seq(Message), NEW ops \in Seq(Message)
  PROVE  InTurn(s \o ops) <=>
           /\ InTurn(s)
           /\ InTurn(ops)
           /\ \A v \in ToSet(s), m \in ToSet(ops) : v.cursor = m.cursor => v.arrival < m.arrival
<1> DEFINE w == s \o ops
           a == Len(s)
           b == Len(ops)
           Turn(x, y) == x.cursor = y.cursor => x.arrival < y.arrival
<1>1. /\ DOMAIN w = 1 .. a + b /\ DOMAIN s = 1 .. a /\ DOMAIN ops = 1 .. b
      /\ a \in Nat /\ b \in Nat
      /\ \A i \in 1 .. a : w[i] = s[i]
      /\ \A i \in 1 .. b : w[a + i] = ops[i]
  BY JoinedElements
<1> HIDE DEF w, a, b
<1>2. /\ \A i \in 1 .. a : i \in 1 .. a + b
      /\ \A i \in 1 .. b : a + i \in 1 .. a + b
      /\ \A i, j \in 1 .. b : i < j => a + i < a + j
      /\ \A i \in 1 .. a, j \in 1 .. b : i < a + j
      /\ \A i \in 1 .. a + b : i \in 1 .. a \/ (i - a \in 1 .. b /\ a + (i - a) = i)
      /\ \A i \in 1 .. a, j \in 1 .. a + b : j < i => j \in 1 .. a
      /\ \A i, j \in 1 .. a + b : i < j => i - a < j - a
  BY <1>1
<1>3. InTurn(w) <=> \A i, j \in 1 .. a + b : i < j => Turn(w[i], w[j])
  BY <1>1, Zenon DEF InTurn
<1>4. InTurn(s) <=> \A i, j \in 1 .. a : i < j => Turn(s[i], s[j])
  BY <1>1, Zenon DEF InTurn
<1>5. InTurn(ops) <=> \A i, j \in 1 .. b : i < j => Turn(ops[i], ops[j])
  BY <1>1, Zenon DEF InTurn
<1>6. (\A v \in ToSet(s), m \in ToSet(ops) : Turn(v, m))
        <=> \A i \in 1 .. a, j \in 1 .. b : Turn(s[i], ops[j])
  <2> HIDE DEF Turn
  <2> QED
    BY <1>1, ZenonT(60) DEF ToSet
<1> HIDE DEF Turn
<1>7. ASSUME InTurn(w)
      PROVE  InTurn(s) /\ InTurn(ops) /\ \A i \in 1 .. a, j \in 1 .. b : Turn(s[i], ops[j])
  <2>1. InTurn(s)
    BY <1>1, <1>2, <1>3, <1>4, <1>7, Zenon
  <2>2. InTurn(ops)
    BY <1>1, <1>2, <1>3, <1>5, <1>7, Zenon
  <2>3. \A i \in 1 .. a, j \in 1 .. b : Turn(s[i], ops[j])
    BY <1>1, <1>2, <1>3, <1>7, Zenon
  <2> QED
    BY <2>1, <2>2, <2>3
<1>8. ASSUME InTurn(s), InTurn(ops), \A i \in 1 .. a, j \in 1 .. b : Turn(s[i], ops[j])
      PROVE  InTurn(w)
  <2> SUFFICES ASSUME NEW i \in 1 .. a + b, NEW j \in 1 .. a + b, i < j
               PROVE  Turn(w[i], w[j])
    BY <1>3, Zenon
  <2>1. CASE j \in 1 .. a
    BY <1>1, <1>2, <1>4, <1>8, <2>1, Zenon
  <2>2. CASE j - a \in 1 .. b /\ a + (j - a) = j
    <3>1. w[j] = ops[j - a]
      BY <1>1, <2>2, Zenon
    <3>2. CASE i \in 1 .. a
      BY <1>1, <1>8, <2>2, <3>1, <3>2, Zenon
    <3>3. CASE i - a \in 1 .. b /\ a + (i - a) = i
      <4>1. w[i] = ops[i - a]
        BY <1>1, <3>3, Zenon
      <4> QED
        BY <1>2, <1>5, <1>8, <2>2, <3>1, <3>3, <4>1, Zenon
    <3> QED
      BY <1>2, <3>2, <3>3
  <2> QED
    BY <1>2, <2>1, <2>2
<1>9. (\A v \in ToSet(s), m \in ToSet(ops) : v.cursor = m.cursor => v.arrival < m.arrival)
        <=> \A v \in ToSet(s), m \in ToSet(ops) : Turn(v, m)
  BY Zenon DEF Turn
<1> QED
  BY <1>6, <1>7, <1>8, <1>9, Zenon DEF w

LEMMA OrderedInTurn ==
  ASSUME NEW s \in Seq(Message), Ordered(s)
  PROVE  InTurn(s)
<1>1. \A i \in DOMAIN s : s[i].cursor \in Int
  BY SequenceFields
<1> QED
  BY <1>1 DEF Ordered, InTurn

\* A new operand.
LEMMA AppendInTurn ==
  ASSUME NEW s \in Seq(Message), NEW ops \in Seq(Message), InTurn(s \o ops), NEW m \in Message,
         \A v \in ToSet(s \o ops) : v.arrival < m.arrival
  PROVE  /\ Append(ops, m) \in Seq(Message)
         /\ ToSet(s \o Append(ops, m)) = ToSet(s \o ops) \cup {m}
         /\ InTurn(s \o Append(ops, m))
<1> DEFINE one == <<m>>
           more == Append(ops, m)
<1>1. one \in Seq(Message) /\ more \in Seq(Message) /\ more = ops \o one
  OBVIOUS
<1>2. ToSet(one) = {m} /\ InTurn(one)
  <2>1. DOMAIN one = {1} /\ one[1] = m
    OBVIOUS
  <2> HIDE DEF one
  <2> QED
    BY <2>1 DEF ToSet, InTurn
<1>3. ToSet(s \o ops) = ToSet(s) \cup ToSet(ops)
  BY JoinedElements
<1>4. InTurn(s) /\ InTurn(ops) /\
      \A v \in ToSet(s), u \in ToSet(ops) : v.cursor = u.cursor => v.arrival < u.arrival
  BY JoinedInTurn
<1> HIDE DEF one, more
<1>5. ToSet(more) = ToSet(ops) \cup {m} /\ InTurn(more)
  <2>1. ToSet(more) = ToSet(ops) \cup {m}
    BY <1>1, <1>2, JoinedElements
  <2>2. \A v \in ToSet(ops), u \in ToSet(one) : v.arrival < u.arrival
    BY <1>2, <1>3
  <2>3. InTurn(ops \o one)
    BY ONLY <1>1, <1>2, <1>4, <2>2, JoinedInTurn, ops \in Seq(Message)
  <2> QED
    BY <1>1, <2>1, <2>3
<1>6. ToSet(s \o more) = ToSet(s) \cup ToSet(more)
  BY <1>1, JoinedElements
<1>7. \A v \in ToSet(s), u \in ToSet(more) : v.cursor = u.cursor => v.arrival < u.arrival
  BY <1>3, <1>4, <1>5
<1>8. InTurn(s \o more)
  BY ONLY <1>1, <1>4, <1>5, <1>7, JoinedInTurn, s \in Seq(Message)
<1> QED
  BY <1>1, <1>3, <1>5, <1>6, <1>8 DEF more

(***************************************************************************)
(* A merge of the oldest operands: what is left is in turn again, and each *)
(* message stands where one of the key was placed.                         *)
(***************************************************************************)
LEMMA SplitOperands ==
  ASSUME NEW ops \in Seq(Message), NEW n \in 0 .. Len(ops)
  PROVE  /\ SubSeq(ops, 1, n) \in Seq(Message)
         /\ Len(SubSeq(ops, 1, n)) = n
         /\ SubSeq(ops, n + 1, Len(ops)) \in Seq(Message)
         /\ SubSeq(ops, 1, n) \o SubSeq(ops, n + 1, Len(ops)) = ops
<1> DEFINE s1 == SubSeq(ops, 1, n)
           s2 == SubSeq(ops, n + 1, Len(ops))
<1>1. s1 \in Seq(Message) /\ Len(s1) = n /\ \A i \in 1 .. n : s1[i] = ops[i]
  OBVIOUS
<1>2. /\ s2 \in Seq(Message) /\ Len(s2) = Len(ops) - n
      /\ \A i \in 1 .. Len(ops) - n : s2[i] = ops[n + i]
  OBVIOUS
<1> HIDE DEF s1, s2
<1> DEFINE w == s1 \o s2
           a == Len(ops)
<1>3. /\ w \in Seq(Message)
      /\ Len(w) = n + (a - n)
      /\ \A i \in 1 .. n : w[i] = s1[i]
      /\ \A i \in 1 .. a - n : w[n + i] = s2[i]
  <2>1. /\ w \in Seq(Message)
        /\ Len(w) = Len(s1) + Len(s2)
        /\ \A i \in 1 .. Len(s1) : w[i] = s1[i]
        /\ \A i \in 1 .. Len(s2) : w[Len(s1) + i] = s2[i]
    BY <1>1, <1>2, JoinedElements
  <2>2. Len(s1) = n /\ Len(s2) = a - n
    BY <1>1, <1>2
  <2> QED
    BY <2>1, <2>2, Zenon
<1> HIDE DEF w
<1>4. a \in Nat /\ n \in 0 .. a /\ n + (a - n) = a
  OBVIOUS
<1>5. ASSUME NEW i \in 1 .. a
      PROVE  w[i] = ops[i]
  <2>1. CASE i <= n
    BY <1>1, <1>3, <1>4, <2>1
  <2>2. CASE i > n
    <3>1. i - n \in 1 .. a - n /\ n + (i - n) = i
      BY <1>4, <2>2
    <3>2. w[n + (i - n)] = s2[i - n] /\ s2[i - n] = ops[n + (i - n)]
      BY <1>2, <1>3, <3>1, Zenon
    <3> QED
      BY <3>1, <3>2, Zenon
  <2> QED
    BY <1>4, <2>1, <2>2
<1>6. w = ops
  BY <1>3, <1>4, <1>5
<1> QED
  BY <1>1, <1>2, <1>6 DEF s1, s2, w

LEMMA ElementStands ==
  ASSUME NEW w, NEW v \in ToSet(w)
  PROVE  Stands(v, w)
BY Zenon DEF ToSet, Stands

LEMMA StandsOn ==
  ASSUME NEW s, NEW w, ToSet(s) \subseteq ToSet(w), NEW v, Stands(v, s)
  PROVE  Stands(v, w)
BY DEF ToSet, Stands

LEMMA MergeStands ==
  ASSUME NEW s \in Seq(Message), NEW ops \in Seq(Message), InTurn(s \o ops),
         NEW n \in 0 .. Len(ops), NEW before \in Int, NEW after \in Int,
         NEW k \in 0 .. Len(s) + n,
         NEW r, r = FullMerge(s, SubSeq(ops, 1, n), before, k, after),
         NEW rest, rest = SubSeq(ops, n + 1, Len(ops))
  PROVE  /\ r \in Seq(Message)
         /\ rest \in Seq(Message)
         /\ Ordered(r)
         /\ InTurn(r \o rest)
         /\ ToSet(rest) \subseteq ToSet(ops)
         /\ \A v \in ToSet(r) : ~ Dead(v, after)
         /\ \A v \in ToSet(r \o rest) : Stands(v, s \o ops)
<1> DEFINE first == SubSeq(ops, 1, n)
           w == s \o first
           x == Replay(w, before, k, after)
<1>1. /\ first \in Seq(Message) /\ Len(first) = n /\ rest \in Seq(Message)
      /\ first \o rest = ops
  BY SplitOperands
<1>2. r = x.msgs
  BY Zenon DEF FullMerge
<1> HIDE DEF first
<1>3. /\ w \in Seq(Message) /\ Len(w) = Len(s) + n
      /\ ToSet(w) = ToSet(s) \cup ToSet(first)
      /\ ToSet(ops) = ToSet(first) \cup ToSet(rest)
      /\ ToSet(s \o ops) = ToSet(s) \cup ToSet(ops)
  <2>1. ToSet(first \o rest) = ToSet(first) \cup ToSet(rest)
    BY <1>1, JoinedElements
  <2>2. /\ w \in Seq(Message) /\ Len(w) = Len(s) + Len(first)
        /\ ToSet(w) = ToSet(s) \cup ToSet(first)
    BY <1>1, JoinedElements
  <2>3. ToSet(s \o ops) = ToSet(s) \cup ToSet(ops)
    BY JoinedElements
  <2> HIDE DEF w
  <2> QED
    BY <1>1, <2>1, <2>2, <2>3
<1>4. /\ InTurn(s) /\ InTurn(first) /\ InTurn(rest)
      /\ \A v \in ToSet(s), m \in ToSet(ops) : v.cursor = m.cursor => v.arrival < m.arrival
      /\ \A v \in ToSet(first), m \in ToSet(rest) : v.cursor = m.cursor => v.arrival < m.arrival
  <2>1. InTurn(ops)
    BY JoinedInTurn
  <2>2. InTurn(first \o rest)
    BY <1>1, <2>1
  <2>3. /\ InTurn(first) /\ InTurn(rest)
        /\ \A v \in ToSet(first), m \in ToSet(rest) : v.cursor = m.cursor => v.arrival < m.arrival
    BY ONLY <1>1, <2>2, JoinedInTurn
  <2> QED
    BY <2>3, JoinedInTurn
<1>5. InTurn(w)
  BY <1>1, <1>3, <1>4, JoinedInTurn
<1> HIDE DEF w
<1>6. /\ SoundQueue(x)
      /\ \A v \in ToSet(x.msgs) : ~ Dead(v, after) /\ Stands(v, w)
  BY <1>3, <1>5, ReplayStands
<1>7. r \in Seq(Message) /\ Ordered(r)
  BY <1>2, <1>6, TypeOfSound
<1>8. InTurn(r)
  BY <1>7, OrderedInTurn
<1> HIDE DEF x
<1>9. \A v \in ToSet(r), m \in ToSet(rest) : v.cursor = m.cursor => v.arrival < m.arrival
  <2> SUFFICES ASSUME NEW v \in ToSet(r), NEW m \in ToSet(rest), v.cursor = m.cursor
               PROVE  v.arrival < m.arrival
    OBVIOUS
  <2>1. PICK u \in ToSet(w) : v.cursor = u.cursor /\ v.arrival = u.arrival
    <3>1. PICK j \in DOMAIN w : v.cursor = w[j].cursor /\ v.arrival = w[j].arrival
      BY <1>2, <1>6, Zenon DEF Stands
    <3> QED
      BY <3>1, Zenon DEF ToSet
  <2> QED
    BY <1>3, <1>4, <2>1
<1>10. InTurn(r \o rest)
  BY ONLY <1>1, <1>4, <1>7, <1>8, <1>9, JoinedInTurn
<1>11. ToSet(r \o rest) = ToSet(r) \cup ToSet(rest)
  BY <1>1, <1>7, JoinedElements
<1>12. \A v \in ToSet(r) : Stands(v, s \o ops)
  <2>1. ToSet(w) \subseteq ToSet(s \o ops)
    BY <1>3
  <2> QED
    BY <1>2, <1>6, <2>1, StandsOn
<1>13. \A v \in ToSet(rest) : Stands(v, s \o ops)
  BY <1>3, ElementStands
<1>14. \A v \in ToSet(r) : ~ Dead(v, after)
  BY <1>2, <1>6
<1>15. ToSet(rest) \subseteq ToSet(ops)
  BY <1>3
<1> QED
  BY ONLY <1>1, <1>7, <1>10, <1>11, <1>12, <1>13, <1>14, <1>15, r \in Seq(Message)

\* What a reader is given of a key: a merge of everything, replayed once more.
LEMMA GetStands ==
  ASSUME NEW s \in Seq(Message), NEW ops \in Seq(Message), InTurn(s \o ops), NEW time \in Int,
         NEW g, g = Get(s, ops, time)
  PROVE  /\ g \in Seq(Message)
         /\ InTurn(g)
         /\ \A v \in ToSet(g) : Stands(v, s \o ops)
<1>1. InTurn(s) /\ ToSet(s) \subseteq ToSet(s \o ops) /\ s \o ops \in Seq(Message)
  BY JoinedInTurn, JoinedElements
<1>2. CASE ops = <<>>
  <2>1. g = s
    BY <1>2, Zenon DEF Get
  <2> QED
    BY <1>1, <2>1, ElementStands, StandsOn
<1>3. CASE ops # <<>>
  <2> DEFINE x == Replay(s \o ops, time, 0, time)
  <2>1. g = x.msgs
    BY <1>3, Zenon DEF Get, FullMerge
  <2>2. 0 \in 0 .. Len(s \o ops)
    BY <1>1
  <2>3. /\ SoundQueue(x)
        /\ \A v \in ToSet(x.msgs) : Stands(v, s \o ops)
    BY <1>1, <2>2, ReplayStands
  <2> HIDE DEF x
  <2>4. g \in Seq(Message) /\ Ordered(g)
    BY <2>1, <2>3, TypeOfSound
  <2> QED
    BY <2>1, <2>3, <2>4, OrderedInTurn
<1> QED
  BY <1>2, <1>3

LEMMA ReadStands ==
  ASSUME NEW s \in Seq(Message), NEW ops \in Seq(Message), InTurn(s \o ops), NEW time \in Int,
         NEW cursor \in Int, NEW limit \in Nat, NEW r, r = GetMessages(s, ops, time, cursor, limit)
  PROVE  /\ r \in Seq(Message)
         /\ Ordered(r)
         /\ \A v \in ToSet(r) : ~ Dead(v, time) /\ Stands(v, s \o ops)
<1> DEFINE g == Get(s, ops, time)
           x == Replay(g, time, 0, time)
<1>1. /\ g \in Seq(Message)
      /\ InTurn(g)
      /\ \A v \in ToSet(g) : Stands(v, s \o ops)
  BY GetStands
<1>2. r = CopyTo(x, cursor, limit)
  BY Zenon DEF GetMessages
<1> HIDE DEF g
<1>3. 0 \in 0 .. Len(g)
  BY <1>1
<1>4. /\ SoundQueue(x)
      /\ \A v \in ToSet(x.msgs) : ~ Dead(v, time) /\ Stands(v, g)
  BY <1>1, <1>3, ReplayStands
<1> HIDE DEF x
<1>5. r \in Seq(Message) /\ Ordered(r) /\ ToSet(r) \subseteq ToSet(x.msgs)
  BY <1>2, <1>4, CopyToPart
<1>6. ASSUME NEW v, Stands(v, g)
      PROVE  Stands(v, s \o ops)
  <2>1. PICK u \in ToSet(g) : v.cursor = u.cursor /\ v.arrival = u.arrival
    BY <1>6, Zenon DEF Stands, ToSet
  <2>2. Stands(u, s \o ops)
    BY <1>1
  <2> QED
    BY <2>1, <2>2, Zenon DEF Stands
<1> QED
  BY <1>4, <1>5, <1>6

(***************************************************************************)
(* And it is within every set that the actions of the key do not lead out  *)
(* of.                                                                     *)
(***************************************************************************)
ClosedBy(U, A) == \A m \in A, S \in SUBSET U, t \in Int : Effect(S, m, t) \subseteq U

LEMMA MergeWithin ==
  ASSUME NEW s \in Seq(Message), NEW ops \in Seq(Message), InTurn(s \o ops),
         NEW n \in 0 .. Len(ops), NEW before \in Int, NEW after \in Int,
         NEW k \in 0 .. Len(s) + n, NEW U, ClosedBy(U, ToSet(s \o ops))
  PROVE  ToSet(FullMerge(s, SubSeq(ops, 1, n), before, k, after)) \subseteq U
<1> DEFINE first == SubSeq(ops, 1, n)
           rest == SubSeq(ops, n + 1, Len(ops))
           w == s \o first
<1>1. /\ first \in Seq(Message) /\ Len(first) = n /\ rest \in Seq(Message)
      /\ first \o rest = ops
  BY SplitOperands
<1>2. FullMerge(s, first, before, k, after) = Replay(w, before, k, after).msgs
  BY Zenon DEF FullMerge
<1> HIDE DEF first, rest
<1>3. ToSet(first) \subseteq ToSet(ops) /\ InTurn(first)
  <2>1. ToSet(first \o rest) = ToSet(first) \cup ToSet(rest)
    BY <1>1, JoinedElements
  <2>2. InTurn(first \o rest)
    BY <1>1, JoinedInTurn
  <2>3. InTurn(first)
    BY ONLY <1>1, <2>2, JoinedInTurn
  <2> QED
    BY <1>1, <2>1, <2>3
<1>4. w \in Seq(Message) /\ Len(w) = Len(s) + n /\ ToSet(w) \subseteq ToSet(s \o ops)
  <2>1. w \in Seq(Message) /\ Len(w) = Len(s) + Len(first) /\ ToSet(w) = ToSet(s) \cup ToSet(first)
    BY <1>1, JoinedElements
  <2>2. ToSet(s \o ops) = ToSet(s) \cup ToSet(ops)
    BY JoinedElements
  <2> HIDE DEF w
  <2> QED
    BY <1>1, <1>3, <2>1, <2>2
<1>5. InTurn(w)
  <2>1. /\ InTurn(s)
        /\ \A v \in ToSet(s), m \in ToSet(ops) : v.cursor = m.cursor => v.arrival < m.arrival
    BY JoinedInTurn
  <2> QED
    BY <1>1, <1>3, <2>1, JoinedInTurn
<1> HIDE DEF w
<1>6. \A m \in ToSet(w), S \in SUBSET U, t \in Int : Effect(S, m, t) \subseteq U
  BY <1>4, Zenon DEF ClosedBy
<1>7. ToSet(Replay(w, before, k, after).msgs) \subseteq U
  BY <1>4, <1>5, <1>6, ReplayWithin
<1> QED
  BY <1>2, <1>7 DEF first

LEMMA ReadWithin ==
  ASSUME NEW s \in Seq(Message), NEW ops \in Seq(Message), InTurn(s \o ops), NEW time \in Int,
         NEW cursor \in Int, NEW limit \in Nat,
         NEW U, ToSet(s) \subseteq U, ClosedBy(U, U), ClosedBy(U, ToSet(s \o ops))
  PROVE  ToSet(GetMessages(s, ops, time, cursor, limit)) \subseteq U
<1> DEFINE g == Get(s, ops, time)
           x == Replay(g, time, 0, time)
<1>1. g \in Seq(Message) /\ InTurn(g) /\ 0 \in 0 .. Len(g)
  <2>1. g \in Seq(Message) /\ InTurn(g)
    BY GetStands
  <2> HIDE DEF g
  <2> QED
    BY <2>1
<1>2. ToSet(g) \subseteq U
  <2>1. CASE ops = <<>>
    BY <2>1, Zenon DEF Get
  <2>2. CASE ops # <<>>
    <3>1. s \o ops \in Seq(Message) /\ 0 \in 0 .. Len(s \o ops)
      BY JoinedElements
    <3>2. \A m \in ToSet(s \o ops), S \in SUBSET U, t \in Int : Effect(S, m, t) \subseteq U
      BY Zenon DEF ClosedBy
    <3>3. ToSet(Replay(s \o ops, time, 0, time).msgs) \subseteq U
      BY <3>1, <3>2, ReplayWithin
    <3>4. g = Replay(s \o ops, time, 0, time).msgs
      BY <2>2, Zenon DEF Get, FullMerge
    <3> QED
      BY <3>3, <3>4
  <2> QED
    BY <2>1, <2>2
<1>3. GetMessages(s, ops, time, cursor, limit) = CopyTo(x, cursor, limit)
  BY Zenon DEF GetMessages
<1> HIDE DEF g
<1>4. \A m \in ToSet(g), S \in SUBSET U, t \in Int : Effect(S, m, t) \subseteq U
  BY <1>2, Zenon DEF ClosedBy
<1>5. ToSet(x.msgs) \subseteq U
  BY <1>1, <1>4, ReplayWithin
<1>6. SoundQueue(x)
  BY <1>1, ReplayStands
<1> HIDE DEF x
<1>7. ToSet(CopyTo(x, cursor, limit)) \subseteq ToSet(x.msgs)
  BY <1>6, CopyToPart
<1> QED
  BY <1>3, <1>5, <1>7

(***************************************************************************)
(* A merge and a read keep what a push keeps.                              *)
(***************************************************************************)
\* A copy that asks for everything gets everything.
LEMMA CopyToAll ==
  ASSUME NEW x, SoundQueue(x), NEW c \in Int, NEW n \in Nat, Len(x.msgs) <= n,
         \A v \in ToSet(x.msgs) : v.cursor >= c
  PROVE  ToSet(CopyTo(x, c, n)) = ToSet(x.msgs)
<1> DEFINE s == x.msgs
           wanted == {i \in DOMAIN s : s[i].cursor >= c}
           some == {j \in wanted : Cardinality({k \in wanted : k > j}) < n}
<1>1. s \in Seq(Message) /\ Len(s) \in Nat /\ DOMAIN s = 1 .. Len(s) /\ Len(s) <= n
  BY TypeOfSound
<1>2. ToSet(CopyTo(x, c, n)) = {s[i] : i \in some}
  <2>1. ExactCopy(x, c, n)
    BY CopyToExact
  <2> QED
    BY <2>1, Zenon DEF ExactCopy
<1> HIDE DEF s
<1>3. wanted = DOMAIN s
  <2>1. \A i \in DOMAIN s : s[i] \in ToSet(x.msgs)
    BY DEF ToSet, s
  <2> QED
    BY <2>1
<1> HIDE DEF wanted
<1>4. ASSUME NEW j \in wanted
      PROVE  Cardinality({k \in wanted : k > j}) < n
  <2>1. j \in Int /\ j + 1 \in Int /\ Len(s) \in Int /\ 1 <= j /\ j <= Len(s)
    BY <1>1, <1>3
  <2>2. {k \in wanted : k > j} = j + 1 .. Len(s)
    BY <1>1, <1>3, <2>1
  <2>3. Cardinality(j + 1 .. Len(s)) = IF j + 1 > Len(s) THEN 0 ELSE Len(s) - (j + 1) + 1
    BY <2>1, FS_Interval
  <2>4. \A a, b \in Int :
          a <= b => (IF a + 1 > b THEN 0 ELSE b - (a + 1) + 1) = b - a
    OBVIOUS
  <2>5. Cardinality(j + 1 .. Len(s)) = Len(s) - j
    BY <2>1, <2>3, <2>4, Zenon
  <2>6. Len(s) - j < n
    BY <1>1, <2>1
  <2> QED
    BY <2>2, <2>5, <2>6, Zenon
<1>5. some = DOMAIN s
  BY <1>3, <1>4
<1> QED
  BY <1>2, <1>5, Zenon DEF ToSet, s

LEMMA MergeKeeps ==
  ASSUME NEW T, NEW d, Keepable(d, T),
         NEW s \in Seq(Message), NEW ops \in Seq(Message), InTurn(s \o ops),
         \A v \in ToSet(s \o ops) : v \in T \/ Passed(v),
         NEW n \in 0 .. Len(ops), NEW before \in Int, NEW after \in Int, before <= after,
         NEW k \in 0 .. Len(s) + n,
         NEW r, r = FullMerge(s, SubSeq(ops, 1, n), before, k, after),
         NEW rest, rest = SubSeq(ops, n + 1, Len(ops))
  PROVE  /\ ToSet(r) \subseteq T
         /\ \A v \in T : Remains(v, ToSet(s \o ops), before, d, T)
                           => Remains(v, ToSet(r \o rest), after, d, T)
<1> DEFINE first == SubSeq(ops, 1, n)
           w == s \o first
           x == Replay(w, before, k, after)
<1>1. /\ first \in Seq(Message) /\ Len(first) = n /\ rest \in Seq(Message)
      /\ first \o rest = ops
  BY SplitOperands
<1>2. r = x.msgs
  BY Zenon DEF FullMerge
<1> HIDE DEF first
<1>3. /\ w \in Seq(Message) /\ Len(w) = Len(s) + n
      /\ ToSet(w) = ToSet(s) \cup ToSet(first)
      /\ ToSet(ops) = ToSet(first) \cup ToSet(rest)
      /\ ToSet(s \o ops) = ToSet(s) \cup ToSet(ops)
  <2>1. ToSet(first \o rest) = ToSet(first) \cup ToSet(rest)
    BY <1>1, JoinedElements
  <2>2. /\ w \in Seq(Message) /\ Len(w) = Len(s) + Len(first)
        /\ ToSet(w) = ToSet(s) \cup ToSet(first)
    BY <1>1, JoinedElements
  <2>3. ToSet(s \o ops) = ToSet(s) \cup ToSet(ops)
    BY JoinedElements
  <2> HIDE DEF w
  <2> QED
    BY <1>1, <2>1, <2>2, <2>3
<1>4. InTurn(w)
  <2>1. /\ InTurn(s) /\ InTurn(ops)
        /\ \A v \in ToSet(s), m \in ToSet(ops) : v.cursor = m.cursor => v.arrival < m.arrival
    BY JoinedInTurn
  <2>2. InTurn(first \o rest)
    BY <1>1, <2>1
  <2>3. InTurn(first)
    BY ONLY <1>1, <2>2, JoinedInTurn
  <2> QED
    BY <1>1, <1>3, <2>1, <2>3, JoinedInTurn
<1> HIDE DEF w
<1>5. \A i \in DOMAIN w : w[i] \in T \/ Passed(w[i])
  <2>1. \A i \in DOMAIN w : w[i] \in ToSet(w)
    BY Zenon DEF ToSet
  <2> QED
    BY <1>3, <2>1
<1>6. /\ ToSet(x.msgs) \subseteq T
      /\ \A v \in ToSet(w) \cap T : Remains(v, ToSet(x.msgs), after, d, T)
  BY <1>3, <1>4, <1>5, ReplayKeeps
<1>7. SoundQueue(x)
  BY <1>3, <1>4, ReplayStands
<1> HIDE DEF x
<1>8. r \in Seq(Message)
  BY <1>2, <1>7, TypeOfSound
<1>9. ToSet(r \o rest) = ToSet(r) \cup ToSet(rest)
  BY <1>1, <1>8, JoinedElements
<1>10. ASSUME NEW v \in T, Remains(v, ToSet(s \o ops), before, d, T)
       PROVE  Remains(v, ToSet(r \o rest), after, d, T)
  <2>1. CASE v \in ToSet(rest)
    BY <1>9, <2>1, Zenon DEF Remains
  <2>2. CASE v \in ToSet(w)
    <3>1. Remains(v, ToSet(r), after, d, T)
      BY <1>2, <1>6, <2>2
    <3> QED
      BY <1>9, <3>1, Zenon DEF Remains
  <2>3. CASE Dead(v, before)
    <3>1. Deathtime(v) \in Int
      BY MessageFields DEF Deathtime, Keepable, Lasting
    <3>2. Dead(v, after)
      BY <2>3, <3>1 DEF Dead
    <3> QED
      BY <3>2, Zenon DEF Remains
  <2>4. v \in ToSet(s \o ops) => v \in ToSet(w) \/ v \in ToSet(rest)
    BY <1>3
  <2> QED
    BY <1>10, <2>1, <2>2, <2>3, <2>4, Zenon DEF Remains
<1> QED
  BY <1>2, <1>6, <1>10, Zenon

LEMMA ReadKeeps ==
  ASSUME NEW T, NEW d, Keepable(d, T),
         NEW s \in Seq(Message), NEW ops \in Seq(Message), InTurn(s \o ops),
         \A v \in ToSet(s \o ops) : v \in T \/ Passed(v),
         NEW time \in Int, NEW cursor \in Int, \A v \in T : v.cursor >= cursor,
         NEW limit \in Nat, Cardinality(T) <= limit,
         NEW v \in T, Remains(v, ToSet(s \o ops), time, d, T)
  PROVE  Remains(v, ToSet(GetMessages(s, ops, time, cursor, limit)), time, d, T)
<1> DEFINE g == Get(s, ops, time)
           x == Replay(g, time, 0, time)
<1>1. g \in Seq(Message) /\ InTurn(g) /\ 0 \in 0 .. Len(g) /\ time <= time
  <2>1. g \in Seq(Message) /\ InTurn(g)
    BY GetStands
  <2> HIDE DEF g
  <2> QED
    BY <2>1
<1>2. /\ Remains(v, ToSet(g), time, d, T)
      /\ \A u \in ToSet(g) : u \in T \/ Passed(u)
  <2>1. CASE ops = <<>>
    <3>1. g = s /\ s \o ops = s
      BY <2>1 DEF Get
    <3> QED
      BY <3>1, Zenon
  <2>2. CASE ops # <<>>
    <3> DEFINE w == s \o ops
    <3>1. w \in Seq(Message) /\ 0 \in 0 .. Len(w) /\ \A i \in DOMAIN w : w[i] \in ToSet(w)
      <4>1. w \in Seq(Message)
        BY JoinedElements
      <4> HIDE DEF w
      <4> QED
        BY <4>1 DEF ToSet
    <3>2. g = Replay(w, time, 0, time).msgs
      BY <2>2, Zenon DEF Get, FullMerge
    <3> HIDE DEF w, g
    <3>3. /\ ToSet(Replay(w, time, 0, time).msgs) \subseteq T
          /\ \A u \in ToSet(w) \cap T : Remains(u, ToSet(Replay(w, time, 0, time).msgs), time, d, T)
      <4>1. InTurn(w) /\ \A i \in DOMAIN w : w[i] \in T \/ Passed(w[i])
        BY <3>1 DEF w
      <4> QED
        BY <1>1, <3>1, <4>1, ReplayKeeps
    <3>4. v \in ToSet(w) \/ Dead(v, time) \/ v \notin Latest(d, T)
      BY Zenon DEF Remains, w
    <3> QED
      BY <3>2, <3>3, <3>4, Zenon DEF Remains
  <2> QED
    BY <2>1, <2>2
<1>3. GetMessages(s, ops, time, cursor, limit) = CopyTo(x, cursor, limit)
  BY Zenon DEF GetMessages
<1> HIDE DEF g
<1>4. \A i \in DOMAIN g : g[i] \in T \/ Passed(g[i])
  BY <1>2, Zenon DEF ToSet
<1>5. /\ ToSet(x.msgs) \subseteq T
      /\ \A u \in ToSet(g) \cap T : Remains(u, ToSet(x.msgs), time, d, T)
  BY <1>1, <1>4, ReplayKeeps
<1>6. SoundQueue(x)
  BY <1>1, ReplayStands
<1> HIDE DEF x
<1>7. Len(x.msgs) <= limit
  <2>1. Len(x.msgs) \in Nat /\ Cardinality(ToSet(x.msgs)) = Len(x.msgs)
    BY <1>6, TypeOfSound, HeldSize
  <2>2. IsFiniteSet(T)
    BY DEF Keepable
  <2>3. Cardinality(ToSet(x.msgs)) <= Cardinality(T) /\ Cardinality(T) \in Nat
    BY <1>5, <2>2, FS_Subset, FS_CardinalityType
  <2> QED
    BY <2>1, <2>3
<1>8. ToSet(CopyTo(x, cursor, limit)) = ToSet(x.msgs)
  <2>1. \A u \in ToSet(x.msgs) : u.cursor >= cursor
    BY <1>5
  <2> QED
    BY <1>6, <1>7, <2>1, CopyToAll
<1>9. Remains(v, ToSet(x.msgs), time, d, T)
  BY <1>2, <1>5, Zenon DEF Remains
<1> QED
  BY <1>3, <1>8, <1>9

=============================================================================
