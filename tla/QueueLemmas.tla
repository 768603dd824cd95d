------------------------------ MODULE QueueLemmas ------------------------------
(***************************************************************************)
(* What the operators of MessageQueue do, for a deque of any length.       *)
(*                                                                         *)
(* First the deque: Keep leaves the chosen elements in their order,        *)
(* InsertAt makes room for one element, and UpperBound finds the place for *)
(* it.  Then the methods of the queue: each of them keeps a sound queue    *)
(* sound, and push adds nothing to it but the message pushed, provided     *)
(* that one is newer than the messages with its cursor.  MessageQueueProofs *)
(* uses these lemmas for a queue in use, ReplayLemmas for a replay, and    *)
(* PubsubProofs for the queues of a channel_map.                           *)
(***************************************************************************)
EXTENDS MessageQueue, MessageSets, FiniteSetTheorems, FunctionTheorems, TLAPS

(***************************************************************************)
(* The rank of an element of a finite set of integers: it grows with the   *)
(* element, and since there are as many ranks as elements every rank from  *)
(* 1 to the size of the set is taken.                                      *)
(***************************************************************************)
LEMMA RankGrows ==
  ASSUME NEW I \in SUBSET Int, IsFiniteSet(I), NEW i \in I, NEW j \in I, i < j
  PROVE  Rank(I, i) < Rank(I, j)
<1> DEFINE A == {x \in I : x <= i}
           B == {x \in I : x <= j}
<1>1. IsFiniteSet(A) /\ IsFiniteSet(B)
  BY FS_Subset
<1>2. A \subseteq B /\ j \in B /\ j \notin A
  <2>1. i \in Int /\ j \in Int /\ \A x \in I : x \in Int
    OBVIOUS
  <2>2. ~ (j <= i) /\ j <= j /\ \A x \in I : x <= i => x <= j
    BY <2>1
  <2> QED
    BY <2>2, Zenon
<1>3. Cardinality(A) <= Cardinality(B) /\ Cardinality(A) # Cardinality(B)
  BY <1>1, <1>2, FS_Subset, Zenon
<1>4. Cardinality(A) \in Nat /\ Cardinality(B) \in Nat
  BY <1>1, FS_CardinalityType
<1> QED
  BY <1>3, <1>4 DEF Rank

LEMMA RankType ==
  ASSUME NEW I \in SUBSET Int, IsFiniteSet(I), NEW i \in I
  PROVE  Rank(I, i) \in 1 .. Cardinality(I)
<1> DEFINE A == {x \in I : x <= i}
<1>1. IsFiniteSet(A) /\ Cardinality(A) <= Cardinality(I)
  BY FS_Subset
<1>2. Cardinality(A) \in Nat /\ Cardinality(I) \in Nat
  BY <1>1, FS_CardinalityType
<1>3. A # {}
  OBVIOUS
<1>4. Cardinality(A) # 0
  BY <1>1, <1>3, FS_EmptySet
<1> QED
  BY <1>1, <1>2, <1>4 DEF Rank

LEMMA RankTaken ==
  ASSUME NEW I \in SUBSET Int, IsFiniteSet(I), NEW k \in 1 .. Cardinality(I)
  PROVE  \E i \in I : Rank(I, i) = k
<1> DEFINE n == Cardinality(I)
           r == [i \in I |-> Rank(I, i)]
<1>1. n \in Nat
  BY FS_CardinalityType
<1>2. IsFiniteSet(1 .. n) /\ Cardinality(1 .. n) = n
  BY <1>1, FS_Interval
<1>3. r \in [I -> 1 .. n]
  BY RankType
<1>4. ASSUME NEW i \in I, NEW j \in I, r[i] = r[j]
      PROVE  i = j
  <2>1. CASE i < j
    BY <1>3, <1>4, <2>1, RankGrows
  <2>2. CASE j < i
    BY <1>3, <1>4, <2>2, RankGrows
  <2> QED
    BY <2>1, <2>2
<1>5. r \in Injection(I, 1 .. n)
  BY <1>3, <1>4 DEF Injection, IsInjective
<1>6. r \in Surjection(I, 1 .. n)
  BY <1>2, <1>5, FS_Injection
<1> QED
  BY <1>6 DEF Surjection

-----------------------------------------------------------------------------
(***************************************************************************)
(* Keep(s, I) enumerates the elements of s at the positions of I, each of  *)
(* them once, in their order.                                              *)
(***************************************************************************)
LEMMA KeepEnumerates ==
  ASSUME NEW S, NEW s \in Seq(S), NEW I \in SUBSET DOMAIN s
  PROVE  /\ IsFiniteSet(I)
         /\ Cardinality(I) \in Nat
         /\ Keep(s, I) \in Seq(S)
         /\ Len(Keep(s, I)) = Cardinality(I)
         /\ \E f \in [1 .. Cardinality(I) -> I] :
              /\ \A k \in 1 .. Cardinality(I) : Keep(s, I)[k] = s[f[k]]
              /\ \A j, k \in 1 .. Cardinality(I) : j < k => f[j] < f[k]
              /\ \A i \in I : \E k \in 1 .. Cardinality(I) : f[k] = i
<1> DEFINE n == Cardinality(I)
           f == [k \in 1 .. n |-> Nth(I, k)]
<1>1. IsFiniteSet(I) /\ n \in Nat /\ I \in SUBSET Int
  <2>1. Len(s) \in Nat /\ DOMAIN s = 1 .. Len(s)
    OBVIOUS
  <2>2. IsFiniteSet(DOMAIN s)
    BY <2>1, FS_Interval
  <2> QED
    BY <2>1, <2>2, FS_Subset, FS_CardinalityType
<1>2. \A k \in 1 .. n : f[k] \in I /\ Rank(I, f[k]) = k
  <2> TAKE k \in 1 .. n
  <2>1. \E i \in I : Rank(I, i) = k
    BY <1>1, RankTaken
  <2> QED
    BY <2>1, Zenon DEF Nth
<1>3. f \in [1 .. n -> I]
  BY <1>2, Zenon
<1>4. ASSUME NEW j \in 1 .. n, NEW k \in 1 .. n, j < k
      PROVE  f[j] < f[k]
  <2> DEFINE x == f[j]
             y == f[k]
  <2>1. x \in I /\ y \in I /\ x \in Int /\ y \in Int /\ Rank(I, x) = j /\ Rank(I, y) = k
    BY <1>1, <1>2, Zenon
  <2> HIDE DEF x, y
  <2>2. y # x
    BY <1>4, <2>1
  <2>3. ~ (y < x)
    BY <1>1, <1>4, <2>1, RankGrows
  <2>4. x < y
    BY <2>1, <2>2, <2>3
  <2> QED
    BY <2>4 DEF x, y
<1>5. ASSUME NEW i \in I
      PROVE  \E k \in 1 .. n : f[k] = i
  <2> DEFINE k == Rank(I, i)
             x == f[k]
  <2>1. k \in 1 .. n
    BY <1>1, RankType
  <2>2. x \in I /\ Rank(I, x) = k
    BY <1>2, <2>1, Zenon
  <2>3. x = i
    <3> HIDE DEF x
    <3>1. ~ (x < i) /\ ~ (i < x)
      BY <1>1, <2>1, <2>2, RankGrows
    <3> QED
      BY <1>1, <2>2, <3>1
  <2> QED
    BY <2>1, <2>3
<1>6. /\ Keep(s, I) \in Seq(S)
      /\ Len(Keep(s, I)) = n
      /\ \A k \in 1 .. n : Keep(s, I)[k] = s[f[k]]
  <2>1. \A k \in 1 .. n : s[f[k]] \in S
    <3>1. \A i \in I : s[i] \in S
      OBVIOUS
    <3> QED
      BY <1>2, <3>1, Zenon
  <2>2. Keep(s, I) = [k \in 1 .. n |-> s[f[k]]]
    BY DEF Keep
  <2> HIDE DEF f, n
  <2> QED
    BY <1>1, <2>1, <2>2
<1> QED
  BY <1>1, <1>3, <1>4, <1>5, <1>6, Zenon

(***************************************************************************)
(* InsertAt(s, p, e) is s up to p, then e, then the rest of s.             *)
(***************************************************************************)
LEMMA InsertAtElements ==
  ASSUME NEW S, NEW s \in Seq(S), NEW e \in S, NEW p \in 1 .. Len(s) + 1
  PROVE  /\ InsertAt(s, p, e) \in Seq(S)
         /\ Len(InsertAt(s, p, e)) = Len(s) + 1
         /\ \A i \in 1 .. Len(s) + 1 :
              InsertAt(s, p, e)[i] = IF i < p THEN s[i] ELSE IF i = p THEN e ELSE s[i-1]
<1> DEFINE l == SubSeq(s, 1, p - 1)
           r == SubSeq(s, p, Len(s))
<1>1. l \in Seq(S) /\ Len(l) = p - 1 /\ \A i \in 1 .. p - 1 : l[i] = s[i]
  OBVIOUS
<1>2. r \in Seq(S) /\ Len(r) = Len(s) + 1 - p /\ \A i \in 1 .. Len(s) + 1 - p : r[i] = s[i + p - 1]
  OBVIOUS
<1>3. InsertAt(s, p, e) = (l \o <<e>>) \o r
  BY DEF InsertAt
<1> HIDE DEF l, r
<1>4. /\ l \o <<e>> \in Seq(S)
      /\ Len(l \o <<e>>) = p
      /\ \A i \in 1 .. p : (l \o <<e>>)[i] = IF i < p THEN s[i] ELSE e
  BY <1>1
<1> DEFINE h == l \o <<e>>
<1>5. /\ h \in Seq(S) /\ Len(h) = p /\ InsertAt(s, p, e) = h \o r
      /\ \A i \in 1 .. p : h[i] = IF i < p THEN s[i] ELSE e
  BY <1>3, <1>4
<1> HIDE DEF h
<1>6. h \o r \in Seq(S) /\ Len(h \o r) = Len(s) + 1
  <2>1. Len(s) \in Nat /\ p \in Int
    OBVIOUS
  <2>2. h \in Seq(S) /\ r \in Seq(S)
    BY <1>2, <1>5
  <2>3. h \o r \in Seq(S) /\ Len(h \o r) = Len(h) + Len(r)
    BY <2>2
  <2> QED
    BY <1>2, <1>5, <2>1, <2>3
<1>7. ASSUME NEW i \in 1 .. Len(s) + 1
      PROVE  (h \o r)[i] = IF i < p THEN s[i] ELSE IF i = p THEN e ELSE s[i-1]
  <2>1. CASE i <= p
    <3>1. (h \o r)[i] = h[i]
      BY <1>2, <1>5, <2>1
    <3> QED
      BY <1>5, <2>1, <3>1
  <2>2. CASE i > p
    <3>1. i - p \in 1 .. Len(s) + 1 - p
      BY <2>2
    <3>2. (h \o r)[i] = r[i - p]
      BY <1>2, <1>5, <2>2
    <3>3. r[i - p] = s[(i - p) + p - 1]
      BY <1>2, <3>1
    <3>4. (i - p) + p - 1 = i - 1
      OBVIOUS
    <3> QED
      BY <2>2, <3>2, <3>3, <3>4
  <2>3. i <= p \/ i > p
    OBVIOUS
  <2> QED
    BY <2>1, <2>2, <2>3, Zenon
<1> QED
  BY <1>5, <1>6, <1>7, Zenon

(***************************************************************************)
(* UpperBound finds the position behind the elements whose cursor is not   *)
(* greater than c, provided there is no such element later.                *)
(***************************************************************************)
LEMMA LeastElement ==
  ASSUME NEW I \in SUBSET Int, IsFiniteSet(I), I # {}
  PROVE  Min(I) \in I /\ \A i \in I : Min(I) <= i
<1>1. Cardinality(I) \in Nat /\ Cardinality(I) # 0
  BY FS_CardinalityType, FS_EmptySet
<1>2. PICK x \in I : Rank(I, x) = 1
  BY <1>1, RankTaken
<1>3. \A i \in I : x <= i
  <2> SUFFICES ASSUME NEW i \in I, ~ (x <= i)
               PROVE  FALSE
    OBVIOUS
  <2>1. Rank(I, i) < Rank(I, x)
    BY RankGrows
  <2> QED
    BY <1>2, <2>1, RankType
<1> QED
  BY <1>3, Zenon DEF Min

LEMMA MessageFields ==
  \A m \in Message : /\ m.limit \in Nat
                     /\ m.birthtime \in Int
                     /\ m.lifetime \in Int
                     /\ m.cursor \in Int
                     /\ m.content \in Nat
                     /\ m.arrival \in Nat
BY DEF Message

LEMMA UpperBoundIsBound ==
  ASSUME NEW s \in Seq(Message), NEW c \in Int
  PROVE  /\ UpperBound(s, c) \in 1 .. Len(s) + 1
         /\ \A i \in DOMAIN s : i < UpperBound(s, c) => s[i].cursor <= c
         /\ UpperBound(s, c) <= Len(s) => c < s[UpperBound(s, c)].cursor
<1> DEFINE I == {i \in DOMAIN s : c < s[i].cursor} \cup {Len(s) + 1}
           p == Min(I)
<1>1. I \subseteq 1 .. Len(s) + 1 /\ I # {} /\ Len(s) \in Nat
  OBVIOUS
<1>2. IsFiniteSet(1 .. Len(s) + 1)
  BY <1>1, FS_Interval
<1>3. IsFiniteSet(I) /\ I \in SUBSET Int
  BY <1>1, <1>2, FS_Subset
<1>4. p \in I /\ \A i \in I : p <= i
  BY <1>1, <1>3, LeastElement, Zenon
<1>5. \A i \in DOMAIN s : s[i].cursor \in Int
  BY MessageFields
<1>6. p \in 1 .. Len(s) + 1
  BY <1>1, <1>4
<1> HIDE DEF p
<1>7. ASSUME NEW i \in DOMAIN s, i < p
      PROVE  s[i].cursor <= c
  BY <1>4, <1>5, <1>6, <1>7
<1>8. p <= Len(s) => c < s[p].cursor
  BY <1>4, <1>6
<1> QED
  BY <1>6, <1>7, <1>8, Zenon DEF UpperBound, p
-----------------------------------------------------------------------------
\* A queue of the right type, in order, whose flag is sound.
SoundQueue(x) ==
  /\ x \in QueueType
  /\ Ordered(x.msgs)
  /\ x.sequenced => DieTogether(x.msgs)

\* The message m came after the messages of s that have its cursor.
NewerThan(m, s) == \A v \in ToSet(s) : v.cursor = m.cursor => v.arrival < m.arrival

\* The message v stands where one of s stood, or where m was placed.
StandsFor(v, s, m) ==
  \E u \in ToSet(s) \cup {m} : v.cursor = u.cursor /\ v.arrival = u.arrival

\* What the action of m does to a sound queue: it stays sound, and a message it did not
\* write was there before.
PushedInto(x, y, m) ==
  /\ SoundQueue(y)
  /\ y.lastRemoveDeath = x.lastRemoveDeath
  /\ \A v \in ToSet(y.msgs) :
       v \in ToSet(x.msgs) \/ (v.content = m.content /\ StandsFor(v, x.msgs, m))

-----------------------------------------------------------------------------
(***************************************************************************)
(* The changes of one message.                                             *)
(***************************************************************************)
LEMMA StampedFields ==
  ASSUME NEW m \in Message, NEW n \in Nat
  PROVE  /\ Stamped(m, n) \in Message
         /\ Stamped(m, n).arrival = n
         /\ Stamped(m, n).content = n
         /\ Stamped(m, n).action = m.action
BY DEF Message, Stamped

LEMMA BornFields ==
  ASSUME NEW m \in Message, NEW t \in Int
  PROVE  /\ Born(m, t) \in Message
         /\ Born(m, t).cursor = m.cursor
         /\ Born(m, t).arrival = m.arrival
         /\ Born(m, t).content = m.content
BY DEF Message, Born

LEMMA UpdatedFields ==
  ASSUME NEW old \in Message, NEW m \in Message
  PROVE  /\ Updated(old, m) \in Message
         /\ Updated(old, m).cursor = old.cursor
         /\ Updated(old, m).arrival = old.arrival
         /\ Updated(old, m).content = m.content
BY DEF Message, Updated

LEMMA ModifiedFields ==
  ASSUME NEW old \in Message, NEW m \in Message
  PROVE  /\ Modified(old, m) \in Message
         /\ Modified(old, m).cursor = old.cursor
         /\ Modified(old, m).arrival = old.arrival
         /\ Modified(old, m).content = m.content
         /\ Deathtime(Modified(old, m)) = Deathtime(old)
BY DEF Message, Modified, Deathtime

LEMMA SequenceFields ==
  ASSUME NEW s \in Seq(Message)
  PROVE  /\ Len(s) \in Nat
         /\ DOMAIN s = 1 .. Len(s)
         /\ \A i \in DOMAIN s : /\ s[i] \in Message
                                /\ s[i].cursor \in Int
                                /\ s[i].arrival \in Nat
                                /\ s[i].content \in Nat
                                /\ Deathtime(s[i]) \in Int
<1>1. Len(s) \in Nat /\ DOMAIN s = 1 .. Len(s) /\ \A i \in DOMAIN s : s[i] \in Message
  OBVIOUS
<1> QED
  BY <1>1, MessageFields DEF Deathtime

(***************************************************************************)
(* Erasing elements of the deque leaves it ordered, and its messages die   *)
(* together if they did.                                                   *)
(***************************************************************************)
LEMMA KeepSound ==
  ASSUME NEW s \in Seq(Message), NEW I \in SUBSET DOMAIN s
  PROVE  /\ Keep(s, I) \in Seq(Message)
         /\ Len(Keep(s, I)) \in Nat
         /\ Len(Keep(s, I)) = Cardinality(I)
         /\ ToSet(Keep(s, I)) = {s[i] : i \in I}
         /\ Ordered(s) => Ordered(Keep(s, I))
         /\ DieTogether(s) => DieTogether(Keep(s, I))
<1> DEFINE t == Keep(s, I)
           n == Cardinality(I)
<1>1. t \in Seq(Message) /\ Len(t) = n /\ n \in Nat
  BY KeepEnumerates
<1>2. PICK f \in [1 .. n -> I] :
        /\ \A k \in 1 .. n : t[k] = s[f[k]]
        /\ \A j, k \in 1 .. n : j < k => f[j] < f[k]
        /\ \A i \in I : \E k \in 1 .. n : f[k] = i
  BY KeepEnumerates, SMTT(90)
<1>3. DOMAIN t = 1 .. n
  BY <1>1
<1> HIDE DEF t, n
<1>4. \A k \in DOMAIN t : f[k] \in DOMAIN s /\ f[k] \in I /\ t[k] = s[f[k]]
  BY <1>2, <1>3
<1>5. ToSet(t) = {s[i] : i \in I}
  <2>1. \A k \in DOMAIN t : t[k] \in {s[i] : i \in I}
    BY <1>4
  <2>2. \A i \in I : \E k \in DOMAIN t : t[k] = s[i]
    BY <1>2, <1>3, <1>4
  <2> QED
    BY <2>1, <2>2 DEF ToSet
<1>6. ASSUME Ordered(s)
      PROVE  Ordered(t)
  <2> SUFFICES ASSUME NEW j \in DOMAIN t, NEW k \in DOMAIN t, j < k
               PROVE  \/ t[j].cursor < t[k].cursor
                      \/ t[j].cursor = t[k].cursor /\ t[j].arrival < t[k].arrival
    BY Zenon DEF Ordered
  <2>1. f[j] < f[k]
    BY <1>2, <1>3
  <2>2. \/ s[f[j]].cursor < s[f[k]].cursor
        \/ s[f[j]].cursor = s[f[k]].cursor /\ s[f[j]].arrival < s[f[k]].arrival
    BY <1>4, <1>6, <2>1, Zenon DEF Ordered
  <2> QED
    BY <1>4, <2>2
<1>7. DieTogether(s) => DieTogether(t)
  BY <1>4, Zenon DEF DieTogether
<1> QED
  BY <1>1, <1>5, <1>6, <1>7, Zenon DEF t, n

-----------------------------------------------------------------------------
(***************************************************************************)
(* The methods of the queue, one by one.                                   *)
(***************************************************************************)
LEMMA QueueFields ==
  ASSUME NEW x \in QueueType
  PROVE  /\ x.msgs \in Seq(Message)
         /\ Len(x.msgs) \in Nat
         /\ x.sequenced \in BOOLEAN
         /\ x.lastRemoveDeath \in Int
         /\ x.removed \in Nat
BY DEF QueueType

LEMMA TypeOfSound ==
  ASSUME NEW x, SoundQueue(x)
  PROVE  /\ x \in QueueType
         /\ x.msgs \in Seq(Message)
         /\ Len(x.msgs) \in Nat
         /\ DOMAIN x.msgs = 1 .. Len(x.msgs)
         /\ x.removed \in Nat
         /\ x.lastRemoveDeath \in Int
         /\ Ordered(x.msgs)
BY QueueFields, SequenceFields DEF SoundQueue

\* A queue from which only elements were taken is as sound as it was.
LEMMA ErasedSound ==
  ASSUME NEW x, SoundQueue(x), NEW y \in QueueType, NEW I \in SUBSET DOMAIN x.msgs,
         y.msgs = Keep(x.msgs, I), y.sequenced = x.sequenced
  PROVE  SoundQueue(y)
<1>1. x.msgs \in Seq(Message)
  BY QueueFields DEF SoundQueue
<1> QED
  BY <1>1, KeepSound, Zenon DEF SoundQueue

LEMMA ShorterKeep ==
  ASSUME NEW s \in Seq(Message), NEW I \in SUBSET DOMAIN s
  PROVE  Len(s) - Len(Keep(s, I)) \in Nat
<1>1. Len(s) \in Nat /\ DOMAIN s = 1 .. Len(s)
  OBVIOUS
<1>2. IsFiniteSet(DOMAIN s) /\ Cardinality(DOMAIN s) = Len(s)
  <2>1. \A n \in Nat : IsFiniteSet(1 .. n) /\ Cardinality(1 .. n) = n
    BY FS_Interval
  <2> QED
    BY <1>1, <2>1, Zenon
<1>3. Cardinality(I) <= Len(s) /\ Len(Keep(s, I)) = Cardinality(I) /\ Cardinality(I) \in Nat
  BY <1>2, FS_Subset, KeepEnumerates
<1> QED
  BY <1>1, <1>3

LEMMA ResizeSound ==
  ASSUME NEW x, SoundQueue(x), NEW limit \in Nat
  PROVE  /\ SoundQueue(Resize(x, limit))
         /\ Resize(x, limit).lastRemoveDeath = x.lastRemoveDeath
         /\ ToSet(Resize(x, limit).msgs) \subseteq ToSet(x.msgs)
<1> DEFINE I == {i \in DOMAIN x.msgs : i > Len(x.msgs) - limit}
           kept == Keep(x.msgs, I)
           lost == Len(x.msgs) - Len(kept)
           total == x.removed + lost
           y == Resize(x, limit)
<1>1. x \in QueueType /\ x.msgs \in Seq(Message) /\ x.removed \in Nat
  BY QueueFields DEF SoundQueue
<1>2. I \in SUBSET DOMAIN x.msgs
  OBVIOUS
<1> HIDE DEF I
<1>3. kept \in Seq(Message) /\ ToSet(kept) = {x.msgs[i] : i \in I}
  BY <1>1, <1>2, KeepSound
<1>4. lost \in Nat
  BY <1>1, <1>2, ShorterKeep
<1>5. y = [x EXCEPT !.msgs = kept, !.removed = total]
  BY Zenon DEF Resize, I
<1> HIDE DEF lost
<1>6. total \in Nat
  BY <1>1, <1>4
<1> HIDE DEF kept, total, y
<1>7. /\ y \in QueueType
      /\ y.msgs = kept
      /\ y.sequenced = x.sequenced
      /\ y.lastRemoveDeath = x.lastRemoveDeath
  BY <1>1, <1>3, <1>5, <1>6 DEF QueueType
<1>8. SoundQueue(y)
  BY <1>2, <1>7, ErasedSound DEF kept
<1>9. ToSet(kept) \subseteq ToSet(x.msgs)
  BY <1>2, <1>3 DEF ToSet
<1> QED
  BY <1>7, <1>8, <1>9 DEF y

LEMMA EraseSound ==
  ASSUME NEW x, SoundQueue(x), NEW m
  PROVE  /\ SoundQueue(Erase(x, m))
         /\ Erase(x, m).lastRemoveDeath = x.lastRemoveDeath
         /\ ToSet(Erase(x, m).msgs) \subseteq ToSet(x.msgs)
<1> DEFINE I == DOMAIN x.msgs \ Matching(x.msgs, m)
           kept == Keep(x.msgs, I)
           y == Erase(x, m)
<1>1. x \in QueueType /\ x.msgs \in Seq(Message)
  BY QueueFields DEF SoundQueue
<1>2. I \in SUBSET DOMAIN x.msgs
  OBVIOUS
<1> HIDE DEF I
<1>3. kept \in Seq(Message) /\ ToSet(kept) = {x.msgs[i] : i \in I}
  BY <1>1, <1>2, KeepSound
<1>4. y = [x EXCEPT !.msgs = kept]
  BY Zenon DEF Erase, I
<1> HIDE DEF kept, y
<1>5. /\ y \in QueueType
      /\ y.msgs = kept
      /\ y.sequenced = x.sequenced
      /\ y.lastRemoveDeath = x.lastRemoveDeath
  BY <1>1, <1>3, <1>4 DEF QueueType
<1>6. SoundQueue(y)
  BY <1>2, <1>5, ErasedSound DEF kept
<1>7. ToSet(kept) \subseteq ToSet(x.msgs)
  BY <1>2, <1>3 DEF ToSet
<1> QED
  BY <1>5, <1>6, <1>7 DEF y

(***************************************************************************)
(* The test of remove_death compares neighbours only; that all messages    *)
(* die together follows along the deque.                                   *)
(***************************************************************************)
LEMMA SequencedDieTogether ==
  ASSUME NEW s \in Seq(Message), Sequenced(s)
  PROVE  DieTogether(s)
<1> DEFINE Odd == {i \in DOMAIN s : Deathtime(s[i]) # Deathtime(s[1])}
           i0 == Min(Odd)
<1>1. Len(s) \in Nat /\ DOMAIN s = 1 .. Len(s)
  OBVIOUS
<1>2. Odd = {}
  <2> SUFFICES ASSUME Odd # {}
               PROVE  FALSE
    OBVIOUS
  <2>1. IsFiniteSet(1 .. Len(s))
    BY <1>1, FS_Interval
  <2>2. IsFiniteSet(Odd) /\ Odd \in SUBSET Int
    BY <1>1, <2>1, FS_Subset
  <2>3. i0 \in Odd /\ \A i \in Odd : i0 <= i
    BY <2>2, LeastElement, Zenon
  <2> HIDE DEF i0
  <2>4. i0 \in DOMAIN s /\ Deathtime(s[i0]) # Deathtime(s[1])
    BY <2>3
  <2>5. i0 - 1 \in 1 .. Len(s) - 1 /\ (i0 - 1) + 1 = i0
    BY <1>1, <2>4
  <2>6. i0 - 1 \notin Odd
    BY <1>1, <2>3, <2>5
  <2>7. Deathtime(s[i0 - 1]) = Deathtime(s[1])
    BY <1>1, <2>5, <2>6
  <2>8. Deathtime(s[i0 - 1]) = Deathtime(s[(i0 - 1) + 1])
    BY <2>5, Zenon DEF Sequenced
  <2> QED
    BY <2>4, <2>5, <2>7, <2>8
<1>3. \A i \in DOMAIN s : Deathtime(s[i]) = Deathtime(s[1])
  BY <1>2
<1> QED
  BY <1>3, Zenon DEF DieTogether

(***************************************************************************)
(* remove_death keeps the queue sound and, because the flag was sound,     *)
(* leaves exactly the live messages.                                       *)
(***************************************************************************)
LEMMA RemoveDeathSound ==
  ASSUME NEW x, SoundQueue(x), NEW t \in Int
  PROVE  /\ SoundQueue(RemoveDeath(x, t))
         /\ RemoveDeath(x, t).lastRemoveDeath = x.lastRemoveDeath
         /\ ToSet(RemoveDeath(x, t).msgs) = {v \in ToSet(x.msgs) : ~ Dead(v, t)}
<1> DEFINE s     == x.msgs
           A     == {i \in DOMAIN s : \E j \in Live(s, t) : j <= i}
           front == Keep(s, A)
           sweep == ~ x.sequenced /\ front # <<>>
           swept == Keep(front, Live(front, t))
           rest  == IF sweep THEN swept ELSE front
           total == x.removed + (Len(s) - Len(rest))
           flag  == IF sweep /\ Len(rest) # Len(s) THEN Sequenced(rest) ELSE x.sequenced
           y     == RemoveDeath(x, t)
<1>1. x \in QueueType /\ s \in Seq(Message) /\ x.removed \in Nat /\ x.sequenced \in BOOLEAN
  BY QueueFields DEF SoundQueue
<1>2. y = [x EXCEPT !.msgs = rest, !.removed = total, !.sequenced = flag]
  BY Zenon DEF RemoveDeath
<1>3. A \in SUBSET DOMAIN s /\ Live(s, t) \subseteq A
  <2>1. \A i \in DOMAIN s : i <= i
    BY <1>1, SequenceFields
  <2> QED
    BY <2>1 DEF Live
<1>4. front \in Seq(Message) /\ ToSet(front) = {s[i] : i \in A} /\ Len(s) - Len(front) \in Nat
  BY <1>1, <1>3, KeepSound, ShorterKeep
<1>5. Live(front, t) \in SUBSET DOMAIN front
  BY DEF Live
<1>6. /\ swept \in Seq(Message)
      /\ ToSet(swept) = {front[i] : i \in Live(front, t)}
      /\ Len(front) - Len(swept) \in Nat
  BY <1>4, <1>5, KeepSound, ShorterKeep
<1>7. rest \in Seq(Message) /\ total \in Nat
  <2> HIDE DEF front, swept, s
  <2>1. Len(s) \in Nat /\ Len(front) \in Nat /\ Len(swept) \in Nat
    BY <1>1, <1>4, <1>6
  <2> QED
    BY <1>1, <1>4, <1>6, <2>1
<1>8. flag \in BOOLEAN
  BY <1>1, Zenon DEF Sequenced
<1>9. /\ y \in QueueType
      /\ y.msgs = rest
      /\ y.sequenced = flag
      /\ y.lastRemoveDeath = x.lastRemoveDeath
  <2> HIDE DEF rest, total, flag, y
  <2> QED
    BY <1>1, <1>2, <1>7, <1>8 DEF QueueType
<1>10. ASSUME ~ sweep
       PROVE  \A i \in A : ~ Dead(s[i], t)
  <2>1. CASE x.sequenced
    <3>1. DieTogether(s)
      BY <2>1 DEF SoundQueue
    <3>2. \A i \in A : \E j \in DOMAIN s : ~ Dead(s[j], t) /\ Deathtime(s[i]) = Deathtime(s[j])
      BY <1>3, <3>1, Zenon DEF Live, DieTogether
    <3> QED
      BY <3>2 DEF Dead
  <2>2. CASE front = <<>>
    <3>1. IsFiniteSet(A) /\ Cardinality(A) = 0
      BY <1>1, <1>3, <2>2, KeepEnumerates
    <3>2. A = {}
      BY <3>1, FS_EmptySet
    <3> QED
      BY <3>2
  <2> QED
    BY <1>10, <2>1, <2>2
<1>11. ToSet(rest) = {v \in ToSet(s) : ~ Dead(v, t)}
  <2> HIDE DEF A, front, sweep, swept
  <2>1. {v \in ToSet(s) : ~ Dead(v, t)} = {s[i] : i \in Live(s, t)}
    BY DEF ToSet, Live
  <2>2. CASE ~ sweep
    <3>1. A = Live(s, t)
      BY <1>3, <1>10, <2>2 DEF Live
    <3> QED
      BY <1>4, <2>1, <2>2, <3>1
  <2>3. CASE sweep
    <3>1. ToSet(swept) = {v \in ToSet(front) : ~ Dead(v, t)}
      BY <1>6 DEF ToSet, Live
    <3>2. {v \in {s[i] : i \in A} : ~ Dead(v, t)} = {s[i] : i \in Live(s, t)}
      BY <1>3 DEF Live
    <3> QED
      BY <1>4, <2>1, <2>3, <3>1, <3>2
  <2> QED
    BY <2>2, <2>3
<1>12. Ordered(rest)
  <2>1. Ordered(s)
    BY DEF SoundQueue
  <2>2. Ordered(front)
    BY <1>1, <1>3, <2>1, KeepSound
  <2>3. Ordered(swept)
    BY <1>4, <1>5, <2>2, KeepSound
  <2> HIDE DEF front, sweep, swept, s
  <2> QED
    BY <2>2, <2>3
<1>13. flag => DieTogether(rest)
  <2>1. CASE x.sequenced
    <3>1. rest = front
      BY <2>1, Zenon
    <3> QED
      BY <1>1, <1>3, <2>1, <3>1, KeepSound DEF SoundQueue
  <2>2. CASE ~ x.sequenced
    <3>1. flag => Sequenced(rest)
      BY <2>2, Zenon
    <3> QED
      BY <1>7, <3>1, SequencedDieTogether
  <2> QED
    BY <2>1, <2>2
<1> HIDE DEF rest, flag
<1> QED
  BY <1>9, <1>11, <1>12, <1>13 DEF SoundQueue

-----------------------------------------------------------------------------
(***************************************************************************)
(* The actions a message m may have.                                       *)
(***************************************************************************)
LEMMA PublishSound ==
  ASSUME NEW x, SoundQueue(x), NEW t \in Int, NEW m \in Message, NewerThan(m, x.msgs)
  PROVE  PushedInto(x, Publish_(x, t, m), m)
<1> DEFINE s    == x.msgs
           p    == UpperBound(s, m.cursor)
           new  == Born(m, t)
           r    == InsertAt(s, p, new)
           flag == /\ x.sequenced
                   /\ p > 1 => /\ Deathtime(r[p-1]) = Deathtime(r[p])
                               /\ r[p-1].birthtime <= t
                   /\ p < Len(r) => /\ Deathtime(r[p+1]) = Deathtime(r[p])
                                    /\ r[p+1].birthtime >= t
           y    == Publish_(x, t, m)
<1>1. x \in QueueType /\ s \in Seq(Message) /\ x.sequenced \in BOOLEAN /\ Ordered(s)
  BY QueueFields DEF SoundQueue
<1>2. /\ new \in Message
      /\ new.cursor = m.cursor
      /\ new.arrival = m.arrival
      /\ new.content = m.content
      /\ m.arrival \in Nat
      /\ m.cursor \in Int
  <2>1. /\ Born(m, t) \in Message
        /\ Born(m, t).cursor = m.cursor
        /\ Born(m, t).arrival = m.arrival
        /\ Born(m, t).content = m.content
    BY BornFields, Zenon
  <2> QED
    BY <2>1, MessageFields
<1>3. /\ p \in 1 .. Len(s) + 1
      /\ \A i \in DOMAIN s : i < p => s[i].cursor <= m.cursor
      /\ p <= Len(s) => m.cursor < s[p].cursor
  BY <1>1, <1>2, UpperBoundIsBound
<1>4. Len(s) \in Nat /\ DOMAIN s = 1 .. Len(s)
  BY <1>1, SequenceFields
<1>5. y = [x EXCEPT !.msgs = r, !.sequenced = flag]
  BY Zenon DEF Publish_
<1> HIDE DEF new, p
<1>6. /\ r \in Seq(Message)
      /\ Len(r) = Len(s) + 1
      /\ \A i \in 1 .. Len(s) + 1 :
           r[i] = IF i < p THEN s[i] ELSE IF i = p THEN new ELSE s[i-1]
  <2> HIDE DEF s
  <2> QED
    BY <1>1, <1>2, <1>3, InsertAtElements
<1> HIDE DEF r
<1>7. flag \in BOOLEAN
  BY Zenon, <1>1
<1>8. /\ y \in QueueType
      /\ y.msgs = r
      /\ y.sequenced = flag
      /\ y.lastRemoveDeath = x.lastRemoveDeath
  <2> HIDE DEF flag, y
  <2> QED
    BY <1>1, <1>5, <1>6, <1>7 DEF QueueType
<1>9. /\ DOMAIN r = 1 .. Len(s) + 1
      /\ r[p] = new
      /\ \A i \in DOMAIN r : i < p => i \in DOMAIN s /\ r[i] = s[i]
      /\ \A i \in DOMAIN r : i > p => i - 1 \in DOMAIN s /\ r[i] = s[i - 1] /\ p <= i - 1
  <2>1. DOMAIN r = 1 .. Len(s) + 1
    BY <1>6
  <2>2. r[p] = new
    BY <1>3, <1>4, <1>6
  <2>3. ASSUME NEW i \in DOMAIN r, i < p
        PROVE  i \in DOMAIN s /\ r[i] = s[i]
    BY <1>3, <1>4, <1>6, <2>1, <2>3
  <2>4. ASSUME NEW i \in DOMAIN r, i > p
        PROVE  i - 1 \in DOMAIN s /\ r[i] = s[i - 1] /\ p <= i - 1
    BY <1>3, <1>4, <1>6, <2>1, <2>4
  <2> QED
    BY <2>1, <2>2, <2>3, <2>4
<1>10. Ordered(r)
  <2> SUFFICES ASSUME NEW i \in DOMAIN r, NEW j \in DOMAIN r, i < j
               PROVE  \/ r[i].cursor < r[j].cursor
                      \/ r[i].cursor = r[j].cursor /\ r[i].arrival < r[j].arrival
    BY Zenon DEF Ordered
  <2>1. p \in Int /\ i \in Int /\ j \in Int
    BY <1>3, <1>4, <1>9
  <2>2. \A k \in DOMAIN s : /\ s[k].cursor \in Int
                            /\ s[k].arrival \in Int
                            /\ s[k].cursor = m.cursor => s[k].arrival < m.arrival
    <3>1. \A k \in DOMAIN s : s[k] \in ToSet(s)
      BY DEF ToSet
    <3>2. \A k \in DOMAIN s : s[k].cursor = m.cursor => s[k].arrival < m.arrival
      BY <3>1, Zenon DEF NewerThan
    <3>3. \A k \in DOMAIN s : s[k].cursor \in Int /\ s[k].arrival \in Nat
      BY <1>1, SequenceFields, Zenon
    <3> HIDE DEF s
    <3> QED
      BY <3>2, <3>3
  <2>3. \A k, l \in DOMAIN s : k < l =>
          \/ s[k].cursor < s[l].cursor
          \/ s[k].cursor = s[l].cursor /\ s[k].arrival < s[l].arrival
    BY <1>1, Zenon DEF Ordered
  <2>4. CASE j < p
    <3>1. i < p
      BY <2>1, <2>4
    <3>2. i \in DOMAIN s /\ j \in DOMAIN s /\ r[i] = s[i] /\ r[j] = s[j]
      BY <1>9, <2>4, <3>1
    <3> QED
      BY <2>3, <3>2
  <2>5. CASE j = p
    <3>1. i \in DOMAIN s /\ r[i] = s[i] /\ s[i].cursor <= m.cursor /\ r[j] = new
      BY <1>3, <1>9, <2>5
    <3> QED
      BY <1>2, <2>2, <3>1
  <2>6. CASE j > p /\ i > p
    <3>1. /\ i - 1 \in DOMAIN s /\ r[i] = s[i - 1]
          /\ j - 1 \in DOMAIN s /\ r[j] = s[j - 1]
          /\ i - 1 < j - 1
      BY <1>9, <2>1, <2>6
    <3> QED
      BY <2>3, <3>1
  <2>7. CASE j > p /\ i <= p
    <3>1. j - 1 \in DOMAIN s /\ r[j] = s[j - 1] /\ p <= j - 1 /\ j - 1 \in Int
      BY <1>9, <2>1, <2>7
    <3>2. p \in DOMAIN s /\ m.cursor < s[p].cursor
      BY <1>3, <1>4, <3>1
    <3>3. m.cursor < r[j].cursor
      BY <1>2, <2>1, <2>2, <2>3, <3>1, <3>2
    <3>4. r[i].cursor <= m.cursor /\ r[i].cursor \in Int
      BY <1>2, <1>3, <1>9, <2>1, <2>2, <2>7
    <3> QED
      BY <1>2, <2>2, <3>1, <3>3, <3>4
  <2> QED
    BY <2>1, <2>4, <2>5, <2>6, <2>7
<1>11. ASSUME flag
       PROVE  DieTogether(r)
  <2>1. \A i, j \in DOMAIN s : Deathtime(s[i]) = Deathtime(s[j])
    BY <1>11, Zenon DEF SoundQueue, DieTogether
  <2>2. \A i \in DOMAIN s : Deathtime(s[i]) = Deathtime(new)
    <3>1. CASE p > 1
      <4>1. p - 1 \in DOMAIN r /\ p - 1 < p
        BY <1>3, <1>4, <1>9, <3>1
      <4>2. p - 1 \in DOMAIN s /\ r[p-1] = s[p-1]
        BY <1>9, <4>1
      <4>3. Deathtime(s[p-1]) = Deathtime(new)
        BY <1>9, <1>11, <3>1, <4>2
      <4> QED
        BY <2>1, <4>2, <4>3
    <3>2. CASE p < Len(r)
      <4>1. p + 1 \in DOMAIN r /\ p + 1 > p
        BY <1>3, <1>4, <1>6, <1>9, <3>2
      <4>2. (p + 1) - 1 \in DOMAIN s /\ r[p+1] = s[(p + 1) - 1]
        BY <1>9, <4>1
      <4>3. Deathtime(s[(p + 1) - 1]) = Deathtime(new)
        BY <1>9, <1>11, <3>2, <4>2
      <4> QED
        BY <2>1, <4>2, <4>3
    <3>3. CASE p = 1 /\ p = Len(r)
      BY <1>4, <1>6, <3>3
    <3> QED
      BY <1>3, <1>4, <1>6, <3>1, <3>2, <3>3
  <2>3. \A i \in DOMAIN r : r[i] = new \/ \E j \in DOMAIN s : r[i] = s[j]
    <3>1. \A i \in DOMAIN r : i < p \/ i = p \/ i > p
      BY <1>3, <1>4, <1>9
    <3> QED
      BY <1>9, <3>1
  <2> QED
    BY <2>2, <2>3, Zenon DEF DieTogether
<1>12. \A i \in DOMAIN r : r[i] = new \/ \E j \in DOMAIN s : r[i] = s[j]
  <2>1. \A i \in DOMAIN r : i < p \/ i = p \/ i > p
    BY <1>3, <1>4, <1>9
  <2> QED
    BY <1>9, <2>1
<1>13. \A v \in ToSet(r) : v \in ToSet(s) \/ (v.content = m.content /\ StandsFor(v, s, m))
  <2>1. new.content = m.content /\ StandsFor(new, s, m)
    BY <1>2 DEF StandsFor
  <2> QED
    BY <1>12, <2>1 DEF ToSet
<1> HIDE DEF flag, y
<1> QED
  BY <1>8, <1>10, <1>11, <1>13, Zenon DEF PushedInto, SoundQueue, y

\* Messages rewritten in place keep the deque in order.
LEMMA RewrittenSound ==
  ASSUME NEW s \in Seq(Message), Ordered(s), NEW m, NEW r \in [DOMAIN s -> Message],
         \A i \in DOMAIN s : /\ r[i].cursor = s[i].cursor
                             /\ r[i].arrival = s[i].arrival
                             /\ r[i] = s[i] \/ r[i].content = m.content
  PROVE  /\ r \in Seq(Message)
         /\ DOMAIN r = DOMAIN s
         /\ Ordered(r)
         /\ \A v \in ToSet(r) :
              v \in ToSet(s) \/ (v.content = m.content /\ StandsFor(v, s, m))
<1>1. Len(s) \in Nat /\ DOMAIN s = 1 .. Len(s) /\ \A i \in DOMAIN s : s[i] \in Message
  BY SequenceFields
<1>2. /\ DOMAIN r = DOMAIN s
      /\ \A i \in DOMAIN s : /\ r[i] \in Message
                             /\ r[i].cursor = s[i].cursor
                             /\ r[i].arrival = s[i].arrival
                             /\ r[i] = s[i] \/ r[i].content = m.content
  OBVIOUS
<1>3. r \in Seq(Message)
  BY <1>1, <1>2
<1>4. Ordered(r)
  <2> SUFFICES ASSUME NEW i \in DOMAIN r, NEW j \in DOMAIN r, i < j
               PROVE  \/ r[i].cursor < r[j].cursor
                      \/ r[i].cursor = r[j].cursor /\ r[i].arrival < r[j].arrival
    BY Zenon DEF Ordered
  <2>1. \/ s[i].cursor < s[j].cursor
        \/ s[i].cursor = s[j].cursor /\ s[i].arrival < s[j].arrival
    BY <1>2, Zenon DEF Ordered
  <2> QED
    BY <1>2, <2>1
<1>5. ASSUME NEW i \in DOMAIN s
      PROVE  r[i] \in ToSet(s) \/ (r[i].content = m.content /\ StandsFor(r[i], s, m))
  <2>1. s[i] \in ToSet(s)
    BY DEF ToSet
  <2> QED
    BY <1>2, <2>1 DEF StandsFor
<1> QED
  BY <1>2, <1>3, <1>4, <1>5 DEF ToSet

LEMMA PublishIfLastingSound ==
  ASSUME NEW x, SoundQueue(x), NEW t \in Int, NEW m \in Message, NewerThan(m, x.msgs)
  PROVE  PushedInto(x, PublishIfLasting(x, t, m), m)
<1>1. CASE m.lifetime # 0
  BY <1>1, PublishSound DEF PublishIfLasting
<1>2. CASE m.lifetime = 0
  <2>1. PublishIfLasting(x, t, m) = x
    BY <1>2 DEF PublishIfLasting
  <2> QED
    BY <2>1 DEF PushedInto
<1> QED
  BY <1>1, <1>2

LEMMA UpdateSound ==
  ASSUME NEW x, SoundQueue(x), NEW t \in Int, NEW m \in Message, NewerThan(m, x.msgs)
  PROVE  PushedInto(x, Update_(x, t, m), m)
<1> DEFINE s == x.msgs
           I == Matching(s, m)
           g == [i \in I |-> Updated(s[i], m)]
           r == [i \in DOMAIN s |-> IF i \in I THEN g[i] ELSE s[i]]
           y == [x EXCEPT !.msgs = r, !.sequenced = FALSE]
<1>1. CASE I = {}
  BY <1>1, PublishIfLastingSound DEF Update_
<1>2. CASE I # {}
  <2>1. x \in QueueType /\ s \in Seq(Message) /\ Ordered(s)
    BY QueueFields DEF SoundQueue
  <2>2. I \in SUBSET DOMAIN s
    BY DEF Matching
  <2>3. \A i \in DOMAIN s : s[i] \in Message
    BY <2>1, SequenceFields
  <2>4. \A i \in I : /\ g[i] \in Message
                     /\ g[i].cursor = s[i].cursor
                     /\ g[i].arrival = s[i].arrival
                     /\ g[i].content = m.content
    BY <2>2, <2>3, UpdatedFields
  <2>5. Update_(x, t, m) = y
    BY <1>2 DEF Update_, UpdateEqual
  <2> HIDE DEF I, g
  <2>6. /\ r \in Seq(Message)
        /\ Ordered(r)
        /\ \A v \in ToSet(r) :
             v \in ToSet(s) \/ (v.content = m.content /\ StandsFor(v, s, m))
    <3>1. /\ r \in [DOMAIN s -> Message]
          /\ \A i \in DOMAIN s : /\ r[i].cursor = s[i].cursor
                                 /\ r[i].arrival = s[i].arrival
                                 /\ r[i] = s[i] \/ r[i].content = m.content
      BY <2>3, <2>4
    <3> HIDE DEF r, s
    <3> QED
      BY <2>1, <3>1, RewrittenSound
  <2> HIDE DEF r
  <2>7. /\ y \in QueueType
        /\ y.msgs = r
        /\ y.sequenced = FALSE
        /\ y.lastRemoveDeath = x.lastRemoveDeath
    BY <2>1, <2>6 DEF QueueType
  <2> HIDE DEF y
  <2> QED
    BY <2>5, <2>6, <2>7, Zenon DEF PushedInto, SoundQueue
<1> QED
  BY <1>1, <1>2

LEMMA ModifySound ==
  ASSUME NEW x, SoundQueue(x), NEW t \in Int, NEW m \in Message, NewerThan(m, x.msgs)
  PROVE  PushedInto(x, Modify_(x, t, m), m)
<1> DEFINE s == x.msgs
           I == Matching(s, m)
           g == [i \in I |-> Modified(s[i], m)]
           r == [i \in DOMAIN s |-> IF i \in I THEN g[i] ELSE s[i]]
           flag == x.sequenced /\ \A i \in I : s[i].limit = m.limit
           y == [x EXCEPT !.msgs = r, !.sequenced = flag]
<1>1. CASE I = {}
  BY <1>1, PublishIfLastingSound DEF Modify_
<1>2. CASE I # {}
  <2>1. x \in QueueType /\ s \in Seq(Message) /\ Ordered(s) /\ x.sequenced \in BOOLEAN
    BY QueueFields DEF SoundQueue
  <2>2. I \in SUBSET DOMAIN s
    BY DEF Matching
  <2>3. \A i \in DOMAIN s : s[i] \in Message
    BY <2>1, SequenceFields
  <2>4. \A i \in I : /\ g[i] \in Message
                     /\ g[i].cursor = s[i].cursor
                     /\ g[i].arrival = s[i].arrival
                     /\ g[i].content = m.content
                     /\ Deathtime(g[i]) = Deathtime(s[i])
    BY <2>2, <2>3, ModifiedFields
  <2>5. Modify_(x, t, m) = y
    BY <1>2 DEF Modify_, ModifyEqual
  <2> HIDE DEF I, g
  <2>6. /\ r \in Seq(Message)
        /\ DOMAIN r = DOMAIN s
        /\ Ordered(r)
        /\ \A v \in ToSet(r) :
             v \in ToSet(s) \/ (v.content = m.content /\ StandsFor(v, s, m))
    <3>1. /\ r \in [DOMAIN s -> Message]
          /\ \A i \in DOMAIN s : /\ r[i].cursor = s[i].cursor
                                 /\ r[i].arrival = s[i].arrival
                                 /\ r[i] = s[i] \/ r[i].content = m.content
      BY <2>3, <2>4
    <3> HIDE DEF r, s
    <3> QED
      BY <2>1, <3>1, RewrittenSound
  <2>7. flag => DieTogether(r)
    <3>1. \A i \in DOMAIN s : Deathtime(r[i]) = Deathtime(s[i])
      BY <2>4
    <3> HIDE DEF r
    <3> QED
      BY <2>6, <3>1, Zenon DEF SoundQueue, DieTogether
  <2>8. flag \in BOOLEAN
    OBVIOUS
  <2> HIDE DEF r, flag
  <2>9. /\ y \in QueueType
         /\ y.msgs = r
         /\ y.sequenced = flag
         /\ y.lastRemoveDeath = x.lastRemoveDeath
    BY <2>1, <2>6, <2>8 DEF QueueType
  <2> HIDE DEF y
  <2> QED
    BY <2>5, <2>6, <2>7, <2>9, Zenon DEF PushedInto, SoundQueue
<1> QED
  BY <1>1, <1>2

LEMMA EraseThenPushed ==
  ASSUME NEW x, SoundQueue(x), NEW m, NEW y, PushedInto(Erase(x, m), y, m)
  PROVE  PushedInto(x, y, m)
<1>1. /\ Erase(x, m).lastRemoveDeath = x.lastRemoveDeath
      /\ ToSet(Erase(x, m).msgs) \subseteq ToSet(x.msgs)
  BY EraseSound
<1> QED
  BY <1>1 DEF PushedInto, StandsFor

LEMMA ApplySound ==
  ASSUME NEW x, SoundQueue(x), NEW t \in Int, NEW m \in Message, NewerThan(m, x.msgs)
  PROVE  PushedInto(x, Apply(x, t, m), m)
<1> DEFINE e == Erase(x, m)
<1>1. SoundQueue(e) /\ NewerThan(m, e.msgs)
  BY EraseSound DEF NewerThan
<1>2. CASE m.action = "publish"
  BY <1>2, PublishSound DEF Apply
<1>3. CASE m.action = "modify"
  BY <1>3, ModifySound DEF Apply
<1>4. CASE m.action = "update"
  BY <1>4, UpdateSound DEF Apply
<1>5. CASE m.action = "replace"
  <2>1. PushedInto(e, Publish_(e, t, m), m)
    BY <1>1, PublishSound
  <2>2. PushedInto(x, Replace_(x, t, m), m)
    BY <2>1, EraseThenPushed DEF Replace_
  <2> QED
    BY <1>5, <2>2 DEF Apply
<1>6. CASE m.action = "remove"
  <2>1. PushedInto(e, PublishIfLasting(e, t, m), m)
    BY <1>1, PublishIfLastingSound
  <2>2. PushedInto(x, Remove_(x, t, m), m)
    BY <2>1, EraseThenPushed DEF Remove_
  <2> QED
    BY <1>6, <2>2 DEF Apply
<1>7. m.action \in Actions
  BY DEF Message
<1> QED
  BY <1>2, <1>3, <1>4, <1>5, <1>6, <1>7 DEF Actions

LEMMA SweepOnceSound ==
  ASSUME NEW x, SoundQueue(x), NEW t \in Int
  PROVE  /\ SoundQueue(SweepOnce(x, t))
         /\ SweepOnce(x, t).lastRemoveDeath = t
         /\ ToSet(SweepOnce(x, t).msgs) \subseteq ToSet(x.msgs)
         /\ x.lastRemoveDeath # t =>
              ToSet(SweepOnce(x, t).msgs) = {v \in ToSet(x.msgs) : ~ Dead(v, t)}
         /\ x.lastRemoveDeath = t => SweepOnce(x, t) = x
<1>1. CASE x.lastRemoveDeath = t
  BY <1>1 DEF SweepOnce
<1>2. CASE x.lastRemoveDeath # t
  <2> DEFINE r == RemoveDeath(x, t)
             y == [r EXCEPT !.lastRemoveDeath = t]
  <2>1. /\ SoundQueue(r)
        /\ ToSet(r.msgs) = {v \in ToSet(x.msgs) : ~ Dead(v, t)}
    BY RemoveDeathSound
  <2>2. SweepOnce(x, t) = y
    BY <1>2 DEF SweepOnce
  <2> HIDE DEF r
  <2>3. y \in QueueType /\ y.msgs = r.msgs /\ y.sequenced = r.sequenced /\ y.lastRemoveDeath = t
    BY <2>1 DEF QueueType, SoundQueue
  <2> HIDE DEF y
  <2>4. SoundQueue(y)
    BY <2>1, <2>3 DEF SoundQueue
  <2> QED
    BY <1>2, <2>1, <2>2, <2>3, <2>4
<1> QED
  BY <1>1, <1>2

\* A push: what it leaves is sound, and what it did not write was there when it had looked
\* for dead messages.
LEMMA PushSound ==
  ASSUME NEW x, SoundQueue(x), NEW t \in Int, NEW m \in Message, NewerThan(m, x.msgs)
  PROVE  /\ SoundQueue(Push(x, t, m))
         /\ Push(x, t, m).lastRemoveDeath = t
         /\ \A v \in ToSet(Push(x, t, m).msgs) :
              \/ v \in ToSet(SweepOnce(x, t).msgs)
              \/ v.content = m.content /\ StandsFor(v, x.msgs, m)
<1> DEFINE w == SweepOnce(x, t)
           y == Apply(w, t, m)
<1>1. SoundQueue(w) /\ w.lastRemoveDeath = t /\ ToSet(w.msgs) \subseteq ToSet(x.msgs)
  BY SweepOnceSound
<1>2. m.limit \in Nat
  BY MessageFields
<1>3. NewerThan(m, w.msgs)
  BY <1>1 DEF NewerThan
<1>4. PushedInto(w, y, m)
  BY <1>1, <1>3, ApplySound
<1>5. /\ SoundQueue(y)
      /\ y.lastRemoveDeath = t
      /\ \A v \in ToSet(y.msgs) :
           v \in ToSet(w.msgs) \/ (v.content = m.content /\ StandsFor(v, x.msgs, m))
  BY <1>1, <1>4 DEF PushedInto, StandsFor
<1> HIDE DEF w, y
<1>6. CASE HandedBack(m) /\ m.limit = 0
  <2>1. Push(x, t, m) = Resize(w, 0)
    BY <1>6 DEF Push, w
  <2>2. /\ SoundQueue(Resize(w, 0))
        /\ Resize(w, 0).lastRemoveDeath = t
        /\ ToSet(Resize(w, 0).msgs) \subseteq ToSet(w.msgs)
    BY <1>1, ResizeSound
  <2> QED
    BY <2>1, <2>2 DEF w
<1>7. CASE HandedBack(m) /\ m.limit # 0
  <2>1. Push(x, t, m) = w
    BY <1>7 DEF Push, w
  <2> QED
    BY <1>1, <2>1 DEF w
<1>8. CASE ~ HandedBack(m)
  <2>1. Push(x, t, m) = Resize(y, m.limit)
    BY <1>8 DEF Push, w, y
  <2>2. /\ SoundQueue(Resize(y, m.limit))
        /\ Resize(y, m.limit).lastRemoveDeath = t
        /\ ToSet(Resize(y, m.limit).msgs) \subseteq ToSet(y.msgs)
    BY <1>2, <1>5, ResizeSound
  <2> QED
    BY <1>5, <2>1, <2>2 DEF w
<1> QED
  BY <1>6, <1>7, <1>8

-----------------------------------------------------------------------------
(***************************************************************************)
(* The deque of an ordered queue enumerates the set of its messages from   *)
(* the first to the last.                                                  *)
(***************************************************************************)
LEMMA PositionIsOrder ==
  ASSUME NEW s \in Seq(Message), Ordered(s), NEW i \in DOMAIN s, NEW j \in DOMAIN s
  PROVE  Before(s[i], s[j]) <=> i < j
<1>1. i \in Int /\ j \in Int
  BY SequenceFields
<1>2. /\ s[i].cursor \in Int /\ s[i].arrival \in Int
      /\ s[j].cursor \in Int /\ s[j].arrival \in Int
  BY SequenceFields
<1>3. CASE i < j
  BY <1>3 DEF Ordered, Before
<1>4. CASE i = j
  BY <1>2, <1>4 DEF Before
<1>5. CASE j < i
  <2>1. \/ s[j].cursor < s[i].cursor
        \/ s[j].cursor = s[i].cursor /\ s[j].arrival < s[i].arrival
    BY <1>5 DEF Ordered
  <2> QED
    BY <1>1, <1>2, <1>5, <2>1 DEF Before
<1> QED
  BY <1>1, <1>3, <1>4, <1>5

\* The positions of an interval hold as many messages as there are positions.
LEMMA IntervalSize ==
  ASSUME NEW s \in Seq(Message), Ordered(s), NEW I \in SUBSET DOMAIN s
  PROVE  /\ IsFiniteSet({s[k] : k \in I})
         /\ Cardinality({s[k] : k \in I}) = Cardinality(I)
<1> DEFINE T == {s[k] : k \in I}
           f == [k \in I |-> s[k]]
<1>1. IsFiniteSet(I)
  BY KeepEnumerates
<1>2. ASSUME NEW j \in I, NEW k \in I, s[j] = s[k]
      PROVE  j = k
  <2>1. ~ Before(s[j], s[k]) /\ ~ Before(s[k], s[j])
    <3>1. ~ (j < j)
      BY SequenceFields
    <3>2. ~ Before(s[j], s[j])
      BY <3>1, PositionIsOrder
    <3> QED
      BY <1>2, <3>2
  <2>2. ~ (j < k) /\ ~ (k < j)
    BY <2>1, PositionIsOrder
  <2> QED
    BY <2>2, SequenceFields
<1>3. f \in Bijection(I, T)
  <2>1. f \in [I -> T]
    OBVIOUS
  <2>2. \A j, k \in I : f[j] = f[k] => j = k
    BY <1>2
  <2>3. \A y \in T : \E k \in I : f[k] = y
    OBVIOUS
  <2> HIDE DEF f, T
  <2> QED
    BY <2>1, <2>2, <2>3 DEF Bijection, Injection, IsInjective, Surjection
<1> QED
  BY <1>1, <1>3, FS_Bijection DEF ExistsBijection

LEMMA LaterSize ==
  ASSUME NEW s \in Seq(Message), Ordered(s), NEW i \in DOMAIN s
  PROVE  Cardinality({y \in ToSet(s) : Before(s[i], y)}) = Len(s) - i
<1> DEFINE I == i + 1 .. Len(s)
<1>1. Len(s) \in Nat /\ DOMAIN s = 1 .. Len(s)
  BY SequenceFields
<1>2. I \in SUBSET DOMAIN s /\ \A k \in DOMAIN s : k \in I <=> i < k
  BY <1>1
<1>3. {y \in ToSet(s) : Before(s[i], y)} = {s[k] : k \in I}
  <2> HIDE DEF I
  <2>1. \A k \in DOMAIN s : Before(s[i], s[k]) <=> k \in I
    BY <1>2, PositionIsOrder
  <2> QED
    BY <1>2, <2>1, Zenon DEF ToSet
<1>4. Cardinality(I) = Len(s) - i
  <2>1. i + 1 \in Int /\ i \in Int /\ Len(s) \in Int /\ i <= Len(s)
    BY <1>1
  <2>2. Cardinality(I) = IF i + 1 > Len(s) THEN 0 ELSE Len(s) - (i + 1) + 1
    BY <2>1, FS_Interval
  <2>3. \A a, b \in Int : a <= b => (IF a + 1 > b THEN 0 ELSE b - (a + 1) + 1) = b - a
    OBVIOUS
  <2> QED
    BY <2>1, <2>2, <2>3, Zenon
<1>5. Cardinality({s[k] : k \in I}) = Cardinality(I)
  BY <1>2, IntervalSize
<1> QED
  BY <1>3, <1>4, <1>5, Zenon

\* The deque holds as many messages as its set.
LEMMA HeldSize ==
  ASSUME NEW s \in Seq(Message), Ordered(s)
  PROVE  Cardinality(ToSet(s)) = Len(s)
<1>1. DOMAIN s = 1 .. Len(s) /\ Len(s) \in Nat
  BY SequenceFields
<1>2. Cardinality(DOMAIN s) = Len(s)
  <2>1. \A n \in Nat : Cardinality(1 .. n) = n
    BY FS_Interval
  <2> QED
    BY <1>1, <2>1, Zenon
<1>3. ToSet(s) = {s[k] : k \in DOMAIN s}
  BY Zenon DEF ToSet
<1>4. Cardinality({s[k] : k \in DOMAIN s}) = Cardinality(DOMAIN s)
  BY IntervalSize
<1> QED
  BY <1>2, <1>3, <1>4, Zenon

(***************************************************************************)
(* resize keeps the latest messages.                                       *)
(***************************************************************************)
LEMMA ResizeLatest ==
  ASSUME NEW x, SoundQueue(x), NEW n \in Nat
  PROVE  ToSet(Resize(x, n).msgs) = Latest(n, ToSet(x.msgs))
<1> DEFINE s == x.msgs
           I == {i \in DOMAIN s : i > Len(s) - n}
           kept == Keep(s, I)
           total == x.removed + (Len(s) - Len(kept))
           y == Resize(x, n)
<1>1. /\ x \in QueueType /\ SoundQueue(y) /\ s \in Seq(Message) /\ Ordered(s)
      /\ Len(s) \in Nat /\ DOMAIN s = 1 .. Len(s)
  BY TypeOfSound, ResizeSound
<1>2. y = [x EXCEPT !.msgs = kept, !.removed = total]
  BY Zenon DEF Resize
<1>3. y.msgs = kept
  <2> HIDE DEF kept, total, y
  <2> QED
    BY <1>1, <1>2 DEF QueueType
<1>4. ToSet(kept) = {s[i] : i \in I}
  <2>1. I \in SUBSET DOMAIN s
    OBVIOUS
  <2> HIDE DEF s, I
  <2> QED
    BY <1>1, <2>1, KeepSound
<1>5. ASSUME NEW i \in DOMAIN s
      PROVE  Cardinality({z \in ToSet(s) : Before(s[i], z)}) < n <=> i \in I
  <2>1. Cardinality({z \in ToSet(s) : Before(s[i], z)}) = Len(s) - i
    <3> HIDE DEF s
    <3> QED
      BY <1>1, LaterSize
  <2>2. Len(s) - i < n <=> i > Len(s) - n
    BY <1>1
  <2> QED
    BY <2>1, <2>2
<1>6. I \subseteq DOMAIN s
  OBVIOUS
<1> HIDE DEF s, I, kept, y
<1>7. {s[i] : i \in I} = Latest(n, ToSet(s))
  BY <1>5, <1>6, Zenon DEF Latest, ToSet
<1> QED
  BY <1>3, <1>4, <1>7, Zenon DEF s, y

(***************************************************************************)
(* What the action of a message does to the set of held messages.          *)
(***************************************************************************)
LEMMA PublishElements ==
  ASSUME NEW x, SoundQueue(x), NEW t \in Int, NEW m \in Message
  PROVE  ToSet(Publish_(x, t, m).msgs) = ToSet(x.msgs) \cup {Born(m, t)}
<1> DEFINE s    == x.msgs
           p    == UpperBound(s, m.cursor)
           new  == Born(m, t)
           r    == InsertAt(s, p, new)
           flag == /\ x.sequenced
                   /\ p > 1 => /\ Deathtime(r[p-1]) = Deathtime(r[p])
                               /\ r[p-1].birthtime <= t
                   /\ p < Len(r) => /\ Deathtime(r[p+1]) = Deathtime(r[p])
                                    /\ r[p+1].birthtime >= t
           y    == Publish_(x, t, m)
<1>1. x \in QueueType /\ s \in Seq(Message) /\ Len(s) \in Nat /\ DOMAIN s = 1 .. Len(s)
  BY TypeOfSound
<1>11. new \in Message
  BY BornFields
<1>2. p \in 1 .. Len(s) + 1
  BY <1>1, UpperBoundIsBound, MessageFields
<1>3. y = [x EXCEPT !.msgs = r, !.sequenced = flag]
  BY Zenon DEF Publish_
<1> HIDE DEF new, p
<1>4. /\ r \in Seq(Message)
      /\ Len(r) = Len(s) + 1
      /\ \A i \in 1 .. Len(s) + 1 :
           r[i] = IF i < p THEN s[i] ELSE IF i = p THEN new ELSE s[i-1]
  <2>1. s \in Seq(Message) /\ new \in Message /\ p \in 1 .. Len(s) + 1
    BY <1>1, <1>2, <1>11
  <2> HIDE DEF s, flag, y
  <2> QED
    BY <2>1, InsertAtElements
<1>5. y.msgs = r
  <2> HIDE DEF r, flag, y
  <2> QED
    BY <1>1, <1>3 DEF QueueType
<1> HIDE DEF r, s
<1>6. DOMAIN r = 1 .. Len(s) + 1
  BY <1>4
<1>7. ASSUME NEW k \in DOMAIN r
      PROVE  r[k] = new \/ \E i \in DOMAIN s : r[k] = s[i]
  <2>1. CASE k < p
    BY <1>1, <1>2, <1>4, <1>6, <2>1
  <2>2. CASE k = p
    BY <1>1, <1>2, <1>4, <1>6, <2>2
  <2>3. CASE k > p
    <3>1. k - 1 \in DOMAIN s /\ r[k] = s[k-1]
      BY <1>1, <1>2, <1>4, <1>6, <2>3
    <3> QED
      BY <3>1
  <2> QED
    BY <1>1, <1>2, <1>6, <2>1, <2>2, <2>3
<1>8. r[p] = new /\ p \in DOMAIN r
  BY <1>1, <1>2, <1>4, <1>6
<1>9. ASSUME NEW i \in DOMAIN s
      PROVE  \E k \in DOMAIN r : r[k] = s[i]
  <2>1. CASE i < p
    BY <1>1, <1>2, <1>4, <1>6, <2>1
  <2>2. CASE ~ (i < p)
    <3>1. i + 1 \in DOMAIN r /\ r[i + 1] = s[i]
      BY <1>1, <1>2, <1>4, <1>6, <2>2
    <3> QED
      BY <3>1
  <2> QED
    BY <2>1, <2>2
<1>10. ToSet(r) = ToSet(s) \cup {new}
  <2>1. \A v \in ToSet(r) : v \in ToSet(s) \cup {new}
    BY <1>7, Zenon DEF ToSet
  <2>2. \A v \in ToSet(s) : v \in ToSet(r)
    BY <1>9, Zenon DEF ToSet
  <2>3. new \in ToSet(r)
    BY <1>8, Zenon DEF ToSet
  <2> QED
    BY <2>1, <2>2, <2>3, Zenon
<1> QED
  BY <1>5, <1>10, Zenon DEF s, new, y

\* PublishIfLasting adds the message only if it has a lifetime.
LEMMA LastingElements ==
  ASSUME NEW x, SoundQueue(x), NEW t \in Int, NEW m \in Message
  PROVE  ToSet(PublishIfLasting(x, t, m).msgs) =
           ToSet(x.msgs) \cup (IF m.lifetime # 0 THEN {Born(m, t)} ELSE {})
<1>1. CASE m.lifetime # 0
  BY <1>1, PublishElements DEF PublishIfLasting
<1>2. CASE m.lifetime = 0
  BY <1>2, Zenon DEF PublishIfLasting
<1> QED
  BY <1>1, <1>2

LEMMA EraseElements ==
  ASSUME NEW x, SoundQueue(x), NEW m
  PROVE  ToSet(Erase(x, m).msgs) = Others(ToSet(x.msgs), m)
<1> DEFINE s == x.msgs
           I == DOMAIN s \ Matching(s, m)
           kept == Keep(s, I)
           y == Erase(x, m)
<1>1. x \in QueueType /\ s \in Seq(Message)
  BY TypeOfSound
<1>2. y = [x EXCEPT !.msgs = kept]
  BY Zenon DEF Erase
<1>3. y.msgs = kept
  <2> HIDE DEF kept, y
  <2> QED
    BY <1>1, <1>2 DEF QueueType
<1>4. ToSet(kept) = {s[i] : i \in I}
  <2>1. I \in SUBSET DOMAIN s
    OBVIOUS
  <2> HIDE DEF s, I
  <2> QED
    BY <1>1, <2>1, KeepSound
<1>5. \A i \in DOMAIN s : i \in I <=> s[i].identity # m.identity
  BY Zenon DEF Matching
<1>6. I \subseteq DOMAIN s
  OBVIOUS
<1> HIDE DEF s, I, kept, y
<1>7. {s[i] : i \in I} = Others(ToSet(s), m)
  BY <1>5, <1>6, Zenon DEF Others, ToSet
<1> QED
  BY <1>3, <1>4, <1>7, Zenon DEF s, y

\* The messages of the channel with the identity of m are those of the deque.
LEMMA MatchingElements ==
  ASSUME NEW s, NEW m
  PROVE  /\ Same(ToSet(s), m) = {s[i] : i \in Matching(s, m)}
         /\ Others(ToSet(s), m) = {s[i] : i \in DOMAIN s \ Matching(s, m)}
         /\ Same(ToSet(s), m) = {} <=> Matching(s, m) = {}
<1>1. \A i \in DOMAIN s : i \in Matching(s, m) <=> s[i].identity = m.identity
  BY Zenon DEF Matching
<1>2. Matching(s, m) \subseteq DOMAIN s
  BY Zenon DEF Matching
<1>3. Others(ToSet(s), m) = {s[i] : i \in DOMAIN s \ Matching(s, m)}
  BY <1>1, <1>2, Zenon DEF Others, ToSet
<1>4. Same(ToSet(s), m) = {v \in ToSet(s) : v.identity = m.identity}
  BY Zenon DEF Same, Others
<1>5. {v \in ToSet(s) : v.identity = m.identity} = {s[i] : i \in Matching(s, m)}
  BY <1>1, <1>2, Zenon DEF ToSet
<1>6. {s[i] : i \in Matching(s, m)} = {} <=> Matching(s, m) = {}
  BY Zenon
<1> QED
  BY <1>3, <1>4, <1>5, <1>6, Zenon

LEMMA UpdateElements ==
  ASSUME NEW x, SoundQueue(x), NEW t \in Int, NEW m \in Message
  PROVE  LET S == ToSet(x.msgs)
         IN  ToSet(Update_(x, t, m).msgs) =
               IF Same(S, m) = {}
               THEN S \cup (IF m.lifetime # 0 THEN {Born(m, t)} ELSE {})
               ELSE Others(S, m) \cup {Updated(v, m) : v \in Same(S, m)}
<1> DEFINE s == x.msgs
           I == Matching(s, m)
           r == UpdateEqual(s, m)
           S == ToSet(s)
           y == Update_(x, t, m)
<1>1. x \in QueueType
  BY TypeOfSound
<1>2. CASE I = {}
  <2>1. y = PublishIfLasting(x, t, m)
    BY <1>2 DEF Update_
  <2>2. Same(S, m) = {}
    BY <1>2, MatchingElements, Zenon
  <2> QED
    BY <2>1, <2>2, LastingElements
<1>3. CASE I # {}
  <2>1. y = [x EXCEPT !.msgs = r, !.sequenced = FALSE]
    BY <1>3, Zenon DEF Update_
  <2>2. y.msgs = r
    <3> HIDE DEF r, y
    <3> QED
      BY <1>1, <2>1 DEF QueueType
  <2>3. /\ DOMAIN r = DOMAIN s
        /\ \A i \in DOMAIN s \ I : r[i] = s[i]
        /\ \A i \in I : i \in DOMAIN s /\ r[i] = Updated(s[i], m)
    BY Zenon DEF UpdateEqual, Matching
  <2>4. /\ Same(S, m) = {s[i] : i \in I}
        /\ Others(S, m) = {s[i] : i \in DOMAIN s \ I}
        /\ Same(S, m) # {}
    BY <1>3, MatchingElements, Zenon
  <2> HIDE DEF r, I, s
  <2>5. ToSet(r) = {s[i] : i \in DOMAIN s \ I} \cup {Updated(v, m) : v \in {s[i] : i \in I}}
    <3>1. ToSet(r) = {r[i] : i \in DOMAIN s}
      BY <2>3, Zenon DEF ToSet
    <3>2. {r[i] : i \in DOMAIN s} \subseteq
            {s[i] : i \in DOMAIN s \ I} \cup {Updated(v, m) : v \in {s[i] : i \in I}}
      BY <2>3, Zenon
    <3>3. {s[i] : i \in DOMAIN s \ I} \subseteq {r[i] : i \in DOMAIN s}
      BY <2>3, Zenon
    <3>4. {Updated(v, m) : v \in {s[i] : i \in I}} \subseteq {r[i] : i \in DOMAIN s}
      BY <2>3, Zenon
    <3> QED
      BY <3>1, <3>2, <3>3, <3>4, Zenon
  <2> HIDE DEF S, y
  <2>6. ToSet(y.msgs) =
          Others(S, m) \cup {Updated(v, m) : v \in Same(S, m)}
    BY <2>2, <2>4, <2>5, Zenon
  <2> QED
    BY <2>4, <2>6, Zenon DEF S, s, y
<1> QED
  BY <1>2, <1>3

LEMMA ModifyElements ==
  ASSUME NEW x, SoundQueue(x), NEW t \in Int, NEW m \in Message
  PROVE  LET S == ToSet(x.msgs)
         IN  ToSet(Modify_(x, t, m).msgs) =
               IF Same(S, m) = {}
               THEN S \cup (IF m.lifetime # 0 THEN {Born(m, t)} ELSE {})
               ELSE Others(S, m) \cup {Modified(v, m) : v \in Same(S, m)}
<1> DEFINE s == x.msgs
           I == Matching(s, m)
           r == ModifyEqual(s, m)
           S == ToSet(s)
           flag == x.sequenced /\ \A i \in I : s[i].limit = m.limit
           y == Modify_(x, t, m)
<1>1. x \in QueueType
  BY TypeOfSound
<1>2. CASE I = {}
  <2>1. y = PublishIfLasting(x, t, m)
    BY <1>2 DEF Modify_
  <2>2. Same(S, m) = {}
    BY <1>2, MatchingElements, Zenon
  <2> QED
    BY <2>1, <2>2, LastingElements
<1>3. CASE I # {}
  <2>1. y = [x EXCEPT !.msgs = r, !.sequenced = flag]
    BY <1>3, Zenon DEF Modify_
  <2>2. y.msgs = r
    <3> HIDE DEF r, flag, y
    <3> QED
      BY <1>1, <2>1 DEF QueueType
  <2>3. /\ DOMAIN r = DOMAIN s
        /\ \A i \in DOMAIN s \ I : r[i] = s[i]
        /\ \A i \in I : i \in DOMAIN s /\ r[i] = Modified(s[i], m)
    BY Zenon DEF ModifyEqual, Matching
  <2>4. /\ Same(S, m) = {s[i] : i \in I}
        /\ Others(S, m) = {s[i] : i \in DOMAIN s \ I}
        /\ Same(S, m) # {}
    BY <1>3, MatchingElements, Zenon
  <2> HIDE DEF r, I, s
  <2>5. ToSet(r) = {s[i] : i \in DOMAIN s \ I} \cup {Modified(v, m) : v \in {s[i] : i \in I}}
    <3>1. ToSet(r) = {r[i] : i \in DOMAIN s}
      BY <2>3, Zenon DEF ToSet
    <3>2. {r[i] : i \in DOMAIN s} \subseteq
            {s[i] : i \in DOMAIN s \ I} \cup {Modified(v, m) : v \in {s[i] : i \in I}}
      BY <2>3, Zenon
    <3>3. {s[i] : i \in DOMAIN s \ I} \subseteq {r[i] : i \in DOMAIN s}
      BY <2>3, Zenon
    <3>4. {Modified(v, m) : v \in {s[i] : i \in I}} \subseteq {r[i] : i \in DOMAIN s}
      BY <2>3, Zenon
    <3> QED
      BY <3>1, <3>2, <3>3, <3>4, Zenon
  <2> HIDE DEF S, y
  <2>6. ToSet(y.msgs) =
          Others(S, m) \cup {Modified(v, m) : v \in Same(S, m)}
    BY <2>2, <2>4, <2>5, Zenon
  <2> QED
    BY <2>4, <2>6, Zenon DEF S, s, y
<1> QED
  BY <1>2, <1>3

LEMMA ApplyElements ==
  ASSUME NEW x, SoundQueue(x), NEW t \in Int, NEW m \in Message
  PROVE  ToSet(Apply(x, t, m).msgs) = Effect(ToSet(x.msgs), m, t)
<1> DEFINE S == ToSet(x.msgs)
           e == Erase(x, m)
<1>1. SoundQueue(e) /\ ToSet(e.msgs) = Others(S, m)
  BY EraseSound, EraseElements
<1> HIDE DEF e
<1>2. CASE m.action = "publish"
  BY <1>2, PublishElements DEF Apply, Effect
<1>3. CASE m.action = "replace"
  <2>1. Apply(x, t, m) = Publish_(e, t, m)
    BY <1>3 DEF Apply, Replace_, e
  <2>2. ToSet(Apply(x, t, m).msgs) = Others(S, m) \cup {Born(m, t)}
    BY <1>1, <2>1, PublishElements
  <2> QED
    BY <1>3, <2>2 DEF Effect
<1>4. CASE m.action = "remove"
  <2>1. Apply(x, t, m) = PublishIfLasting(e, t, m)
    BY <1>4 DEF Apply, Remove_, e
  <2>2. ToSet(Apply(x, t, m).msgs) =
          Others(S, m) \cup (IF m.lifetime # 0 THEN {Born(m, t)} ELSE {})
    BY <1>1, <2>1, LastingElements
  <2> QED
    BY <1>4, <2>2 DEF Effect
<1>5. CASE m.action = "update"
  BY <1>5, UpdateElements DEF Apply, Effect
<1>6. CASE m.action = "modify"
  BY <1>6, ModifyElements DEF Apply, Effect
<1> QED
  BY <1>2, <1>3, <1>4, <1>5, <1>6 DEF Message, Actions

\* Of any set the latest no messages are none.
LEMMA LatestNone ==
  ASSUME NEW x, SoundQueue(x)
  PROVE  Latest(0, ToSet(x.msgs)) = {}
<1> DEFINE s == x.msgs
<1>1. s \in Seq(Message) /\ Ordered(s)
  BY TypeOfSound
<1> HIDE DEF s
<1>2. ASSUME NEW v \in ToSet(s)
      PROVE  ~ (Cardinality({y \in ToSet(s) : Before(v, y)}) < 0)
  <2>1. PICK i \in DOMAIN s : v = s[i]
    BY Zenon DEF ToSet
  <2>2. Cardinality({y \in ToSet(s) : Before(v, y)}) = Len(s) - i
    BY <1>1, <2>1, LaterSize
  <2>3. Len(s) \in Nat /\ i \in 1 .. Len(s)
    BY <1>1, SequenceFields
  <2> QED
    BY <2>2, <2>3
<1> QED
  BY <1>2, Zenon DEF Latest, s

(***************************************************************************)
(* The look for dead messages at the start of push takes all of the dead   *)
(* or, if there was a look in this second already, none.                   *)
(***************************************************************************)
LEMMA SweepOnceElements ==
  ASSUME NEW x, SoundQueue(x), NEW t \in Int
  PROVE  \E expired \in SUBSET {v \in ToSet(x.msgs) : Dead(v, t)} :
           ToSet(SweepOnce(x, t).msgs) = ToSet(x.msgs) \ expired
<1> DEFINE S == ToSet(x.msgs)
           D == {v \in S : Dead(v, t)}
<1>1. CASE x.lastRemoveDeath = t
  <2>1. SweepOnce(x, t) = x
    BY <1>1, SweepOnceSound
  <2>2. {} \in SUBSET D /\ S \ {} = S
    BY Zenon
  <2> QED
    BY <2>1, <2>2, Zenon
<1>2. CASE x.lastRemoveDeath # t
  <2>1. ToSet(SweepOnce(x, t).msgs) = {v \in S : ~ Dead(v, t)}
    BY <1>2, SweepOnceSound
  <2>2. D \in SUBSET D /\ S \ D = {v \in S : ~ Dead(v, t)}
    BY Zenon
  <2> QED
    BY <2>1, <2>2, Zenon
<1> QED
  BY <1>1, <1>2

(***************************************************************************)
(* A push, as its users see it: some of the dead go, the message has its   *)
(* effect, and the latest messages up to its limit stay.                   *)
(***************************************************************************)
LEMMA PushElements ==
  ASSUME NEW x, SoundQueue(x), NEW t \in Int, NEW m \in Message, NewerThan(m, x.msgs)
  PROVE  \E expired \in SUBSET {v \in ToSet(x.msgs) : Dead(v, t)} :
           ToSet(Push(x, t, m).msgs) =
             IF HandedBack(m) THEN (IF m.limit = 0 THEN {} ELSE ToSet(x.msgs) \ expired)
             ELSE Latest(m.limit, Effect(ToSet(x.msgs) \ expired, m, t))
<1> DEFINE w == SweepOnce(x, t)
           y == Apply(w, t, m)
           S == ToSet(x.msgs)
<1>1. SoundQueue(w) /\ NewerThan(m, w.msgs) /\ m.limit \in Nat
  BY SweepOnceSound, MessageFields DEF NewerThan
<1>2. PICK expired \in SUBSET {v \in S : Dead(v, t)} : ToSet(w.msgs) = S \ expired
  BY SweepOnceElements, Zenon
<1>3. SoundQueue(y) /\ ToSet(y.msgs) = Effect(ToSet(w.msgs), m, t)
  BY <1>1, ApplySound, ApplyElements DEF PushedInto
<1>4. Push(x, t, m) = IF HandedBack(m) THEN IF m.limit = 0 THEN Resize(w, 0) ELSE w
                      ELSE Resize(y, m.limit)
  BY Zenon DEF Push
<1> HIDE DEF w, y, S
<1>5. ToSet(Resize(w, 0).msgs) = {}
  BY <1>1, ResizeLatest, LatestNone
<1>6. ToSet(Resize(y, m.limit).msgs) = Latest(m.limit, ToSet(y.msgs))
  BY <1>1, <1>3, ResizeLatest
<1> QED
  BY <1>2, <1>3, <1>4, <1>5, <1>6 DEF S

-----------------------------------------------------------------------------
(***************************************************************************)
(* Copies.  LowerBound finds the first position whose cursor is not less   *)
(* than c, so that the copy is the end of an interval.                     *)
(***************************************************************************)
LEMMA LowerBoundIsBound ==
  ASSUME NEW s \in Seq(Message), NEW c \in Int
  PROVE  /\ LowerBound(s, c) \in 1 .. Len(s) + 1
         /\ \A i \in DOMAIN s : i < LowerBound(s, c) => s[i].cursor < c
         /\ LowerBound(s, c) <= Len(s) => c <= s[LowerBound(s, c)].cursor
<1> DEFINE I == {i \in DOMAIN s : c <= s[i].cursor} \cup {Len(s) + 1}
           p == Min(I)
<1>1. Len(s) \in Nat /\ DOMAIN s = 1 .. Len(s)
  OBVIOUS
<1>2. IsFiniteSet(1 .. Len(s) + 1)
  BY <1>1, FS_Interval
<1>3. I \in SUBSET (1 .. Len(s) + 1) /\ I # {}
  BY <1>1
<1>4. IsFiniteSet(I) /\ I \in SUBSET Int
  BY <1>1, <1>2, <1>3, FS_Subset
<1>5. p \in I /\ \A i \in I : p <= i
  BY <1>3, <1>4, LeastElement, Zenon
<1>6. \A i \in DOMAIN s : s[i].cursor \in Int
  BY MessageFields
<1>7. \A i \in DOMAIN s : i \in I <=> c <= s[i].cursor
  BY <1>1
<1> HIDE DEF I, p
<1>8. p \in 1 .. Len(s) + 1
  BY <1>1, <1>3, <1>5
<1>9. ASSUME NEW i \in DOMAIN s, i < p
      PROVE  s[i].cursor < c
  BY <1>1, <1>5, <1>6, <1>7, <1>8, <1>9
<1>10. p <= Len(s) => c <= s[p].cursor
  BY <1>1, <1>5, <1>7, <1>8
<1> QED
  BY <1>8, <1>9, <1>10, Zenon DEF LowerBound, I, p

\* The smaller of two numbers.
LEMMA MinOfTwo ==
  ASSUME NEW a \in Int, NEW b \in Int
  PROVE  Min({a, b}) = IF a <= b THEN a ELSE b
<1>1. IsFiniteSet({a, b})
  <2>1. IsFiniteSet({a}) /\ {a, b} = {a} \cup {b}
    BY FS_Singleton
  <2> QED
    BY <2>1, FS_AddElement
<1>2. Min({a, b}) \in {a, b} /\ \A i \in {a, b} : Min({a, b}) <= i
  BY <1>1, LeastElement
<1> QED
  BY <1>2

(***************************************************************************)
(* copy_to: the last limit of the messages whose cursor is c or greater.   *)
(***************************************************************************)
ExactCopy(x, c, n) ==
  LET wanted == {i \in DOMAIN x.msgs : x.msgs[i].cursor >= c}
  IN  ToSet(CopyTo(x, c, n)) =
        {x.msgs[i] : i \in {j \in wanted : Cardinality({k \in wanted : k > j}) < n}}

LEMMA CopyToExact ==
  ASSUME NEW x, SoundQueue(x), NEW c \in Int, NEW n \in Nat
  PROVE  ExactCopy(x, c, n)
<1> DEFINE s == x.msgs
           p == LowerBound(s, c)
           wanted == {i \in DOMAIN s : s[i].cursor >= c}
           size == Len(s) + 1 - p
           some == Min({size, n})
<1>1. s \in Seq(Message) /\ Len(s) \in Nat /\ DOMAIN s = 1 .. Len(s) /\ Ordered(s)
  BY TypeOfSound
<1>2. /\ p \in 1 .. Len(s) + 1
      /\ \A i \in DOMAIN s : i < p => s[i].cursor < c
      /\ p <= Len(s) => c <= s[p].cursor
  BY <1>1, LowerBoundIsBound
<1>3. \A i \in DOMAIN s : s[i].cursor \in Int
  BY <1>1, MessageFields
<1>4. \A i, j \in DOMAIN s : i < j => s[i].cursor <= s[j].cursor
  BY <1>1, <1>3, SMTT(90) DEF Ordered
<1> HIDE DEF p
<1>5. wanted = p .. Len(s)
  <2> HIDE DEF s
  <2>1. ASSUME NEW i \in DOMAIN s
        PROVE  s[i].cursor >= c <=> i >= p
    <3>1. CASE i < p
      BY <1>1, <1>2, <1>3, <3>1
    <3>2. CASE i = p
      BY <1>1, <1>2, <1>3, <3>2
    <3>3. CASE i > p
      <4>1. p \in DOMAIN s /\ c <= s[p].cursor
        BY <1>1, <1>2, <3>3
      <4> QED
        BY <1>1, <1>2, <1>3, <1>4, <3>3, <4>1
    <3> QED
      BY <1>1, <1>2, <3>1, <3>2, <3>3
  <2> QED
    BY <1>1, <1>2, <2>1
<1>6. some \in Nat /\ some <= size /\ some = (IF size <= n THEN size ELSE n)
  <2>1. size \in Nat
    BY <1>1, <1>2
  <2> HIDE DEF size
  <2>2. Min({size, n}) = (IF size <= n THEN size ELSE n)
    BY <2>1, MinOfTwo
  <2> HIDE DEF some
  <2>3. some = (IF size <= n THEN size ELSE n)
    BY <2>2, Zenon DEF some
  <2> QED
    BY <2>1, <2>3
<1> HIDE DEF some
<1> DEFINE last  == Len(s)
           first == last + 1 - some
<1>7. /\ last \in Nat /\ p \in 1 .. last + 1 /\ some \in Nat /\ some <= last + 1 - p
      /\ some = (IF last + 1 - p <= n THEN last + 1 - p ELSE n)
  BY <1>1, <1>2, <1>6, Zenon
<1>8. CopyTo(x, c, n) = SubSeq(s, first, last)
  BY DEF CopyTo, some, p
<1> HIDE DEF s, last, wanted
<1>13. first \in p .. last + 1
  BY <1>7
<1>14. DOMAIN s = 1 .. last /\ Len(s) = last /\ s \in Seq(Message) /\ wanted = p .. last
  BY <1>1, <1>5, Zenon DEF last
<1> HIDE DEF first
<1>9. ToSet(CopyTo(x, c, n)) = {s[i] : i \in first .. last}
  <2> DEFINE r == SubSeq(s, first, last)
             m == last - first + 1
  <2>1. first \in 1 .. last + 1 /\ first \in Nat /\ m \in Nat
    BY <1>7, <1>13
  <2>2. Len(r) = m /\ DOMAIN r = 1 .. m /\ \A i \in 1 .. m : r[i] = s[first - 1 + i]
    BY <1>7, <1>14, <2>1
  <2> HIDE DEF r
  <2>4. ASSUME NEW i \in DOMAIN r
        PROVE  r[i] \in {s[j] : j \in first .. last}
    <3>1. first - 1 + i \in first .. last /\ r[i] = s[first - 1 + i]
      BY <1>7, <2>1, <2>2
    <3> QED
      BY <3>1, Zenon
  <2>5. ASSUME NEW j \in first .. last
        PROVE  \E i \in DOMAIN r : r[i] = s[j]
    <3>1. j - first + 1 \in 1 .. m /\ first - 1 + (j - first + 1) = j
      BY <1>7, <2>1
    <3> QED
      BY <2>2, <3>1
  <2> QED
    BY <1>8, <2>4, <2>5 DEF ToSet, r
<1>10. ASSUME NEW j \in wanted
       PROVE  Cardinality({k \in wanted : k > j}) < n <=> j \in first .. last
  <2>1. j \in p .. last /\ j \in Int
    BY <1>7, <1>14
  <2>2. {k \in wanted : k > j} = j + 1 .. last
    BY <1>7, <1>14, <2>1
  <2>3. Cardinality(j + 1 .. last) = last - j
    <3>1. j + 1 \in Int /\ last \in Int /\ j <= last
      BY <1>7, <2>1
    <3>2. Cardinality(j + 1 .. last) = IF j + 1 > last THEN 0 ELSE last - (j + 1) + 1
      BY <3>1, FS_Interval
    <3>3. \A a, b \in Int : a <= b => (IF a + 1 > b THEN 0 ELSE b - (a + 1) + 1) = b - a
      OBVIOUS
    <3> QED
      BY <2>1, <3>1, <3>2, <3>3, Zenon
  <2>4. last - j < n <=> j \in first .. last
    BY <1>7, <2>1 DEF first
  <2> QED
    BY <2>2, <2>3, <2>4
<1>11. first .. last \in SUBSET wanted
  BY <1>7, <1>13, <1>14
<1>12. {j \in wanted : Cardinality({k \in wanted : k > j}) < n} = first .. last
  BY <1>10, <1>11
<1> QED
  BY <1>9, <1>12, Zenon DEF s, wanted, ExactCopy

-----------------------------------------------------------------------------
\* What the statistics of a queue account for.
Total(x) == x.removed + Len(x.msgs)

-----------------------------------------------------------------------------
(***************************************************************************)
(* Statistics.  Whatever takes messages from the queue and counts them     *)
(* leaves the total as it is.                                              *)
(***************************************************************************)
LEMMA CountedLoss ==
  ASSUME NEW x, SoundQueue(x), NEW y, SoundQueue(y),
         y.removed = x.removed + (Len(x.msgs) - Len(y.msgs))
  PROVE  Total(y) = Total(x)
<1>1. Len(x.msgs) \in Int /\ Len(y.msgs) \in Int /\ x.removed \in Int
  BY TypeOfSound
<1>2. \A a, b, c \in Int : (a + (b - c)) + c = a + b
  OBVIOUS
<1>3. (x.removed + (Len(x.msgs) - Len(y.msgs))) + Len(y.msgs) = x.removed + Len(x.msgs)
  BY <1>1, <1>2, Zenon
<1> QED
  BY <1>3, Zenon DEF Total

LEMMA ResizeTotal ==
  ASSUME NEW x, SoundQueue(x), NEW limit \in Nat
  PROVE  Total(Resize(x, limit)) = Total(x)
<1> DEFINE kept == Keep(x.msgs, {i \in DOMAIN x.msgs : i > Len(x.msgs) - limit})
           total == x.removed + (Len(x.msgs) - Len(kept))
           y == Resize(x, limit)
<1>1. x \in QueueType /\ SoundQueue(y)
  BY TypeOfSound, ResizeSound
<1>2. y = [x EXCEPT !.msgs = kept, !.removed = total]
  BY Zenon DEF Resize
<1> HIDE DEF kept, y
<1>3. y.msgs = kept /\ y.removed = total
  <2> HIDE DEF total
  <2> QED
    BY <1>1, <1>2 DEF QueueType
<1>4. Total(y) = Total(x)
  BY <1>1, <1>3, CountedLoss
<1> QED
  BY <1>4 DEF y

LEMMA RemoveDeathTotal ==
  ASSUME NEW x, SoundQueue(x), NEW t \in Int
  PROVE  Total(RemoveDeath(x, t)) = Total(x)
<1> DEFINE front == Keep(x.msgs, {i \in DOMAIN x.msgs : \E j \in Live(x.msgs, t) : j <= i})
           sweep == ~ x.sequenced /\ front # <<>>
           rest  == IF sweep THEN Keep(front, Live(front, t)) ELSE front
           total == x.removed + (Len(x.msgs) - Len(rest))
           flag  == IF sweep /\ Len(rest) # Len(x.msgs) THEN Sequenced(rest) ELSE x.sequenced
           y == RemoveDeath(x, t)
<1>1. x \in QueueType /\ SoundQueue(y)
  BY TypeOfSound, RemoveDeathSound
<1>2. y = [x EXCEPT !.msgs = rest, !.removed = total, !.sequenced = flag]
  BY Zenon DEF RemoveDeath
<1> HIDE DEF rest, flag, y
<1>3. y.msgs = rest /\ y.removed = total
  <2> HIDE DEF total
  <2> QED
    BY <1>1, <1>2 DEF QueueType
<1>4. Total(y) = Total(x)
  BY <1>1, <1>3, CountedLoss
<1> QED
  BY <1>4 DEF y

LEMMA SweepOnceTotal ==
  ASSUME NEW x, SoundQueue(x), NEW t \in Int
  PROVE  Total(SweepOnce(x, t)) = Total(x)
<1>1. CASE x.lastRemoveDeath = t
  BY <1>1 DEF SweepOnce
<1>2. CASE x.lastRemoveDeath # t
  <2> DEFINE y == RemoveDeath(x, t)
  <2>1. y \in QueueType /\ Total(y) = Total(x)
    BY RemoveDeathTotal, RemoveDeathSound DEF SoundQueue
  <2>2. SweepOnce(x, t) = [y EXCEPT !.lastRemoveDeath = t]
    BY <1>2, Zenon DEF SweepOnce
  <2> HIDE DEF y
  <2> QED
    BY <2>1, <2>2 DEF QueueType, Total
<1> QED
  BY <1>1, <1>2

(***************************************************************************)
(* What the actions of a push do to the total: a message that is placed    *)
(* adds one, those erased by identity are taken off uncounted.             *)
(***************************************************************************)
LEMMA PublishTotal ==
  ASSUME NEW x, SoundQueue(x), NEW t \in Int, NEW m \in Message
  PROVE  Total(Publish_(x, t, m)) = Total(x) + 1
<1> DEFINE s    == x.msgs
           p    == UpperBound(s, m.cursor)
           r    == InsertAt(s, p, Born(m, t))
           flag == /\ x.sequenced
                   /\ p > 1 => /\ Deathtime(r[p-1]) = Deathtime(r[p])
                               /\ r[p-1].birthtime <= t
                   /\ p < Len(r) => /\ Deathtime(r[p+1]) = Deathtime(r[p])
                                    /\ r[p+1].birthtime >= t
           y    == Publish_(x, t, m)
<1>1. x \in QueueType /\ s \in Seq(Message) /\ Len(s) \in Nat /\ x.removed \in Nat
  BY TypeOfSound
<1>2. Born(m, t) \in Message /\ m.cursor \in Int
  BY BornFields, MessageFields
<1>3. p \in 1 .. Len(s) + 1
  BY <1>1, <1>2, UpperBoundIsBound
<1>4. Len(r) = Len(s) + 1
  <2> HIDE DEF s, p
  <2> QED
    BY <1>1, <1>2, <1>3, InsertAtElements
<1>5. y = [x EXCEPT !.msgs = r, !.sequenced = flag]
  BY Zenon DEF Publish_
<1> HIDE DEF r, flag, y
<1>6. y.msgs = r /\ y.removed = x.removed
  BY <1>1, <1>5 DEF QueueType
<1> QED
  BY <1>1, <1>4, <1>6 DEF Total, y

LEMMA PublishIfLastingTotal ==
  ASSUME NEW x, SoundQueue(x), NEW t \in Int, NEW m \in Message
  PROVE  Total(PublishIfLasting(x, t, m)) = Total(x) + (IF m.lifetime # 0 THEN 1 ELSE 0)
<1>1. Total(x) \in Int
  BY TypeOfSound DEF Total
<1> QED
  BY <1>1, PublishTotal DEF PublishIfLasting

LEMMA MatchingSize ==
  ASSUME NEW s \in Seq(Message), NEW m
  PROVE  /\ Matching(s, m) \in SUBSET DOMAIN s
         /\ IsFiniteSet(DOMAIN s)
         /\ Cardinality(DOMAIN s) = Len(s)
         /\ Cardinality(Matching(s, m)) \in Nat
         /\ Cardinality(DOMAIN s \ Matching(s, m)) = Len(s) - Cardinality(Matching(s, m))
<1> DEFINE I == Matching(s, m)
           D == DOMAIN s
<1>1. D = 1 .. Len(s) /\ Len(s) \in Nat
  BY SequenceFields
<1>2. IsFiniteSet(D) /\ Cardinality(D) = Len(s)
  <2>1. \A n \in Nat : IsFiniteSet(1 .. n) /\ Cardinality(1 .. n) = n
    BY FS_Interval
  <2> QED
    BY <1>1, <2>1, Zenon
<1>3. I \in SUBSET D /\ D \cap I = I
  BY DEF Matching
<1> HIDE DEF I, D
<1>4. Cardinality(I) \in Nat
  BY <1>2, <1>3, FS_Subset, FS_CardinalityType
<1>5. Cardinality(D \ I) = Cardinality(D) - Cardinality(D \cap I)
  BY <1>2, FS_Difference
<1> QED
  BY <1>2, <1>3, <1>4, <1>5 DEF I, D

LEMMA EraseTotal ==
  ASSUME NEW x, SoundQueue(x), NEW m
  PROVE  Total(Erase(x, m)) = Total(x) - Cardinality(Matching(x.msgs, m))
<1> DEFINE s == x.msgs
           I == DOMAIN s \ Matching(s, m)
           kept == Keep(s, I)
           y == Erase(x, m)
<1>1. x \in QueueType /\ s \in Seq(Message) /\ Len(s) \in Nat /\ x.removed \in Nat
  BY TypeOfSound
<1>2. Cardinality(I) = Len(s) - Cardinality(Matching(s, m)) /\ Cardinality(Matching(s, m)) \in Nat
  BY <1>1, MatchingSize
<1>3. Len(kept) = Cardinality(I)
  BY <1>1, KeepSound
<1>4. y = [x EXCEPT !.msgs = kept]
  BY Zenon DEF Erase
<1> HIDE DEF kept, y, I
<1>5. y.msgs = kept /\ y.removed = x.removed
  BY <1>1, <1>4 DEF QueueType
<1> QED
  BY <1>1, <1>2, <1>3, <1>5 DEF Total, y

LEMMA UpdateTotal ==
  ASSUME NEW x, SoundQueue(x), NEW t \in Int, NEW m \in Message
  PROVE  Total(Update_(x, t, m)) =
           Total(x) + (IF m.lifetime # 0 /\ Matching(x.msgs, m) = {} THEN 1 ELSE 0)
<1>1. CASE Matching(x.msgs, m) = {}
  BY <1>1, PublishIfLastingTotal DEF Update_
<1>2. CASE Matching(x.msgs, m) # {}
  <2> DEFINE r == UpdateEqual(x.msgs, m)
             y == Update_(x, t, m)
  <2>1. x \in QueueType /\ Len(x.msgs) \in Nat /\ x.removed \in Nat /\ x.msgs \in Seq(Message)
    BY TypeOfSound
  <2>2. y = [x EXCEPT !.msgs = r, !.sequenced = FALSE]
    BY <1>2, Zenon DEF Update_
  <2>3. Len(r) = Len(x.msgs)
    BY <2>1 DEF UpdateEqual
  <2> HIDE DEF r, y
  <2>4. y.msgs = r /\ y.removed = x.removed
    BY <2>1, <2>2 DEF QueueType
  <2> QED
    BY <1>2, <2>1, <2>3, <2>4 DEF Total, y
<1> QED
  BY <1>1, <1>2

LEMMA ModifyTotal ==
  ASSUME NEW x, SoundQueue(x), NEW t \in Int, NEW m \in Message
  PROVE  Total(Modify_(x, t, m)) =
           Total(x) + (IF m.lifetime # 0 /\ Matching(x.msgs, m) = {} THEN 1 ELSE 0)
<1>1. CASE Matching(x.msgs, m) = {}
  BY <1>1, PublishIfLastingTotal DEF Modify_
<1>2. CASE Matching(x.msgs, m) # {}
  <2> DEFINE r == ModifyEqual(x.msgs, m)
             flag == x.sequenced /\ \A i \in Matching(x.msgs, m) : x.msgs[i].limit = m.limit
             y == Modify_(x, t, m)
  <2>1. x \in QueueType /\ Len(x.msgs) \in Nat /\ x.removed \in Nat /\ x.msgs \in Seq(Message)
    BY TypeOfSound
  <2>2. y = [x EXCEPT !.msgs = r, !.sequenced = flag]
    BY <1>2, Zenon DEF Modify_
  <2>3. Len(r) = Len(x.msgs)
    BY <2>1 DEF ModifyEqual
  <2> HIDE DEF r, flag, y
  <2>4. y.msgs = r /\ y.removed = x.removed
    BY <2>1, <2>2 DEF QueueType
  <2> QED
    BY <1>2, <2>1, <2>3, <2>4 DEF Total, y
<1> QED
  BY <1>1, <1>2

\* A push places at most its one message, whatever it erases.
LEMMA ApplyGrows ==
  ASSUME NEW x, SoundQueue(x), NEW t \in Int, NEW m \in Message
  PROVE  Total(Apply(x, t, m)) <= Total(x) + 1
<1> DEFINE e == Erase(x, m)
           k == Cardinality(Matching(x.msgs, m))
<1>1. x.msgs \in Seq(Message) /\ Total(x) \in Int
  BY TypeOfSound DEF Total
<1>2. SoundQueue(e) /\ Total(e) = Total(x) - k /\ k \in Nat
  BY <1>1, EraseSound, EraseTotal, MatchingSize, Zenon DEF e, k
<1> HIDE DEF e, k
<1>3. CASE m.action = "publish"
  <2>1. Apply(x, t, m) = Publish_(x, t, m)
    BY <1>3 DEF Apply
  <2>2. Total(Apply(x, t, m)) = Total(x) + 1
    BY <2>1, PublishTotal, Zenon
  <2> QED
    BY <1>1, <2>2
<1>4. CASE m.action = "modify"
  <2> DEFINE added == IF m.lifetime # 0 /\ Matching(x.msgs, m) = {} THEN 1 ELSE 0
  <2>1. Apply(x, t, m) = Modify_(x, t, m)
    BY <1>4 DEF Apply
  <2>2. added \in {0, 1}
    OBVIOUS
  <2>3. Total(Apply(x, t, m)) = Total(x) + added
    BY <2>1, ModifyTotal, Zenon
  <2> HIDE DEF added
  <2> QED
    BY <1>1, <2>2, <2>3
<1>5. CASE m.action = "update"
  <2> DEFINE added == IF m.lifetime # 0 /\ Matching(x.msgs, m) = {} THEN 1 ELSE 0
  <2>1. Apply(x, t, m) = Update_(x, t, m)
    BY <1>5 DEF Apply
  <2>2. added \in {0, 1}
    OBVIOUS
  <2>3. Total(Apply(x, t, m)) = Total(x) + added
    BY <2>1, UpdateTotal, Zenon
  <2> HIDE DEF added
  <2> QED
    BY <1>1, <2>2, <2>3
<1>6. CASE m.action = "replace"
  <2>1. Apply(x, t, m) = Publish_(e, t, m)
    BY <1>6 DEF Apply, Replace_, e
  <2>2. Total(Apply(x, t, m)) = (Total(x) - k) + 1
    BY <1>2, <2>1, PublishTotal
  <2> QED
    BY <1>1, <1>2, <2>2
<1>7. CASE m.action = "remove"
  <2> DEFINE added == IF m.lifetime # 0 THEN 1 ELSE 0
  <2>1. Apply(x, t, m) = PublishIfLasting(e, t, m)
    BY <1>7 DEF Apply, Remove_, e
  <2>2. Total(Apply(x, t, m)) = (Total(x) - k) + added
    BY <1>2, <2>1, PublishIfLastingTotal
  <2>3. added \in {0, 1}
    OBVIOUS
  <2> HIDE DEF added
  <2> QED
    BY <1>1, <1>2, <2>2, <2>3
<1> QED
  BY <1>3, <1>4, <1>5, <1>6, <1>7 DEF Message, Actions

LEMMA PushGrows ==
  ASSUME NEW x, SoundQueue(x), NEW t \in Int, NEW m \in Message, NewerThan(m, x.msgs)
  PROVE  Total(Push(x, t, m)) <= Total(x) + (IF HandedBack(m) THEN 0 ELSE 1)
<1> DEFINE w == SweepOnce(x, t)
<1>1. SoundQueue(w) /\ Total(w) = Total(x) /\ Total(x) \in Int
  BY SweepOnceSound, SweepOnceTotal, TypeOfSound DEF Total
<1>2. NewerThan(m, w.msgs)
  BY SweepOnceSound DEF NewerThan
<1> HIDE DEF w
<1>3. CASE HandedBack(m)
  <2>1. Push(x, t, m) = w \/ Push(x, t, m) = Resize(w, 0)
    BY <1>3, Zenon DEF Push, w
  <2>2. Total(Resize(w, 0)) = Total(w)
    BY <1>1, ResizeTotal
  <2> QED
    BY <1>1, <1>3, <2>1, <2>2
<1>4. CASE ~ HandedBack(m)
  <2> DEFINE y == Apply(w, t, m)
  <2>1. Push(x, t, m) = Resize(y, m.limit)
    BY <1>4, Zenon DEF Push, w
  <2>2. SoundQueue(y) /\ m.limit \in Nat
    BY <1>1, <1>2, ApplySound, MessageFields DEF PushedInto
  <2>3. Total(y) <= Total(w) + 1
    BY <1>1, ApplyGrows
  <2> HIDE DEF y
  <2>4. Total(Resize(y, m.limit)) = Total(y)
    BY <2>2, ResizeTotal
  <2> QED
    BY <1>1, <1>4, <2>1, <2>3, <2>4
<1> QED
  BY <1>3, <1>4
===============================================================================
