--------------------------- MODULE RocksStoreProofs ---------------------------
(***************************************************************************)
(* Proofs about the persistent store of one channel: what it holds is what *)
(* a merge may leave of the messages pushed before the operands, whenever  *)
(* RocksDB merges, and from this what a reader gets and does not get.      *)
(***************************************************************************)
EXTENDS RocksStore, ReplayLemmas

-----------------------------------------------------------------------------
(***************************************************************************)
(* The inductive invariant: the store holds what a merge may leave of all  *)
(* pushed messages but the last Len(operands), and these are the operands. *)
(***************************************************************************)
StoreInv ==
  /\ Numbered(log)
  /\ Len(operands) <= Len(log)
  /\ \A i \in 1 .. Len(operands) : operands[i] = log[(Len(log) - Len(operands)) + i]
  /\ Merged(value, Len(log) - Len(operands), log)

CacheInv ==
  /\ SoundQueue(cache)
  /\ \A v \in ToSet(cache.msgs) : v.arrival <= Len(log)

IndInv == TypeOK /\ StoreInv /\ CacheInv

LEMMA InitIndInv == Init => IndInv
<1> SUFFICES ASSUME Init
             PROVE  IndInv
  OBVIOUS
<1>1. EmptyQueue.msgs = <<>> /\ EmptyQueue \in QueueType
  BY DEF EmptyQueue, QueueType
<1>2. ToSet(<<>>) = {} /\ Ordered(<<>>) /\ DieTogether(<<>>)
  BY DEF ToSet, Ordered, DieTogether
<1>3. TypeOK
  BY <1>1 DEF Init, TypeOK
<1>4. StoreInv
  BY <1>2 DEF Init, StoreInv, Numbered, Merged
<1>5. CacheInv
  BY <1>1, <1>2 DEF Init, CacheInv, SoundQueue
<1> QED
  BY <1>3, <1>4, <1>5 DEF IndInv

\* A message that is pushed does not concern a store that it was not merged into.
LEMMA MergedAppend ==
  ASSUME NEW l \in Seq(Message), NEW m \in Message, NEW n \in 0 .. Len(l), NEW s, Merged(s, n, l)
  PROVE  Merged(s, n, Append(l, m))
<1> DEFINE l2 == Append(l, m)
<1>1. \A i \in 1 .. n : l2[i] = l[i]
  OBVIOUS
<1> HIDE DEF l2
<1>2. ASSUME NEW v, Placed(v, n, l)
      PROVE  Placed(v, n, l2)
  BY <1>1, <1>2, Zenon DEF Placed
<1>3. ASSUME NEW v, Current(v, n, l)
      PROVE  Current(v, n, l2)
  BY <1>1, <1>3 DEF Current
<1> QED
  BY <1>2, <1>3, Zenon DEF Merged, l2

LEMMA PushPreserves ==
  ASSUME IndInv, NEW input \in Inputs, DoPush(input)
  PROVE  IndInv'
<1> DEFINE n == Len(log) + 1
           m == Born(Stamped(input, n), now)
           log2 == Append(log, m)
           ops2 == Append(operands, m)
<1>1. /\ value \in Seq(Message)
      /\ operands \in Seq(Message)
      /\ log \in Seq(Message)
      /\ cache \in QueueType
      /\ now \in Times
      /\ now \in Int
      /\ Len(log) \in Nat
      /\ Len(operands) \in Nat
      /\ n \in Nat
      /\ input \in Message
  BY TimesAssumption, InputsAssumption DEF IndInv, TypeOK
<1>2. m \in Message /\ m.arrival = n /\ m.content = n
  <2> DEFINE u == Stamped(input, n)
  <2> HIDE DEF n
  <2>1. u \in Message /\ u.arrival = n /\ u.content = n
    BY <1>1, StampedFields
  <2> HIDE DEF u
  <2> QED
    BY <1>1, <2>1, BornFields DEF u
<1>3. /\ operands' = ops2
      /\ cache' = Push(cache, now, m)
      /\ log' = log2
      /\ value' = value
      /\ now' = now
  BY DEF DoPush
<1> HIDE DEF m
<1>4. /\ log2 \in Seq(Message)
      /\ ops2 \in Seq(Message)
      /\ Len(log2) = n
      /\ Len(ops2) = Len(operands) + 1
      /\ \A i \in 1 .. Len(log) : log2[i] = log[i]
      /\ \A i \in 1 .. Len(operands) : ops2[i] = operands[i]
      /\ log2[n] = m
      /\ ops2[Len(operands) + 1] = m
  BY <1>1, <1>2
<1>5. StoreInv
  BY DEF IndInv
<1> DEFINE before == Len(log) - Len(operands)
<1>6. before \in 0 .. Len(log) /\ Len(log2) - Len(ops2) = before
  BY <1>1, <1>4, <1>5 DEF StoreInv
<1>7. Numbered(log2)
  <2>1. DOMAIN log2 = 1 .. n /\ DOMAIN log = 1 .. Len(log)
    BY <1>1, <1>4
  <2>2. \A i \in 1 .. n : i \in 1 .. Len(log) \/ i = n
    BY <1>1
  <2> HIDE DEF log2, n
  <2> QED
    BY <1>2, <1>4, <1>5, <2>1, <2>2, ZenonT(60) DEF StoreInv, Numbered
<1>8. ASSUME NEW i \in 1 .. Len(ops2)
      PROVE  ops2[i] = log2[(Len(log2) - Len(ops2)) + i]
  <2>1. CASE i \in 1 .. Len(operands)
    <3>1. before + i \in 1 .. Len(log)
      BY <1>1, <1>6, <2>1
    <3>2. operands[i] = log[before + i]
      BY <1>5, <2>1, Zenon DEF StoreInv
    <3> HIDE DEF log2, ops2, before
    <3> QED
      BY <1>4, <1>6, <2>1, <3>1, <3>2, Zenon
  <2>2. CASE i = Len(operands) + 1
    <3>1. before + i = n
      BY <1>1, <2>2
    <3> HIDE DEF log2, ops2, before
    <3> QED
      BY <1>4, <1>6, <2>2, <3>1, Zenon
  <2>3. i \in 1 .. Len(operands) \/ i = Len(operands) + 1
    BY <1>1, <1>4
  <2> QED
    BY <2>1, <2>2, <2>3
<1>9. Merged(value, before, log2)
  BY <1>1, <1>2, <1>5, <1>6, MergedAppend DEF StoreInv
<1>10. StoreInv'
  <2>1. Len(ops2) <= Len(log2)
    BY <1>1, <1>4, <1>6
  <2> HIDE DEF log2, ops2, before
  <2> QED
    BY <1>3, <1>6, <1>7, <1>8, <1>9, <2>1, Zenon DEF StoreInv
<1> DEFINE S == ToSet(cache.msgs)
           c2 == Push(cache, now, m)
<1>11. SoundQueue(cache) /\ S \subseteq Message /\ \A v \in S : v.arrival <= Len(log)
  BY TypeOfSound DEF IndInv, CacheInv, ToSet
<1>12. NewerThan(m, cache.msgs)
  <2> SUFFICES ASSUME NEW v \in S
               PROVE  v.arrival < m.arrival
    BY DEF NewerThan
  <2>1. v.arrival \in Nat /\ v.arrival <= Len(log)
    BY <1>11, MessageFields
  <2> QED
    BY <1>1, <1>2, <2>1
<1>13. SoundQueue(c2)
  BY <1>1, <1>2, <1>11, <1>12, PushSound
<1>14. ASSUME NEW v \in ToSet(c2.msgs)
       PROVE  v.arrival <= n
  <2>1. Origin(v, S, m)
    BY <1>1, <1>2, <1>11, <1>12, PushOrigin
  <2>2. v.arrival = m.arrival \/ \E u \in S : v.arrival = u.arrival
    BY <2>1 DEF Origin, Spared, Placement, Rewritten
  <2>3. \A u \in S : u.arrival \in Nat /\ u.arrival <= Len(log)
    BY <1>11, MessageFields
  <2> QED
    BY <1>1, <1>2, <2>2, <2>3
<1>15. CacheInv'
  BY <1>3, <1>4, <1>13, <1>14, Zenon DEF CacheInv
<1>16. TypeOK'
  BY <1>1, <1>3, <1>4, <1>13 DEF TypeOK, SoundQueue
<1> QED
  BY <1>10, <1>15, <1>16 DEF IndInv

LEMMA MergePreserves ==
  ASSUME IndInv, NEW n \in 1 .. Len(operands), NEW k \in 0 .. Len(value) + n,
         NEW time \in From(now), DoMerge(n, k, time)
  PROVE  IndInv'
<1> DEFINE l == log
           ops == SubSeq(operands, 1, n)
           ops2 == SubSeq(operands, n + 1, Len(operands))
           before == Len(l) - Len(operands)
           w == value \o ops
           r == Replay(w, now, k, time)
<1>1. /\ value \in Seq(Message)
      /\ operands \in Seq(Message)
      /\ l \in Seq(Message)
      /\ now \in Int
      /\ time \in Times
      /\ time \in Int
      /\ Len(l) \in Nat
      /\ Len(operands) \in Nat
      /\ n \in Nat
      /\ n <= Len(operands)
      /\ Len(value) \in Nat
  BY TimesAssumption DEF IndInv, TypeOK, From
<1>2. value' = r.msgs /\ operands' = ops2 /\ now' = time /\ cache' = cache /\ log' = l
  BY DEF DoMerge, FullMerge
<1>3. /\ ops \in Seq(Message)
      /\ Len(ops) = n
      /\ \A i \in 1 .. n : ops[i] = operands[i]
      /\ ops2 \in Seq(Message)
      /\ Len(ops2) = Len(operands) - n
      /\ \A i \in 1 .. Len(operands) - n : ops2[i] = operands[n + i]
  BY <1>1
<1>4. /\ Numbered(l)
      /\ Len(operands) <= Len(l)
      /\ \A i \in 1 .. Len(operands) : operands[i] = l[before + i]
      /\ Merged(value, before, l)
  BY DEF IndInv, StoreInv
<1>5. /\ before \in Nat
      /\ before + n <= Len(l)
      /\ Len(l) - (Len(operands) - n) = before + n
  BY <1>1, <1>4
<1> HIDE DEF l, ops, ops2, before, w
<1>6. \A i \in 1 .. n : ops[i] = l[before + i]
  <2>1. \A i \in 1 .. n : i \in 1 .. Len(operands)
    BY <1>1
  <2> QED
    BY <1>3, <1>4, <2>1, Zenon
<1>7. /\ Replayable(w, Len(value), before, l)
      /\ Len(w) = Len(value) + n
      /\ Reach(Len(w), Len(value), before) = before + n
  <2>1. before + Len(ops) <= Len(l) /\ \A i \in 1 .. Len(ops) : ops[i] = l[before + i]
    BY <1>3, <1>5, <1>6, Zenon
  <2>2. /\ Replayable(value \o ops, Len(value), before, l)
        /\ Len(value \o ops) = Len(value) + Len(ops)
        /\ Reach(Len(value \o ops), Len(value), before) = before + Len(ops)
    <3>1. l \in Seq(Message) /\ ops \in Seq(Message) /\ before \in Nat
      BY <1>1, <1>3, <1>5
    <3>2. Numbered(l) /\ Merged(value, before, l)
      BY <1>4
    <3> QED
      BY <2>1, <3>1, <3>2, JoinedReplayable
  <2> QED
    BY <1>3, <2>2, Zenon DEF w
<1>8. SoundQueue(r) /\ Merged(r.msgs, before + n, l)
  BY <1>1, <1>7, ReplayMerges, Zenon
<1> HIDE DEF r
<1>9. \A i \in 1 .. Len(ops2) : ops2[i] = l[(before + n) + i]
  <2>1. \A i \in 1 .. Len(operands) - n :
          n + i \in 1 .. Len(operands) /\ before + (n + i) = (before + n) + i
    BY <1>1, <1>5
  <2> QED
    BY <1>3, <1>4, <2>1, ZenonT(60)
<1>10. StoreInv'
  <2>1. Len(ops2) <= Len(l) /\ Len(l) - Len(ops2) = before + n
    BY <1>1, <1>3, <1>4, <1>5
  <2> QED
    BY <1>2, <1>4, <1>8, <1>9, <2>1, Zenon DEF StoreInv
<1>11. TypeOK'
  BY <1>1, <1>2, <1>3, <1>8, TypeOfSound DEF TypeOK, IndInv, l
<1>12. CacheInv'
  BY <1>2 DEF CacheInv, IndInv, l
<1> QED
  BY <1>10, <1>11, <1>12 DEF IndInv

LEMMA NextIndInv == IndInv /\ [Next]_vars => IndInv'
<1> SUFFICES ASSUME IndInv, [Next]_vars
             PROVE  IndInv'
  OBVIOUS
<1>1. ASSUME NEW m \in Inputs, DoPush(m)
      PROVE  IndInv'
  BY <1>1, PushPreserves
<1>2. ASSUME NEW n \in 1 .. Len(operands), NEW k \in 0 .. Len(value) + n,
             NEW time \in From(now), DoMerge(n, k, time)
      PROVE  IndInv'
  BY <1>2, MergePreserves
<1>3. ASSUME NEW time \in From(now), SetClock(time)
      PROVE  IndInv'
  BY <1>3 DEF SetClock, From, IndInv, TypeOK, StoreInv, CacheInv
<1>4. CASE UNCHANGED vars
  BY <1>4 DEF vars, IndInv, TypeOK, StoreInv, CacheInv
<1> QED
  BY <1>1, <1>2, <1>3, <1>4, Zenon DEF Next

(***************************************************************************)
(* However the store merges and whatever is pushed, it holds what a replay *)
(* of the messages pushed may leave: the argument of all that follows.     *)
(***************************************************************************)
THEOREM StoreInvariance == Spec => []IndInv
BY InitIndInv, NextIndInv, PTL DEF Spec

(***************************************************************************)
(* The store, the operands and the queue of the cache keep their types     *)
(* (merge_operator.cpp:38-70, message_queue.cpp:149-184).                  *)
(***************************************************************************)
THEOREM StoreTypeCorrect == Spec => []TypeOK
<1>1. IndInv => TypeOK
  BY DEF IndInv
<1> QED
  BY StoreInvariance, <1>1, PTL

-----------------------------------------------------------------------------
(***************************************************************************)
(* What a reader gets.                                                     *)
(***************************************************************************)
\* All operands, and the store they are not merged into yet.
LEMMA OperandsReplayable ==
  ASSUME IndInv
  PROVE  /\ Replayable(value \o operands, Len(value), Len(log) - Len(operands), log)
         /\ Reach(Len(value \o operands), Len(value), Len(log) - Len(operands)) = Len(log)
<1> DEFINE before == Len(log) - Len(operands)
<1>1. /\ operands \in Seq(Message)
      /\ log \in Seq(Message)
      /\ Len(log) \in Nat
      /\ Len(operands) \in Nat
  BY DEF IndInv, TypeOK
<1>2. /\ Numbered(log)
      /\ Len(operands) <= Len(log)
      /\ \A i \in 1 .. Len(operands) : operands[i] = log[before + i]
      /\ Merged(value, before, log)
  BY DEF IndInv, StoreInv
<1>3. before \in Nat /\ before + Len(operands) = Len(log) /\ before + Len(operands) <= Len(log)
  BY <1>1, <1>2
<1> HIDE DEF before
<1>4. Replayable(value \o operands, Len(value), before, log)
  BY <1>1, <1>2, <1>3, JoinedReplayable
<1>5. Reach(Len(value \o operands), Len(value), before) = before + Len(operands)
  BY <1>1, <1>2, <1>3, JoinedReplayable
<1> QED
  BY <1>3, <1>4, <1>5 DEF before

LEMMA GetMerged ==
  ASSUME IndInv
  PROVE  Merged(Get(value, operands, now), Len(log), log)
<1> DEFINE before == Len(log) - Len(operands)
           w == value \o operands
<1>1. /\ value \in Seq(Message)
      /\ operands \in Seq(Message)
      /\ log \in Seq(Message)
      /\ now \in Int
  BY TimesAssumption DEF IndInv, TypeOK
<1>2. CASE operands = <<>>
  <2>1. Len(log) - Len(operands) = Len(log)
    BY <1>1, <1>2
  <2>2. Merged(value, Len(log), log)
    BY <2>1, Zenon DEF IndInv, StoreInv
  <2> QED
    BY <1>2, <2>2 DEF Get
<1>3. CASE operands # <<>>
  <2>1. Get(value, operands, now) = Replay(w, now, 0, now).msgs
    BY <1>3 DEF Get, FullMerge
  <2>2. 0 \in 0 .. Len(w)
    BY <1>1
  <2>3. Replayable(w, Len(value), before, log) /\ Reach(Len(w), Len(value), before) = Len(log)
    BY OperandsReplayable
  <2> HIDE DEF w, before
  <2>4. Merged(Replay(w, now, 0, now).msgs, Len(log), log)
    BY <1>1, <2>2, <2>3, ReplayMerges, Zenon
  <2> QED
    BY <2>1, <2>4
<1> QED
  BY <1>2, <1>3

(***************************************************************************)
(* A reader gets messages that a store may hold of all that was pushed,    *)
(* none of them dead.                                                      *)
(***************************************************************************)
LEMMA ReadableMerged ==
  ASSUME IndInv
  PROVE  /\ Merged(Readable, Len(log), log)
         /\ \A v \in ToSet(Readable) : ~ Dead(v, now)
<1> DEFINE g == Get(value, operands, now)
           r == Replay(g, now, 0, now)
<1>1. log \in Seq(Message) /\ now \in Int /\ Numbered(log)
  BY TimesAssumption DEF IndInv, TypeOK, StoreInv
<1>2. Merged(g, Len(log), log)
  BY GetMerged
<1> HIDE DEF g
<1>3. g \in Seq(Message) /\ 0 \in 0 .. Len(g)
  BY <1>2 DEF Merged
<1>4. /\ Replayable(g, Len(g), Len(log), log)
      /\ Reach(Len(g), Len(g), Len(log)) = Len(log)
  BY <1>1, <1>2, StoreReplayable
<1>5. /\ SoundQueue(r)
      /\ Merged(r.msgs, Len(log), log)
      /\ \A v \in ToSet(r.msgs) : ~ Dead(v, now)
  BY <1>1, <1>3, <1>4, ReplayMerges, Zenon
<1>6. Readable = CopyTo(r, 0, MaxPushes)
  BY Zenon DEF Readable, GetMessages, g
<1> HIDE DEF r
<1>7. /\ Readable \in Seq(Message)
      /\ Ordered(Readable)
      /\ ToSet(Readable) \subseteq ToSet(r.msgs)
  BY <1>5, <1>6, MaxPushesAssumption, CopyToPart
<1> QED
  BY <1>5, <1>7, MergedPart

(***************************************************************************)
(* A reader gets no dead message, and gets the messages in the order of    *)
(* their cursors and arrivals (rocksdb.cpp:68-105).                        *)
(***************************************************************************)
THEOREM ReadsAreSound == Spec => []ReadSound
<1>1. IndInv => ReadSound
  <2> SUFFICES ASSUME IndInv
               PROVE  ReadSound
    OBVIOUS
  <2> DEFINE s == Readable
  <2>1. Ordered(s) /\ \A v \in ToSet(s) : ~ Dead(v, now)
    BY ReadableMerged DEF Merged
  <2> HIDE DEF s
  <2>2. \A i \in DOMAIN s : ~ Dead(s[i], now)
    BY <2>1, Zenon DEF ToSet
  <2>3. \A i, j \in DOMAIN s : i < j => Before(s[i], s[j])
    BY <2>1, Zenon DEF Ordered, Before
  <2> QED
    BY <2>2, <2>3 DEF ReadSound, s
<1> QED
  BY StoreInvariance, <1>1, PTL

\* The messages pushed are in the log under their numbers.
LEMMA LoggedCurrent ==
  ASSUME IndInv, NEW v \in ToSet(Readable), NEW y \in ToSet(log), y.identity = v.identity
  PROVE  /\ y.action \in {"replace", "remove"} => y.arrival <= v.arrival
         /\ y.action # "publish" => y.arrival <= v.content
<1>1. Current(v, Len(log), log)
  BY ReadableMerged DEF Merged
<1>2. PICK j \in DOMAIN log : y = log[j]
  BY Zenon DEF ToSet
<1>3. log \in Seq(Message) /\ Numbered(log)
  BY DEF IndInv, TypeOK, StoreInv
<1>4. j \in 1 .. Len(log) /\ y.arrival = j
  BY <1>2, <1>3 DEF Numbered
<1> QED
  BY <1>1, <1>2, <1>4 DEF Current

(***************************************************************************)
(* What a remove or a replace took out does not come back, however often   *)
(* the messages before it are merged and replayed                          *)
(* (merge_operator.cpp:38-70).                                             *)
(***************************************************************************)
THEOREM NothingResurrects == Spec => []NoResurrection
<1>1. IndInv => NoResurrection
  BY LoggedCurrent DEF NoResurrection
<1> QED
  BY StoreInvariance, <1>1, PTL

(***************************************************************************)
(* No replay brings back a content from before the last change of its      *)
(* identity, although it carries out the stored actions again              *)
(* (merge_operator.cpp:27-28, message_queue.cpp:305-341).                  *)
(***************************************************************************)
THEOREM ContentsAreCurrent == Spec => []AsNew
<1>1. IndInv => AsNew
  BY LoggedCurrent DEF AsNew
<1> QED
  BY StoreInvariance, <1>1, PTL

-----------------------------------------------------------------------------
(***************************************************************************)
(* Messages that are only published.  Nothing takes one of them out of a   *)
(* replay but its death and newer messages, and of these no fewer than the *)
(* least limit: it is kept, it is dead, or it is not among the latest.     *)
(***************************************************************************)
LeastLimit == Min({x.limit : x \in Inputs})

PublishOnly ==
  \A m \in Inputs : m.action = "publish" /\ m.limit # 0 /\ m.lifetime # 0 /\ m.cursor >= 0

Storable(m) ==
  /\ m.action = "publish"
  /\ m.limit # 0
  /\ m.lifetime # 0
  /\ m.birthtime # 0
  /\ m.cursor >= 0
  /\ m.limit >= LeastLimit

Kept(m, S, time, l) == Remains(m, S, time, LeastLimit, ToSet(l))

Stores(s, n, time, l) ==
  /\ ToSet(s) \subseteq ToSet(l)
  /\ \A j \in 1 .. n : Kept(l[j], ToSet(s), time, l)

LEMMA LeastLimitIsLeast ==
  ASSUME Inputs # {}
  PROVE  LeastLimit \in Nat /\ \A m \in Inputs : m.limit >= LeastLimit
<1> DEFINE T == {x.limit : x \in Inputs}
<1>1. T \in SUBSET Nat /\ T # {} /\ \A m \in Inputs : m.limit \in T
  BY InputsAssumption, MessageFields
<1>2. LeastLimit = Min(T)
  BY Zenon DEF LeastLimit
<1> HIDE DEF T
<1>3. \E x \in T : \A y \in T : x <= y
  BY <1>1, Smallest
<1>4. Min(T) \in T /\ \A y \in T : Min(T) <= y
  BY <1>3, Zenon DEF Min
<1>5. \A a, b \in Nat : a <= b => b >= a
  OBVIOUS
<1> QED
  BY <1>1, <1>2, <1>4, <1>5

(***************************************************************************)
(* A replay keeps the messages of its list.                                *)
(***************************************************************************)
LEMMA ReplayStores ==
  ASSUME NEW l \in Seq(Message), \A v \in ToSet(l) : Storable(v), LeastLimit \in Nat,
         NEW n, NEW size, NEW w, Replayable(w, size, n, l), ToSet(w) \subseteq ToSet(l),
         NEW before \in Int, NEW after \in Int, before <= after, NEW k \in 0 .. Len(w),
         NEW r, r = Replay(w, before, k, after)
  PROVE  /\ ToSet(r.msgs) \subseteq ToSet(l)
         /\ \A i \in 1 .. Len(w) : Kept(w[i], ToSet(r.msgs), after, l)
<1> DEFINE T == ToSet(l)
<1>1. w \in Seq(Message) /\ InTurn(w) /\ DOMAIN w = 1 .. Len(w)
  BY DEF Replayable
<1>2. Keepable(LeastLimit, T)
  <2>1. IsFiniteSet(T)
    BY ListedSize
  <2>2. \A v \in T : v \in Message
    BY DEF ToSet
  <2> QED
    BY <2>1, <2>2, Zenon DEF Keepable, Lasting, Storable
<1>3. \A i \in DOMAIN w : w[i] \in T /\ w[i] \in ToSet(w)
  BY Zenon DEF ToSet
<1> HIDE DEF T
<1>4. /\ ToSet(r.msgs) \subseteq T
      /\ \A v \in ToSet(w) \cap T : Remains(v, ToSet(r.msgs), after, LeastLimit, T)
  BY <1>1, <1>2, <1>3, ReplayKeeps
<1> QED
  BY <1>1, <1>3, <1>4, Zenon DEF Kept, T

\* The list of a replay holds what was pushed, and a store of it.
LEMMA JoinedKeeps ==
  ASSUME NEW l \in Seq(Message), Numbered(l), \A v \in ToSet(l) : Storable(v), LeastLimit \in Nat,
         NEW n \in Nat, NEW s, Merged(s, n, l), NEW ops \in Seq(Message),
         n + Len(ops) <= Len(l), \A i \in 1 .. Len(ops) : ops[i] = l[n + i],
         NEW before \in Int, NEW after \in Int, before <= after, Stores(s, n, before, l),
         NEW k \in 0 .. Len(s) + Len(ops)
  PROVE  Stores(Replay(s \o ops, before, k, after).msgs, n + Len(ops), after, l)
<1> DEFINE w == s \o ops
           r == Replay(w, before, k, after)
           size == Len(s)
           d == Len(ops)
<1>1. /\ Replayable(w, size, n, l)
      /\ Len(w) = size + d
  <2> HIDE DEF w, size, d, r
  <2>1. Replayable(s \o ops, Len(s), n, l) /\ Len(s \o ops) = Len(s) + Len(ops)
    BY ONLY JoinedReplayable, Numbered(l), Merged(s, n, l), n + Len(ops) <= Len(l),
            \A i \in 1 .. Len(ops) : ops[i] = l[n + i], l \in Seq(Message), n \in Nat, ops \in Seq(Message)
  <2> QED
    BY <2>1, Zenon DEF w, size, d
<1>2. s \in Seq(Message) /\ size \in Nat /\ DOMAIN s = 1 .. size /\ d \in Nat
  BY DEF Merged
<1>3. /\ \A i \in 1 .. size : w[i] = s[i]
      /\ \A i \in 1 .. d : w[size + i] = ops[i]
      /\ DOMAIN w = 1 .. size + d
      /\ \A i \in 1 .. d : size + i \in 1 .. size + d
      /\ \A i \in 1 .. size : i \in 1 .. size + d
      /\ \A i \in 1 .. size + d : i \in 1 .. size \/ i - size \in 1 .. d
      /\ \A i \in 1 .. size + d : size + (i - size) = i
  BY <1>2
<1>4. \A i \in 1 .. d : n + i \in DOMAIN l
  BY <1>2
<1>5. Len(l) \in Nat /\ Numbered(l) /\ k \in 0 .. Len(w)
  BY <1>1
<1> HIDE DEF w, size, d
<1>6. \A i \in 1 .. d : w[size + i] = l[n + i]
  BY <1>3, Zenon DEF d
<1>7. ToSet(w) \subseteq ToSet(l)
  <2> SUFFICES ASSUME NEW i \in 1 .. size + d
               PROVE  w[i] \in ToSet(l)
    BY <1>3, ZenonT(60) DEF ToSet
  <2>1. CASE i \in 1 .. size
    <3>1. w[i] \in ToSet(s)
      BY <1>2, <1>3, <2>1, Zenon DEF ToSet
    <3> QED
      BY <3>1, Zenon DEF Stores
  <2>2. CASE i - size \in 1 .. d
    <3>1. w[i] = l[n + (i - size)] /\ n + (i - size) \in DOMAIN l
      BY <1>3, <1>4, <1>6, <2>2, Zenon
    <3> QED
      BY <3>1, Zenon DEF ToSet
  <2> QED
    BY <1>3, <2>1, <2>2, Zenon
<1>8. /\ ToSet(r.msgs) \subseteq ToSet(l)
      /\ \A i \in 1 .. size + d : Kept(w[i], ToSet(r.msgs), after, l)
  BY <1>1, <1>5, <1>7, ReplayStores, Zenon
<1> HIDE DEF r
<1>9. ASSUME NEW j \in 1 .. n + d
      PROVE  Kept(l[j], ToSet(r.msgs), after, l)
  <2>1. CASE j \in 1 .. n
    <3>1. Kept(l[j], ToSet(s), before, l)
      BY <2>1, Zenon DEF Stores
    <3>2. CASE l[j] \in ToSet(s)
      <4>1. PICK i \in 1 .. size : l[j] = s[i]
        BY <1>2, <3>2, Zenon DEF ToSet
      <4> QED
        BY <1>3, <1>8, <4>1, Zenon
    <3>3. CASE Dead(l[j], before)
      <4>1. l[j] \in Message
        BY <1>4, <2>1, <1>2 DEF d
      <4>2. Deathtime(l[j]) \in Int
        BY <4>1, MessageFields DEF Deathtime
      <4>3. Dead(l[j], after)
        BY <3>3, <4>2 DEF Dead
      <4> QED
        BY <4>3, Zenon DEF Kept, Remains
    <3> QED
      BY <3>1, <3>2, <3>3, Zenon DEF Kept, Remains
  <2>2. CASE j \notin 1 .. n
    <3>1. j - n \in 1 .. d /\ n + (j - n) = j
      BY <1>2, <2>2
    <3>2. w[size + (j - n)] = l[j] /\ size + (j - n) \in 1 .. size + d
      BY <1>3, <1>6, <3>1, Zenon
    <3> QED
      BY <1>8, <3>2, Zenon
  <2> QED
    BY <2>1, <2>2
<1> QED
  BY <1>8, <1>9 DEF Stores, r, w, d

KeepInv ==
  /\ Len(log) <= MaxPushes
  /\ log # <<>> => LeastLimit \in Nat
  /\ \A v \in ToSet(log) : Storable(v)
  /\ Stores(value, Len(log) - Len(operands), now, log)

LEMMA InitKeepInv == Init => KeepInv
<1>1. Len(<<>>) = 0 /\ ToSet(<<>>) = {}
  BY DEF ToSet
<1> QED
  BY <1>1, MaxPushesAssumption DEF Init, KeepInv, Stores

\* What was kept is kept, however much is pushed and however late it is.
LEMMA KeptOn ==
  ASSUME NEW l \in Seq(Message), NEW l2 \in Seq(Message), ToSet(l) \subseteq ToSet(l2),
         l = <<>> \/ LeastLimit \in Nat,
         NEW n \in 0 .. Len(l), \A j \in 1 .. n : l2[j] = l[j],
         NEW time \in Int, NEW time2 \in Int, time <= time2,
         NEW s, Stores(s, n, time, l)
  PROVE  Stores(s, n, time2, l2)
<1>1. Len(l) \in Nat /\ DOMAIN l = 1 .. Len(l)
  OBVIOUS
<1>2. ASSUME NEW j \in 1 .. n
      PROVE  Kept(l2[j], ToSet(s), time2, l2)
  <2>1. l2[j] = l[j] /\ j \in DOMAIN l /\ l[j] \in Message /\ Deathtime(l[j]) \in Int
    <3>1. j \in DOMAIN l
      BY <1>1
    <3> QED
      BY <3>1, SequenceFields
  <2>2. LeastLimit \in Nat /\ l[j] \in ToSet(l)
    <3>1. l # <<>>
      BY <2>1
    <3> QED
      BY <2>1, <3>1 DEF ToSet
  <2>3. Kept(l[j], ToSet(s), time, l)
    BY DEF Stores
  <2>4. Dead(l[j], time) => Dead(l[j], time2)
    BY <2>1 DEF Dead
  <2>5. l[j] \in Latest(LeastLimit, ToSet(l2)) => l[j] \in Latest(LeastLimit, ToSet(l))
    <3>1. LeastLimit <= LeastLimit
      BY <2>2
    <3> QED
      BY <2>2, <3>1, ListedSize, LatestOfFewer
  <2> QED
    BY <2>1, <2>3, <2>4, <2>5, Zenon DEF Kept, Remains
<1>3. ToSet(s) \subseteq ToSet(l2)
  BY DEF Stores
<1> QED
  BY <1>2, <1>3, Zenon DEF Stores

LEMMA PushedStorable ==
  ASSUME PublishOnly, 0 \notin Times, NEW time \in Times, NEW input \in Inputs, NEW n \in Nat
  PROVE  Storable(Born(Stamped(input, n), time))
<1>1. input \in Message /\ time \in Int /\ time # 0
  BY InputsAssumption, TimesAssumption
<1>2. input.limit >= LeastLimit
  BY LeastLimitIsLeast
<1> DEFINE m == Born(Stamped(input, n), time)
<1>3. /\ m.action = input.action
      /\ m.limit = input.limit
      /\ m.lifetime = input.lifetime
      /\ m.cursor = input.cursor
      /\ m.birthtime = IF input.birthtime = 0 THEN time ELSE input.birthtime
  BY <1>1 DEF Message, Stamped, Born
<1> HIDE DEF m
<1>4. m.birthtime # 0
  BY <1>1, <1>3
<1>5. input.action = "publish" /\ input.limit # 0 /\ input.lifetime # 0 /\ input.cursor >= 0
  BY Zenon DEF PublishOnly
<1> QED
  BY <1>2, <1>3, <1>4, <1>5, Zenon DEF Storable, m

LEMMA NextKeepInv ==
  ASSUME PublishOnly, 0 \notin Times
  PROVE  IndInv /\ KeepInv /\ [Next]_vars => KeepInv'
<1> SUFFICES ASSUME IndInv, KeepInv, [Next]_vars
             PROVE  KeepInv'
  OBVIOUS
<1> DEFINE l == log
           before == Len(l) - Len(operands)
<1>1. /\ value \in Seq(Message)
      /\ operands \in Seq(Message)
      /\ l \in Seq(Message)
      /\ now \in Times
      /\ now \in Int
      /\ Len(l) \in Nat
      /\ Len(operands) \in Nat
      /\ Len(value) \in Nat
  BY TimesAssumption DEF IndInv, TypeOK
<1>2. /\ Numbered(l)
      /\ Len(operands) <= Len(l)
      /\ \A i \in 1 .. Len(operands) : operands[i] = l[before + i]
      /\ Merged(value, before, l)
  BY DEF IndInv, StoreInv
<1>3. /\ Len(l) <= MaxPushes
      /\ l # <<>> => LeastLimit \in Nat
      /\ \A v \in ToSet(l) : Storable(v)
      /\ Stores(value, before, now, l)
  BY DEF KeepInv
<1>4. before \in 0 .. Len(l)
  BY <1>1, <1>2
<1> HIDE DEF l, before
<1>5. ASSUME NEW input \in Inputs, DoPush(input)
      PROVE  KeepInv'
  <2> DEFINE n == Len(l) + 1
             m == Born(Stamped(input, n), now)
             l2 == Append(l, m)
  <2>1. input \in Message /\ n \in Nat
    BY <1>1, InputsAssumption
  <2>2. m \in Message
    <3> DEFINE u == Stamped(input, n)
    <3> HIDE DEF n
    <3>1. u \in Message
      BY <2>1, StampedFields
    <3> HIDE DEF u
    <3> QED
      BY <1>1, <3>1, BornFields DEF u
  <2>3. Storable(m)
    <3> HIDE DEF n
    <3> QED
      BY <1>1, <2>1, PushedStorable
  <2>4. LeastLimit \in Nat
    BY LeastLimitIsLeast
  <2>5. /\ log' = l2
        /\ Len(operands') = Len(operands) + 1
        /\ value' = value
        /\ now' = now
        /\ Len(l) < MaxPushes
    <3>1. operands' = Append(operands, m) /\ log' = l2 /\ value' = value /\ now' = now
      BY <1>5 DEF DoPush, l
    <3>2. Len(l) < MaxPushes
      BY <1>5 DEF DoPush, l
    <3> HIDE DEF m
    <3> QED
      BY <1>1, <2>2, <3>1, <3>2
  <2> HIDE DEF m
  <2>6. /\ l2 \in Seq(Message)
        /\ Len(l2) = n
        /\ l2[n] = m
        /\ DOMAIN l2 = 1 .. n
        /\ \A i \in 1 .. Len(l) : l2[i] = l[i]
        /\ DOMAIN l = 1 .. Len(l)
        /\ l2 # <<>>
    BY <1>1, <2>2
  <2>7. ToSet(l2) = ToSet(l) \cup {m}
    <3>1. \A i \in 1 .. n : i \in 1 .. Len(l) \/ i = n
      BY <1>1
    <3>2. n \in 1 .. n /\ \A i \in 1 .. Len(l) : i \in 1 .. n
      BY <1>1
    <3> HIDE DEF l2, n
    <3>3. ASSUME NEW i \in 1 .. n
          PROVE  l2[i] \in ToSet(l) \cup {m}
      BY <2>6, <3>1, Zenon DEF ToSet
    <3>4. ASSUME NEW i \in 1 .. Len(l)
          PROVE  l[i] \in ToSet(l2)
      BY <2>6, <3>2, Zenon DEF ToSet
    <3>5. m \in ToSet(l2)
      BY <2>6, <3>2, Zenon DEF ToSet
    <3>6. ToSet(l2) \subseteq ToSet(l) \cup {m}
      BY <2>6, <3>3, Zenon DEF ToSet
    <3>7. ToSet(l) \subseteq ToSet(l2)
      BY <2>6, <3>4, Zenon DEF ToSet
    <3> QED
      BY <3>5, <3>6, <3>7, Zenon
  <2>8. Len(l2) - Len(operands') = before /\ Len(l2) <= MaxPushes
    <3> HIDE DEF l2
    <3> QED
      BY <1>1, <2>5, <2>6, MaxPushesAssumption DEF before
  <2> HIDE DEF l2, n
  <2>9. Stores(value, before, now, l2)
    <3>1. ToSet(l) \subseteq ToSet(l2) /\ \A j \in 1 .. before : l2[j] = l[j]
      BY <1>1, <1>4, <2>6, <2>7
    <3>2. now <= now
      BY <1>1
    <3> QED
      BY <1>1, <1>3, <1>4, <2>4, <2>6, <3>1, <3>2, KeptOn, Zenon
  <2> QED
    BY <1>3, <2>3, <2>4, <2>5, <2>7, <2>8, <2>9 DEF KeepInv
<1>6. ASSUME NEW n \in 1 .. Len(operands), NEW k \in 0 .. Len(value) + n,
             NEW time \in From(now), DoMerge(n, k, time)
      PROVE  KeepInv'
  <2> DEFINE ops == SubSeq(operands, 1, n)
             r == Replay(value \o ops, now, k, time)
  <2>1. time \in Int /\ now <= time
    BY <1>1, TimesAssumption DEF From
  <2>2. value' = r.msgs /\ Len(operands') = Len(operands) - n /\ now' = time /\ log' = l
    <3>1. operands' = SubSeq(operands, n + 1, Len(operands))
      BY <1>6 DEF DoMerge
    <3>2. Len(operands') = Len(operands) - n
      BY <1>1, <3>1
    <3> QED
      BY <1>6, <3>2 DEF DoMerge, FullMerge, l
  <2>3. ops \in Seq(Message) /\ Len(ops) = n /\ \A i \in 1 .. n : ops[i] = operands[i]
    BY <1>1
  <2> HIDE DEF ops
  <2>4. before \in Nat /\ before + n <= Len(l) /\ LeastLimit \in Nat
    <3>1. before + n <= Len(l) /\ Len(l) # 0
      BY <1>1, <1>2 DEF before
    <3> QED
      BY <1>1, <1>3, <1>4, <3>1
  <2>5. \A i \in 1 .. n : ops[i] = l[before + i]
    <3>1. \A i \in 1 .. n : i \in 1 .. Len(operands)
      BY <1>1
    <3> QED
      BY <1>2, <2>3, <3>1, Zenon
  <2>6. Stores(r.msgs, before + n, time, l)
    <3>1. /\ before + Len(ops) <= Len(l)
          /\ \A i \in 1 .. Len(ops) : ops[i] = l[before + i]
          /\ k \in 0 .. Len(value) + Len(ops)
      BY <2>3, <2>4, <2>5, Zenon
    <3>2. Stores(r.msgs, before + Len(ops), time, l)
      BY <1>1, <1>2, <1>3, <2>1, <2>3, <2>4, <3>1, JoinedKeeps
    <3> QED
      BY <2>3, <3>2, Zenon
  <2> HIDE DEF r
  <2>7. Len(l) - Len(operands') = before + n
    BY <1>1, <2>2 DEF before
  <2> QED
    BY <1>3, <2>2, <2>6, <2>7 DEF KeepInv
<1>7. ASSUME NEW time \in Int, now <= time, now' = time, UNCHANGED <<value, operands, log>>
      PROVE  KeepInv'
  <2>1. Stores(value, before, time, l)
    <3>1. l = <<>> \/ LeastLimit \in Nat
      BY <1>3
    <3> QED
      BY <1>1, <1>3, <1>4, <1>7, <3>1, KeptOn
  <2> QED
    BY <1>3, <1>7, <2>1 DEF KeepInv, l, before
<1>8. ASSUME NEW time \in From(now), SetClock(time)
      PROVE  KeepInv'
  <2>1. time \in Int /\ now <= time
    BY <1>1, TimesAssumption DEF From
  <2> QED
    BY <1>7, <1>8, <2>1 DEF SetClock
<1>9. CASE UNCHANGED vars
  <2>1. now <= now
    BY <1>1
  <2> QED
    BY <1>1, <1>7, <1>9, <2>1 DEF vars
<1> QED
  BY <1>5, <1>6, <1>8, <1>9, Zenon DEF Next

LEMMA ReadableKeeps ==
  ASSUME IndInv, KeepInv, log # <<>>
  PROVE  Stores(Readable, Len(log), now, log)
<1> DEFINE l == log
           before == Len(l) - Len(operands)
           g == Get(value, operands, now)
           r == Replay(g, now, 0, now)
<1>1. /\ value \in Seq(Message)
      /\ operands \in Seq(Message)
      /\ l \in Seq(Message)
      /\ now \in Int
      /\ now <= now
      /\ Len(l) \in Nat
      /\ Len(operands) \in Nat
      /\ Len(value) \in Nat
  BY TimesAssumption DEF IndInv, TypeOK
<1>2. /\ Numbered(l)
      /\ Len(operands) <= Len(l)
      /\ \A i \in 1 .. Len(operands) : operands[i] = l[before + i]
      /\ Merged(value, before, l)
  BY DEF IndInv, StoreInv
<1>3. /\ Len(l) <= MaxPushes
      /\ LeastLimit \in Nat
      /\ \A v \in ToSet(l) : Storable(v)
      /\ Stores(value, before, now, l)
  BY DEF KeepInv
<1>4. before \in Nat /\ before + Len(operands) = Len(l)
  BY <1>1, <1>2
<1>5. Merged(g, Len(l), l)
  BY GetMerged
<1> HIDE DEF l, before
<1>6. Stores(g, Len(l), now, l)
  <2>1. CASE operands = <<>>
    <3>1. g = value /\ before = Len(l)
      BY <1>1, <1>4, <2>1 DEF Get
    <3> QED
      BY <1>3, <3>1, Zenon
  <2>2. CASE operands # <<>>
    <3>1. g = Replay(value \o operands, now, 0, now).msgs
      BY <2>2, Zenon DEF Get, FullMerge
    <3>2. before + Len(operands) <= Len(l) /\ 0 \in 0 .. Len(value) + Len(operands)
      BY <1>1, <1>4
    <3>3. Stores(Replay(value \o operands, now, 0, now).msgs, before + Len(operands), now, l)
      BY <1>1, <1>2, <1>3, <1>4, <3>2, JoinedKeeps
    <3> QED
      BY <1>4, <3>1, <3>3, Zenon
  <2> QED
    BY <2>1, <2>2
<1> HIDE DEF g
<1>7. g \in Seq(Message) /\ Len(g) \in Nat
  BY <1>5 DEF Merged
<1>8. SoundQueue(r)
  <2>1. /\ Replayable(g, Len(g), Len(l), l)
        /\ Reach(Len(g), Len(g), Len(l)) = Len(l)
    BY <1>1, <1>2, <1>5, StoreReplayable
  <2>2. 0 \in 0 .. Len(g)
    BY <1>7
  <2> QED
    BY <1>1, <2>1, <2>2, ReplayMerges, Zenon
<1>9. Stores(r.msgs, Len(l), now, l)
  <2>1. /\ <<>> \in Seq(Message)
        /\ Len(<<>>) = 0
        /\ Len(l) + 0 = Len(l)
        /\ Len(l) <= Len(l)
        /\ g \o <<>> = g
        /\ 0 \in 0 .. Len(g) + 0
    BY <1>1, <1>7
  <2>2. /\ Len(l) + Len(<<>>) <= Len(l)
        /\ \A i \in 1 .. Len(<<>>) : <<>>[i] = l[Len(l) + i]
        /\ 0 \in 0 .. Len(g) + Len(<<>>)
    BY <2>1
  <2>3. Stores(Replay(g \o <<>>, now, 0, now).msgs, Len(l) + Len(<<>>), now, l)
    BY <1>1, <1>2, <1>3, <1>5, <1>6, <2>1, <2>2, JoinedKeeps
  <2> QED
    BY <2>1, <2>3, Zenon
<1>10. Readable = CopyTo(r, 0, MaxPushes)
  BY Zenon DEF Readable, GetMessages, g
<1> HIDE DEF r
<1>11. Len(r.msgs) <= MaxPushes
  <2>1. r.msgs \in Seq(Message) /\ Len(r.msgs) \in Nat /\ Cardinality(ToSet(r.msgs)) = Len(r.msgs)
    <3>1. r.msgs \in Seq(Message) /\ Ordered(r.msgs)
      BY <1>8, TypeOfSound
    <3> QED
      BY <3>1, HeldSize
  <2>2. IsFiniteSet(ToSet(l)) /\ Cardinality(ToSet(l)) <= Len(l)
    BY <1>1, ListedSize
  <2>3. Cardinality(ToSet(r.msgs)) <= Cardinality(ToSet(l))
    BY <1>9, <2>2, FS_Subset DEF Stores
  <2>4. Cardinality(ToSet(l)) \in Nat
    BY <2>2, FS_CardinalityType
  <2> QED
    BY <1>1, <1>3, <2>1, <2>2, <2>3, <2>4, MaxPushesAssumption
<1>12. \A v \in ToSet(r.msgs) : v.cursor >= 0
  BY <1>3, <1>9, Zenon DEF Stores, Storable
<1>13. ToSet(Readable) = ToSet(r.msgs)
  BY <1>8, <1>10, <1>11, <1>12, MaxPushesAssumption, CopyToAll
<1> QED
  BY <1>9, <1>13 DEF Stores, l

(***************************************************************************)
(* Of messages that are only published, each with room for n, the last n   *)
(* pushed are read for as long as they live, wherever the merges fell      *)
(* (merge_operator.cpp:38-70, rocksdb.cpp:55-105).  The hypotheses say     *)
(* that every message may be stored, and that the clock never shows 0, the *)
(* birthtime that stands for none.                                         *)
(***************************************************************************)
THEOREM PublishedIsKept ==
  ASSUME PublishOnly, 0 \notin Times
  PROVE  Spec => []LosesNothing
<1>1. IndInv /\ KeepInv => LosesNothing
  <2> SUFFICES ASSUME IndInv, KeepInv, NEW m \in Latest(LeastLimit, ToSet(log)), ~ Dead(m, now)
               PROVE  m \in ToSet(Readable)
    BY Zenon DEF LosesNothing, LeastLimit
  <2>1. PICK j \in DOMAIN log : m = log[j]
    BY Zenon DEF Latest, ToSet
  <2>2. log \in Seq(Message) /\ j \in 1 .. Len(log) /\ log # <<>>
    BY <2>1 DEF IndInv, TypeOK
  <2>3. Kept(m, ToSet(Readable), now, log)
    BY <2>1, <2>2, ReadableKeeps, Zenon DEF Stores
  <2> QED
    BY <2>3, Zenon DEF Kept, Remains
<1>2. IndInv /\ KeepInv /\ [Next]_vars => KeepInv'
  BY NextKeepInv
<1> QED
  BY StoreInvariance, InitKeepInv, <1>1, <1>2, PTL DEF Spec
===============================================================================
