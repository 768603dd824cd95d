-------------------------- MODULE MessageQueueProofs --------------------------
(***************************************************************************)
(* MessageQueueSpec proved for every set of messages, of clock values and  *)
(* of identities and every number of pushes: the deque stays ordered, the  *)
(* sequenced flag stays sound, remove_death drops exactly the dead, the     *)
(* statistics add up, copies are exact, and the queue implements Channel.  *)
(***************************************************************************)
EXTENDS MessageQueueSpec, QueueLemmas

(***************************************************************************)
(* The stamps.  What push number n + 1 brings is newer than all there is,  *)
(* and nothing it leaves is newer than that push.                          *)
(***************************************************************************)
LEMMA NotAfterShrinks ==
  ASSUME NEW s, NEW r, ToSet(r) \subseteq ToSet(s), NEW n \in Nat, NotAfter(s, n)
  PROVE  NotAfter(r, n)
BY DEF NotAfter, ToSet

LEMMA StampedNewer ==
  ASSUME NEW s \in Seq(Message), NEW n \in Nat, NotAfter(s, n), NEW m, m.arrival = n + 1
  PROVE  NewerThan(m, s)
<1>1. ASSUME NEW i \in DOMAIN s
      PROVE  s[i].arrival < m.arrival
  BY SequenceFields DEF NotAfter
<1> QED
  BY <1>1 DEF NewerThan, ToSet

LEMMA PushStamped ==
  ASSUME NEW x, SoundQueue(x), NEW t \in Int, NEW n \in Nat, NotAfter(x.msgs, n),
         NEW m \in Message, m.arrival = n + 1, m.content = n + 1
  PROVE  /\ SoundQueue(Push(x, t, m))
         /\ Push(x, t, m).lastRemoveDeath = t
         /\ NotAfter(Push(x, t, m).msgs, n + 1)
         /\ \A v \in ToSet(Push(x, t, m).msgs) :
              v \in ToSet(SweepOnce(x, t).msgs) \/ v.content = n + 1
<1> DEFINE y == Push(x, t, m)
<1>1. x.msgs \in Seq(Message)
  BY QueueFields DEF SoundQueue
<1>2. NewerThan(m, x.msgs)
  BY <1>1, StampedNewer
<1>3. /\ SoundQueue(y)
      /\ y.lastRemoveDeath = t
      /\ \A v \in ToSet(y.msgs) :
           \/ v \in ToSet(SweepOnce(x, t).msgs)
           \/ v.content = m.content /\ StandsFor(v, x.msgs, m)
  BY <1>2, PushSound
<1>4. \A v \in ToSet(x.msgs) : v.arrival \in Nat /\ v.arrival <= n /\ v.content \in Nat /\ v.content <= n
  BY <1>1, SequenceFields DEF NotAfter, ToSet
<1>5. ToSet(SweepOnce(x, t).msgs) \subseteq ToSet(x.msgs)
  BY SweepOnceSound
<1> HIDE DEF y
<1>6. \A v \in ToSet(y.msgs) : v.arrival <= n + 1 /\ v.content <= n + 1
  <2> TAKE v \in ToSet(y.msgs)
  <2>1. CASE v \in ToSet(x.msgs)
    BY <1>4, <2>1
  <2>2. CASE v.content = m.content /\ StandsFor(v, x.msgs, m)
    <3>1. PICK u \in ToSet(x.msgs) \cup {m} : v.arrival = u.arrival
      BY <2>2 DEF StandsFor
    <3> QED
      BY <1>4, <2>2, <3>1
  <2> QED
    BY <1>3, <1>5, <2>1, <2>2
<1>7. NotAfter(y.msgs, n + 1)
  BY <1>6 DEF NotAfter, ToSet
<1> QED
  BY <1>3, <1>7 DEF y

-----------------------------------------------------------------------------
(***************************************************************************)
(* The inductive invariant.  Order and soundness of the flag depend on the *)
(* stamps of the stored messages being older than the next push; that the  *)
(* throttle is sound depends on remove_death being exact, and that on the  *)
(* flag.                                                                   *)
(***************************************************************************)
IndInv ==
  /\ TypeOK
  /\ OrderedByCursor
  /\ SequencedSound
  /\ ThrottleSound

LEMMA SoundQueueOfInv ==
  ASSUME IndInv
  PROVE  /\ SoundQueue(q)
         /\ now \in Int
         /\ pushes \in Nat
         /\ \A v \in ToSet(q.msgs) : v.content <= mark => ~ Dead(v, q.lastRemoveDeath)
BY TimesAssumption, MaxPushesAssumption
   DEF IndInv, TypeOK, OrderedByCursor, SequencedSound, ThrottleSound, SoundQueue, ToSet

LEMMA InitInv == Init => IndInv
<1> SUFFICES ASSUME Init
             PROVE  IndInv
  OBVIOUS
<1>1. EmptyQueue \in QueueType /\ EmptyQueue.msgs = <<>>
  BY DEF EmptyQueue, QueueType
<1>2. DOMAIN EmptyQueue.msgs = {}
  BY <1>1
<1> QED
  BY <1>1, <1>2, MaxPushesAssumption
     DEF Init, IndInv, TypeOK, NotAfter, OrderedByCursor, Ordered, SequencedSound,
         DieTogether, ThrottleSound

\* A step that only takes messages out of the queue, or none, keeps the invariant.
LEMMA ShrunkInv ==
  ASSUME IndInv, SoundQueue(q'), q'.lastRemoveDeath = q.lastRemoveDeath,
         ToSet(q'.msgs) \subseteq ToSet(q.msgs), NotAfter(q'.msgs, pushes),
         now' \in Times, pushes' = pushes, mark' = mark, due' \in Int
  PROVE  IndInv'
<1>1. \A v \in ToSet(q.msgs) : v.content <= mark => ~ Dead(v, q.lastRemoveDeath)
  BY SoundQueueOfInv
<1>2. ThrottleSound'
  BY <1>1 DEF ThrottleSound, ToSet
<1>3. TypeOK'
  BY DEF IndInv, TypeOK, SoundQueue
<1> QED
  BY <1>2, <1>3 DEF IndInv, OrderedByCursor, SequencedSound, SoundQueue

LEMMA NextInv == IndInv /\ [Next]_vars => IndInv'
<1> SUFFICES ASSUME IndInv, [Next]_vars
             PROVE  IndInv'
  OBVIOUS
<1>1. /\ SoundQueue(q)
      /\ now \in Int
      /\ pushes \in Nat
      /\ NotAfter(q.msgs, pushes)
      /\ q.msgs \in Seq(Message)
      /\ \A v \in ToSet(q.msgs) : v.content <= mark => ~ Dead(v, q.lastRemoveDeath)
      /\ now \in Times
      /\ mark \in 0 .. pushes
      /\ due \in Int
  BY SoundQueueOfInv, QueueFields DEF IndInv, TypeOK, SoundQueue
<1>2. ASSUME NEW input \in Inputs, DoPush(input)
      PROVE  IndInv'
  <2> DEFINE m == Stamped(input, pushes + 1)
             w == SweepOnce(q, now)
  <2>1. m \in Message /\ m.arrival = pushes + 1 /\ m.content = pushes + 1
    <3>1. input \in Message /\ pushes + 1 \in Nat
      BY <1>1, InputsAssumption
    <3> QED
      BY <3>1, StampedFields
  <2>2. /\ q' = Push(q, now, m)
        /\ pushes < MaxPushes
        /\ pushes' = pushes + 1
        /\ mark' = IF q.lastRemoveDeath = now THEN mark ELSE pushes
        /\ due' = due + Placed(w.msgs, m) - Erased(w.msgs, m)
        /\ now' = now
    BY <1>2 DEF DoPush
  <2> HIDE DEF m
  <2>3. /\ SoundQueue(q')
        /\ q'.lastRemoveDeath = now
        /\ NotAfter(q'.msgs, pushes + 1)
        /\ \A v \in ToSet(q'.msgs) : v \in ToSet(w.msgs) \/ v.content = pushes + 1
    BY <1>1, <2>1, <2>2, PushStamped
  <2>4. Placed(w.msgs, m) \in Int /\ Erased(w.msgs, m) \in Int
    <3>1. w.msgs \in Seq(Message)
      BY <1>1, SweepOnceSound, QueueFields DEF SoundQueue
    <3>2. Matching(w.msgs, m) \in SUBSET DOMAIN w.msgs
      BY DEF Matching
    <3>3. Cardinality(Matching(w.msgs, m)) \in Nat
      BY <3>1, <3>2, KeepEnumerates
    <3>4. Erased(w.msgs, m) \in Int
      BY <3>3 DEF Erased
    <3>5. Placed(w.msgs, m) \in {0, 1}
      BY Zenon DEF Placed
    <3> QED
      BY <3>4, <3>5
  <2>5. TypeOK'
    BY <1>1, <2>2, <2>3, <2>4, MaxPushesAssumption DEF TypeOK, SoundQueue
  <2>6. ThrottleSound'
    <3> SUFFICES ASSUME NEW v \in ToSet(q'.msgs), v.content <= mark'
                 PROVE  ~ Dead(v, now)
      BY <2>3 DEF ThrottleSound, ToSet
    <3>1. mark' <= pushes /\ mark' \in Int
      BY <1>1, <2>2
    <3>2. v \in ToSet(w.msgs)
      BY <1>1, <2>3, <3>1
    <3>3. CASE q.lastRemoveDeath = now
      BY <1>1, <2>2, <3>2, <3>3, SweepOnceSound
    <3>4. CASE q.lastRemoveDeath # now
      BY <1>1, <3>2, <3>4, SweepOnceSound
    <3> QED
      BY <3>3, <3>4
  <2> QED
    BY <2>3, <2>5, <2>6 DEF IndInv, OrderedByCursor, SequencedSound, SoundQueue
<1>3. CASE DoRemoveDeath
  <2>1. SoundQueue(q') /\ q'.lastRemoveDeath = q.lastRemoveDeath /\ NotAfter(q'.msgs, pushes)
        /\ ToSet(q'.msgs) = {v \in ToSet(q.msgs) : ~ Dead(v, now)}
    <3>1. SoundQueue(q') /\ q'.lastRemoveDeath = q.lastRemoveDeath
          /\ ToSet(q'.msgs) = {v \in ToSet(q.msgs) : ~ Dead(v, now)}
      BY <1>1, <1>3, RemoveDeathSound DEF DoRemoveDeath
    <3> QED
      BY <1>1, <3>1, NotAfterShrinks
  <2> QED
    BY <1>1, <1>3, <2>1, ShrunkInv DEF DoRemoveDeath
<1>4. ASSUME NEW limit \in 0 .. Len(q.msgs), DoResize(limit)
      PROVE  IndInv'
  <2>1. limit \in Nat
    BY <1>1
  <2>2. SoundQueue(q') /\ q'.lastRemoveDeath = q.lastRemoveDeath /\ NotAfter(q'.msgs, pushes)
        /\ ToSet(q'.msgs) \subseteq ToSet(q.msgs)
    <3>1. SoundQueue(q') /\ q'.lastRemoveDeath = q.lastRemoveDeath
          /\ ToSet(q'.msgs) \subseteq ToSet(q.msgs)
      BY <1>1, <1>4, <2>1, ResizeSound DEF DoResize
    <3> QED
      BY <1>1, <3>1, NotAfterShrinks
  <2> QED
    BY <1>1, <1>4, <2>2, ShrunkInv DEF DoResize
<1>5. CASE DoClear
  <2>1. Clear(q) \in QueueType /\ Clear(q).msgs = <<>>
        /\ Clear(q).lastRemoveDeath = q.lastRemoveDeath
    <3>1. q \in QueueType /\ <<>> \in Seq(Message)
      BY <1>1 DEF SoundQueue
    <3> QED
      BY <3>1 DEF Clear, QueueType
  <2>2. DOMAIN q'.msgs = {} /\ due' \in Int
    BY <1>1, <1>5, <2>1 DEF DoClear
  <2>3. SoundQueue(q') /\ NotAfter(q'.msgs, pushes) /\ ToSet(q'.msgs) = {}
    BY <1>5, <2>1, <2>2 DEF DoClear, SoundQueue, NotAfter, ToSet, Ordered, DieTogether
  <2> QED
    BY <1>1, <1>5, <2>1, <2>2, <2>3, ShrunkInv DEF DoClear
<1>6. CASE DoGetRemoved
  <2>1. ResetRemoved(q) \in QueueType /\ ResetRemoved(q).msgs = q.msgs
        /\ ResetRemoved(q).sequenced = q.sequenced
        /\ ResetRemoved(q).lastRemoveDeath = q.lastRemoveDeath
    BY <1>1 DEF ResetRemoved, QueueType, SoundQueue
  <2>2. due' \in Int
    BY <1>1, <1>6 DEF DoGetRemoved, SoundQueue, QueueType
  <2> QED
    BY <1>1, <1>6, <2>1, <2>2, ShrunkInv DEF DoGetRemoved, SoundQueue
<1>7. ASSUME NEW t \in Times, SetClock(t)
      PROVE  IndInv'
  BY <1>1, <1>7, ShrunkInv DEF SetClock, SoundQueue
<1>8. CASE UNCHANGED vars
  BY <1>1, <1>8, ShrunkInv DEF vars, SoundQueue
<1> QED
  BY <1>2, <1>3, <1>4, <1>5, <1>6, <1>7, <1>8 DEF Next

-----------------------------------------------------------------------------
THEOREM Invariance == Spec => []IndInv
BY InitInv, NextInv, PTL DEF Spec

(***************************************************************************)
(* The queue and its counters have their types throughout                  *)
(* (message_queue.hpp:191-197).                                            *)
(***************************************************************************)
THEOREM TypeCorrect == Spec => []TypeOK
<1>1. IndInv => TypeOK
  BY DEF IndInv
<1> QED
  BY Invariance, <1>1, PTL

(***************************************************************************)
(* No sequence of calls disturbs the order of the deque by cursor and      *)
(* arrival that upper_bound, lower_bound and resize rely on.               *)
(***************************************************************************)
THEOREM DequeOrdered == Spec => []OrderedByCursor
<1>1. IndInv => OrderedByCursor
  BY DEF IndInv
<1> QED
  BY Invariance, <1>1, PTL

(***************************************************************************)
(* Whenever _sequenced_flag is set, all stored messages die together.      *)
(***************************************************************************)
THEOREM FlagSound == Spec => []SequencedSound
<1>1. IndInv => SequencedSound
  BY DEF IndInv
<1> QED
  BY Invariance, <1>1, PTL

(***************************************************************************)
(* What push's look for dead messages, at most one per second, may miss    *)
(* was written after the look.                                             *)
(***************************************************************************)
THEOREM LookSound == Spec => []ThrottleSound
<1>1. IndInv => ThrottleSound
  BY DEF IndInv
<1> QED
  BY Invariance, <1>1, PTL

(***************************************************************************)
(* In every state, and for every time remove_death may be given, what it   *)
(* leaves is exactly what is alive at that time, although it does not look *)
(* behind the front of a deque whose flag is set.                          *)
(***************************************************************************)
THEOREM RemoveDeathExact == Spec => []SweepExact
<1>1. IndInv => SweepExact
  <2> SUFFICES ASSUME IndInv, NEW t \in Times
               PROVE  ToSet(RemoveDeath(q, t).msgs) = {x \in ToSet(q.msgs) : ~ Dead(x, t)}
    BY DEF SweepExact
  <2>1. t \in Int
    BY TimesAssumption
  <2> QED
    BY <2>1, SoundQueueOfInv, RemoveDeathSound
<1> QED
  BY Invariance, <1>1, PTL

-----------------------------------------------------------------------------
LEMMA ApplyTotal ==
  ASSUME NEW x, SoundQueue(x), NEW t \in Int, NEW m \in Message, ~ HandedBack(m)
  PROVE  Total(Apply(x, t, m)) = Total(x) + Placed(x.msgs, m) - Erased(x.msgs, m)
<1> DEFINE e == Erase(x, m)
           k == Cardinality(Matching(x.msgs, m))
<1>1. x.msgs \in Seq(Message) /\ Total(x) \in Int
  BY TypeOfSound DEF Total
<1>2. SoundQueue(e) /\ Total(e) = Total(x) - k /\ k \in Int
  <2>1. SoundQueue(e) /\ Total(e) = Total(x) - k
    BY EraseSound, EraseTotal
  <2>2. k \in Nat
    BY <1>1, MatchingSize
  <2> HIDE DEF e, k
  <2> QED
    BY <2>1, <2>2
<1> HIDE DEF e, k
<1>3. CASE m.action = "publish"
  <2>1. Apply(x, t, m) = Publish_(x, t, m)
    BY <1>3 DEF Apply
  <2>2. Placed(x.msgs, m) = 1 /\ Erased(x.msgs, m) = 0
    BY <1>3 DEF Placed, Erased
  <2>3. Total(Apply(x, t, m)) = Total(x) + 1
    BY <2>1, PublishTotal, Zenon
  <2> QED
    BY <1>1, <2>2, <2>3
<1>4. CASE m.action = "modify"
  <2> DEFINE added == IF m.lifetime # 0 /\ Matching(x.msgs, m) = {} THEN 1 ELSE 0
  <2>1. Apply(x, t, m) = Modify_(x, t, m)
    BY <1>4 DEF Apply
  <2>2. Placed(x.msgs, m) = added /\ Erased(x.msgs, m) = 0 /\ added \in Int
    BY <1>4 DEF Placed, Erased
  <2>3. Total(Apply(x, t, m)) = Total(x) + added
    BY <2>1, ModifyTotal, Zenon
  <2> HIDE DEF added
  <2> QED
    BY <1>1, <2>2, <2>3
<1>5. CASE m.action = "update"
  <2> DEFINE added == IF m.lifetime # 0 /\ Matching(x.msgs, m) = {} THEN 1 ELSE 0
  <2>1. Apply(x, t, m) = Update_(x, t, m)
    BY <1>5 DEF Apply
  <2>2. Placed(x.msgs, m) = added /\ Erased(x.msgs, m) = 0 /\ added \in Int
    BY <1>5 DEF Placed, Erased
  <2>3. Total(Apply(x, t, m)) = Total(x) + added
    BY <2>1, UpdateTotal, Zenon
  <2> HIDE DEF added
  <2> QED
    BY <1>1, <2>2, <2>3
<1>6. CASE m.action = "replace"
  <2>1. Apply(x, t, m) = Publish_(e, t, m)
    BY <1>6 DEF Apply, Replace_, e
  <2>2. Total(Apply(x, t, m)) = (Total(x) - k) + 1
    BY <1>2, <2>1, PublishTotal
  <2>3. Placed(x.msgs, m) = 1 /\ Erased(x.msgs, m) = k
    BY <1>6 DEF Placed, Erased, k
  <2> QED
    BY <1>1, <1>2, <2>2, <2>3
<1>7. CASE m.action = "remove"
  <2> DEFINE added == IF m.lifetime # 0 THEN 1 ELSE 0
  <2>1. Apply(x, t, m) = PublishIfLasting(e, t, m)
    BY <1>7 DEF Apply, Remove_, e
  <2>2. Total(Apply(x, t, m)) = (Total(x) - k) + added
    BY <1>2, <2>1, PublishIfLastingTotal
  <2>3. Placed(x.msgs, m) = added /\ Erased(x.msgs, m) = k /\ added \in Int
    BY <1>7 DEF Placed, Erased, k
  <2> HIDE DEF added
  <2> QED
    BY <1>1, <1>2, <2>2, <2>3
<1> QED
  BY <1>3, <1>4, <1>5, <1>6, <1>7 DEF Message, Actions

LEMMA PushTotal ==
  ASSUME NEW x, SoundQueue(x), NEW t \in Int, NEW m \in Message, NewerThan(m, x.msgs)
  PROVE  LET w == SweepOnce(x, t)
         IN  Total(Push(x, t, m)) = Total(x) + Placed(w.msgs, m) - Erased(w.msgs, m)
<1> DEFINE w == SweepOnce(x, t)
           y == Apply(w, t, m)
<1>1. SoundQueue(w) /\ NewerThan(m, w.msgs) /\ Total(w) = Total(x)
  BY SweepOnceSound, SweepOnceTotal DEF NewerThan
<1>2. Total(x) \in Int
  BY TypeOfSound DEF Total
<1>3. CASE HandedBack(m)
  <2>1. Push(x, t, m) = IF m.limit = 0 THEN Resize(w, 0) ELSE w
    BY <1>3, Zenon DEF Push
  <2> HIDE DEF w
  <2>2. Total(Push(x, t, m)) = Total(x)
    BY <1>1, <2>1, ResizeTotal
  <2>4. m.action = "publish"
    BY <1>3 DEF HandedBack
  <2>3. Placed(w.msgs, m) = 0
    BY <1>3, <2>4 DEF Placed
  <2>5. Erased(w.msgs, m) = 0
    BY <2>4 DEF Erased
  <2> QED
    BY <1>2, <2>2, <2>3, <2>5 DEF w
<1>4. CASE ~ HandedBack(m)
  <2>1. Push(x, t, m) = Resize(y, m.limit)
    BY <1>4, Zenon DEF Push
  <2> HIDE DEF w
  <2>2. SoundQueue(y)
    BY <1>1, ApplySound DEF PushedInto
  <2>3. Total(y) = Total(w) + Placed(w.msgs, m) - Erased(w.msgs, m)
    BY <1>1, <1>4, ApplyTotal
  <2>4. m.limit \in Nat
    BY MessageFields
  <2> HIDE DEF y
  <2>5. Total(Push(x, t, m)) = Total(y)
    BY <2>1, <2>2, <2>4, ResizeTotal
  <2> QED
    BY <1>1, <2>3, <2>5 DEF w
<1> QED
  BY <1>3, <1>4

-----------------------------------------------------------------------------
LEMMA StampedInput ==
  ASSUME NEW input \in Inputs, pushes \in Nat
  PROVE  LET m == Stamped(input, pushes + 1)
         IN  /\ m \in Message
             /\ m.arrival = pushes + 1
             /\ m.content = pushes + 1
BY InputsAssumption, StampedFields

LEMMA NextAccounting == IndInv /\ Accounting /\ [Next]_vars => Accounting'
<1> SUFFICES ASSUME IndInv, Accounting, [Next]_vars
             PROVE  Accounting'
  OBVIOUS
<1>1. /\ SoundQueue(q)
      /\ now \in Int
      /\ pushes \in Nat
      /\ NotAfter(q.msgs, pushes)
      /\ Total(q) = due
      /\ due \in Int
  BY SoundQueueOfInv DEF IndInv, TypeOK, Accounting, Total
<1>2. q \in QueueType /\ Len(q.msgs) \in Nat /\ q.removed \in Nat
  BY <1>1, TypeOfSound
<1>3. SUFFICES Total(q') = due'
  BY DEF Accounting, Total
<1>4. ASSUME NEW input \in Inputs, DoPush(input)
      PROVE  Total(q') = due'
  <2> DEFINE m == Stamped(input, pushes + 1)
             w == SweepOnce(q, now)
  <2>1. m \in Message /\ m.arrival = pushes + 1 /\ m.content = pushes + 1
    BY <1>1, StampedInput
  <2>2. q' = Push(q, now, m) /\ due' = due + Placed(w.msgs, m) - Erased(w.msgs, m)
    BY <1>4 DEF DoPush
  <2> HIDE DEF m
  <2>3. Total(Push(q, now, m)) = Total(q) + Placed(w.msgs, m) - Erased(w.msgs, m)
    <3>1. NewerThan(m, q.msgs)
      BY <1>1, <1>2, <2>1, StampedNewer DEF QueueType
    <3> HIDE DEF w
    <3> QED
      BY <1>1, <2>1, <3>1, PushTotal DEF w
  <2> QED
    BY <1>1, <2>2, <2>3
<1>5. CASE DoRemoveDeath
  BY <1>1, <1>5, RemoveDeathTotal DEF DoRemoveDeath
<1>6. ASSUME NEW limit \in 0 .. Len(q.msgs), DoResize(limit)
      PROVE  Total(q') = due'
  BY <1>1, <1>2, <1>6, ResizeTotal DEF DoResize
<1>7. CASE DoClear
  BY <1>1, <1>2, <1>7 DEF DoClear, Clear, QueueType, Total
<1>8. CASE DoGetRemoved
  BY <1>1, <1>2, <1>8 DEF DoGetRemoved, ResetRemoved, QueueType, Total
<1>9. ASSUME NEW t \in Times, SetClock(t)
      PROVE  Total(q') = due'
  BY <1>1, <1>9 DEF SetClock, Total
<1>10. CASE UNCHANGED vars
  BY <1>1, <1>10 DEF vars, Total
<1> QED
  BY <1>4, <1>5, <1>6, <1>7, <1>8, <1>9, <1>10 DEF Next

(***************************************************************************)
(* The statistics of the queue add up: _removed counts every message that  *)
(* the front loop, the full sweep and resize took, once                    *)
(* (message_queue.cpp:187-256).                                            *)
(***************************************************************************)
THEOREM StatisticsAddUp == Spec => []Accounting
<1>1. Init => Accounting
  BY DEF Init, Accounting, EmptyQueue
<1> QED
  BY Invariance, <1>1, NextAccounting, PTL DEF Spec

-----------------------------------------------------------------------------
(***************************************************************************)
(* What subscribe and get_messages copy from a queue is what they were     *)
(* asked for (message_queue.hpp:150-160).                                  *)
(***************************************************************************)
THEOREM CopiesExact == Spec => []SnapshotExact
<1>1. IndInv => SnapshotExact
  <2> SUFFICES ASSUME IndInv
               PROVE  \A c \in {m.cursor : m \in Inputs} \cup {0}, n \in 0 .. MaxPushes : ExactCopy(q, c, n)
    BY Zenon DEF SnapshotExact, ExactCopy
  <2> TAKE c \in {m.cursor : m \in Inputs} \cup {0}, n \in 0 .. MaxPushes
  <2>1. c \in Int /\ n \in Nat
    BY InputsAssumption, MaxPushesAssumption, MessageFields
  <2>2. SoundQueue(q)
    BY SoundQueueOfInv
  <2> QED
    BY <2>1, <2>2, CopyToExact
<1> QED
  BY Invariance, <1>1, PTL
-----------------------------------------------------------------------------
(***************************************************************************)
(* The refinement of Channel.                                              *)
(***************************************************************************)
\* The operators that Channel takes from the modules it extends are those of this one.
LEMMA SameOperators ==
  /\ \A S : ChannelView!Cardinality(S) = Cardinality(S)
  /\ \A x, t : ChannelView!Dead(x, t) = Dead(x, t)
  /\ \A m, n : ChannelView!Stamped(m, n) = Stamped(m, n)
  /\ \A m : ChannelView!HandedBack(m) = HandedBack(m)
  /\ \A n, S : ChannelView!Latest(n, S) = Latest(n, S)
  /\ \A S, m, t : ChannelView!Effect(S, m, t) = Effect(S, m, t)
<1>1. \A S : ChannelView!Cardinality(S) = Cardinality(S)
  BY Zenon DEF ChannelView!Cardinality, Cardinality
<1>2. \A x, t : ChannelView!Dead(x, t) = Dead(x, t)
  BY Zenon DEF ChannelView!Dead, Dead, ChannelView!Deathtime, Deathtime
<1>3. \A m, n : ChannelView!Stamped(m, n) = Stamped(m, n)
  BY Zenon DEF ChannelView!Stamped, Stamped
<1>4. \A m : ChannelView!HandedBack(m) = HandedBack(m)
  BY Zenon DEF ChannelView!HandedBack, HandedBack, ChannelView!Unlimited, Unlimited
<1>5. \A n, S : ChannelView!Latest(n, S) = Latest(n, S)
  BY <1>1 DEF ChannelView!Latest, Latest, ChannelView!Before, Before
<1>6. \A S, m, t : ChannelView!Effect(S, m, t) = Effect(S, m, t)
  BY DEF ChannelView!Effect, Effect, ChannelView!Same, Same, ChannelView!Others, Others,
         ChannelView!Born, Born, ChannelView!Updated, Updated, ChannelView!Modified, Modified
<1> QED
  BY <1>1, <1>2, <1>3, <1>4, <1>5, <1>6, Zenon

\* A push is accepted or handed back.
LEMMA PushImplements ==
  ASSUME IndInv, NEW input \in Inputs, DoPush(input)
  PROVE  ChannelView!Accept(input) \/ ChannelView!HandBack(input)
<1> DEFINE m == Stamped(input, pushes + 1)
           S == ToSet(q.msgs)
<1>1. /\ SoundQueue(q)
      /\ now \in Int
      /\ pushes \in Nat
      /\ NotAfter(q.msgs, pushes)
  BY SoundQueueOfInv DEF IndInv, TypeOK
<1>2. input \in Message /\ m \in Message /\ m.arrival = pushes + 1 /\ m.content = pushes + 1
  BY <1>1, StampedInput, InputsAssumption
<1>3. m.limit = input.limit /\ (HandedBack(m) <=> HandedBack(input))
  <2>1. /\ m.limit = input.limit
        /\ m.lifetime = input.lifetime
        /\ m.action = input.action
    BY <1>2 DEF Stamped, Message
  <2> HIDE DEF m
  <2> QED
    BY <2>1, Zenon DEF HandedBack, Unlimited
<1>4. q' = Push(q, now, m) /\ pushes < MaxPushes /\ pushes' = pushes + 1 /\ now' = now
  BY DEF DoPush
<1>5. /\ ChannelView!Stamped(input, pushes + 1) = m
      /\ ChannelView!HandedBack(input) <=> HandedBack(input)
      /\ ChannelView!DeadNow = {v \in S : Dead(v, now)}
  BY SameOperators, Zenon DEF ChannelView!DeadNow
<1>6. NewerThan(m, q.msgs)
  <2>1. q.msgs \in Seq(Message)
    BY <1>1, QueueFields DEF SoundQueue
  <2> QED
    BY <1>1, <1>2, <2>1, StampedNewer
<1> HIDE DEF m
<1>7. PICK expired \in SUBSET {v \in S : Dead(v, now)} :
        ToSet(q'.msgs) =
          IF HandedBack(m) THEN (IF m.limit = 0 THEN {} ELSE S \ expired)
          ELSE Latest(m.limit, Effect(S \ expired, m, now))
  BY <1>1, <1>2, <1>4, <1>6, PushElements, Zenon
<1> HIDE DEF S
<1>8. CASE HandedBack(m)
  BY <1>3, <1>4, <1>5, <1>7, <1>8, Zenon DEF ChannelView!HandBack, S
<1>9. CASE ~ HandedBack(m)
  <2>1. ToSet(q'.msgs) =
          ChannelView!Latest(input.limit, ChannelView!Effect(S \ expired, m, now))
    BY <1>3, <1>7, <1>9, SameOperators, Zenon
  <2> QED
    BY <1>3, <1>4, <1>5, <1>9, <2>1, Zenon DEF ChannelView!Accept, S
<1> QED
  BY <1>8, <1>9

(***************************************************************************)
(* Every step of the queue is a step of the channel, or changes nothing    *)
(* the channel shows.                                                      *)
(***************************************************************************)
LEMMA StepImplements ==
  ASSUME IndInv, [Next]_vars
  PROVE  [ChannelView!Next]_(ChannelView!vars)
<1>1. /\ SoundQueue(q)
      /\ q \in QueueType
      /\ now \in Int
      /\ q.msgs \in Seq(Message)
      /\ Ordered(q.msgs)
  BY SoundQueueOfInv, TypeOfSound
<1>2. ASSUME NEW input \in Inputs, DoPush(input)
      PROVE  ChannelView!Next
  BY <1>2, PushImplements, Zenon DEF ChannelView!Next
<1>3. CASE DoRemoveDeath
  <2>1. ToSet(q'.msgs) = {v \in ToSet(q.msgs) : ~ Dead(v, now)}
    BY <1>1, <1>3, RemoveDeathSound DEF DoRemoveDeath
  <2>2. ChannelView!DeadNow = {v \in ToSet(q.msgs) : Dead(v, now)}
    BY SameOperators, Zenon DEF ChannelView!DeadNow
  <2>3. ToSet(q'.msgs) = ToSet(q.msgs) \ ChannelView!DeadNow
    BY <2>1, <2>2, Zenon
  <2>4. ChannelView!Sweep
    BY <1>3, <2>3 DEF DoRemoveDeath, ChannelView!Sweep
  <2> QED
    BY <2>4, Zenon DEF ChannelView!Next
<1>4. ASSUME NEW n \in 0 .. Len(q.msgs), ToSet(q'.msgs) = Latest(n, ToSet(q.msgs)),
             UNCHANGED <<now, pushes>>
      PROVE  ChannelView!Next
  <2>1. ChannelView!Cardinality(ToSet(q.msgs)) = Len(q.msgs)
    BY <1>1, HeldSize, SameOperators, Zenon
  <2>2. ChannelView!Shrink(n)
    BY <1>4, SameOperators DEF ChannelView!Shrink
  <2> QED
    BY <2>1, <2>2, Zenon DEF ChannelView!Next
<1>5. ASSUME NEW n \in 0 .. Len(q.msgs), DoResize(n)
      PROVE  ChannelView!Next
  <2>1. n \in Nat
    BY <1>1
  <2>2. ToSet(q'.msgs) = Latest(n, ToSet(q.msgs))
    BY <1>1, <1>5, <2>1, ResizeLatest DEF DoResize
  <2> QED
    BY <1>4, <1>5, <2>2 DEF DoResize
<1>6. CASE DoClear
  <2>1. ToSet(q'.msgs) = {}
    <3>1. q'.msgs = <<>>
      BY <1>1, <1>6 DEF DoClear, Clear, QueueType
    <3> QED
      BY <3>1 DEF ToSet
  <2>2. Latest(0, ToSet(q.msgs)) = {}
    BY <1>1, LatestNone
  <2>3. 0 \in 0 .. Len(q.msgs)
    BY <1>1
  <2> QED
    BY <1>4, <1>6, <2>1, <2>2, <2>3 DEF DoClear
<1>7. CASE DoGetRemoved
  <2>1. q'.msgs = q.msgs
    BY <1>1, <1>7 DEF DoGetRemoved, ResetRemoved, QueueType
  <2> QED
    BY <1>7, <2>1 DEF DoGetRemoved, ChannelView!vars
<1>8. ASSUME NEW t \in Times, SetClock(t)
      PROVE  ChannelView!Next
  <2>1. ChannelView!SetClock(t)
    BY <1>8 DEF SetClock, ChannelView!SetClock
  <2> QED
    BY <2>1, Zenon DEF ChannelView!Next
<1>9. CASE UNCHANGED vars
  BY <1>9 DEF vars, ChannelView!vars
<1> QED
  BY <1>2, <1>3, <1>5, <1>6, <1>7, <1>8, <1>9, Zenon DEF Next

(***************************************************************************)
(* A message_queue implements Channel: as its users see it, it is a set of *)
(* messages ordered by cursor and arrival; the deque, the flag and the     *)
(* look for dead messages once per second only decide which of the dead    *)
(* are still there (message_queue.cpp:149-256).                            *)
(***************************************************************************)
THEOREM QueueImplementsChannel == Spec => ImplementsChannel
<1>1. Init => ChannelView!Init
  <2> SUFFICES ASSUME Init
               PROVE  ChannelView!Init
    OBVIOUS
  <2>1. ToSet(q.msgs) = {}
    BY DEF Init, EmptyQueue, ToSet
  <2> QED
    BY <2>1 DEF Init, ChannelView!Init
<1>2. IndInv /\ [Next]_vars => [ChannelView!Next]_(ChannelView!vars)
  BY StepImplements
<1> QED
  BY Invariance, <1>1, <1>2, PTL DEF Spec, ImplementsChannel, ChannelView!Spec
=============================================================================
