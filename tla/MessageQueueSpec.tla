--------------------------- MODULE MessageQueueSpec ---------------------------
(***************************************************************************)
(* One message_queue in use.  Its owner (channel_map, or a replay of       *)
(* stored messages) calls its methods one at a time; between two calls the *)
(* clock of the host may take any value, forwards or backwards.            *)
(***************************************************************************)
EXTENDS MessageQueue

CONSTANTS
  Inputs,      \* the messages that may be pushed
  Times,       \* the values time(nullptr) may return
  MaxPushes    \* bound: the pushes of a run

ASSUME InputsAssumption == Inputs \subseteq Message
ASSUME TimesAssumption == Times \subseteq Int
ASSUME MaxPushesAssumption == MaxPushes \in Nat

VARIABLES
  q,           \* the queue
  now,         \* what time(nullptr) returns
  pushes,      \* how many pushes there have been
  mark,        \* pushes when push last looked for dead messages
  due          \* messages placed, less those erased by identity, by clear or already reported

vars == <<q, now, pushes, mark, due>>

-----------------------------------------------------------------------------
Init ==
  /\ q = EmptyQueue
  /\ now \in Times
  /\ pushes = 0
  /\ mark = 0
  /\ due = 0

\* The number of messages a push places in s, and of those it erases by identity.
Placed(s, m) ==
  CASE m.action = "publish" -> IF HandedBack(m) THEN 0 ELSE 1
    [] m.action = "replace" -> 1
    [] m.action = "remove" -> IF m.lifetime # 0 THEN 1 ELSE 0
    [] OTHER -> IF m.lifetime # 0 /\ Matching(s, m) = {} THEN 1 ELSE 0

Erased(s, m) == IF m.action \in {"replace", "remove"} THEN Cardinality(Matching(s, m)) ELSE 0

DoPush(input) ==
  LET m     == Stamped(input, pushes + 1)
      swept == SweepOnce(q, now)
  IN  /\ pushes < MaxPushes
      /\ q' = Push(q, now, m)
      /\ pushes' = pushes + 1
      /\ mark' = IF q.lastRemoveDeath = now THEN mark ELSE pushes
      /\ due' = due + Placed(swept.msgs, m) - Erased(swept.msgs, m)
      /\ UNCHANGED now

DoRemoveDeath ==
  /\ q' = RemoveDeath(q, now)
  /\ UNCHANGED <<now, pushes, mark, due>>

DoResize(limit) ==
  /\ q' = Resize(q, limit)
  /\ UNCHANGED <<now, pushes, mark, due>>

DoClear ==
  /\ q' = Clear(q)
  /\ due' = due - Len(q.msgs)
  /\ UNCHANGED <<now, pushes, mark>>

DoGetRemoved ==
  /\ q' = ResetRemoved(q)
  /\ due' = due - q.removed
  /\ UNCHANGED <<now, pushes, mark>>

SetClock(t) ==
  /\ now' = t
  /\ UNCHANGED <<q, pushes, mark, due>>

Next ==
  \/ \E m \in Inputs : DoPush(m)
  \/ DoRemoveDeath
  \/ \E limit \in 0 .. Len(q.msgs) : DoResize(limit)
  \/ DoClear
  \/ DoGetRemoved
  \/ \E t \in Times : SetClock(t)

Spec == Init /\ [][Next]_vars

-----------------------------------------------------------------------------
\* No message of s came, or was last written, after push n.
NotAfter(s, n) == \A i \in DOMAIN s : s[i].arrival <= n /\ s[i].content <= n

\* The queue, the clock and the counters always have their types, and the stamps of the
\* stored messages are those of past pushes.
TypeOK ==
  /\ q \in QueueType
  /\ now \in Times
  /\ pushes \in 0 .. MaxPushes
  /\ mark \in 0 .. pushes
  /\ due \in Int
  /\ NotAfter(q.msgs, pushes)

(***************************************************************************)
(* The order of the deque is that of the cursors, and of arrival among     *)
(* equal cursors (message_queue.hpp:21-22).  upper_bound and lower_bound   *)
(* are only meaningful on such a deque, and resize takes its first         *)
(* messages for the oldest: no sequence of publish, update, replace,       *)
(* remove and sweeps may ever disturb it.                                  *)
(***************************************************************************)
OrderedByCursor == Ordered(q.msgs)

(***************************************************************************)
(* While the flag is set remove_death looks only at the front of the deque *)
(* (message_queue.cpp:216-231), so the flag may only be set when no message *)
(* can die before the one in front of it.  The code keeps the stronger     *)
(* fact that all of them die together, whatever publish in the middle,     *)
(* update, modify, resize and the test after a sweep did to the deque.     *)
(***************************************************************************)
SequencedSound == q.sequenced => DieTogether(q.msgs)

(***************************************************************************)
(* Whenever remove_death is called, and with whatever time, what it leaves *)
(* is exactly the messages that are alive then: no dead one behind a live  *)
(* front, in spite of the short cut the flag allows, and every live one    *)
(* (message_queue.cpp:208-256).                                            *)
(***************************************************************************)
SweepExact ==
  \A t \in Times : ToSet(RemoveDeath(q, t).msgs) = {x \in ToSet(q.msgs) : ~ Dead(x, t)}

(***************************************************************************)
(* push looks for dead messages only when the second has changed since it  *)
(* last looked (message_queue.cpp:152).  What it may leave in the queue by *)
(* that is bounded: a message that was not written since that look was     *)
(* alive at the second of the look.                                        *)
(***************************************************************************)
ThrottleSound ==
  \A i \in DOMAIN q.msgs : q.msgs[i].content <= mark => ~ Dead(q.msgs[i], q.lastRemoveDeath)

(***************************************************************************)
(* The statistics add up: every message that was placed and was not erased *)
(* by its identity or by clear is either still in the queue or counted in  *)
(* _removed, once, whichever of the front loop, the full sweep and resize  *)
(* took it.                                                                *)
(***************************************************************************)
Accounting == q.removed + Len(q.msgs) = due

(***************************************************************************)
(* What subscribe and get_messages copy is what they were asked for: of    *)
(* the messages with cursor or greater, the last limit.                    *)
(***************************************************************************)
SnapshotExact ==
  \A c \in {m.cursor : m \in Inputs} \cup {0}, n \in 0 .. MaxPushes :
    LET wanted == {i \in DOMAIN q.msgs : q.msgs[i].cursor >= c}
    IN  ToSet(CopyTo(q, c, n)) =
          {q.msgs[i] : i \in {j \in wanted : Cardinality({k \in wanted : k > j}) < n}}

-----------------------------------------------------------------------------
(***************************************************************************)
(* The queue implements the channel it is meant to be.                     *)
(***************************************************************************)
ChannelView == INSTANCE Channel WITH held <- ToSet(q.msgs)

ImplementsChannel == ChannelView!Spec
=============================================================================
