------------------------------ MODULE ChannelMap ------------------------------
(***************************************************************************)
(* The class wfc::pubsub::channel_map (libpubsub/pubsub/channel_map) as    *)
(* operators on its _channel_map: a function from the names of the         *)
(* channels that have a queue to their queues.                             *)
(***************************************************************************)
EXTENDS MessageQueue

NoChannels == [c \in {} |-> EmptyQueue]

WithQueue(map, c, q) ==
  [x \in DOMAIN map \cup {c} |-> IF x = c THEN q ELSE map[x]]

WithoutQueue(map, c) == Restrict(map, DOMAIN map \ {c})

\* push(name, m): the first message of a channel makes its queue.
PushTo(map, now, c, m) ==
  CASE c \in DOMAIN map -> WithQueue(map, c, Push(map[c], now, m))
    [] c \notin DOMAIN map /\ m.lifetime = 0 /\ m.limit = 0 -> map
    [] OTHER -> WithQueue(map, c, Push(EmptyQueue, now, m))

\* Mistake: the dead stay for this reader.
FindWithDead(map, now, c) == map

\* _find_and_remove_death: a queue with nothing left in it is erased.
FindAndRemoveDeath(map, now, c) ==
  LET swept == RemoveDeath(map[c], now)
  IN  IF c \notin DOMAIN map THEN map
      ELSE IF swept.msgs = <<>> THEN WithoutQueue(map, c)
      ELSE WithQueue(map, c, swept)

\* get_messages(ml, name, cursor, limit): what it appends to ml.
CopyFrom(map, now, c, cursor, limit) ==
  LET found == FindAndRemoveDeath(map, now, c)
  IN  IF c \in DOMAIN found THEN CopyTo(found[c], cursor, limit) ELSE <<>>

-----------------------------------------------------------------------------
\* Mistake: get_removed leaves the counters as they are.
KeepCounters(map) == map

\* What get_removed(true) does to the queues.
ResetCounters(map) == [c \in DOMAIN map |-> ResetRemoved(map[c])]

\* The sums that get_removed and size make over the queues.
RemovedCount(map) == SumFunction([c \in DOMAIN map |-> map[c].removed])

MessageCount(map) == SumFunction([c \in DOMAIN map |-> Len(map[c].msgs)])
=============================================================================
