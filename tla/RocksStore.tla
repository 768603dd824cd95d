------------------------------ MODULE RocksStore ------------------------------
(***************************************************************************)
(* One channel in the persistent store: the classes rocksdb and            *)
(* merge_operator (libpubsub/pubsub/rocksdb), and the queue channel_map    *)
(* keeps of the same channel when persistent_default sends every message   *)
(* to both.                                                                *)
(*                                                                         *)
(* The store has a value, a list of messages, and operands that are not    *)
(* merged into it yet, one for each push.  RocksDB merges some of the      *)
(* oldest operands whenever it likes, by replaying value and operands      *)
(* through a new message_queue; a reader gets a merge of everything made   *)
(* for it, replayed once more.  DBWithTTL, which drops a key that was not  *)
(* written for the lifetime of its database, is not part of it, and the    *)
(* clock does not go back (MessageQueueSpec has one that does).            *)
(***************************************************************************)
EXTENDS MergeOperator, MessageSets

CONSTANTS
  Inputs,      \* the messages pubsub::publish is called with, limit and lifetime set
  Times,       \* the values time(nullptr) may return
  MaxPushes    \* bound: the pushes of a run

ASSUME InputsAssumption == Inputs \subseteq Message
ASSUME TimesAssumption == Times \subseteq Int
ASSUME MaxPushesAssumption == MaxPushes \in Nat

VARIABLES
  value,       \* the merged messages
  operands,    \* the messages that are not merged yet
  cache,       \* the queue of the channel in channel_map
  now,         \* what time(nullptr) returns
  log          \* every message that was pushed

vars == <<value, operands, cache, now, log>>

-----------------------------------------------------------------------------
Init ==
  /\ value = <<>>
  /\ operands = <<>>
  /\ cache = EmptyQueue
  /\ now \in Times
  /\ log = <<>>

\* Mistake: the message goes to the store before it is dated.
DoPushUndated(input) ==
  LET m == Stamped(input, Len(log) + 1)
  IN  /\ Len(log) < MaxPushes
      /\ operands' = Append(operands, m)
      /\ cache' = Push(cache, now, m)
      /\ log' = Append(log, Born(m, now))
      /\ UNCHANGED <<value, now>>

\* pubsub::publish dates the message and hands it to rocksdb::push and to the queue.
DoPush(input) ==
  LET m == Born(Stamped(input, Len(log) + 1), now)
  IN  /\ Len(log) < MaxPushes
      /\ operands' = Append(operands, m)
      /\ cache' = Push(cache, now, m)
      /\ log' = Append(log, m)
      /\ UNCHANGED <<value, now>>

From(time) == {t \in Times : t >= time}

\* RocksDB merges the n oldest operands; the time may change meanwhile.
DoMerge(n, k, time) ==
  /\ value' = FullMerge(value, SubSeq(operands, 1, n), now, k, time)
  /\ operands' = SubSeq(operands, n + 1, Len(operands))
  /\ now' = time
  /\ UNCHANGED <<cache, log>>

SetClock(time) ==
  /\ now' = time
  /\ UNCHANGED <<value, operands, cache, log>>

Next ==
  \/ \E m \in Inputs : DoPush(m)
  \/ \E n \in 1 .. Len(operands) :
       \E k \in 0 .. Len(value) + n, time \in From(now) : DoMerge(n, k, time)
  \/ \E time \in From(now) : SetClock(time)

Spec == Init /\ [][Next]_vars
-----------------------------------------------------------------------------
\* The types of the store, of the cache and of what was pushed.
TypeOK ==
  /\ value \in Seq(Message)
  /\ operands \in Seq(Message)
  /\ cache \in QueueType
  /\ now \in Times
  /\ log \in Seq(Message)

\* What rocksdb::get_messages gives a subscriber who asks for everything.
Readable == GetMessages(value, operands, now, 0, MaxPushes)

Contents(msgs) == {x.content : x \in ToSet(msgs)}

(***************************************************************************)
(* A reader gets no message that is dead, and gets the messages by cursor  *)
(* and, for one cursor, in the order they were pushed in, however often    *)
(* they went through a merge.                                              *)
(***************************************************************************)
ReadSound ==
  /\ \A i \in DOMAIN Readable : ~ Dead(Readable[i], now)
  /\ \A i, j \in DOMAIN Readable : i < j => Before(Readable[i], Readable[j])

(***************************************************************************)
(* Of messages that are only published, each with room for n, the last n   *)
(* pushed are read for as long as they live, wherever the merges fell.     *)
(***************************************************************************)
LosesNothing ==
  \A m \in Latest(Min({x.limit : x \in Inputs}), ToSet(log)) :
     ~ Dead(m, now) => m \in ToSet(Readable)

(***************************************************************************)
(* Merging some operands first never takes away what a reader gets without *)
(* that merge, if messages are only published.  It may add to it: a replay *)
(* counts the messages that died against the limit, a merge drops them.    *)
(***************************************************************************)
MergeLosesNothing ==
  \A n \in 1 .. Len(operands) :
     LET merged == FullMerge(value, SubSeq(operands, 1, n), now, 0, now)
         rest   == SubSeq(operands, n + 1, Len(operands))
     IN  Contents(Readable) \subseteq Contents(GetMessages(merged, rest, now, 0, MaxPushes))

(***************************************************************************)
(* What a remove or a replace took out does not come back with a merge     *)
(* that replays it.                                                        *)
(***************************************************************************)
NoResurrection ==
  \A x \in ToSet(Readable), y \in ToSet(log) :
     y.action \in {"replace", "remove"} /\ y.identity = x.identity => y.arrival <= x.arrival

(***************************************************************************)
(* A reader never gets a content older than the last change of its         *)
(* identity, although stored messages keep their action and each replay    *)
(* carries it out again.                                                   *)
(***************************************************************************)
AsNew ==
  \A x \in ToSet(Readable), y \in ToSet(log) :
     y.action # "publish" /\ y.identity = x.identity => y.arrival <= x.content

OneLifetime == \A x, y \in ToSet(log) : x.lifetime = y.lifetime

(***************************************************************************)
(* With one lifetime, one limit and one cursor, and no update or modify,   *)
(* the store gives exactly the messages the cache gives: pubsub may answer *)
(* from either, and a process that dies loses none of them.                *)
(***************************************************************************)
SameAsCache ==
  OneLifetime /\ (\A x \in ToSet(log) : x.action \notin {"update", "modify"}) =>
    Readable = CopyTo(RemoveDeath(cache, now), 0, MaxPushes)
=============================================================================
