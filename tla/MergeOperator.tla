----------------------------- MODULE MergeOperator -----------------------------
(***************************************************************************)
(* What the classes merge_operator and rocksdb (libpubsub/pubsub/rocksdb)  *)
(* compute from the value of a key, a list of messages, and the operands   *)
(* that are not merged into it yet: both replay lists of messages through  *)
(* a new message_queue.                                                    *)
(***************************************************************************)
EXTENDS MessageQueue

PushAll(q, time, s) == FoldLeft(LAMBDA acc, m : Push(acc, time, m), q, s)

\* Mistake: the messages that died in the store are not removed.
ReplayUnswept(s, before, k, after) ==
  PushAll(PushAll(EmptyQueue, before, SubSeq(s, 1, k)), after, SubSeq(s, k + 1, Len(s)))

(***************************************************************************)
(* A replay: every message of s is pushed to a new queue, and the dead are *)
(* removed at the end.  Each of these steps asks for the time, and the     *)
(* second may change after message number k.                               *)
(***************************************************************************)
Replay(s, before, k, after) ==
  RemoveDeath(PushAll(PushAll(EmptyQueue, before, SubSeq(s, 1, k)),
                      after, SubSeq(s, k + 1, Len(s))),
              after)

\* Mistake: the existing value is overlooked.
MergeOperands(existing, ops, before, k, after) == Replay(ops, before, k, after).msgs

\* Mistake: the existing value is replayed behind the operands.
MergeBehind(existing, ops, before, k, after) == Replay(ops \o existing, before, k, after).msgs

\* merge_operator::FullMergeV2.
FullMerge(existing, ops, before, k, after) == Replay(existing \o ops, before, k, after).msgs

\* Get of RocksDB: what is left to merge is merged for the reader; the store stays as it is.
Get(existing, ops, time) ==
  IF ops = <<>> THEN existing ELSE FullMerge(existing, ops, time, 0, time)

\* rocksdb::get_messages.
GetMessages(existing, ops, time, cursor, limit) ==
  CopyTo(Replay(Get(existing, ops, time), time, 0, time), cursor, limit)
=============================================================================
