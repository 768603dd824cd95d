-------------------------------- MODULE Pubsub --------------------------------
(***************************************************************************)
(* The class wfc::pubsub::pubsub (libpubsub/pubsub/pubsub) between its two *)
(* places for messages: the queues of its channel_map, which die with the  *)
(* process, and the databases of multi_rocksdb, one for each lifetime      *)
(* configured, which do not.  A publish goes to the databases, then to the *)
(* queues, then to the handlers; the process may die between these steps.  *)
(* Each step asks for the time, and the clock does not go back.            *)
(*                                                                         *)
(* RocksDB merges operands when it likes (MergeOperator), and DBWithTTL    *)
(* drops a value that is older than the ttl of its database.               *)
(***************************************************************************)
EXTENDS ChannelMap, MergeOperator, MessageSets

CONSTANTS
  Channels,    \* the names of the channels
  Ttls,        \* rocksdb_options::ttl, a sequence of lifetimes
  Options,     \* the values of pubsub_options a process may be started with
  Inputs,      \* the messages clients publish: the message and whether it is persistent
  Times,       \* the values time(nullptr) may return
  MaxPushes,   \* bound: the publications of a run
  MaxEpochs    \* bound: one more than the deaths of the process and the resets

OptionsType ==
  [persistentDefault : BOOLEAN, rocksdbDisabled : BOOLEAN, cacheDisabled : BOOLEAN,
   defaultLifetime : Nat, defaultLimit : Nat]

ASSUME OptionsAssumption == Options \subseteq OptionsType /\ Options # {}
ASSUME InputsAssumption == Inputs \subseteq [msg : Message, persistent : BOOLEAN]
ASSUME CursorsAssumption ==      \* the cursor has a fixed width in the code
  \E x \in Inputs : \A y \in Inputs : x.msg.cursor <= y.msg.cursor
ASSUME TtlsAssumption == Ttls \in Seq(Nat)
ASSUME BoundsAssumption == MaxPushes \in Nat /\ MaxEpochs \in Nat /\ Times \subseteq Nat

VARIABLES
  opt,         \* _opt
  channels,    \* _channel_map
  open,        \* the lifetimes whose database is open: the keys of _rocksdb_map
  disk,        \* what each database has under the name of each channel
  now,         \* what time(nullptr) returns
  pc,          \* how far the publish in progress is
  log,         \* every publication, and how it was received
  epoch,       \* how often the queues were lost: by a death, a reset
  placed,      \* how many messages were put into a queue
  reported     \* how many removed messages the idle handler was told of

store == <<open, disk>>
observers == <<log, epoch, placed, reported>>
vars == <<opt, channels, store, now, pc, observers>>

-----------------------------------------------------------------------------
NoValue == [value |-> <<>>, written |-> 0, operands |-> <<>>]

Lifetimes == ToSet(Ttls)

\* multi_rocksdb::configure in a new process: it gives up at the first database that fails.
Opened(n) == ToSet(SubSeq(Ttls, 1, n))

Init ==
  /\ opt \in Options
  /\ channels = NoChannels
  /\ \E n \in 0 .. Len(Ttls) : open = Opened(n)
  /\ disk = [t \in Lifetimes |-> [c \in Channels |-> NoValue]]
  /\ now \in Times
  /\ pc = "idle"
  /\ log = <<>>
  /\ epoch = 1
  /\ placed = 0
  /\ reported = 0

\* multi_rocksdb::get_db_: the first database whose ttl covers the lifetime, else the longest.
Database(lifetime) ==
  IF \E t \in open : t >= lifetime THEN Min({t \in open : t >= lifetime}) ELSE Max(open)

-----------------------------------------------------------------------------
\* What publish writes into a message before it passes it on.
Filled(m) ==
  [Born(m, now) EXCEPT !.lifetime = IF @ = 0 THEN opt.defaultLifetime ELSE @,
                       !.limit    = IF @ = 0 THEN opt.defaultLimit ELSE @]

Passing(m) == m.lifetime = 0 /\ m.limit = 0

ToStore(persistent) == (persistent \/ opt.persistentDefault) /\ ~ opt.rocksdbDisabled

ToCache(persistent) == ~ opt.cacheDisabled /\ ~ persistent

Entry(c, m, persistent) ==
  [channel |-> c, msg |-> m, persistent |-> persistent, fired |-> FALSE,
   durable |-> ToStore(persistent) /\ \E t \in open : t >= m.lifetime,
   cached  |-> IF ToCache(persistent) THEN epoch ELSE 0]

\* Mistake: the handlers are called before the message is stored.
PublishFiringFirst(c, input) ==
  LET m == Stamped(input.msg, Len(log) + 1)
  IN  /\ pc = "idle"
      /\ Len(log) < MaxPushes
      /\ log' = Append(log, [Entry(c, IF Passing(m) THEN m ELSE Filled(m), input.persistent)
                               EXCEPT !.fired = TRUE])
      /\ pc' = IF Passing(m) THEN "fire" ELSE "store"
      /\ UNCHANGED <<opt, channels, store, now, epoch, placed, reported>>

\* publish: a message with neither lifetime nor limit only goes to the handlers.
Publish(c, input) ==
  LET m == Stamped(input.msg, Len(log) + 1)
  IN  /\ pc = "idle"
      /\ Len(log) < MaxPushes
      /\ log' = Append(log, Entry(c, IF Passing(m) THEN m ELSE Filled(m), input.persistent))
      /\ pc' = IF Passing(m) THEN "fire" ELSE "store"
      /\ UNCHANGED <<opt, channels, store, now, epoch, placed, reported>>

This == log[Len(log)]

\* rocksdb::push.
MergeInto(t, c, m) == disk' = [disk EXCEPT ![t][c].operands = Append(@, m)]

\* multi_rocksdb::push: the Merge may fail, and nobody looks at its status.
Store ==
  LET t == Database(This.msg.lifetime)
  IN  /\ pc = "store"
      /\ pc' = "cache"
      /\ IF ToStore(This.persistent) /\ open # {}
         THEN \/ MergeInto(t, This.channel, This.msg) /\ UNCHANGED log
              \/ log' = [log EXCEPT ![Len(log)].durable = FALSE] /\ UNCHANGED disk
         ELSE UNCHANGED <<disk, log>>
      /\ UNCHANGED <<opt, channels, open, now, epoch, placed, reported>>

Cache ==
  /\ pc = "cache"
  /\ pc' = "fire"
  /\ IF ToCache(This.persistent)
     THEN /\ channels' = PushTo(channels, now, This.channel, This.msg)
          /\ placed' = placed + (IF HandedBack(This.msg) THEN 0 ELSE 1)
     ELSE UNCHANGED <<channels, placed>>
  /\ UNCHANGED <<opt, store, now, log, epoch, reported>>

\* fire_, which PubsubMt has in detail.
Fire ==
  /\ pc = "fire"
  /\ pc' = "idle"
  /\ log' = [log EXCEPT ![Len(log)].fired = TRUE]
  /\ UNCHANGED <<opt, channels, store, now, epoch, placed, reported>>

-----------------------------------------------------------------------------
(***************************************************************************)
(* get_messages: what the open databases hold, each cut to the limit, and  *)
(* then what the queue holds; with persistent_default the queue is asked   *)
(* only if the databases have nothing.                                     *)
(***************************************************************************)
FromDatabase(t, c, cursor, limit) ==
  GetMessages(disk[t][c].value, disk[t][c].operands, now, cursor, limit)

FromStore(c, cursor, limit) ==
  IF opt.rocksdbDisabled THEN <<>>
  ELSE FlattenSeq([i \in 1 .. Cardinality(open) |-> FromDatabase(Nth(open, i), c, cursor, limit)])

\* Mistake: what the databases gave is not looked at.
AlwaysAsksCache(c, cursor, limit) == ~ opt.cacheDisabled

AsksCache(c, cursor, limit) ==
  ~ opt.cacheDisabled /\ (opt.persistentDefault => FromStore(c, cursor, limit) = <<>>)

Read(c, cursor, limit) ==
  FromStore(c, cursor, limit) \o
    IF AsksCache(c, cursor, limit) THEN CopyFrom(channels, now, c, cursor, limit) ELSE <<>>

DoGetMessages(c, cursor, limit) ==
  /\ pc = "idle"
  /\ AsksCache(c, cursor, limit)
  /\ channels' = FindAndRemoveDeath(channels, now, c)
  /\ UNCHANGED <<opt, store, now, pc, observers>>

\* The idle handler: get_removed(true).
DoGetRemoved ==
  /\ pc = "idle"
  /\ reported' = reported + RemovedCount(channels)
  /\ channels' = ResetCounters(channels)
  /\ UNCHANGED <<opt, store, now, pc, log, epoch, placed>>

Reset ==
  /\ pc = "idle"
  /\ epoch < MaxEpochs
  /\ epoch' = epoch + 1
  /\ channels' = NoChannels
  /\ UNCHANGED <<opt, store, now, pc, log, placed, reported>>

-----------------------------------------------------------------------------
\* multi_rocksdb::close; what is published from now on is in the queues only.
Close ==
  /\ pc = "idle"
  /\ open' = {}
  /\ UNCHANGED <<opt, channels, disk, now, pc, observers>>

\* The process dies, wherever it is, and a new one opens what it can of the databases.
Restart(o, n) ==
  /\ epoch < MaxEpochs
  /\ epoch' = epoch + 1
  /\ opt' = o
  /\ open' = Opened(n)
  /\ channels' = NoChannels
  /\ pc' = "idle"
  /\ UNCHANGED <<disk, now, log, placed, reported>>

\* RocksDB merges the n oldest operands of a key.
Compact(t, c, n) ==
  LET key == disk[t][c]
  IN  /\ disk' = [disk EXCEPT ![t][c] =
                    [value    |-> FullMerge(key.value, SubSeq(key.operands, 1, n), now, 0, now),
                     written  |-> now,
                     operands |-> SubSeq(key.operands, n + 1, Len(key.operands))]]
      /\ UNCHANGED <<opt, channels, open, now, pc, observers>>

\* DBWithTTL drops a value that was written more than the ttl ago.
Expire(t, c) ==
  /\ disk[t][c].value # <<>>
  /\ disk[t][c].written + t < now
  /\ disk' = [disk EXCEPT ![t][c].value = <<>>]
  /\ UNCHANGED <<opt, channels, open, now, pc, observers>>

SetClock(time) ==
  /\ now' = time
  /\ UNCHANGED <<opt, channels, store, pc, observers>>

From(time) == {t \in Times : t >= time}

Next ==
  \/ \E c \in Channels, input \in Inputs : Publish(c, input)
  \/ Store \/ Cache \/ Fire
  \/ \E c \in Channels, cursor \in {x.msg.cursor : x \in Inputs} :
       DoGetMessages(c, cursor, MaxPushes)
  \/ DoGetRemoved \/ Reset \/ Close
  \/ \E o \in Options, n \in 0 .. Len(Ttls) : Restart(o, n)
  \/ \E t \in open, c \in Channels :
       Expire(t, c) \/ \E n \in 1 .. Len(disk[t][c].operands) : Compact(t, c, n)
  \/ \E time \in From(now) : SetClock(time)

Spec == Init /\ [][Next]_vars
-----------------------------------------------------------------------------
\* The types of the containers and of what observes them.
TypeOK ==
  /\ opt \in Options
  /\ DOMAIN channels \subseteq Channels
  /\ \A c \in DOMAIN channels : channels[c] \in QueueType
  /\ open \subseteq Lifetimes
  /\ \A t \in Lifetimes, c \in Channels :
       disk[t][c] \in [value : Seq(Message), written : Nat, operands : Seq(Message)]
  /\ now \in Times
  /\ pc \in {"idle", "store", "cache", "fire"}
  /\ {placed, reported, epoch} \subseteq Nat

Everything(c) == Read(c, Min({x.msg.cursor : x \in Inputs}), MaxPushes)

Published(c) == {x \in ToSet(log) : x.channel = c}

(***************************************************************************)
(* Whatever a reader gets, from a database, from the queue or from both,   *)
(* was published to that channel and is alive.                             *)
(***************************************************************************)
ReadAlive ==
  \A c \in Channels : \A m \in ToSet(Everything(c)) :
    ~ Dead(m, now) /\ \E x \in Published(c) : x.msg = m

(***************************************************************************)
(* No reader gets a message twice, although a message may be both in a     *)
(* database and in the queue (get_messages appends one to the other).      *)
(***************************************************************************)
NothingTwice == pc = "idle" => \A c \in Channels : IsInjective(Everything(c))

\* The publications of c that a queue may hold, and those every limit in use has room for.
Holdable(c) == {x \in Published(c) : x.msg.lifetime # 0}

LatestOf(c) ==
  {x \in Holdable(c) : x.msg \in Latest(Min({y.msg.limit : y \in Holdable(c)}),
                                      {y.msg : y \in Holdable(c)})}

\* The databases have x, or the queues do and are looked at.
Kept(x) ==
  \/ x.durable /\ open = Lifetimes /\ ~ opt.rocksdbDisabled
  \/ x.cached = epoch /\ ~ opt.persistentDefault

(***************************************************************************)
(* A message the handlers were called with is read for as long as it lives *)
(* and is among the latest: from the queues until the process dies or they *)
(* are reset; from the databases, if its Merge did not fail and a ttl      *)
(* covers its lifetime, whenever the process died and however long ago it  *)
(* was written.                                                            *)
(***************************************************************************)
FiredIsKept ==
  pc = "idle" =>
    \A c \in Channels : \A x \in LatestOf(c) :
      x.fired /\ Kept(x) /\ ~ Dead(x.msg, now) => x.msg \in ToSet(Everything(c))

(***************************************************************************)
(* The statistics count no message twice: what is held, what is removed    *)
(* but not reported and what was reported are not more than was placed.    *)
(* (They may be fewer: a queue that is erased takes its counter with it.)  *)
(***************************************************************************)
NothingCountedTwice == MessageCount(channels) + RemovedCount(channels) + reported <= placed

(***************************************************************************)
(* api/message.hpp:29-31: the cursor is what a channel is read and sorted  *)
(* by.                                                                     *)
(***************************************************************************)
DocSortedByCursor ==
  pc = "idle" => \A c \in Channels : \A i, j \in DOMAIN Everything(c) :
    i < j => Everything(c)[i].cursor <= Everything(c)[j].cursor
=============================================================================
