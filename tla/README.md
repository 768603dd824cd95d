# wfc_pubsub in TLA+

`wfc_pubsub` is a publish/subscribe broker: clients publish messages into named
channels, a channel keeps its last messages for a while, and a client that
subscribes gets what the channel holds and then every new message. This
directory specifies it in TLA+, checks small instances with TLC and proves the
central invariants with TLAPS for every value of the parameters.

    tlc -config queue_calls.cfg MCMessageQueue        # one run
    tlapm MessageQueueProofs.tla                      # one set of proofs

`PROJECT.json` lists the runs with the module and the properties of each, the
source lines every definition stands for, the hazards the properties are for,
and the theorems.

## 1. The system

| part | state | operations | hard about it |
|---|---|---|---|
| `message_queue` (with `stored_message`, `api/message`) | `_queue` (deque sorted by cursor), `_sequenced_flag`, `_last_remove_death`, `_removed` | `push` with the actions publish, modify, update, replace, remove; `resize`, `remove_death`, `clear`, `get_removed`, `copy_to` | a cached flag that allows a short cut, lazy expiry, a clock that may jump, boundaries of `limit`, a counter kept in three places |
| `channel_map` | name -> queue | `push`, `get_messages` (erases a queue it finds empty), `size`, `get_removed`, `clear` | statistics that vanish with a queue |
| `pubsub` | `_subscriber_set`, `_handler_map`, a `channel_map`, options, the store | `publish`, `subscribe`, `describe(id)`, `describe(id, channel)`, `get_messages`, `subscriber_count` (aborts if the two containers differ in size), `reset` | two containers that must agree; register and copy, store and fire; a read put together from two places |
| `pubsub_mt` | an array of `pubsub`, one recursive mutex each | the same calls; a call about a channel locks the shard its hash selects, a call about all channels locks one shard after another | interleavings; calls that are not atomic over all shards |
| persistent store (`multi_rocksdb`, `rocksdb`, `merge_operator`) | one RocksDB per lifetime class; the value of a channel is a list of messages | `configure`, `push` (a merge operand), the merge (a replay through a `message_queue`), `get_messages`, `close` | replay of replayed results, a Merge that fails unseen, a database that does not open, a process that dies in the middle of a publish |
| `pubsub_domain` | `_pubsub`, `_debug_reset` | the requests of clients, `unreg_io` on disconnect, an idle handler (statistics, reset) | a disconnect racing a subscribe, a snapshot sent after live messages |
| `comet_adapter` | connection -> adapter object, weak target | `publish`, `mpublish`, `subscribe`, `describe`, `load`, `mload`, `unreg_io` | a target that is gone, exactly one answer, an adapter only the map keeps alive |
| services, gateways, JSON | none | which methods there are, and that a call goes to the gateway of a connection | - |
| package, build | none | declarations | - |

`pubsub_domain` and `comet_adapter` are called by the worker threads of the wfc
framework (not in this repository). They call `pubsub_mt`, which locks a shard
and calls its `pubsub`, which calls its `channel_map` and queues. `fire_` calls
handlers while the mutex of the shard is held; a handler passes the message to
the gateway of its connection, or to the adapter of it, which does. The store
is called under the same mutex.

## 2. The modules

| module | what it is |
|---|---|
| `Messages` | the record a queue stores, its deathtime, and what `stored_message::update` and `modify` do to it |
| `MessageSets` | the messages of a channel as a set: their order, the latest of them, and the effect of an action |
| `MessageQueue` | every method of `message_queue` as an operator from queue to queue |
| `MessageQueueSpec` | one queue in use: one action per method, and a clock that may take any value between two calls |
| `Channel` | the abstract queue: a set of messages, no deque, no flag, no schedule of sweeps |
| `ChannelMap` | every method of `channel_map` as an operator on the map of queues |
| `MergeOperator` | what `merge_operator` and `rocksdb` compute from a value and its operands |
| `RocksStore` | one channel in one database, beside its queue in the cache |
| `Pubsub` | the class `pubsub` between its queues and all its databases, in a process that may die |
| `PubsubMt` | threads inside `pubsub_mt` and `pubsub`: one action for each container a call touches, mutexes between them |
| `Broker` | the abstract `pubsub_mt`: calls about a channel are atomic, calls about all channels are atomic part by part |
| `PubsubDomain` | requests of clients on worker threads, on top of `Broker` |
| `CometAdapter` | `comet_adapter` in front of it, and both kinds of clients together |
| `MCMessageQueue`, `MCPubsubMt`, `MCRocksStore`, `MCPubsub`, `MCCometAdapter` | the instances TLC checks |
| `SequenceLemmas` | induction up to a number, and sequences that are joined, listed from a set or flattened |
| `QueueLemmas` | what the operators of `MessageQueue` do, proved once |
| `ReplayLemmas` | what a replay of any length does, and what a merge and a read of one key do |
| `MessageQueueProofs` | proofs about `MessageQueueSpec`: its invariants, and that it implements `Channel` |
| `RocksStoreProofs` | proofs about `RocksStore` |
| `PubsubProofs` | proofs about `Pubsub`: its queues and all its databases, across deaths of the process |
| `PubsubMtProofs` | proofs about `PubsubMt`: its invariants, and that it implements `Broker` |
| `CometProofs` | proofs about `CometAdapter`, and through it about `PubsubDomain` and `Broker` |

They are composed in two columns. For data: `MessageQueue` is used by
`ChannelMap` (many queues) and by `MergeOperator` (replay), and `Pubsub` uses
both. For concurrency: `PubsubMt` implements `Broker` (`ImplementsBroker`), and
`PubsubDomain` and `CometAdapter` take the actions of `Broker` for the calls
they make, so that what is shown of the clients rests on a refinement that is
itself checked.

### MessageQueue and MessageQueueSpec

The variable `q` is the object: `msgs` is `_queue`, the other fields are the
members of the same name. A message has the fields of `struct message`, except
that `content` and `key`, which the code always overwrites together, are one
number (the push that wrote them), and `persistent`, which the queue does not
look at, is absent. The field `arrival` is not in the code: it numbers the
pushes, so that properties can speak of the order of arrival. `Push` is the whole of
`push(now, m)`: the look for dead messages at most once per second, the early
return for a publish with no lifetime or limit, the action, the cut to the
limit. `RemoveDeath` has the two loops of `remove_death` and the conditions
under which it computes the flag anew. Erasing from the deque is `Keep`, which
selects by position; it is written without recursion so that it can be proved
about.

`MessageQueueSpec` adds the clock `now`, the count of pushes, and two variables
that only observe: `mark` (the pushes there had been at the last look) and
`due` (messages placed less messages erased by identity, by clear or already
reported). Nothing in the queue reads them.

### ChannelMap, MergeOperator and RocksStore

`ChannelMap` has the queues by name; a name has a queue from its first message
until a read finds the queue empty. `MergeOperator` replays lists of messages
through a new `MessageQueue`, as the code does, so everything that queue does
is part of it; each step of a replay asks for the time, which may move on
between two of them. In `RocksStore`, `value` and `operands` are what RocksDB
has under the name of a channel: `push` is a `Merge` that adds an operand, and
RocksDB calls `FullMergeV2` on the value and the oldest operands when it
flushes or compacts (`DoMerge`, at any moment and for any number of them), or
on all of them for a reader (`Get`). `cache` is the queue that
`pubsub::publish` feeds with the same messages.

### Pubsub

A publish is `Publish` (the defaults are filled in), `Store`, `Cache`, `Fire`,
in the order of the code; the process may die between any two, and a new one
starts with other options and opens as many of its databases as it can before
one fails, as `multi_rocksdb::configure` does. `Store` picks a database by
lifetime; its `Merge` may fail, and nobody looks at that. Meanwhile RocksDB
merges (`Compact`), and DBWithTTL drops what is older than the ttl
(`Expire`). A read (`Read`) asks the databases in the order of their
lifetimes and then, under the condition in the code, the queue. `log`,
`placed` and `reported` observe.

### PubsubMt

A thread has a label `pc`, the call `req` it makes, and the shard `at` which it
is. Every action is what one call does to one container of one shard, so all
interleavings of container accesses are explored; `Lock` waits for the mutex as
`std::lock_guard` does. `publish` is `Lock`, `PushMessage`, one `Fire` for each
handler, `FireDone`, `Unlock`; `subscribe` is `Lock`, `describe_`
(`EraseHandler`, `EraseSubscriber`), `subscribe_` (`InsertSubscriber`,
`InsertHandler`), the copy of the queue (`CopyMessages`), `Unlock`; `reset` is
`Lock`, one `Clear` action for each of the three containers, `Unlock`, on one
shard after another; and so on. `get_messages` and the calls for the statistics
(`size`, `get_removed`, `empty_count` and `write_log`, all one kind of call
here) look at a shard under its mutex (`Read`); they change nothing in this
module, where no queue runs empty by the death of its messages, and `Pubsub`
has what they change otherwise. `ReadsTheBroker` is about what `get_messages`
copies.
The messages of a channel are numbered and its queue is an interval of numbers:
that is `MessageQueue` for publications with one limit that do not expire
during the run. `stream` observes what each subscription was given.

### PubsubDomain and CometAdapter

A worker thread takes up a request (`ReceiveRequest`), makes one call of the
broker for each channel the request names, and answers (`RespondTo`); other
threads act between any two of these steps. `link` is how far a connection is:
its gateway is gone as soon as it is closed, and some time later the framework
calls `unreg_io`, which goes through the shards. Requests of that connection
may still be under way then, or even come later. A comet connection has an
adapter (`adapters`, the map, under its own mutex), and its handlers a weak
pointer (`route`): a handler reaches the client only while that adapter is in
the map or in the hands of a subscribe. `inbox` is what a client received, in
order: live messages and answers. `DestroyTarget` is the end of the
`pubsub_domain` while the adapter still has requests; `DebugReset` is the reset
of the idle handler. That handler dereferences a null pointer when `configure`
found no ini file. The process ends there, so no step is left to model: a run of
the process up to that moment is a run of `Spec`, which may stop anywhere.

## 3. The runs

| run | what it shows | instance |
|---|---|---|
| `queue_calls` | the deque stays sorted; the flag is set only when all messages die together; `remove_death` would leave exactly the living, in every state and at every time; what a push misses by looking once per second was written after that look; `_removed` adds up; a snapshot is the last `limit` messages from the cursor on; the queue implements `Channel` | 3 pushes of every action, limits 0, 2 and 3, lifetimes 0, 1, 2, births 0 to 3, 2 cursors, 2 identities; 3 clock values; 284 310 states |
| `mt_registry` | `_subscriber_set` and `_handler_map` agree whenever the mutex is free; `subscriber_count` never aborts; `describe(id)` leaves only subscriptions that locked their shard after it began | 3 threads, 4 calls, 2 shards; 1 156 428 states |
| `mt_broker` | no gap and no repetition between the snapshot and the handler; `PubsubMt` implements `Broker`; a `get_messages` copies what the broker holds; every call returns | 2 threads, 4 calls, every pair of kinds, 3 channels in 2 shards, queue of 2, snapshot of 1; 720 371 states |
| `store_publishes` | what is read is alive and in order; the last messages pushed are read while they live; a merge takes nothing from a reader | 4 pushes, 2 lifetimes, 2 cursors, limit 2, 2 clock values; 11 780 states |
| `store_actions` | nothing removed comes back, no content older than a change is read; with one lifetime and neither update nor modify the store gives a reader what the cache gives | 4 pushes of every action, 2 lifetimes, 2 identities, one cursor; 107 774 states |
| `pubsub_reads` | whatever is read was published, is alive, and comes once; what the handlers were called with is read while it lives, across deaths of the process; the statistics count nothing twice | 2 publications for either database, both or none, 2 databases, 4 starts with different options, one death or reset, 3 clock values; 1 159 418 states |
| `comet_clients` | each client, direct or comet, receives every message from its snapshot on, once; a comet client that loads after it subscribed misses none; `mload` names each channel once; `unreg_io` leaves nothing behind | 2 threads, 2 connections, 3 requests, 2 shards; 2 092 901 states |
| `comet_answers` | every request is answered exactly once | 2 threads, 2 requests of every call, with and without an ini file, reset and end of the target; under fairness; 499 483 states |

Three pushes are the fewest with which a message can be placed between two
others, or be updated while another stays, and both happen in the instance;
three clock values let the clock step forwards twice, and back. Two shards with
two channels in one and one in the other have both kinds of neighbours. Two
publications in `pubsub_reads` are one for each place, and the third time is
after the death of every message and beyond every ttl. Three requests in
`comet_clients` are a subscription, a publication, and the load or the
disconnect that meets them. `MaxPushes`, `MaxRequests` and `MaxEpochs` are the
only bounds on length. Messages and calls are drawn from the sets in the `MC`
modules. `SYMMETRY` permutes threads, and is used for invariants only.

Each property of a passing run has a mutant: a mistaken form of a modelled
definition, marked `Mistake:` in the module, with which TLC finds the property
violated.

### What to know when reading the properties

- `FiredIsKept` says which promise the code makes of a message it has shown to
  the handlers: it is read while it lives from the queue until the process dies
  (unless `persistent_default` hides the queue behind the databases), and from
  the databases for ever after, if its `Merge` did not fail, all databases are
  open, and one has a ttl that covers its lifetime. Without any one of these
  conditions TLC finds a message that is lost without a sign of it.
- `NothingLeftBehind` excepts connections of which a request is still under way
  at `unreg_io`, or comes after it: the code does not keep these apart, and such
  a subscription then stays until the channel is reset. Messages for it are
  dropped at the weak pointer of the gateway.
- `ClientGapless` is about what was *received*, in whatever order: a client may
  receive live messages before the answer that has the snapshot before them.
- `EveryRequestAnswered` holds of `mpublish` too, which answers "ready" even if
  the target is gone and no message was published.

### Where the comments and the code differ

Four runs check what a comment says, and fail:

| run | the comment | the code |
|---|---|---|
| `doc_update` | update sets the birthtime to the current time (`message_queue.hpp:88`) | it copies the birthtime of the incoming message (`stored_message.hpp:120`) |
| `doc_remove` | for remove it is enough to give the identity (`message_queue.hpp:96`) | without a limit the queue is then emptied (`message_queue.cpp:182`) |
| `doc_sequenced` | messages of one lifetime, with cursors that do not fall and birthtimes that rise, count as ordered (`message_queue.hpp:36-43`) | a second such message clears the flag: only equal deathtimes keep it (`message_queue.cpp:294`, `249`) |
| `doc_sorted` | messages are read, and sorted, by their cursor (`api/message.hpp:29-31`) | a read is one sorted list after another, from each database and from the queue (`pubsub.cpp:53`) |

`doc_sequenced` publishes a message, lets the clock go on, and publishes another
of the same lifetime and cursor; nothing is cut or swept. It costs speed, not correctness: the flag is cleared more often than
it need be, and then every sweep walks the deque. More comments differ from the
code in plain sight, without a run: a null pointer from `push` does not mean that
the message stayed in the channel, since the limit may have cut it off at once
(`message_queue.hpp:109`, `message_queue.cpp:182`); a message that brings a
birthtime keeps it although the server is said to set it
(`message_queue.hpp:31`, `api/message.hpp:21`, `pubsub.cpp:25`); and modify
leaves the lifetime (`message_queue.hpp:87`, `stored_message.hpp:126-131`).

### Where the store and the cache differ

No text says that they agree, but whoever turns `persistent_default` on should
know; `SameAsCache` holds under the condition it states.

- A `modify` of a message that has died is kept by the cache as a message of its
  own. In the store the replay modifies the dead message, which is then removed,
  and the modification is lost.
- A message that died takes a place under the limit until the replay ends. With
  different lifetimes, or cursors that do not rise, it may push out one that
  lives, which the cache would still have; an earlier merge would have saved it.
  With `modify` and `update` a merge may also take away what a reader would get.
- With cursors that do not rise, a stored `replace` or `update` may be replayed
  behind messages that came after it and drop or overwrite them; this is why
  `store_actions` has one cursor, which is what clients get that set none.
- A `replace`, `update` or `remove` with another lifetime than the message it is
  about goes to another database and leaves that message as it is.

## 4. Fairness

`PubsubMt!FairSpec` assumes weak fairness of every thread's next step inside a
call: the operating system schedules every runnable thread, and no call inside a
shard waits for anything but a mutex. The mutexes are not assumed fair: a thread
may be overtaken while it waits. `EveryCallReturns` holds all the same because a
run has finitely many calls (`MaxRequests`), so that nobody is overtaken for
ever; with an unbounded supply of calls a `std::recursive_mutex` promises no
more than that some thread proceeds. What the property rules out is a deadlock,
or a sweep over the shards that does not end.

`CometAdapter!FairSpec` assumes the same of the steps of a worker thread that
took up a call. Nothing is assumed of the arrival of requests, of the closing of
connections, of `unreg_io`, of the idle handler or of the end of the target. The
assumption is that the process goes on, so `EveryRequestAnswered` says nothing of
one that the idle handler ended for want of an ini file.

## 5. What is proved

The proofs assume only what the modules name as assumptions: the inputs are
messages, clock values are integers, there is at least one shard, and so on.
Three theorems (`PublishedIsKept`, `ReadersGetTheLiving`, `FiredMessagesAreKept`)
have hypotheses of their own, given below; the runs of their properties meet them.

### The queue

`MessageQueueProofs`: the inductive invariant `IndInv` says of the queue that it
has its type, is sorted by cursor and arrival, that its messages die together
if the flag is set, that no message has a stamp of a push to come, and that
messages that were not written since the last look were alive at it. The last
two are needed: without the bound on stamps a new message could not be placed
in order of arrival, and without the exactness of `remove_death` (which needs
the flag to be sound) the last would not be kept. `QueueLemmas` has what the
proofs need of `Keep`, `InsertAt`, `upper_bound`, and of each action of `Push` as
an effect on a set of messages. From `IndInv` follow `OrderedByCursor`,
`SequencedSound`, `ThrottleSound` and `SweepExact`, for every set of messages and
clock values. `SweepExact` is about what `remove_death` would return if it were
called now, for every time that may be passed to it, so that it also speaks of a
call that looks at the front of the deque and changes nothing.

`MessageQueueProofs`: `Accounting` holds because whatever takes messages from the
deque and counts them leaves `removed` and the length with the same sum (`Total`),
operation by operation. `SnapshotExact` needs the order of the deque: the last
messages by position are then the last by cursor and arrival. The refinement
`ImplementsChannel` maps each action to the same operation on sets; the sweep,
and the look a push may or may not take, map to dead messages of the set being
dropped, which needs `SweepExact` and the lemmas on sets.

### The store

`ReplayLemmas`: what `merge_operator` computes is a fold of `push` over a list.
That there is such a function, and induction along the list, cannot come from
theorems that take an operator; they rest on subset inclusion being well-founded on
finite sets (`SequenceLemmas`): the fold is a function on the subsets of the
positions of the list.
`Merged(s, n, l)` says what a merge may leave of the first `n` messages of the log
`l`: they are in order, each stands where one of these was placed (`Placed`), no
replace or remove of its identity came behind it and no change came behind its
content (`Current`). A replay of what is merged, followed by messages pushed since,
leaves something merged of more messages, by induction over the list.

`RocksStoreProofs`: hence the inductive invariant `StoreInv`, that the operands
are the tail of the log and the value is `Merged` from what comes before it. From it
follow `ReadSound`, `NoResurrection` and `AsNew`, for any messages, limits, clock
values and moments of a merge; with cursors that do not rise as well, which
`store_actions` leaves out. `PublishedIsKept` states `LosesNothing` for stores to
which messages are only published, each with a lifetime and a limit
(`PublishOnly`), and for clocks that never show 0, the birthtime that stands for
none: the hypotheses `store_publishes` meets. Its invariant `KeepInv` says that
of every message ever merged, the store has it, or it is dead, or it is not among
the latest; dead messages that take a place under the limit (see section 3) are not
counted as lost because the latest are counted over all messages, dead or alive.

### The cache and the databases together

`PubsubProofs` is about the whole of a `pubsub`: any number of channels,
publications and databases, any options at every start, and a process that may die
between any two steps of a publish while RocksDB merges and expires. `IndInv` says
that whatever a database or a queue holds stands where a publication put it:
same channel, same cursor (`Traces`), in turn within a key and in order within a
queue, and no publication in two databases. Half of a publish is in the invariant
by number: up to `Stored` the log has reached the databases, up to `Cached` the
queues. On it rest four more invariants, one for each property:

- `TwiceInv` for `NoMessageTwice` (`NothingTwice`): `EpochInv` and the marks say that
  a message on disk is persistent, or its queue was lost since, or the process
  runs with `persistent_default`, and then a reader asks the queue only when the
  databases have nothing; a message in a queue was put there since the queues were
  lost and is not persistent. So no read joins the two, and `IndInv` keeps two
  databases apart. It holds for every action, not for publications alone.
- `AliveInv` for `ReadersGetTheLiving` (`ReadAlive`): what the queues and the
  databases hold is, field by field, what was published. Hypotheses: no client
  updates or modifies a message (`PlainInputs`), since these write fields of one
  publication into another, and the clock never shows 0, the birthtime that
  stands for none.
- `CountInv` for `StatisticsCountOnce` (`NothingCountedTwice`): the messages the
  queues hold, those removed and not reported, and those reported are together no
  more than were put into queues. A sum over the channels of a map is a fold; that
  it is the sum of one channel and the rest (`TotalOf`, `RestOf`), whatever the order
  of the fold, is proved from the sums of all subsets (`SumBy`).
- `KeepInv` for `FiredMessagesAreKept` (`FiredIsKept`), the promise of section 3:
  a publication that reached a database whose ttl covers its lifetime is there, dead,
  or not among the latest of its channel (`StillIn`), and the same of the queues
  since they were last lost. `Room` is the least limit in use, as a push with a
  lower limit cuts the queue for all. A ttl takes a value by the time it was written,
  so the invariant has that the messages of a value were born by then
  (`DisksHeld`). Hypotheses: clients only publish (`PublishOnly`), the clock is never
  0, and no birthtime is yet to come (`NotFromTheFuture`): a message born in the
  future outlives the ttl counted from when it was written, and the code may lose it.

### The shards

`PubsubMtProofs`: that `_subscriber_set` and `_handler_map` agree when the mutex
is free is not inductive. `IndInv` adds that a thread inside a call owns the
mutex of its shard and nobody else is there (`MutexInv`), that a thread is where
its kind of call may take it and at the shard of its channel (`PhaseInv`), by
what exactly the two containers differ between the steps of each call, `reset`
included (`RegistryInv`), and that a handler is unique for its channel and id
(`HandlersInv`), from which the equality of the sizes follows by a bijection.
From it follow `RegistryAgrees`, `NeverAborts` and mutual exclusion for every
number of threads, shards, channels and calls.

The second half is the handoff. That a subscriber has no gap and no repetition
holds between calls; in the middle of one there are two exceptions, and the
invariant `HandoffInv` says exactly which. A subscription whose copy is not made yet
is excepted (`Filling`), and a handler that `fire_` has still to call has all
messages but the last (`Serving`). Every other handler was given the run of
numbers from its copy to the last message published (`GotInv`). For a step of
one thread to leave the stream of another alone, subscriptions must have their
numbers for themselves, whether registered or in the making (`NumberInv`), and
the mutual exclusion of `IndInv` must hold the publisher and the subscriber of
one channel apart. `NewerInv` is the same idea for a disconnect: in the shards
it has done, every handler of its client, and every one in the making, has a
higher number than the last at its start. From these follow `GaplessHandoff` and
`DescribeLeavesOnlyNewer`, for every number of threads, shards, ids, channels,
limits and calls.

The last part is the refinement: `PubsubMt` implements `Broker`. A call takes effect on a shard at the
moment its thread gets the mutex: from then on the mapping shows what the shard will
be when the thread leaves it. For this the invariant `DoneInv` says what a call has
done to the handlers and queues of its shard by each of its steps, so that the
state shown does not change while the call is carried out. Every step is then a
stutter or one call of the broker, made on behalf of the thread that locks. A
thread that reads owns the mutex of its shard, so what is shown of the channel it
reads is what is there: hence `ReadersSeeTheBroker` (`ReadsTheBroker`).

### The clients

`CometProofs`: `LeavesNothing` (`NothingLeftBehind`) speaks of the end of
`unreg_io`, which takes as many steps as there are parts of the channels. The
invariant `GoneInv` follows it: as long as a connection is gone and no request of it
is under way or came late, no thread serves it (`Serves`), and the thread that
sweeps has left no handler of it in the parts it has done (`Swept`); nothing can put
one there again, since only requests do. `WorkInv` says where a thread with each
kind of work may be, and at which part. `AdapterInv` has the map and the routes.
`MloadAnswersEachOnce` (`EachChannelOnce`) rests on `InboxInv`: what an mload
gathers is about channels it was asked for (`Asks`), and a finished answer names
those and none twice (`Names`), from a lemma on what striking channels off the
shared list leaves.

`ClientsHearEverything` (`ClientGapless`) is about what a client has *received*,
from answers and handlers in whatever order. That it is whole once the answer is
given (`Whole`) is not inductive: live messages come before the answer does.
`HearInv` has the other case (`Awaited`): the number of the subscription is in
the answer of one thread (`OneBearer`, `NumbersOf`), nothing in the inbox
acknowledges it, the copy in that answer ends at some number `s`, and what came runs
from `s` to the last published, without a gap. For a message that is fired to go on
with that run, the handler must reach the client: `RouteOf` says that the weak
pointer of a handler of an open comet connection is the adapter in the map, and
`PeerOf` that so will be the one a subscribe under way is about to register. That a
client has one handler for a channel (`OneHandler`) keeps it from hearing a message
twice.

`LoadedAfterSubscribing` (`SubscribeThenLoad`) adds what a client loads. `LoadInv`
says that whatever load and mload have gathered for a client, or answered, reaches
up to where every subscription began that the client knew of when it asked
(`Covers`, `CoversOf`, `BoxCovers`); `SinceOf` and `StampsOf` bound when that was, and
`BeenAt` says that an mload has gathered something about every channel it has been at,
so that its answer about an empty channel, too, begins where the channel then ended. Most steps only add to what the properties speak of (`Grows`, `Steady`), which is
one lemma for all of them. With `HearInv`, what was loaded and what came meet.

All of it is for any number of threads, connections of either kind, channels, parts
and requests.

### Only model-checked

- `EveryCallReturns` and `EveryRequestAnswered`: liveness under fairness, and
  ENABLED, are beyond the prover.
- `MergeLosesNothing` and `SameAsCache`: they compare two replays of the same
  messages, merged at different moments, and not a replay with what was pushed.

## 6. Not modelled

- JSON, configuration files, logging, the declarations of services and gateways,
  registration with the framework: no behaviour of its own, or pure I/O. A
  null request, or a ban while the server stops (`bad_request`, `notify_ban`), is
  turned away before any of this code's state is touched.
- Notifications: every modelled request wants its answer.
- RocksDB: modelled from how the code uses it (`Merge`, `Get`, a merge at any
  time, the ttl), never inside. A value or operand that is no JSON, with which
  the merge operator fails, cannot be written by this code.
- `multi_rocksdb::close` in the middle of a publish or of a read: it clears the
  map without the mutex, which is undefined behaviour; `Pubsub` closes between
  two publications. `configure` a second time in one process: nothing calls it.
- `subscribe` without an id: nothing in the repository calls it.
- `pubsub_mt::reconfigure` logs that it is not implemented and does nothing.
- Handlers that call the `pubsub_mt` again while `fire_` runs: the handlers of
  the repository do not.
- The end of a process whose idle handler meets a null `_pubsub`, because there is
  no ini file: every property that is an invariant holds up to that moment, and
  `EveryRequestAnswered` is about processes that go on (sections 2 and 4).
- The width of `time_t`, and of counters.

What may be added: `MergeLosesNothing` and `SameAsCache` as theorems. Both need an
invariant that relates two replays of one list, and the first must also say which dead
messages take a place under the limit in each.
