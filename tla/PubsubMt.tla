-------------------------------- MODULE PubsubMt --------------------------------
(***************************************************************************)
(* The classes wfc::pubsub::pubsub_mt and wfc::pubsub::pubsub under        *)
(* concurrent calls.  A pubsub_mt is an array of shards: pubsub objects,   *)
(* each with a mutex.  A channel belongs to the shard its hash selects; a  *)
(* call about one channel holds the mutex of its shard throughout, a call  *)
(* about all channels visits the shards one after another and holds one    *)
(* mutex at a time.  Every step below is what one thread does to one       *)
(* container of one shard, so that other threads act between the steps.    *)
(*                                                                         *)
(* The messages of a channel are numbered in the order of their            *)
(* publication.  Its queue is the one of MessageQueue for publications     *)
(* that carry one limit and do not expire during the run: it holds the     *)
(* last CacheLimit of them, numbers dropped[c] + 1 .. published[c].        *)
(***************************************************************************)
EXTENDS Integers, Sequences, FiniteSets, FiniteSetsExt

CONSTANTS
  Threads,       \* the worker threads that call the pubsub_mt
  Ids,           \* subscriber ids
  Channels,
  ShardCount,    \* _size
  ShardOf,       \* index_
  Requests,      \* the calls that may be made
  MaxRequests,   \* bound: the calls of a run
  CacheLimit,    \* the limit of every message
  SnapshotLimit, \* the limit of every subscribe and get_messages
  None           \* no thread

Shards == 1 .. ShardCount

\* "statistics" is any of size, get_removed, empty_count and write_log.
ChannelCalls  == {"publish", "subscribe", "describe", "getMessages"}
SweepingCalls == {"describeAll", "count", "statistics", "reset"}

\* The calls a thread may make.  subscribe without an id is not among them: nothing calls it.
Request ==
  [kind : ChannelCalls \cup SweepingCalls, id : Ids, channel : Channels]

ASSUME ShardsAssumption == ShardCount \in Nat \ {0} /\ ShardOf \in [Channels -> Shards]
ASSUME IdsAssumption == Ids \subseteq Nat
ASSUME RequestsAssumption == Requests \subseteq Request /\ Requests # {}
ASSUME BoundsAssumption ==
  MaxRequests \in Nat /\ CacheLimit \in Nat \ {0} /\ SnapshotLimit \in Nat
ASSUME NoneAssumption == None \notin Threads

VARIABLES
  pc,            \* what a thread does next
  req,           \* the call a thread makes
  at,            \* the shard a thread is at
  last,          \* the subscriber id a publishing thread has served last
  mine,          \* the number of the subscription a thread is making
  since,         \* how many subscriptions there had been when a thread's call began
  owner,         \* the thread that holds the mutex of a shard
  subscribers,   \* _subscriber_set of a shard: pairs of id and channel
  handlers,      \* _handler_map of a shard: channel, id and subscription of each handler
  published,     \* how many messages of a channel have been published
  dropped,       \* how many of them its queue no longer holds
  stream,        \* what each subscription got: the number its snapshot starts after, and
                 \* the numbers of the messages it was given, snapshot and live
  requests       \* how many calls there have been

threadVars == <<pc, req, at, last, mine, since, requests>>
registryVars == <<subscribers, handlers>>
messageVars == <<published, dropped, stream>>
vars == <<threadVars, owner, registryVars, messageVars>>

-----------------------------------------------------------------------------
Init ==
  /\ pc = [t \in Threads |-> "idle"]
  /\ req = [t \in Threads |-> CHOOSE r \in Requests : TRUE]
  /\ at = [t \in Threads |-> 1]
  /\ last = [t \in Threads |-> -1]
  /\ mine = [t \in Threads |-> 0]
  /\ since = [t \in Threads |-> 0]
  /\ owner = [s \in Shards |-> None]
  /\ subscribers = [s \in Shards |-> {}]
  /\ handlers = [s \in Shards |-> {}]
  /\ published = [c \in Channels |-> 0]
  /\ dropped = [c \in Channels |-> 0]
  /\ stream = <<>>
  /\ requests = 0

Goto(t, label) == pc' = [pc EXCEPT ![t] = label]

\* A call comes in.
Begin(t, r) ==
  /\ pc[t] = "idle"
  /\ requests < MaxRequests
  /\ requests' = requests + 1
  /\ req' = [req EXCEPT ![t] = r]
  /\ at' = [at EXCEPT ![t] = IF r.kind \in ChannelCalls THEN ShardOf[r.channel] ELSE 1]
  /\ since' = [since EXCEPT ![t] = Len(stream)]
  /\ Goto(t, "lock")
  /\ UNCHANGED <<last, mine, owner, registryVars, messageVars>>

\* The thread has the mutex; a subscription is numbered when its thread is that far.
Enter(t) ==
  /\ pc[t] = "lock"
  /\ owner' = [owner EXCEPT ![at[t]] = t]
  /\ Goto(t, CASE req[t].kind = "publish" -> "push"
               [] req[t].kind \in {"subscribe", "describe"} -> "eraseHandler"
               [] req[t].kind = "describeAll" -> "eraseHandlers"
               [] req[t].kind = "count" -> "count"
               [] req[t].kind \in {"getMessages", "statistics"} -> "read"
               [] req[t].kind = "reset" -> "clearSubscribers")
  /\ IF req[t].kind = "subscribe"
     THEN /\ stream' = Append(stream, [from |-> 0, got |-> <<>>])
          /\ mine' = [mine EXCEPT ![t] = Len(stream) + 1]
     ELSE UNCHANGED <<stream, mine>>
  /\ last' = [last EXCEPT ![t] = -1]
  /\ UNCHANGED <<req, at, since, requests, registryVars, published, dropped>>

\* Mistake: the call does not take the mutex of its shard.
LockWithoutWaiting(t) == Enter(t)

\* std::lock_guard waits for the mutex of the shard.
Lock(t) == owner[at[t]] = None /\ Enter(t)

\* Mistake: a sweeping call comes back to the shard it is at.
UnlockSameShard(t) ==
  /\ pc[t] = "unlock"
  /\ owner' = [owner EXCEPT ![at[t]] = None]
  /\ Goto(t, IF req[t].kind \in SweepingCalls /\ at[t] < ShardCount THEN "lock" ELSE "idle")
  /\ UNCHANGED <<req, at, last, mine, since, requests, registryVars, messageVars>>

\* A sweeping call goes on to the next shard.
Unlock(t) ==
  /\ pc[t] = "unlock"
  /\ owner' = [owner EXCEPT ![at[t]] = None]
  /\ IF req[t].kind \in SweepingCalls /\ at[t] < ShardCount
     THEN at' = [at EXCEPT ![t] = @ + 1] /\ Goto(t, "lock")
     ELSE Goto(t, "idle") /\ UNCHANGED at
  /\ UNCHANGED <<req, last, mine, since, requests, registryVars, messageVars>>

-----------------------------------------------------------------------------
(***************************************************************************)
(* publish: the message goes into the queue of the channel, then to its    *)
(* handlers in the order of their ids (fire_).                             *)
(***************************************************************************)
\* Mistake: the queue is cut without asking whether it exceeds the limit.
CutUnchecked(c) == published[c] + 1 - CacheLimit

\* How many messages the queue of c no longer holds when one more is in it.
Cut(c) == Max({dropped[c], published[c] + 1 - CacheLimit})

PushMessage(t) ==
  LET c == req[t].channel
  IN  /\ pc[t] = "push"
      /\ published' = [published EXCEPT ![c] = @ + 1]
      /\ dropped' = [dropped EXCEPT ![c] = Cut(c)]
      /\ Goto(t, "fire")
      /\ UNCHANGED <<req, at, last, mine, since, requests, owner, registryVars, stream>>

\* The handlers fire_ still has to call.
Unserved(t) == {h \in handlers[at[t]] : h.channel = req[t].channel /\ h.id > last[t]}

Fire(t) ==
  /\ pc[t] = "fire"
  /\ \E h \in Unserved(t) :
       /\ \A g \in Unserved(t) : h.id <= g.id
       /\ last' = [last EXCEPT ![t] = h.id]
       /\ stream' = [stream EXCEPT ![h.sub].got = Append(@, published[h.channel])]
  /\ UNCHANGED <<pc, req, at, mine, since, requests, owner, registryVars, published, dropped>>

FireDone(t) ==
  /\ pc[t] = "fire"
  /\ Unserved(t) = {}
  /\ Goto(t, "unlock")
  /\ UNCHANGED <<req, at, last, mine, since, requests, owner, registryVars, messageVars>>

-----------------------------------------------------------------------------
(***************************************************************************)
(* describe_(id, channel), which subscribe calls first.                    *)
(***************************************************************************)
Described(t) == IF req[t].kind = "subscribe" THEN "insertSubscriber" ELSE "unlock"

\* Mistake: the handler that is there is not erased.
SkipHandler(t) ==
  /\ pc[t] = "eraseHandler"
  /\ Goto(t, Described(t))
  /\ UNCHANGED <<req, at, last, mine, since, requests, owner, registryVars, messageVars>>

EraseHandler(t) ==
  LET r == req[t]
      s == at[t]
  IN  /\ pc[t] = "eraseHandler"
      /\ IF <<r.id, r.channel>> \in subscribers[s]
         THEN /\ handlers' = [handlers EXCEPT ![s] =
                                {h \in @ : ~ (h.channel = r.channel /\ h.id = r.id)}]
              /\ Goto(t, "eraseSubscriber")
         ELSE /\ Goto(t, Described(t))
              /\ UNCHANGED handlers
      /\ UNCHANGED <<req, at, last, mine, since, requests, owner, subscribers, messageVars>>

EraseSubscriber(t) ==
  /\ pc[t] = "eraseSubscriber"
  /\ subscribers' = [subscribers EXCEPT ![at[t]] = @ \ {<<req[t].id, req[t].channel>>}]
  /\ Goto(t, Described(t))
  /\ UNCHANGED <<req, at, last, mine, since, requests, owner, handlers, messageVars>>

(***************************************************************************)
(* The rest of subscribe: subscribe_ (std::map::insert leaves a handler    *)
(* that is already there) and the copy of what the queue holds.            *)
(***************************************************************************)
InsertSubscriber(t) ==
  /\ pc[t] = "insertSubscriber"
  /\ subscribers' = [subscribers EXCEPT ![at[t]] = @ \cup {<<req[t].id, req[t].channel>>}]
  /\ Goto(t, "insertHandler")
  /\ UNCHANGED <<req, at, last, mine, since, requests, owner, handlers, messageVars>>

InsertHandler(t) ==
  LET r == req[t]
      s == at[t]
  IN  /\ pc[t] = "insertHandler"
      /\ handlers' = IF \E h \in handlers[s] : h.channel = r.channel /\ h.id = r.id
                     THEN handlers
                     ELSE [handlers EXCEPT ![s] =
                             @ \cup {[channel |-> r.channel, id |-> r.id, sub |-> mine[t]]}]
      /\ Goto(t, "copy")
      /\ UNCHANGED <<req, at, last, mine, since, requests, owner, subscribers, messageVars>>

\* The snapshot of a channel: the last SnapshotLimit of the messages its queue holds.
From(c) == Max({dropped[c], published[c] - SnapshotLimit})

Held(c) == [k \in 1 .. published[c] - From(c) |-> From(c) + k]

CopyMessages(t) ==
  LET c == req[t].channel
  IN  /\ pc[t] = "copy"
      /\ stream' = [stream EXCEPT ![mine[t]] = [from |-> From(c), got |-> Held(c)]]
      /\ Goto(t, "unlock")
      /\ UNCHANGED <<req, at, last, mine, since, requests, owner, registryVars,
                     published, dropped>>

-----------------------------------------------------------------------------
(***************************************************************************)
(* The sweeping calls, on the shard a thread is at: describe(id) erases    *)
(* the handlers of the subscriptions it finds in the set and then these,   *)
(* subscriber_count compares the sizes and aborts the process if they      *)
(* differ, reset clears the three containers one after another.            *)
(***************************************************************************)
\* Mistake: describe(id) forgets the handlers.
SkipHandlers(t) ==
  /\ pc[t] = "eraseHandlers"
  /\ Goto(t, "eraseSubscribers")
  /\ UNCHANGED <<req, at, last, mine, since, requests, owner, registryVars, messageVars>>

EraseHandlers(t) ==
  LET s == at[t]
  IN  /\ pc[t] = "eraseHandlers"
      /\ handlers' = [handlers EXCEPT ![s] =
                        {h \in @ : ~ (h.id = req[t].id /\ <<h.id, h.channel>> \in subscribers[s])}]
      /\ Goto(t, "eraseSubscribers")
      /\ UNCHANGED <<req, at, last, mine, since, requests, owner, subscribers, messageVars>>

EraseSubscribers(t) ==
  /\ pc[t] = "eraseSubscribers"
  /\ subscribers' = [subscribers EXCEPT ![at[t]] = {p \in @ : p[1] # req[t].id}]
  /\ Goto(t, "unlock")
  /\ UNCHANGED <<req, at, last, mine, since, requests, owner, handlers, messageVars>>

SizesAgree(s) == Cardinality(handlers[s]) = Cardinality(subscribers[s])

Count(t) ==
  /\ pc[t] = "count"
  /\ SizesAgree(at[t])
  /\ Goto(t, "unlock")
  /\ UNCHANGED <<req, at, last, mine, since, requests, owner, registryVars, messageVars>>

ClearSubscribers(t) ==
  /\ pc[t] = "clearSubscribers"
  /\ subscribers' = [subscribers EXCEPT ![at[t]] = {}]
  /\ Goto(t, "clearHandlers")
  /\ UNCHANGED <<req, at, last, mine, since, requests, owner, handlers, messageVars>>

ClearHandlers(t) ==
  /\ pc[t] = "clearHandlers"
  /\ handlers' = [handlers EXCEPT ![at[t]] = {}]
  /\ Goto(t, "clearChannels")
  /\ UNCHANGED <<req, at, last, mine, since, requests, owner, subscribers, messageVars>>

ClearChannels(t) ==
  /\ pc[t] = "clearChannels"
  /\ dropped' = [c \in Channels |-> IF ShardOf[c] = at[t] THEN published[c] ELSE dropped[c]]
  /\ Goto(t, "unlock")
  /\ UNCHANGED <<req, at, last, mine, since, requests, owner, registryVars, published, stream>>

-----------------------------------------------------------------------------
(***************************************************************************)
(* get_messages copies what the queue of a channel holds, Held(c), and the *)
(* statistics look at the queues of the shard: neither changes a thing     *)
(* here, where no queue runs empty by the death of its messages.           *)
(***************************************************************************)
Read(t) ==
  /\ pc[t] = "read"
  /\ Goto(t, "unlock")
  /\ UNCHANGED <<req, at, last, mine, since, requests, owner, registryVars, messageVars>>

-----------------------------------------------------------------------------
\* What the thread does once a call has begun.
Step(t) ==
  \/ Lock(t) \/ Unlock(t)
  \/ PushMessage(t) \/ Fire(t) \/ FireDone(t)
  \/ EraseHandler(t) \/ EraseSubscriber(t)
  \/ InsertSubscriber(t) \/ InsertHandler(t) \/ CopyMessages(t)
  \/ EraseHandlers(t) \/ EraseSubscribers(t) \/ Count(t) \/ Read(t)
  \/ ClearSubscribers(t) \/ ClearHandlers(t) \/ ClearChannels(t)

\* All the calls of the run have returned.
Quiet == requests = MaxRequests /\ (\A t \in Threads : pc[t] = "idle") /\ UNCHANGED vars

Next ==
  \/ \E t \in Threads : (\E r \in Requests : Begin(t, r)) \/ Step(t)
  \/ Quiet

Spec == Init /\ [][Next]_vars

\* Every thread that is inside a call is scheduled.
FairSpec == Spec /\ \A t \in Threads : WF_vars(Step(t))

-----------------------------------------------------------------------------
Labels ==
  {"idle", "lock", "unlock", "push", "fire", "eraseHandler", "eraseSubscriber",
   "insertSubscriber", "insertHandler", "copy", "eraseHandlers", "eraseSubscribers",
   "count", "read", "clearSubscribers", "clearHandlers", "clearChannels"}

\* The containers and the threads always have their types.
TypeOK ==
  /\ pc \in [Threads -> Labels]
  /\ req \in [Threads -> Requests]
  /\ at \in [Threads -> Shards]
  /\ last \in [Threads -> Ids \cup {-1}]
  /\ mine \in [Threads -> Nat]
  /\ since \in [Threads -> Nat]
  /\ owner \in [Shards -> Threads \cup {None}]
  /\ subscribers \in [Shards -> SUBSET (Ids \X Channels)]
  /\ handlers \in [Shards -> SUBSET [channel : Channels, id : Ids, sub : Nat]]
  /\ published \in [Channels -> Nat]
  /\ dropped \in [Channels -> Nat]
  /\ stream \in Seq([from : Nat, got : Seq(Nat)])
  /\ requests \in 0 .. MaxRequests

(***************************************************************************)
(* The two containers of a shard agree whenever its mutex is free: every   *)
(* subscription in the set has its handler, every handler is in the set,   *)
(* and both are of channels that belong to the shard.                      *)
(***************************************************************************)
RegistryAgrees ==
  \A s \in Shards : owner[s] = None =>
    /\ subscribers[s] = {<<h.id, h.channel>> : h \in handlers[s]}
    /\ \A h \in handlers[s] : ShardOf[h.channel] = s

(***************************************************************************)
(* subscriber_count never meets the sizes it aborts the process for        *)
(* (pubsub.cpp:112-113), whatever other calls were under way before.       *)
(***************************************************************************)
NeverAborts == \A t \in Threads : pc[t] = "count" => SizesAgree(at[t])

(***************************************************************************)
(* Between the copy a subscriber gets from subscribe and the messages its  *)
(* handler is given there is no gap and no repetition, and none later:     *)
(* whenever the mutex is free, a registered subscription has got every     *)
(* message from the first that was held when it was made to the last that  *)
(* was published, each once and in order.                                  *)
(***************************************************************************)
GaplessHandoff ==
  \A s \in Shards : owner[s] = None =>
    \A h \in handlers[s] :
      LET first == stream[h.sub].from
      IN  stream[h.sub].got = [k \in 1 .. published[h.channel] - first |-> first + k]

(***************************************************************************)
(* describe(id), which runs when a client disconnects, does not hold all   *)
(* mutexes, so a subscribe of the same client may slip in behind it.  What *)
(* it leaves in the shards it has done is only that: subscriptions that    *)
(* took their mutex after it began.                                        *)
(***************************************************************************)
Done(t) == {s \in Shards : s < at[t] \/ (s = at[t] /\ pc[t] = "unlock")}

DescribeLeavesOnlyNewer ==
  \A t \in Threads :
    pc[t] # "idle" /\ req[t].kind = "describeAll" =>
      \A s \in Done(t) : \A h \in handlers[s] : h.id = req[t].id => h.sub > since[t]

(***************************************************************************)
(* Every call returns: no thread waits for a mutex for ever.               *)
(***************************************************************************)
EveryCallReturns == \A t \in Threads : pc[t] = "lock" ~> pc[t] = "idle"

-----------------------------------------------------------------------------
(***************************************************************************)
(* Every call is atomic on a shard: the refinement mapping takes a shard   *)
(* whose mutex is held for what it will be when the call is through, so    *)
(* that the call takes effect when it gets the mutex.                      *)
(***************************************************************************)
HandlersSettled(s) ==
  LET t == owner[s]
      r == req[t]
      others == {h \in handlers[s] : ~ (h.id = r.id /\ h.channel = r.channel)}
  IN  CASE t = None -> handlers[s]
        [] t # None /\ r.kind = "subscribe" ->
             others \cup {[channel |-> r.channel, id |-> r.id, sub |-> mine[t]]}
        [] t # None /\ r.kind = "describe" -> others
        [] t # None /\ r.kind = "describeAll" -> {h \in handlers[s] : h.id # r.id}
        [] t # None /\ r.kind = "reset" -> {}
        [] OTHER -> handlers[s]

AboutToPush(c) == \E t \in Threads : pc[t] = "push" /\ req[t].channel = c

PublishedSettled(c) == IF AboutToPush(c) THEN published[c] + 1 ELSE published[c]

DroppedSettled(c) ==
  IF AboutToPush(c) THEN Cut(c)
  ELSE IF owner[ShardOf[c]] # None /\ req[owner[ShardOf[c]]].kind = "reset" THEN published[c]
  ELSE dropped[c]

StreamSettled(n) ==
  LET copying == {t \in Threads : /\ mine[t] = n
                                  /\ req[t].kind = "subscribe"
                                  /\ pc[t] \notin {"idle", "lock", "unlock"}}
      coming  == {t \in Threads : \E h \in handlers[at[t]] :
                    /\ h.sub = n
                    /\ h.channel = req[t].channel
                    /\ pc[t] = "push" \/ (pc[t] = "fire" /\ h.id > last[t])}
  IN  IF copying # {}
      THEN LET c == req[CHOOSE t \in copying : TRUE].channel
           IN  [from |-> From(c), got |-> Held(c)]
      ELSE IF coming # {}
      THEN LET c == req[CHOOSE t \in coming : TRUE].channel
           IN  [stream[n] EXCEPT !.got = Append(@, PublishedSettled(c))]
      ELSE stream[n]

Settled ==
  INSTANCE Broker WITH
    Parts      <- {{c \in Channels : ShardOf[c] = s} : s \in Shards},
    registered <- UNION {HandlersSettled(s) : s \in Shards},
    published  <- [c \in Channels |-> PublishedSettled(c)],
    dropped    <- [c \in Channels |-> DroppedSettled(c)],
    stream     <- [n \in DOMAIN stream |-> StreamSettled(n)]

ImplementsBroker == Settled!Spec

(***************************************************************************)
(* A get_messages is atomic too: what it copies, while other threads are   *)
(* in the middle of their calls, is what the broker holds then, so that no *)
(* reader sees a publish or a reset half done (pubsub_mt.cpp:38-43).       *)
(***************************************************************************)
ReadsTheBroker ==
  \A t \in Threads :
    pc[t] = "read" /\ req[t].kind = "getMessages" =>
      LET c == req[t].channel
      IN  Held(c) = Settled!Held(c) /\ From(c) = Settled!From(c)
=============================================================================
