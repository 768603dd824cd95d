---------------------------- MODULE PubsubMtProofs ----------------------------
(***************************************************************************)
(* PubsubMt proved for every number of threads, shards, subscriber ids,    *)
(* channels and calls: the mutexes exclude, the two containers of a shard  *)
(* agree whenever its mutex is free or subscriber_count compares their     *)
(* sizes, a subscriber is given the messages of its channel without a gap  *)
(* or a repetition, the whole implements Broker, and a get_messages copies *)
(* what the broker holds.                                                  *)
(***************************************************************************)
EXTENDS PubsubMt, FiniteSetTheorems, FunctionTheorems, TLAPS

-----------------------------------------------------------------------------
(***************************************************************************)
(* The inductive invariant.                                                *)
(***************************************************************************)
\* A thread past its lock holds the mutex of the shard it is at, and no other thread does.
Inside(t) == pc[t] \notin {"idle", "lock"}

MutexInv ==
  /\ \A t \in Threads : Inside(t) => owner[at[t]] = t
  /\ \A s \in Shards : owner[s] # None => at[owner[s]] = s /\ Inside(owner[s])

\* A thread is where its call may take it, at the shard of the channel it is about.
PhaseInv ==
  \A t \in Threads :
    /\ pc[t] \in {"push", "fire"} => req[t].kind = "publish"
    /\ pc[t] \in {"eraseHandler", "eraseSubscriber"} => req[t].kind \in {"subscribe", "describe"}
    /\ pc[t] \in {"insertSubscriber", "insertHandler", "copy"} => req[t].kind = "subscribe"
    /\ pc[t] \in {"eraseHandlers", "eraseSubscribers"} => req[t].kind = "describeAll"
    /\ pc[t] # "idle" /\ req[t].kind \in ChannelCalls => at[t] = ShardOf[req[t].channel]

\* The steps that look at a shard only, and those of reset.
Look(t) == Count(t) \/ Read(t)

Clear(t) == ClearSubscribers(t) \/ ClearHandlers(t) \/ ClearChannels(t)

\* Between two steps of a call the containers of its shard differ by what is still to do.
Keys(s) == {<<h.id, h.channel>> : h \in handlers[s]}

KeyOf(t) == <<req[t].id, req[t].channel>>

InTransit(t) ==
  pc[t] \in {"eraseSubscriber", "insertHandler", "eraseSubscribers", "clearHandlers"}

RegistryInv ==
  /\ \A s \in Shards :
       (\A t \in Threads : at[t] = s => ~ InTransit(t)) => subscribers[s] = Keys(s)
  /\ \A t \in Threads :
       /\ pc[t] = "eraseSubscriber" => Keys(at[t]) = subscribers[at[t]] \ {KeyOf(t)}
       /\ pc[t] = "insertHandler" => subscribers[at[t]] = Keys(at[t]) \cup {KeyOf(t)}
       /\ pc[t] = "eraseSubscribers" =>
            Keys(at[t]) = {p \in subscribers[at[t]] : p[1] # req[t].id}
       /\ pc[t] = "clearHandlers" => subscribers[at[t]] = {}

\* std::map: one handler for a channel and an id; and every handler is in its shard.
HandlersInv ==
  \A s \in Shards :
    /\ IsFiniteSet(handlers[s])
    /\ \A h \in handlers[s] : ShardOf[h.channel] = s
    /\ \A g, h \in handlers[s] : g.id = h.id /\ g.channel = h.channel => g = h

DroppedInv == \A c \in Channels : dropped[c] <= published[c]

IndInv ==
  /\ TypeOK
  /\ DroppedInv
  /\ MutexInv
  /\ PhaseInv
  /\ RegistryInv
  /\ HandlersInv

-----------------------------------------------------------------------------
(***************************************************************************)
(* What the containers are made of.                                        *)
(***************************************************************************)
LEMMA LargerOfTwo ==
  ASSUME NEW a \in Int, NEW b \in Int
  PROVE  Max({a, b}) = IF a >= b THEN a ELSE b
BY DEF Max

LEMMA RequestFields ==
  ASSUME NEW r \in Requests
  PROVE  /\ r.kind \in ChannelCalls \cup SweepingCalls
         /\ r.id \in Ids
         /\ r.channel \in Channels
BY RequestsAssumption DEF Request

LEMMA SequenceExcept ==
  ASSUME NEW S, NEW s \in Seq(S), NEW i, NEW v \in S
  PROVE  /\ [s EXCEPT ![i] = v] \in Seq(S)
         /\ Len([s EXCEPT ![i] = v]) = Len(s)
         /\ \A j \in DOMAIN s : [s EXCEPT ![i] = v][j] = IF j = i THEN v ELSE s[j]
<1> DEFINE e == [s EXCEPT ![i] = v]
<1>1. s \in [1 .. Len(s) -> S] /\ Len(s) \in Nat
  OBVIOUS
<1>2. e \in [1 .. Len(s) -> S]
  BY <1>1
<1>3. e \in Seq(S) /\ DOMAIN e = 1 .. Len(s)
  BY <1>1, <1>2
<1>4. Len(e) = Len(s)
  BY <1>1, <1>3
<1> QED
  BY <1>3, <1>4

\* What a subscription got.
Streams == [from : Nat, got : Seq(Nat)]

LEMMA StreamElements ==
  ASSUME TypeOK, NEW n \in DOMAIN stream
  PROVE  /\ stream[n] \in Streams
         /\ stream[n].from \in Nat
         /\ stream[n].got \in Seq(Nat)
<1>1. stream \in Seq(Streams)
  BY DEF TypeOK, Streams
<1>2. stream[n] \in Streams
  BY <1>1
<1> QED
  BY <1>2 DEF Streams

\* What a subscriber gets from the queue is a run of message numbers.
LEMMA HeldIsRun ==
  ASSUME TypeOK, DroppedInv, NEW c \in Channels
  PROVE  /\ From(c) \in Nat
         /\ From(c) <= published[c]
         /\ Held(c) \in Seq(Nat)
<1> USE BoundsAssumption DEF TypeOK, DroppedInv
<1>0. dropped[c] \in Int /\ published[c] - SnapshotLimit \in Int
  OBVIOUS
<1>1. From(c) = IF dropped[c] >= published[c] - SnapshotLimit
                THEN dropped[c] ELSE published[c] - SnapshotLimit
  BY ONLY <1>0, LargerOfTwo DEF From
<1>2. From(c) \in Nat /\ From(c) <= published[c]
  BY <1>1
<1> DEFINE n == published[c] - From(c)
<1>3. n \in Nat
  BY <1>2
<1>4. Held(c) \in [1 .. n -> Nat]
  BY <1>2, <1>3 DEF Held
<1> HIDE DEF n
<1> QED
  BY <1>2, <1>3, <1>4

\* The queue never drops more than there was.
LEMMA CutBounds ==
  ASSUME TypeOK, DroppedInv, NEW c \in Channels
  PROVE  Cut(c) \in Nat /\ Cut(c) <= published[c] + 1
<1>0. dropped[c] \in Int /\ published[c] + 1 - CacheLimit \in Int
  BY BoundsAssumption DEF TypeOK
<1>1. Cut(c) = IF dropped[c] >= published[c] + 1 - CacheLimit
               THEN dropped[c] ELSE published[c] + 1 - CacheLimit
  BY ONLY <1>0, LargerOfTwo DEF Cut
<1> QED
  BY <1>1, BoundsAssumption DEF TypeOK, DroppedInv

-----------------------------------------------------------------------------
(***************************************************************************)
(* Types and bounds.                                                       *)
(***************************************************************************)
LEMMA InitTypes == Init => TypeOK /\ DroppedInv
<1> SUFFICES ASSUME Init PROVE TypeOK /\ DroppedInv
  OBVIOUS
<1> USE DEF Init
<1>1. (CHOOSE r \in Requests : TRUE) \in Requests
  BY RequestsAssumption
<1>2. req \in [Threads -> Requests]
  BY <1>1
<1>3. 1 \in Shards
  BY ShardsAssumption DEF Shards
<1>4. stream \in Seq([from : Nat, got : Seq(Nat)])
  OBVIOUS
<1> QED
  BY <1>2, <1>3, <1>4, BoundsAssumption DEF TypeOK, DroppedInv, Labels

\* What a thread does in the middle of a call.
LEMMA StepKinds ==
  ASSUME NEW t \in Threads, Step(t)
  PROVE  \/ Lock(t) \/ Unlock(t) \/ PushMessage(t) \/ Fire(t) \/ FireDone(t)
         \/ EraseHandler(t) \/ EraseSubscriber(t)
         \/ InsertSubscriber(t) \/ InsertHandler(t) \/ CopyMessages(t)
         \/ EraseHandlers(t) \/ EraseSubscribers(t) \/ Look(t) \/ Clear(t)
BY DEF Step, Look, Clear

LEMMA StepTypes ==
  ASSUME TypeOK, DroppedInv, PhaseInv, NEW t \in Threads, Step(t)
  PROVE  TypeOK' /\ DroppedInv'
<1> USE DEF TypeOK, DroppedInv, Goto, Labels, threadVars, registryVars, messageVars
<1>r. /\ req[t] \in Requests
      /\ req[t].id \in Ids
      /\ req[t].channel \in Channels
      /\ req[t].kind \in ChannelCalls \cup SweepingCalls
      /\ at[t] \in Shards
  BY RequestFields
<1>1. CASE Lock(t)
  <2> USE <1>1 DEF Lock, Enter
  <2>1. stream' \in Seq([from : Nat, got : Seq(Nat)]) /\ mine' \in [Threads -> Nat]
    <3> DEFINE fresh == [from |-> 0, got |-> <<>>]
    <3>1. fresh \in Streams
      BY DEF Streams
    <3>2. CASE req[t].kind = "subscribe"
      <4>1. stream \in Seq(Streams)
        BY DEF Streams
      <4>2. stream' = Append(stream, fresh)
        BY <3>2
      <4> HIDE DEF fresh
      <4>3. stream' \in Seq(Streams) /\ Len(stream) \in Nat
        BY <3>1, <4>1, <4>2
      <4>4. mine' = [mine EXCEPT ![t] = Len(stream) + 1]
        BY <3>2
      <4>5. mine' \in [Threads -> Nat]
        BY <4>3, <4>4
      <4> QED
        BY <4>3, <4>5 DEF Streams
    <3>3. CASE req[t].kind # "subscribe"
      BY <3>3
    <3> QED
      BY <3>2, <3>3
  <2>2. owner' \in [Shards -> Threads \cup {None}]
    BY <1>r
  <2>3. pc' \in [Threads -> Labels]
    BY <1>r DEF ChannelCalls, SweepingCalls
  <2>4. last' \in [Threads -> Ids \cup {-1}]
    OBVIOUS
  <2> QED
    BY <2>1, <2>2, <2>3, <2>4
<1>2. CASE Unlock(t)
  <2> USE <1>2 DEF Unlock
  <2>1. at[t] < ShardCount => at[t] + 1 \in Shards
    BY <1>r, ShardsAssumption DEF Shards
  <2>2. at' \in [Threads -> Shards]
    BY <2>1
  <2>3. pc' \in [Threads -> Labels]
    OBVIOUS
  <2>4. owner' \in [Shards -> Threads \cup {None}]
    BY <1>r
  <2> QED
    BY <2>2, <2>3, <2>4
<1>3. CASE PushMessage(t)
  <2> DEFINE c == req[t].channel
  <2>1. c \in Channels /\ Cut(c) \in Nat /\ Cut(c) <= published[c] + 1
    BY <1>r, CutBounds
  <2>2. published' = [published EXCEPT ![c] = @ + 1] /\ dropped' = [dropped EXCEPT ![c] = Cut(c)]
    BY <1>3 DEF PushMessage
  <2> HIDE DEF c
  <2>6. published' \in [Channels -> Nat]
    BY <2>1, <2>2
  <2>7. dropped' \in [Channels -> Nat]
    BY <2>1, <2>2
  <2>5. \A d \in Channels : dropped'[d] <= published'[d]
    BY <2>1, <2>2
  <2>4. pc' \in [Threads -> Labels]
    BY <1>3 DEF PushMessage
  <2> QED
    BY <1>3, <2>4, <2>5, <2>6, <2>7 DEF PushMessage
<1>4. CASE Fire(t)
  <2>1. PICK h \in Unserved(t) :
          /\ last' = [last EXCEPT ![t] = h.id]
          /\ stream' = [stream EXCEPT ![h.sub].got = Append(@, published[h.channel])]
    BY <1>4 DEF Fire
  <2>2. h.id \in Ids /\ h.sub \in Nat /\ h.channel \in Channels
    BY <1>r DEF Unserved
  <2>3. last' \in [Threads -> Ids \cup {-1}]
    BY <2>1, <2>2
  <2>4. stream' \in Seq([from : Nat, got : Seq(Nat)])
    <3>1. CASE h.sub \in DOMAIN stream
      <4>1. stream[h.sub] \in Streams /\ stream[h.sub].got \in Seq(Nat)
        BY <3>1, StreamElements
      <4>2. Append(stream[h.sub].got, published[h.channel]) \in Seq(Nat)
        BY <2>2, <4>1
      <4> DEFINE more == [stream[h.sub] EXCEPT !.got = Append(@, published[h.channel])]
      <4>3. more \in Streams
        BY <4>1, <4>2 DEF Streams
      <4>4. stream' = [stream EXCEPT ![h.sub] = more]
        BY <2>1
      <4> HIDE DEF more
      <4>5. stream' \in Seq(Streams)
        BY <4>3, <4>4, SequenceExcept DEF Streams
      <4> QED
        BY <4>5 DEF Streams
    <3>2. CASE h.sub \notin DOMAIN stream
      <4>1. stream' = stream
        BY <2>1, <3>2
      <4> QED
        BY <4>1
    <3> QED
      BY <3>1, <3>2
  <2> QED
    BY <1>4, <2>3, <2>4 DEF Fire
<1>5. CASE FireDone(t)
  BY <1>r, <1>5 DEF FireDone
<1>6. CASE EraseHandler(t)
  <2>1. handlers' \in [Shards -> SUBSET [channel : Channels, id : Ids, sub : Nat]]
    <3>1. CASE handlers' = handlers
      BY <3>1
    <3>2. CASE handlers' = [handlers EXCEPT ![at[t]] =
                              {h \in @ : ~ (h.channel = req[t].channel /\ h.id = req[t].id)}]
      BY <1>r, <3>2
    <3> QED
      BY <1>6, <3>1, <3>2 DEF EraseHandler
  <2>2. pc' \in [Threads -> Labels]
    BY <1>6 DEF EraseHandler, Described
  <2> QED
    BY <1>6, <2>1, <2>2 DEF EraseHandler
<1>7. CASE EraseSubscriber(t)
  <2>1. subscribers' \in [Shards -> SUBSET (Ids \X Channels)]
    BY <1>r, <1>7 DEF EraseSubscriber
  <2>2. pc' \in [Threads -> Labels]
    BY <1>7 DEF EraseSubscriber, Described
  <2> QED
    BY <1>7, <2>1, <2>2 DEF EraseSubscriber
<1>8. CASE InsertSubscriber(t)
  BY <1>r, <1>8, SMTT(90) DEF InsertSubscriber
<1>9. CASE InsertHandler(t)
  BY <1>r, <1>9, SMTT(90) DEF InsertHandler
<1>10. CASE CopyMessages(t)
  <2> DEFINE c == req[t].channel
             snapshot == [from |-> From(c), got |-> Held(c)]
  <2>1. snapshot \in Streams
    BY <1>r, HeldIsRun DEF Streams
  <2>2. stream' = [stream EXCEPT ![mine[t]] = snapshot]
    BY <1>10 DEF CopyMessages
  <2> HIDE DEF snapshot
  <2>3. stream' \in Seq([from : Nat, got : Seq(Nat)])
    BY <2>1, <2>2, SequenceExcept DEF Streams
  <2> QED
    BY <1>10, <2>3 DEF CopyMessages
<1>11. CASE EraseHandlers(t)
  BY <1>r, <1>11 DEF EraseHandlers
<1>12. CASE EraseSubscribers(t)
  BY <1>r, <1>12 DEF EraseSubscribers
<1>13. CASE Look(t)
  BY <1>r, <1>13 DEF Look, Count, Read
<1>14. CASE Clear(t)
  <2>1. CASE ClearSubscribers(t)
    BY <1>r, <2>1 DEF ClearSubscribers
  <2>2. CASE ClearHandlers(t)
    BY <1>r, <2>2 DEF ClearHandlers
  <2>3. CASE ClearChannels(t)
    BY <1>r, <2>3 DEF ClearChannels
  <2> QED
    BY <1>14, <2>1, <2>2, <2>3 DEF Clear
<1> QED
  BY <1>1, <1>2, <1>3, <1>4, <1>5, <1>6, <1>7, <1>8, <1>9, <1>10, <1>11, <1>12, <1>13, <1>14, StepKinds

LEMMA BeginTypes ==
  ASSUME TypeOK, DroppedInv, NEW t \in Threads, NEW r \in Requests, Begin(t, r)
  PROVE  TypeOK' /\ DroppedInv'
<1> USE DEF TypeOK, DroppedInv, Begin, Goto, Labels, registryVars, messageVars
<1>1. /\ pc' \in [Threads -> Labels]
      /\ req' \in [Threads -> Requests]
      /\ since' \in [Threads -> Nat]
      /\ requests' \in 0 .. MaxRequests
  BY BoundsAssumption
<1>2. at' \in [Threads -> Shards]
  BY RequestFields, ShardsAssumption DEF Shards
<1> QED
  BY <1>1, <1>2

-----------------------------------------------------------------------------
(***************************************************************************)
(* The mutexes, and where a call may be.                                   *)
(***************************************************************************)
LEMMA StepMutex ==
  ASSUME TypeOK, MutexInv, NEW t \in Threads, Step(t)
  PROVE  MutexInv'
<1> USE NoneAssumption DEF TypeOK, MutexInv, Inside, Goto, Labels, threadVars, registryVars, messageVars
<1>t. owner \in [Shards -> Threads \cup {None}] /\ at \in [Threads -> Shards]
  OBVIOUS
<1>1. CASE Lock(t)
  <2> USE <1>1 DEF Lock, Enter
  <2>1. /\ owner[at[t]] = None /\ owner' = [owner EXCEPT ![at[t]] = t]
        /\ at' = at /\ \A u \in Threads : u # t => pc'[u] = pc[u]
    OBVIOUS
  <2>2. req[t].kind \in ChannelCalls \cup SweepingCalls
    BY RequestFields
  <2>3. pc'[t] \notin {"idle", "lock"}
    BY <2>2 DEF ChannelCalls, SweepingCalls
  <2> QED
    BY ONLY <1>t, <2>1, <2>3, NoneAssumption, MutexInv DEF MutexInv, Inside
<1>2. CASE Unlock(t)
  <2>1. /\ pc[t] = "unlock" /\ owner' = [owner EXCEPT ![at[t]] = None]
        /\ pc'[t] \in {"idle", "lock"}
        /\ \A u \in Threads : u # t => pc'[u] = pc[u] /\ at'[u] = at[u]
    BY <1>2 DEF Unlock
  <2>2. owner[at[t]] = t /\ t # None
    BY <2>1
  <2>3. \A u \in Threads : u # t /\ Inside(u) => at[u] # at[t]
    BY <2>2
  <2> QED
    BY ONLY <1>t, <2>1, <2>2, <2>3, NoneAssumption, MutexInv DEF MutexInv, Inside
<1>3. CASE PushMessage(t)
  BY <1>3 DEF PushMessage
<1>4. CASE Fire(t)
  BY <1>4 DEF Fire
<1>5. CASE FireDone(t)
  BY <1>5 DEF FireDone
<1>6. CASE EraseHandler(t)
  <2>1. /\ pc[t] \notin {"idle", "lock"} /\ pc'[t] \notin {"idle", "lock"}
        /\ owner' = owner /\ at' = at
        /\ \A u \in Threads : u # t => pc'[u] = pc[u]
    BY <1>6 DEF EraseHandler, Described
  <2> QED
    BY ONLY <1>t, <2>1, MutexInv DEF MutexInv, Inside
<1>7. CASE EraseSubscriber(t)
  BY <1>7 DEF EraseSubscriber, Described
<1>8. CASE InsertSubscriber(t)
  BY <1>8 DEF InsertSubscriber
<1>9. CASE InsertHandler(t)
  BY <1>9 DEF InsertHandler
<1>10. CASE CopyMessages(t)
  BY <1>10 DEF CopyMessages
<1>11. CASE EraseHandlers(t)
  BY <1>11 DEF EraseHandlers
<1>12. CASE EraseSubscribers(t)
  BY <1>12 DEF EraseSubscribers
<1>13. CASE Look(t)
  <2>1. CASE Count(t)
    BY <2>1 DEF Count
  <2>2. CASE Read(t)
    BY <2>2 DEF Read
  <2> QED
    BY <1>13, <2>1, <2>2 DEF Look
<1>14. CASE Clear(t)
  <2>1. CASE ClearSubscribers(t)
    BY <2>1 DEF ClearSubscribers
  <2>2. CASE ClearHandlers(t)
    BY <2>2 DEF ClearHandlers
  <2>3. CASE ClearChannels(t)
    BY <2>3 DEF ClearChannels
  <2> QED
    BY <1>14, <2>1, <2>2, <2>3 DEF Clear
<1> QED
  BY <1>1, <1>2, <1>3, <1>4, <1>5, <1>6, <1>7, <1>8, <1>9, <1>10, <1>11, <1>12, <1>13, <1>14, StepKinds

LEMMA StepPhase ==
  ASSUME TypeOK, PhaseInv, NEW t \in Threads, Step(t)
  PROVE  PhaseInv'
<1> USE DEF TypeOK, PhaseInv, Goto, Labels, ChannelCalls, SweepingCalls, threadVars, registryVars, messageVars
<1>r. req[t].kind \in ChannelCalls \cup SweepingCalls
  BY RequestFields
<1>1. CASE Lock(t)
  BY <1>r, <1>1 DEF Lock, Enter
<1>2. CASE Unlock(t)
  <2>1. /\ pc'[t] \in {"idle", "lock"} /\ (pc'[t] = "lock" => req[t].kind \in SweepingCalls)
        /\ req' = req
        /\ \A u \in Threads : u # t => pc'[u] = pc[u] /\ at'[u] = at[u]
    BY <1>2 DEF Unlock
  <2>2. \A u \in Threads : pc[u] # "idle" /\ req[u].kind \in ChannelCalls => at[u] = ShardOf[req[u].channel]
    OBVIOUS
  <2> QED
    BY ONLY <2>1, <2>2, PhaseInv DEF PhaseInv, ChannelCalls, SweepingCalls
<1>3. CASE PushMessage(t)
  BY <1>r, <1>3 DEF PushMessage
<1>4. CASE Fire(t)
  BY <1>r, <1>4 DEF Fire
<1>5. CASE FireDone(t)
  BY <1>r, <1>5 DEF FireDone
<1>6. CASE EraseHandler(t)
  BY <1>r, <1>6 DEF EraseHandler, Described
<1>7. CASE EraseSubscriber(t)
  BY <1>r, <1>7 DEF EraseSubscriber, Described
<1>8. CASE InsertSubscriber(t)
  BY <1>r, <1>8 DEF InsertSubscriber
<1>9. CASE InsertHandler(t)
  BY <1>r, <1>9 DEF InsertHandler
<1>10. CASE CopyMessages(t)
  BY <1>r, <1>10 DEF CopyMessages
<1>11. CASE EraseHandlers(t)
  BY <1>r, <1>11 DEF EraseHandlers
<1>12. CASE EraseSubscribers(t)
  BY <1>r, <1>12 DEF EraseSubscribers
<1>13. CASE Look(t)
  BY <1>r, <1>13 DEF Look, Count, Read
<1>14. CASE Clear(t)
  <2>1. CASE ClearSubscribers(t)
    BY <1>r, <2>1 DEF ClearSubscribers
  <2>2. CASE ClearHandlers(t)
    BY <1>r, <2>2 DEF ClearHandlers
  <2>3. CASE ClearChannels(t)
    BY <1>r, <2>3 DEF ClearChannels
  <2> QED
    BY <1>14, <2>1, <2>2, <2>3 DEF Clear
<1> QED
  BY <1>1, <1>2, <1>3, <1>4, <1>5, <1>6, <1>7, <1>8, <1>9, <1>10, <1>11, <1>12, <1>13, <1>14, StepKinds

LEMMA BeginMutexPhase ==
  ASSUME TypeOK, MutexInv, PhaseInv, NEW t \in Threads, NEW r \in Requests, Begin(t, r)
  PROVE  MutexInv' /\ PhaseInv'
<1>1. /\ pc[t] = "idle" /\ pc' = [pc EXCEPT ![t] = "lock"]
      /\ req' = [req EXCEPT ![t] = r]
      /\ at' = [at EXCEPT ![t] = IF r.kind \in ChannelCalls THEN ShardOf[r.channel] ELSE 1]
      /\ owner' = owner
  BY DEF Begin, Goto
<1>2. /\ pc \in [Threads -> Labels] /\ req \in [Threads -> Requests]
      /\ at \in [Threads -> Shards] /\ owner \in [Shards -> Threads \cup {None}]
  BY DEF TypeOK
<1>3. MutexInv'
  BY ONLY <1>1, <1>2, MutexInv, NoneAssumption DEF MutexInv, Inside
<1>4. PhaseInv'
  BY ONLY <1>1, <1>2, PhaseInv DEF PhaseInv
<1> QED
  BY <1>3, <1>4

-----------------------------------------------------------------------------
(***************************************************************************)
(* The registry.                                                           *)
(***************************************************************************)
\* No two threads are inside the same shard.
LEMMA AloneInside ==
  ASSUME MutexInv, NEW t \in Threads, NEW u \in Threads, Inside(t), Inside(u), at[t] = at[u]
  PROVE  t = u
BY DEF MutexInv

LEMMA TransitIsInside ==
  ASSUME NEW t \in Threads, InTransit(t)
  PROVE  Inside(t)
BY DEF InTransit, Inside

\* A thread that is not in the middle of a change finds the containers in agreement.
LEMMA AgreeHere ==
  ASSUME TypeOK, MutexInv, RegistryInv, NEW t \in Threads, Inside(t), ~ InTransit(t)
  PROVE  subscribers[at[t]] = Keys(at[t])
<1>1. at[t] \in Shards
  BY DEF TypeOK
<1>2. \A u \in Threads : at[u] = at[t] => ~ InTransit(u)
  BY AloneInside, TransitIsInside
<1> QED
  BY <1>1, <1>2 DEF RegistryInv

\* Steps that do not touch the containers.
LEMMA RegistryUntouched ==
  ASSUME TypeOK, RegistryInv, UNCHANGED <<subscribers, handlers>>,
         \A u \in Threads :
           \/ pc'[u] = pc[u] /\ req'[u] = req[u] /\ at'[u] = at[u]
           \/ ~ InTransit(u) /\ ~ InTransit(u)'
  PROVE  RegistryInv'
<1>1. \A s \in Shards : Keys(s)' = Keys(s)
  BY DEF Keys
<1>2. ASSUME NEW s \in Shards, \A u \in Threads : at'[u] = s => ~ InTransit(u)'
      PROVE  subscribers'[s] = Keys(s)'
  <2>1. \A u \in Threads : at[u] = s => ~ InTransit(u)
    BY <1>2 DEF InTransit
  <2> QED
    BY <1>1, <2>1 DEF RegistryInv
<1>3. ASSUME NEW u \in Threads
      PROVE  /\ pc'[u] = "eraseSubscriber" => Keys(at[u])' = subscribers'[at'[u]] \ {KeyOf(u)'}
             /\ pc'[u] = "insertHandler" => subscribers'[at'[u]] = Keys(at[u])' \cup {KeyOf(u)'}
             /\ pc'[u] = "eraseSubscribers" =>
                  Keys(at[u])' = {p \in subscribers'[at'[u]] : p[1] # req'[u].id}
             /\ pc'[u] = "clearHandlers" => subscribers'[at'[u]] = {}
  <2>1. CASE InTransit(u)'
    <3>1. pc'[u] = pc[u] /\ req'[u] = req[u] /\ at'[u] = at[u]
      BY <2>1
    <3>2. Keys(at[u])' = Keys(at[u]) /\ KeyOf(u)' = KeyOf(u)
      BY <3>1 DEF Keys, KeyOf
    <3> QED
      BY <3>1, <3>2 DEF RegistryInv
  <2>2. CASE ~ InTransit(u)'
    BY <2>2 DEF InTransit
  <2> QED
    BY <2>1, <2>2
<1> QED
  BY <1>2, <1>3 DEF RegistryInv

\* Steps inside a shard, which touch the containers of that shard only.
LEMMA RegistryTouchedHere ==
  ASSUME TypeOK, MutexInv, RegistryInv, NEW t \in Threads, Inside(t),
         at' = at, req' = req,
         \A u \in Threads : u # t => pc'[u] = pc[u],
         \A s \in Shards : s # at[t] => subscribers'[s] = subscribers[s] /\ handlers'[s] = handlers[s],
         ~ InTransit(t)' => subscribers'[at[t]] = Keys(at[t])',
         pc'[t] = "eraseSubscriber" => Keys(at[t])' = subscribers'[at[t]] \ {KeyOf(t)},
         pc'[t] = "insertHandler" => subscribers'[at[t]] = Keys(at[t])' \cup {KeyOf(t)},
         pc'[t] = "eraseSubscribers" =>
           Keys(at[t])' = {p \in subscribers'[at[t]] : p[1] # req[t].id},
         pc'[t] = "clearHandlers" => subscribers'[at[t]] = {}
  PROVE  RegistryInv'
<1>1. \A s \in Shards : s # at[t] => Keys(s)' = Keys(s)
  BY DEF Keys
<1>2. \A u \in Threads : KeyOf(u)' = KeyOf(u)
  BY DEF KeyOf
<1>3. \A u \in Threads : at[u] \in Shards
  BY DEF TypeOK
<1>4. ASSUME NEW s \in Shards, \A u \in Threads : at'[u] = s => ~ InTransit(u)'
      PROVE  subscribers'[s] = Keys(s)'
  <2>1. CASE s = at[t]
    BY <1>4, <2>1
  <2>2. CASE s # at[t]
    <3>1. \A u \in Threads : at[u] = s => ~ InTransit(u)
      BY <1>4, <2>2 DEF InTransit
    <3> QED
      BY <1>1, <2>2, <3>1 DEF RegistryInv
  <2> QED
    BY <2>1, <2>2
<1>5. ASSUME NEW u \in Threads
      PROVE  /\ pc'[u] = "eraseSubscriber" => Keys(at[u])' = subscribers'[at'[u]] \ {KeyOf(u)'}
             /\ pc'[u] = "insertHandler" => subscribers'[at'[u]] = Keys(at[u])' \cup {KeyOf(u)'}
             /\ pc'[u] = "eraseSubscribers" =>
                  Keys(at[u])' = {p \in subscribers'[at'[u]] : p[1] # req'[u].id}
             /\ pc'[u] = "clearHandlers" => subscribers'[at'[u]] = {}
  <2>1. CASE u = t
    BY <1>2, <2>1 DEF Keys
  <2>2. CASE u # t /\ InTransit(u)
    <3>1. at[u] # at[t]
      BY <2>2, AloneInside, TransitIsInside
    <3>2. Keys(at[u])' = Keys(at[u])
      BY <1>1, <1>3, <3>1 DEF Keys
    <3> QED
      BY <1>2, <1>3, <2>2, <3>1, <3>2 DEF RegistryInv
  <2>3. CASE u # t /\ ~ InTransit(u)
    BY <2>3 DEF InTransit
  <2> QED
    BY <2>1, <2>2, <2>3
<1> QED
  BY <1>4, <1>5 DEF RegistryInv

LEMMA StepRegistry ==
  ASSUME IndInv, NEW t \in Threads, Step(t)
  PROVE  RegistryInv'
<1> USE DEF IndInv
<1> DEFINE s == at[t]
           r == req[t]
<1>0. /\ s \in Shards
      /\ pc \in [Threads -> Labels]
      /\ handlers \in [Shards -> SUBSET [channel : Channels, id : Ids, sub : Nat]]
      /\ subscribers \in [Shards -> SUBSET (Ids \X Channels)]
      /\ r.id \in Ids /\ r.channel \in Channels
      /\ r.kind \in ChannelCalls \cup SweepingCalls
  BY RequestFields DEF TypeOK
<1>1. CASE Lock(t) \/ Unlock(t) \/ PushMessage(t) \/ Fire(t) \/ FireDone(t) \/ CopyMessages(t) \/ Look(t)
  <2>1. UNCHANGED <<subscribers, handlers>>
    BY <1>1 DEF Lock, Enter, Unlock, PushMessage, Fire, FireDone, CopyMessages, Look, Count,
         Read, registryVars
  <2>2. \A u \in Threads : u # t => pc'[u] = pc[u] /\ req'[u] = req[u] /\ at'[u] = at[u]
    BY <1>1
       DEF TypeOK, Lock, Enter, Unlock, PushMessage, Fire, FireDone, CopyMessages, Look,
            Count, Read, Goto
  <2>3. pc[t] \in {"lock", "unlock", "push", "fire", "copy", "count", "read"}
    BY <1>1 DEF Lock, Enter, Unlock, PushMessage, Fire, FireDone, CopyMessages, Look, Count, Read
  <2>4. pc'[t] \in {"idle", "lock", "unlock", "push", "fire", "eraseHandler", "eraseHandlers",
                     "count", "read", "clearSubscribers"}
    <3>1. CASE Lock(t)
      BY <1>0, <3>1 DEF Lock, Enter, Goto, ChannelCalls, SweepingCalls
    <3>2. CASE ~ Lock(t)
      BY <1>0, <1>1, <3>2 DEF Unlock, PushMessage, Fire, FireDone, CopyMessages, Look, Count,
           Read, Goto
    <3> QED
      BY <3>1, <3>2
  <2> QED
    BY <2>1, <2>2, <2>3, <2>4, RegistryUntouched DEF InTransit
<1>2. CASE \/ EraseHandler(t) \/ EraseSubscriber(t) \/ InsertSubscriber(t) \/ InsertHandler(t)
           \/ EraseHandlers(t) \/ EraseSubscribers(t) \/ Clear(t)
  <2>1. /\ Inside(t) /\ at' = at /\ req' = req
        /\ \A u \in Threads : u # t => pc'[u] = pc[u]
    BY <1>2, <1>0 DEF EraseHandler, EraseSubscriber, InsertSubscriber, InsertHandler,
                      EraseHandlers, EraseSubscribers, Clear, ClearSubscribers, ClearHandlers,
                      ClearChannels, Inside, Goto
  <2>2. \A x \in Shards : x # s => subscribers'[x] = subscribers[x] /\ handlers'[x] = handlers[x]
    <3>1. CASE Clear(t)
      BY <1>0, <3>1 DEF Clear, ClearSubscribers, ClearHandlers, ClearChannels, registryVars
    <3>2. CASE ~ Clear(t)
      BY <1>2, <1>0, <3>2 DEF EraseHandler, EraseSubscriber, InsertSubscriber, InsertHandler,
                              EraseHandlers, EraseSubscribers
    <3> QED
      BY <3>1, <3>2
  <2>3. ~ InTransit(t) => subscribers[s] = Keys(s)
    BY <2>1, AgreeHere
  <2> DEFINE After ==
        /\ ~ InTransit(t)' => subscribers'[s] = Keys(s)'
        /\ pc'[t] = "eraseSubscriber" => Keys(s)' = subscribers'[s] \ {KeyOf(t)}
        /\ pc'[t] = "insertHandler" => subscribers'[s] = Keys(s)' \cup {KeyOf(t)}
        /\ pc'[t] = "eraseSubscribers" => Keys(s)' = {p \in subscribers'[s] : p[1] # r.id}
        /\ pc'[t] = "clearHandlers" => subscribers'[s] = {}
  <2> SUFFICES After
    BY <2>1, <2>2, RegistryTouchedHere
  <2>4. CASE EraseHandler(t) /\ KeyOf(t) \in subscribers[s]
    <3>1. handlers'[s] = {h \in handlers[s] : ~ (h.channel = r.channel /\ h.id = r.id)}
      BY <1>0, <2>4 DEF EraseHandler, KeyOf
    <3>2. subscribers' = subscribers /\ pc'[t] = "eraseSubscriber" /\ pc[t] = "eraseHandler"
      BY <1>0, <2>4 DEF EraseHandler, KeyOf, Goto
    <3>3. Keys(s)' = Keys(s) \ {KeyOf(t)}
      BY <2>1, <3>1 DEF Keys, KeyOf
    <3> QED
      BY <2>3, <3>2, <3>3 DEF InTransit
  <2>5. CASE EraseHandler(t) /\ KeyOf(t) \notin subscribers[s]
    <3>1. UNCHANGED <<subscribers, handlers>> /\ pc[t] = "eraseHandler"
      BY <2>5 DEF EraseHandler, KeyOf
    <3>2. pc'[t] \in {"insertSubscriber", "unlock"}
      BY <1>0, <2>5 DEF EraseHandler, KeyOf, Goto, Described
    <3>3. Keys(s)' = Keys(s)
      BY <2>1, <3>1 DEF Keys
    <3> QED
      BY <2>3, <3>1, <3>2, <3>3 DEF InTransit
  <2>6. CASE EraseSubscriber(t)
    <3>1. /\ handlers' = handlers /\ pc[t] = "eraseSubscriber"
          /\ subscribers'[s] = subscribers[s] \ {KeyOf(t)}
      BY <1>0, <2>6 DEF EraseSubscriber, KeyOf
    <3>2. pc'[t] \in {"insertSubscriber", "unlock"}
      BY <1>0, <2>6 DEF EraseSubscriber, Goto, Described
    <3>3. Keys(s)' = Keys(s)
      BY <2>1, <3>1 DEF Keys
    <3> QED
      BY <3>1, <3>2, <3>3 DEF InTransit, RegistryInv
  <2>7. CASE InsertSubscriber(t)
    <3>1. /\ handlers' = handlers /\ pc[t] = "insertSubscriber" /\ pc'[t] = "insertHandler"
          /\ subscribers'[s] = subscribers[s] \cup {KeyOf(t)}
      BY <1>0, <2>7 DEF InsertSubscriber, KeyOf, Goto
    <3>2. Keys(s)' = Keys(s)
      BY <2>1, <3>1 DEF Keys
    <3> QED
      BY <2>3, <3>1, <3>2 DEF InTransit
  <2>8. CASE InsertHandler(t)
    <3>1. /\ subscribers' = subscribers /\ pc[t] = "insertHandler" /\ pc'[t] = "copy"
      BY <1>0, <2>8 DEF InsertHandler, Goto
    <3>2. Keys(s)' = Keys(s) \cup {KeyOf(t)}
      <4>1. CASE \E h \in handlers[s] : h.channel = r.channel /\ h.id = r.id
        <5>1. handlers' = handlers
          BY <2>8, <4>1 DEF InsertHandler
        <5>2. KeyOf(t) \in Keys(s)
          BY <4>1 DEF Keys, KeyOf
        <5> QED
          BY <2>1, <5>1, <5>2 DEF Keys
      <4>2. CASE ~ \E h \in handlers[s] : h.channel = r.channel /\ h.id = r.id
        <5>1. handlers'[s] =
                handlers[s] \cup {[channel |-> r.channel, id |-> r.id, sub |-> mine[t]]}
          BY <1>0, <2>8, <4>2 DEF InsertHandler
        <5> DEFINE new == [channel |-> r.channel, id |-> r.id, sub |-> mine[t]]
        <5>2. KeyOf(t) = <<new.id, new.channel>>
          BY DEF KeyOf
        <5>3. handlers'[s] = handlers[s] \cup {new}
          BY <5>1
        <5> HIDE DEF new
        <5> QED
          BY <2>1, <5>2, <5>3 DEF Keys
      <4> QED
        BY <4>1, <4>2
    <3> QED
      BY <3>1, <3>2 DEF InTransit, RegistryInv
  <2>9. CASE EraseHandlers(t)
    <3>1. /\ subscribers' = subscribers /\ pc[t] = "eraseHandlers" /\ pc'[t] = "eraseSubscribers"
      BY <1>0, <2>9 DEF EraseHandlers, Goto
    <3>2. handlers'[s] = {h \in handlers[s] : ~ (h.id = r.id /\ <<h.id, h.channel>> \in subscribers[s])}
      BY <1>0, <2>9 DEF EraseHandlers
    <3>3. subscribers[s] = Keys(s)
      BY <2>3, <3>1 DEF InTransit
    <3>4. handlers'[s] = {h \in handlers[s] : h.id # r.id}
      BY <3>2, <3>3 DEF Keys
    <3>5. Keys(s)' = {p \in Keys(s) : p[1] # r.id}
      BY <2>1, <3>4 DEF Keys
    <3> QED
      BY <3>1, <3>3, <3>5 DEF InTransit
  <2>10. CASE EraseSubscribers(t)
    <3>1. /\ handlers' = handlers /\ pc[t] = "eraseSubscribers" /\ pc'[t] = "unlock"
          /\ subscribers'[s] = {p \in subscribers[s] : p[1] # r.id}
      BY <1>0, <2>10 DEF EraseSubscribers, Goto
    <3>2. Keys(s)' = Keys(s)
      BY <2>1, <3>1 DEF Keys
    <3> QED
      BY <3>1, <3>2 DEF InTransit, RegistryInv
  <2>11. CASE ClearSubscribers(t)
    <3>1. subscribers'[s] = {} /\ pc'[t] = "clearHandlers"
      BY <1>0, <2>11 DEF ClearSubscribers, Goto
    <3> QED
      BY <3>1 DEF InTransit
  <2>12. CASE ClearHandlers(t)
    <3>1. /\ handlers'[s] = {} /\ subscribers' = subscribers
          /\ pc[t] = "clearHandlers" /\ pc'[t] = "clearChannels"
      BY <1>0, <2>12 DEF ClearHandlers, Goto
    <3>2. Keys(s)' = {}
      BY <2>1, <3>1 DEF Keys
    <3> QED
      BY <3>1, <3>2 DEF InTransit, RegistryInv
  <2>13. CASE ClearChannels(t)
    <3>1. /\ UNCHANGED <<subscribers, handlers>>
          /\ pc[t] = "clearChannels" /\ pc'[t] = "unlock"
      BY <1>0, <2>13 DEF ClearChannels, Goto, registryVars
    <3>2. Keys(s)' = Keys(s)
      BY <2>1, <3>1 DEF Keys
    <3> QED
      BY <2>3, <3>1, <3>2 DEF InTransit
  <2> QED
    BY <1>2, <2>4, <2>5, <2>6, <2>7, <2>8, <2>9, <2>10, <2>11, <2>12, <2>13 DEF Clear
<1> QED
  BY <1>1, <1>2, StepKinds

LEMMA StepHandlers ==
  ASSUME IndInv, NEW t \in Threads, Step(t)
  PROVE  HandlersInv'
<1> USE DEF IndInv, HandlersInv
<1> DEFINE s == at[t]
           r == req[t]
<1>0. /\ s \in Shards
      /\ handlers \in [Shards -> SUBSET [channel : Channels, id : Ids, sub : Nat]]
  BY DEF TypeOK
<1>1. CASE \A x \in Shards : handlers'[x] \subseteq handlers[x]
  BY <1>1, FS_Subset
<1>2. CASE InsertHandler(t) /\ handlers' # handlers
  <2> DEFINE new == [channel |-> r.channel, id |-> r.id, sub |-> mine[t]]
  <2>1. /\ handlers' = [handlers EXCEPT ![s] = @ \cup {new}]
        /\ ~ \E h \in handlers[s] : h.channel = r.channel /\ h.id = r.id
    BY <1>2 DEF InsertHandler
  <2>2. ShardOf[new.channel] = s
    BY <1>2 DEF InsertHandler, PhaseInv, ChannelCalls
  <2>3. new.channel = r.channel /\ new.id = r.id
    OBVIOUS
  <2> HIDE DEF new
  <2>4. handlers'[s] = handlers[s] \cup {new} /\ \A x \in Shards : x # s => handlers'[x] = handlers[x]
    BY <1>0, <2>1
  <2>5. IsFiniteSet(handlers'[s])
    <3>1. IsFiniteSet(handlers[s])
      BY <1>0
    <3>2. handlers'[s] = handlers[s] \cup {new}
      BY <2>4
    <3> QED
      BY ONLY <3>1, <3>2, FS_AddElement
  <2> QED
    BY <2>1, <2>2, <2>3, <2>4, <2>5
<1>3. \/ \A x \in Shards : handlers'[x] \subseteq handlers[x]
      \/ InsertHandler(t) /\ handlers' # handlers
  <2>1. CASE handlers' = handlers
    BY <2>1
  <2>2. CASE handlers' # handlers
    <3>1. \/ EraseHandler(t) \/ EraseHandlers(t) \/ Clear(t) \/ InsertHandler(t)
      BY <2>2, StepKinds DEF Lock, Enter, Unlock, PushMessage, Fire, FireDone, EraseSubscriber,
           InsertSubscriber, CopyMessages, EraseSubscribers, Look, Count, Read, registryVars
    <3> QED
      BY <1>0, <2>2, <3>1 DEF EraseHandler, EraseHandlers, Clear, ClearSubscribers,
           ClearHandlers, ClearChannels,
           registryVars
  <2> QED
    BY <2>1, <2>2
<1> QED
  BY <1>1, <1>2, <1>3

-----------------------------------------------------------------------------
LEMMA InitInv == Init => IndInv
<1> SUFFICES ASSUME Init PROVE IndInv
  OBVIOUS
<1>1. TypeOK /\ DroppedInv
  BY InitTypes
<1>2. MutexInv /\ PhaseInv
  BY NoneAssumption DEF Init, MutexInv, PhaseInv, Inside
<1>3. RegistryInv
  BY DEF Init, RegistryInv, Keys
<1>4. HandlersInv
  BY FS_EmptySet DEF Init, HandlersInv
<1> QED
  BY <1>1, <1>2, <1>3, <1>4 DEF IndInv

LEMMA BeginInv ==
  ASSUME IndInv, NEW t \in Threads, NEW r \in Requests, Begin(t, r)
  PROVE  IndInv'
<1> USE DEF IndInv
<1>1. TypeOK' /\ DroppedInv' /\ MutexInv' /\ PhaseInv'
  BY BeginTypes, BeginMutexPhase
<1>2. UNCHANGED <<subscribers, handlers>>
  BY DEF Begin, registryVars
<1>3. \A u \in Threads : \/ pc'[u] = pc[u] /\ req'[u] = req[u] /\ at'[u] = at[u]
                         \/ ~ InTransit(u) /\ ~ InTransit(u)'
  BY DEF TypeOK, Begin, Goto, InTransit
<1>4. RegistryInv'
  BY <1>2, <1>3, RegistryUntouched
<1>5. HandlersInv'
  BY <1>2 DEF HandlersInv
<1> QED
  BY <1>1, <1>4, <1>5

LEMMA StutterInv == IndInv /\ UNCHANGED vars => IndInv'
<1> SUFFICES ASSUME IndInv, UNCHANGED vars PROVE IndInv'
  OBVIOUS
<1> USE DEF IndInv, vars, threadVars, registryVars, messageVars
<1>1. TypeOK' /\ DroppedInv'
  BY DEF TypeOK, DroppedInv
<1>2. MutexInv' /\ PhaseInv'
  BY DEF MutexInv, Inside, PhaseInv
<1>3. RegistryInv'
  BY RegistryUntouched
<1>4. HandlersInv'
  BY DEF HandlersInv
<1> QED
  BY <1>1, <1>2, <1>3, <1>4

LEMMA NextInv == IndInv /\ [Next]_vars => IndInv'
<1> SUFFICES ASSUME IndInv, [Next]_vars PROVE IndInv'
  OBVIOUS
<1>1. ASSUME NEW t \in Threads, NEW r \in Requests, Begin(t, r)
      PROVE  IndInv'
  BY <1>1, BeginInv
<1>2. ASSUME NEW t \in Threads, Step(t)
      PROVE  IndInv'
  BY <1>2, StepTypes, StepMutex, StepPhase, StepRegistry, StepHandlers DEF IndInv
<1>3. CASE Quiet \/ UNCHANGED vars
  BY <1>3, StutterInv DEF Quiet
<1> QED
  BY <1>1, <1>2, <1>3 DEF Next

THEOREM Invariance == Spec => []IndInv
BY InitInv, NextInv, PTL DEF Spec

(***************************************************************************)
(* The containers and the threads keep their types.                        *)
(***************************************************************************)
THEOREM TypeCorrect == Spec => []TypeOK
<1>1. IndInv => TypeOK
  BY DEF IndInv
<1> QED
  BY Invariance, <1>1, PTL

(***************************************************************************)
(* A thread inside a call has the mutex of its shard, and it alone.        *)
(***************************************************************************)
THEOREM MutualExclusion ==
  Spec => [](\A t, u \in Threads : Inside(t) /\ Inside(u) /\ at[t] = at[u] => t = u)
<1>1. IndInv => \A t, u \in Threads : Inside(t) /\ Inside(u) /\ at[t] = at[u] => t = u
  BY AloneInside DEF IndInv
<1> QED
  BY Invariance, <1>1, PTL

(***************************************************************************)
(* _subscriber_set and _handler_map of a shard agree whenever its mutex is *)
(* free.                                                                   *)
(***************************************************************************)
THEOREM RegistryCorrect == Spec => []RegistryAgrees
<1>1. ASSUME IndInv, NEW s \in Shards, owner[s] = None
      PROVE  /\ subscribers[s] = {<<h.id, h.channel>> : h \in handlers[s]}
             /\ \A h \in handlers[s] : ShardOf[h.channel] = s
  <2>1. \A t \in Threads : at[t] = s => ~ InTransit(t)
    BY <1>1, NoneAssumption DEF IndInv, MutexInv, Inside, InTransit
  <2> QED
    BY <1>1, <2>1 DEF IndInv, RegistryInv, Keys, HandlersInv
<1>2. IndInv => RegistryAgrees
  BY <1>1 DEF RegistryAgrees
<1> QED
  BY Invariance, <1>2, PTL

(***************************************************************************)
(* subscriber_count never aborts the process.                              *)
(***************************************************************************)
THEOREM CountNeverAborts == Spec => []NeverAborts
<1>1. ASSUME IndInv, NEW t \in Threads, pc[t] = "count"
      PROVE  SizesAgree(at[t])
  <2> DEFINE s == at[t]
             f == [h \in handlers[s] |-> <<h.id, h.channel>>]
  <2>1. s \in Shards /\ handlers[s] \in SUBSET [channel : Channels, id : Ids, sub : Nat]
    BY <1>1 DEF IndInv, TypeOK
  <2>2. subscribers[s] = Keys(s)
    BY <1>1, AgreeHere DEF IndInv, Inside, InTransit
  <2>3. \A g, h \in handlers[s] : f[g] = f[h] => g = h
    BY <1>1, <2>1 DEF IndInv, HandlersInv
  <2>4. f \in Bijection(handlers[s], subscribers[s])
    BY <2>2, <2>3 DEF Bijection, Injection, Surjection, IsInjective, Keys
  <2>5. IsFiniteSet(handlers[s]) /\ ExistsBijection(handlers[s], subscribers[s])
    BY <1>1, <2>1, <2>4 DEF IndInv, HandlersInv, ExistsBijection
  <2> QED
    BY <2>5, FS_Bijection DEF SizesAgree
<1>2. IndInv => NeverAborts
  BY <1>1 DEF NeverAborts
<1> QED
  BY Invariance, <1>2, PTL
-----------------------------------------------------------------------------
(***************************************************************************)
(* The handoff: what a subscriber is given.  No gap and no repetition      *)
(* between the copy of the queue and the handler, and nothing left of a    *)
(* disconnected client but what subscribed later.                          *)
(***************************************************************************)

(***************************************************************************)
(* The inductive invariant of the handoff, beside IndInv.                  *)
(***************************************************************************)
\* A thread that has numbered its subscription and has not filled it yet.
Making(t) ==
  /\ req[t].kind = "subscribe"
  /\ pc[t] \in {"eraseHandler", "eraseSubscriber", "insertSubscriber", "insertHandler", "copy"}

\* Subscriptions have their numbers for themselves.
NumberInv ==
  /\ \A s \in Shards : \A h \in handlers[s] : h.sub \in 1 .. Len(stream)
  /\ \A r, s \in Shards : \A g \in handlers[r], h \in handlers[s] : g.sub = h.sub => g = h
  /\ \A t \in Threads : Making(t) => mine[t] \in 1 .. Len(stream)
  /\ \A t, u \in Threads : Making(t) /\ Making(u) /\ mine[t] = mine[u] => t = u
  /\ \A t \in Threads, s \in Shards : \A h \in handlers[s] :
       Making(t) /\ mine[t] = h.sub => pc[t] = "copy" /\ h.channel = req[t].channel

\* The messages number i + 1 to j.
Run(i, j) == [k \in 1 .. j - i |-> i + k]

\* A handler that fire_ still has to call, and one whose subscription is not filled yet.
Serving(h) ==
  \E t \in Threads : pc[t] = "fire" /\ req[t].channel = h.channel /\ last[t] < h.id

Filling(h) == \E t \in Threads : pc[t] = "copy" /\ mine[t] = h.sub

\* The last message a handler should have been given.
Due(h) == IF Serving(h) THEN published[h.channel] - 1 ELSE published[h.channel]

GotInv ==
  \A s \in Shards : \A h \in handlers[s] :
    ~ Filling(h) => /\ stream[h.sub].from <= Due(h)
                    /\ stream[h.sub].got = Run(stream[h.sub].from, Due(h))

\* Where a call is, it has come to from its lock.
ReachInv ==
  \A t \in Threads :
    /\ pc[t] = "push" => last[t] = -1
    /\ pc[t] = "count" => req[t].kind = "count"
    /\ pc[t] = "read" => req[t].kind \in {"getMessages", "statistics"}
    /\ pc[t] \in {"clearSubscribers", "clearHandlers", "clearChannels"} => req[t].kind = "reset"

\* In the shards describe(id) has done there are, and will be, only newer subscriptions.
NewerInv ==
  /\ \A t \in Threads : since[t] <= Len(stream)
  /\ \A t \in Threads : pc[t] # "idle" /\ req[t].kind = "describeAll" =>
       \A s \in Done(t) :
         /\ \A h \in handlers[s] : h.id = req[t].id => h.sub > since[t]
         /\ \A u \in Threads : Making(u) /\ at[u] = s => mine[u] > since[t]

HandoffInv == NumberInv /\ GotInv /\ ReachInv /\ NewerInv

-----------------------------------------------------------------------------
LEMMA RunGrows ==
  ASSUME NEW i \in Nat, NEW j \in Nat, i <= j
  PROVE  Append(Run(i, j), j + 1) = Run(i, j + 1)
<1>1. Run(i, j) \in Seq(Nat) /\ Len(Run(i, j)) = j - i
  <2> DEFINE n == j - i
  <2>1. n \in Nat /\ Run(i, j) = [k \in 1 .. n |-> i + k]
    BY DEF Run
  <2> HIDE DEF n
  <2>2. Run(i, j) \in [1 .. n -> Nat]
    BY <2>1
  <2>3. Run(i, j) \in Seq(Nat) /\ DOMAIN Run(i, j) = 1 .. n
    BY <2>1, <2>2
  <2>4. Len(Run(i, j)) = n
    BY <2>1, <2>3
  <2> QED
    BY <2>3, <2>4 DEF n
<1>2. \A k \in 1 .. j - i : Run(i, j)[k] = i + k
  BY DEF Run
<1>3. Append(Run(i, j), j + 1) = [k \in 1 .. j - i + 1 |-> IF k = j - i + 1 THEN j + 1 ELSE Run(i, j)[k]]
  BY <1>1
<1>4. \A k \in 1 .. j - i + 1 : (IF k = j - i + 1 THEN j + 1 ELSE Run(i, j)[k]) = i + k
  BY <1>2
<1>5. (j + 1) - i = j - i + 1
  OBVIOUS
<1> QED
  BY <1>3, <1>4, <1>5 DEF Run

LEMMA HandlerElements ==
  ASSUME IndInv, NEW s \in Shards, NEW h \in handlers[s]
  PROVE  h.channel \in Channels /\ h.id \in Ids /\ h.id \in Int /\ h.id > -1
<1>1. handlers[s] \subseteq [channel : Channels, id : Ids, sub : Nat]
  BY DEF IndInv, TypeOK
<1>2. h \in [channel : Channels, id : Ids, sub : Nat]
  BY <1>1
<1>3. h.channel \in Channels /\ h.id \in Ids
  BY <1>2
<1>4. h.id \in Nat
  BY <1>3, IdsAssumption
<1> QED
  BY <1>3, <1>4

\* Where a handler is, only the thread that owns the shard serves or fills it.
LEMMA MakingInside ==
  ASSUME NEW t \in Threads, Making(t)
  PROVE  Inside(t)
BY DEF Making, Inside

\* What every step but Lock and InsertHandler does to the numbers.
LEMMA NumberKept ==
  ASSUME NumberInv, mine' = mine, req' = req, Len(stream') = Len(stream),
         \A s \in Shards : handlers'[s] \subseteq handlers[s],
         \A u \in Threads : Making(u)' => Making(u) /\ (pc[u] = "copy" => pc'[u] = "copy")
  PROVE  NumberInv'
BY DEF NumberInv

\* What the steps of a call leave of the handlers, the subscriptions and their numbers.
LEMMA HandlersShrink ==
  ASSUME IndInv, NEW t \in Threads, Step(t), ~ InsertHandler(t)
  PROVE  \A s \in Shards : handlers'[s] \subseteq handlers[s]
<1>0. /\ at[t] \in Shards
      /\ handlers \in [Shards -> SUBSET [channel : Channels, id : Ids, sub : Nat]]
  BY DEF IndInv, TypeOK
<1>1. CASE EraseHandler(t)
  <2>1. handlers' = handlers
        \/ handlers' = [handlers EXCEPT ![at[t]] =
                          {h \in @ : ~ (h.channel = req[t].channel /\ h.id = req[t].id)}]
    BY <1>1 DEF EraseHandler
  <2> QED
    BY <1>0, <2>1
<1>2. CASE EraseHandlers(t)
  BY <1>0, <1>2 DEF EraseHandlers
<1>3. CASE Clear(t)
  BY <1>0, <1>3 DEF Clear, ClearSubscribers, ClearHandlers, ClearChannels, registryVars
<1>4. CASE ~ EraseHandler(t) /\ ~ EraseHandlers(t) /\ ~ Clear(t)
  BY <1>4, StepKinds DEF Lock, Enter, Unlock, PushMessage, Fire, FireDone, EraseSubscriber,
       InsertSubscriber, CopyMessages, EraseSubscribers, Look, Count, Read, registryVars
<1> QED
  BY <1>1, <1>2, <1>3, <1>4

LEMMA StreamLength ==
  ASSUME IndInv, NEW t \in Threads, Step(t), ~ Lock(t)
  PROVE  Len(stream') = Len(stream)
<1> USE DEF IndInv
<1>0. stream \in Seq(Streams)
  BY DEF TypeOK, Streams
<1>1. CASE Fire(t)
  <2>1. PICK h \in Unserved(t) :
          stream' = [stream EXCEPT ![h.sub].got = Append(@, published[h.channel])]
    BY <1>1 DEF Fire
  <2> DEFINE more == [stream[h.sub] EXCEPT !.got = Append(@, published[h.channel])]
  <2>2. stream' = [stream EXCEPT ![h.sub] = more]
    BY <2>1
  <2> HIDE DEF more
  <2>3. DOMAIN stream' = DOMAIN stream /\ stream' \in Seq(Streams)
    <3>1. stream' \in Seq(Streams)
      BY <1>1, StepTypes DEF TypeOK, Streams, Step
    <3> QED
      BY <2>2, <3>1
  <2> QED
    BY <1>0, <2>3
<1>2. CASE CopyMessages(t)
  <2>1. stream' \in Seq(Streams)
    BY <1>2, StepTypes DEF TypeOK, Streams, Step
  <2>2. DOMAIN stream' = DOMAIN stream
    BY <1>2 DEF CopyMessages
  <2> QED
    BY <1>0, <2>1, <2>2
<1>3. CASE ~ Fire(t) /\ ~ CopyMessages(t)
  BY <1>3 DEF Step, InsertHandler, Unlock, PushMessage, FireDone, EraseHandler, EraseSubscriber,
            InsertSubscriber, EraseHandlers, EraseSubscribers, Look, Count, Read, Clear,
            ClearSubscribers, ClearHandlers, ClearChannels, messageVars
<1> QED
  BY <1>1, <1>2, <1>3

LEMMA MakingBefore ==
  ASSUME IndInv, NEW t \in Threads, Step(t), ~ Lock(t), Making(t)'
  PROVE  Making(t) /\ mine'[t] = mine[t] /\ at'[t] = at[t]
<1>0. pc \in [Threads -> Labels]
  BY DEF IndInv, TypeOK
<1>1. mine' = mine /\ req' = req
  BY DEF Step, InsertHandler, Unlock, PushMessage, Fire, FireDone, EraseHandler, EraseSubscriber,
         InsertSubscriber, CopyMessages, EraseHandlers, EraseSubscribers, Look, Count, Read,
         Clear, ClearSubscribers, ClearHandlers, ClearChannels
<1>2. ~ Unlock(t)
  BY <1>0 DEF Unlock, Goto, Making
<1>3. at' = at
  BY <1>2 DEF Step, InsertHandler, PushMessage, Fire, FireDone, EraseHandler, EraseSubscriber,
         InsertSubscriber, CopyMessages, EraseHandlers, EraseSubscribers, Look, Count, Read,
         Clear, ClearSubscribers, ClearHandlers, ClearChannels
<1>4. req[t].kind = "subscribe" /\ pc'[t] \in {"eraseHandler", "eraseSubscriber",
        "insertSubscriber", "insertHandler", "copy"}
  BY <1>1 DEF Making
<1>5. pc[t] \in {"eraseHandler", "eraseSubscriber", "insertSubscriber", "insertHandler", "copy"}
  <2>1. CASE PushMessage(t) \/ Fire(t) \/ FireDone(t) \/ CopyMessages(t) \/ EraseHandlers(t)
             \/ EraseSubscribers(t) \/ Look(t) \/ Clear(t)
    BY <1>0, <1>4, <2>1 DEF PushMessage, Fire, FireDone, CopyMessages, EraseHandlers,
                            EraseSubscribers, Look, Count, Read, Clear, ClearSubscribers,
                            ClearHandlers, ClearChannels, Goto
  <2>2. CASE EraseHandler(t) \/ EraseSubscriber(t) \/ InsertSubscriber(t) \/ InsertHandler(t)
    BY <2>2 DEF EraseHandler, EraseSubscriber, InsertSubscriber, InsertHandler
  <2> QED
    BY <1>2, <2>1, <2>2, StepKinds
<1> QED
  BY <1>1, <1>3, <1>4, <1>5 DEF Making

LEMMA StepNumber ==
  ASSUME IndInv, NumberInv, NEW t \in Threads, Step(t)
  PROVE  NumberInv'
<1> USE DEF IndInv
<1>0. /\ pc \in [Threads -> Labels]
      /\ at[t] \in Shards /\ at \in [Threads -> Shards]
      /\ handlers \in [Shards -> SUBSET [channel : Channels, id : Ids, sub : Nat]]
      /\ mine \in [Threads -> Nat]
      /\ stream \in Seq(Streams) /\ Len(stream) \in Nat
  <2>1. stream \in Seq(Streams)
    BY DEF TypeOK, Streams
  <2> QED
    BY <2>1 DEF TypeOK
<1>1. CASE Lock(t)
  <2>1. /\ pc[t] = "lock" /\ UNCHANGED <<req, handlers>>
        /\ \A u \in Threads : u # t => pc'[u] = pc[u]
    BY <1>0, <1>1 DEF Lock, Enter, Goto, registryVars
  <2>2. ~ Making(t)
    BY <2>1 DEF Making
  <2>3. CASE req[t].kind = "subscribe"
    <3> DEFINE fresh == [from |-> 0, got |-> <<>>]
    <3>1. stream' = Append(stream, fresh) /\ mine' = [mine EXCEPT ![t] = Len(stream) + 1]
      BY <1>1, <2>3 DEF Lock, Enter
    <3>2. fresh \in Streams
      BY DEF Streams
    <3> HIDE DEF fresh
    <3>3. Len(stream') = Len(stream) + 1
      BY <1>0, <3>1, <3>2
    <3>4. mine'[t] = Len(stream) + 1 /\ \A u \in Threads : u # t => mine'[u] = mine[u]
      BY <1>0, <3>1
    <3>5. \A u \in Threads : u # t => (Making(u)' <=> Making(u))
      BY <2>1 DEF Making
    <3>6. /\ \A s \in Shards : \A h \in handlers[s] : h.sub \in 1 .. Len(stream')
          /\ \A u \in Threads : Making(u)' => mine'[u] \in 1 .. Len(stream')
      BY <1>0, <3>3, <3>4, <3>5, SMTT(90) DEF NumberInv
    <3>7. \A u, v \in Threads : Making(u)' /\ Making(v)' /\ mine'[u] = mine'[v] => u = v
      <4>1. \A u \in Threads : u # t /\ Making(u)' => mine'[u] # mine'[t]
        BY <1>0, <3>4, <3>5 DEF NumberInv
      <4> QED
        BY <3>4, <3>5, <4>1 DEF NumberInv
    <3>8. \A u \in Threads, s \in Shards : \A h \in handlers[s] :
            Making(u)' /\ mine'[u] = h.sub => pc'[u] = "copy" /\ h.channel = req[u].channel
      <4>1. \A s \in Shards : \A h \in handlers[s] : mine'[t] # h.sub
        BY <1>0, <3>4 DEF NumberInv
      <4> QED
        BY <2>1, <3>4, <3>5, <4>1 DEF NumberInv
    <3> QED
      BY <2>1, <3>6, <3>7, <3>8 DEF NumberInv
  <2>4. CASE req[t].kind # "subscribe"
    <3>1. UNCHANGED <<stream, mine>> /\ ~ Making(t)'
      BY <1>1, <2>1, <2>4 DEF Lock, Enter, Making
    <3>2. \A u \in Threads : Making(u)' => Making(u) /\ (pc[u] = "copy" => pc'[u] = "copy")
      BY <2>1, <3>1 DEF Making
    <3> QED
      BY <2>1, <3>1, <3>2, NumberKept
  <2> QED
    BY <2>3, <2>4
<1>2. CASE InsertHandler(t)
  <2> DEFINE new == [channel |-> req[t].channel, id |-> req[t].id, sub |-> mine[t]]
  <2>1. /\ UNCHANGED <<req, mine, stream>> /\ pc[t] = "insertHandler" /\ pc'[t] = "copy"
        /\ \A u \in Threads : u # t => pc'[u] = pc[u]
    BY <1>0, <1>2 DEF InsertHandler, Goto, messageVars
  <2>2. Making(t)
    BY <2>1 DEF Making, PhaseInv
  <2>3. \A s \in Shards : handlers'[s] \subseteq handlers[s] \cup {new}
    BY <1>0, <1>2 DEF InsertHandler
  <2>4. new.sub = mine[t] /\ new.channel = req[t].channel
    OBVIOUS
  <2> HIDE DEF new
  <2>5. \A u \in Threads : Making(u)' <=> Making(u)
    BY <2>1, <2>2 DEF Making
  <2>6. \A s \in Shards : \A h \in handlers[s] : h.sub # mine[t]
    BY <2>1, <2>2 DEF NumberInv
  <2>7. \A s \in Shards : \A h \in handlers'[s] : h.sub \in 1 .. Len(stream')
    BY <2>1, <2>2, <2>3, <2>4 DEF NumberInv
  <2>8. \A r, s \in Shards : \A g \in handlers'[r], h \in handlers'[s] : g.sub = h.sub => g = h
    BY <2>3, <2>4, <2>6 DEF NumberInv
  <2>9. \A u \in Threads, s \in Shards : \A h \in handlers'[s] :
          Making(u) /\ mine[u] = h.sub => pc'[u] = "copy" /\ h.channel = req[u].channel
    <3>1. \A u \in Threads : Making(u) /\ mine[u] = mine[t] => u = t
      BY <2>2 DEF NumberInv
    <3> QED
      BY <2>1, <2>3, <2>4, <2>6, <3>1 DEF NumberInv
  <2>10. /\ \A u \in Threads : Making(u)' => mine'[u] \in 1 .. Len(stream')
         /\ \A u, v \in Threads : Making(u)' /\ Making(v)' /\ mine'[u] = mine'[v] => u = v
         /\ \A u \in Threads, s \in Shards : \A h \in handlers'[s] :
              Making(u)' /\ mine'[u] = h.sub => pc'[u] = "copy" /\ h.channel = req'[u].channel
    BY <2>1, <2>5, <2>9 DEF NumberInv
  <2> QED
    BY ONLY <2>7, <2>8, <2>10 DEF NumberInv
<1>3. CASE ~ Lock(t) /\ ~ InsertHandler(t)
  <2>1. mine' = mine /\ req' = req
    BY <1>3 DEF Step, Unlock, PushMessage, Fire, FireDone, EraseHandler, EraseSubscriber,
                InsertSubscriber, CopyMessages, EraseHandlers, EraseSubscribers, Look, Count,
                Read, Clear, ClearSubscribers, ClearHandlers, ClearChannels
  <2>2. \A s \in Shards : handlers'[s] \subseteq handlers[s]
    BY <1>3, HandlersShrink
  <2>3. Len(stream') = Len(stream)
    BY <1>3, StreamLength
  <2>4. \A u \in Threads : u # t => pc'[u] = pc[u]
    BY <1>0, <1>3 DEF Step, Unlock, PushMessage, Fire, FireDone, EraseHandler, EraseSubscriber,
                InsertSubscriber, CopyMessages, EraseHandlers, EraseSubscribers, Look, Count,
                Read, Clear, ClearSubscribers, ClearHandlers, ClearChannels, Goto
  <2>5. Making(t)' => Making(t) /\ pc[t] # "copy"
    <3>1. CASE Unlock(t) \/ PushMessage(t) \/ Fire(t) \/ FireDone(t) \/ CopyMessages(t)
      BY <1>0, <3>1 DEF Unlock, PushMessage, Fire, FireDone, CopyMessages, Goto, Making
    <3>2. CASE EraseHandler(t) \/ EraseSubscriber(t) \/ InsertSubscriber(t)
      BY <1>0, <2>1, <3>2 DEF EraseHandler, EraseSubscriber, InsertSubscriber, Goto, Making
    <3>3. CASE EraseHandlers(t) \/ EraseSubscribers(t) \/ Look(t) \/ Clear(t)
      BY <1>0, <3>3 DEF EraseHandlers, EraseSubscribers, Look, Count, Read, Clear,
           ClearSubscribers, ClearHandlers, ClearChannels, Goto, Making
    <3> QED
      BY <1>3, <3>1, <3>2, <3>3, StepKinds
  <2> QED
    BY <2>1, <2>2, <2>3, <2>4, <2>5, NumberKept DEF Making
<1> QED
  BY <1>1, <1>2, <1>3

LEMMA StepReach ==
  ASSUME IndInv, ReachInv, NEW t \in Threads, Step(t)
  PROVE  ReachInv'
<1>1. /\ pc \in [Threads -> Labels] /\ req \in [Threads -> Requests]
      /\ last \in [Threads -> Ids \cup {-1}]
  BY SMTT(90) DEF IndInv, TypeOK
<1>2. req' = req
  BY SMTT(90) DEF Step, Lock, Enter, InsertHandler, Unlock, PushMessage, Fire, FireDone, EraseHandler,
         EraseSubscriber, InsertSubscriber, CopyMessages, EraseHandlers, EraseSubscribers,
         Look, Count, Read, Clear, ClearSubscribers, ClearHandlers, ClearChannels
<1>3. \A u \in Threads : u # t => pc'[u] = pc[u] /\ last'[u] = last[u]
  BY <1>1 DEF Step, Lock, Enter, InsertHandler, Unlock, PushMessage, Fire, FireDone, EraseHandler,
              EraseSubscriber, InsertSubscriber, CopyMessages, EraseHandlers, EraseSubscribers,
              Look, Count, Read, Clear, ClearSubscribers, ClearHandlers, ClearChannels, Goto
<1>4. CASE Lock(t)
  <2>1. last'[t] = -1
    BY <1>1, <1>4 DEF Lock, Enter
  <2>2. req[t].kind \in ChannelCalls \cup SweepingCalls
    BY <1>1, RequestFields
  <2>3. /\ pc'[t] = "count" => req[t].kind = "count"
        /\ pc'[t] = "read" => req[t].kind \in {"getMessages", "statistics"}
        /\ pc'[t] = "clearSubscribers" => req[t].kind = "reset"
        /\ pc'[t] \notin {"clearHandlers", "clearChannels"}
    BY <1>1, <1>4, <2>2 DEF Lock, Enter, Goto, ChannelCalls, SweepingCalls
  <2> QED
    BY <1>2, <1>3, <2>1, <2>3 DEF ReachInv
<1>5. CASE ~ Lock(t) /\ ~ Fire(t)
  <2>1. pc'[t] \notin {"push", "count", "read", "clearSubscribers"}
    BY <1>1, <1>5 DEF Step, InsertHandler, Unlock, PushMessage, FireDone, EraseHandler,
              EraseSubscriber, InsertSubscriber, CopyMessages, EraseHandlers, EraseSubscribers,
              Look, Count, Read, Clear, ClearSubscribers, ClearHandlers, ClearChannels, Goto,
              Described
  <2>2. pc'[t] \in {"clearHandlers", "clearChannels"} =>
          pc[t] \in {"clearSubscribers", "clearHandlers"}
    BY <1>1, <1>5 DEF Step, InsertHandler, Unlock, PushMessage, FireDone, EraseHandler,
              EraseSubscriber, InsertSubscriber, CopyMessages, EraseHandlers, EraseSubscribers,
              Look, Count, Read, Clear, ClearSubscribers, ClearHandlers, ClearChannels, Goto,
              Described
  <2> QED
    BY <1>2, <1>3, <2>1, <2>2 DEF ReachInv
<1>6. CASE Fire(t)
  BY <1>2, <1>3, <1>6 DEF ReachInv, Fire
<1> QED
  BY <1>4, <1>5, <1>6

-----------------------------------------------------------------------------
(***************************************************************************)
(* What the handlers have been given.                                      *)
(***************************************************************************)
\* Two threads inside calls about the same channel are one.
LEMMA OneAtChannel ==
  ASSUME IndInv, NEW t \in Threads, NEW u \in Threads, Inside(t), Inside(u),
         req[t].kind \in ChannelCalls, req[u].kind \in ChannelCalls,
         req[t].channel = req[u].channel
  PROVE  t = u
BY DEF IndInv, MutexInv, PhaseInv, Inside

\* A handler is in the shard of its channel, where a thread that serves it is.
LEMMA ServedWhere ==
  ASSUME IndInv, NEW t \in Threads, pc[t] = "fire",
         NEW s \in Shards, NEW h \in handlers[s], h.channel = req[t].channel
  PROVE  s = at[t]
BY DEF IndInv, HandlersInv, PhaseInv, ChannelCalls

\* What keeps what a handler has been given, and what it should have been.
LEMMA GotKept ==
  ASSUME GotInv,
         \A s \in Shards : \A h \in handlers'[s] :
           ~ Filling(h)' => /\ h \in handlers[s] /\ ~ Filling(h)
                            /\ stream'[h.sub] = stream[h.sub]
                            /\ Due(h)' = Due(h)
  PROVE  GotInv'
<1> SUFFICES ASSUME NEW s \in Shards, NEW h \in handlers'[s], ~ Filling(h)'
             PROVE  /\ stream'[h.sub].from <= Due(h)'
                    /\ stream'[h.sub].got = Run(stream'[h.sub].from, Due(h)')
  BY DEF GotInv
<1>1. /\ stream[h.sub].from <= Due(h)
      /\ stream[h.sub].got = Run(stream[h.sub].from, Due(h))
  BY DEF GotInv
<1> QED
  BY <1>1

\* PushMessage: the handlers of the channel are one message behind.
LEMMA PushGot ==
  ASSUME IndInv, NumberInv, GotInv, ReachInv, NEW t \in Threads, PushMessage(t)
  PROVE  GotInv'
<1> DEFINE c == req[t].channel
<1>0. /\ pc \in [Threads -> Labels] /\ published \in [Channels -> Nat]
      /\ req[t] \in Requests /\ c \in Channels
      /\ handlers \in [Shards -> SUBSET [channel : Channels, id : Ids, sub : Nat]]
  BY RequestFields DEF IndInv, TypeOK
<1>1. /\ pc[t] = "push" /\ pc'[t] = "fire" /\ \A u \in Threads : u # t => pc'[u] = pc[u]
      /\ UNCHANGED <<req, last, mine, handlers, stream>>
      /\ published'[c] = published[c] + 1
      /\ \A d \in Channels : d # c => published'[d] = published[d]
  BY <1>0 DEF PushMessage, Goto, registryVars
<1>2. last[t] = -1 /\ req[t].kind \in ChannelCalls
  BY <1>1 DEF ReachInv, IndInv, PhaseInv, ChannelCalls
<1>3. ASSUME NEW s \in Shards, NEW h \in handlers[s]
      PROVE  (Filling(h)' <=> Filling(h)) /\ Due(h)' = Due(h)
  <2>0. h.channel \in Channels /\ h.id \in Int /\ h.id > -1
    BY HandlerElements
  <2>1. Filling(h)' <=> Filling(h)
    BY <1>1 DEF Filling
  <2>2. CASE h.channel = c
    <3>1. ~ Serving(h)
      <4> SUFFICES ASSUME NEW u \in Threads, pc[u] = "fire", req[u].channel = c PROVE FALSE
        BY <2>2 DEF Serving
      <4>1. req[u].kind \in ChannelCalls
        BY DEF IndInv, PhaseInv, ChannelCalls
      <4> QED
        BY <1>1, <1>2, <4>1, OneAtChannel DEF Inside
    <3>2. Serving(h)'
      BY <1>1, <1>2, <2>0, <2>2 DEF Serving
    <3> QED
      BY <1>0, <1>1, <2>1, <2>2, <3>1, <3>2 DEF Due
  <2>3. CASE h.channel # c
    <3>1. Serving(h)' <=> Serving(h)
      BY <1>1, <2>3 DEF Serving
    <3> QED
      BY <1>1, <2>0, <2>1, <2>3, <3>1 DEF Due
  <2> QED
    BY <2>2, <2>3
<1> HIDE DEF c
<1> QED
  BY <1>1, <1>3, GotKept

\* Fire: one of them gets it, once, behind what it had.
LEMMA FireGot ==
  ASSUME IndInv, NumberInv, GotInv, NEW t \in Threads, Fire(t)
  PROVE  GotInv'
<1>0. /\ last \in [Threads -> Ids \cup {-1}] /\ published \in [Channels -> Nat]
      /\ handlers \in [Shards -> SUBSET [channel : Channels, id : Ids, sub : Nat]]
      /\ at[t] \in Shards /\ stream \in Seq(Streams)
  BY DEF IndInv, TypeOK, Streams
<1>1. PICK g \in Unserved(t) :
        /\ \A f \in Unserved(t) : g.id <= f.id
        /\ last' = [last EXCEPT ![t] = g.id]
        /\ stream' = [stream EXCEPT ![g.sub].got = Append(@, published[g.channel])]
  BY DEF Fire
<1>2. /\ pc[t] = "fire" /\ UNCHANGED <<pc, req, mine, handlers, published>>
  BY DEF Fire, registryVars
<1>3. /\ g \in handlers[at[t]] /\ g.channel = req[t].channel /\ g.id > last[t]
      /\ g.channel \in Channels /\ g.id \in Ids /\ g.id \in Int /\ last[t] \in Int
      /\ g.sub \in 1 .. Len(stream)
  <2>1. g \in handlers[at[t]] /\ g.channel = req[t].channel /\ g.id > last[t]
    BY DEF Unserved
  <2>2. last[t] \in Int
    <3>1. last[t] \in Ids \/ last[t] = -1
      BY <1>0
    <3>2. last[t] \in Nat \/ last[t] = -1
      BY <3>1, IdsAssumption
    <3> QED
      BY <3>2
  <2> QED
    BY <1>0, <2>1, <2>2, HandlerElements DEF NumberInv
<1>4. /\ last'[t] = g.id
      /\ \A u \in Threads : u # t => last'[u] = last[u]
      /\ stream'[g.sub].from = stream[g.sub].from
      /\ stream'[g.sub].got = Append(stream[g.sub].got, published[g.channel])
      /\ \A n \in DOMAIN stream : n # g.sub => stream'[n] = stream[n]
  <2>1. last'[t] = g.id /\ \A u \in Threads : u # t => last'[u] = last[u]
    BY <1>0, <1>1
  <2> DEFINE more == [stream[g.sub] EXCEPT !.got = Append(@, published[g.channel])]
  <2>2. stream[g.sub] \in Streams
    BY <1>0, <1>3
  <2>3. more.from = stream[g.sub].from /\ more.got = Append(stream[g.sub].got, published[g.channel])
    BY <2>2 DEF Streams
  <2>4. stream' = [stream EXCEPT ![g.sub] = more]
    BY <1>1
  <2> HIDE DEF more
  <2>5. g.sub \in DOMAIN stream
    BY <1>0, <1>3
  <2>6. stream'[g.sub] = more /\ \A n \in DOMAIN stream : n # g.sub => stream'[n] = stream[n]
    BY <2>4, <2>5
  <2> QED
    BY <2>1, <2>3, <2>6
<1>5. ASSUME NEW u \in Threads, pc[u] = "fire", req[u].channel = g.channel
      PROVE  u = t
  <2>1. req[t].kind \in ChannelCalls /\ req[u].kind \in ChannelCalls
    BY <1>2, <1>5 DEF IndInv, PhaseInv, ChannelCalls
  <2>2. Inside(t) /\ Inside(u)
    BY <1>2, <1>5 DEF Inside
  <2> QED
    BY <1>3, <1>5, <2>1, <2>2, OneAtChannel
<1>6. ASSUME NEW s \in Shards, NEW h \in handlers[s], h # g
      PROVE  stream'[h.sub] = stream[h.sub] /\ Due(h)' = Due(h)
  <2>1. h.sub # g.sub /\ h.sub \in DOMAIN stream
    BY <1>0, <1>3, <1>6 DEF NumberInv
  <2>2. Serving(h)' <=> Serving(h)
    <3>1. CASE h.channel # g.channel
      BY <1>2, <1>3, <1>4, <3>1 DEF Serving
    <3>2. CASE h.channel = g.channel
      <4>1. s = at[t]
        BY <1>2, <1>3, <3>2, ServedWhere
      <4>2. h.id # g.id /\ h.id \in Int
        BY <1>0, <1>3, <1>6, <3>2, <4>1, IdsAssumption DEF IndInv, HandlersInv
      <4>3. h.id > last[t] => g.id < h.id
        BY <1>0, <1>1, <1>3, <3>2, <4>1, <4>2 DEF Unserved
      <4>4. Serving(h) <=> last[t] < h.id
        BY <1>2, <1>3, <1>5, <3>2 DEF Serving
      <4>5. Serving(h)' <=> g.id < h.id
        BY <1>2, <1>3, <1>4, <1>5, <3>2 DEF Serving
      <4> QED
        BY <1>3, <4>2, <4>3, <4>4, <4>5
    <3> QED
      BY <3>1, <3>2
  <2> QED
    BY <1>2, <1>4, <2>1, <2>2 DEF Due
<1>7. ASSUME ~ Filling(g)
      PROVE  /\ stream'[g.sub].from <= Due(g)'
             /\ stream'[g.sub].got = Run(stream'[g.sub].from, Due(g)')
  <2>1. Serving(g) /\ ~ Serving(g)'
    <3>1. Serving(g)
      BY <1>2, <1>3 DEF Serving
    <3>2. ~ Serving(g)'
      BY <1>2, <1>3, <1>4, <1>5 DEF Serving
    <3> QED
      BY <3>1, <3>2
  <2>2. Due(g) = published[g.channel] - 1 /\ Due(g)' = published[g.channel]
    BY <1>2, <2>1 DEF Due
  <2>3. /\ stream[g.sub].from <= published[g.channel] - 1
        /\ stream[g.sub].got = Run(stream[g.sub].from, published[g.channel] - 1)
    BY <1>0, <1>3, <1>7, <2>2 DEF GotInv
  <2> DEFINE i == stream[g.sub].from
             j == published[g.channel] - 1
  <2>4. i \in Nat /\ published[g.channel] \in Nat
    BY <1>0, <1>3, StreamElements DEF IndInv
  <2>5. j \in Nat /\ i <= j /\ j + 1 = published[g.channel]
    BY <2>3, <2>4
  <2>7. stream'[g.sub].from = i /\ stream'[g.sub].got = Append(Run(i, j), j + 1)
    BY <1>4, <2>3, <2>5
  <2>8. Due(g)' = j + 1
    BY <2>2, <2>5
  <2> HIDE DEF i, j
  <2>6. Append(Run(i, j), j + 1) = Run(i, j + 1)
    BY <2>4, <2>5, RunGrows
  <2>9. i <= j + 1
    BY <2>4, <2>5
  <2> QED
    BY <2>6, <2>7, <2>8, <2>9
<1>8. ASSUME NEW h PROVE Filling(h)' <=> Filling(h)
  BY <1>2 DEF Filling
<1> SUFFICES ASSUME NEW s \in Shards, NEW h \in handlers'[s], ~ Filling(h)'
             PROVE  /\ stream'[h.sub].from <= Due(h)'
                    /\ stream'[h.sub].got = Run(stream'[h.sub].from, Due(h)')
  BY DEF GotInv
<1>9. h \in handlers[s] /\ ~ Filling(h)
  BY <1>2, <1>8
<1>10. CASE h = g
  BY <1>7, <1>9, <1>10
<1>11. CASE h # g
  BY <1>6, <1>9, <1>11 DEF GotInv
<1> QED
  BY <1>10, <1>11

\* CopyMessages: the subscription is filled with what the queue holds.
LEMMA CopyGot ==
  ASSUME IndInv, NumberInv, GotInv, NEW t \in Threads, CopyMessages(t)
  PROVE  GotInv'
<1> DEFINE c == req[t].channel
<1>0. /\ pc \in [Threads -> Labels] /\ published \in [Channels -> Nat]
      /\ req[t] \in Requests /\ c \in Channels /\ stream \in Seq(Streams)
  BY RequestFields DEF IndInv, TypeOK, Streams
<1>1. /\ pc[t] = "copy" /\ pc'[t] = "unlock" /\ \A u \in Threads : u # t => pc'[u] = pc[u]
      /\ UNCHANGED <<req, last, mine, handlers, published>>
      /\ stream' = [stream EXCEPT ![mine[t]] = [from |-> From(c), got |-> Held(c)]]
  BY <1>0 DEF CopyMessages, Goto, registryVars
<1>2. Making(t) /\ req[t].kind \in ChannelCalls /\ Inside(t) /\ mine[t] \in DOMAIN stream
  BY <1>0, <1>1 DEF Making, Inside, IndInv, PhaseInv, ChannelCalls, NumberInv
<1>3. /\ stream'[mine[t]].from = From(c)
      /\ stream'[mine[t]].got = Held(c)
      /\ \A n \in DOMAIN stream : n # mine[t] => stream'[n] = stream[n]
  BY <1>1, <1>2
<1>4. From(c) <= published[c] /\ Held(c) = Run(From(c), published[c])
  BY <1>0, HeldIsRun DEF Held, Run, IndInv
<1>5. ASSUME NEW h PROVE Serving(h)' <=> Serving(h)
  BY <1>1 DEF Serving
<1>6. ASSUME NEW u \in Threads, pc[u] = "fire", req[u].channel = c
      PROVE  FALSE
  <2>1. Inside(u) /\ req[u].kind \in ChannelCalls
    BY <1>6 DEF Inside, IndInv, PhaseInv, ChannelCalls
  <2> QED
    BY <1>1, <1>2, <1>6, <2>1, OneAtChannel
<1> SUFFICES ASSUME NEW s \in Shards, NEW h \in handlers[s], ~ Filling(h)'
             PROVE  /\ stream'[h.sub].from <= Due(h)'
                    /\ stream'[h.sub].got = Run(stream'[h.sub].from, Due(h)')
  BY <1>1 DEF GotInv
<1>7. CASE h.sub = mine[t]
  <2>1. h.channel = c
    BY <1>2, <1>7 DEF NumberInv
  <2>2. ~ Serving(h)'
    BY <1>5, <1>6, <2>1 DEF Serving
  <2>3. Due(h)' = published[c]
    BY <1>1, <2>1, <2>2 DEF Due
  <2> HIDE DEF c
  <2> QED
    BY <1>3, <1>4, <1>7, <2>3
<1>8. CASE h.sub # mine[t]
  <2>1. h.sub \in DOMAIN stream
    BY <1>0 DEF NumberInv
  <2>2. stream'[h.sub] = stream[h.sub]
    BY <1>3, <1>8, <2>1
  <2>3. ~ Filling(h)
    BY <1>1, <1>8 DEF Filling
  <2>4. Due(h)' = Due(h)
    BY <1>1, <1>5 DEF Due
  <2> QED
    BY <2>2, <2>3, <2>4 DEF GotInv
<1> QED
  BY <1>7, <1>8

\* Every other step of a call leaves what was given and what was due.
LEMMA OtherGot ==
  ASSUME IndInv, NumberInv, GotInv, NEW t \in Threads, Step(t),
         ~ PushMessage(t), ~ Fire(t), ~ CopyMessages(t)
  PROVE  GotInv'
<1>0. /\ pc \in [Threads -> Labels] /\ last \in [Threads -> Ids \cup {-1}]
      /\ mine \in [Threads -> Nat] /\ at[t] \in Shards
      /\ handlers \in [Shards -> SUBSET [channel : Channels, id : Ids, sub : Nat]]
      /\ stream \in Seq(Streams)
  BY DEF IndInv, TypeOK, Streams
<1>1. /\ UNCHANGED <<req, published>>
      /\ \A u \in Threads : u # t => pc'[u] = pc[u] /\ last'[u] = last[u] /\ mine'[u] = mine[u]
      /\ pc'[t] # "fire" /\ pc[t] # "copy"
  <2>1. CASE Lock(t)
    <3>1. /\ pc[t] = "lock" /\ UNCHANGED <<req, published>>
          /\ \A u \in Threads : u # t => pc'[u] = pc[u] /\ last'[u] = last[u]
      BY <1>0, <2>1 DEF Lock, Enter, Goto
    <3>2. \A u \in Threads : u # t => mine'[u] = mine[u]
      BY <1>0, <2>1 DEF Lock, Enter
    <3>3. req[t].kind \in ChannelCalls \cup SweepingCalls
      BY RequestFields DEF IndInv, TypeOK
    <3>4. pc'[t] # "fire"
      BY <1>0, <2>1, <3>3 DEF Lock, Enter, Goto, ChannelCalls, SweepingCalls
    <3> QED
      BY <3>1, <3>2, <3>4
  <2>2. CASE ~ Lock(t)
    <3>1. UNCHANGED <<req, published, last, mine>>
      BY <2>2 DEF Step, InsertHandler, Unlock, FireDone, EraseHandler, EraseSubscriber,
              InsertSubscriber, EraseHandlers, EraseSubscribers, Look, Count, Read, Clear,
              ClearSubscribers, ClearHandlers, ClearChannels, messageVars
    <3>2. \A u \in Threads : u # t => pc'[u] = pc[u]
      BY <1>0, <2>2 DEF Step, InsertHandler, Unlock, FireDone, EraseHandler, EraseSubscriber,
              InsertSubscriber, EraseHandlers, EraseSubscribers, Look, Count, Read, Clear,
              ClearSubscribers, ClearHandlers, ClearChannels, Goto
    <3>3. pc'[t] # "fire" /\ pc[t] # "copy"
      BY <1>0, <2>2 DEF Step, InsertHandler, Unlock, FireDone, EraseHandler, EraseSubscriber,
              InsertSubscriber, EraseHandlers, EraseSubscribers, Look, Count, Read, Clear,
              ClearSubscribers, ClearHandlers, ClearChannels, Goto, Described
    <3> QED
      BY <3>1, <3>2, <3>3
  <2> QED
    BY <2>1, <2>2
<1>2. ASSUME NEW s \in Shards, NEW h \in handlers[s]
      PROVE  stream'[h.sub] = stream[h.sub]
  <2>1. CASE Lock(t)
    <3> DEFINE fresh == [from |-> 0, got |-> <<>>]
    <3>1. stream' = stream \/ stream' = Append(stream, fresh)
      BY <2>1 DEF Lock, Enter
    <3>2. h.sub \in 1 .. Len(stream)
      BY DEF NumberInv
    <3>3. fresh \in Streams
      BY DEF Streams
    <3> HIDE DEF fresh
    <3> QED
      BY <1>0, <3>1, <3>2, <3>3
  <2>2. CASE ~ Lock(t)
    BY <2>2 DEF Step, InsertHandler, Unlock, FireDone, EraseHandler, EraseSubscriber,
                InsertSubscriber, EraseHandlers, EraseSubscribers, Look, Count, Read, Clear,
                ClearSubscribers, ClearHandlers, ClearChannels, messageVars
  <2> QED
    BY <2>1, <2>2
<1>3. ASSUME NEW s \in Shards, NEW h \in handlers'[s], ~ Filling(h)'
      PROVE  h \in handlers[s]
  <2>1. CASE InsertHandler(t)
    <3> DEFINE new == [channel |-> req[t].channel, id |-> req[t].id, sub |-> mine[t]]
    <3>1. h \in handlers[s] \cup {new}
      BY <1>0, <2>1 DEF InsertHandler
    <3>2. pc'[t] = "copy" /\ mine'[t] = new.sub
      BY <1>0, <2>1 DEF InsertHandler, Goto
    <3> HIDE DEF new
    <3> QED
      BY <1>3, <3>1, <3>2 DEF Filling
  <2>2. CASE ~ InsertHandler(t)
    BY <2>2, HandlersShrink
  <2> QED
    BY <2>1, <2>2
<1>4. ASSUME NEW h, Filling(h)
      PROVE  Filling(h)'
  BY <1>1, <1>4 DEF Filling
<1>5. ASSUME NEW s \in Shards, NEW h \in handlers[s]
      PROVE  Serving(h)' <=> Serving(h)
  <2>1. ~ (pc[t] = "fire" /\ req[t].channel = h.channel /\ last[t] < h.id)
    <3>1. CASE FireDone(t)
      <4>1. pc[t] = "fire" /\ Unserved(t) = {}
        BY <3>1 DEF FireDone
      <4>2. SUFFICES ASSUME req[t].channel = h.channel, last[t] < h.id PROVE FALSE
        OBVIOUS
      <4>3. s = at[t]
        BY <4>1, <4>2, ServedWhere
      <4>4. last[t] \in Ids \/ last[t] = -1
        BY <1>0
      <4>5. last[t] \in Int /\ h.id \in Int
        <5>1. last[t] \in Nat \/ last[t] = -1
          BY <4>4, IdsAssumption
        <5> QED
          BY <5>1, HandlerElements
      <4>6. h.id > last[t]
        BY <4>2, <4>5
      <4>7. h \in Unserved(t)
        BY <4>2, <4>3, <4>6 DEF Unserved
      <4> QED
        BY <4>1, <4>7
    <3>2. CASE ~ FireDone(t)
      BY <3>2 DEF Step, Lock, Enter, InsertHandler, Unlock, EraseHandler, EraseSubscriber,
                  InsertSubscriber, EraseHandlers, EraseSubscribers, Look, Count, Read, Clear,
                  ClearSubscribers, ClearHandlers, ClearChannels
    <3> QED
      BY <3>1, <3>2
  <2> QED
    BY <1>1, <2>1 DEF Serving
<1>6. ASSUME NEW s \in Shards, NEW h \in handlers[s]
      PROVE  Due(h)' = Due(h)
  BY <1>1, <1>5 DEF Due
<1> QED
  BY <1>2, <1>3, <1>4, <1>6, GotKept

LEMMA StepGot ==
  ASSUME IndInv, NumberInv, GotInv, ReachInv, NEW t \in Threads, Step(t)
  PROVE  GotInv'
BY PushGot, FireGot, CopyGot, OtherGot

-----------------------------------------------------------------------------
(***************************************************************************)
(* What describe(id) leaves.                                               *)
(***************************************************************************)
LEMMA StepNewer ==
  ASSUME IndInv, NumberInv, ReachInv, NewerInv, NEW w \in Threads, Step(w)
  PROVE  NewerInv'
<1>0. /\ pc \in [Threads -> Labels] /\ mine \in [Threads -> Nat]
      /\ since \in [Threads -> Nat] /\ at \in [Threads -> Shards] /\ at[w] \in Shards
      /\ handlers \in [Shards -> SUBSET [channel : Channels, id : Ids, sub : Nat]]
      /\ stream \in Seq(Streams) /\ Len(stream) \in Nat
  <2>1. stream \in Seq(Streams)
    BY DEF IndInv, TypeOK, Streams
  <2> QED
    BY <2>1, SMTT(90) DEF IndInv, TypeOK
<1>1. UNCHANGED <<req, since>>
  BY DEF Step, Lock, Enter, InsertHandler, Unlock, PushMessage, Fire, FireDone, EraseHandler,
         EraseSubscriber, InsertSubscriber, CopyMessages, EraseHandlers, EraseSubscribers,
         Look, Count, Read, Clear, ClearSubscribers, ClearHandlers, ClearChannels
<1>2. \A u \in Threads : u # w => pc'[u] = pc[u] /\ at'[u] = at[u] /\ mine'[u] = mine[u]
  <2>1. \A u \in Threads : u # w => pc'[u] = pc[u]
    BY <1>0, SMTT(90) DEF Step, Lock, Enter, InsertHandler, Unlock, PushMessage, Fire, FireDone,
         EraseHandler, EraseSubscriber, InsertSubscriber, CopyMessages, EraseHandlers,
         EraseSubscribers, Look, Count, Read, Clear, ClearSubscribers, ClearHandlers,
         ClearChannels, Goto
  <2>2. \A u \in Threads : u # w => at'[u] = at[u]
    BY <1>0, SMTT(90) DEF Step, Lock, Enter, InsertHandler, Unlock, PushMessage, Fire, FireDone,
         EraseHandler, EraseSubscriber, InsertSubscriber, CopyMessages, EraseHandlers,
         EraseSubscribers, Look, Count, Read, Clear, ClearSubscribers, ClearHandlers, ClearChannels
  <2>3. \A u \in Threads : u # w => mine'[u] = mine[u]
    BY <1>0 DEF Step, Lock, Enter, InsertHandler, Unlock, PushMessage, Fire, FireDone,
         EraseHandler, EraseSubscriber, InsertSubscriber, CopyMessages, EraseHandlers,
         EraseSubscribers, Look, Count, Read, Clear, ClearSubscribers, ClearHandlers, ClearChannels
  <2> QED
    BY <2>1, <2>2, <2>3, SMTT(90)
<1>3. Len(stream') \in Nat /\ Len(stream') >= Len(stream)
  <2>1. CASE Lock(w)
    <3> DEFINE fresh == [from |-> 0, got |-> <<>>]
    <3>1. stream' = stream \/ stream' = Append(stream, fresh)
      BY <2>1 DEF Lock, Enter
    <3>2. fresh \in Streams
      BY DEF Streams
    <3> HIDE DEF fresh
    <3> QED
      BY <1>0, <3>1, <3>2
  <2> QED
    BY <1>0, <2>1, StreamLength
<1>4. \A t \in Threads : since'[t] <= Len(stream')
  BY <1>0, <1>1, <1>3 DEF NewerInv
<1> SUFFICES ASSUME NEW t \in Threads, pc'[t] # "idle", req[t].kind = "describeAll",
                    NEW s \in Done(t)'
             PROVE  /\ \A h \in handlers'[s] : h.id = req[t].id => h.sub > since[t]
                    /\ \A u \in Threads : Making(u)' /\ at'[u] = s => mine'[u] > since[t]
  BY <1>1, <1>4 DEF NewerInv
<1>5. s \in Shards /\ (s < at'[t] \/ (s = at'[t] /\ pc'[t] = "unlock"))
  BY SMTT(90) DEF Done
<1>6. pc[w] # "idle"
  BY DEF Step, Lock, Enter, InsertHandler, Unlock, PushMessage, Fire, FireDone, EraseHandler,
         EraseSubscriber, InsertSubscriber, CopyMessages, EraseHandlers, EraseSubscribers,
         Look, Count, Read, Clear, ClearSubscribers, ClearHandlers, ClearChannels
<1>7. CASE t = w /\ EraseSubscribers(w) /\ s = at[w]
  <2>1. pc[w] = "eraseSubscribers" /\ handlers' = handlers /\ pc'[w] = "unlock"
    BY <1>0, <1>7 DEF EraseSubscribers, Goto
  <2>2. Keys(s) = {p \in subscribers[s] : p[1] # req[w].id}
    BY <1>7, <2>1 DEF IndInv, RegistryInv
  <2>3. \A h \in handlers[s] : h.id # req[w].id
    <3> SUFFICES ASSUME NEW h \in handlers[s] PROVE h.id # req[w].id
      OBVIOUS
    <3>1. <<h.id, h.channel>> \in Keys(s)
      BY DEF Keys
    <3> QED
      BY <2>2, <3>1
  <2>4. ASSUME NEW u \in Threads, Making(u)', at'[u] = s
        PROVE  FALSE
    <3>1. ~ Lock(w) /\ u # w
      BY <1>1, <1>7, <2>1, <2>4 DEF Lock, Enter, Making
    <3>2. Making(u) /\ at[u] = at[w]
      BY <1>1, <1>2, <1>7, <2>4, <3>1 DEF Making
    <3>3. owner[at[u]] = u /\ owner[at[w]] = w
      BY <2>1, <3>2, MakingInside DEF IndInv, MutexInv, Inside
    <3> QED
      BY <3>1, <3>2, <3>3
  <2> QED
    BY <1>7, <2>1, <2>3, <2>4
<1>8. CASE ~ (t = w /\ EraseSubscribers(w) /\ s = at[w])
  <2>1. pc[t] # "idle" /\ s \in Done(t)
    <3>1. CASE t # w
      BY <1>2, <1>5, <3>1 DEF Done
    <3>2. CASE t = w
      <4>1. pc[w] \notin {"push", "fire", "eraseHandler", "eraseSubscriber", "insertSubscriber",
                         "insertHandler", "copy", "count", "read", "clearSubscribers",
                         "clearHandlers", "clearChannels"}
        BY <3>2 DEF IndInv, PhaseInv, ReachInv
      <4>2. CASE Unlock(w)
        <5>1. pc[w] = "unlock" /\ at'[w] = at[w] + 1
          <6>1. at[w] < ShardCount
            BY <1>0, <3>2, <4>2 DEF Unlock, Goto
          <6> QED
            BY <1>0, <3>2, <4>2, <6>1 DEF Unlock, SweepingCalls
        <5>2. pc'[w] # "unlock"
          BY <1>0, <4>2 DEF Unlock, Goto
        <5>3. s \in Int /\ at[w] \in Int
          BY <1>0, <1>5 DEF Shards
        <5>4. s < at[w] \/ s = at[w]
          BY <1>5, <3>2, <5>1, <5>2, <5>3
        <5> QED
          BY <1>5, <1>6, <3>2, <5>1, <5>4 DEF Done
      <4>3. CASE Lock(w)
        <5>1. at' = at /\ pc'[w] = "eraseHandlers"
          BY <1>0, <3>2, <4>3 DEF Lock, Enter, Goto
        <5> QED
          BY <1>5, <1>6, <3>2, <5>1 DEF Done
      <4>4. CASE EraseHandlers(w)
        <5>1. at' = at /\ pc'[w] = "eraseSubscribers"
          BY <1>0, <3>2, <4>4 DEF EraseHandlers, Goto
        <5> QED
          BY <1>5, <1>6, <3>2, <5>1 DEF Done
      <4>5. CASE EraseSubscribers(w)
        <5>1. at' = at /\ s # at[w]
          BY <1>8, <3>2, <4>5 DEF EraseSubscribers
        <5> QED
          BY <1>5, <1>6, <3>2, <5>1 DEF Done
      <4> QED
        BY <4>1, <4>2, <4>3, <4>4, <4>5 DEF Step, PushMessage, Fire, FireDone, EraseHandler,
           EraseSubscriber, InsertSubscriber, InsertHandler, CopyMessages, Look, Count, Read,
           Clear, ClearSubscribers, ClearHandlers, ClearChannels
    <3> QED
      BY <3>1, <3>2
  <2>2. /\ \A h \in handlers[s] : h.id = req[t].id => h.sub > since[t]
        /\ \A u \in Threads : Making(u) /\ at[u] = s => mine[u] > since[t]
    BY <2>1 DEF NewerInv
  <2>3. ASSUME NEW h \in handlers'[s], h.id = req[t].id
        PROVE  h.sub > since[t]
    <3>1. CASE h \in handlers[s]
      BY <2>2, <2>3, <3>1
    <3>2. CASE h \notin handlers[s]
      <4>1. InsertHandler(w)
        BY <1>5, <3>2, HandlersShrink
      <4> DEFINE new == [channel |-> req[w].channel, id |-> req[w].id, sub |-> mine[w]]
      <4>2. h = new /\ s = at[w]
        BY <1>0, <1>5, <3>2, <4>1 DEF InsertHandler
      <4>3. h.sub = mine[w]
        BY <4>2
      <4>4. Making(w)
        BY <4>1 DEF InsertHandler, Making, IndInv, PhaseInv
      <4> QED
        BY <2>2, <4>2, <4>3, <4>4
    <3> QED
      BY <3>1, <3>2
  <2>4. ASSUME NEW u \in Threads, Making(u)', at'[u] = s
        PROVE  mine'[u] > since[t]
    <3>1. CASE u # w
      BY <1>1, <1>2, <2>2, <2>4, <3>1 DEF Making
    <3>2. CASE u = w /\ Lock(w)
      <4>1. mine'[w] = Len(stream) + 1
        BY <1>0, <1>1, <2>4, <3>2 DEF Lock, Enter, Making
      <4> QED
        BY <1>0, <3>2, <4>1 DEF NewerInv
    <3>3. CASE u = w /\ ~ Lock(w)
      BY <2>2, <2>4, <3>3, MakingBefore
    <3> QED
      BY <3>1, <3>2, <3>3
  <2> QED
    BY <2>3, <2>4
<1> QED
  BY <1>7, <1>8

-----------------------------------------------------------------------------
(***************************************************************************)
(* The invariant and the theorems.                                         *)
(***************************************************************************)
LEMMA InitHandoff == Init => HandoffInv
<1> SUFFICES ASSUME Init PROVE HandoffInv
  OBVIOUS
<1>1. NumberInv
  BY DEF Init, NumberInv, Making
<1>2. GotInv
  BY DEF Init, GotInv
<1>3. ReachInv
  BY DEF Init, ReachInv
<1>4. NewerInv
  <2>1. \A t \in Threads : since[t] <= Len(stream)
    BY DEF Init
  <2> QED
    BY <2>1 DEF Init, NewerInv
<1> QED
  BY <1>1, <1>2, <1>3, <1>4 DEF HandoffInv

LEMMA BeginHandoff ==
  ASSUME IndInv, HandoffInv, NEW t \in Threads, NEW r \in Requests, Begin(t, r)
  PROVE  HandoffInv'
<1> USE DEF HandoffInv
<1>0. /\ pc \in [Threads -> Labels] /\ req \in [Threads -> Requests]
      /\ since \in [Threads -> Nat] /\ at \in [Threads -> Shards]
      /\ stream \in Seq(Streams) /\ Len(stream) \in Nat
  <2>1. stream \in Seq(Streams)
    BY DEF IndInv, TypeOK, Streams
  <2> QED
    BY <2>1 DEF IndInv, TypeOK
<1>1. /\ pc[t] = "idle" /\ pc'[t] = "lock" /\ req'[t] = r
      /\ since'[t] = Len(stream)
      /\ at'[t] = IF r.kind \in ChannelCalls THEN ShardOf[r.channel] ELSE 1
      /\ UNCHANGED <<last, mine, handlers, published, stream>>
  BY <1>0 DEF Begin, Goto, registryVars, messageVars
<1>2. \A u \in Threads : u # t => /\ pc'[u] = pc[u] /\ req'[u] = req[u]
                                 /\ since'[u] = since[u] /\ at'[u] = at[u]
  BY <1>0 DEF Begin, Goto
<1>3. \A u \in Threads : Making(u)' => Making(u) /\ u # t
  BY <1>1, <1>2 DEF Making
<1>4. NumberInv'
  BY <1>1, <1>2, <1>3 DEF NumberInv
<1>5. GotInv'
  <2>1. ASSUME NEW h PROVE (Filling(h)' <=> Filling(h)) /\ (Serving(h)' <=> Serving(h))
    BY <1>1, <1>2 DEF Filling, Serving
  <2>2. ASSUME NEW h PROVE Due(h)' = Due(h)
    BY <1>1, <2>1 DEF Due
  <2> QED
    BY <1>1, <2>1, <2>2, GotKept
<1>6. ReachInv'
  BY <1>1, <1>2 DEF ReachInv
<1>7. NewerInv'
  <2>1. \A u \in Threads : since'[u] <= Len(stream')
    BY <1>0, <1>1, <1>2 DEF NewerInv
  <2> SUFFICES ASSUME NEW u \in Threads, pc'[u] # "idle", req'[u].kind = "describeAll",
                      NEW s \in Done(u)'
               PROVE  /\ \A h \in handlers[s] : h.id = req'[u].id => h.sub > since'[u]
                      /\ \A v \in Threads : Making(v)' /\ at'[v] = s => mine[v] > since'[u]
    BY <1>1, <2>1 DEF NewerInv
  <2>2. CASE u = t
    <3>1. at'[t] = 1
      BY <1>1, <2>2 DEF ChannelCalls
    <3>2. s \in Shards /\ s < 1
      BY <1>1, <2>2, <3>1 DEF Done
    <3>3. ShardCount \in Nat
      BY ShardsAssumption
    <3> QED
      BY <3>2, <3>3 DEF Shards
  <2>3. CASE u # t
    <3>1. pc[u] # "idle" /\ req[u].kind = "describeAll" /\ s \in Done(u)
      BY <1>2, <2>3 DEF Done
    <3>2. /\ \A h \in handlers[s] : h.id = req[u].id => h.sub > since[u]
          /\ \A v \in Threads : Making(v) /\ at[v] = s => mine[v] > since[u]
      BY <3>1 DEF NewerInv
    <3> QED
      BY <1>2, <1>3, <2>3, <3>2
  <2> QED
    BY <2>2, <2>3
<1> QED
  BY <1>4, <1>5, <1>6, <1>7

LEMMA StutterHandoff == HandoffInv /\ UNCHANGED vars => HandoffInv'
<1> SUFFICES ASSUME HandoffInv, UNCHANGED vars PROVE HandoffInv'
  OBVIOUS
<1>1. UNCHANGED <<pc, req, at, last, mine, since, handlers, published, stream>>
  BY DEF vars, threadVars, registryVars, messageVars
<1>2. NumberInv'
  BY <1>1 DEF HandoffInv, NumberInv, Making
<1>3. GotInv'
  BY <1>1 DEF HandoffInv, GotInv, Filling, Due, Serving
<1>4. ReachInv'
  BY <1>1 DEF HandoffInv, ReachInv
<1>5. NewerInv'
  BY <1>1 DEF HandoffInv, NewerInv, Making, Done
<1> QED
  BY <1>2, <1>3, <1>4, <1>5 DEF HandoffInv

LEMMA NextHandoff == IndInv /\ HandoffInv /\ [Next]_vars => HandoffInv'
<1> SUFFICES ASSUME IndInv, HandoffInv, [Next]_vars PROVE HandoffInv'
  OBVIOUS
<1>1. ASSUME NEW t \in Threads, NEW r \in Requests, Begin(t, r)
      PROVE  HandoffInv'
  BY <1>1, BeginHandoff
<1>2. ASSUME NEW t \in Threads, Step(t)
      PROVE  HandoffInv'
  BY <1>2, StepNumber, StepGot, StepReach, StepNewer DEF HandoffInv
<1>3. CASE Quiet \/ UNCHANGED vars
  BY <1>3, StutterHandoff DEF Quiet
<1> QED
  BY <1>1, <1>2, <1>3 DEF Next

THEOREM HandoffInvariance == Spec => []HandoffInv
BY InitHandoff, NextHandoff, Invariance, PTL DEF Spec

(***************************************************************************)
(* There is no gap and no repetition between the copy of the queue that    *)
(* subscribe gives and what fire_ gives the handler after it.              *)
(***************************************************************************)
THEOREM HandoffCorrect == Spec => []GaplessHandoff
<1>1. ASSUME IndInv, HandoffInv, NEW s \in Shards, owner[s] = None, NEW h \in handlers[s]
      PROVE  stream[h.sub].got = Run(stream[h.sub].from, published[h.channel])
  <2>1. ShardOf[h.channel] = s
    BY <1>1 DEF IndInv, HandlersInv
  <2>2. ASSUME NEW t \in Threads, Inside(t), req[t].kind \in ChannelCalls,
               req[t].channel = h.channel
        PROVE  FALSE
    <3>1. at[t] = s
      BY <2>1, <2>2, <1>1 DEF IndInv, PhaseInv, Inside
    <3> QED
      BY <1>1, <2>2, <3>1, NoneAssumption DEF IndInv, MutexInv
  <2>3. ~ Filling(h)
    <3> SUFFICES ASSUME NEW t \in Threads, pc[t] = "copy", mine[t] = h.sub PROVE FALSE
      BY DEF Filling
    <3>1. req[t].kind = "subscribe" /\ Inside(t) /\ Making(t)
      BY <1>1 DEF IndInv, PhaseInv, Inside, Making
    <3>2. h.channel = req[t].channel
      BY <1>1, <3>1 DEF HandoffInv, NumberInv
    <3> QED
      BY <2>2, <3>1, <3>2 DEF ChannelCalls
  <2>4. ~ Serving(h)
    <3> SUFFICES ASSUME NEW t \in Threads, pc[t] = "fire", req[t].channel = h.channel PROVE FALSE
      BY DEF Serving
    <3>1. req[t].kind = "publish" /\ Inside(t)
      BY <1>1 DEF IndInv, PhaseInv, Inside
    <3> QED
      BY <2>2, <3>1 DEF ChannelCalls
  <2> QED
    BY <1>1, <2>3, <2>4 DEF HandoffInv, GotInv, Due
<1>2. IndInv /\ HandoffInv => GaplessHandoff
  BY <1>1 DEF GaplessHandoff, Run
<1> QED
  BY Invariance, HandoffInvariance, <1>2, PTL

(***************************************************************************)
(* What describe(id) leaves in the shards it has done subscribed after it  *)
(* began.                                                                  *)
(***************************************************************************)
THEOREM DescribeCorrect == Spec => []DescribeLeavesOnlyNewer
<1>1. HandoffInv => DescribeLeavesOnlyNewer
  BY DEF HandoffInv, NewerInv, DescribeLeavesOnlyNewer
<1> QED
  BY HandoffInvariance, <1>1, PTL

-----------------------------------------------------------------------------
(***************************************************************************)
(* PubsubMt implements Broker: a call takes effect on a shard at once,     *)
(* when its thread gets the mutex of the shard.                            *)
(*                                                                         *)
(* The inductive invariant, beside IndInv and HandoffInv: what a call has  *)
(* done to the handlers and the queues of its shard by each of its steps.  *)
(***************************************************************************)
\* The handler a subscribe makes, and those of the channel and the id of a call.
Made(t) == [channel |-> req[t].channel, id |-> req[t].id, sub |-> mine[t]]

AtKey(t) == {h \in handlers[at[t]] : h.channel = req[t].channel /\ h.id = req[t].id}

DoneHere(t) ==
  /\ pc[t] \in {"eraseSubscriber", "insertSubscriber", "insertHandler"} => AtKey(t) = {}
  /\ pc[t] = "unlock" /\ req[t].kind = "describe" => AtKey(t) = {}
  /\ pc[t] = "copy" \/ (pc[t] = "unlock" /\ req[t].kind = "subscribe") => AtKey(t) = {Made(t)}
  /\ pc[t] = "eraseSubscribers" \/ (pc[t] = "unlock" /\ req[t].kind = "describeAll") =>
       \A h \in handlers[at[t]] : h.id # req[t].id
  /\ pc[t] = "clearChannels" \/ (pc[t] = "unlock" /\ req[t].kind = "reset") =>
       handlers[at[t]] = {}
  /\ pc[t] = "unlock" /\ req[t].kind = "reset" =>
       \A c \in Channels : ShardOf[c] = at[t] => dropped[c] = published[c]

DoneInv == \A t \in Threads : DoneHere(t)

-----------------------------------------------------------------------------
(***************************************************************************)
(* A step of a thread leaves the other threads and the other shards alone. *)
(***************************************************************************)
LEMMA Elsewhere ==
  ASSUME IndInv, NEW t \in Threads, Step(t)
  PROVE  /\ UNCHANGED req
         /\ \A u \in Threads : u # t =>
              /\ pc'[u] = pc[u] /\ at'[u] = at[u] /\ last'[u] = last[u] /\ mine'[u] = mine[u]
         /\ \A s \in Shards : s # at[t] => owner'[s] = owner[s] /\ handlers'[s] = handlers[s]
         /\ \A c \in Channels : ShardOf[c] # at[t] =>
              published'[c] = published[c] /\ dropped'[c] = dropped[c]
<1>0. /\ pc \in [Threads -> Labels] /\ at \in [Threads -> Shards]
      /\ last \in [Threads -> Ids \cup {-1}] /\ mine \in [Threads -> Nat]
      /\ owner \in [Shards -> Threads \cup {None}] /\ at[t] \in Shards
      /\ handlers \in [Shards -> SUBSET [channel : Channels, id : Ids, sub : Nat]]
      /\ published \in [Channels -> Nat] /\ dropped \in [Channels -> Nat]
      /\ req[t].channel \in Channels
  BY RequestFields DEF IndInv, TypeOK
<1> USE DEF Goto, registryVars, messageVars
<1>1. CASE Lock(t)
  <2>1. /\ UNCHANGED <<req, at, handlers, published, dropped>>
        /\ owner' = [owner EXCEPT ![at[t]] = t]
        /\ last' = [last EXCEPT ![t] = -1]
        /\ \E l : pc' = [pc EXCEPT ![t] = l]
        /\ mine' = mine \/ mine' = [mine EXCEPT ![t] = Len(stream) + 1]
    BY <1>1, Zenon DEF Lock, Enter
  <2> QED
    BY <1>0, <2>1
<1>2. CASE Unlock(t)
  <2>1. /\ UNCHANGED <<req, last, mine, handlers, published, dropped>>
        /\ owner' = [owner EXCEPT ![at[t]] = None]
        /\ \E l : pc' = [pc EXCEPT ![t] = l]
        /\ at' = at \/ at' = [at EXCEPT ![t] = @ + 1]
    BY <1>2, Zenon DEF Unlock
  <2> QED
    BY <1>0, <2>1
<1>3. CASE PushMessage(t)
  <2>1. ShardOf[req[t].channel] = at[t]
    BY <1>3 DEF PushMessage, IndInv, PhaseInv, ChannelCalls
  <2>2. /\ UNCHANGED <<req, at, last, mine, owner, handlers>>
        /\ pc' = [pc EXCEPT ![t] = "fire"]
        /\ \A c \in Channels : c # req[t].channel =>
             published'[c] = published[c] /\ dropped'[c] = dropped[c]
    BY <1>0, <1>3 DEF PushMessage
  <2> QED
    BY <1>0, <2>1, <2>2
<1>4. CASE Fire(t)
  <2>1. /\ UNCHANGED <<pc, req, at, mine, owner, handlers, published, dropped>>
        /\ \E i : last' = [last EXCEPT ![t] = i]
    BY <1>4, Zenon DEF Fire
  <2> QED
    BY <1>0, <2>1
<1>5. CASE EraseHandler(t)
  <2>1. /\ UNCHANGED <<req, at, last, mine, owner, published, dropped>>
        /\ \E l : pc' = [pc EXCEPT ![t] = l]
        /\ \E H : handlers' = handlers \/ handlers' = [handlers EXCEPT ![at[t]] = H]
    BY <1>5, Zenon DEF EraseHandler
  <2> QED
    BY <1>0, <2>1
<1>6. CASE InsertHandler(t)
  <2>1. /\ UNCHANGED <<req, at, last, mine, owner, published, dropped>>
        /\ pc' = [pc EXCEPT ![t] = "copy"]
        /\ \E H : handlers' = handlers \/ handlers' = [handlers EXCEPT ![at[t]] = H]
    BY <1>6, Zenon DEF InsertHandler
  <2> QED
    BY <1>0, <2>1
<1>7. CASE EraseHandlers(t)
  BY <1>0, <1>7 DEF EraseHandlers
<1>8. CASE Clear(t)
  BY <1>0, <1>8 DEF Clear, ClearSubscribers, ClearHandlers, ClearChannels
<1>9. CASE CopyMessages(t) \/ FireDone(t) \/ EraseSubscriber(t) \/ InsertSubscriber(t)
           \/ EraseSubscribers(t) \/ Look(t)
  <2>1. /\ UNCHANGED <<req, at, last, mine, owner, handlers, published, dropped>>
        /\ \E l : pc' = [pc EXCEPT ![t] = l]
    BY <1>9, Zenon DEF CopyMessages, FireDone, EraseSubscriber, InsertSubscriber,
                       EraseSubscribers, Look, Count, Read
  <2> QED
    BY <1>0, <2>1
<1> QED
  BY <1>1, <1>2, <1>3, <1>4, <1>5, <1>6, <1>7, <1>8, <1>9, StepKinds

\* Two threads inside are in different shards.
LEMMA ApartInside ==
  ASSUME IndInv, NEW t \in Threads, NEW u \in Threads, Inside(t), Inside(u), u # t
  PROVE  at[u] # at[t]
BY AloneInside DEF IndInv

LEMMA StepApart ==
  ASSUME IndInv, NEW t \in Threads, Step(t), NEW u \in Threads, Inside(u), u # t
  PROVE  at[u] # at[t]
<1>1. CASE Lock(t)
  BY <1>1, NoneAssumption DEF Lock, IndInv, MutexInv
<1>2. CASE ~ Lock(t)
  <2>1. Inside(t)
    BY <1>2 DEF Step, Inside, Unlock, PushMessage, Fire, FireDone, EraseHandler, EraseSubscriber,
                InsertSubscriber, InsertHandler, CopyMessages, EraseHandlers, EraseSubscribers,
                Look, Count, Read, Clear, ClearSubscribers, ClearHandlers, ClearChannels
  <2> QED
    BY <2>1, ApartInside, SMTT(90)
<1> QED
  BY <1>1, <1>2

-----------------------------------------------------------------------------
(***************************************************************************)
(* The invariant is inductive.                                             *)
(***************************************************************************)
\* DoneHere is about threads inside, and about the shard they are in.
LEMMA DoneElsewhere ==
  ASSUME IndInv, DoneInv, NEW t \in Threads, Step(t), NEW u \in Threads, u # t
  PROVE  DoneHere(u)'
<1>0. at[u] \in Shards
  BY DEF IndInv, TypeOK
<1>1. req' = req /\ pc'[u] = pc[u] /\ at'[u] = at[u] /\ mine'[u] = mine[u]
  BY Elsewhere
<1>2. CASE Inside(u)
  <2>1. at[u] # at[t]
    BY <1>2, StepApart
  <2>2. handlers'[at[u]] = handlers[at[u]]
    BY <1>0, <2>1, Elsewhere
  <2>3. \A c \in Channels : ShardOf[c] = at[u] =>
          published'[c] = published[c] /\ dropped'[c] = dropped[c]
    BY <2>1, Elsewhere
  <2>4. DoneHere(u)
    BY DEF DoneInv
  <2>5. AtKey(u)' = AtKey(u) /\ Made(u)' = Made(u)
    BY <1>1, <2>2 DEF AtKey, Made
  <2> QED
    BY <1>1, <2>2, <2>3, <2>4, <2>5, Zenon DEF DoneHere
<1>3. CASE ~ Inside(u)
  BY <1>1, <1>3 DEF Inside, DoneHere
<1> QED
  BY <1>2, <1>3

LEMMA DoneByThread ==
  ASSUME IndInv, HandoffInv, DoneInv, NEW t \in Threads, Step(t)
  PROVE  DoneHere(t)'
<1> DEFINE r == req[t]
           s == at[t]
<1>0. /\ pc \in [Threads -> Labels] /\ at \in [Threads -> Shards] /\ s \in Shards
      /\ handlers \in [Shards -> SUBSET [channel : Channels, id : Ids, sub : Nat]]
  BY DEF IndInv, TypeOK
<1>1. DoneHere(t)
  BY DEF DoneInv
<1>2. CASE Lock(t)
  <2>1. pc'[t] \in {"push", "eraseHandler", "eraseHandlers", "count", "read", "clearSubscribers"}
    <3>1. r.kind \in ChannelCalls \cup SweepingCalls
      BY RequestFields DEF IndInv, TypeOK
    <3> QED
      BY <1>0, <1>2, <3>1 DEF Lock, Enter, Goto, ChannelCalls, SweepingCalls
  <2> QED
    BY <2>1 DEF DoneHere
<1>3. CASE Unlock(t) \/ PushMessage(t) \/ Fire(t)
  <2>1. pc'[t] \in {"lock", "idle", "fire"}
    BY <1>0, <1>3 DEF Unlock, PushMessage, Fire, Goto
  <2> QED
    BY <2>1 DEF DoneHere
<1>4. CASE FireDone(t) \/ Look(t)
  <2>1. pc'[t] = "unlock" /\ req' = req /\ r.kind \in {"publish", "count", "getMessages", "statistics"}
    BY <1>0, <1>4 DEF FireDone, Look, Count, Read, Goto, IndInv, PhaseInv, HandoffInv, ReachInv
  <2> QED
    BY <2>1 DEF DoneHere
<1>5. ASSUME req' = req, at' = at, AtKey(t)' = {}, r.kind \in {"subscribe", "describe"},
             \/ pc'[t] \in {"eraseSubscriber", "insertSubscriber", "insertHandler"}
             \/ pc'[t] = "unlock" /\ r.kind = "describe"
      PROVE  DoneHere(t)'
  BY <1>5 DEF DoneHere
<1>6. CASE EraseHandler(t)
  <2>1. /\ req' = req /\ at' = at /\ r.kind \in {"subscribe", "describe"} /\ pc[t] = "eraseHandler"
    BY <1>6 DEF EraseHandler, IndInv, PhaseInv
  <2>2. CASE <<r.id, r.channel>> \in subscribers[s]
    <3>1. pc'[t] = "eraseSubscriber"
      BY <1>0, <1>6, <2>2 DEF EraseHandler, Goto
    <3>2. handlers'[s] = {h \in handlers[s] : ~ (h.channel = r.channel /\ h.id = r.id)}
      BY <1>0, <1>6, <2>2 DEF EraseHandler
    <3>3. AtKey(t)' = {}
      BY <2>1, <3>2 DEF AtKey
    <3> QED
      BY <1>5, <2>1, <3>1, <3>3
  <2>3. CASE <<r.id, r.channel>> \notin subscribers[s]
    <3>1. handlers' = handlers /\ pc'[t] = Described(t)
      BY <1>0, <1>6, <2>3 DEF EraseHandler, Goto
    <3>2. subscribers[s] = Keys(s)
      BY <2>1, AgreeHere DEF IndInv, Inside, InTransit
    <3>3. AtKey(t)' = {}
      BY <2>1, <2>3, <3>1, <3>2 DEF AtKey, Keys
    <3> QED
      BY <1>5, <2>1, <3>1, <3>3 DEF Described
  <2> QED
    BY <2>2, <2>3
<1>7. CASE EraseSubscriber(t)
  <2>1. /\ req' = req /\ at' = at /\ r.kind \in {"subscribe", "describe"}
        /\ pc[t] = "eraseSubscriber" /\ handlers' = handlers /\ pc'[t] = Described(t)
    BY <1>0, <1>7 DEF EraseSubscriber, Goto, IndInv, PhaseInv
  <2>2. AtKey(t)' = {}
    BY <1>1, <2>1 DEF DoneHere, AtKey
  <2> QED
    BY <1>5, <2>1, <2>2 DEF Described
<1>8. CASE InsertSubscriber(t)
  <2>1. /\ req' = req /\ at' = at /\ r.kind = "subscribe"
        /\ pc[t] = "insertSubscriber" /\ handlers' = handlers /\ pc'[t] = "insertHandler"
    BY <1>0, <1>8 DEF InsertSubscriber, Goto, IndInv, PhaseInv
  <2>2. AtKey(t)' = {}
    BY <1>1, <2>1 DEF DoneHere, AtKey
  <2> QED
    BY <1>5, <2>1, <2>2
<1>9. CASE InsertHandler(t)
  <2>1. /\ req' = req /\ at' = at /\ mine' = mine /\ r.kind = "subscribe"
        /\ pc[t] = "insertHandler" /\ pc'[t] = "copy"
    BY <1>0, <1>9 DEF InsertHandler, Goto, IndInv, PhaseInv
  <2>2. AtKey(t) = {}
    BY <1>1, <2>1 DEF DoneHere
  <2>3. ~ \E h \in handlers[s] : h.channel = r.channel /\ h.id = r.id
    BY <2>2 DEF AtKey
  <2>4. handlers'[s] = handlers[s] \cup {Made(t)}
    BY <1>0, <1>9, <2>3 DEF InsertHandler, Made
  <2>5. Made(t)' = Made(t) /\ Made(t).channel = r.channel /\ Made(t).id = r.id
    BY <2>1 DEF Made
  <2>6. AtKey(t)' = {Made(t)'}
    BY <2>1, <2>3, <2>4, <2>5, Zenon DEF AtKey
  <2> QED
    BY <2>1, <2>6 DEF DoneHere
<1>10. CASE CopyMessages(t)
  <2>1. /\ req' = req /\ at' = at /\ mine' = mine /\ r.kind = "subscribe"
        /\ pc[t] = "copy" /\ pc'[t] = "unlock" /\ handlers' = handlers
    BY <1>0, <1>10 DEF CopyMessages, Goto, registryVars, IndInv, PhaseInv
  <2>2. AtKey(t)' = {Made(t)'}
    BY <1>1, <2>1 DEF DoneHere, AtKey, Made
  <2> QED
    BY <2>1, <2>2 DEF DoneHere
<1>11. CASE EraseHandlers(t)
  <2>1. /\ req' = req /\ at' = at /\ r.kind = "describeAll"
        /\ pc[t] = "eraseHandlers" /\ pc'[t] = "eraseSubscribers"
        /\ handlers'[s] = {h \in handlers[s] : ~ (h.id = r.id /\ <<h.id, h.channel>> \in subscribers[s])}
    BY <1>0, <1>11 DEF EraseHandlers, Goto, IndInv, PhaseInv
  <2>2. subscribers[s] = Keys(s)
    BY <2>1, AgreeHere DEF IndInv, Inside, InTransit
  <2>3. \A h \in handlers'[s] : h.id # r.id
    BY <2>1, <2>2 DEF Keys
  <2> QED
    BY <2>1, <2>3 DEF DoneHere
<1>12. CASE EraseSubscribers(t)
  <2>1. /\ req' = req /\ at' = at /\ r.kind = "describeAll"
        /\ pc[t] = "eraseSubscribers" /\ pc'[t] = "unlock" /\ handlers' = handlers
    BY <1>0, <1>12 DEF EraseSubscribers, Goto, IndInv, PhaseInv
  <2> QED
    BY <1>1, <2>1 DEF DoneHere
<1>13. CASE ClearSubscribers(t)
  <2>1. pc'[t] = "clearHandlers"
    BY <1>0, <1>13 DEF ClearSubscribers, Goto
  <2> QED
    BY <2>1 DEF DoneHere
<1>14. CASE ClearHandlers(t)
  <2>1. at' = at /\ pc'[t] = "clearChannels" /\ handlers'[s] = {}
    BY <1>0, <1>14 DEF ClearHandlers, Goto
  <2> QED
    BY <2>1 DEF DoneHere
<1>15. CASE ClearChannels(t)
  <2>1. /\ req' = req /\ at' = at /\ r.kind = "reset" /\ pc[t] = "clearChannels"
        /\ pc'[t] = "unlock" /\ handlers' = handlers /\ published' = published
        /\ \A c \in Channels : ShardOf[c] = s => dropped'[c] = published[c]
    BY <1>0, <1>15 DEF ClearChannels, Goto, registryVars, HandoffInv, ReachInv
  <2> QED
    BY <1>1, <2>1 DEF DoneHere
<1> QED
  BY <1>2, <1>3, <1>4, <1>6, <1>7, <1>8, <1>9, <1>10, <1>11, <1>12, <1>13, <1>14, <1>15,
     StepKinds DEF Clear

LEMMA BeginDone ==
  ASSUME IndInv, DoneInv, NEW t \in Threads, NEW r \in Requests, Begin(t, r)
  PROVE  DoneInv'
<1>0. pc \in [Threads -> Labels] /\ req \in [Threads -> Requests] /\ at \in [Threads -> Shards]
  BY DEF IndInv, TypeOK
<1>1. /\ UNCHANGED <<mine, handlers, published, dropped>>
      /\ pc'[t] = "lock"
      /\ \A u \in Threads : u # t => pc'[u] = pc[u] /\ req'[u] = req[u] /\ at'[u] = at[u]
  BY <1>0 DEF Begin, Goto, registryVars, messageVars
<1> SUFFICES ASSUME NEW u \in Threads
             PROVE  DoneHere(u)'
  BY Zenon DEF DoneInv
<1>2. CASE u = t
  BY <1>1, <1>2 DEF DoneHere
<1>3. CASE u # t
  <2>1. DoneHere(u)
    BY DEF DoneInv
  <2>2. pc'[u] = pc[u] /\ req'[u] = req[u] /\ at'[u] = at[u]
    BY <1>1, <1>3
  <2>3. AtKey(u)' = AtKey(u) /\ Made(u)' = Made(u)
    BY <1>1, <2>2 DEF AtKey, Made
  <2> QED
    BY <1>1, <2>1, <2>2, <2>3, Zenon DEF DoneHere
<1> QED
  BY <1>2, <1>3

LEMMA NextDone == IndInv /\ HandoffInv /\ DoneInv /\ [Next]_vars => DoneInv'
<1> SUFFICES ASSUME IndInv, HandoffInv, DoneInv, [Next]_vars PROVE DoneInv'
  OBVIOUS
<1>1. ASSUME NEW t \in Threads, NEW r \in Requests, Begin(t, r)
      PROVE  DoneInv'
  BY <1>1, BeginDone
<1>2. ASSUME NEW t \in Threads, Step(t)
      PROVE  DoneInv'
  <2> SUFFICES ASSUME NEW u \in Threads
               PROVE  DoneHere(u)'
    BY Zenon DEF DoneInv
  <2> QED
    BY <1>2, DoneElsewhere, DoneByThread
<1>3. CASE UNCHANGED vars
  BY <1>3 DEF vars, threadVars, registryVars, messageVars, DoneInv, DoneHere, AtKey, Made
<1> QED
  BY <1>1, <1>2, <1>3 DEF Next, Quiet

(***************************************************************************)
(* A call has always done to the handlers and the queues of its shard what *)
(* it says by the step it is at, whatever other threads did in between.    *)
(***************************************************************************)
THEOREM DoneInvariance == Spec => []DoneInv
<1>1. Init => DoneInv
  BY DEF Init, DoneInv, DoneHere
<1> QED
  BY <1>1, NextDone, Invariance, HandoffInvariance, PTL DEF Spec

-----------------------------------------------------------------------------
(***************************************************************************)
(* The refinement mapping, case by case.  A shard whose mutex is free is   *)
(* what it is; the thread inside a shard decides what it will be.          *)
(***************************************************************************)
SettledQueues ==
  /\ \A c \in Channels : owner[ShardOf[c]] = None =>
       PublishedSettled(c) = published[c] /\ DroppedSettled(c) = dropped[c]
  /\ \A t \in Threads, c \in Channels : Inside(t) /\ ShardOf[c] = at[t] =>
       IF pc[t] = "push" /\ req[t].channel = c
       THEN PublishedSettled(c) = published[c] + 1 /\ DroppedSettled(c) = Cut(c)
       ELSE /\ PublishedSettled(c) = published[c]
            /\ DroppedSettled(c) = IF req[t].kind = "reset" THEN published[c] ELSE dropped[c]

\* What a subscription that is being made will start with, and one whose handler is to be
\* called will be.
Copied(t) == [from |-> From(req[t].channel), got |-> Held(req[t].channel)]

Coming(t, h) ==
  /\ h \in handlers[at[t]]
  /\ h.channel = req[t].channel
  /\ pc[t] = "push" \/ (pc[t] = "fire" /\ h.id > last[t])

Given(t, h) == [stream[h.sub] EXCEPT !.got = Append(@, PublishedSettled(req[t].channel))]

Plain(n) ==
  /\ \A t \in Threads : ~ (Making(t) /\ mine[t] = n)
  /\ \A t \in Threads : \A h \in handlers[at[t]] : ~ (Coming(t, h) /\ h.sub = n)

SettledStreams ==
  /\ \A t \in Threads : Making(t) => StreamSettled(mine[t]) = Copied(t)
  /\ \A t \in Threads : \A h \in handlers[at[t]] : Coming(t, h) => StreamSettled(h.sub) = Given(t, h)
  /\ \A n \in DOMAIN stream : Plain(n) => StreamSettled(n) = stream[n]

LEMMA QueuesSettle == IndInv => SettledQueues
<1> SUFFICES ASSUME IndInv PROVE SettledQueues
  OBVIOUS
<1>1. ASSUME NEW t \in Threads, pc[t] = "push"
      PROVE  Inside(t) /\ req[t].kind = "publish" /\ at[t] = ShardOf[req[t].channel]
  BY <1>1 DEF IndInv, PhaseInv, Inside, ChannelCalls
<1>2. \A t \in Threads : Inside(t) => owner[at[t]] = t /\ t # None
  BY NoneAssumption DEF IndInv, MutexInv
<1>3. ASSUME NEW c \in Channels, owner[ShardOf[c]] = None
      PROVE  PublishedSettled(c) = published[c] /\ DroppedSettled(c) = dropped[c]
  <2>1. ~ AboutToPush(c)
    BY <1>1, <1>2, <1>3 DEF AboutToPush
  <2> QED
    BY <1>3, <2>1 DEF PublishedSettled, DroppedSettled
<1>4. ASSUME NEW t \in Threads, NEW c \in Channels, Inside(t), ShardOf[c] = at[t]
      PROVE  IF pc[t] = "push" /\ req[t].channel = c
             THEN PublishedSettled(c) = published[c] + 1 /\ DroppedSettled(c) = Cut(c)
             ELSE /\ PublishedSettled(c) = published[c]
                  /\ DroppedSettled(c) = IF req[t].kind = "reset" THEN published[c] ELSE dropped[c]
  <2>1. owner[ShardOf[c]] = t /\ t # None
    BY <1>2, <1>4
  <2>2. AboutToPush(c) <=> pc[t] = "push" /\ req[t].channel = c
    BY <1>1, <1>2, <2>1 DEF AboutToPush
  <2> QED
    BY <2>1, <2>2 DEF PublishedSettled, DroppedSettled
<1> QED
  BY <1>3, <1>4 DEF SettledQueues

LEMMA MakingIsCopying ==
  ASSUME IndInv, HandoffInv, NEW t \in Threads
  PROVE  Making(t) <=> req[t].kind = "subscribe" /\ pc[t] \notin {"idle", "lock", "unlock"}
<1>1. pc[t] \in Labels
  BY DEF IndInv, TypeOK
<1> QED
  BY <1>1 DEF Making, Labels, IndInv, PhaseInv, HandoffInv, ReachInv

\* Who is to be called, and who is being made.
LEMMA ComingAlone ==
  ASSUME IndInv, HandoffInv, NEW t \in Threads, NEW h \in handlers[at[t]], Coming(t, h)
  PROVE  /\ Inside(t) /\ req[t].kind = "publish" /\ ShardOf[h.channel] = at[t]
         /\ h.sub \in 1 .. Len(stream)
         /\ \A u \in Threads : \A g \in handlers[at[u]] :
              Coming(u, g) /\ g.sub = h.sub => u = t /\ g = h
         /\ \A u \in Threads : ~ (Making(u) /\ mine[u] = h.sub)
<1>0. \A u \in Threads : at[u] \in Shards
  BY DEF IndInv, TypeOK
<1>1. \A u \in Threads : \A g \in handlers[at[u]] : Coming(u, g) =>
        Inside(u) /\ req[u].kind = "publish" /\ ShardOf[g.channel] = at[u]
  BY DEF Coming, Inside, IndInv, PhaseInv, ChannelCalls
<1>2. h.sub \in 1 .. Len(stream)
  BY <1>0 DEF HandoffInv, NumberInv
<1>3. ASSUME NEW u \in Threads, NEW g \in handlers[at[u]], Coming(u, g), g.sub = h.sub
      PROVE  u = t /\ g = h
  <2>1. g = h
    BY <1>0, <1>3 DEF HandoffInv, NumberInv
  <2>2. at[u] = at[t] /\ Inside(t) /\ Inside(u)
    BY <1>1, <1>3, <2>1
  <2> QED
    BY <2>1, <2>2, AloneInside DEF IndInv
<1>4. ASSUME NEW u \in Threads, Making(u), mine[u] = h.sub
      PROVE  FALSE
  <2>1. pc[u] = "copy" /\ h.channel = req[u].channel
    BY <1>0, <1>4 DEF HandoffInv, NumberInv
  <2>2. at[u] = ShardOf[h.channel] /\ Inside(u) /\ req[u].kind = "subscribe"
    BY <1>4, <2>1 DEF IndInv, PhaseInv, Making, Inside, ChannelCalls
  <2>3. u = t
    BY <1>1, <2>2, AloneInside DEF IndInv
  <2> QED
    BY <1>1, <2>2, <2>3
<1> QED
  BY <1>1, <1>2, <1>3, <1>4

LEMMA StreamsSettle == IndInv /\ HandoffInv => SettledStreams
<1> SUFFICES ASSUME IndInv, HandoffInv PROVE SettledStreams
  OBVIOUS
<1> DEFINE copying(n) == {t \in Threads : /\ mine[t] = n
                                          /\ req[t].kind = "subscribe"
                                          /\ pc[t] \notin {"idle", "lock", "unlock"}}
           coming(n) == {t \in Threads : \E h \in handlers[at[t]] :
                           /\ h.sub = n
                           /\ h.channel = req[t].channel
                           /\ pc[t] = "push" \/ (pc[t] = "fire" /\ h.id > last[t])}
<1>1. \A n : \A t \in Threads : t \in copying(n) <=> Making(t) /\ mine[t] = n
  BY MakingIsCopying
<1>2. \A n : \A t \in Threads :
        t \in coming(n) <=> \E h \in handlers[at[t]] : Coming(t, h) /\ h.sub = n
  BY DEF Coming
<1>3. \A n : StreamSettled(n) =
        IF copying(n) # {} THEN Copied(CHOOSE t \in copying(n) : TRUE)
        ELSE IF coming(n) # {}
        THEN [stream[n] EXCEPT !.got = Append(@, PublishedSettled(req[CHOOSE t \in coming(n) : TRUE].channel))]
        ELSE stream[n]
  BY Zenon DEF StreamSettled, Copied
<1>4. \A n : copying(n) \subseteq Threads /\ coming(n) \subseteq Threads
  OBVIOUS
<1> HIDE DEF copying, coming
<1>5. ASSUME NEW t \in Threads, Making(t)
      PROVE  StreamSettled(mine[t]) = Copied(t)
  <2>1. t \in copying(mine[t]) /\ \A u \in copying(mine[t]) : u = t
    BY <1>1, <1>4, <1>5, Zenon DEF HandoffInv, NumberInv
  <2>2. (CHOOSE u \in copying(mine[t]) : TRUE) = t
    BY <2>1, Zenon
  <2> QED
    BY <1>3, <2>1, <2>2, Zenon
<1>6. ASSUME NEW t \in Threads, NEW h \in handlers[at[t]], Coming(t, h)
      PROVE  StreamSettled(h.sub) = Given(t, h)
  <2>1. copying(h.sub) = {}
    BY <1>1, <1>4, <1>6, ComingAlone
  <2>2. t \in coming(h.sub) /\ \A u \in coming(h.sub) : u = t
    BY <1>2, <1>4, <1>6, ComingAlone
  <2>3. (CHOOSE u \in coming(h.sub) : TRUE) = t
    BY <2>2, Zenon
  <2> QED
    BY <1>3, <2>1, <2>2, <2>3, Zenon DEF Given
<1>7. ASSUME NEW n \in DOMAIN stream, Plain(n)
      PROVE  StreamSettled(n) = stream[n]
  <2>1. copying(n) = {} /\ coming(n) = {}
    BY <1>1, <1>2, <1>4, <1>7 DEF Plain
  <2> QED
    BY <1>3, <2>1, Zenon
<1> QED
  BY <1>5, <1>6, <1>7 DEF SettledStreams

\* The same of the state after a step.
LEMMA SettleNext == IndInv' /\ HandoffInv' => SettledQueues' /\ SettledStreams'
BY QueuesSettle, StreamsSettle, PTL

\* What the handlers of the shard a thread is in will be when its call is through.
After(t) ==
  IF req[t].kind = "subscribe" THEN (handlers[at[t]] \ AtKey(t)) \cup {Made(t)}
  ELSE IF req[t].kind = "describe" THEN handlers[at[t]] \ AtKey(t)
  ELSE IF req[t].kind = "describeAll" THEN {h \in handlers[at[t]] : h.id # req[t].id}
  ELSE IF req[t].kind = "reset" THEN {}
  ELSE handlers[at[t]]

SettledHandlers ==
  /\ \A s \in Shards : owner[s] = None => HandlersSettled(s) = handlers[s]
  /\ \A t \in Threads : Inside(t) => HandlersSettled(at[t]) = After(t)

LEMMA HandlersSettle == IndInv => SettledHandlers
<1> SUFFICES ASSUME IndInv PROVE SettledHandlers
  OBVIOUS
<1>1. ASSUME NEW s \in Shards, owner[s] = None
      PROVE  HandlersSettled(s) = handlers[s]
  BY <1>1 DEF HandlersSettled
<1>2. ASSUME NEW t \in Threads, Inside(t)
      PROVE  HandlersSettled(at[t]) = After(t)
  <2> DEFINE s == at[t]
             r == req[t]
             others == {h \in handlers[s] : ~ (h.id = r.id /\ h.channel = r.channel)}
  <2>1. owner[s] = t /\ t # None
    BY <1>2, NoneAssumption DEF IndInv, MutexInv
  <2>2. others = handlers[s] \ AtKey(t)
    BY Zenon DEF AtKey
  <2> HIDE DEF others
  <2>3. CASE r.kind = "subscribe"
    BY <2>1, <2>2, <2>3 DEF HandlersSettled, After, Made, others
  <2>4. CASE r.kind = "describe"
    BY <2>1, <2>2, <2>4 DEF HandlersSettled, After, others
  <2>5. CASE r.kind = "describeAll"
    BY <2>1, <2>5 DEF HandlersSettled, After
  <2>6. CASE r.kind = "reset"
    BY <2>1, <2>6 DEF HandlersSettled, After
  <2>7. CASE r.kind \notin {"subscribe", "describe", "describeAll", "reset"}
    BY <2>1, <2>7 DEF HandlersSettled, After
  <2> QED
    BY <2>3, <2>4, <2>5, <2>6, <2>7
<1> QED
  BY <1>1, <1>2 DEF SettledHandlers

LEMMA HandlersSettleNext == IndInv' => SettledHandlers'
BY HandlersSettle, PTL

-----------------------------------------------------------------------------
(***************************************************************************)
(* Every step of a call but that which takes the mutex is a stutter.       *)
(***************************************************************************)
LEMMA StayInside ==
  ASSUME IndInv, NEW t \in Threads, Step(t), ~ Lock(t), ~ Unlock(t)
  PROVE  /\ Inside(t) /\ Inside(t)' /\ pc'[t] # "push"
         /\ UNCHANGED <<req, at, mine, owner>>
<1>0. pc \in [Threads -> Labels]
  BY DEF IndInv, TypeOK
<1>1. Inside(t) /\ UNCHANGED <<req, at, mine, owner>>
  BY SMTT(90) DEF Step, Inside, PushMessage, Fire, FireDone, EraseHandler, EraseSubscriber,
         InsertSubscriber, InsertHandler, CopyMessages, EraseHandlers, EraseSubscribers,
         Look, Count, Read, Clear, ClearSubscribers, ClearHandlers, ClearChannels
<1>2. pc'[t] \notin {"idle", "lock", "push"}
  BY <1>0 DEF Step, Goto, Described, PushMessage, Fire, FireDone, EraseHandler, EraseSubscriber,
              InsertSubscriber, InsertHandler, CopyMessages, EraseHandlers, EraseSubscribers,
              Look, Count, Read, Clear, ClearSubscribers, ClearHandlers, ClearChannels
<1> QED
  BY <1>1, <1>2 DEF Inside

LEMMA UnlockFields ==
  ASSUME IndInv, NEW t \in Threads, Unlock(t)
  PROVE  /\ Inside(t) /\ pc[t] = "unlock" /\ ~ Inside(t)'
         /\ owner'[at[t]] = None
         /\ UNCHANGED <<req, last, mine, handlers, published, dropped, stream>>
<1>0. pc \in [Threads -> Labels] /\ owner \in [Shards -> Threads \cup {None}] /\ at[t] \in Shards
  BY DEF IndInv, TypeOK
<1>1. pc'[t] \in {"lock", "idle"}
  BY <1>0 DEF Unlock, Goto
<1> QED
  BY <1>0, <1>1 DEF Unlock, Inside, registryVars, messageVars

\* Which thread owns a shard t is not at.
LEMMA OwnerElsewhere ==
  ASSUME IndInv, NEW t \in Threads, Step(t), NEW s \in Shards, s # at[t]
  PROVE  \/ owner[s] = None /\ owner'[s] = None
         \/ \E u \in Threads : u # t /\ at[u] = s /\ at'[u] = s /\ Inside(u) /\ Inside(u)'
<1>1. owner'[s] = owner[s]
  BY Elsewhere
<1>2. CASE owner[s] # None
  <2>1. PICK u \in Threads : at[u] = s /\ Inside(u)
    BY <1>2 DEF IndInv, MutexInv, TypeOK
  <2>2. u # t
    BY <2>1
  <2>3. at'[u] = s /\ Inside(u)'
    BY <2>1, <2>2, Elsewhere DEF Inside
  <2> QED
    BY <2>1, <2>2, <2>3
<1> QED
  BY <1>1, <1>2

LEMMA QueuesElsewhere ==
  ASSUME IndInv, IndInv', NEW t \in Threads, Step(t), NEW c \in Channels, ShardOf[c] # at[t]
  PROVE  /\ PublishedSettled(c)' = PublishedSettled(c)
         /\ DroppedSettled(c)' = DroppedSettled(c)
<1> DEFINE s == ShardOf[c]
<1>1. s \in Shards
  BY ShardsAssumption
<1>2. SettledQueues /\ SettledQueues'
  <2>1. IndInv' => SettledQueues'
    BY QueuesSettle, PTL
  <2> QED
    BY <2>1, QueuesSettle
<1>3. req' = req /\ published'[c] = published[c] /\ dropped'[c] = dropped[c]
  BY Elsewhere
<1>4. Cut(c)' = Cut(c)
  BY <1>3 DEF Cut
<1>5. CASE owner[s] = None /\ owner'[s] = None
  BY <1>2, <1>3, <1>5 DEF SettledQueues
<1>6. ASSUME NEW u \in Threads, u # t, at[u] = s, at'[u] = s, Inside(u), Inside(u)'
      PROVE  /\ PublishedSettled(c)' = PublishedSettled(c)
             /\ DroppedSettled(c)' = DroppedSettled(c)
  <2>1. pc'[u] = pc[u]
    BY <1>6, Elsewhere
  <2> QED
    BY <1>2, <1>3, <1>4, <1>6, <2>1 DEF SettledQueues
<1> QED
  BY <1>1, <1>5, <1>6, OwnerElsewhere

LEMMA QueuesKept ==
  ASSUME IndInv, HandoffInv, DoneInv, IndInv', NEW t \in Threads, Step(t), ~ Lock(t),
         NEW c \in Channels
  PROVE  /\ PublishedSettled(c)' = PublishedSettled(c)
         /\ DroppedSettled(c)' = DroppedSettled(c)
<1>0. pc \in [Threads -> Labels] /\ published \in [Channels -> Nat] /\ dropped \in [Channels -> Nat]
      /\ req[t].channel \in Channels
  BY RequestFields DEF IndInv, TypeOK
<1>1. CASE ShardOf[c] # at[t]
  BY <1>1, QueuesElsewhere
<1>2. ASSUME ShardOf[c] = at[t]
      PROVE  /\ PublishedSettled(c)' = PublishedSettled(c)
             /\ DroppedSettled(c)' = DroppedSettled(c)
  <2>1. SettledQueues /\ SettledQueues'
    <3>1. IndInv' => SettledQueues'
      BY QueuesSettle, PTL
    <3> QED
      BY <3>1, QueuesSettle
  <2>2. Inside(t)
    BY StayInside, UnlockFields
  <2>3. CASE Unlock(t)
    <3>1. PublishedSettled(c)' = published[c] /\ DroppedSettled(c)' = dropped[c]
      BY <1>2, <2>1, <2>3, UnlockFields DEF SettledQueues
    <3>2. PublishedSettled(c) = published[c]
          /\ DroppedSettled(c) = IF req[t].kind = "reset" THEN published[c] ELSE dropped[c]
      BY <1>2, <2>1, <2>2, <2>3, UnlockFields DEF SettledQueues
    <3>3. req[t].kind = "reset" => dropped[c] = published[c]
      BY <1>2, <2>3, UnlockFields DEF DoneInv, DoneHere
    <3> QED
      BY <3>1, <3>2, <3>3
  <2>4. ASSUME ~ Unlock(t)
        PROVE  /\ Inside(t)' /\ pc'[t] # "push" /\ at' = at /\ req' = req
               /\ PublishedSettled(c)' = published'[c]
               /\ DroppedSettled(c)' = IF req[t].kind = "reset" THEN published'[c] ELSE dropped'[c]
    <3>1. Inside(t)' /\ pc'[t] # "push" /\ at' = at /\ req' = req
      BY <2>4, StayInside
    <3> QED
      BY <1>2, <2>1, <3>1 DEF SettledQueues
  <2>5. CASE PushMessage(t)
    <3>1. pc[t] = "push" /\ ~ Unlock(t) /\ req[t].kind = "publish"
      BY <2>5 DEF PushMessage, Unlock, IndInv, PhaseInv
    <3>2. CASE req[t].channel = c
      <4>1. published'[c] = published[c] + 1 /\ dropped'[c] = Cut(c)
        BY <1>0, <2>5, <3>2 DEF PushMessage
      <4> QED
        BY <1>2, <2>1, <2>2, <2>4, <3>1, <3>2, <4>1 DEF SettledQueues
    <3>3. CASE req[t].channel # c
      <4>1. published'[c] = published[c] /\ dropped'[c] = dropped[c]
        BY <1>0, <2>5, <3>3 DEF PushMessage
      <4> QED
        BY <1>2, <2>1, <2>2, <2>4, <3>1, <3>3, <4>1 DEF SettledQueues
    <3> QED
      BY <3>2, <3>3
  <2>6. CASE Clear(t)
    <3>1. /\ pc[t] # "push" /\ ~ Unlock(t) /\ req[t].kind = "reset" /\ published' = published
      BY <2>6 DEF Clear, ClearSubscribers, ClearHandlers, ClearChannels, Unlock, messageVars,
                  HandoffInv, ReachInv
    <3> QED
      BY <1>2, <2>1, <2>2, <2>4, <3>1 DEF SettledQueues
  <2>7. CASE ~ Unlock(t) /\ ~ PushMessage(t) /\ ~ Clear(t)
    <3>1. pc[t] # "push" /\ published' = published /\ dropped' = dropped
      BY <2>7, StepKinds DEF Fire, FireDone, EraseHandler, EraseSubscriber, InsertSubscriber,
           InsertHandler, CopyMessages, EraseHandlers, EraseSubscribers, Look, Count, Read,
           messageVars
    <3> QED
      BY <1>2, <2>1, <2>2, <2>4, <2>7, <3>1 DEF SettledQueues
  <2> QED
    BY <2>3, <2>5, <2>6, <2>7
<1> QED
  BY <1>1, <1>2

LEMMA HandlersElsewhere ==
  ASSUME IndInv, IndInv', NEW t \in Threads, Step(t), NEW s \in Shards, s # at[t]
  PROVE  HandlersSettled(s)' = HandlersSettled(s)
<1>1. SettledHandlers /\ SettledHandlers'
  BY HandlersSettle, HandlersSettleNext
<1>2. req' = req /\ handlers'[s] = handlers[s]
  BY Elsewhere
<1>3. CASE owner[s] = None /\ owner'[s] = None
  BY <1>1, <1>2, <1>3 DEF SettledHandlers
<1>4. ASSUME NEW u \in Threads, u # t, at[u] = s, at'[u] = s, Inside(u), Inside(u)'
      PROVE  HandlersSettled(s)' = HandlersSettled(s)
  <2>1. mine'[u] = mine[u]
    BY <1>4, Elsewhere
  <2>2. HandlersSettled(s) = After(u) /\ HandlersSettled(s)' = After(u)'
    BY <1>1, <1>4 DEF SettledHandlers
  <2>3. AtKey(u)' = AtKey(u) /\ Made(u)' = Made(u)
    BY <1>2, <1>4, <2>1 DEF AtKey, Made
  <2>4. After(u)' = After(u)
    BY <1>2, <1>4, <2>3, Zenon DEF After
  <2> QED
    BY <2>2, <2>4
<1> QED
  BY <1>3, <1>4, OwnerElsewhere

LEMMA HandlersKept ==
  ASSUME IndInv, HandoffInv, DoneInv, IndInv', NEW t \in Threads, Step(t), ~ Lock(t),
         NEW s \in Shards
  PROVE  HandlersSettled(s)' = HandlersSettled(s)
<1> DEFINE r == req[t]
           H == handlers[at[t]]
<1>0. at[t] \in Shards /\ handlers \in [Shards -> SUBSET [channel : Channels, id : Ids, sub : Nat]]
  BY DEF IndInv, TypeOK
<1>1. CASE s # at[t]
  BY <1>1, HandlersElsewhere
<1>2. ASSUME s = at[t]
      PROVE  HandlersSettled(s)' = HandlersSettled(s)
  <2>1. SettledHandlers /\ SettledHandlers'
    BY HandlersSettle, HandlersSettleNext
  <2>2. HandlersSettled(s) = After(t)
    BY <1>2, <2>1, StayInside, UnlockFields DEF SettledHandlers
  <2>3. AtKey(t) \subseteq H /\ DoneHere(t)
    BY DEF AtKey, DoneInv
  <2>4. CASE Unlock(t)
    <3>1. HandlersSettled(s)' = H
      BY <1>2, <2>1, <2>4, UnlockFields DEF SettledHandlers
    <3>2. pc[t] = "unlock"
      BY <2>4, UnlockFields
    <3>3. CASE r.kind = "subscribe"
      <4>1. AtKey(t) = {Made(t)}
        BY <2>3, <3>2, <3>3 DEF DoneHere
      <4> QED
        BY <2>2, <2>3, <3>1, <3>3, <4>1, Zenon DEF After
    <3>4. CASE r.kind = "describe"
      <4>1. AtKey(t) = {}
        BY <2>3, <3>2, <3>4 DEF DoneHere
      <4> QED
        BY <2>2, <3>1, <3>4, <4>1 DEF After
    <3>5. CASE r.kind \in {"describeAll", "reset"}
      BY <2>2, <2>3, <3>1, <3>2, <3>5 DEF After, DoneHere
    <3>6. CASE r.kind \notin {"subscribe", "describe", "describeAll", "reset"}
      BY <2>2, <3>1, <3>6 DEF After
    <3> QED
      BY <3>3, <3>4, <3>5, <3>6
  <2>5. ASSUME ~ Unlock(t)
        PROVE  After(t)' = After(t)
    <3>1. UNCHANGED <<req, at, mine>> /\ Made(t)' = Made(t)
      BY <2>5, StayInside DEF Made
    <3>2. CASE handlers'[at[t]] = H
      <4>1. AtKey(t)' = AtKey(t)
        BY <3>1, <3>2 DEF AtKey
      <4> QED
        BY <3>1, <3>2, <4>1, Zenon DEF After
    <3>3. CASE EraseHandler(t) /\ handlers'[at[t]] # H
      <4>1. handlers'[at[t]] = {h \in H : ~ (h.channel = r.channel /\ h.id = r.id)}
            /\ r.kind \in {"subscribe", "describe"}
        BY <1>0, <3>3 DEF EraseHandler, IndInv, PhaseInv
      <4>2. handlers'[at[t]] = H \ AtKey(t) /\ AtKey(t)' = {}
        BY <3>1, <4>1 DEF AtKey
      <4> QED
        BY <3>1, <4>1, <4>2, Zenon DEF After
    <3>4. CASE InsertHandler(t) /\ handlers'[at[t]] # H
      <4>1. r.kind = "subscribe" /\ handlers'[at[t]] = H \cup {Made(t)}
        BY <1>0, <3>4 DEF InsertHandler, Made, IndInv, PhaseInv
      <4>2. AtKey(t) = {}
        BY <2>3, <3>4 DEF InsertHandler, DoneHere
      <4>3. AtKey(t)' = {Made(t)}
        <5>1. Made(t).channel = r.channel /\ Made(t).id = r.id
          BY DEF Made
        <5> QED
          BY <3>1, <4>1, <4>2, <5>1, Zenon DEF AtKey
      <4> QED
        BY <3>1, <4>1, <4>2, <4>3, Zenon DEF After
    <3>5. CASE EraseHandlers(t)
      <4>1. /\ r.kind = "describeAll"
            /\ handlers'[at[t]] = {h \in H : ~ (h.id = r.id /\ <<h.id, h.channel>> \in subscribers[at[t]])}
        BY <1>0, <3>5 DEF EraseHandlers, IndInv, PhaseInv
      <4> QED
        BY <3>1, <4>1 DEF After
    <3>6. CASE Clear(t)
      BY <3>1, <3>6 DEF Clear, ClearSubscribers, ClearHandlers, ClearChannels, After,
           HandoffInv, ReachInv
    <3>7. \/ handlers' = handlers
          \/ EraseHandler(t) \/ InsertHandler(t) \/ EraseHandlers(t) \/ Clear(t)
      BY <2>5, StepKinds DEF PushMessage, Fire, FireDone, EraseSubscriber, InsertSubscriber,
           CopyMessages, EraseSubscribers, Look, Count, Read, registryVars
    <3> QED
      BY <3>2, <3>3, <3>4, <3>5, <3>6, <3>7
  <2>6. CASE ~ Unlock(t)
    <3>1. Inside(t)' /\ at'[t] = s
      BY <1>2, <2>6, StayInside
    <3>2. HandlersSettled(s)' = After(t)'
      BY <2>1, <3>1 DEF SettledHandlers
    <3> QED
      BY <2>2, <2>5, <2>6, <3>2
  <2> QED
    BY <2>4, <2>6
<1> QED
  BY <1>1, <1>2

\* What the steps do to the streams, and to who is being made and who is to be called.
LEMMA MakingBack ==
  ASSUME IndInv, NEW t \in Threads, Step(t), ~ Lock(t), NEW u \in Threads, Making(u)'
  PROVE  Making(u) /\ mine'[u] = mine[u] /\ req' = req
<1>0. pc \in [Threads -> Labels]
  BY DEF IndInv, TypeOK
<1>1. CASE u # t
  BY <1>1, Elsewhere DEF Making
<1>2. CASE u = t
  <2>1. ~ Unlock(t)
    BY <1>2, UnlockFields DEF Making, Inside
  <2>2. Inside(t) /\ mine' = mine /\ req' = req
    BY <2>1, StayInside
  <2>3. req[t].kind = "subscribe"
    BY <1>2, <2>2, SMTT(90) DEF Making
  <2>4. pc[t] \in {"eraseHandler", "eraseSubscriber", "insertSubscriber", "insertHandler", "copy"}
    BY <1>0, <1>2, <2>1, <2>2, <2>3
       DEF Making, Step, Goto, Described, PushMessage, Fire, FireDone, EraseHandler,
           EraseSubscriber, InsertSubscriber, InsertHandler, CopyMessages, EraseHandlers,
           EraseSubscribers, Look, Count, Read, Clear, ClearSubscribers, ClearHandlers,
           ClearChannels, IndInv, PhaseInv
  <2> QED
    BY <1>2, <2>2, <2>3, <2>4 DEF Making
<1> QED
  BY <1>1, <1>2

LEMMA ComingBack ==
  ASSUME IndInv, HandoffInv, NEW t \in Threads, Step(t), ~ Lock(t),
         NEW u \in Threads, NEW h \in handlers'[at'[u]], Coming(u, h)'
  PROVE  h \in handlers[at[u]] /\ Coming(u, h) /\ at'[u] = at[u] /\ req' = req
<1>0. /\ pc \in [Threads -> Labels] /\ last \in [Threads -> Ids \cup {-1}]
      /\ at \in [Threads -> Shards]
  BY DEF IndInv, TypeOK
<1>1. CASE u # t
  <2>1. /\ req' = req /\ pc'[u] = pc[u] /\ at'[u] = at[u] /\ last'[u] = last[u]
    BY <1>1, Elsewhere
  <2>2. Inside(u)
    BY <2>1 DEF Coming, Inside
  <2>3. handlers'[at[u]] = handlers[at[u]]
    BY <1>0, <1>1, <2>2, StepApart, Elsewhere
  <2> QED
    BY <2>1, <2>3 DEF Coming
<1>2. CASE u = t
  <2>1. PushMessage(t) \/ Fire(t)
    BY <1>0, <1>2 DEF Coming, Step, Goto, Described, Unlock, FireDone, EraseHandler,
           EraseSubscriber, InsertSubscriber, InsertHandler, CopyMessages, EraseHandlers,
           EraseSubscribers, Look, Count, Read, Clear, ClearSubscribers, ClearHandlers,
           ClearChannels
  <2>2. UNCHANGED <<req, at, handlers>> /\ h \in handlers[at[t]] /\ h.channel = req[t].channel
    BY <1>2, <2>1 DEF Coming, PushMessage, Fire, registryVars
  <2>3. CASE PushMessage(t)
    BY <1>2, <2>2, <2>3 DEF PushMessage, Coming
  <2>4. CASE Fire(t)
    <3>1. PICK g \in Unserved(t) : last' = [last EXCEPT ![t] = g.id]
      BY <2>4 DEF Fire
    <3>2. last'[t] = g.id /\ g.id > last[t] /\ g \in handlers[at[t]]
      BY <1>0, <3>1 DEF Unserved
    <3>3. pc[t] = "fire" /\ pc' = pc /\ h.id > last'[t]
      BY <1>2, <2>4 DEF Fire, Coming
    <3>4. h.id \in Int /\ g.id \in Int /\ last[t] \in Int
      <4>1. at[t] \in Shards
        BY <1>0
      <4>2. last[t] \in Ids \/ last[t] = -1
        BY <1>0
      <4>3. last[t] \in Nat \/ last[t] = -1
        BY <4>2, IdsAssumption
      <4> QED
        BY <2>2, <3>2, <4>1, <4>3, HandlerElements
    <3>5. h.id > last[t]
      BY <3>2, <3>3, <3>4
    <3> QED
      BY <1>2, <2>2, <3>3, <3>5 DEF Coming
  <2> QED
    BY <2>1, <2>3, <2>4
<1> QED
  BY <1>1, <1>2

\* Fire gives one handler a message, CopyMessages fills one subscription, and that is all.
LEMMA FireGives ==
  ASSUME IndInv, HandoffInv, NEW t \in Threads, Fire(t)
  PROVE  \E g \in handlers[at[t]] :
           /\ Coming(t, g) /\ \A h \in handlers[at[t]] : Coming(t, h) => g.id <= h.id
           /\ last'[t] = g.id
           /\ stream'[g.sub] = Given(t, g)
           /\ \A n \in DOMAIN stream : n # g.sub => stream'[n] = stream[n]
<1>0. /\ last \in [Threads -> Ids \cup {-1}] /\ at[t] \in Shards /\ stream \in Seq(Streams)
      /\ req[t].channel \in Channels
  BY RequestFields DEF IndInv, TypeOK, Streams
<1>1. PICK g \in Unserved(t) :
        /\ \A f \in Unserved(t) : g.id <= f.id
        /\ last' = [last EXCEPT ![t] = g.id]
        /\ stream' = [stream EXCEPT ![g.sub].got = Append(@, published[g.channel])]
  BY DEF Fire
<1>2. pc[t] = "fire" /\ g \in handlers[at[t]] /\ Coming(t, g) /\ g.channel = req[t].channel
  BY DEF Fire, Unserved, Coming
<1>3. \A h \in handlers[at[t]] : Coming(t, h) => g.id <= h.id
  BY <1>1, <1>2 DEF Unserved, Coming
<1>4. last'[t] = g.id
  BY <1>0, <1>1
<1>5. PublishedSettled(req[t].channel) = published[g.channel]
  <2>1. SettledQueues /\ Inside(t) /\ ShardOf[req[t].channel] = at[t]
    BY <1>2, QueuesSettle DEF Inside, IndInv, PhaseInv, ChannelCalls
  <2> QED
    BY <1>0, <1>2, <2>1 DEF SettledQueues
<1>6. g.sub \in DOMAIN stream
  BY <1>0, <1>2 DEF HandoffInv, NumberInv
<1>7. stream' = [stream EXCEPT ![g.sub] = Given(t, g)]
  BY <1>1, <1>5, Zenon DEF Given
<1>8. stream'[g.sub] = Given(t, g) /\ \A n \in DOMAIN stream : n # g.sub => stream'[n] = stream[n]
  BY <1>6, <1>7
<1> QED
  BY <1>2, <1>3, <1>4, <1>8

LEMMA StreamTouched ==
  ASSUME IndInv, HandoffInv, NEW t \in Threads, Step(t), ~ Lock(t),
         NEW n \in DOMAIN stream, stream'[n] # stream[n]
  PROVE  \/ Fire(t) /\ \E g \in handlers[at[t]] : Coming(t, g) /\ g.sub = n
         \/ CopyMessages(t) /\ Making(t) /\ mine[t] = n
<1>1. CASE Fire(t)
  BY <1>1, FireGives
<1>2. CASE CopyMessages(t)
  BY <1>2 DEF CopyMessages, Making, IndInv, PhaseInv
<1>3. CASE ~ Fire(t) /\ ~ CopyMessages(t)
  BY <1>3 DEF Step, Unlock, PushMessage, FireDone, EraseHandler, EraseSubscriber, InsertSubscriber,
              InsertHandler, EraseHandlers, EraseSubscribers, Look, Count, Read, Clear,
              ClearSubscribers, ClearHandlers, ClearChannels, messageVars
<1> QED
  BY <1>1, <1>2, <1>3

\* A subscription that is being made will start with what its queue holds, until it does.
LEMMA MadeKept ==
  ASSUME IndInv, HandoffInv, IndInv', HandoffInv', NEW t \in Threads, Step(t), ~ Lock(t),
         NEW u \in Threads, Making(u)
  PROVE  StreamSettled(mine[u])' = StreamSettled(mine[u])
<1> DEFINE c == req[u].channel
           n == mine[u]
<1>0. /\ pc \in [Threads -> Labels] /\ stream \in Seq(Streams)
      /\ req[u].channel \in Channels /\ n \in DOMAIN stream
  BY RequestFields, SMTT(90) DEF IndInv, TypeOK, Streams, HandoffInv, NumberInv
<1>1. SettledStreams /\ SettledStreams'
  BY StreamsSettle, SettleNext
<1>2. StreamSettled(n) = Copied(u)
  BY <1>1 DEF SettledStreams
<1>3. req' = req /\ mine'[u] = n
  <2>1. CASE u # t
    BY <2>1, Elsewhere
  <2>2. CASE u = t
    BY <2>2, StayInside, UnlockFields
  <2> QED
    BY <2>1, <2>2
<1>4. CASE Making(u)'
  <2>1. published'[c] = published[c] /\ dropped'[c] = dropped[c]
    <3>1. CASE u # t
      <4>1. Inside(u) /\ ShardOf[c] = at[u]
        BY DEF Making, Inside, IndInv, PhaseInv, ChannelCalls
      <4> QED
        BY <1>0, <3>1, <4>1, StepApart, Elsewhere
    <3>2. CASE u = t
      BY <3>2 DEF Making, Step, Lock, Enter, Unlock, PushMessage, Fire, FireDone, EraseHandler,
                  EraseSubscriber, InsertSubscriber, InsertHandler, CopyMessages, EraseHandlers,
                  EraseSubscribers, Look, Count, Read, Clear, ClearSubscribers, ClearHandlers,
                  ClearChannels, messageVars
    <3> QED
      BY <3>1, <3>2
  <2>2. Copied(u)' = Copied(u)
    BY <1>3, <2>1 DEF Copied, From, Held
  <2>3. StreamSettled(n)' = Copied(u)'
    <3>1. StreamSettled(mine[u])' = Copied(u)'
      BY <1>1, <1>4 DEF SettledStreams
    <3> QED
      BY <3>1
  <2> QED
    BY <1>2, <2>2, <2>3
<1>5. CASE ~ Making(u)'
  <2>1. u = t /\ CopyMessages(t)
    <3>1. u = t
      BY <1>3, <1>5, Elsewhere DEF Making
    <3> QED
      BY <1>0, <1>5, <3>1
         DEF Making, Step, Goto, Described, Lock, Enter, Unlock, PushMessage, Fire, FireDone,
             EraseHandler, EraseSubscriber, InsertSubscriber, InsertHandler, CopyMessages,
             EraseHandlers, EraseSubscribers, Look, Count, Read, Clear, ClearSubscribers,
             ClearHandlers, ClearChannels
  <2>2. stream'[n] = Copied(u)
    BY <1>0, <2>1 DEF CopyMessages, Copied
  <2>3. DOMAIN stream' = DOMAIN stream
    BY <2>1 DEF CopyMessages
  <2>4. \A v \in Threads : ~ (Making(v)' /\ mine'[v] = n)
    <3> SUFFICES ASSUME NEW v \in Threads, Making(v)', mine'[v] = n
                 PROVE  FALSE
      OBVIOUS
    <3>1. Making(v) /\ mine[v] = n
      BY MakingBack
    <3>2. v = u
      BY <3>1 DEF HandoffInv, NumberInv
    <3> QED
      BY <1>5, <3>2
  <2>5. \A v \in Threads : \A h \in handlers'[at'[v]] : ~ (Coming(v, h)' /\ h.sub = n)
    <3> SUFFICES ASSUME NEW v \in Threads, NEW h \in handlers'[at'[v]], Coming(v, h)', h.sub = n
                 PROVE  FALSE
      OBVIOUS
    <3>1. h \in handlers[at[v]] /\ Coming(v, h)
      BY ComingBack
    <3> QED
      BY <3>1, ComingAlone
  <2>6. \A k \in DOMAIN stream : k = n => (Plain(k)' /\ StreamSettled(k)' = stream'[k])
    <3> SUFFICES ASSUME NEW k \in DOMAIN stream, k = n
                 PROVE  Plain(k)' /\ StreamSettled(k)' = stream'[k]
      OBVIOUS
    <3>1. Plain(k)'
      BY <2>4, <2>5 DEF Plain
    <3> QED
      BY <1>1, <2>3, <3>1 DEF SettledStreams
  <2> QED
    BY <1>0, <1>2, <1>3, <2>2, <2>6
<1> QED
  BY <1>4, <1>5

\* A handler that is to be called will have the message, until it has.
LEMMA GivenKept ==
  ASSUME IndInv, HandoffInv, DoneInv, IndInv', HandoffInv', NEW t \in Threads, Step(t), ~ Lock(t),
         NEW u \in Threads, NEW h \in handlers[at[u]], Coming(u, h),
         NEW n \in DOMAIN stream, n = h.sub, DOMAIN stream' = DOMAIN stream
  PROVE  StreamSettled(n)' = StreamSettled(n)
<1> DEFINE c == req[u].channel
<1>0. /\ at \in [Threads -> Shards] /\ last \in [Threads -> Ids \cup {-1}]
      /\ pc \in [Threads -> Labels] /\ c \in Channels
  BY RequestFields DEF IndInv, TypeOK
<1>1. SettledStreams /\ SettledStreams'
  BY StreamsSettle, SettleNext
<1>2. StreamSettled(n) = Given(u, h)
  BY <1>1 DEF SettledStreams
<1>3. /\ Inside(u) /\ req[u].kind = "publish" /\ ShardOf[h.channel] = at[u]
      /\ \A v \in Threads : \A g \in handlers[at[v]] : Coming(v, g) /\ g.sub = n => v = u /\ g = h
      /\ \A v \in Threads : ~ (Making(v) /\ mine[v] = n)
  BY ComingAlone
<1>4. ASSUME h \in handlers'[at'[u]], Coming(u, h)', ~ (Fire(t) /\ u = t /\ last'[t] = h.id)
      PROVE  StreamSettled(n)' = StreamSettled(n)
  <2>1. req' = req
    BY Elsewhere
  <2>2. stream'[n] = stream[n]
    <3>1. CASE Fire(t) /\ \E g \in handlers[at[t]] : Coming(t, g) /\ g.sub = n
      <4>1. u = t
        BY <1>3, <3>1
      <4>2. PICK g \in handlers[at[t]] :
              Coming(t, g) /\ last'[t] = g.id /\ \A k \in DOMAIN stream : k # g.sub => stream'[k] = stream[k]
        BY <3>1, FireGives
      <4>3. g # h
        BY <1>4, <3>1, <4>1, <4>2
      <4>4. g.sub # n
        BY <1>3, <4>2, <4>3
      <4> QED
        BY <4>2, <4>4
    <3>2. CASE CopyMessages(t) /\ Making(t) /\ mine[t] = n
      BY <1>3, <3>2
    <3> QED
      BY <3>1, <3>2, StreamTouched
  <2>3. PublishedSettled(c)' = PublishedSettled(c)
    <3>1. \A d \in Channels : PublishedSettled(d)' = PublishedSettled(d)
      BY QueuesKept
    <3>2. PICK d \in Channels : d = c
      BY <1>0
    <3>3. PublishedSettled(d)' = PublishedSettled(d)
      BY <3>1
    <3> QED
      BY <2>1, <3>2, <3>3
  <2>4. StreamSettled(h.sub)' = Given(u, h)'
    BY <1>1, <1>4 DEF SettledStreams
  <2>5. Given(u, h)' = Given(u, h)
    BY <2>1, <2>2, <2>3, Zenon DEF Given
  <2> QED
    BY <1>2, <2>4, <2>5
<1>5. CASE u # t
  <2>1. /\ req' = req /\ pc'[u] = pc[u] /\ at'[u] = at[u] /\ last'[u] = last[u]
        /\ handlers'[at[u]] = handlers[at[u]]
    BY <1>0, <1>3, <1>5, StepApart, Elsewhere
  <2>2. h \in handlers'[at'[u]] /\ Coming(u, h)'
    BY <2>1 DEF Coming
  <2> QED
    BY <1>4, <1>5, <2>2
<1>6. CASE u = t
  <2>0. /\ h \in handlers[at[t]] /\ Coming(t, h) /\ h.channel = req[t].channel
        /\ pc[t] = "push" \/ (pc[t] = "fire" /\ h.id > last[t])
        /\ h.id \in Int /\ h.id > -1
    BY <1>0, <1>6, HandlerElements DEF Coming
  <2>1. CASE PushMessage(t)
    <3>1. pc'[t] = "fire" /\ UNCHANGED <<req, at, last, handlers>> /\ last[t] = -1 /\ pc[t] = "push"
      BY <1>0, <2>1 DEF PushMessage, Goto, registryVars, HandoffInv, ReachInv
    <3>2. h \in handlers'[at'[u]] /\ Coming(u, h)'
      BY <1>6, <2>0, <3>1 DEF Coming
    <3>3. ~ Fire(t)
      BY <3>1 DEF Fire
    <3> QED
      BY <1>4, <3>2, <3>3
  <2>2. CASE Fire(t)
    <3>0. pc' = pc /\ UNCHANGED <<req, at, handlers>> /\ pc[t] = "fire"
      BY <2>2 DEF Fire, registryVars
    <3>1. PICK g \in handlers[at[t]] :
            /\ Coming(t, g) /\ g.id <= h.id
            /\ last'[t] = g.id
            /\ stream'[g.sub] = Given(t, g)
      BY <2>0, <2>2, FireGives
    <3>2. CASE g = h
      <4>1. stream'[n] = Given(u, h)
        BY <1>6, <3>1, <3>2
      <4>2. \A v \in Threads : ~ (Making(v)' /\ mine'[v] = n)
        <5> SUFFICES ASSUME NEW v \in Threads, Making(v)', mine'[v] = n
                     PROVE  FALSE
          OBVIOUS
        <5> QED
          BY <1>3, MakingBack
      <4>3. \A v \in Threads : \A k \in handlers'[at'[v]] : ~ (Coming(v, k)' /\ k.sub = n)
        <5> SUFFICES ASSUME NEW v \in Threads, NEW k \in handlers'[at'[v]], Coming(v, k)', k.sub = n
                     PROVE  FALSE
          OBVIOUS
        <5>1. k \in handlers[at[v]] /\ Coming(v, k)
          BY ComingBack
        <5>2. v = t /\ k = h
          BY <1>3, <1>6, <5>1
        <5>3. pc'[t] = "fire" /\ last'[t] = h.id
          BY <3>0, <3>1, <3>2
        <5>4. h.id > last'[t]
          BY <5>2, <5>3 DEF Coming
        <5> QED
          BY <2>0, <5>3, <5>4
      <4>4. Plain(n)'
        BY <4>2, <4>3 DEF Plain
      <4>5. StreamSettled(n)' = stream'[n]
        BY <1>1, <4>4 DEF SettledStreams
      <4> QED
        BY <1>2, <4>1, <4>5
    <3>3. CASE g # h
      <4>1. g.channel = h.channel /\ g.id \in Int /\ h.id \in Int
        BY <1>0, <2>0, <3>1, HandlerElements DEF Coming
      <4>2. g.id # h.id
        BY <1>0, <2>0, <3>3, <4>1 DEF IndInv, HandlersInv
      <4>3. h.id > last'[t] /\ last'[t] # h.id
        BY <3>1, <4>1, <4>2
      <4>4. h \in handlers'[at'[u]] /\ Coming(u, h)'
        BY <1>6, <2>0, <3>0, <4>3 DEF Coming
      <4> QED
        BY <1>4, <4>3, <4>4
    <3> QED
      BY <3>2, <3>3
  <2>3. PushMessage(t) \/ Fire(t)
    <3>1. ~ FireDone(t)
      <4> SUFFICES ASSUME FireDone(t) PROVE FALSE
        OBVIOUS
      <4>1. pc[t] = "fire" /\ Unserved(t) = {}
        BY DEF FireDone
      <4>2. h \in Unserved(t)
        BY <2>0, <4>1 DEF Unserved
      <4> QED
        BY <4>1, <4>2
    <3> QED
      BY <2>0, <3>1 DEF Step, Unlock, EraseHandler, EraseSubscriber, InsertSubscriber,
         InsertHandler, CopyMessages, EraseHandlers, EraseSubscribers, Look, Count, Read, Clear,
         ClearSubscribers, ClearHandlers, ClearChannels
  <2> QED
    BY <2>1, <2>2, <2>3
<1> QED
  BY <1>5, <1>6

LEMMA StreamsKept ==
  ASSUME IndInv, HandoffInv, DoneInv, IndInv', HandoffInv', NEW t \in Threads, Step(t), ~ Lock(t)
  PROVE  /\ DOMAIN stream' = DOMAIN stream
         /\ \A n \in DOMAIN stream : StreamSettled(n)' = StreamSettled(n)
<1>1. DOMAIN stream' = DOMAIN stream
  <2>1. stream \in Seq(Streams) /\ stream' \in Seq(Streams)
    BY DEF IndInv, TypeOK, Streams
  <2> QED
    BY <2>1, StreamLength
<1>2. ASSUME NEW n \in DOMAIN stream
      PROVE  StreamSettled(n)' = StreamSettled(n)
  <2>1. ASSUME NEW u \in Threads, Making(u), mine[u] = n
        PROVE  StreamSettled(n)' = StreamSettled(n)
    <3>1. mine'[u] = n
      <4>1. CASE u # t
        BY <2>1, <4>1, Elsewhere
      <4>2. CASE u = t
        BY <2>1, <4>2, StayInside, UnlockFields
      <4> QED
        BY <4>1, <4>2
    <3>2. StreamSettled(mine[u])' = StreamSettled(mine[u])
      BY <2>1, MadeKept
    <3> QED
      BY <2>1, <3>1, <3>2
  <2>2. ASSUME NEW u \in Threads, NEW h \in handlers[at[u]], Coming(u, h), h.sub = n
        PROVE  StreamSettled(n)' = StreamSettled(n)
    BY <1>1, <2>2, GivenKept
  <2>3. CASE Plain(n)
    <3>1. SettledStreams /\ SettledStreams'
      BY StreamsSettle, SettleNext
    <3>2. stream'[n] = stream[n]
      <4> SUFFICES ASSUME stream'[n] # stream[n] PROVE FALSE
        OBVIOUS
      <4> QED
        BY <2>3, StreamTouched DEF Plain
    <3>3. \A v \in Threads : ~ (Making(v)' /\ mine'[v] = n)
      <4> SUFFICES ASSUME NEW v \in Threads, Making(v)', mine'[v] = n
                   PROVE  FALSE
        OBVIOUS
      <4> QED
        BY <2>3, MakingBack DEF Plain
    <3>4. \A v \in Threads : \A k \in handlers'[at'[v]] : ~ (Coming(v, k)' /\ k.sub = n)
      <4> SUFFICES ASSUME NEW v \in Threads, NEW k \in handlers'[at'[v]], Coming(v, k)', k.sub = n
                   PROVE  FALSE
        OBVIOUS
      <4> QED
        BY <2>3, ComingBack DEF Plain
    <3>5. Plain(n)'
      BY <3>3, <3>4 DEF Plain
    <3>6. StreamSettled(n)' = stream'[n]
      BY <1>1, <3>1, <3>5 DEF SettledStreams
    <3> QED
      BY <2>3, <3>1, <3>2, <3>6 DEF SettledStreams
  <2> QED
    BY <2>1, <2>2, <2>3 DEF Plain
<1> QED
  BY <1>1, <1>2

LEMMA StepStutters ==
  ASSUME IndInv, HandoffInv, DoneInv, IndInv', HandoffInv', NEW t \in Threads, Step(t), ~ Lock(t)
  PROVE  UNCHANGED Settled!vars
<1>1. (UNION {HandlersSettled(s) : s \in Shards})' = UNION {HandlersSettled(s) : s \in Shards}
  <2>1. \A s \in Shards : HandlersSettled(s)' = HandlersSettled(s)
    BY HandlersKept
  <2>2. {HandlersSettled(s) : s \in Shards}' = {HandlersSettled(s) : s \in Shards}
    BY <2>1, Zenon
  <2> QED
    BY <2>2
<1>2. \A c \in Channels : /\ PublishedSettled(c)' = PublishedSettled(c)
                          /\ DroppedSettled(c)' = DroppedSettled(c)
  BY QueuesKept
<1>3. [c \in Channels |-> PublishedSettled(c)]' = [c \in Channels |-> PublishedSettled(c)]
  BY <1>2, Zenon
<1>4. [c \in Channels |-> DroppedSettled(c)]' = [c \in Channels |-> DroppedSettled(c)]
  BY <1>2, Zenon
<1>5. [n \in DOMAIN stream |-> StreamSettled(n)]' = [n \in DOMAIN stream |-> StreamSettled(n)]
  BY StreamsKept
<1> QED
  BY <1>1, <1>3, <1>4, <1>5, Zenon DEF Settled!vars

\* What is not to be seen from outside a shard: nothing changes but threads that hold no mutex.
LEMMA UnseenSteps ==
  ASSUME IndInv, HandoffInv, IndInv', HandoffInv',
         UNCHANGED <<owner, handlers, published, dropped, stream>>,
         \A u \in Threads :
           IF Inside(u) THEN /\ pc'[u] = pc[u] /\ req'[u] = req[u] /\ at'[u] = at[u]
                             /\ last'[u] = last[u] /\ mine'[u] = mine[u]
                        ELSE pc'[u] \in {"idle", "lock"}
  PROVE  UNCHANGED Settled!vars
<1>0. \A u \in Threads : pc[u] \in Labels /\ at[u] \in Shards
  BY DEF IndInv, TypeOK
<1>1. \A u \in Threads : Inside(u)' <=> Inside(u)
  BY DEF Inside
<1>2. \A s \in Shards : owner[s] = None \/ \E u \in Threads : Inside(u) /\ at[u] = s
  BY DEF IndInv, TypeOK, MutexInv
<1>3. /\ SettledQueues /\ SettledQueues' /\ SettledHandlers /\ SettledHandlers'
      /\ SettledStreams /\ SettledStreams'
  BY QueuesSettle, HandlersSettle, StreamsSettle, SettleNext, HandlersSettleNext
<1>4. ASSUME NEW c \in Channels
      PROVE  PublishedSettled(c)' = PublishedSettled(c) /\ DroppedSettled(c)' = DroppedSettled(c)
  <2>1. Cut(c)' = Cut(c)
    BY DEF Cut
  <2>2. CASE owner[ShardOf[c]] = None
    BY <1>3, <2>2 DEF SettledQueues
  <2>3. ASSUME NEW u \in Threads, Inside(u), at[u] = ShardOf[c]
        PROVE  PublishedSettled(c)' = PublishedSettled(c) /\ DroppedSettled(c)' = DroppedSettled(c)
    <3>1. Inside(u)' /\ at'[u] = ShardOf[c] /\ pc'[u] = pc[u] /\ req'[u] = req[u]
      BY <1>1, <2>3
    <3> QED
      BY <1>3, <2>1, <2>3, <3>1 DEF SettledQueues
  <2>4. ShardOf[c] \in Shards
    BY ShardsAssumption
  <2> QED
    BY <1>2, <2>2, <2>3, <2>4
<1>5. ASSUME NEW s \in Shards
      PROVE  HandlersSettled(s)' = HandlersSettled(s)
  <2>1. CASE owner[s] = None
    BY <1>3, <2>1 DEF SettledHandlers
  <2>2. ASSUME NEW u \in Threads, Inside(u), at[u] = s
        PROVE  HandlersSettled(s)' = HandlersSettled(s)
    <3>1. Inside(u)' /\ at'[u] = s /\ req'[u] = req[u] /\ mine'[u] = mine[u]
      BY <1>1, <2>2
    <3>2. AtKey(u)' = AtKey(u) /\ Made(u)' = Made(u)
      BY <2>2, <3>1 DEF AtKey, Made
    <3>3. After(u)' = After(u)
      BY <2>2, <3>1, <3>2, Zenon DEF After
    <3> QED
      BY <1>3, <2>2, <3>1, <3>3 DEF SettledHandlers
  <2> QED
    BY <1>2, <2>1, <2>2
<1>6. ASSUME NEW n \in DOMAIN stream
      PROVE  StreamSettled(n)' = StreamSettled(n)
  <2>1. \A u \in Threads : Making(u)' <=> Making(u)
    BY <1>1 DEF Making, Inside
  <2>2. ASSUME NEW u \in Threads
        PROVE  \A h : /\ h \in handlers[at[u]] /\ Coming(u, h) => h \in handlers'[at'[u]] /\ Coming(u, h)'
                      /\ h \in handlers'[at'[u]] /\ Coming(u, h)' => h \in handlers[at[u]] /\ Coming(u, h)
    <3>1. CASE Inside(u)
      BY <3>1 DEF Coming
    <3>2. CASE ~ Inside(u)
      BY <3>2 DEF Coming, Inside
    <3> QED
      BY <3>1, <3>2
  <2>3. ASSUME NEW u \in Threads, Making(u), mine[u] = n
        PROVE  StreamSettled(n)' = StreamSettled(n)
    <3>1. Making(u)' /\ mine'[u] = n /\ req'[u] = req[u]
      BY <2>1, <2>3, MakingInside
    <3>2. Copied(u)' = Copied(u)
      BY <3>1 DEF Copied, From, Held
    <3>3. StreamSettled(mine[u])' = Copied(u)'
      BY <1>3, <3>1 DEF SettledStreams
    <3> QED
      BY <1>3, <2>3, <3>1, <3>2, <3>3 DEF SettledStreams
  <2>4. ASSUME NEW u \in Threads, NEW h \in handlers[at[u]], Coming(u, h), h.sub = n
        PROVE  StreamSettled(n)' = StreamSettled(n)
    <3>1. Inside(u) /\ req'[u] = req[u] /\ req[u].channel \in Channels
      BY <2>4, ComingAlone, RequestFields DEF IndInv, TypeOK
    <3>2. \A d \in Channels : PublishedSettled(d)' = PublishedSettled(d)
      BY <1>4
    <3>3. Given(u, h)' = Given(u, h)
      <4>1. PICK d \in Channels : d = req[u].channel
        BY <3>1
      <4>2. PublishedSettled(d)' = PublishedSettled(d)
        BY <3>2
      <4> QED
        BY <3>1, <4>1, <4>2, Zenon DEF Given
    <3>4. StreamSettled(h.sub)' = Given(u, h)'
      BY <1>3, <2>2, <2>4 DEF SettledStreams
    <3> QED
      BY <1>3, <2>4, <3>3, <3>4 DEF SettledStreams
  <2>5. CASE Plain(n)
    <3>1. Plain(n)'
      BY <2>1, <2>2, <2>5, MakingInside DEF Plain
    <3> QED
      BY <1>3, <2>5, <3>1 DEF SettledStreams
  <2> QED
    BY <2>3, <2>4, <2>5 DEF Plain
<1>7. (UNION {HandlersSettled(s) : s \in Shards})' = UNION {HandlersSettled(s) : s \in Shards}
  <2>1. {HandlersSettled(s) : s \in Shards}' = {HandlersSettled(s) : s \in Shards}
    BY <1>5, Zenon
  <2> QED
    BY <2>1
<1>8. /\ [c \in Channels |-> PublishedSettled(c)]' = [c \in Channels |-> PublishedSettled(c)]
      /\ [c \in Channels |-> DroppedSettled(c)]' = [c \in Channels |-> DroppedSettled(c)]
  BY <1>4, Zenon
<1>9. [n \in DOMAIN stream |-> StreamSettled(n)]' = [n \in DOMAIN stream |-> StreamSettled(n)]
  BY <1>6
<1> QED
  BY <1>7, <1>8, <1>9, Zenon DEF Settled!vars

LEMMA BeginStutters ==
  ASSUME IndInv, HandoffInv, IndInv', HandoffInv', NEW t \in Threads, NEW r \in Requests, Begin(t, r)
  PROVE  UNCHANGED Settled!vars
<1>0. pc \in [Threads -> Labels] /\ req \in [Threads -> Requests] /\ at \in [Threads -> Shards]
  BY DEF IndInv, TypeOK
<1>1. UNCHANGED <<owner, handlers, published, dropped, stream, last, mine>>
  BY DEF Begin, registryVars, messageVars
<1>2. /\ ~ Inside(t) /\ pc'[t] = "lock"
      /\ \A u \in Threads : u # t => pc'[u] = pc[u] /\ req'[u] = req[u] /\ at'[u] = at[u]
  BY <1>0 DEF Begin, Goto, Inside
<1> QED
  BY <1>1, <1>2, UnseenSteps DEF Inside

-----------------------------------------------------------------------------
(***************************************************************************)
(* A call takes effect when its thread gets the mutex.                     *)
(***************************************************************************)
Fresh == [from |-> 0, got |-> <<>>]

LEMMA LockFields ==
  ASSUME IndInv, NEW t \in Threads, Lock(t)
  PROVE  /\ at[t] \in Shards /\ owner[at[t]] = None /\ ~ Inside(t) /\ Inside(t)'
         /\ UNCHANGED <<req, at, handlers, published, dropped>>
         /\ req[t].kind \in ChannelCalls \cup SweepingCalls
         /\ req[t].channel \in Channels /\ req[t].id \in Ids
         /\ req[t].kind \in ChannelCalls => at[t] = ShardOf[req[t].channel]
         /\ pc'[t] # "fire" /\ (pc'[t] = "push" <=> req[t].kind = "publish")
         /\ Making(t)' <=> req[t].kind = "subscribe"
         /\ req[t].kind = "subscribe" => /\ stream' = Append(stream, Fresh)
                                         /\ mine'[t] = Len(stream) + 1
         /\ req[t].kind # "subscribe" => stream' = stream
<1>0. /\ pc \in [Threads -> Labels] /\ mine \in [Threads -> Nat] /\ at[t] \in Shards
      /\ req[t].kind \in ChannelCalls \cup SweepingCalls
      /\ req[t].channel \in Channels /\ req[t].id \in Ids
  BY RequestFields DEF IndInv, TypeOK
<1>1. pc[t] = "lock" /\ owner[at[t]] = None /\ UNCHANGED <<req, at, handlers, published, dropped>>
  BY DEF Lock, Enter, registryVars
<1>2. pc'[t] = CASE req[t].kind = "publish" -> "push"
                 [] req[t].kind \in {"subscribe", "describe"} -> "eraseHandler"
                 [] req[t].kind = "describeAll" -> "eraseHandlers"
                 [] req[t].kind = "count" -> "count"
                 [] req[t].kind \in {"getMessages", "statistics"} -> "read"
                 [] req[t].kind = "reset" -> "clearSubscribers"
  BY <1>0 DEF Lock, Enter, Goto
<1>3. /\ pc'[t] \in {"push", "eraseHandler", "eraseHandlers", "count", "read", "clearSubscribers"}
      /\ pc'[t] = "push" <=> req[t].kind = "publish"
      /\ pc'[t] = "eraseHandler" <=> req[t].kind \in {"subscribe", "describe"}
  BY <1>0, <1>2 DEF ChannelCalls, SweepingCalls
<1>4. Making(t)' <=> req[t].kind = "subscribe"
  BY <1>1, <1>3 DEF Making
<1>5. /\ req[t].kind = "subscribe" => stream' = Append(stream, Fresh) /\ mine'[t] = Len(stream) + 1
      /\ req[t].kind # "subscribe" => stream' = stream
  BY <1>0 DEF Lock, Enter, Fresh
<1>6. req[t].kind \in ChannelCalls => at[t] = ShardOf[req[t].channel]
  BY <1>1 DEF IndInv, PhaseInv
<1> QED
  BY <1>0, <1>1, <1>3, <1>4, <1>5, <1>6 DEF Inside

LEMMA LockQueues ==
  ASSUME IndInv, IndInv', NEW t \in Threads, Lock(t), NEW c \in Channels
  PROVE  /\ ShardOf[c] = at[t] => PublishedSettled(c) = published[c] /\ DroppedSettled(c) = dropped[c]
         /\ PublishedSettled(c)' = IF req[t].kind = "publish" /\ req[t].channel = c
                                   THEN PublishedSettled(c) + 1 ELSE PublishedSettled(c)
         /\ DroppedSettled(c)' = IF req[t].kind = "publish" /\ req[t].channel = c THEN Cut(c)
                                 ELSE IF req[t].kind = "reset" /\ ShardOf[c] = at[t]
                                 THEN PublishedSettled(c) ELSE DroppedSettled(c)
<1>1. Step(t)
  BY DEF Step
<1>2. CASE ShardOf[c] # at[t]
  <2>1. ~ (req[t].kind = "publish" /\ req[t].channel = c)
    BY <1>2, LockFields DEF ChannelCalls
  <2>2. PublishedSettled(c)' = PublishedSettled(c) /\ DroppedSettled(c)' = DroppedSettled(c)
    BY <1>1, <1>2, QueuesElsewhere
  <2> QED
    BY <1>2, <2>1, <2>2
<1>3. CASE ShardOf[c] = at[t]
  <2>1. SettledQueues /\ SettledQueues'
    <3>1. IndInv' => SettledQueues'
      BY QueuesSettle, PTL
    <3> QED
      BY <3>1, QueuesSettle
  <2>2. PublishedSettled(c) = published[c] /\ DroppedSettled(c) = dropped[c]
    BY <1>3, <2>1, LockFields DEF SettledQueues
  <2>3. /\ Inside(t)' /\ at'[t] = ShardOf[c] /\ req' = req /\ published' = published /\ dropped' = dropped
        /\ pc'[t] = "push" <=> req[t].kind = "publish"
    BY <1>3, LockFields
  <2>4. Cut(c)' = Cut(c)
    BY <2>3 DEF Cut
  <2>5. IF req[t].kind = "publish" /\ req[t].channel = c
        THEN PublishedSettled(c)' = published[c] + 1 /\ DroppedSettled(c)' = Cut(c)
        ELSE /\ PublishedSettled(c)' = published[c]
             /\ DroppedSettled(c)' = IF req[t].kind = "reset" THEN published[c] ELSE dropped[c]
    BY <2>1, <2>3, <2>4 DEF SettledQueues
  <2> QED
    BY <1>3, <2>2, <2>5
<1> QED
  BY <1>2, <1>3

\* The subscriptions in force, and those in force in a shard.
Registered == UNION {HandlersSettled(s) : s \in Shards}

LEMMA SettledShard ==
  ASSUME IndInv, NEW s \in Shards, NEW h \in HandlersSettled(s)
  PROVE  ShardOf[h.channel] = s /\ h.channel \in Channels
<1>1. SettledHandlers
  BY HandlersSettle
<1>2. \A g \in handlers[s] : ShardOf[g.channel] = s /\ g.channel \in Channels
  BY HandlerElements DEF IndInv, HandlersInv
<1>3. CASE owner[s] = None
  BY <1>1, <1>2, <1>3 DEF SettledHandlers
<1>4. ASSUME NEW u \in Threads, Inside(u), at[u] = s
      PROVE  ShardOf[h.channel] = s /\ h.channel \in Channels
  <2>1. h \in After(u)
    BY <1>1, <1>4 DEF SettledHandlers
  <2>2. CASE h \in handlers[s]
    BY <1>2, <2>2
  <2>3. CASE req[u].kind = "subscribe" /\ h = Made(u)
    <3>1. h.channel = req[u].channel
      BY <2>3 DEF Made
    <3>2. at[u] = ShardOf[req[u].channel] /\ req[u].channel \in Channels
      BY <1>4, <2>3, RequestFields DEF IndInv, TypeOK, PhaseInv, Inside, ChannelCalls
    <3> QED
      BY <1>4, <3>1, <3>2
  <2> QED
    BY <1>4, <2>1, <2>2, <2>3 DEF After
<1>5. owner[s] = None \/ \E u \in Threads : Inside(u) /\ at[u] = s
  BY DEF IndInv, TypeOK, MutexInv
<1> QED
  BY <1>3, <1>4, <1>5

\* How getting the mutex changes who is subscribed: in the shard only, to what After says.
LEMMA LockRegistered ==
  ASSUME IndInv, IndInv', NEW t \in Threads, Lock(t)
  PROVE  /\ \A h : h \in Registered /\ ShardOf[h.channel] = at[t] <=> h \in handlers[at[t]]
         /\ \A h : h \in Registered' <=> \/ h \in After(t)'
                                         \/ h \in Registered /\ ShardOf[h.channel] # at[t]
<1>1. Step(t) /\ at[t] \in Shards
  BY LockFields DEF Step
<1>2. ASSUME NEW s \in Shards, s = at[t]
      PROVE  HandlersSettled(s) = handlers[s] /\ HandlersSettled(s)' = After(t)'
  <2>1. SettledHandlers /\ SettledHandlers'
    BY HandlersSettle, HandlersSettleNext
  <2>2. owner[s] = None /\ Inside(t)' /\ at'[t] = s
    BY <1>2, LockFields
  <2> QED
    BY <2>1, <2>2 DEF SettledHandlers
<1>3. \A s \in Shards : s # at[t] => HandlersSettled(s)' = HandlersSettled(s)
  BY <1>1, HandlersElsewhere
<1>4. \A h : h \in Registered <=> \E s \in Shards : h \in HandlersSettled(s)
  BY DEF Registered
<1>5. \A h : h \in Registered' <=> \E s \in Shards : h \in HandlersSettled(s)'
  BY DEF Registered
<1>6. \A s \in Shards : \A h \in HandlersSettled(s) : ShardOf[h.channel] = s
  BY SettledShard
<1>7. \A h : h \in Registered /\ ShardOf[h.channel] = at[t] <=> h \in handlers[at[t]]
  BY <1>1, <1>2, <1>4, <1>6
<1>8. ASSUME NEW h
      PROVE  h \in Registered' <=> \/ h \in After(t)'
                                   \/ h \in Registered /\ ShardOf[h.channel] # at[t]
  <2>1. PICK s \in Shards : s = at[t]
    BY <1>1
  <2>2. HandlersSettled(s)' = After(t)'
    BY <1>2, <2>1
  <2>3. h \in Registered' => h \in After(t)' \/ (h \in Registered /\ ShardOf[h.channel] # at[t])
    BY <1>3, <1>4, <1>5, <1>6, <2>1, <2>2
  <2>4. h \in After(t)' => h \in Registered'
    BY <1>5, <2>2
  <2>5. h \in Registered /\ ShardOf[h.channel] # at[t] => h \in Registered'
    BY <1>3, <1>4, <1>5, <1>6
  <2> QED
    BY <2>3, <2>4, <2>5
<1> QED
  BY <1>7, <1>8

\* The handlers a publication is to be given to.
Addressed(t, n) ==
  req[t].kind = "publish" /\ \E h \in handlers[at[t]] : h.sub = n /\ h.channel = req[t].channel

LEMMA LockElsewhere ==
  ASSUME IndInv, NEW t \in Threads, Lock(t), NEW u \in Threads, Inside(u)
  PROVE  /\ u # t /\ at[u] # at[t] /\ Inside(u)'
         /\ pc'[u] = pc[u] /\ at'[u] = at[u] /\ last'[u] = last[u] /\ mine'[u] = mine[u]
<1>1. Step(t) /\ u # t
  BY LockFields DEF Step
<1> QED
  BY <1>1, StepApart, Elsewhere DEF Inside

LEMMA LockStreams ==
  ASSUME IndInv, HandoffInv, IndInv', HandoffInv', NEW t \in Threads, Lock(t),
         NEW n \in DOMAIN stream
  PROVE  IF Addressed(t, n)
         THEN /\ StreamSettled(n) = stream[n]
              /\ StreamSettled(n)' = [stream[n] EXCEPT !.got = Append(@, published[req[t].channel] + 1)]
         ELSE StreamSettled(n)' = StreamSettled(n)
<1> DEFINE same == StreamSettled(n)' = StreamSettled(n)
<1>0. /\ stream \in Seq(Streams) /\ n \in 1 .. Len(stream) /\ Len(stream) \in Nat
      /\ \A u \in Threads : at[u] \in Shards
  BY SMTT(90) DEF IndInv, TypeOK, Streams
<1>1. SettledStreams /\ SettledStreams'
  BY StreamsSettle, SettleNext
<1>2. /\ ~ Inside(t) /\ Inside(t)' /\ at[t] \in Shards /\ req[t].channel \in Channels
      /\ UNCHANGED <<req, at, handlers, published, dropped>>
      /\ pc'[t] # "fire" /\ (pc'[t] = "push" <=> req[t].kind = "publish")
      /\ req[t].kind \in ChannelCalls => at[t] = ShardOf[req[t].channel]
  BY LockFields
<1>3. stream'[n] = stream[n] /\ n \in DOMAIN stream'
  <2>1. CASE req[t].kind = "subscribe"
    <3>1. stream' = Append(stream, Fresh) /\ Fresh \in Streams
      BY <2>1, LockFields DEF Fresh, Streams
    <3> QED
      BY <1>0, <3>1
  <2>2. CASE req[t].kind # "subscribe"
    BY <2>2, LockFields
  <2> QED
    BY <2>1, <2>2
<1>4. Step(t) /\ \A u \in Threads : u # t => pc'[u] = pc[u] /\ last'[u] = last[u] /\ mine'[u] = mine[u]
  BY Elsewhere DEF Step
<1>5. ASSUME NEW u \in Threads, Making(u), mine[u] = n
      PROVE  ~ Addressed(t, n) /\ same
  <2>1. /\ Inside(u) /\ u # t /\ at[u] # at[t]
        /\ pc'[u] = pc[u] /\ mine'[u] = n
    BY <1>5, MakingInside, LockElsewhere
  <2>2. ~ Addressed(t, n)
    <3> SUFFICES ASSUME NEW h \in handlers[at[t]], h.sub = n PROVE FALSE
      BY DEF Addressed
    <3>1. h.channel = req[u].channel /\ ShardOf[h.channel] = at[t]
      BY <1>2, <1>5 DEF HandoffInv, NumberInv, IndInv, HandlersInv
    <3>2. at[u] = ShardOf[req[u].channel]
      BY <1>5 DEF Making, IndInv, PhaseInv, ChannelCalls
    <3> QED
      BY <2>1, <3>1, <3>2
  <2>3. Making(u)' /\ Copied(u)' = Copied(u)
    BY <1>2, <1>5, <2>1 DEF Making, Copied, From, Held
  <2>4. StreamSettled(mine[u])' = Copied(u)'
    BY <1>1, <2>3 DEF SettledStreams
  <2>5. StreamSettled(n) = Copied(u)
    BY <1>1, <1>5 DEF SettledStreams
  <2> QED
    BY <2>1, <2>2, <2>3, <2>4, <2>5
<1>6. ASSUME NEW u \in Threads, NEW h \in handlers[at[u]], Coming(u, h), h.sub = n
      PROVE  ~ Addressed(t, n) /\ same
  <2>1. Inside(u) /\ req[u].kind = "publish" /\ ShardOf[h.channel] = at[u] /\ h.channel = req[u].channel
    BY <1>6, ComingAlone DEF Coming
  <2>2. /\ u # t /\ at[u] # at[t] /\ pc'[u] = pc[u] /\ at'[u] = at[u] /\ last'[u] = last[u]
    BY <2>1, LockElsewhere
  <2>3. ~ Addressed(t, n)
    <3> SUFFICES ASSUME NEW g \in handlers[at[t]], g.sub = n PROVE FALSE
      BY DEF Addressed
    <3>1. g = h
      BY <1>0, <1>2, <1>6 DEF HandoffInv, NumberInv
    <3>2. ShardOf[g.channel] = at[t]
      BY <1>2 DEF IndInv, HandlersInv
    <3> QED
      BY <2>1, <2>2, <3>1, <3>2
  <2>4. h \in handlers'[at'[u]] /\ Coming(u, h)'
    BY <1>2, <1>6, <2>2 DEF Coming
  <2>5. PICK d \in Channels : d = req[u].channel
    BY RequestFields DEF IndInv, TypeOK
  <2>6. PublishedSettled(d)' = PublishedSettled(d)
    BY <1>4, <2>1, <2>2, <2>5, QueuesElsewhere
  <2>7. Given(u, h)' = Given(u, h)
    BY <1>2, <1>3, <1>6, <2>5, <2>6, Zenon DEF Given
  <2>8. StreamSettled(h.sub)' = Given(u, h)'
    BY <1>1, <2>4 DEF SettledStreams
  <2>9. StreamSettled(n) = Given(u, h)
    BY <1>1, <1>6 DEF SettledStreams
  <2> QED
    BY <1>6, <2>3, <2>7, <2>8, <2>9
<1>7. CASE Plain(n) /\ Addressed(t, n)
  <2>1. PICK h \in handlers[at[t]] : h.sub = n /\ h.channel = req[t].channel
    BY <1>7 DEF Addressed
  <2>2. pc'[t] = "push" /\ h \in handlers'[at'[t]] /\ Coming(t, h)'
    BY <1>2, <1>7, <2>1 DEF Coming, Addressed
  <2>3. PICK d \in Channels : d = req[t].channel
    BY <1>2
  <2>4. PublishedSettled(d)' = published[d] + 1
    BY <1>2, <1>7, <2>3, LockQueues DEF Addressed, ChannelCalls
  <2>5. StreamSettled(h.sub)' = Given(t, h)'
    BY <1>1, <2>2 DEF SettledStreams
  <2>6. Given(t, h)' = [stream[n] EXCEPT !.got = Append(@, published[req[t].channel] + 1)]
    BY <1>2, <1>3, <2>1, <2>3, <2>4, Zenon DEF Given
  <2>7. StreamSettled(n) = stream[n]
    BY <1>1, <1>7 DEF SettledStreams
  <2> QED
    BY <1>7, <2>1, <2>5, <2>6, <2>7
<1>8. CASE Plain(n) /\ ~ Addressed(t, n)
  <2>1. \A v \in Threads : ~ (Making(v)' /\ mine'[v] = n)
    <3> SUFFICES ASSUME NEW v \in Threads, Making(v)', mine'[v] = n
                 PROVE  FALSE
      OBVIOUS
    <3>1. CASE v # t
      BY <1>2, <1>4, <1>8, <3>1 DEF Plain, Making
    <3>2. CASE v = t
      BY <1>0, <3>2, LockFields
    <3> QED
      BY <3>1, <3>2
  <2>2. \A v \in Threads : \A k \in handlers'[at'[v]] : ~ (Coming(v, k)' /\ k.sub = n)
    <3> SUFFICES ASSUME NEW v \in Threads, NEW k \in handlers'[at'[v]], Coming(v, k)', k.sub = n
                 PROVE  FALSE
      OBVIOUS
    <3>1. CASE v # t
      BY <1>2, <1>4, <1>8, <3>1 DEF Plain, Coming
    <3>2. CASE v = t
      BY <1>2, <1>8, <3>2 DEF Coming, Addressed
    <3> QED
      BY <3>1, <3>2
  <2>3. Plain(n)'
    BY <2>1, <2>2 DEF Plain
  <2>4. StreamSettled(n)' = stream'[n] /\ StreamSettled(n) = stream[n]
    BY <1>1, <1>3, <1>8, <2>3 DEF SettledStreams
  <2> QED
    BY <1>3, <1>8, <2>4
<1> QED
  BY <1>5, <1>6, <1>7, <1>8 DEF Plain

\* The other variables of Broker under the refinement mapping.
PublishedMap == [c \in Channels |-> PublishedSettled(c)]
DroppedMap == [c \in Channels |-> DroppedSettled(c)]
StreamMap == [n \in DOMAIN stream |-> StreamSettled(n)]

LEMMA SameMax == \A S : Settled!Max(S) = Max(S)
BY DEF Settled!Max, Max

\* What is the same for all calls that publish nothing.
LEMMA LockKeepsPublished ==
  ASSUME IndInv, IndInv', NEW t \in Threads, Lock(t), req[t].kind # "publish"
  PROVE  PublishedMap' = PublishedMap
<1>1. \A c \in Channels : PublishedSettled(c)' = PublishedSettled(c)
  BY LockQueues
<1> QED
  BY <1>1, Zenon DEF PublishedMap

LEMMA LockKeepsDropped ==
  ASSUME IndInv, IndInv', NEW t \in Threads, Lock(t), req[t].kind \notin {"publish", "reset"}
  PROVE  DroppedMap' = DroppedMap
<1>1. \A c \in Channels : DroppedSettled(c)' = DroppedSettled(c)
  BY LockQueues
<1> QED
  BY <1>1, Zenon DEF DroppedMap

LEMMA LockKeepsStreams ==
  ASSUME IndInv, HandoffInv, IndInv', HandoffInv', NEW t \in Threads, Lock(t),
         req[t].kind \notin {"publish", "subscribe"}
  PROVE  StreamMap' = StreamMap
<1>1. DOMAIN stream' = DOMAIN stream
  BY LockFields
<1>2. \A n \in DOMAIN stream : StreamSettled(n)' = StreamSettled(n)
  BY LockStreams DEF Addressed
<1> QED
  BY <1>1, <1>2 DEF StreamMap

LEMMA LockPublishes ==
  ASSUME IndInv, HandoffInv, IndInv', HandoffInv', NEW t \in Threads, Lock(t),
         req[t].kind = "publish", NEW c \in Channels, c = req[t].channel
  PROVE  Settled!Publish(c)
<1>0. ShardOf[c] = at[t] /\ UNCHANGED <<req, at, handlers, stream>>
  BY LockFields DEF ChannelCalls
<1>1. PublishedSettled(c) = published[c] /\ DroppedSettled(c) = dropped[c]
  BY <1>0, LockQueues
<1>2. PublishedMap' = [PublishedMap EXCEPT ![c] = @ + 1]
  <2>1. \A d \in Channels : PublishedSettled(d)' = IF d = c THEN PublishedSettled(d) + 1 ELSE PublishedSettled(d)
    BY LockQueues
  <2> QED
    BY <2>1 DEF PublishedMap
<1>3. DroppedMap' = [DroppedMap EXCEPT ![c] = Settled!Max({@, PublishedMap[c] + 1 - CacheLimit})]
  <2>1. \A d \in Channels : DroppedSettled(d)' = IF d = c THEN Cut(c) ELSE DroppedSettled(d)
    BY LockQueues
  <2>2. Settled!Max({DroppedMap[c], PublishedMap[c] + 1 - CacheLimit}) = Cut(c)
    BY <1>1, SameMax DEF Cut, DroppedMap, PublishedMap
  <2> DEFINE cut == Settled!Max({DroppedMap[c], PublishedMap[c] + 1 - CacheLimit})
  <2>3. cut = Cut(c)
    BY <2>2
  <2> HIDE DEF cut
  <2>4. DroppedMap' = [DroppedMap EXCEPT ![c] = cut]
    BY <2>1, <2>3 DEF DroppedMap
  <2> QED
    BY <2>4, Zenon DEF cut
<1>4. \A n : (\E h \in Registered : h.sub = n /\ h.channel = c) <=> Addressed(t, n)
  BY <1>0, LockRegistered DEF Addressed
<1>5. StreamMap' = [n \in DOMAIN StreamMap |->
                      IF \E h \in Registered : h.sub = n /\ h.channel = c
                      THEN [StreamMap[n] EXCEPT !.got = Append(@, PublishedMap[c] + 1)]
                      ELSE StreamMap[n]]
  <2> DEFINE more(n) == [stream[n] EXCEPT !.got = Append(@, published[c] + 1)]
  <2>1. \A n \in DOMAIN stream :
          IF Addressed(t, n) THEN StreamSettled(n) = stream[n] /\ StreamSettled(n)' = more(n)
          ELSE StreamSettled(n)' = StreamSettled(n)
    BY LockStreams
  <2>2. \A n \in DOMAIN stream :
          StreamMap[n] = StreamSettled(n) /\ StreamMap'[n] = StreamSettled(n)'
    BY <1>0 DEF StreamMap
  <2>3. PublishedMap[c] = published[c]
    BY <1>1 DEF PublishedMap
  <2>4. \A n \in DOMAIN stream : Addressed(t, n) =>
          StreamMap'[n] = [StreamMap[n] EXCEPT !.got = Append(@, PublishedMap[c] + 1)]
    BY <2>1, <2>2, <2>3, Zenon
  <2>5. \A n \in DOMAIN stream : ~ Addressed(t, n) => StreamMap'[n] = StreamMap[n]
    BY <2>1, <2>2
  <2> HIDE DEF more
  <2> DEFINE next(n) == IF \E h \in Registered : h.sub = n /\ h.channel = c
                        THEN [StreamMap[n] EXCEPT !.got = Append(@, PublishedMap[c] + 1)]
                        ELSE StreamMap[n]
  <2>6. \A n \in DOMAIN stream : StreamMap'[n] = next(n)
    BY <1>4, <2>4, <2>5, Zenon
  <2> HIDE DEF next
  <2>7. StreamMap' = [n \in DOMAIN stream |-> StreamMap'[n]] /\ DOMAIN StreamMap = DOMAIN stream
    BY <1>0 DEF StreamMap
  <2>8. StreamMap' = [n \in DOMAIN StreamMap |-> next(n)]
    BY <2>6, <2>7
  <2> QED
    BY <2>8, Zenon DEF next
<1>6. Registered' = Registered
  <2>1. After(t)' = handlers[at[t]]
    BY <1>0 DEF After
  <2>2. \A h : h \in Registered' <=> h \in Registered
    BY <2>1, LockRegistered
  <2> QED
    BY <2>2
<1> QED
  BY <1>2, <1>3, <1>5, <1>6, Zenon
     DEF Settled!Publish, Settled!Subscribed, PublishedMap, DroppedMap, StreamMap, Registered

LEMMA SequenceOf ==
  ASSUME NEW n \in Nat, NEW f, f = [i \in 1 .. n |-> f[i]], NEW v
  PROVE  Len(f) = n /\ Append(f, v) = [i \in 1 .. n + 1 |-> IF i = n + 1 THEN v ELSE f[i]]
<1> DEFINE S == {f[i] : i \in 1 .. n} \cup {v}
<1>1. f \in [1 .. n -> S]
  OBVIOUS
<1>2. f \in Seq(S) /\ DOMAIN f = 1 .. n /\ v \in S
  BY <1>1
<1> HIDE DEF S
<1>3. Len(f) = n
  BY <1>2
<1> QED
  BY <1>2, <1>3

LEMMA LockSubscribes ==
  ASSUME IndInv, HandoffInv, IndInv', HandoffInv', NEW t \in Threads, Lock(t),
         req[t].kind = "subscribe",
         NEW c \in Channels, c = req[t].channel, NEW id \in Ids, id = req[t].id
  PROVE  Settled!Subscribe(id, c)
<1> DEFINE k == Len(stream)
           new == [channel |-> c, id |-> id, sub |-> k + 1]
           copy == [from |-> From(c), got |-> Held(c)]
<1>0. /\ ShardOf[c] = at[t] /\ UNCHANGED <<req, at, handlers, published, dropped>>
      /\ stream \in Seq(Streams) /\ k \in Nat /\ DOMAIN stream = 1 .. k
      /\ stream' = Append(stream, Fresh) /\ mine'[t] = k + 1 /\ Making(t)'
  <2>1. stream \in Seq(Streams)
    BY DEF IndInv, TypeOK, Streams
  <2> QED
    BY <2>1, LockFields DEF ChannelCalls
<1>1. PublishedSettled(c) = published[c] /\ DroppedSettled(c) = dropped[c]
  BY <1>0, LockQueues
<1>2. Settled!From(c) = From(c) /\ Settled!Held(c) = Held(c)
  <2>1. PublishedMap[c] = published[c] /\ DroppedMap[c] = dropped[c]
    BY <1>1 DEF PublishedMap, DroppedMap
  <2>2. Settled!From(c) = Settled!Max({DroppedMap[c], PublishedMap[c] - SnapshotLimit})
    BY Zenon DEF Settled!From, DroppedMap, PublishedMap
  <2>3. Settled!From(c) = From(c)
    BY <2>1, <2>2, SameMax DEF From
  <2>4. Settled!Held(c) = [i \in 1 .. PublishedMap[c] - Settled!From(c) |-> Settled!From(c) + i]
    BY Zenon DEF Settled!Held, PublishedMap
  <2> QED
    BY <2>1, <2>3, <2>4 DEF Held
<1>3. DOMAIN stream' = 1 .. k + 1
  <2>1. Fresh \in Streams
    BY DEF Fresh, Streams
  <2> QED
    BY <1>0, <2>1
<1>4. StreamMap' = Append(StreamMap, copy)
  <2>1. \A n \in 1 .. k : StreamSettled(n)' = StreamSettled(n)
    BY <1>0, LockStreams DEF Addressed
  <2>2. StreamSettled(mine[t])' = Copied(t)'
    BY <1>0, StreamsSettle, SettleNext DEF SettledStreams
  <2>3. Copied(t)' = copy
    BY <1>0 DEF Copied, From, Held
  <2>4. \A n : n = k + 1 => StreamSettled(n)' = copy
    BY <1>0, <2>2, <2>3
  <2>5. StreamMap = [n \in 1 .. k |-> StreamSettled(n)]
    BY <1>0 DEF StreamMap
  <2>6. StreamMap' = [n \in 1 .. k + 1 |-> StreamSettled(n)']
    BY <1>3 DEF StreamMap
  <2> HIDE DEF copy, k
  <2>7. Append(StreamMap, copy) = [n \in 1 .. k + 1 |-> IF n = k + 1 THEN copy ELSE StreamMap[n]]
    BY <1>0, <2>5, SequenceOf
  <2>8. \A n \in 1 .. k + 1 : StreamSettled(n)' = IF n = k + 1 THEN copy ELSE StreamMap[n]
    BY <1>0, <2>1, <2>4, <2>5
  <2> QED
    BY <2>6, <2>7, <2>8
<1>5. Len(StreamMap) = k
  <2>1. StreamMap = [n \in 1 .. k |-> StreamSettled(n)]
    BY <1>0 DEF StreamMap
  <2> HIDE DEF k
  <2> QED
    BY <1>0, <2>1, SequenceOf
<1>6. Registered' = {h \in Registered : ~ (h.id = id /\ h.channel = c)} \cup {new}
  <2>1. Made(t)' = new
    BY <1>0 DEF Made
  <2>2. AtKey(t)' = AtKey(t) /\ \A h : h \in AtKey(t) <=> h \in handlers[at[t]] /\ h.channel = c /\ h.id = id
    BY <1>0 DEF AtKey
  <2>3. After(t)' = (handlers[at[t]] \ AtKey(t)) \cup {new}
    BY <1>0, <2>1, <2>2, Zenon DEF After
  <2> HIDE DEF new
  <2>4. \A h : h \in Registered /\ ShardOf[h.channel] = at[t] <=> h \in handlers[at[t]]
    BY LockRegistered
  <2>5. \A h : h \in Registered' <=> h \in After(t)' \/ (h \in Registered /\ ShardOf[h.channel] # at[t])
    BY LockRegistered
  <2>6. \A h : h \in Registered' <=> \/ h = new
                                     \/ h \in Registered /\ ~ (h.id = id /\ h.channel = c)
    BY <1>0, <2>2, <2>3, <2>4, <2>5
  <2> QED
    BY <2>6
<1>7. PublishedMap' = PublishedMap /\ DroppedMap' = DroppedMap
  BY LockKeepsPublished, LockKeepsDropped
<1> HIDE DEF k
<1>8. StreamMap' = Append(StreamMap, [from |-> Settled!From(c), got |-> Settled!Held(c)])
  BY <1>2, <1>4, Zenon
<1>9. Registered' = {h \in Registered : ~ (h.id = id /\ h.channel = c)}
                      \cup {[channel |-> c, id |-> id, sub |-> Len(StreamMap) + 1]}
  BY <1>5, <1>6, Zenon
<1> QED
  BY <1>7, <1>8, <1>9, Zenon
     DEF Settled!Subscribe, PublishedMap, DroppedMap, StreamMap, Registered

\* The channels of a shard.
PartOf(s) == {c \in Channels : ShardOf[c] = s}

LEMMA LockDescribes ==
  ASSUME IndInv, HandoffInv, IndInv', HandoffInv', NEW t \in Threads, Lock(t),
         NEW id, id = req[t].id, NEW C,
         \/ req[t].kind = "describe" /\ C = {req[t].channel}
         \/ req[t].kind = "describeAll" /\ C = PartOf(at[t])
  PROVE  Settled!Describe(id, C)
<1>0. UNCHANGED <<req, at, handlers>> /\ (req[t].kind = "describe" => ShardOf[req[t].channel] = at[t])
  BY LockFields DEF ChannelCalls
<1>1. \A h \in Registered : h.channel \in Channels
  BY SettledShard DEF Registered
<1>2. \A h : h \in After(t)' <=> h \in handlers[at[t]] /\ ~ (h.id = id /\ h.channel \in C)
  <2>1. CASE req[t].kind = "describe"
    <3>1. After(t)' = handlers[at[t]] \ AtKey(t)
      BY <1>0, <2>1 DEF After, AtKey
    <3>2. C = {req[t].channel}
      BY <2>1
    <3> QED
      BY <3>1, <3>2 DEF AtKey
  <2>2. CASE req[t].kind = "describeAll"
    <3>1. After(t)' = {h \in handlers[at[t]] : h.id # id}
      BY <1>0, <2>2 DEF After
    <3>2. \A h \in handlers[at[t]] : h.channel \in C
      BY <2>2, LockFields, HandlerElements DEF IndInv, HandlersInv, PartOf
    <3> QED
      BY <3>1, <3>2
  <2> QED
    BY <2>1, <2>2
<1>3. \A h \in Registered : ShardOf[h.channel] # at[t] => h.channel \notin C
  BY <1>0 DEF PartOf
<1>4. Registered' = {h \in Registered : ~ (h.id = id /\ h.channel \in C)}
  <2>1. \A h : h \in Registered' <=> h \in Registered /\ ~ (h.id = id /\ h.channel \in C)
    BY <1>2, <1>3, LockRegistered
  <2> QED
    BY <2>1
<1>5. PublishedMap' = PublishedMap /\ DroppedMap' = DroppedMap /\ StreamMap' = StreamMap
  BY LockKeepsPublished, LockKeepsDropped, LockKeepsStreams
<1> QED
  BY <1>4, <1>5, Zenon DEF Settled!Describe, PublishedMap, DroppedMap, StreamMap, Registered

LEMMA LockResets ==
  ASSUME IndInv, HandoffInv, IndInv', HandoffInv', NEW t \in Threads, Lock(t),
         req[t].kind = "reset", NEW C, C = PartOf(at[t])
  PROVE  Settled!Reset(C)
<1>1. After(t)' = {}
  <2>1. req' = req
    BY LockFields
  <2> QED
    BY <2>1 DEF After
<1>2. Registered' = {h \in Registered : h.channel \notin C}
  <2>1. \A h \in Registered : h.channel \in C <=> ShardOf[h.channel] = at[t]
    BY SettledShard DEF Registered, PartOf
  <2>2. \A h : h \in Registered' <=> h \in Registered /\ h.channel \notin C
    BY <1>1, <2>1, LockRegistered
  <2> QED
    BY <2>2
<1>3. PublishedMap' = PublishedMap /\ StreamMap' = StreamMap
  BY LockKeepsPublished, LockKeepsStreams
<1>4. DroppedMap' = [c \in Channels |-> IF c \in C THEN PublishedMap[c] ELSE DroppedMap[c]]
  <2>1. \A c \in Channels : DroppedSettled(c)' = IF c \in C THEN PublishedSettled(c) ELSE DroppedSettled(c)
    BY LockQueues DEF PartOf
  <2> QED
    BY <2>1 DEF DroppedMap, PublishedMap
<1> QED
  BY <1>2, <1>3, <1>4, Zenon DEF Settled!Reset, PublishedMap, DroppedMap, StreamMap, Registered

LEMMA LockLooks ==
  ASSUME IndInv, HandoffInv, IndInv', HandoffInv', NEW t \in Threads, Lock(t),
         req[t].kind \in {"count", "getMessages", "statistics"}
  PROVE  UNCHANGED Settled!vars
<1>1. After(t)' = handlers[at[t]]
  BY LockFields DEF After
<1>2. Registered' = Registered
  <2>1. \A h : h \in Registered' <=> h \in Registered
    BY <1>1, LockRegistered
  <2> QED
    BY <2>1
<1>3. PublishedMap' = PublishedMap /\ DroppedMap' = DroppedMap /\ StreamMap' = StreamMap
  BY LockKeepsPublished, LockKeepsDropped, LockKeepsStreams
<1> QED
  BY <1>2, <1>3, Zenon DEF Settled!vars, PublishedMap, DroppedMap, StreamMap, Registered

LEMMA LockCommits ==
  ASSUME IndInv, HandoffInv, IndInv', HandoffInv', NEW t \in Threads, Lock(t)
  PROVE  [Settled!Next]_(Settled!vars)
<1>0. /\ req[t].kind \in ChannelCalls \cup SweepingCalls
      /\ req[t].channel \in Channels /\ req[t].id \in Ids /\ at[t] \in Shards
  BY LockFields
<1>1. PICK c \in Channels, id \in Ids : c = req[t].channel /\ id = req[t].id
  BY <1>0
<1>2. PICK s \in Shards : s = at[t]
  BY <1>0
<1>3. PartOf(s) \in {{d \in Channels : ShardOf[d] = r} : r \in Shards}
  BY DEF PartOf
<1>4. PICK C \in {{d \in Channels : ShardOf[d] = r} : r \in Shards} : C = PartOf(at[t])
  BY <1>2, <1>3
<1>5. CASE req[t].kind = "publish"
  BY <1>1, <1>5, LockPublishes DEF Settled!Next
<1>6. CASE req[t].kind = "subscribe"
  BY <1>1, <1>6, LockSubscribes DEF Settled!Next
<1>7. CASE req[t].kind = "describe"
  <2>1. Settled!Describe(id, {c})
    BY <1>1, <1>7, LockDescribes
  <2> QED
    BY <2>1 DEF Settled!Next
<1>8. CASE req[t].kind = "describeAll"
  <2>1. Settled!Describe(id, C)
    BY <1>1, <1>4, <1>8, LockDescribes
  <2> QED
    BY <2>1 DEF Settled!Next
<1>9. CASE req[t].kind = "reset"
  <2>1. Settled!Reset(C)
    BY <1>4, <1>9, LockResets
  <2> QED
    BY <2>1 DEF Settled!Next
<1>10. CASE req[t].kind \in {"count", "getMessages", "statistics"}
  BY <1>10, LockLooks
<1> QED
  BY <1>0, <1>5, <1>6, <1>7, <1>8, <1>9, <1>10 DEF ChannelCalls, SweepingCalls

-----------------------------------------------------------------------------
LEMMA SettledInit == Init => Settled!Init
<1> SUFFICES ASSUME Init PROVE Settled!Init
  OBVIOUS
<1>1. IndInv
  BY InitInv
<1>2. \A c \in Channels : ShardOf[c] \in Shards
  BY ShardsAssumption
<1>3. \A c \in Channels : PublishedSettled(c) = 0 /\ DroppedSettled(c) = 0
  BY <1>1, <1>2, QueuesSettle DEF SettledQueues, Init
<1>4. \A s \in Shards : HandlersSettled(s) = {}
  BY <1>1, HandlersSettle DEF SettledHandlers, Init
<1>5. Registered = {}
  BY <1>4 DEF Registered
<1>6. PublishedMap = [c \in Channels |-> 0] /\ DroppedMap = [c \in Channels |-> 0]
  BY <1>3 DEF PublishedMap, DroppedMap
<1>7. StreamMap = <<>>
  BY DEF StreamMap, Init
<1> QED
  BY <1>5, <1>6, <1>7, Zenon DEF Settled!Init, Registered, PublishedMap, DroppedMap, StreamMap

\* Every step of PubsubMt is a step of Broker, or none of its variables changes.
LEMMA NextSettled ==
  IndInv /\ HandoffInv /\ DoneInv /\ IndInv' /\ HandoffInv' /\ [Next]_vars
    => [Settled!Next]_(Settled!vars)
<1> SUFFICES ASSUME IndInv, HandoffInv, DoneInv, IndInv', HandoffInv', [Next]_vars
             PROVE  [Settled!Next]_(Settled!vars)
  OBVIOUS
<1>1. ASSUME NEW t \in Threads, NEW r \in Requests, Begin(t, r)
      PROVE  [Settled!Next]_(Settled!vars)
  BY <1>1, BeginStutters
<1>2. ASSUME NEW t \in Threads, Step(t)
      PROVE  [Settled!Next]_(Settled!vars)
  BY <1>2, StepStutters, LockCommits
<1>3. CASE UNCHANGED vars
  BY <1>3, UnseenSteps DEF vars, threadVars, registryVars, messageVars, Inside
<1> QED
  BY <1>1, <1>2, <1>3 DEF Next, Quiet

(***************************************************************************)
(* Every call of a pubsub_mt about a channel is atomic, and a call about   *)
(* all channels is atomic on every shard: the threads that run inside      *)
(* PubsubMt, step by step, are not to be told from Broker, where a call    *)
(* happens at once.                                                        *)
(***************************************************************************)
THEOREM PubsubMtImplementsBroker == Spec => ImplementsBroker
BY SettledInit, NextSettled, Invariance, HandoffInvariance, DoneInvariance, PTL
   DEF Spec, ImplementsBroker, Settled!Spec

(***************************************************************************)
(* What a get_messages copies (pubsub_mt.cpp:38-43, pubsub.cpp:49-60) is   *)
(* what the broker holds at that moment: no publish and no reset of        *)
(* another thread is half done for it.                                     *)
(***************************************************************************)
THEOREM ReadersSeeTheBroker == Spec => []ReadsTheBroker
<1>1. IndInv /\ HandoffInv => ReadsTheBroker
  <2> SUFFICES ASSUME IndInv, HandoffInv, NEW t \in Threads,
                      pc[t] = "read", req[t].kind = "getMessages"
               PROVE  LET c == req[t].channel
                      IN  Held(c) = Settled!Held(c) /\ From(c) = Settled!From(c)
    BY DEF ReadsTheBroker
  <2>1. PICK c \in Channels : c = req[t].channel
    BY RequestFields DEF IndInv, TypeOK
  <2>2. ShardOf[c] = at[t] /\ Inside(t)
    BY <2>1 DEF IndInv, PhaseInv, ChannelCalls, Inside
  <2>3. PublishedSettled(c) = published[c] /\ DroppedSettled(c) = dropped[c]
    BY <2>2, QueuesSettle DEF SettledQueues
  <2>4. PublishedMap[c] = published[c] /\ DroppedMap[c] = dropped[c]
    BY <2>3 DEF PublishedMap, DroppedMap
  <2>5. From(c) = Settled!From(c)
    BY <2>4, Zenon DEF From, Settled!From, Max, Settled!Max, PublishedMap, DroppedMap
  <2>6. Held(c) = Settled!Held(c)
    BY <2>4, <2>5 DEF Held, Settled!Held, PublishedMap
  <2> QED
    BY <2>1, <2>5, <2>6
<1> QED
  BY Invariance, HandoffInvariance, <1>1, PTL
=============================================================================
