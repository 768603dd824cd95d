------------------------------ MODULE CometProofs ------------------------------
(***************************************************************************)
(* Proofs about CometAdapter, for every number of worker threads,          *)
(* connections of either kind, channels and parts: its types, what is left *)
(* of a connection after unreg_io, the answer to mload, what a client hears *)
(* of its subscriptions, and what it loads after it subscribed.            *)
(***************************************************************************)
EXTENDS CometAdapter, SequenceLemmas

-----------------------------------------------------------------------------
(***************************************************************************)
(* Facts about sequences, and the larger of two integers.                  *)
(***************************************************************************)
LEMMA MaxOfTwo ==
  ASSUME NEW a \in Int, NEW b \in Int
  PROVE  /\ Max({a, b}) = IF a >= b THEN a ELSE b
         /\ Direct!Max({a, b}) = Max({a, b})
         /\ Adapted!Max({a, b}) = Max({a, b})
<1> DEFINE m == IF a >= b THEN a ELSE b
<1>1. m \in {a, b} /\ \A y \in {a, b} : m >= y
  OBVIOUS
<1>2. ASSUME NEW x \in {a, b}, \A y \in {a, b} : x >= y
      PROVE  x = m
  BY <1>1, <1>2
<1> HIDE DEF m
<1>3. Max({a, b}) = m
  BY <1>1, <1>2 DEF Max
<1>4. Direct!Max({a, b}) = Max({a, b}) /\ Adapted!Max({a, b}) = Max({a, b})
  BY DEF Max, Direct!Max, Adapted!Max
<1> QED
  BY <1>3, <1>4 DEF m

-----------------------------------------------------------------------------
(***************************************************************************)
(* The answer to mload.                                                    *)
(***************************************************************************)
\* The channels of a list are C, each once.
Names(list, C) ==
  /\ IsSeq(list)
  /\ \A i \in DOMAIN list : list[i].channel \in C
  /\ \A c \in C : \E i \in DOMAIN list : list[i].channel = c
  /\ \A i, j \in DOMAIN list : list[i].channel = list[j].channel => i = j

LEMMA ListNames ==
  ASSUME NEW C, IsFiniteSet(C), NEW res
  PROVE  Names(SetToSeq({MessagesOf(res, c) : c \in C}), C)
<1> DEFINE f == [c \in C |-> MessagesOf(res, c)]
           S == {MessagesOf(res, c) : c \in C}
           q == SetToSeq(S)
<1>1. f \in Surjection(C, S)
  <2>1. f \in [C -> S] /\ \A c \in C : f[c] = MessagesOf(res, c)
    OBVIOUS
  <2> HIDE DEF f
  <2> QED
    BY <2>1 DEF Surjection
<1> HIDE DEF f
<1>2. IsFiniteSet(S)
  BY <1>1, FS_Surjection
<1>3. \A c \in C : MessagesOf(res, c).channel = c
  BY DEF MessagesOf, Item
<1>4. /\ \A x \in S : x.channel \in C
      /\ \A c \in C : MessagesOf(res, c) \in S
      /\ \A x, y \in S : x.channel = y.channel => x = y
  BY <1>3
<1> HIDE DEF S
<1>5. IsSeq(q) /\ ToSet(q) = S /\ IsInjective(q)
  BY <1>2, SetToSeqLists
<1> HIDE DEF q
<1>6. \A i \in DOMAIN q : q[i] \in S
  BY <1>5 DEF ToSet
<1>7. \A x \in S : \E i \in DOMAIN q : q[i] = x
  BY <1>5 DEF ToSet
<1>8. \A c \in C : \E i \in DOMAIN q : q[i].channel = c
  BY <1>3, <1>4, <1>7
<1>9. \A i, j \in DOMAIN q : q[i].channel = q[j].channel => i = j
  BY <1>4, <1>5, <1>6 DEF IsInjective
<1>10. Names(q, C)
  BY <1>4, <1>5, <1>6, <1>8, <1>9 DEF Names
<1> QED
  BY <1>10 DEF q, S

LEMMA NamesJoined ==
  ASSUME NEW s, NEW u, NEW C, NEW D, Names(s, C), Names(u, D), C \cap D = {}
  PROVE  Names(s \o u, C \cup D)
<1> DEFINE r == s \o u
<1>1. IsSeq(r)
  BY Joined DEF Names
<1>2. s \in Seq(ToSet(s) \cup ToSet(u)) /\ u \in Seq(ToSet(s) \cup ToSet(u))
  BY DEF IsSeq, Names
<1>3. /\ Len(s) \in Nat /\ Len(u) \in Nat
      /\ DOMAIN r = 1 .. Len(s) + Len(u) /\ DOMAIN s = 1 .. Len(s) /\ DOMAIN u = 1 .. Len(u)
      /\ \A i \in 1 .. Len(s) + Len(u) : r[i] = IF i <= Len(s) THEN s[i] ELSE u[i - Len(s)]
  BY <1>2
<1> HIDE DEF r
<1>4. /\ \A i \in 1 .. Len(s) : i \in DOMAIN r /\ r[i] = s[i]
      /\ \A i \in 1 .. Len(u) : i + Len(s) \in DOMAIN r /\ r[i + Len(s)] = u[i]
  BY <1>3
<1>5. \A i \in DOMAIN r : \/ i \in DOMAIN s /\ r[i] = s[i]
                          \/ i - Len(s) \in DOMAIN u /\ r[i] = u[i - Len(s)]
  BY <1>3
<1>6. \A i \in DOMAIN r : r[i].channel \in C \cup D
  BY <1>5 DEF Names
<1>7. \A c \in C \cup D : \E i \in DOMAIN r : r[i].channel = c
  BY <1>3, <1>4 DEF Names
<1>8. ASSUME NEW i \in DOMAIN r, NEW j \in DOMAIN r, r[i].channel = r[j].channel
      PROVE  i = j
  <2>1. i \in Int /\ j \in Int /\ Len(s) \in Int
    BY <1>3
  <2>2. CASE i \in DOMAIN s /\ r[i] = s[i] /\ j \in DOMAIN s /\ r[j] = s[j]
    BY <1>8, <2>2 DEF Names
  <2>3. CASE /\ i - Len(s) \in DOMAIN u /\ r[i] = u[i - Len(s)]
             /\ j - Len(s) \in DOMAIN u /\ r[j] = u[j - Len(s)]
    <3>1. i - Len(s) = j - Len(s)
      BY <1>8, <2>3 DEF Names
    <3> QED
      BY <2>1, <3>1
  <2>4. CASE i \in DOMAIN s /\ r[i] = s[i] /\ j - Len(s) \in DOMAIN u /\ r[j] = u[j - Len(s)]
    BY <1>8, <2>4 DEF Names
  <2>5. CASE j \in DOMAIN s /\ r[j] = s[j] /\ i - Len(s) \in DOMAIN u /\ r[i] = u[i - Len(s)]
    BY <1>8, <2>5 DEF Names
  <2> QED
    BY <1>5, <2>2, <2>3, <2>4, <2>5
<1>9. Names(r, C \cup D)
  BY <1>1, <1>6, <1>7, <1>8 DEF Names
<1> QED
  BY <1>9 DEF r

(***************************************************************************)
(* A list that has answers about no channel but those asked for yields an  *)
(* answer with every one of them, once.                                    *)
(***************************************************************************)
LEMMA LoadListNames ==
  ASSUME NEW asked, IsSeq(asked), NEW res, IsSeq(res),
         \A e \in ToSet(res) : e.channel \in ToSet(asked)
  PROVE  Names(LoadList(asked, res), ToSet(asked))
<1> DEFINE C == WithMessages(res)
           D == Empty(asked, res)
           F == {f \in ToSet(res) : f.got # <<>>}
<1>1. C \subseteq ToSet(asked)
  BY DEF WithMessages
<1>2. IsFiniteSet(ToSet(asked))
  BY ToSetFinite
<1>3. IsFiniteSet(C) /\ IsFiniteSet(D)
  BY <1>1, <1>2, FS_Subset DEF Empty
<1>4. C \cap D = {} /\ C \cup D = ToSet(asked)
  BY <1>1 DEF Empty
<1>5. Names(SetToSeq({MessagesOf(res, c) : c \in C}), C)
  BY <1>3, ListNames
<1>6. Names(SetToSeq({MessagesOf(res, c) : c \in D}), D)
  BY <1>3, ListNames
<1> HIDE DEF C, D
<1>7. Names(SetToSeq({MessagesOf(res, c) : c \in C}) \o SetToSeq({MessagesOf(res, c) : c \in D}),
            C \cup D)
  BY <1>4, <1>5, <1>6, NamesJoined
<1> QED
  BY <1>4, <1>7 DEF LoadList, C, D

-----------------------------------------------------------------------------
(***************************************************************************)
(* The inductive invariant.                                                *)
(***************************************************************************)
RequestCalls == PubsubCalls \cup CometCalls

Items == [channel : Channels, sub : Nat, from : Nat, got : Seq(Nat)]

Works ==
  [no : Nat, conn : Nat, call : RequestCalls \cup {"unreg", "reset", ""}, asked : Seq(Channels),
   rest : Seq(Channels), part : Nat, res : Seq(Items), peer : Nat, refused : BOOLEAN, since : Nat]

\* The Broker as the pubsub_domain uses it; without an ini file it has no handlers.
BrokerInv ==
  /\ configured \in BOOLEAN
  /\ published \in [Channels -> Nat] /\ dropped \in [Channels -> Nat]
  /\ \A c \in Channels : dropped[c] <= published[c]
  /\ stream \in Seq([from : Nat, got : Seq(Nat)])
  /\ registered \subseteq [channel : Channels, id : Conns, sub : 1 .. Len(stream)]
  /\ IsFiniteSet(registered)
  /\ ~ configured => registered = {}

\* The adapters, and the routes to them.
AdapterInv ==
  /\ target \in BOOLEAN
  /\ made \in Nat
  /\ route \in Seq(0 .. made) /\ Len(route) = Len(stream)
  /\ DOMAIN adapters \subseteq CometConns
  /\ adapters \in [DOMAIN adapters -> 1 .. made]
  /\ late \subseteq Conns

\* A thread has a request of a connection, unregisters one, or resets the pubsub_mt.
WorkOf(t) ==
  /\ work[t].peer \in 0 .. made
  /\ pc[t] = "idle" => work[t] = NoWork
  /\ work[t].call = "" => pc[t] = "idle"
  /\ work[t].call \in RequestCalls =>
       /\ pc[t] \in {"adapter", "target", "call", "answer"}
       /\ work[t].conn \in Conns
       /\ work[t].no \in DOMAIN answers
       /\ work[t].part = 0
       /\ pc[t] = "adapter" => work[t].conn \in CometConns
  /\ work[t].call = "unreg" =>
       /\ pc[t] \in {"target", "call", "erase"}
       /\ work[t].conn \in Conns
       /\ link[work[t].conn] \in {"leaving", "left"}
       /\ work[t].no = 0
       /\ pc[t] = "erase" => work[t].conn \in CometConns /\ work[t].part = Len(Parts) + 1
  /\ work[t].call = "reset" => pc[t] = "call" /\ work[t].no = 0

WorkInv ==
  /\ link \in [Conns -> {"open", "closed", "leaving", "left"}]
  /\ answers \in Seq(Nat)
  /\ pc \in [Threads -> Labels]
  /\ work \in [Threads -> Works]
  /\ \A t \in Threads : WorkOf(t)

\* No handler of a connection is left in the first n parts.
Swept(k, n) ==
  \A h \in registered : h.id = k => \A i \in DOMAIN Parts : i <= n => h.channel \notin Parts[i]

Gone(k) == link[k] \in {"leaving", "left"} /\ k \notin late

\* No thread serves a connection that went with no request of it under way, and the sweep
\* leaves nothing of it.
Serves(t) ==
  Gone(work[t].conn) =>
    /\ work[t].call \notin RequestCalls
    /\ work[t].call = "unreg" => Swept(work[t].conn, work[t].part - 1)

Cleared(k) ==
  Gone(k) /\ link[k] = "left" /\ target => k \notin DOMAIN adapters /\ \A h \in registered : h.id # k

GoneInv ==
  /\ \A t \in Threads : Serves(t)
  /\ \A k \in Conns : Cleared(k)

IndInv == BrokerInv /\ AdapterInv /\ WorkInv /\ GoneInv

\* What an mload has gathered is about the channels it was asked for.
Asks(t) ==
  work[t].call = "mload" =>
    /\ ToSet(work[t].rest) \subseteq ToSet(work[t].asked)
    /\ \A e \in ToSet(work[t].res) : e.channel \in ToSet(work[t].asked)

InboxInv ==
  /\ inbox = [k \in Conns |-> inbox[k]]
  /\ \A k \in Conns :
       /\ IsSeq(inbox[k])
       /\ \A m \in ToSet(inbox[k]) :
            m.type = "answer" /\ m.call = "mload" => Names(m.res, ToSet(m.asked))
  /\ \A t \in Threads : Asks(t)

-----------------------------------------------------------------------------
(***************************************************************************)
(* The calls of the Broker.                                                *)
(***************************************************************************)
Streams == [from : Nat, got : Seq(Nat)]

\* What is held is a sequence of numbers, for either limit of a copy.
LEMMA HeldType ==
  ASSUME BrokerInv, NEW c \in Channels
  PROVE  /\ Direct!From(c) \in Nat /\ Direct!Held(c) \in Seq(Nat)
         /\ Adapted!From(c) \in Nat /\ Adapted!Held(c) \in Seq(Nat)
<1>1. /\ published[c] \in Nat /\ dropped[c] \in Nat /\ dropped[c] <= published[c]
      /\ PageLimit \in Nat
  BY BoundsAssumption DEF BrokerInv
<1>2. Direct!From(c) \in Nat /\ Direct!From(c) <= published[c]
  <2>1. Direct!From(c) = IF dropped[c] >= published[c] - PageLimit
                         THEN dropped[c] ELSE published[c] - PageLimit
    <3>1. dropped[c] \in Int /\ published[c] - PageLimit \in Int
      BY <1>1
    <3>2. Direct!Max({dropped[c], published[c] - PageLimit}) =
            IF dropped[c] >= published[c] - PageLimit
            THEN dropped[c] ELSE published[c] - PageLimit
      BY <3>1, MaxOfTwo, Zenon
    <3> QED
      BY <3>2, Zenon DEF Direct!From
  <2> QED
    BY <1>1, <2>1
<1>3. Adapted!From(c) \in Nat /\ Adapted!From(c) <= published[c]
  <2>1. Adapted!From(c) = IF dropped[c] >= published[c] - 0
                          THEN dropped[c] ELSE published[c] - 0
    <3>1. dropped[c] \in Int /\ published[c] - 0 \in Int
      BY <1>1
    <3>2. Adapted!Max({dropped[c], published[c] - 0}) =
            IF dropped[c] >= published[c] - 0
            THEN dropped[c] ELSE published[c] - 0
      BY <3>1, MaxOfTwo, Zenon
    <3> QED
      BY <3>2, Zenon DEF Adapted!From
  <2> QED
    BY <1>1, <2>1
<1>4. ASSUME NEW from \in Nat, from <= published[c]
      PROVE  [k \in 1 .. published[c] - from |-> from + k] \in Seq(Nat)
  <2>1. published[c] - from \in Nat
    BY <1>1, <1>4
  <2>2. [k \in 1 .. published[c] - from |-> from + k] \in [1 .. published[c] - from -> Nat]
    BY <1>4
  <2> QED
    BY <2>1, <2>2
<1> QED
  BY <1>2, <1>3, <1>4 DEF Direct!Held, Adapted!Held

LEMMA PublishKeeps ==
  ASSUME BrokerInv, NEW c \in Channels, Direct!Publish(c), configured' = configured
  PROVE  BrokerInv' /\ registered' = registered /\ Len(stream') = Len(stream)
<1>1. published[c] \in Nat /\ dropped[c] \in Nat /\ CacheLimit \in Nat \ {0}
      /\ dropped[c] <= published[c]
  BY BoundsAssumption DEF BrokerInv
<1>2. Max({dropped[c], published[c] + 1 - CacheLimit}) \in 0 .. published[c] + 1
  <2>1. Max({dropped[c], published[c] + 1 - CacheLimit}) =
          IF dropped[c] >= published[c] + 1 - CacheLimit THEN dropped[c]
          ELSE published[c] + 1 - CacheLimit
    BY <1>1, MaxOfTwo
  <2> QED
    BY <1>1, <2>1
<1>3. published' \in [Channels -> Nat] /\ dropped' \in [Channels -> Nat]
      /\ \A d \in Channels : dropped'[d] <= published'[d]
  <2> DEFINE top == Max({dropped[c], published[c] + 1 - CacheLimit})
  <2>1. /\ published' = [published EXCEPT ![c] = published[c] + 1]
        /\ dropped' = [dropped EXCEPT ![c] = top]
    <3>1. dropped[c] \in Int /\ published[c] + 1 - CacheLimit \in Int
      BY <1>1
    <3>2. Direct!Max({dropped[c], published[c] + 1 - CacheLimit}) = top
      BY <3>1, MaxOfTwo, Zenon
    <3> QED
      BY <3>2, Zenon DEF Direct!Publish
  <2>2. top \in 0 .. published[c] + 1
    BY <1>2
  <2> HIDE DEF top
  <2> QED
    BY <1>1, <2>1, <2>2 DEF BrokerInv
<1>4. stream' \in Seq(Streams) /\ Len(stream') = Len(stream)
  <2>1. stream \in Seq(Streams)
    BY DEF BrokerInv, Streams
  <2>2. ASSUME NEW n \in DOMAIN stream
        PROVE  /\ [stream[n] EXCEPT !.got = Append(@, published[c] + 1)] \in Streams
               /\ stream[n] \in Streams
    <3>1. stream[n] \in Streams
      BY <2>1
    <3>2. published[c] + 1 \in Nat
      BY <1>1
    <3>3. stream[n].got \in Seq(Nat) /\ stream[n].from \in Nat
      BY <3>1 DEF Streams
    <3>4. Append(stream[n].got, published[c] + 1) \in Seq(Nat)
      BY <3>2, <3>3
    <3> QED
      BY <3>1, <3>4 DEF Streams
  <2>3. stream' = [n \in DOMAIN stream |->
                     IF Direct!Subscribed(n, c)
                     THEN [stream[n] EXCEPT !.got = Append(@, published[c] + 1)]
                     ELSE stream[n]]
    BY DEF Direct!Publish
  <2>4. stream' \in [1 .. Len(stream) -> Streams]
    <3>1. DOMAIN stream = 1 .. Len(stream)
      BY <2>1
    <3> QED
      BY <2>2, <2>3, <3>1, Zenon
  <2>5. Len(stream) \in Nat
    BY <2>1
  <2> QED
    BY <2>4, <2>5
<1>5. registered' = registered
  BY DEF Direct!Publish
<1> QED
  BY <1>3, <1>4, <1>5 DEF BrokerInv, Streams

LEMMA SubscribeKeeps ==
  ASSUME BrokerInv, configured, configured' = configured, NEW k \in Conns, NEW c \in Channels,
         Direct!Subscribe(k, c) \/ Adapted!Subscribe(k, c)
  PROVE  /\ BrokerInv'
         /\ Len(stream') = Len(stream) + 1
         /\ stream'[Len(stream) + 1] \in Streams
         /\ \A h \in registered' : h \in registered \/ h.id = k
<1> DEFINE new == [channel |-> c, id |-> k, sub |-> Len(stream) + 1]
           kept == {h \in registered : ~ (h.id = k /\ h.channel = c)}
<1>1. PICK e \in Streams : stream' = Append(stream, e)
  BY HeldType DEF Direct!Subscribe, Adapted!Subscribe, Streams
<1>2. /\ registered' = kept \cup {new}
      /\ UNCHANGED <<published, dropped>>
  BY DEF Direct!Subscribe, Adapted!Subscribe
<1>3. /\ stream' \in Seq(Streams) /\ Len(stream') = Len(stream) + 1
      /\ stream'[Len(stream) + 1] = e
      /\ Len(stream) \in Nat
  BY <1>1 DEF BrokerInv, Streams
<1>4. IsFiniteSet(registered')
  <2>1. IsFiniteSet(kept)
    BY FS_Subset DEF BrokerInv
  <2> HIDE DEF kept, new
  <2> QED
    BY <1>2, <2>1, FS_AddElement
<1>5. registered' \subseteq [channel : Channels, id : Conns, sub : 1 .. Len(stream')]
  <2>1. registered \subseteq [channel : Channels, id : Conns, sub : 1 .. Len(stream)]
    BY DEF BrokerInv
  <2>2. kept \subseteq registered
    OBVIOUS
  <2>3. \A n \in 1 .. Len(stream) : n \in 1 .. Len(stream')
    BY <1>3
  <2>4. \A h \in registered : h \in [channel : Channels, id : Conns, sub : 1 .. Len(stream')]
    BY <2>1, <2>3
  <2>5. new \in [channel : Channels, id : Conns, sub : 1 .. Len(stream')]
    BY <1>3
  <2> HIDE DEF kept, new
  <2> QED
    BY <1>2, <2>2, <2>4, <2>5
<1>6. \A h \in registered' : h \in registered \/ h.id = k
  BY <1>2
<1> QED
  BY <1>1, <1>2, <1>3, <1>4, <1>5, <1>6 DEF BrokerInv, Streams

LEMMA DescribeKeeps ==
  ASSUME BrokerInv, configured' = configured, NEW k, NEW C, Direct!Describe(k, C)
  PROVE  /\ BrokerInv' /\ Len(stream') = Len(stream)
         /\ registered' = {h \in registered : ~ (h.id = k /\ h.channel \in C)}
<1>1. /\ registered' = {h \in registered : ~ (h.id = k /\ h.channel \in C)}
      /\ UNCHANGED <<published, dropped, stream>>
  BY DEF Direct!Describe
<1>2. IsFiniteSet(registered')
  BY <1>1, FS_Subset DEF BrokerInv
<1> QED
  BY <1>1, <1>2 DEF BrokerInv

LEMMA ResetKeeps ==
  ASSUME BrokerInv, configured' = configured, NEW C, Direct!Reset(C)
  PROVE  BrokerInv' /\ Len(stream') = Len(stream) /\ registered' \subseteq registered
<1>1. /\ registered' = {h \in registered : h.channel \notin C}
      /\ dropped' = [c \in Channels |-> IF c \in C THEN published[c] ELSE dropped[c]]
      /\ UNCHANGED <<published, stream>>
  BY DEF Direct!Reset
<1>2. IsFiniteSet(registered')
  BY <1>1, FS_Subset DEF BrokerInv
<1> QED
  BY <1>1, <1>2 DEF BrokerInv

-----------------------------------------------------------------------------
(***************************************************************************)
(* What a step of one thread owes to each part of the invariant.           *)
(***************************************************************************)
Alone(t) == \A u \in Threads : u # t => pc'[u] = pc[u] /\ work'[u] = work[u]

LEMMA WorkKeeps ==
  ASSUME WorkInv, NEW t \in Threads, Alone(t), WorkOf(t)',
         pc' \in [Threads -> Labels], work' \in [Threads -> Works],
         link' \in [Conns -> {"open", "closed", "leaving", "left"}],
         \A k \in Conns : link[k] \in {"leaving", "left"} => link'[k] \in {"leaving", "left"},
         answers' \in Seq(Nat), DOMAIN answers \subseteq DOMAIN answers',
         0 .. made \subseteq 0 .. made'
  PROVE  WorkInv'
<1>1. ASSUME NEW u \in Threads, u # t PROVE WorkOf(u)'
  <2>1. pc'[u] = pc[u] /\ work'[u] = work[u] /\ WorkOf(u)
    BY <1>1 DEF Alone, WorkInv
  <2> QED
    BY <2>1 DEF WorkOf
<1> QED
  BY <1>1 DEF WorkInv

\* A thread that is done.
LEMMA NoWorkType ==
  /\ NoWork \in Works
  /\ NoWork.call = "" /\ NoWork.conn = 0 /\ NoWork.peer = 0 /\ NoWork.no = 0 /\ NoWork.part = 0
BY DEF NoWork, Works

LEMMA IdleWork ==
  ASSUME NEW t \in Threads, pc'[t] = "idle", work'[t] = NoWork, made' \in Nat
  PROVE  WorkOf(t)'
<1>1. "" \notin RequestCalls
  BY DEF RequestCalls, PubsubCalls, CometCalls
<1>2. work'[t].call = "" /\ work'[t].peer = 0
  BY NoWorkType
<1>3. 0 \in 0 .. made'
  OBVIOUS
<1> QED
  BY <1>1, <1>2, <1>3 DEF WorkOf

\* A step that makes handlers and an adapter of a connection that is not gone only.
LEMMA GoneKeeps ==
  ASSUME GoneInv, NEW t \in Threads, Alone(t), Serves(t)',
         \A k \in Nat : Gone(k)' => Gone(k), \A u \in Threads : work[u].conn \in Nat,
         \A h \in registered' : h \in registered \/ ~ Gone(h.id),
         \A k \in DOMAIN adapters' : k \in DOMAIN adapters \/ ~ Gone(k),
         \A k \in Conns : Gone(k) /\ link'[k] = "left" /\ target' =>
           \/ link[k] = "left" /\ target
           \/ k \notin DOMAIN adapters' /\ \A h \in registered' : h.id # k
  PROVE  GoneInv'
<1>1. ASSUME NEW u \in Threads PROVE Serves(u)'
  <2>1. CASE u = t
    BY <2>1
  <2>2. CASE u # t
    <3>1. work'[u] = work[u] /\ Serves(u)
      BY <2>2 DEF Alone, GoneInv
    <3>2. Gone(work[u].conn)' => Gone(work[u].conn)
      BY <3>1
    <3>3. ASSUME Gone(work[u].conn), NEW n, Swept(work[u].conn, n)
          PROVE  \A h \in registered' : h.id = work[u].conn =>
                   \A i \in DOMAIN Parts : i <= n => h.channel \notin Parts[i]
      BY <3>3 DEF Swept
    <3> QED
      BY <3>1, <3>2, <3>3 DEF Serves, Swept
  <2> QED
    BY <2>1, <2>2
<1>2. ASSUME NEW k \in Conns, Gone(k)', link'[k] = "left", target'
      PROVE  k \notin DOMAIN adapters' /\ \A h \in registered' : h.id # k
  <2>1. Gone(k)
    BY <1>2, ConnsAssumption
  <2> QED
    BY <1>2, <2>1 DEF GoneInv, Cleared
<1>3. \A k \in Conns : Cleared(k)'
  BY <1>2 DEF Cleared
<1> QED
  BY <1>1, <1>3 DEF GoneInv

\* A thread that is done serves nobody.
LEMMA IdleServes ==
  ASSUME NEW t \in Threads, work'[t] = NoWork
  PROVE  Serves(t)'
<1>1. "" \notin RequestCalls
  BY DEF RequestCalls, PubsubCalls, CometCalls
<1> QED
  BY <1>1, NoWorkType DEF Serves

\* A thread that serves a request of a connection makes handlers and an adapter of that only.
LEMMA RequestGone ==
  ASSUME WorkInv, GoneInv, NEW t \in Threads, Alone(t), work[t].call \in RequestCalls,
         UNCHANGED <<link, late, target>>,
         work'[t] = NoWork \/ (work'[t].call = work[t].call /\ work'[t].conn = work[t].conn),
         \A h \in registered' : h \in registered \/ h.id = work[t].conn,
         DOMAIN adapters' \subseteq DOMAIN adapters \cup {work[t].conn}
  PROVE  GoneInv'
<1>1. \A k : Gone(k)' => Gone(k)
  BY DEF Gone
<1>2. ~ Gone(work[t].conn)
  BY DEF GoneInv, Serves
<1>4. \A u \in Threads : work[u].conn \in Nat
  BY DEF WorkInv, Works
<1>5. Serves(t)'
  <2>1. CASE work'[t] = NoWork
    BY <2>1, IdleServes
  <2>2. CASE work'[t].call = work[t].call /\ work'[t].conn = work[t].conn
    BY <1>2, <2>2 DEF Serves, Gone
  <2> QED
    BY <2>1, <2>2
<1> QED
  BY <1>1, <1>2, <1>4, <1>5, GoneKeeps

-----------------------------------------------------------------------------
(***************************************************************************)
(* The steps of a request.                                                 *)
(***************************************************************************)
LEMMA AtChannel ==
  ASSUME WorkInv, NEW t \in Threads, work[t].rest # <<>>
  PROVE  Here(t) \in Channels /\ Tail(work[t].rest) \in Seq(Channels)
<1>1. work[t].rest \in Seq(Channels)
  BY DEF WorkInv, Works
<1> QED
  BY <1>1 DEF Here

\* From a channel of the request to the next, or to the answer.
LEMMA AdvanceKeeps ==
  ASSUME WorkInv, GoneInv, NEW t \in Threads, pc[t] = "call", work[t].call \in RequestCalls,
         work[t].rest # <<>>, NEW items \in Seq(Items), Advance(t, items),
         NEW label \in {"target", "call"}, After(t, label), UNCHANGED <<link, answers, adapterVars>>,
         \A h \in registered' : h \in registered \/ h.id = work[t].conn
  PROVE  WorkInv' /\ GoneInv'
<1> DEFINE w == [work[t] EXCEPT !.rest = Tail(@), !.res = @ \o items]
<1>1. work[t] \in Works /\ WorkOf(t)
  BY DEF WorkInv
<1>2. work[t].res \o items \in Seq(Items) /\ Tail(work[t].rest) \in Seq(Channels)
  <2>1. work[t].res \in Seq(Items)
    BY <1>1 DEF Works
  <2>2. work[t].res \o items \in Seq(Items)
    BY <2>1
  <2> QED
    BY <2>2, AtChannel, Zenon
<1>3. /\ w \in Works
      /\ w.call = work[t].call /\ w.conn = work[t].conn /\ w.no = work[t].no
      /\ w.part = work[t].part /\ w.peer = work[t].peer
  BY <1>1, <1>2 DEF Works
<1>4. work' = [work EXCEPT ![t] = w]
  BY DEF Advance
<1> HIDE DEF w
<1>5. work' \in [Threads -> Works] /\ work'[t] = w
  BY <1>3, <1>4 DEF WorkInv
<1>6. pc' \in [Threads -> Labels] /\ pc'[t] \in {"answer", "target", "call"}
  BY DEF After, Goto, WorkInv, Labels
<1>7. Alone(t)
  BY <1>4 DEF Alone, After, Goto, WorkInv
<1>8. work[t].call # "" /\ work[t].call # "unreg" /\ work[t].call # "reset"
  BY DEF RequestCalls, PubsubCalls, CometCalls
<1>9. WorkOf(t)'
  BY <1>1, <1>3, <1>5, <1>6, <1>8 DEF WorkOf, adapterVars
<1>10. WorkInv'
  BY <1>5, <1>6, <1>7, <1>9, WorkKeeps DEF WorkInv, adapterVars
<1>11. GoneInv'
  BY <1>3, <1>5, <1>7, RequestGone DEF adapterVars
<1> QED
  BY <1>10, <1>11

LEMMA PublishStep ==
  ASSUME IndInv, NEW t \in Threads, NEW reached, NEW label \in {"target", "call"},
         PublishTopic(t, reached, label), UNCHANGED adapterVars
  PROVE  IndInv'
<1>1. /\ pc[t] = "call" /\ work[t].call \in RequestCalls /\ work[t].rest # <<>>
      /\ Advance(t, <<>>) /\ After(t, label) /\ UNCHANGED <<configured, route, link, answers>>
  BY DEF PublishTopic, Inside, RequestCalls, PubsubCalls, CometCalls
<1>2. Here(t) \in Channels
  BY <1>1, AtChannel DEF IndInv
<1>3. BrokerInv' /\ Len(stream') = Len(stream) /\ registered' = registered
  <2>1. CASE configured
    BY <1>1, <1>2, <2>1, PublishKeeps DEF PublishTopic, IndInv
  <2>2. CASE ~ configured
    BY <1>1, <2>2 DEF PublishTopic, IndInv, BrokerInv
  <2> QED
    BY <2>1, <2>2
<1>4. WorkInv' /\ GoneInv'
  <2>1. <<>> \in Seq(Items)
    OBVIOUS
  <2> QED
    BY <1>1, <1>3, <2>1, AdvanceKeeps DEF IndInv
<1>5. AdapterInv'
  BY <1>1, <1>3 DEF IndInv, AdapterInv, adapterVars
<1> QED
  BY <1>3, <1>4, <1>5 DEF IndInv

LEMMA SubscribeStep ==
  ASSUME IndInv, NEW t \in Threads, SubscribeChannel(t), UNCHANGED adapterVars
  PROVE  IndInv'
<1> DEFINE c == Here(t)
           k == work[t].conn
           n == Len(stream) + 1
<1>1. /\ pc[t] = "call" /\ work[t].call \in RequestCalls /\ work[t].rest # <<>>
      /\ After(t, "call") /\ UNCHANGED <<configured, clientVars>>
  BY DEF SubscribeChannel, Inside, RequestCalls, PubsubCalls, CometCalls
<1>2. c \in Channels /\ k \in Conns /\ work[t].peer \in 0 .. made
  BY <1>1, AtChannel DEF IndInv, WorkInv, WorkOf
<1>3. CASE configured
  <2>1. Direct!Subscribe(k, c) \/ Adapted!Subscribe(k, c)
    BY <1>3 DEF SubscribeChannel
  <2>2. /\ route' = Append(route, work[t].peer)
        /\ Advance(t, <<Item(c, n, stream'[n].from, stream'[n].got)>>)
    BY <1>3 DEF SubscribeChannel
  <2> HIDE DEF c, k
  <2>3. /\ BrokerInv' /\ Len(stream') = Len(stream) + 1 /\ stream'[n] \in Streams
        /\ \A h \in registered' : h \in registered \/ h.id = k
    BY <1>1, <1>2, <1>3, <2>1, SubscribeKeeps DEF IndInv
  <2>4. n \in Nat
    BY DEF IndInv, BrokerInv
  <2>5. Item(c, n, stream'[n].from, stream'[n].got) \in Items
    BY <1>2, <2>3, <2>4 DEF Item, Items, Streams
  <2>6. <<Item(c, n, stream'[n].from, stream'[n].got)>> \in Seq(Items)
    BY <2>5
  <2>7. WorkInv' /\ GoneInv'
    BY <1>1, <2>2, <2>3, <2>6, AdvanceKeeps DEF IndInv, clientVars, k
  <2>8. AdapterInv'
    BY <1>2, <2>2, <2>3 DEF IndInv, AdapterInv, adapterVars
  <2> QED
    BY <2>3, <2>7, <2>8 DEF IndInv
<1>4. CASE ~ configured
  <2>1. UNCHANGED brokerVars /\ Advance(t, <<>>)
    BY <1>4 DEF SubscribeChannel
  <2>2. BrokerInv'
    BY <1>1, <2>1 DEF IndInv, BrokerInv, brokerVars
  <2>3. <<>> \in Seq(Items)
    OBVIOUS
  <2>4. WorkInv' /\ GoneInv'
    BY <1>1, <2>1, <2>3, AdvanceKeeps DEF IndInv, clientVars, brokerVars
  <2>5. AdapterInv'
    BY <2>1 DEF IndInv, AdapterInv, adapterVars, brokerVars
  <2> QED
    BY <2>2, <2>4, <2>5 DEF IndInv
<1> QED
  BY <1>3, <1>4

LEMMA DescribeStep ==
  ASSUME IndInv, NEW t \in Threads, DescribeChannel(t), UNCHANGED adapterVars
  PROVE  IndInv'
<1>1. /\ pc[t] = "call" /\ work[t].call \in RequestCalls /\ work[t].rest # <<>>
      /\ Advance(t, <<>>) /\ After(t, "call") /\ UNCHANGED <<configured, route, clientVars>>
  BY DEF DescribeChannel, Inside, RequestCalls, PubsubCalls, CometCalls
<1>2. BrokerInv' /\ Len(stream') = Len(stream) /\ registered' \subseteq registered
  <2>1. CASE configured
    <3>1. Direct!Describe(work[t].conn, {Here(t)})
      BY <2>1 DEF DescribeChannel
    <3> QED
      BY <1>1, <3>1, DescribeKeeps DEF IndInv
  <2>2. CASE ~ configured
    BY <1>1, <2>2 DEF DescribeChannel, IndInv, BrokerInv
  <2> QED
    BY <2>1, <2>2
<1>3. WorkInv' /\ GoneInv'
  <2>1. <<>> \in Seq(Items)
    OBVIOUS
  <2> QED
    BY <1>1, <1>2, <2>1, AdvanceKeeps DEF IndInv, clientVars
<1>4. AdapterInv'
  BY <1>1, <1>2 DEF IndInv, AdapterInv, adapterVars
<1> QED
  BY <1>2, <1>3, <1>4 DEF IndInv

LEMMA LoadStep ==
  ASSUME IndInv, NEW t \in Threads, LoadChannel(t), UNCHANGED adapterVars
  PROVE  IndInv'
<1> DEFINE c == Here(t)
           items == IF configured THEN <<Item(c, 0, Direct!From(c), Direct!Held(c))>> ELSE <<>>
<1>1. /\ pc[t] = "call" /\ work[t].call \in RequestCalls /\ work[t].rest # <<>>
      /\ Advance(t, items) /\ After(t, "call")
      /\ UNCHANGED <<configured, brokerVars, clientVars>>
  BY DEF LoadChannel, Inside, RequestCalls, PubsubCalls, CometCalls
<1>2. c \in Channels
  BY <1>1, AtChannel DEF IndInv
<1>3. Item(c, 0, Direct!From(c), Direct!Held(c)) \in Items
  BY <1>2, HeldType DEF IndInv, Item, Items
<1>4. items \in Seq(Items)
  BY <1>3
<1> HIDE DEF items
<1>5. WorkInv' /\ GoneInv'
  BY <1>1, <1>4, AdvanceKeeps DEF IndInv, clientVars, brokerVars
<1>6. BrokerInv' /\ AdapterInv'
  BY <1>1 DEF IndInv, BrokerInv, AdapterInv, adapterVars, brokerVars
<1> QED
  BY <1>5, <1>6 DEF IndInv

\* The answer, or that there is none.
LEMMA RespondStep ==
  ASSUME IndInv, NEW t \in Threads, NEW res, Respond(t, res), UNCHANGED adapterVars
  PROVE  IndInv'
<1>1. /\ pc[t] = "answer" /\ pc' = [pc EXCEPT ![t] = "idle"]
      /\ work' = [work EXCEPT ![t] = NoWork]
      /\ UNCHANGED <<configured, brokerVars, link, adapterVars>>
      /\ answers' = [answers EXCEPT ![work[t].no] = @ + 1]
  BY DEF Respond, Goto, Answer
<1>2. work[t] \in Works /\ WorkOf(t) /\ made \in Nat
  BY DEF IndInv, WorkInv, AdapterInv
<1>3. work[t].call \in RequestCalls /\ work[t].no \in DOMAIN answers
  BY <1>1, <1>2 DEF WorkOf, Works
<1>4. answers' \in Seq(Nat) /\ DOMAIN answers' = DOMAIN answers
  <2>1. answers \in Seq(Nat)
    BY DEF IndInv, WorkInv
  <2> QED
    BY <1>1, <1>3, <2>1
<1>5. /\ NoWork \in Works /\ NoWork.call = "" /\ NoWork.conn = 0 /\ NoWork.peer = 0
  BY NoWorkType
<1>6. work' \in [Threads -> Works] /\ work'[t] = NoWork
      /\ pc' \in [Threads -> Labels] /\ pc'[t] = "idle"
  BY <1>1, <1>5 DEF IndInv, WorkInv, Labels
<1>7. Alone(t)
  BY <1>1 DEF Alone, IndInv, WorkInv
<1>8. WorkOf(t)'
  BY <1>1, <1>2, <1>6, IdleWork DEF adapterVars
<1>9. WorkInv'
  BY <1>1, <1>4, <1>6, <1>7, <1>8, WorkKeeps DEF IndInv, WorkInv, adapterVars
<1>10. GoneInv'
  BY <1>1, <1>3, <1>5, <1>6, <1>7, RequestGone DEF IndInv, adapterVars, brokerVars
<1>11. BrokerInv' /\ AdapterInv'
  BY <1>1 DEF IndInv, BrokerInv, AdapterInv, adapterVars, brokerVars
<1> QED
  BY <1>9, <1>10, <1>11 DEF IndInv

LEMMA FindAdapterStep ==
  ASSUME IndInv, NEW t \in Threads, FindAdapter(t)
  PROVE  IndInv'
<1> DEFINE k == work[t].conn
<1>1. /\ pc[t] = "adapter" /\ pc' = [pc EXCEPT ![t] = "target"]
      /\ work' = [work EXCEPT ![t].peer = adapters'[k]]
      /\ UNCHANGED <<configured, brokerVars, clientVars, target, late>>
  BY DEF FindAdapter, Goto
<1>2. work[t] \in Works /\ WorkOf(t) /\ made \in Nat
  BY DEF IndInv, WorkInv, AdapterInv
<1>3. work[t].call \in RequestCalls /\ k \in CometConns
  BY <1>1, <1>2 DEF WorkOf, Works
<1>4. /\ made' \in Nat /\ made <= made'
      /\ DOMAIN adapters' = DOMAIN adapters \cup {k}
      /\ adapters' \in [DOMAIN adapters' -> 1 .. made']
  <2> HIDE DEF k
  <2>1. adapters \in [DOMAIN adapters -> 1 .. made]
    BY DEF IndInv, AdapterInv
  <2>2. CASE k \in DOMAIN adapters
    <3>1. UNCHANGED <<adapters, made>>
      BY <2>2 DEF FindAdapter, k
    <3> QED
      BY <1>2, <2>1, <2>2, <3>1
  <2>3. CASE k \notin DOMAIN adapters
    <3>1. /\ made' = made + 1
          /\ adapters' = [x \in DOMAIN adapters \cup {k} |->
                             IF x = k THEN made + 1 ELSE adapters[x]]
      BY <2>3 DEF FindAdapter, k
    <3>2. made + 1 \in 1 .. made' /\ 1 .. made \subseteq 1 .. made'
      BY <1>2, <3>1
    <3>3. \A x \in DOMAIN adapters : adapters[x] \in 1 .. made'
      BY <2>1, <3>2
    <3> QED
      BY <1>2, <3>1, <3>2, <3>3
  <2> QED
    BY <2>2, <2>3
<1>5. adapters'[k] \in 0 .. made' /\ adapters'[k] \in Nat /\ 0 .. made \subseteq 0 .. made'
  BY <1>2, <1>4
<1> DEFINE a == adapters'[k]
           w == [work[t] EXCEPT !.peer = a]
<1> HIDE DEF a
<1>6. /\ w \in Works
      /\ w.call = work[t].call /\ w.conn = work[t].conn /\ w.no = work[t].no
      /\ w.part = work[t].part /\ w.peer = a
  BY <1>2, <1>5 DEF Works, a
<1>7. work' = [work EXCEPT ![t] = w]
  BY <1>1 DEF a
<1> HIDE DEF w
<1>8. work' \in [Threads -> Works] /\ work'[t] = w
      /\ pc' \in [Threads -> Labels] /\ pc'[t] = "target"
  BY <1>1, <1>6, <1>7 DEF IndInv, WorkInv, Labels
<1>9. Alone(t)
  BY <1>1, <1>7 DEF Alone, IndInv, WorkInv
<1>10. work[t].call # "" /\ work[t].call # "unreg" /\ work[t].call # "reset"
  BY <1>3 DEF RequestCalls, PubsubCalls, CometCalls
<1>11. WorkOf(t)'
  BY <1>1, <1>2, <1>3, <1>5, <1>6, <1>8, <1>10 DEF WorkOf, clientVars, a
<1>12. WorkInv'
  BY <1>1, <1>5, <1>8, <1>9, <1>11, WorkKeeps DEF IndInv, WorkInv, clientVars
<1>13. GoneInv'
  BY <1>1, <1>3, <1>4, <1>6, <1>8, <1>9, RequestGone DEF IndInv, clientVars, brokerVars
<1>14. BrokerInv'
  BY <1>1 DEF IndInv, BrokerInv, brokerVars
<1>15. AdapterInv'
  <2>1. route \in Seq(0 .. made') /\ route' = route /\ Len(stream') = Len(stream)
    <3>1. route \in Seq(0 .. made)
      BY DEF IndInv, AdapterInv
    <3>2. route \in Seq(0 .. made')
      BY <1>5, <3>1, SeqWider
    <3> QED
      BY <1>1, <3>2 DEF IndInv, AdapterInv, brokerVars
  <2> QED
    BY <1>1, <1>3, <1>4, <2>1 DEF IndInv, AdapterInv
<1> QED
  BY <1>12, <1>13, <1>14, <1>15 DEF IndInv

-----------------------------------------------------------------------------
(***************************************************************************)
(* The other steps.                                                        *)
(***************************************************************************)
LEMMA LockTargetStep ==
  ASSUME IndInv, NEW t \in Threads, LockTarget(t)
  PROVE  IndInv'
<1>1. /\ pc[t] = "target" /\ UNCHANGED <<configured, brokerVars, clientVars, work, adapterVars>>
      /\ pc' = [pc EXCEPT ![t] = IF work[t].call # "unreg" /\ work[t].rest = <<>>
                                 THEN "answer" ELSE "call"]
  BY DEF LockTarget, Goto
<1>2. work[t] \in Works /\ WorkOf(t)
  BY DEF IndInv, WorkInv
<1>3. work[t].call \in RequestCalls \cup {"unreg"}
  BY <1>1, <1>2 DEF WorkOf, Works
<1>4. pc' \in [Threads -> Labels] /\ pc'[t] \in {"answer", "call"}
      /\ (work[t].call = "unreg" => pc'[t] = "call")
  BY <1>1 DEF IndInv, WorkInv, Labels
<1>5. Alone(t)
  BY <1>1 DEF Alone, IndInv, WorkInv
<1>6. "unreg" \notin RequestCalls /\ "reset" \notin RequestCalls /\ "" \notin RequestCalls
  BY DEF RequestCalls, PubsubCalls, CometCalls
<1>7. WorkOf(t)'
  BY <1>1, <1>2, <1>3, <1>4, <1>6 DEF WorkOf, adapterVars, clientVars
<1>8. WorkInv'
  BY <1>1, <1>4, <1>5, <1>7, WorkKeeps DEF IndInv, WorkInv, adapterVars, clientVars
<1>9. BrokerInv' /\ AdapterInv'
  BY <1>1 DEF IndInv, BrokerInv, AdapterInv, adapterVars, brokerVars
<1>10. GoneInv'
  <2>1. UNCHANGED <<work, link, late, target, adapters, registered>>
    BY <1>1 DEF adapterVars, brokerVars, clientVars
  <2>2. GoneInv
    BY DEF IndInv
  <2> QED
    BY <2>1, <2>2 DEF GoneInv, Serves, Cleared, Gone, Swept
<1> QED
  BY <1>8, <1>9, <1>10 DEF IndInv

LEMMA TargetGoneStep ==
  ASSUME IndInv, NEW t \in Threads, TargetGone(t)
  PROVE  IndInv'
<1>1. /\ pc[t] = "target" /\ ~ target
      /\ UNCHANGED <<configured, brokerVars, answers, inbox, adapterVars>>
  BY DEF TargetGone
<1>2. work[t] \in Works /\ WorkOf(t) /\ made \in Nat
  BY DEF IndInv, WorkInv, AdapterInv
<1>3. work[t].call \in RequestCalls \cup {"unreg"}
  BY <1>1, <1>2 DEF WorkOf, Works
<1>4. "unreg" \notin RequestCalls /\ "reset" \notin RequestCalls /\ "" \notin RequestCalls
  BY DEF RequestCalls, PubsubCalls, CometCalls
<1>5. BrokerInv' /\ AdapterInv'
  BY <1>1 DEF IndInv, BrokerInv, AdapterInv, adapterVars, brokerVars
<1>6. CASE work[t].call = "unreg"
  <2>1. /\ link' = [link EXCEPT ![work[t].conn] = "left"]
        /\ pc' = [pc EXCEPT ![t] = "idle"]
        /\ work' = [work EXCEPT ![t] = NoWork]
    BY <1>6 DEF TargetGone, Goto
  <2>2. work[t].conn \in Conns /\ link[work[t].conn] \in {"leaving", "left"}
    BY <1>2, <1>6 DEF WorkOf
  <2>3. /\ link' \in [Conns -> {"open", "closed", "leaving", "left"}]
        /\ \A k \in Conns : link'[k] = link[k] \/ (k = work[t].conn /\ link'[k] = "left")
    BY <2>1, <2>2 DEF IndInv, WorkInv
  <2>4. /\ work' \in [Threads -> Works] /\ work'[t] = NoWork
        /\ pc' \in [Threads -> Labels] /\ pc'[t] = "idle"
    BY <2>1, NoWorkType DEF IndInv, WorkInv, Labels
  <2>5. Alone(t)
    BY <2>1 DEF Alone, IndInv, WorkInv
  <2>6. WorkOf(t)'
    BY <1>1, <1>2, <2>4, IdleWork DEF adapterVars
  <2>7. WorkInv'
    BY <1>1, <2>3, <2>4, <2>5, <2>6, WorkKeeps DEF IndInv, WorkInv, adapterVars
  <2>8. \A k : Gone(k)' => Gone(k)
    BY <1>1, <2>1, <2>2 DEF IndInv, WorkInv, Gone, adapterVars
  <2>9. \A u \in Threads : work[u].conn \in Nat
    BY DEF IndInv, WorkInv, Works
  <2>10. UNCHANGED <<registered, adapters, target>>
    BY <1>1 DEF adapterVars, brokerVars
  <2>11. GoneInv'
    BY <1>1, <2>4, <2>5, <2>8, <2>9, <2>10, IdleServes, GoneKeeps DEF IndInv
  <2> QED
    BY <1>5, <2>7, <2>11 DEF IndInv
<1>7. CASE work[t].call # "unreg"
  <2> DEFINE w == [work[t] EXCEPT !.rest = <<>>, !.refused = work[t].call # "mpublish"]
  <2>1. /\ UNCHANGED link
        /\ pc' = [pc EXCEPT ![t] = "answer"]
        /\ work' = [work EXCEPT ![t] = w]
    BY <1>7 DEF TargetGone, Goto
  <2>2. <<>> \in Seq(Channels)
    OBVIOUS
  <2>3. /\ w \in Works /\ w.call = work[t].call /\ w.conn = work[t].conn /\ w.no = work[t].no
        /\ w.part = work[t].part /\ w.peer = work[t].peer
    BY <1>2, <2>2 DEF Works
  <2> HIDE DEF w
  <2>4. /\ work' \in [Threads -> Works] /\ work'[t] = w
        /\ pc' \in [Threads -> Labels] /\ pc'[t] = "answer"
    BY <2>1, <2>3 DEF IndInv, WorkInv, Labels
  <2>5. Alone(t)
    BY <2>1 DEF Alone, IndInv, WorkInv
  <2>6. work[t].call \in RequestCalls
    BY <1>3, <1>7
  <2>7. WorkOf(t)'
    BY <1>1, <1>2, <1>4, <2>3, <2>4, <2>6 DEF WorkOf, adapterVars
  <2>8. WorkInv'
    BY <1>1, <2>1, <2>4, <2>5, <2>7, WorkKeeps DEF IndInv, WorkInv, adapterVars
  <2>9. GoneInv'
    BY <1>1, <2>1, <2>3, <2>4, <2>5, <2>6, RequestGone DEF IndInv, adapterVars, brokerVars
  <2> QED
    BY <1>5, <2>8, <2>9 DEF IndInv
<1> QED
  BY <1>6, <1>7

LEMMA AllSwept ==
  ASSUME BrokerInv, NEW k, Swept(k, Len(Parts))
  PROVE  \A h \in registered : h.id # k
<1>1. DOMAIN Parts = 1 .. Len(Parts) /\ Len(Parts) \in Nat /\ UNION ToSet(Parts) = Channels
  BY PartsAssumption
<1>2. ASSUME NEW h \in registered, h.id = k
      PROVE  FALSE
  <2>1. h.channel \in Channels
    BY DEF BrokerInv
  <2>2. PICK i \in DOMAIN Parts : h.channel \in Parts[i]
    BY <1>1, <2>1 DEF ToSet
  <2> QED
    BY <1>1, <1>2, <2>2 DEF Swept
<1> QED
  BY <1>2

LEMMA EraseStep ==
  ASSUME IndInv, NEW t \in Threads, EraseAdapter(t)
  PROVE  IndInv'
<1> DEFINE k == work[t].conn
<1>1. /\ pc[t] = "erase"
      /\ adapters' = [x \in DOMAIN adapters \ {k} |-> adapters[x]]
      /\ link' = [link EXCEPT ![k] = "left"]
      /\ work' = [work EXCEPT ![t] = NoWork]
      /\ pc' = [pc EXCEPT ![t] = "idle"]
      /\ UNCHANGED <<configured, brokerVars, answers, inbox, target, made, late>>
  BY DEF EraseAdapter, Goto, Restrict
<1>2. work[t] \in Works /\ WorkOf(t) /\ made \in Nat
  BY DEF IndInv, WorkInv, AdapterInv
<1>3. /\ work[t].call = "unreg" /\ k \in Conns /\ link[k] \in {"leaving", "left"}
      /\ work[t].part = Len(Parts) + 1
  BY <1>1, <1>2 DEF WorkOf, Works
<1>4. BrokerInv' /\ AdapterInv'
  BY <1>1 DEF IndInv, BrokerInv, AdapterInv, brokerVars
<1>5. /\ link' \in [Conns -> {"open", "closed", "leaving", "left"}]
      /\ \A j \in Conns : link'[j] = link[j] \/ (j = k /\ link'[j] = "left")
  BY <1>1, <1>3 DEF IndInv, WorkInv
<1>6. /\ work' \in [Threads -> Works] /\ work'[t] = NoWork
      /\ pc' \in [Threads -> Labels] /\ pc'[t] = "idle"
  BY <1>1, NoWorkType DEF IndInv, WorkInv, Labels
<1>7. Alone(t)
  BY <1>1 DEF Alone, IndInv, WorkInv
<1>8. WorkOf(t)'
  BY <1>1, <1>2, <1>6, IdleWork
<1>9. WorkInv'
  BY <1>1, <1>5, <1>6, <1>7, <1>8, WorkKeeps DEF IndInv, WorkInv
<1>10. \A j : Gone(j)' => Gone(j)
  BY <1>1, <1>3 DEF IndInv, WorkInv, Gone
<1>11. ASSUME Gone(k) PROVE \A h \in registered : h.id # k
  <2>1. Swept(k, work[t].part - 1)
    BY <1>3, <1>11 DEF IndInv, GoneInv, Serves
  <2>2. Len(Parts) + 1 - 1 = Len(Parts)
    BY PartsAssumption
  <2>3. Swept(k, Len(Parts))
    BY <1>3, <2>1, <2>2
  <2> QED
    BY <2>3, AllSwept DEF IndInv
<1>12. k \notin DOMAIN adapters' /\ DOMAIN adapters' \subseteq DOMAIN adapters
       /\ registered' = registered
  BY <1>1 DEF brokerVars
<1>13. \A j \in Conns : Gone(j) /\ link'[j] = "left" /\ target' =>
           \/ link[j] = "left" /\ target
           \/ j \notin DOMAIN adapters' /\ \A h \in registered' : h.id # j
  BY <1>1, <1>5, <1>11, <1>12
<1>14. \A u \in Threads : work[u].conn \in Nat
  BY DEF IndInv, WorkInv, Works
<1>15. GoneInv'
  BY <1>6, <1>7, <1>10, <1>12, <1>13, <1>14, IdleServes, GoneKeeps DEF IndInv
<1> QED
  BY <1>4, <1>9, <1>15 DEF IndInv

LEMMA OtherPart ==
  ASSUME NEW w \in Works, NEW q \in Nat
  PROVE  LET x == [w EXCEPT !.part = q]
         IN  /\ x \in Works /\ x.call = w.call /\ x.conn = w.conn /\ x.no = w.no
             /\ x.part = q /\ x.peer = w.peer
BY DEF Works

\* One part of the sweep of unreg_io or of the reset.
LEMMA SweepStep ==
  ASSUME IndInv, NEW t \in Threads, UNCHANGED adapterVars,
         SweepPart(t, IF work[t].call = "unreg" /\ work[t].conn \in CometConns
                      THEN "erase" ELSE "idle")
  PROVE  IndInv'
<1> DEFINE k == work[t].conn
           p == work[t].part
           C == Parts[p]
           done == p = Len(Parts)
           leaves == work[t].call = "unreg" /\ k \in CometConns
           w == IF done /\ ~ leaves THEN NoWork ELSE [work[t] EXCEPT !.part = p + 1]
<1>1. /\ pc[t] = "call" /\ p \in DOMAIN Parts
      /\ UNCHANGED <<configured, route, answers, inbox, adapterVars>>
      /\ work' = [work EXCEPT ![t] = w]
      /\ pc' = [pc EXCEPT ![t] = IF done THEN IF leaves THEN "erase" ELSE "idle" ELSE "call"]
      /\ link' = IF done /\ work[t].call = "unreg" /\ ~ leaves
                 THEN [link EXCEPT ![k] = "left"] ELSE link
  <2> DEFINE label == IF leaves THEN "erase" ELSE "idle"
  <2>1. label = "idle" <=> ~ leaves
    OBVIOUS
  <2>2. SweepPart(t, label)
    OBVIOUS
  <2> HIDE DEF label
  <2>3. /\ pc[t] = "call" /\ p \in DOMAIN Parts
        /\ UNCHANGED <<configured, route, answers, inbox>>
        /\ work' = [work EXCEPT ![t] = IF done /\ label = "idle" THEN NoWork
                                       ELSE [work[t] EXCEPT !.part = p + 1]]
        /\ pc' = [pc EXCEPT ![t] = IF done THEN label ELSE "call"]
        /\ link' = IF done /\ work[t].call = "unreg" /\ label = "idle"
                   THEN [link EXCEPT ![k] = "left"] ELSE link
    BY <2>2, Zenon DEF SweepPart, Goto
  <2> QED
    BY <2>1, <2>3 DEF label
<1>2. work[t] \in Works /\ WorkOf(t) /\ made \in Nat
  BY DEF IndInv, WorkInv, AdapterInv
<1>3. DOMAIN Parts = 1 .. Len(Parts) /\ Len(Parts) \in Nat
  BY PartsAssumption
<1>4. p # 0 /\ p \in Nat /\ p + 1 \in Nat /\ p + 1 - 1 = p /\ k \in Nat
  <2>1. p \in Nat /\ k \in Nat
    BY <1>2 DEF Works
  <2> QED
    BY <1>1, <1>3, <2>1
<1>5. work[t].call \in {"unreg", "reset"} /\ work[t].call \notin RequestCalls
  BY <1>1, <1>2, <1>4 DEF WorkOf, Works
<1>6. /\ work[t].no = 0 /\ work[t].peer \in 0 .. made
      /\ work[t].call = "unreg" => k \in Conns /\ link[k] \in {"leaving", "left"}
  BY <1>2, <1>5 DEF WorkOf
<1>7. w = NoWork \/ /\ w \in Works /\ w.call = work[t].call /\ w.conn = k /\ w.no = 0
                    /\ w.part = p + 1 /\ w.peer = work[t].peer
  BY <1>2, <1>4, <1>6, OtherPart
<1>8. /\ done /\ ~ leaves => w = NoWork
      /\ ~ (done /\ ~ leaves) => w # NoWork
  <2>1. [work[t] EXCEPT !.part = p + 1].part = p + 1 /\ p + 1 # 0
    BY <1>2, <1>4, OtherPart
  <2> QED
    BY <2>1, NoWorkType
<1>9. /\ BrokerInv' /\ Len(stream') = Len(stream) /\ registered' \subseteq registered
      /\ work[t].call = "unreg" => \A h \in registered' : ~ (h.id = k /\ h.channel \in C)
  <2>1. CASE ~ configured
    BY <1>1, <2>1 DEF SweepPart, IndInv, BrokerInv
  <2>2. CASE configured /\ work[t].call = "reset"
    <3>1. Direct!Reset(C)
      BY <2>2 DEF SweepPart
    <3> QED
      BY <1>1, <2>2, <3>1, ResetKeeps DEF IndInv
  <2>3. CASE configured /\ work[t].call = "unreg"
    <3>1. Direct!Describe(k, C)
      BY <2>3 DEF SweepPart
    <3> HIDE DEF C, k
    <3> QED
      BY <1>1, <2>3, <3>1, DescribeKeeps DEF IndInv
  <2> QED
    BY <1>5, <2>1, <2>2, <2>3
<1> HIDE DEF w, C
<1>10. work' \in [Threads -> Works] /\ work'[t] = w
       /\ pc' \in [Threads -> Labels]
       /\ pc'[t] = IF done THEN IF leaves THEN "erase" ELSE "idle" ELSE "call"
  BY <1>1, <1>7, NoWorkType DEF IndInv, WorkInv, Labels
<1>11. Alone(t)
  BY <1>1 DEF Alone, IndInv, WorkInv
<1>12. WorkOf(t)'
  <2>1. CASE done /\ ~ leaves
    BY <1>1, <1>2, <1>8, <1>10, <2>1, IdleWork DEF adapterVars
  <2>2. CASE ~ (done /\ ~ leaves)
    <3>1. /\ work'[t].call = work[t].call /\ work'[t].conn = k /\ work'[t].no = 0
          /\ work'[t].part = p + 1 /\ work'[t].peer = work[t].peer
      BY <1>7, <1>8, <1>10, <2>2
    <3>2. pc'[t] \in {"erase", "call"} /\ (pc'[t] = "erase" => done /\ leaves)
      BY <1>10, <2>2
    <3>3. link'[k] = link[k] /\ made' = made
      BY <1>1, <2>2 DEF adapterVars
    <3>4. work[t].call = "reset" => pc'[t] = "call"
      BY <3>2
    <3> QED
      BY <1>5, <1>6, <3>1, <3>2, <3>3, <3>4 DEF WorkOf
  <2> QED
    BY <2>1, <2>2
<1>13. /\ link' \in [Conns -> {"open", "closed", "leaving", "left"}]
       /\ \A j \in Conns : link'[j] = link[j] \/
            (j = k /\ link'[j] = "left" /\ work[t].call = "unreg" /\ done /\ ~ leaves)
  BY <1>1, <1>6 DEF IndInv, WorkInv
<1>14. WorkInv'
  BY <1>1, <1>6, <1>10, <1>11, <1>12, <1>13, WorkKeeps DEF IndInv, WorkInv, adapterVars
<1>15. \A j : Gone(j)' => Gone(j)
  BY <1>1, <1>6 DEF IndInv, WorkInv, Gone, adapterVars
<1>16. \A u \in Threads : work[u].conn \in Nat
  BY DEF IndInv, WorkInv, Works
<1>17. ASSUME work[t].call = "unreg", Gone(k)
       PROVE  \A h \in registered' : h.id = k =>
                \A i \in DOMAIN Parts : i <= p => h.channel \notin Parts[i]
  <2>1. Swept(k, p - 1)
    BY <1>17 DEF IndInv, GoneInv, Serves
  <2>2. ASSUME NEW h \in registered', h.id = k, NEW i \in DOMAIN Parts, i <= p
        PROVE  h.channel \notin Parts[i]
    <3>1. CASE i = p
      BY <1>9, <1>17, <2>2, <3>1 DEF C
    <3>2. CASE i # p
      <4>1. i <= p - 1
        BY <1>3, <1>4, <2>2, <3>2
      <4> QED
        BY <1>9, <2>1, <2>2, <4>1 DEF Swept
    <3> QED
      BY <3>1, <3>2
  <2> QED
    BY <2>2
<1>18. Serves(t)'
  <2>1. CASE w = NoWork
    BY <1>10, <2>1, IdleServes
  <2>2. CASE w # NoWork
    <3>1. /\ work'[t].call = work[t].call /\ work'[t].conn = k /\ work'[t].part - 1 = p
      BY <1>4, <1>7, <1>10, <2>2
    <3>2. Gone(work[t].conn)' => Gone(k)
      BY <1>15, <3>1 DEF Gone
    <3> QED
      BY <1>5, <1>17, <3>1, <3>2 DEF Serves, Swept
  <2> QED
    BY <2>1, <2>2
<1>19. UNCHANGED <<target, adapters>>
  BY DEF adapterVars
<1>22. \A j \in Conns : Gone(j) /\ link'[j] = "left" /\ target' =>
         \/ link[j] = "left" /\ target
         \/ j \notin DOMAIN adapters' /\ \A h \in registered' : h.id # j
  <2> SUFFICES ASSUME NEW j \in Conns, Gone(j), link'[j] = "left", link[j] # "left"
               PROVE  j \notin DOMAIN adapters' /\ \A h \in registered' : h.id # j
    BY <1>19
  <2>1. j = k /\ work[t].call = "unreg" /\ done /\ k \notin CometConns
    BY <1>13
  <2>2. k \notin DOMAIN adapters'
    BY <1>19, <2>1 DEF IndInv, AdapterInv
  <2>3. ASSUME NEW h \in registered' PROVE h.id # k
    <3>1. h.channel \in UNION ToSet(Parts)
      BY <1>9, PartsAssumption DEF BrokerInv
    <3>2. PICK i \in DOMAIN Parts : h.channel \in Parts[i]
      BY <3>1 DEF ToSet
    <3>3. i <= p
      BY <1>3, <2>1
    <3> QED
      BY <1>17, <2>1, <3>2, <3>3
  <2> QED
    BY <2>1, <2>2, <2>3
<1>20. GoneInv'
  BY <1>22, <1>9, <1>10, <1>11, <1>15, <1>16, <1>17, <1>18, <1>19, GoneKeeps DEF IndInv
<1>21. AdapterInv'
  BY <1>1, <1>9 DEF IndInv, AdapterInv, adapterVars
<1> QED
  BY <1>9, <1>14, <1>20, <1>21 DEF IndInv

LEMMA IdleIsNoWork ==
  ASSUME WorkInv, NEW t \in Threads
  PROVE  pc[t] = "idle" => work[t].call = ""
BY NoWorkType DEF WorkInv, WorkOf

LEMMA ReceiveStep ==
  ASSUME IndInv, InboxInv, NEW t \in Threads, NEW r \in Requests, ReceiveRequest(t, r)
  PROVE  IndInv'
<1> DEFINE w == [NoWork EXCEPT !.no = Len(answers) + 1, !.conn = r.conn, !.call = r.call,
                               !.asked = r.channels, !.rest = r.channels,
                               !.since = Len(inbox[r.conn])]
<1>1. /\ pc[t] = "idle" /\ pc' = [pc EXCEPT ![t] = Entry(r)]
      /\ answers' = Append(answers, 0) /\ work' = [work EXCEPT ![t] = w]
      /\ UNCHANGED <<configured, brokerVars, link, inbox, target, adapters, made>>
      /\ late' = IF link[r.conn] \in {"leaving", "left"} THEN late \cup {r.conn} ELSE late
  BY DEF ReceiveRequest, Receive, Goto
<1>2. /\ r.conn \in Conns /\ r.call \in RequestCalls /\ r.channels \in Seq(Channels)
      /\ r.conn \in Nat
  BY RequestsAssumption, ConnsAssumption DEF Request, RequestCalls
<1>3. Entry(r) \in {"adapter", "target", "answer", "call"}
      /\ (Entry(r) = "adapter" => r.conn \in CometConns)
  BY DEF Entry
<1>4. /\ answers' \in Seq(Nat) /\ DOMAIN answers \subseteq DOMAIN answers'
      /\ Len(answers) + 1 \in DOMAIN answers' /\ Len(answers) + 1 \in Nat
  <2>1. answers \in Seq(Nat)
    BY DEF IndInv, WorkInv
  <2> QED
    BY <1>1, <2>1
<1>5. Len(inbox[r.conn]) \in Nat
  BY <1>2 DEF InboxInv, IsSeq
<1>6. /\ w \in Works /\ w.conn = r.conn /\ w.call = r.call /\ w.no = Len(answers) + 1
      /\ w.part = 0 /\ w.peer = 0
  BY <1>2, <1>4, <1>5, NoWorkType DEF Works
<1> HIDE DEF w
<1>7. work' \in [Threads -> Works] /\ work'[t] = w
      /\ pc' \in [Threads -> Labels] /\ pc'[t] = Entry(r)
  BY <1>1, <1>3, <1>6 DEF IndInv, WorkInv, Labels
<1>8. Alone(t)
  BY <1>1 DEF Alone, IndInv, WorkInv
<1>9. r.call # "" /\ r.call # "unreg" /\ r.call # "reset"
  BY <1>2 DEF RequestCalls, PubsubCalls, CometCalls
<1>10. 0 \in 0 .. made' /\ made' = made
  BY <1>1 DEF IndInv, AdapterInv
<1>11. WorkOf(t)'
  BY <1>2, <1>3, <1>4, <1>6, <1>7, <1>9, <1>10 DEF WorkOf
<1>12. WorkInv'
  BY <1>1, <1>4, <1>7, <1>8, <1>10, <1>11, WorkKeeps DEF IndInv, WorkInv
<1>13. \A k : Gone(k)' => Gone(k)
  BY <1>1 DEF Gone
<1>14. Serves(t)'
  BY <1>1, <1>6, <1>7 DEF Serves, Gone
<1>15. \A u \in Threads : work[u].conn \in Nat
  BY DEF IndInv, WorkInv, Works
<1>16. UNCHANGED <<registered, adapters, target, link>>
  BY <1>1 DEF brokerVars
<1>17. GoneInv'
  BY <1>8, <1>13, <1>14, <1>15, <1>16, GoneKeeps DEF IndInv
<1>18. BrokerInv' /\ AdapterInv'
  BY <1>1, <1>2 DEF IndInv, BrokerInv, AdapterInv, brokerVars
<1> QED
  BY <1>12, <1>17, <1>18 DEF IndInv

LEMMA UnregisterStep ==
  ASSUME IndInv, NEW t \in Threads, NEW k \in Conns, UnregisterConn(t, k)
  PROVE  IndInv'
<1> DEFINE w == [NoWork EXCEPT !.call = "unreg", !.conn = k, !.part = 1]
           label == IF k \in CometConns THEN "target" ELSE "call"
<1>1. /\ pc[t] = "idle" /\ link[k] = "closed" /\ link' = [link EXCEPT ![k] = "leaving"]
      /\ work' = [work EXCEPT ![t] = w] /\ pc' = [pc EXCEPT ![t] = label]
      /\ UNCHANGED <<configured, brokerVars, answers, inbox, target, adapters, made>>
      /\ late' = IF InFlight(k) THEN late \cup {k} ELSE late
  BY DEF UnregisterConn, Unregister, Goto
<1>2. k \in Nat
  BY ConnsAssumption
<1>3. /\ w \in Works /\ w.conn = k /\ w.call = "unreg" /\ w.no = 0 /\ w.part = 1 /\ w.peer = 0
  BY <1>2, NoWorkType DEF Works
<1> HIDE DEF w
<1>4. label \in {"target", "call"}
  OBVIOUS
<1> HIDE DEF label
<1>5. work' \in [Threads -> Works] /\ work'[t] = w
      /\ pc' \in [Threads -> Labels] /\ pc'[t] = label
  BY <1>1, <1>3, <1>4 DEF IndInv, WorkInv, Labels
<1>6. /\ link' \in [Conns -> {"open", "closed", "leaving", "left"}] /\ link'[k] = "leaving"
      /\ \A j \in Conns : j # k => link'[j] = link[j]
  BY <1>1 DEF IndInv, WorkInv
<1>7. Alone(t)
  BY <1>1 DEF Alone, IndInv, WorkInv
<1>8. "unreg" \notin RequestCalls /\ "" \notin RequestCalls
  BY DEF RequestCalls, PubsubCalls, CometCalls
<1>9. 0 \in 0 .. made' /\ made' = made
  BY <1>1 DEF IndInv, AdapterInv
<1>10. WorkOf(t)'
  BY <1>3, <1>4, <1>5, <1>6, <1>8, <1>9 DEF WorkOf
<1>11. WorkInv'
  BY <1>1, <1>5, <1>6, <1>7, <1>9, <1>10, WorkKeeps DEF IndInv, WorkInv
<1>12. ASSUME NEW u \in Threads PROVE Serves(u)'
  <2>1. CASE u = t
    <3>1. work'[u].part - 1 = 0 /\ work'[u].call = "unreg"
      BY <1>3, <1>5, <2>1
    <3>2. \A i \in DOMAIN Parts : ~ (i <= 0)
      BY PartsAssumption
    <3> QED
      BY <1>8, <3>1, <3>2 DEF Serves, Swept
  <2>2. CASE u # t /\ work[u].conn = k
    <3>1. work'[u] = work[u]
      BY <1>7, <2>2 DEF Alone
    <3>2. CASE pc[u] = "idle"
      <4>1. work[u].call = ""
        BY <3>2, IdleIsNoWork DEF IndInv
      <4> QED
        BY <1>8, <3>1, <4>1 DEF Serves
    <3>3. CASE pc[u] # "idle"
      <4>1. k \in late'
        BY <1>1, <2>2, <3>3 DEF InFlight
      <4> QED
        BY <2>2, <3>1, <4>1 DEF Serves, Gone
    <3> QED
      BY <3>2, <3>3
  <2>3. CASE u # t /\ work[u].conn # k
    <3>1. work'[u] = work[u] /\ Serves(u)
      BY <1>7, <2>3 DEF Alone, IndInv, GoneInv
    <3>2. Gone(work[u].conn)' => Gone(work[u].conn)
      BY <1>1, <2>3, <3>1 DEF IndInv, WorkInv, Gone
    <3>3. registered' = registered
      BY <1>1 DEF brokerVars
    <3> QED
      BY <3>1, <3>2, <3>3 DEF Serves, Swept
  <2> QED
    BY <2>1, <2>2, <2>3
<1>13. ASSUME NEW j \in Conns PROVE Cleared(j)'
  <2>1. CASE j = k
    BY <1>6, <2>1 DEF Cleared
  <2>2. CASE j # k
    BY <1>1, <1>6, <2>2 DEF Cleared, Gone, IndInv, GoneInv, brokerVars
  <2> QED
    BY <2>1, <2>2
<1>14. BrokerInv' /\ AdapterInv'
  BY <1>1 DEF IndInv, BrokerInv, AdapterInv, brokerVars
<1> QED
  BY <1>11, <1>12, <1>13, <1>14 DEF IndInv, GoneInv

LEMMA ResetStep ==
  ASSUME IndInv, NEW t \in Threads, DebugReset(t), UNCHANGED adapterVars
  PROVE  IndInv'
<1> DEFINE w == [NoWork EXCEPT !.call = "reset", !.part = 1]
<1>1. /\ pc[t] = "idle" /\ work' = [work EXCEPT ![t] = w] /\ pc' = [pc EXCEPT ![t] = "call"]
      /\ UNCHANGED <<configured, brokerVars, clientVars>>
  BY DEF DebugReset, Goto
<1>2. /\ w \in Works /\ w.call = "reset" /\ w.no = 0 /\ w.peer = 0
  BY NoWorkType DEF Works
<1> HIDE DEF w
<1>3. work' \in [Threads -> Works] /\ work'[t] = w
      /\ pc' \in [Threads -> Labels] /\ pc'[t] = "call"
  BY <1>1, <1>2 DEF IndInv, WorkInv, Labels
<1>4. Alone(t)
  BY <1>1 DEF Alone, IndInv, WorkInv
<1>5. "reset" \notin RequestCalls
  BY DEF RequestCalls, PubsubCalls, CometCalls
<1>6. 0 \in 0 .. made' /\ made' = made
  BY DEF IndInv, AdapterInv, adapterVars
<1>7. WorkOf(t)'
  BY <1>2, <1>3, <1>5, <1>6 DEF WorkOf
<1>8. WorkInv'
  BY <1>1, <1>3, <1>4, <1>6, <1>7, WorkKeeps DEF IndInv, WorkInv, clientVars
<1>9. \A k : Gone(k)' => Gone(k)
  BY <1>1 DEF Gone, clientVars, adapterVars
<1>10. Serves(t)'
  BY <1>2, <1>3, <1>5 DEF Serves
<1>11. \A u \in Threads : work[u].conn \in Nat
  BY DEF IndInv, WorkInv, Works
<1>12. UNCHANGED <<registered, adapters, target, link>>
  BY <1>1 DEF brokerVars, clientVars, adapterVars
<1>13. GoneInv'
  BY <1>4, <1>9, <1>10, <1>11, <1>12, GoneKeeps DEF IndInv
<1>14. BrokerInv' /\ AdapterInv'
  BY <1>1 DEF IndInv, BrokerInv, AdapterInv, brokerVars, adapterVars
<1> QED
  BY <1>8, <1>13, <1>14 DEF IndInv

\* Steps of no thread.
LEMMA NoThread ==
  ASSUME IndInv, UNCHANGED <<pc, work, answers, made>>, BrokerInv', AdapterInv',
         link' \in [Conns -> {"open", "closed", "leaving", "left"}],
         \A k \in Conns : link'[k] = link[k] \/ (link[k] = "open" /\ link'[k] = "closed"),
         \A k \in Conns : Gone(k)' => Gone(k),
         registered' \subseteq registered, adapters' = adapters, target' => target
  PROVE  IndInv'
<1>1. ASSUME NEW u \in Threads PROVE WorkOf(u)' /\ Serves(u)'
  <2>1. WorkOf(u) /\ Serves(u)
    BY DEF IndInv, WorkInv, GoneInv
  <2>2. WorkOf(u)'
    BY <2>1 DEF WorkOf
  <2>3. work[u].call \in RequestCalls \cup {"unreg"} => work[u].conn \in Conns
    BY <2>1 DEF WorkOf
  <2>4. \A n : Swept(work[u].conn, n) => \A h \in registered' : h.id = work[u].conn =>
          \A i \in DOMAIN Parts : i <= n => h.channel \notin Parts[i]
    BY DEF Swept
  <2>5. work[u].call \in RequestCalls \cup {"unreg"} =>
          (Gone(work[u].conn)' => Gone(work[u].conn))
    BY <2>3
  <2>6. Serves(u)'
    BY <2>1, <2>4, <2>5 DEF Serves, Swept
  <2> QED
    BY <2>2, <2>6
<1>2. \A k \in Conns : Cleared(k)'
  <2>1. \A k \in Conns : Cleared(k)
    BY DEF IndInv, GoneInv
  <2> QED
    BY <2>1 DEF Cleared
<1> QED
  BY <1>1, <1>2 DEF IndInv, WorkInv, GoneInv

LEMMA CloseStep ==
  ASSUME IndInv, NEW k \in Conns, Close(k), UNCHANGED adapterVars
  PROVE  IndInv'
<1>1. /\ link[k] = "open" /\ link' = [link EXCEPT ![k] = "closed"]
      /\ UNCHANGED <<configured, brokerVars, pc, work, answers, inbox>>
  BY DEF Close
<1>2. /\ link' \in [Conns -> {"open", "closed", "leaving", "left"}]
      /\ \A j \in Conns : link'[j] = link[j] \/ (link[j] = "open" /\ link'[j] = "closed")
  BY <1>1 DEF IndInv, WorkInv
<1>3. \A j \in Conns : Gone(j)' => Gone(j)
  BY <1>2 DEF Gone, adapterVars
<1>4. BrokerInv' /\ AdapterInv'
  BY <1>1 DEF IndInv, BrokerInv, AdapterInv, brokerVars, adapterVars
<1> QED
  BY <1>1, <1>2, <1>3, <1>4, NoThread DEF brokerVars, adapterVars

LEMMA DestroyStep ==
  ASSUME IndInv, DestroyTarget
  PROVE  IndInv'
<1>1. /\ target' = FALSE /\ registered' = {}
      /\ UNCHANGED <<configured, published, dropped, stream, route, clientVars, pc, work,
                     adapters, made, late>>
  BY DEF DestroyTarget
<1>2. BrokerInv' /\ AdapterInv'
  BY <1>1, FS_EmptySet DEF IndInv, BrokerInv, AdapterInv
<1>3. \A j \in Conns : Gone(j)' => Gone(j)
  BY <1>1 DEF Gone, clientVars
<1>4. link' \in [Conns -> {"open", "closed", "leaving", "left"}] /\ link' = link
  BY <1>1 DEF IndInv, WorkInv, clientVars
<1> QED
  BY <1>1, <1>2, <1>3, <1>4, NoThread DEF clientVars

LEMMA StutterStep == IndInv /\ UNCHANGED vars => IndInv'
<1> SUFFICES ASSUME IndInv, UNCHANGED vars PROVE IndInv'
  OBVIOUS
<1>1. UNCHANGED <<configured, registered, published, dropped, stream, route, link, answers,
                  inbox, pc, work, target, adapters, made, late>>
  BY DEF vars, brokerVars, clientVars, adapterVars
<1>2. BrokerInv' /\ AdapterInv'
  BY <1>1 DEF IndInv, BrokerInv, AdapterInv
<1>3. link' \in [Conns -> {"open", "closed", "leaving", "left"}] /\ link' = link
  BY <1>1 DEF IndInv, WorkInv
<1>4. \A j \in Conns : Gone(j)' => Gone(j)
  BY <1>1 DEF Gone
<1> QED
  BY <1>1, <1>2, <1>3, <1>4, NoThread

-----------------------------------------------------------------------------
(***************************************************************************)
(* The inboxes.                                                            *)
(***************************************************************************)
LEMMA InboxKeeps ==
  ASSUME InboxInv, NEW t \in Threads, Alone(t), Asks(t)', UNCHANGED inbox
  PROVE  InboxInv'
<1>1. ASSUME NEW u \in Threads PROVE Asks(u)'
  <2>1. CASE u = t
    BY <2>1
  <2>2. CASE u # t
    BY <2>2 DEF Alone, Asks, InboxInv
  <2> QED
    BY <2>1, <2>2
<1> QED
  BY <1>1 DEF InboxInv

\* A thread that does not load, or did not gather anything more.
LEMMA AsksKeeps ==
  ASSUME InboxInv, NEW t \in Threads,
         \/ work'[t].call # "mload"
         \/ /\ work'[t].call = work[t].call /\ work'[t].asked = work[t].asked
            /\ work'[t].res = work[t].res
            /\ work'[t].rest = work[t].rest \/ work'[t].rest = <<>>
  PROVE  Asks(t)'
<1>1. Asks(t)
  BY DEF InboxInv
<1>2. ToSet(<<>>) = {}
  BY DEF ToSet
<1> QED
  BY <1>1, <1>2 DEF Asks

LEMMA AdvanceAsks ==
  ASSUME WorkInv, InboxInv, NEW t \in Threads, work[t].rest # <<>>,
         NEW items \in Seq(Items), \A e \in ToSet(items) : e.channel = Here(t), Advance(t, items)
  PROVE  Asks(t)' /\ \A u \in Threads : u # t => work'[u] = work[u]
<1> DEFINE rest == work[t].rest
           res == work[t].res
           w == [work[t] EXCEPT !.rest = Tail(@), !.res = @ \o items]
<1>1. work[t] \in Works /\ rest \in Seq(Channels) /\ res \in Seq(Items)
  BY DEF WorkInv, Works
<1>2. work' = [work EXCEPT ![t] = w]
  BY DEF Advance
<1>3. w.call = work[t].call /\ w.asked = work[t].asked /\ w.rest = Tail(rest)
      /\ w.res = res \o items
  BY <1>1 DEF Works
<1> HIDE DEF w, rest, res
<1>4. work'[t] = w /\ \A u \in Threads : u # t => work'[u] = work[u]
  BY <1>2 DEF WorkInv
<1>5. ToSet(res \o items) = ToSet(res) \cup ToSet(items)
  BY <1>1, SeqIsSeq, Joined
<1>6. ToSet(Tail(rest)) \subseteq ToSet(rest) /\ Here(t) \in ToSet(rest)
  <2>1. rest # <<>> /\ Here(t) = Head(rest)
    BY DEF rest, Here
  <2>2. Len(rest) \in Nat /\ Len(rest) # 0 /\ DOMAIN rest = 1 .. Len(rest)
    BY <1>1, <2>1
  <2>3. /\ DOMAIN Tail(rest) = 1 .. Len(rest) - 1
        /\ \A i \in 1 .. Len(rest) - 1 : Tail(rest)[i] = rest[i + 1]
    BY <1>1, <2>1, <2>2
  <2>4. Head(rest) = rest[1] /\ 1 \in DOMAIN rest
    BY <1>1, <2>2
  <2>5. \A i \in 1 .. Len(rest) - 1 : i + 1 \in DOMAIN rest
    BY <2>2
  <2> QED
    BY <2>1, <2>3, <2>4, <2>5 DEF ToSet
<1>7. Asks(t)
  BY DEF InboxInv
<1>8. work[t].call = "mload" => ToSet(rest) \subseteq ToSet(w.asked)
                               /\ \A e \in ToSet(res) : e.channel \in ToSet(w.asked)
  BY <1>3, <1>7 DEF Asks, rest, res
<1>9. w.call = "mload" => ToSet(w.rest) \subseteq ToSet(w.asked)
                          /\ \A e \in ToSet(w.res) : e.channel \in ToSet(w.asked)
  BY <1>3, <1>5, <1>6, <1>8
<1>10. Asks(t)'
  BY <1>4, <1>9 DEF Asks
<1> QED
  BY <1>4, <1>10

\* A message is delivered, and is not an answer.
LEMMA DeliverKeeps ==
  ASSUME InboxInv, IsFiniteSet(registered), NEW reached \in SUBSET registered, NEW c,
         Deliver(c, reached), NEW t \in Threads, Alone(t), Asks(t)'
  PROVE  InboxInv'
<1> DEFINE H(k) == {g \in reached : g.id = k /\ g.channel = c}
           S(k) == {Live(c, h) : h \in H(k)}
<1>1. ASSUME NEW k \in Conns
      PROVE  /\ IsSeq(SetToSeq(S(k)))
             /\ \A m \in ToSet(SetToSeq(S(k))) : m.type = "live"
  <2> DEFINE f == [h \in H(k) |-> Live(c, h)]
             T == S(k)
  <2>1. IsFiniteSet(H(k))
    BY FS_Subset
  <2>2. f \in Surjection(H(k), T)
    <3>1. f \in [H(k) -> T] /\ \A h \in H(k) : f[h] = Live(c, h)
      OBVIOUS
    <3>2. \A m \in T : \E h \in H(k) : m = Live(c, h)
      OBVIOUS
    <3> HIDE DEF f, H
    <3> QED
      BY <3>1, <3>2 DEF Surjection
  <2>3. \A m \in T : m.type = "live"
    BY DEF Live
  <2> HIDE DEF f, H, T
  <2>4. IsFiniteSet(T)
    BY <2>1, <2>2, FS_Surjection
  <2>5. IsSeq(SetToSeq(T)) /\ ToSet(SetToSeq(T)) = T
    BY <2>4, SetToSeqLists
  <2> QED
    BY <2>3, <2>5 DEF T
<1>2. inbox' = [k \in Conns |-> inbox[k] \o SetToSeq(S(k))]
  BY DEF Deliver
<1> HIDE DEF S
<1>3. ASSUME NEW k \in Conns
      PROVE  /\ IsSeq(inbox'[k])
             /\ \A m \in ToSet(inbox'[k]) :
                  m.type = "answer" /\ m.call = "mload" => Names(m.res, ToSet(m.asked))
  <2>1. /\ IsSeq(inbox[k])
        /\ \A m \in ToSet(inbox[k]) :
             m.type = "answer" /\ m.call = "mload" => Names(m.res, ToSet(m.asked))
    BY DEF InboxInv
  <2>2. inbox'[k] = inbox[k] \o SetToSeq(S(k))
    BY <1>2
  <2>3. IsSeq(inbox'[k]) /\ ToSet(inbox'[k]) = ToSet(inbox[k]) \cup ToSet(SetToSeq(S(k)))
    BY <1>1, <2>1, <2>2, Joined
  <2> QED
    BY <1>1, <2>1, <2>3
<1>4. inbox' = [k \in Conns |-> inbox'[k]]
  BY <1>2
<1>5. ASSUME NEW u \in Threads PROVE Asks(u)'
  <2>1. CASE u = t
    BY <2>1
  <2>2. CASE u # t
    BY <2>2 DEF Alone, Asks, InboxInv
  <2> QED
    BY <2>1, <2>2
<1> QED
  BY <1>3, <1>4, <1>5 DEF InboxInv

LEMMA RespondKeeps ==
  ASSUME IndInv, InboxInv, NEW t \in Threads, RespondTo(t)
  PROVE  InboxInv'
<1> DEFINE res == IF work[t].call = "mload" /\ ~ work[t].refused
                  THEN LoadList(work[t].asked, work[t].res)
                  ELSE work[t].res
           k == work[t].conn
           m == [type  |-> IF work[t].refused THEN "null" ELSE "answer",
                 call  |-> work[t].call, asked |-> work[t].asked,
                 since |-> work[t].since, res   |-> res]
<1>1. /\ pc' = [pc EXCEPT ![t] = "idle"] /\ work' = [work EXCEPT ![t] = NoWork]
      /\ inbox' = IF link[k] = "open" THEN [inbox EXCEPT ![k] = Append(@, m)] ELSE inbox
  BY DEF RespondTo, Respond, Answer, Goto
<1>2. Alone(t) /\ work'[t] = NoWork
  BY <1>1 DEF Alone, IndInv, WorkInv
<1>3. Asks(t)'
  BY <1>2, NoWorkType, AsksKeeps
<1>4. m.type = "answer" /\ m.call = "mload" => Names(m.res, ToSet(m.asked))
  <2> SUFFICES ASSUME work[t].call = "mload", ~ work[t].refused
               PROVE  Names(LoadList(work[t].asked, work[t].res), ToSet(work[t].asked))
    OBVIOUS
  <2>1. work[t].asked \in Seq(Channels) /\ work[t].res \in Seq(Items)
    BY DEF IndInv, WorkInv, Works
  <2>2. IsSeq(work[t].asked) /\ IsSeq(work[t].res)
    BY <2>1, SeqIsSeq
  <2>3. \A e \in ToSet(work[t].res) : e.channel \in ToSet(work[t].asked)
    BY DEF InboxInv, Asks
  <2> QED
    BY <2>2, <2>3, LoadListNames
<1> HIDE DEF m
<1>5. CASE link[k] # "open"
  BY <1>1, <1>2, <1>3, <1>5, InboxKeeps
<1>6. CASE link[k] = "open"
  <2>1. inbox' = [inbox EXCEPT ![k] = Append(inbox[k], m)]
    BY <1>1, <1>6
  <2>2. ASSUME NEW j \in Conns
        PROVE  /\ IsSeq(inbox'[j])
               /\ \A x \in ToSet(inbox'[j]) :
                    x.type = "answer" /\ x.call = "mload" => Names(x.res, ToSet(x.asked))
    <3>1. /\ IsSeq(inbox[j])
          /\ \A x \in ToSet(inbox[j]) :
               x.type = "answer" /\ x.call = "mload" => Names(x.res, ToSet(x.asked))
      BY DEF InboxInv
    <3>2. CASE j = k
      <4>1. inbox'[j] = Append(inbox[j], m)
        BY <2>1, <3>2 DEF InboxInv
      <4>2. Append(inbox[j], m) = inbox[j] \o <<m>>
        BY <3>1 DEF IsSeq
      <4>3. IsSeq(inbox'[j]) /\ ToSet(inbox'[j]) = ToSet(inbox[j]) \cup {m}
        BY <3>1, <4>1, <4>2, OneIsSeq, Joined
      <4> QED
        BY <1>4, <3>1, <4>3
    <3>3. CASE j # k
      <4>1. inbox'[j] = inbox[j]
        BY <2>1, <3>3 DEF InboxInv
      <4> QED
        BY <3>1, <4>1
    <3> QED
      BY <3>2, <3>3
  <2>3. inbox' = [j \in Conns |-> inbox'[j]]
    BY <2>1 DEF InboxInv
  <2>4. ASSUME NEW u \in Threads PROVE Asks(u)'
    <3>1. CASE u = t
      BY <1>3, <3>1
    <3>2. CASE u # t
      BY <1>2, <3>2, SMTT(90) DEF Alone, Asks, InboxInv
    <3> QED
      BY <3>1, <3>2
  <2> QED
    BY <2>2, <2>3, <2>4 DEF InboxInv
<1> QED
  BY <1>5, <1>6

LEMMA DomainAlone ==
  ASSUME WorkInv, NEW t \in Threads, Step(t)
  PROVE  Alone(t)
BY DEF Alone, WorkInv, Step, DomainStep, PublishTopic, SubscribeChannel, DescribeChannel,
       LoadChannel, SweepPart, RespondTo, Respond, FindAdapter, LockTarget, TargetGone,
       EraseAdapter, Advance, After, Goto

LEMMA StepInbox ==
  ASSUME IndInv, InboxInv, NEW t \in Threads, Step(t)
  PROVE  InboxInv'
<1>1. Alone(t) /\ WorkInv /\ work[t] \in Works /\ work \in [Threads -> Works]
  BY DomainAlone DEF IndInv, WorkInv
<1>2. CASE PublishTopic(t, Reached, IF work[t].call = "mpublish" THEN "target" ELSE "call")
  <2>1. /\ work[t].rest # <<>> /\ Advance(t, <<>>)
        /\ Deliver(Here(t), Reached) \/ UNCHANGED inbox
    BY <1>2 DEF PublishTopic, Inside
  <2>2. <<>> \in Seq(Items) /\ ToSet(<<>>) = {}
    BY DEF ToSet
  <2>3. Asks(t)'
    BY <1>1, <2>1, <2>2, AdvanceAsks
  <2>4. Reached \in SUBSET registered /\ IsFiniteSet(registered)
    BY DEF Reached, IndInv, BrokerInv
  <2> QED
    BY <1>1, <2>1, <2>3, <2>4, DeliverKeeps, InboxKeeps
<1>3. CASE SubscribeChannel(t)
  <2>1. PICK items : /\ Advance(t, items) /\ UNCHANGED inbox
                     /\ work'[t] = [work[t] EXCEPT !.rest = Tail(@), !.res = @ \o items]
    BY <1>1, <1>3 DEF SubscribeChannel, Advance, clientVars
  <2>2. work[t].call = "subscribe"
    BY <1>3 DEF SubscribeChannel, Inside
  <2>3. work'[t].call = work[t].call
    BY <1>1, <2>1 DEF Works
  <2>4. Asks(t)'
    BY <2>2, <2>3, AsksKeeps
  <2> QED
    BY <1>1, <2>1, <2>4, InboxKeeps
<1>4. CASE DescribeChannel(t)
  <2>1. work[t].rest # <<>> /\ Advance(t, <<>>) /\ UNCHANGED inbox
    BY <1>4 DEF DescribeChannel, Inside, clientVars
  <2>2. <<>> \in Seq(Items) /\ ToSet(<<>>) = {}
    BY DEF ToSet
  <2>3. Asks(t)'
    BY <1>1, <2>1, <2>2, AdvanceAsks
  <2> QED
    BY <1>1, <2>1, <2>3, InboxKeeps
<1>5. CASE LoadChannel(t)
  <2> DEFINE e == Item(Here(t), 0, Direct!From(Here(t)), Direct!Held(Here(t)))
             items == IF configured THEN <<e>> ELSE <<>>
  <2>1. work[t].rest # <<>> /\ Advance(t, items) /\ UNCHANGED inbox
    BY <1>5 DEF LoadChannel, Inside, clientVars
  <2>2. e \in Items /\ e.channel = Here(t)
    BY <1>1, <2>1, AtChannel, HeldType DEF IndInv, Item, Items
  <2> HIDE DEF e
  <2>3. items \in Seq(Items) /\ \A x \in ToSet(items) : x.channel = Here(t)
    BY <2>2 DEF ToSet
  <2> HIDE DEF items
  <2>4. Asks(t)'
    BY <1>1, <2>1, <2>3, AdvanceAsks
  <2> QED
    BY <1>1, <2>1, <2>4, InboxKeeps
<1>6. CASE SweepPart(t, IF work[t].call = "unreg" /\ work[t].conn \in CometConns
                        THEN "erase" ELSE "idle")
  <2>1. UNCHANGED inbox
    BY <1>6 DEF SweepPart
  <2>2. PICK q : work'[t] = NoWork \/ work'[t] = [work[t] EXCEPT !.part = q]
    BY <1>1, <1>6 DEF SweepPart
  <2>3. \/ work'[t] = NoWork
        \/ /\ work'[t].call = work[t].call /\ work'[t].asked = work[t].asked
           /\ work'[t].res = work[t].res /\ work'[t].rest = work[t].rest
    BY <1>1, <2>2 DEF Works
  <2>4. Asks(t)'
    BY <2>3, NoWorkType, AsksKeeps
  <2> QED
    BY <1>1, <2>1, <2>4, InboxKeeps
<1>7. CASE RespondTo(t)
  BY <1>7, RespondKeeps
<1>8. CASE FindAdapter(t) \/ LockTarget(t) \/ TargetGone(t) \/ EraseAdapter(t)
  <2>1. UNCHANGED inbox
    BY <1>8 DEF FindAdapter, LockTarget, TargetGone, EraseAdapter, clientVars
  <2>2. \/ work'[t] = NoWork \/ work'[t] = work[t]
        \/ \E a : work'[t] = [work[t] EXCEPT !.peer = a]
        \/ \E b : work'[t] = [work[t] EXCEPT !.rest = <<>>, !.refused = b]
    BY <1>1, <1>8 DEF FindAdapter, LockTarget, TargetGone, EraseAdapter
  <2>3. \/ work'[t] = NoWork
        \/ /\ work'[t].call = work[t].call /\ work'[t].asked = work[t].asked
           /\ work'[t].res = work[t].res
           /\ work'[t].rest = work[t].rest \/ work'[t].rest = <<>>
    BY <1>1, <2>2 DEF Works
  <2>4. Asks(t)'
    BY <2>3, NoWorkType, AsksKeeps
  <2> QED
    BY <1>1, <2>1, <2>4, InboxKeeps
<1> QED
  BY <1>2, <1>3, <1>4, <1>5, <1>6, <1>7, <1>8 DEF Step, DomainStep

-----------------------------------------------------------------------------
(***************************************************************************)
(* Every step keeps the invariant.                                         *)
(***************************************************************************)
LEMMA InitIndInv == Init => IndInv /\ InboxInv
<1> SUFFICES ASSUME Init PROVE IndInv /\ InboxInv
  OBVIOUS
<1>1. /\ configured \in BOOLEAN /\ registered = {} /\ stream = <<>> /\ route = <<>>
      /\ published = [c \in Channels |-> 0] /\ dropped = [c \in Channels |-> 0]
      /\ link = [k \in Conns |-> "open"] /\ pc = [t \in Threads |-> "idle"]
      /\ work = [t \in Threads |-> NoWork] /\ answers = <<>> /\ inbox = [k \in Conns |-> <<>>]
      /\ target = TRUE /\ adapters = [k \in {} |-> 0] /\ made = 0 /\ late = {}
  BY BoundsAssumption DEF Init, DomainInit, Direct!Init
<1>2. BrokerInv
  <2>1. stream \in Seq([from : Nat, got : Seq(Nat)])
    BY <1>1
  <2> QED
    BY <1>1, <2>1, FS_EmptySet DEF BrokerInv
<1>3. AdapterInv
  BY <1>1 DEF AdapterInv
<1>4. WorkInv
  <2>1. "" \notin RequestCalls /\ 0 \in 0 .. made
    BY <1>1 DEF RequestCalls, PubsubCalls, CometCalls
  <2>2. ASSUME NEW t \in Threads PROVE WorkOf(t)
    <3>1. pc[t] = "idle" /\ work[t] = NoWork
      BY <1>1
    <3> QED
      BY <2>1, <3>1, NoWorkType DEF WorkOf
  <2>3. answers \in Seq(Nat)
    BY <1>1
  <2>4. link \in [Conns -> {"open", "closed", "leaving", "left"}]
    BY <1>1
  <2>5. pc \in [Threads -> Labels] /\ work \in [Threads -> Works]
    BY <1>1, NoWorkType DEF Labels
  <2> QED
    BY <2>2, <2>3, <2>4, <2>5 DEF WorkInv
<1>5. GoneInv
  <2>1. \A t \in Threads : Serves(t)
    BY <1>1, NoWorkType DEF Serves, RequestCalls, PubsubCalls, CometCalls
  <2> QED
    BY <1>1, <2>1 DEF GoneInv, Cleared
<1>6. InboxInv
  <2>1. \A t \in Threads : Asks(t)
    BY <1>1, NoWorkType DEF Asks
  <2>2. IsSeq(<<>>) /\ ToSet(<<>>) = {}
    BY DEF IsSeq, ToSet
  <2> QED
    BY <1>1, <2>1, <2>2 DEF InboxInv
<1> QED
  BY <1>2, <1>3, <1>4, <1>5, <1>6 DEF IndInv

LEMMA StepIndInv ==
  ASSUME IndInv, NEW t \in Threads, Step(t)
  PROVE  IndInv'
<1>1. CASE DomainStep(t) /\ UNCHANGED adapterVars
  <2> DEFINE label == IF work[t].call = "mpublish" THEN "target" ELSE "call"
  <2>1. CASE PublishTopic(t, Reached, label)
    <3>1. label \in {"target", "call"}
      OBVIOUS
    <3> HIDE DEF label
    <3> QED
      BY <1>1, <2>1, <3>1, PublishStep
  <2>2. CASE SubscribeChannel(t)
    BY <1>1, <2>2, SubscribeStep
  <2>3. CASE DescribeChannel(t)
    BY <1>1, <2>3, DescribeStep
  <2>4. CASE LoadChannel(t)
    BY <1>1, <2>4, LoadStep
  <2>5. CASE SweepPart(t, IF work[t].call = "unreg" /\ work[t].conn \in CometConns
                          THEN "erase" ELSE "idle")
    BY <1>1, <2>5, SweepStep
  <2>6. CASE RespondTo(t)
    BY <1>1, <2>6, RespondStep DEF RespondTo
  <2> QED
    BY <1>1, <2>1, <2>2, <2>3, <2>4, <2>5, <2>6 DEF DomainStep
<1>2. CASE FindAdapter(t)
  BY <1>2, FindAdapterStep
<1>3. CASE LockTarget(t)
  BY <1>3, LockTargetStep
<1>4. CASE TargetGone(t)
  BY <1>4, TargetGoneStep
<1>5. CASE EraseAdapter(t)
  BY <1>5, EraseStep
<1> QED
  BY <1>1, <1>2, <1>3, <1>4, <1>5 DEF Step

LEMMA NextIndInv == IndInv /\ InboxInv /\ [Next]_vars => IndInv' /\ InboxInv'
<1> SUFFICES ASSUME IndInv, InboxInv, [Next]_vars PROVE IndInv' /\ InboxInv'
  OBVIOUS
<1>1. ASSUME NEW t \in Threads, Step(t) PROVE IndInv' /\ InboxInv'
  BY <1>1, StepIndInv, StepInbox
<1>2. ASSUME NEW t \in Threads, NEW r \in Requests, ReceiveRequest(t, r)
      PROVE  IndInv' /\ InboxInv'
  <2> DEFINE w == [NoWork EXCEPT !.no = Len(answers) + 1, !.conn = r.conn, !.call = r.call,
                                 !.asked = r.channels, !.rest = r.channels,
                                 !.since = Len(inbox[r.conn])]
  <2>1. /\ work' = [work EXCEPT ![t] = w] /\ UNCHANGED inbox
        /\ pc' = [pc EXCEPT ![t] = Entry(r)]
    BY <1>2 DEF ReceiveRequest, Receive, Goto
  <2>2. Alone(t) /\ work'[t] = w
    BY <2>1 DEF Alone, IndInv, WorkInv
  <2>3. w.asked = r.channels /\ w.rest = r.channels /\ w.res = <<>>
    BY DEF NoWork
  <2>4. Asks(t)'
    BY <2>2, <2>3 DEF Asks, ToSet
  <2> QED
    BY <1>2, <2>1, <2>2, <2>4, ReceiveStep, InboxKeeps
<1>3. ASSUME NEW t \in Threads, NEW k \in Conns, UnregisterConn(t, k)
      PROVE  IndInv' /\ InboxInv'
  <2> DEFINE w == [NoWork EXCEPT !.call = "unreg", !.conn = k, !.part = 1]
  <2>1. /\ work' = [work EXCEPT ![t] = w] /\ UNCHANGED inbox
        /\ pc' = [pc EXCEPT ![t] = IF k \in CometConns THEN "target" ELSE "call"]
    BY <1>3 DEF UnregisterConn, Unregister, Goto
  <2>2. Alone(t) /\ work'[t] = w
    BY <2>1 DEF Alone, IndInv, WorkInv
  <2>3. w.call # "mload"
    BY DEF NoWork
  <2>4. Asks(t)'
    BY <2>2, <2>3, AsksKeeps
  <2> QED
    BY <1>3, <2>1, <2>2, <2>4, UnregisterStep, InboxKeeps
<1>4. ASSUME NEW t \in Threads, DebugReset(t), UNCHANGED adapterVars
      PROVE  IndInv' /\ InboxInv'
  <2> DEFINE w == [NoWork EXCEPT !.call = "reset", !.part = 1]
  <2>1. /\ work' = [work EXCEPT ![t] = w] /\ UNCHANGED inbox
        /\ pc' = [pc EXCEPT ![t] = "call"]
    BY <1>4 DEF DebugReset, Goto, clientVars
  <2>2. Alone(t) /\ work'[t] = w
    BY <2>1 DEF Alone, IndInv, WorkInv
  <2>3. w.call # "mload"
    BY DEF NoWork
  <2>4. Asks(t)'
    BY <2>2, <2>3, AsksKeeps
  <2> QED
    BY <1>4, <2>1, <2>2, <2>4, ResetStep, InboxKeeps
<1>5. ASSUME UNCHANGED <<work, inbox>> PROVE InboxInv'
  BY <1>5 DEF InboxInv, Asks
<1>6. ASSUME NEW k \in Conns, Close(k), UNCHANGED adapterVars
      PROVE  IndInv' /\ InboxInv'
  BY <1>5, <1>6, CloseStep DEF Close
<1>7. CASE DestroyTarget
  BY <1>5, <1>7, DestroyStep DEF DestroyTarget, clientVars
<1>8. CASE UNCHANGED vars
  BY <1>5, <1>8, StutterStep DEF vars, clientVars
<1> QED
  BY <1>1, <1>2, <1>3, <1>4, <1>6, <1>7, <1>8 DEF Next, Quiet

(***************************************************************************)
(* The invariant of the clients and the adapters, for every number of      *)
(* threads and connections, over all the requests they may send.           *)
(***************************************************************************)
THEOREM CometInvariance == Spec => [](IndInv /\ InboxInv)
BY InitIndInv, NextIndInv, PTL DEF Spec

(***************************************************************************)
(* The types, among them that an acknowledged subscription has a route and *)
(* that every thread that works serves a request that came in.             *)
(***************************************************************************)
THEOREM CometTypeCorrect == Spec => []TypeOK
<1>1. IndInv => TypeOK
  <2> SUFFICES ASSUME IndInv PROVE TypeOK
    OBVIOUS
  <2>1. DOMAIN stream = 1 .. Len(stream) /\ DOMAIN route = 1 .. Len(route)
    BY DEF IndInv, BrokerInv, AdapterInv
  <2>2. registered \subseteq [channel : Channels, id : Conns, sub : DOMAIN stream]
    BY <2>1 DEF IndInv, BrokerInv
  <2>3. DOMAIN route = DOMAIN stream /\ Range(route) \subseteq 0 .. made
    BY <2>1 DEF IndInv, AdapterInv, Range
  <2>4. \A t \in Threads : work[t].no \in {0} \cup DOMAIN answers /\ work[t].peer \in 0 .. made
    BY NoWorkType DEF IndInv, WorkInv, WorkOf, Works
  <2>5. Range(adapters) \subseteq 1 .. made
    BY DEF IndInv, AdapterInv, Range
  <2> QED
    BY <2>2, <2>3, <2>4, <2>5 DEF TypeOK, IndInv, BrokerInv, AdapterInv, WorkInv
<1> QED
  BY <1>1, CometInvariance, PTL

(***************************************************************************)
(* After unreg_io nothing of a connection is left, neither a handler in    *)
(* any part of the channels nor an adapter, unless a request of it raced   *)
(* with unreg_io or came after it.                                         *)
(***************************************************************************)
THEOREM LeavesNothing == Spec => []NothingLeftBehind
<1>1. IndInv => NothingLeftBehind
  BY DEF IndInv, GoneInv, Cleared, Gone, NothingLeftBehind
<1> QED
  BY <1>1, CometInvariance, PTL

(***************************************************************************)
(* The answer to mload has each channel that was asked for once, whatever  *)
(* channels are asked for and however often one is named.                  *)
(***************************************************************************)
THEOREM MloadAnswersEachOnce == Spec => []EachChannelOnce
<1>1. InboxInv => EachChannelOnce
  <2> SUFFICES ASSUME InboxInv, NEW k \in Conns, NEW i \in Answers(k, {"mload"})
               PROVE  LET names == [n \in DOMAIN inbox[k][i].res |-> inbox[k][i].res[n].channel]
                      IN  /\ IsInjective(names)
                          /\ ToSet(names) = ToSet(inbox[k][i].asked)
    BY DEF EachChannelOnce
  <2> DEFINE m == inbox[k][i]
             names == [n \in DOMAIN m.res |-> m.res[n].channel]
  <2>1. m \in ToSet(inbox[k]) /\ m.type = "answer" /\ m.call = "mload"
    BY DEF Answers, ToSet
  <2>2. Names(m.res, ToSet(m.asked))
    BY <2>1 DEF InboxInv
  <2> HIDE DEF m
  <2>3. IsInjective(names)
    BY <2>2 DEF IsInjective, Names
  <2>4. ToSet(names) = ToSet(m.asked)
    <3>1. ToSet(names) = {m.res[n].channel : n \in DOMAIN m.res}
      BY DEF ToSet
    <3> HIDE DEF names
    <3>2. \A c \in ToSet(m.asked) : c \in {m.res[n].channel : n \in DOMAIN m.res}
      BY <2>2 DEF Names
    <3>3. \A c \in {m.res[n].channel : n \in DOMAIN m.res} : c \in ToSet(m.asked)
      BY <2>2 DEF Names
    <3> QED
      BY <3>1, <3>2, <3>3
  <2> QED
    BY <2>3, <2>4 DEF m
<1> QED
  BY <1>1, CometInvariance, PTL
-----------------------------------------------------------------------------
(***************************************************************************)
(* What came for a subscription.                                           *)
(***************************************************************************)
\* s has the numbers after a up to b, each once.
Exactly(s, a, b) ==
  s \in Seq(Nat) /\ a \in Nat /\ b \in Nat /\ a <= b /\ IsInjective(s) /\ ToSet(s) = (a + 1) .. b

LEMMA ExactlyJoined ==
  ASSUME NEW s, NEW u, NEW a, NEW b, NEW c,
         \/ Exactly(s, a, b) /\ Exactly(u, b, c)
         \/ Exactly(u, a, b) /\ Exactly(s, b, c)
  PROVE  Exactly(s \o u, a, c)
<1> DEFINE r == s \o u
<1>1. s \in Seq(Nat) /\ u \in Seq(Nat) /\ IsInjective(s) /\ IsInjective(u)
      /\ a \in Nat /\ b \in Nat /\ c \in Nat /\ a <= b /\ b <= c
  BY DEF Exactly
<1>2. ToSet(s) \cap ToSet(u) = {} /\ ToSet(s) \cup ToSet(u) = (a + 1) .. c
  <2>1. \/ ToSet(s) = (a + 1) .. b /\ ToSet(u) = (b + 1) .. c
        \/ ToSet(u) = (a + 1) .. b /\ ToSet(s) = (b + 1) .. c
    BY DEF Exactly
  <2> QED
    BY <1>1, <2>1
<1>3. IsSeq(s) /\ IsSeq(u)
  BY <1>1, SeqIsSeq
<1>4. ToSet(r) = (a + 1) .. c /\ r \in Seq(Nat)
  <2>1. ToSet(r) = ToSet(s) \cup ToSet(u)
    BY <1>3, Joined, Zenon
  <2>2. r \in Seq(Nat)
    BY <1>1
  <2> QED
    BY <1>2, <2>1, <2>2, Zenon
<1>5. /\ Len(s) \in Nat /\ Len(u) \in Nat
      /\ DOMAIN r = 1 .. Len(s) + Len(u) /\ DOMAIN s = 1 .. Len(s) /\ DOMAIN u = 1 .. Len(u)
      /\ \A i \in 1 .. Len(s) + Len(u) : r[i] = IF i <= Len(s) THEN s[i] ELSE u[i - Len(s)]
  BY <1>1
<1> HIDE DEF r
<1>6. \A i \in DOMAIN r : \/ i \in DOMAIN s /\ r[i] = s[i] /\ s[i] \in ToSet(s)
                          \/ i - Len(s) \in DOMAIN u /\ r[i] = u[i - Len(s)]
                             /\ u[i - Len(s)] \in ToSet(u)
  BY <1>5 DEF ToSet
<1>7. ASSUME NEW i \in DOMAIN r, NEW j \in DOMAIN r, r[i] = r[j]
      PROVE  i = j
  <2>1. i \in Int /\ j \in Int /\ Len(s) \in Int
    BY <1>5
  <2>2. CASE i \in DOMAIN s /\ r[i] = s[i] /\ j \in DOMAIN s /\ r[j] = s[j]
    BY <1>1, <1>7, <2>2 DEF IsInjective
  <2>3. CASE /\ i - Len(s) \in DOMAIN u /\ r[i] = u[i - Len(s)]
             /\ j - Len(s) \in DOMAIN u /\ r[j] = u[j - Len(s)]
    <3>1. i - Len(s) = j - Len(s)
      BY <1>1, <1>7, <2>3 DEF IsInjective
    <3> QED
      BY <2>1, <3>1
  <2>4. CASE r[i] \in ToSet(s) /\ r[j] \in ToSet(u)
    BY <1>2, <1>7, <2>4
  <2>5. CASE r[j] \in ToSet(s) /\ r[i] \in ToSet(u)
    BY <1>2, <1>7, <2>5
  <2> QED
    BY <1>6, <2>2, <2>3, <2>4, <2>5
<1>8. Exactly(r, a, c)
  BY <1>1, <1>4, <1>7 DEF Exactly, IsInjective
<1> QED
  BY <1>8 DEF r

\* Nothing, and one number.
LEMMA ExactlyNone ==
  ASSUME NEW a \in Nat
  PROVE  Exactly(<<>>, a, a)
<1> DEFINE none == <<>>
<1>1. none \in Seq(Nat) /\ DOMAIN none = {} /\ (a + 1) .. a = {}
  OBVIOUS
<1> HIDE DEF none
<1>2. Exactly(none, a, a)
  BY <1>1 DEF Exactly, IsInjective, ToSet
<1> QED
  BY <1>2 DEF none

LEMMA ExactlyOne ==
  ASSUME NEW a \in Nat
  PROVE  Exactly(<<a + 1>>, a, a + 1)
<1> DEFINE one == <<a + 1>>
<1>1. one \in Seq(Nat) /\ DOMAIN one = {1} /\ one[1] = a + 1 /\ (a + 1) .. (a + 1) = {a + 1}
  OBVIOUS
<1> HIDE DEF one
<1>2. Exactly(one, a, a + 1)
  BY <1>1 DEF Exactly, IsInjective, ToSet
<1> QED
  BY <1>2 DEF one

\* The items of an answer that are for the subscription n.
Bears(res, n) == \E e \in ToSet(res) : e.sub = n

GotOf(e, n) == IF e.sub = n THEN e.got ELSE <<>>

LEMMA ItemFields ==
  ASSUME NEW res \in Seq(Items)
  PROVE  /\ DOMAIN res = 1 .. Len(res) /\ Len(res) \in Nat
         /\ \A j \in 1 .. Len(res) : /\ res[j] \in Items /\ res[j] \in ToSet(res)
                                     /\ res[j].got \in Seq(Nat)
         /\ \A e \in ToSet(res) : e \in Items
<1>1. DOMAIN res = 1 .. Len(res) /\ Len(res) \in Nat /\ \A j \in 1 .. Len(res) : res[j] \in Items
  OBVIOUS
<1>2. \A e \in Items : e.got \in Seq(Nat)
  BY DEF Items
<1> QED
  BY <1>1, <1>2, Zenon DEF ToSet

LEMMA GotForParts ==
  ASSUME NEW res \in Seq(Items), NEW n
  PROVE  LET parts == [j \in DOMAIN res |-> IF res[j].sub = n THEN res[j].got ELSE <<>>]
         IN  /\ parts \in Seq(Seq(Nat)) /\ Len(parts) = Len(res)
             /\ \A j \in 1 .. Len(res) : parts[j] = GotOf(res[j], n)
<1> DEFINE parts == [j \in DOMAIN res |-> IF res[j].sub = n THEN res[j].got ELSE <<>>]
           k == Len(res)
<1>1. /\ DOMAIN res = 1 .. k /\ k \in Nat /\ <<>> \in Seq(Nat)
      /\ \A j \in 1 .. k : res[j].got \in Seq(Nat)
  BY ItemFields
<1>2. \A j \in 1 .. k : parts[j] = GotOf(res[j], n)
  BY <1>1 DEF GotOf
<1>3. \A j \in 1 .. k : GotOf(res[j], n) \in Seq(Nat)
  BY <1>1 DEF GotOf
<1>4. parts = [j \in 1 .. k |-> parts[j]]
  BY <1>1
<1> HIDE DEF parts, k
<1>5. parts \in Seq(Seq(Nat)) /\ Len(parts) = k
  <2>1. parts \in [1 .. k -> Seq(Nat)]
    BY <1>2, <1>3, <1>4
  <2> QED
    BY <1>1, <2>1
<1> QED
  BY <1>2, <1>5 DEF parts, k

LEMMA GotForType ==
  ASSUME NEW res \in Seq(Items), NEW n
  PROVE  GotFor(res, n) \in Seq(Nat) /\ (~ Bears(res, n) => GotFor(res, n) = <<>>)
<1> DEFINE parts == [j \in DOMAIN res |-> IF res[j].sub = n THEN res[j].got ELSE <<>>]
           k == Len(res)
<1>1. /\ parts \in Seq(Seq(Nat)) /\ Len(parts) = k
      /\ \A j \in 1 .. k : parts[j] = GotOf(res[j], n)
  BY GotForParts
<1>2. k \in Nat /\ \A j \in 1 .. k : res[j] \in ToSet(res)
  BY ItemFields
<1>3. GotFor(res, n) = FlattenSeq(parts)
  BY DEF GotFor
<1> HIDE DEF parts, k
<1>4. FlattenSeq(parts) \in Seq(Nat)
  BY <1>1, <1>2, FlattenedSet
<1>5. ASSUME ~ Bears(res, n) PROVE FlattenSeq(parts) = <<>>
  <2>1. \A j \in 1 .. k : parts[j] = <<>>
    BY <1>1, <1>2, <1>5 DEF Bears, GotOf
  <2> QED
    BY <1>1, <1>2, <2>1, FlattenNone
<1> QED
  BY <1>3, <1>4, <1>5

LEMMA GotForAppend ==
  ASSUME NEW res \in Seq(Items), NEW e \in Items, NEW n
  PROVE  GotFor(Append(res, e), n) = GotFor(res, n) \o GotOf(e, n)
<1> DEFINE more == Append(res, e)
           parts == [j \in DOMAIN res |-> IF res[j].sub = n THEN res[j].got ELSE <<>>]
           all == [j \in DOMAIN more |-> IF more[j].sub = n THEN more[j].got ELSE <<>>]
           k == Len(res)
           x == GotOf(e, n)
<1>1. /\ parts \in Seq(Seq(Nat)) /\ Len(parts) = k
      /\ \A j \in 1 .. k : parts[j] = GotOf(res[j], n)
  BY GotForParts
<1>2. /\ more \in Seq(Items) /\ Len(more) = k + 1 /\ k \in Nat /\ more[k + 1] = e
      /\ \A j \in 1 .. k : more[j] = res[j]
  OBVIOUS
<1> HIDE DEF more, k
<1>3. /\ all \in Seq(Seq(Nat)) /\ Len(all) = Len(more)
      /\ \A j \in 1 .. Len(more) : all[j] = GotOf(more[j], n)
  BY <1>2, GotForParts
<1>4. GotFor(res, n) = FlattenSeq(parts) /\ GotFor(more, n) = FlattenSeq(all)
  BY DEF GotFor
<1>5. x \in Seq(Nat)
  <2>1. e.got \in Seq(Nat) /\ <<>> \in Seq(Nat)
    BY DEF Items
  <2> QED
    BY <2>1 DEF GotOf
<1> HIDE DEF parts, all
<1>6. /\ k + 1 \in 1 .. k + 1 /\ (\A j \in 1 .. k : j \in 1 .. k + 1)
      /\ \A j \in 1 .. k + 1 : j \in 1 .. k \/ j = k + 1
  BY <1>2
<1>7. all[k + 1] = x /\ \A j \in 1 .. k : all[j] = parts[j]
  BY <1>1, <1>2, <1>3, <1>6, Zenon
<1> HIDE DEF x
<1>8. all = Append(parts, x)
  BY <1>1, <1>2, <1>3, <1>5, <1>7
<1>9. FlattenSeq(all) = FlattenSeq(parts) \o x
  BY <1>1, <1>5, <1>8, FlattenAppend
<1> QED
  BY <1>4, <1>9 DEF more, x

LEMMA GotForOne ==
  ASSUME NEW e \in Items, NEW n
  PROVE  <<e>> \in Seq(Items) /\ GotFor(<<e>>, n) = GotOf(e, n)
<1> DEFINE none == <<>>
<1>1. none \in Seq(Items) /\ Append(none, e) = <<e>> /\ <<e>> \in Seq(Items) /\ ToSet(none) = {}
  BY DEF ToSet
<1>2. GotOf(e, n) \in Seq(Nat)
  <2>1. e.got \in Seq(Nat) /\ <<>> \in Seq(Nat)
    BY DEF Items
  <2> QED
    BY <2>1 DEF GotOf
<1>3. none \o GotOf(e, n) = GotOf(e, n)
  BY <1>2
<1> HIDE DEF none
<1>4. GotFor(none, n) = <<>>
  BY <1>1, GotForType DEF Bears
<1>5. GotFor(none, n) = none
  BY <1>4 DEF none
<1>6. GotFor(Append(none, e), n) = GotFor(none, n) \o GotOf(e, n)
  BY <1>1, GotForAppend
<1>7. GotFor(<<e>>, n) = none \o GotOf(e, n)
  BY <1>1, <1>5, <1>6, Zenon
<1> QED
  BY <1>1, <1>3, <1>7

\* An inbox, and what came in it for the subscription n.
Box(b) == IsSeq(b) /\ \A m \in ToSet(b) : m.res \in Seq(Items)

CameIn(b, n) == FlattenSeq([i \in DOMAIN b |-> GotFor(b[i].res, n)])

LEMMA CameInParts ==
  ASSUME NEW b, Box(b), NEW n
  PROVE  LET parts == [i \in DOMAIN b |-> GotFor(b[i].res, n)]
         IN  /\ parts \in Seq(Seq(Nat)) /\ Len(parts) = Len(b)
             /\ \A i \in 1 .. Len(b) : parts[i] = GotFor(b[i].res, n)
<1> DEFINE parts == [i \in DOMAIN b |-> GotFor(b[i].res, n)]
           k == Len(b)
<1>1. /\ DOMAIN b = 1 .. k /\ k \in Nat
      /\ \A i \in 1 .. k : b[i].res \in Seq(Items)
  BY DEF Box, IsSeq
<1>2. \A i \in 1 .. k : parts[i] = GotFor(b[i].res, n)
  BY <1>1
<1>3. \A i \in 1 .. k : GotFor(b[i].res, n) \in Seq(Nat)
  BY <1>1, GotForType
<1>4. parts = [i \in 1 .. k |-> parts[i]]
  BY <1>1
<1> HIDE DEF parts, k
<1>5. parts \in Seq(Seq(Nat)) /\ Len(parts) = k
  <2>1. parts \in [1 .. k -> Seq(Nat)]
    BY <1>2, <1>3, <1>4
  <2> QED
    BY <1>1, <2>1
<1> QED
  BY <1>2, <1>5 DEF parts, k

LEMMA CameInType ==
  ASSUME NEW b, Box(b), NEW n
  PROVE  /\ CameIn(b, n) \in Seq(Nat)
         /\ (\A m \in ToSet(b) : ~ Bears(m.res, n)) => CameIn(b, n) = <<>>
<1> DEFINE parts == [i \in DOMAIN b |-> GotFor(b[i].res, n)]
           k == Len(b)
<1>1. /\ parts \in Seq(Seq(Nat)) /\ Len(parts) = k
      /\ \A i \in 1 .. k : parts[i] = GotFor(b[i].res, n)
  BY CameInParts
<1>2. k \in Nat /\ \A i \in 1 .. k : b[i] \in ToSet(b) /\ b[i].res \in Seq(Items)
  BY DEF Box, IsSeq
<1>3. CameIn(b, n) = FlattenSeq(parts)
  BY DEF CameIn
<1> HIDE DEF parts, k
<1>4. FlattenSeq(parts) \in Seq(Nat)
  BY <1>1, <1>2, FlattenedSet
<1>5. ASSUME \A m \in ToSet(b) : ~ Bears(m.res, n) PROVE FlattenSeq(parts) = <<>>
  <2>1. \A i \in 1 .. k : parts[i] = <<>>
    BY <1>1, <1>2, <1>5, GotForType
  <2> QED
    BY <1>1, <1>2, <2>1, FlattenNone
<1> QED
  BY <1>3, <1>4, <1>5

LEMMA CameInAppend ==
  ASSUME NEW b, Box(b), NEW m, m.res \in Seq(Items), NEW n
  PROVE  Box(Append(b, m)) /\ CameIn(Append(b, m), n) = CameIn(b, n) \o GotFor(m.res, n)
<1> DEFINE more == Append(b, m)
           parts == [i \in DOMAIN b |-> GotFor(b[i].res, n)]
           all == [i \in DOMAIN more |-> GotFor(more[i].res, n)]
           k == Len(b)
           x == GotFor(m.res, n)
<1>0. Box(more)
  <2>1. Append(b, m) = b \o <<m>>
    BY DEF Box, IsSeq
  <2>2. IsSeq(more) /\ ToSet(more) = ToSet(b) \cup {m}
    BY <2>1, OneIsSeq, Joined DEF Box
  <2> QED
    BY <2>2 DEF Box
<1>1. /\ parts \in Seq(Seq(Nat)) /\ Len(parts) = k
      /\ \A i \in 1 .. k : parts[i] = GotFor(b[i].res, n)
  BY CameInParts
<1>2. /\ Len(more) = k + 1 /\ k \in Nat /\ more[k + 1] = m
      /\ \A i \in 1 .. k : more[i] = b[i]
  BY DEF Box, IsSeq
<1> HIDE DEF more, k
<1>3. /\ all \in Seq(Seq(Nat)) /\ Len(all) = Len(more)
      /\ \A i \in 1 .. Len(more) : all[i] = GotFor(more[i].res, n)
  BY <1>0, CameInParts
<1>4. CameIn(b, n) = FlattenSeq(parts) /\ CameIn(more, n) = FlattenSeq(all)
  BY DEF CameIn
<1>5. x \in Seq(Nat)
  BY GotForType
<1> HIDE DEF parts, all
<1>6. /\ k + 1 \in 1 .. k + 1 /\ (\A j \in 1 .. k : j \in 1 .. k + 1)
      /\ \A j \in 1 .. k + 1 : j \in 1 .. k \/ j = k + 1
  BY <1>2
<1>7. all[k + 1] = x /\ \A j \in 1 .. k : all[j] = parts[j]
  BY <1>1, <1>2, <1>3, <1>6, Zenon
<1> HIDE DEF x
<1>8. all = Append(parts, x)
  BY <1>1, <1>2, <1>3, <1>5, <1>7
<1>9. FlattenSeq(all) = FlattenSeq(parts) \o x
  BY <1>1, <1>5, <1>8, FlattenAppend
<1> QED
  BY <1>0, <1>4, <1>9 DEF more, x
-----------------------------------------------------------------------------
(***************************************************************************)
(* What came for the subscriptions of an open connection: a number is in   *)
(* the answer of one thread, and until that is given what the answer has   *)
(* goes before what came.                                                  *)
(***************************************************************************)
\* A client has one handler for a channel, with a number of its own.
OneHandler ==
  \A g, h \in registered :
    /\ g.id = h.id /\ g.channel = h.channel => g = h
    /\ g.sub = h.sub => g = h

\* The handlers of a comet connection reach its adapter, and so will those to be made.
RouteOf(h) ==
  h.id \in CometConns /\ link[h.id] = "open" =>
    h.id \in DOMAIN adapters /\ route[h.sub] = adapters[h.id]

PeerOf(t) ==
  LET k == work[t].conn
  IN  /\ work[t].call = "subscribe" /\ pc[t] \in {"target", "call"}
      /\ k \in CometConns /\ link[k] = "open"
      => k \in DOMAIN adapters /\ work[t].peer = adapters[k]

\* Subscriptions are in the answers of subscribe only, and each in one.
NumbersOf(t) ==
  \A e \in ToSet(work[t].res) :
    e.sub <= Len(stream) /\ (work[t].call # "subscribe" => e.sub = 0)

OneBearer ==
  \A t, u \in Threads : \A n \in Nat \ {0} :
    Bears(work[t].res, n) /\ Bears(work[u].res, n) => t = u

BoxOf(k) ==
  Box(inbox[k]) /\ \A m \in ToSet(inbox[k]) : \A e \in ToSet(m.res) : e.sub <= Len(stream)

Whole(h) ==
  /\ \A t \in Threads : ~ Bears(work[t].res, h.sub)
  /\ Exactly(Came(h), stream[h.sub].from, published[h.channel])

Awaited(h) ==
  /\ Acknowledged(h) = {}
  /\ \E t \in Threads, s \in 0 .. published[h.channel] :
       /\ Bears(work[t].res, h.sub)
       /\ work[t].conn = h.id
       /\ Exactly(GotFor(work[t].res, h.sub), stream[h.sub].from, s)
       /\ Exactly(Came(h), s, published[h.channel])

HearInv ==
  /\ OneHandler
  /\ \A h \in registered : RouteOf(h)
  /\ \A t \in Threads : PeerOf(t) /\ NumbersOf(t)
  /\ OneBearer
  /\ \A k \in Conns : BoxOf(k)
  /\ \A h \in OpenSubscriptions : Whole(h) \/ Awaited(h)

LEMMA ListFrom ==
  ASSUME NEW a \in Nat, NEW b \in Nat, a <= b
  PROVE  Exactly([k \in 1 .. b - a |-> a + k], a, b)
<1> DEFINE s == [k \in 1 .. b - a |-> a + k]
<1>1. b - a \in Nat /\ s \in [1 .. b - a -> Nat] /\ \A k \in 1 .. b - a : s[k] = a + k
  OBVIOUS
<1>2. DOMAIN s = 1 .. b - a
  OBVIOUS
<1> HIDE DEF s
<1>3. s \in Seq(Nat)
  BY <1>1
<1>4. IsInjective(s)
  BY <1>1, <1>2 DEF IsInjective
<1>5. \A x \in (a + 1) .. b : x - a \in 1 .. b - a /\ s[x - a] = x
  BY <1>1
<1>6. ToSet(s) = (a + 1) .. b
  <2>1. \A k \in 1 .. b - a : s[k] \in (a + 1) .. b
    BY <1>1
  <2>2. \A x \in (a + 1) .. b : \E k \in 1 .. b - a : s[k] = x
    BY <1>5
  <2> QED
    BY <1>2, <2>1, <2>2 DEF ToSet
<1>7. Exactly(s, a, b)
  BY <1>3, <1>4, <1>6 DEF Exactly
<1> QED
  BY <1>7 DEF s

\* What is held of a channel reaches up to the last message published.
LEMMA HeldExactly ==
  ASSUME BrokerInv, NEW c \in Channels
  PROVE  /\ Exactly(Direct!Held(c), Direct!From(c), published[c])
         /\ Exactly(Adapted!Held(c), Adapted!From(c), published[c])
<1>1. /\ published[c] \in Nat /\ dropped[c] \in Nat /\ dropped[c] <= published[c]
      /\ PageLimit \in Nat
  BY BoundsAssumption DEF BrokerInv
<1>2. Direct!From(c) <= published[c]
  <2>1. dropped[c] \in Int /\ published[c] - PageLimit \in Int
    BY <1>1
  <2>2. Direct!Max({dropped[c], published[c] - PageLimit}) =
          IF dropped[c] >= published[c] - PageLimit
          THEN dropped[c] ELSE published[c] - PageLimit
    BY <2>1, MaxOfTwo, Zenon
  <2>3. Direct!From(c) = IF dropped[c] >= published[c] - PageLimit
                         THEN dropped[c] ELSE published[c] - PageLimit
    BY <2>2, Zenon DEF Direct!From
  <2> QED
    BY <1>1, <2>3
<1>3. Adapted!From(c) <= published[c]
  <2>1. dropped[c] \in Int /\ published[c] - 0 \in Int
    BY <1>1
  <2>2. Adapted!Max({dropped[c], published[c] - 0}) =
          IF dropped[c] >= published[c] - 0 THEN dropped[c] ELSE published[c] - 0
    BY <2>1, MaxOfTwo, Zenon
  <2>3. Adapted!From(c) = IF dropped[c] >= published[c] - 0
                          THEN dropped[c] ELSE published[c] - 0
    BY <2>2, Zenon DEF Adapted!From
  <2> QED
    BY <1>1, <2>3
<1>4. Direct!From(c) \in Nat /\ Adapted!From(c) \in Nat
  BY HeldType
<1> QED
  BY <1>1, <1>2, <1>3, <1>4, ListFrom DEF Direct!Held, Adapted!Held

\* Where in an inbox the subscription n is acknowledged.
AckIn(b, n) ==
  {i \in DOMAIN b : b[i].type = "answer" /\ b[i].call \in {"subscribe"} /\ Bears(b[i].res, n)}

LEMMA CameAndAcknowledged ==
  \A h : Came(h) = CameIn(inbox[h.id], h.sub) /\ Acknowledged(h) = AckIn(inbox[h.id], h.sub)
<1>1. \A h : Came(h) = CameIn(inbox[h.id], h.sub)
  BY DEF Came, CameIn
<1>2. \A h : Acknowledged(h) = AckIn(inbox[h.id], h.sub)
  BY DEF Acknowledged, AckIn, Answers, Bears
<1> QED
  BY <1>1, <1>2

LEMMA AckInAppend ==
  ASSUME NEW b, IsSeq(b), NEW m, NEW n
  PROVE  /\ AckIn(b, n) \subseteq 1 .. Len(b) /\ Len(b) \in Nat /\ Len(Append(b, m)) = Len(b) + 1
         /\ AckIn(Append(b, m), n) =
              AckIn(b, n) \cup IF m.type = "answer" /\ m.call = "subscribe" /\ Bears(m.res, n)
                               THEN {Len(b) + 1} ELSE {}
<1> DEFINE more == Append(b, m)
           k == Len(b)
<1>1. /\ k \in Nat /\ DOMAIN b = 1 .. k /\ DOMAIN more = 1 .. k + 1 /\ more[k + 1] = m
      /\ Len(more) = k + 1 /\ \A i \in 1 .. k : more[i] = b[i]
  BY DEF IsSeq
<1> HIDE DEF more, k
<1>2. 1 .. k + 1 = (1 .. k) \cup {k + 1} /\ k + 1 \notin 1 .. k
  BY <1>1
<1>3. AckIn(b, n) \subseteq 1 .. k
  BY <1>1 DEF AckIn
<1>4. \A i \in 1 .. k : i \in AckIn(more, n) <=> i \in AckIn(b, n)
  BY <1>1, <1>2 DEF AckIn
<1>5. k + 1 \in AckIn(more, n) <=> m.type = "answer" /\ m.call = "subscribe" /\ Bears(m.res, n)
  BY <1>1, <1>2 DEF AckIn
<1>6. AckIn(more, n) \subseteq (1 .. k) \cup {k + 1}
  BY <1>1, <1>2 DEF AckIn
<1>7. AckIn(more, n) =
        AckIn(b, n) \cup IF m.type = "answer" /\ m.call = "subscribe" /\ Bears(m.res, n)
                         THEN {k + 1} ELSE {}
  BY <1>2, <1>3, <1>4, <1>5, <1>6
<1> QED
  BY <1>1, <1>3, <1>7 DEF more, k

\* The answer to mload is about no subscription.
LEMMA LoadListType ==
  ASSUME NEW asked \in Seq(Channels), NEW res \in Seq(Items)
  PROVE  /\ LoadList(asked, res) \in Seq(Items)
         /\ \A e \in ToSet(LoadList(asked, res)) :
              \E c \in Channels : e = MessagesOf(res, c)
<1> DEFINE C == WithMessages(res)
           D == Empty(asked, res)
           S == {MessagesOf(res, c) : c \in C}
           T == {MessagesOf(res, c) : c \in D}
<1>1. ToSet(asked) \subseteq Channels /\ \A e \in ToSet(res) : e \in Items
  BY SeqIsSeq, ItemFields
<1>2. C \subseteq Channels /\ D \subseteq Channels
  <2>1. \A e \in Items : e.channel \in Channels
    BY DEF Items
  <2> QED
    BY <1>1, <2>1 DEF WithMessages, Empty
<1>3. \A c \in Channels : MessagesOf(res, c) \in Items
  <2> TAKE c \in Channels
  <2> DEFINE mine == {i \in DOMAIN res : res[i].channel = c}
             parts == [i \in DOMAIN res |-> IF i \in mine THEN res[i].got ELSE <<>>]
             from == IF mine = {} THEN 0 ELSE res[Min(mine)].from
  <2>1. /\ DOMAIN res = 1 .. Len(res) /\ Len(res) \in Nat
        /\ \A j \in 1 .. Len(res) : res[j] \in Items /\ res[j].got \in Seq(Nat)
    BY ItemFields
  <2>2. from \in Nat
    <3>1. CASE mine = {}
      BY <3>1
    <3>2. CASE mine # {}
      <4>1. mine \in SUBSET Nat
        BY <2>1
      <4>2. \E x \in mine : \A y \in mine : x <= y
        BY <3>2, <4>1, Smallest
      <4>3. Min(mine) \in mine
        BY <4>2 DEF Min
      <4>4. res[Min(mine)] \in Items
        BY <2>1, <4>3
      <4> QED
        BY <3>2, <4>4 DEF Items
    <3> QED
      BY <3>1, <3>2
  <2>3. FlattenSeq(parts) \in Seq(Nat)
    <3>1. parts \in [1 .. Len(res) -> Seq(Nat)]
      <4>1. <<>> \in Seq(Nat)
        OBVIOUS
      <4> QED
        BY <2>1, <4>1
    <3> HIDE DEF parts
    <3>2. parts \in Seq(Seq(Nat)) /\ Len(parts) \in Nat
      BY <2>1, <3>1
    <3> QED
      BY <3>2, FlattenedSet
  <2>4. MessagesOf(res, c) = Item(c, 0, from, FlattenSeq(parts))
    BY DEF MessagesOf
  <2> HIDE DEF from, parts
  <2> QED
    BY <2>2, <2>3, <2>4 DEF Item, Items
<1>4. IsFiniteSet(C) /\ IsFiniteSet(D)
  <2>1. IsFiniteSet(ToSet(asked))
    BY SeqIsSeq, ToSetFinite
  <2>2. IsFiniteSet(D)
    BY <2>1, FS_Subset DEF Empty
  <2> DEFINE F == {f \in ToSet(res) : f.got # <<>>}
             g == [e \in F |-> e.channel]
  <2>3. IsFiniteSet(ToSet(res))
    BY SeqIsSeq, ToSetFinite
  <2>4. IsFiniteSet(F)
    BY <2>3, FS_Subset
  <2>5. g \in Surjection(F, C)
    <3>1. C = {e.channel : e \in F}
      BY DEF WithMessages
    <3>2. \A e \in F : g[e] = e.channel
      OBVIOUS
    <3>3. g = [e \in F |-> g[e]]
      OBVIOUS
    <3> HIDE DEF F, g, C
    <3>4. g \in [F -> C]
      BY <3>1, <3>2, <3>3
    <3> QED
      BY <3>1, <3>2, <3>4 DEF Surjection
  <2> QED
    BY <2>2, <2>4, <2>5, FS_Surjection
<1>5. IsFiniteSet(S) /\ IsFiniteSet(T)
  <2>1. S = {MessagesOf(res, c) : c \in C} /\ T = {MessagesOf(res, c) : c \in D}
    OBVIOUS
  <2> HIDE DEF C, D, S, T
  <2> DEFINE f == [c \in C |-> MessagesOf(res, c)]
             g == [c \in D |-> MessagesOf(res, c)]
  <2>2. f \in [C -> S] /\ g \in [D -> T]
        /\ (\A c \in C : f[c] = MessagesOf(res, c)) /\ (\A c \in D : g[c] = MessagesOf(res, c))
    BY <2>1
  <2> HIDE DEF f, g
  <2>3. f \in Surjection(C, S) /\ g \in Surjection(D, T)
    BY <2>1, <2>2 DEF Surjection
  <2> QED
    BY <1>4, <2>3, FS_Surjection
<1>6. S \subseteq Items /\ T \subseteq Items
  BY <1>2, <1>3
<1>7. \A e \in S \cup T : \E c \in Channels : e = MessagesOf(res, c)
  BY <1>2
<1>8. LoadList(asked, res) = SetToSeq(S) \o SetToSeq(T)
  BY DEF LoadList
<1> HIDE DEF S, T
<1>9. /\ IsSeq(SetToSeq(S)) /\ ToSet(SetToSeq(S)) = S
      /\ IsSeq(SetToSeq(T)) /\ ToSet(SetToSeq(T)) = T
  BY <1>5, SetToSeqLists
<1>10. IsSeq(LoadList(asked, res)) /\ ToSet(LoadList(asked, res)) = S \cup T
  BY <1>8, <1>9, Joined
<1>11. LoadList(asked, res) \in Seq(Items)
  BY <1>6, <1>10, SeqWider DEF IsSeq
<1> QED
  BY <1>7, <1>10, <1>11
-----------------------------------------------------------------------------
(***************************************************************************)
(* Steps that give nobody a message.                                       *)
(***************************************************************************)
LEMMA HearsAsBefore ==
  ASSUME IndInv, HearInv, registered' \subseteq registered,
         UNCHANGED <<published, stream, route, inbox>>,
         \A k \in Conns : link'[k] = "open" => link[k] = "open",
         \A k \in DOMAIN adapters : link'[k] = "open" =>
           k \in DOMAIN adapters' /\ adapters'[k] = adapters[k],
         \A u \in Threads : \A n \in Nat \ {0} :
           /\ Bears(work'[u].res, n) <=> Bears(work[u].res, n)
           /\ GotFor(work'[u].res, n) = GotFor(work[u].res, n)
           /\ Bears(work[u].res, n) => work'[u].conn = work[u].conn,
         \A u \in Threads : NumbersOf(u)' /\ PeerOf(u)'
  PROVE  HearInv'
<1>1. OneHandler'
  BY DEF HearInv, OneHandler
<1>2. \A h \in registered : h.id \in Conns /\ h.sub \in Nat \ {0}
  BY DEF IndInv, BrokerInv
<1>3. ASSUME NEW h \in registered' PROVE RouteOf(h)'
  <2>1. RouteOf(h) /\ h.id \in Conns
    BY <1>2 DEF HearInv
  <2> QED
    BY <2>1 DEF RouteOf
<1>4. OneBearer'
  BY DEF HearInv, OneBearer
<1>5. ASSUME NEW k \in Conns PROVE BoxOf(k)'
  BY DEF HearInv, BoxOf
<1>6. ASSUME NEW h \in OpenSubscriptions' PROVE Whole(h)' \/ Awaited(h)'
  <2>1. h \in OpenSubscriptions /\ h \in registered
    BY <1>2 DEF OpenSubscriptions
  <2>2. Came(h)' = Came(h) /\ Acknowledged(h)' = Acknowledged(h)
    BY DEF Came, Acknowledged, Answers
  <2>3. h.sub \in Nat \ {0}
    BY <1>2, <2>1
  <2>4. CASE Whole(h)
    BY <2>2, <2>3, <2>4 DEF Whole
  <2>5. CASE Awaited(h)
    <3>1. PICK u \in Threads, s \in 0 .. published[h.channel] :
            /\ Bears(work[u].res, h.sub) /\ work[u].conn = h.id
            /\ Exactly(GotFor(work[u].res, h.sub), stream[h.sub].from, s)
            /\ Exactly(Came(h), s, published[h.channel])
      BY <2>5 DEF Awaited
    <3>2. /\ Bears(work'[u].res, h.sub) /\ work'[u].conn = h.id
          /\ GotFor(work'[u].res, h.sub) = GotFor(work[u].res, h.sub)
      BY <2>3, <3>1
    <3>3. Acknowledged(h)' = {}
      BY <2>2, <2>5 DEF Awaited
    <3> QED
      BY <2>2, <3>1, <3>2, <3>3 DEF Awaited
  <2> QED
    BY <2>1, <2>4, <2>5 DEF HearInv
<1> QED
  BY <1>1, <1>3, <1>4, <1>5, <1>6 DEF HearInv

\* A thread that bears no subscription, by its call or by what it has gathered.
LEMMA BearsNone ==
  ASSUME NEW res \in Seq(Items), \A e \in ToSet(res) : e.sub = 0, NEW n \in Nat \ {0}
  PROVE  ~ Bears(res, n) /\ GotFor(res, n) = <<>>
<1>1. ~ Bears(res, n)
  BY DEF Bears
<1> QED
  BY <1>1, GotForType

LEMMA ResType ==
  ASSUME WorkInv, NEW t \in Threads
  PROVE  work[t].res \in Seq(Items) /\ \A e \in ToSet(work[t].res) : e.sub \in Nat
<1>1. work[t].res \in Seq(Items)
  BY DEF WorkInv, Works
<1>2. \A e \in Items : e.sub \in Nat
  BY DEF Items
<1> QED
  BY <1>1, <1>2, ItemFields

\* A step of another thread.
LEMMA OthersKept ==
  ASSUME IndInv, HearInv, NEW t \in Threads, Alone(t), Len(stream') \in Nat,
         Len(stream) <= Len(stream'),
         \A k \in Conns : link'[k] = "open" => link[k] = "open",
         \A k \in DOMAIN adapters : link'[k] = "open" =>
           k \in DOMAIN adapters' /\ adapters'[k] = adapters[k],
         NEW u \in Threads, u # t
  PROVE  work'[u] = work[u] /\ NumbersOf(u)' /\ PeerOf(u)'
<1>1. pc'[u] = pc[u] /\ work'[u] = work[u] /\ NumbersOf(u) /\ PeerOf(u)
  BY DEF Alone, HearInv
<1>2. NumbersOf(u)'
  <2>1. \A e \in ToSet(work[u].res) : e.sub \in Nat
    BY ResType DEF IndInv
  <2>2. Len(stream) \in Nat
    BY DEF IndInv, BrokerInv
  <2> QED
    BY <1>1, <2>1, <2>2 DEF NumbersOf
<1>3. PeerOf(u)'
  BY <1>1, ConnsAssumption DEF PeerOf
<1> QED
  BY <1>1, <1>2, <1>3

\* A step of a thread with the subscriptions it bears, or of one that bears none.
LEMMA BurdenKept ==
  ASSUME IndInv, IndInv', HearInv, NEW t \in Threads, Alone(t), Len(stream') = Len(stream),
         \A k \in Conns : link'[k] = "open" => link[k] = "open",
         \A k \in DOMAIN adapters : link'[k] = "open" =>
           k \in DOMAIN adapters' /\ adapters'[k] = adapters[k],
         \/ /\ work'[t].res = work[t].res /\ work'[t].conn = work[t].conn
            /\ work'[t].call = work[t].call
         \/ work[t].call # "subscribe" /\ \A e \in ToSet(work'[t].res) : e.sub = 0,
         PeerOf(t)'
  PROVE  /\ \A u \in Threads : \A n \in Nat \ {0} :
              /\ Bears(work'[u].res, n) <=> Bears(work[u].res, n)
              /\ GotFor(work'[u].res, n) = GotFor(work[u].res, n)
              /\ Bears(work[u].res, n) => work'[u].conn = work[u].conn
         /\ \A u \in Threads : NumbersOf(u)' /\ PeerOf(u)'
<1>1. ASSUME NEW u \in Threads, u # t
      PROVE  work'[u] = work[u] /\ NumbersOf(u)' /\ PeerOf(u)'
  <2>1. Len(stream') \in Nat /\ Len(stream) <= Len(stream')
    BY DEF IndInv, BrokerInv
  <2> QED
    BY <1>1, <2>1, OthersKept
<1>2. NumbersOf(t)'
  <2>1. NumbersOf(t) /\ Len(stream) \in Nat
    BY DEF HearInv, IndInv, BrokerInv
  <2>2. CASE work'[t].res = work[t].res /\ work'[t].call = work[t].call
    BY <2>1, <2>2 DEF NumbersOf
  <2>3. CASE \A e \in ToSet(work'[t].res) : e.sub = 0
    BY <2>1, <2>3 DEF NumbersOf
  <2> QED
    BY <2>2, <2>3
<1>3. ASSUME NEW n \in Nat \ {0}
      PROVE  /\ Bears(work'[t].res, n) <=> Bears(work[t].res, n)
             /\ GotFor(work'[t].res, n) = GotFor(work[t].res, n)
             /\ Bears(work[t].res, n) => work'[t].conn = work[t].conn
  <2>1. CASE work'[t].res = work[t].res /\ work'[t].conn = work[t].conn
    BY <2>1
  <2>2. CASE work[t].call # "subscribe" /\ \A e \in ToSet(work'[t].res) : e.sub = 0
    <3>1. work[t].res \in Seq(Items) /\ work'[t].res \in Seq(Items)
      BY ResType DEF IndInv, WorkInv, Works
    <3>2. \A e \in ToSet(work[t].res) : e.sub = 0
      BY <2>2 DEF HearInv, NumbersOf
    <3> QED
      BY <2>2, <3>1, <3>2, BearsNone
  <2> QED
    BY <2>1, <2>2
<1>4. \A u \in Threads : \A n \in Nat \ {0} :
        /\ Bears(work'[u].res, n) <=> Bears(work[u].res, n)
        /\ GotFor(work'[u].res, n) = GotFor(work[u].res, n)
        /\ Bears(work[u].res, n) => work'[u].conn = work[u].conn
  <2> TAKE u \in Threads
  <2>1. CASE u = t
    BY <1>3, <2>1
  <2>2. CASE u # t
    BY <1>1, <2>2
  <2> QED
    BY <2>1, <2>2
<1> QED
  BY <1>1, <1>2, <1>4

LEMMA QuietThread ==
  ASSUME IndInv, IndInv', HearInv, NEW t \in Threads, Alone(t), registered' \subseteq registered,
         UNCHANGED <<published, stream, route, inbox>>,
         \A k \in Conns : link'[k] = "open" => link[k] = "open",
         \A k \in DOMAIN adapters : link'[k] = "open" =>
           k \in DOMAIN adapters' /\ adapters'[k] = adapters[k],
         \/ /\ work'[t].res = work[t].res /\ work'[t].conn = work[t].conn
            /\ work'[t].call = work[t].call
         \/ work[t].call # "subscribe" /\ \A e \in ToSet(work'[t].res) : e.sub = 0,
         PeerOf(t)'
  PROVE  HearInv'
BY BurdenKept, HearsAsBefore

LEMMA AdvanceFields ==
  ASSUME WorkInv, NEW t \in Threads, NEW items, Advance(t, items)
  PROVE  /\ work'[t].res = work[t].res \o items /\ work'[t].rest = Tail(work[t].rest)
         /\ work'[t].call = work[t].call /\ work'[t].conn = work[t].conn
         /\ work'[t].peer = work[t].peer /\ work'[t].since = work[t].since
         /\ work'[t].asked = work[t].asked /\ work'[t].refused = work[t].refused
         /\ \A u \in Threads : u # t => work'[u] = work[u]
<1> DEFINE w == [work[t] EXCEPT !.rest = Tail(@), !.res = @ \o items]
<1>1. work[t] \in Works /\ work \in [Threads -> Works]
  BY DEF WorkInv
<1>2. work' = [work EXCEPT ![t] = w]
  BY DEF Advance
<1>3. /\ w.res = work[t].res \o items /\ w.rest = Tail(work[t].rest)
      /\ w.call = work[t].call /\ w.conn = work[t].conn /\ w.peer = work[t].peer
      /\ w.since = work[t].since /\ w.asked = work[t].asked /\ w.refused = work[t].refused
  BY <1>1 DEF Works
<1> HIDE DEF w
<1> QED
  BY <1>1, <1>2, <1>3

\* What a call other than subscribe gathers.
LEMMA GathersNone ==
  ASSUME WorkInv, HearInv, NEW t \in Threads, work[t].call # "subscribe",
         NEW items \in Seq(Items), \A e \in ToSet(items) : e.sub = 0, Advance(t, items)
  PROVE  \A e \in ToSet(work'[t].res) : e.sub = 0
<1>1. \A e \in ToSet(work[t].res) : e.sub = 0
  BY DEF HearInv, NumbersOf
<1>2. IsSeq(work[t].res) /\ IsSeq(items)
  BY ResType, SeqIsSeq
<1>3. work'[t].res = work[t].res \o items
  BY AdvanceFields
<1>4. ToSet(work'[t].res) = ToSet(work[t].res) \cup ToSet(items)
  BY <1>2, <1>3, Joined
<1> QED
  BY <1>1, <1>4

LEMMA DescribeHears ==
  ASSUME IndInv, IndInv', HearInv, NEW t \in Threads, Alone(t), DescribeChannel(t),
         UNCHANGED adapterVars
  PROVE  HearInv'
<1>1. /\ work[t].call = "describe" /\ Advance(t, <<>>)
      /\ UNCHANGED <<configured, route, clientVars>>
  BY DEF DescribeChannel, Inside
<1>2. registered' \subseteq registered /\ UNCHANGED <<published, stream>>
  BY DEF DescribeChannel, Direct!Describe
<1>3. <<>> \in Seq(Items) /\ ToSet(<<>>) = {}
  BY DEF ToSet
<1>4. \A e \in ToSet(work'[t].res) : e.sub = 0
  BY <1>1, <1>3, GathersNone DEF IndInv
<1>5. work'[t].call = "describe"
  BY <1>1, AdvanceFields DEF IndInv
<1>6. PeerOf(t)'
  BY <1>5 DEF PeerOf
<1>7. UNCHANGED <<adapters, link, inbox>>
  BY <1>1 DEF adapterVars, clientVars
<1> QED
  BY <1>1, <1>2, <1>4, <1>6, <1>7, QuietThread

LEMMA LoadHears ==
  ASSUME IndInv, IndInv', HearInv, NEW t \in Threads, Alone(t), LoadChannel(t),
         UNCHANGED adapterVars
  PROVE  HearInv'
<1> DEFINE e == Item(Here(t), 0, Direct!From(Here(t)), Direct!Held(Here(t)))
           items == IF configured THEN <<e>> ELSE <<>>
<1>1. /\ work[t].call # "subscribe" /\ work[t].rest # <<>> /\ Advance(t, items)
      /\ UNCHANGED <<configured, brokerVars, clientVars>>
  BY DEF LoadChannel, Inside
<1>2. e \in Items /\ e.sub = 0
  BY <1>1, AtChannel, HeldType DEF IndInv, Item, Items
<1> HIDE DEF e
<1>3. items \in Seq(Items) /\ \A x \in ToSet(items) : x.sub = 0
  BY <1>2 DEF ToSet
<1> HIDE DEF items
<1>4. \A x \in ToSet(work'[t].res) : x.sub = 0
  BY <1>1, <1>3, GathersNone DEF IndInv
<1>5. work'[t].call # "subscribe"
  BY <1>1, AdvanceFields DEF IndInv
<1>6. PeerOf(t)'
  BY <1>5 DEF PeerOf
<1>7. UNCHANGED <<adapters, link, inbox, registered, published, stream, route>>
  BY <1>1 DEF adapterVars, clientVars, brokerVars
<1> QED
  BY <1>1, <1>4, <1>6, <1>7, QuietThread

\* A thread that is done bears nothing.
LEMMA NoWorkBears ==
  /\ NoWork.call = "" /\ NoWork.res = <<>> /\ NoWork.rest = <<>> /\ NoWork.since = 0
  /\ ToSet(<<>>) = {}
BY DEF NoWork, ToSet

LEMMA SweepHears ==
  ASSUME IndInv, IndInv', HearInv, NEW t \in Threads, Alone(t), NEW label,
         SweepPart(t, label), UNCHANGED adapterVars
  PROVE  HearInv'
<1>1. /\ work[t].part \in DOMAIN Parts
      /\ UNCHANGED <<configured, route, answers, inbox>>
      /\ link' = link \/ link' = [link EXCEPT ![work[t].conn] = "left"]
  BY DEF SweepPart
<1>2. registered' \subseteq registered /\ UNCHANGED <<published, stream>>
  BY DEF SweepPart, Direct!Describe, Direct!Reset
<1>3. work[t].call # "subscribe"
  <2>1. DOMAIN Parts = 1 .. Len(Parts)
    BY PartsAssumption
  <2>2. work[t].part # 0
    BY <1>1, <2>1
  <2> QED
    BY <2>2 DEF IndInv, WorkInv, WorkOf, RequestCalls, PubsubCalls
<1>4. PICK q : work'[t] = NoWork \/ work'[t] = [work[t] EXCEPT !.part = q]
  BY DEF SweepPart, IndInv, WorkInv
<1>5. \/ work'[t] = NoWork
      \/ work'[t].res = work[t].res /\ work'[t].conn = work[t].conn /\ work'[t].call = work[t].call
  BY <1>4 DEF IndInv, WorkInv, Works
<1>6. work'[t].call # "subscribe"
  BY <1>3, <1>5, NoWorkBears
<1>7. PeerOf(t)'
  BY <1>6 DEF PeerOf
<1>8. \/ /\ work'[t].res = work[t].res /\ work'[t].conn = work[t].conn
         /\ work'[t].call = work[t].call
      \/ work[t].call # "subscribe" /\ \A e \in ToSet(work'[t].res) : e.sub = 0
  BY <1>3, <1>5, NoWorkBears
<1>9. \A k \in Conns : link'[k] = "open" => link[k] = "open"
  BY <1>1 DEF IndInv, WorkInv
<1>10. UNCHANGED adapters
  BY DEF adapterVars
<1> QED
  BY <1>1, <1>2, <1>7, <1>8, <1>9, <1>10, QuietThread

\* The steps in the comet_adapter.
LEMMA AdapterHears ==
  ASSUME IndInv, IndInv', HearInv, NEW t \in Threads, Alone(t),
         FindAdapter(t) \/ LockTarget(t) \/ TargetGone(t) \/ EraseAdapter(t)
  PROVE  HearInv'
<1>0. work[t] \in Works /\ work \in [Threads -> Works] /\ WorkOf(t)
      /\ link \in [Conns -> {"open", "closed", "leaving", "left"}]
      /\ pc \in [Threads -> Labels]
  BY DEF IndInv, WorkInv
<1>1. CASE FindAdapter(t)
  <2> DEFINE k == work[t].conn
             w == [work[t] EXCEPT !.peer = adapters'[k]]
  <2>1. /\ pc[t] = "adapter" /\ pc' = [pc EXCEPT ![t] = "target"]
        /\ UNCHANGED <<configured, brokerVars, clientVars, target, late>>
        /\ work' = [work EXCEPT ![t] = w]
    BY <1>0, <1>1 DEF FindAdapter, Goto
  <2>2. /\ k \in DOMAIN adapters'
        /\ \A j \in DOMAIN adapters : j \in DOMAIN adapters' /\ adapters'[j] = adapters[j]
    BY <1>1 DEF FindAdapter
  <2>3. /\ w.res = work[t].res /\ w.conn = work[t].conn /\ w.call = work[t].call
        /\ w.peer = adapters'[k]
    BY <1>0 DEF Works
  <2> HIDE DEF w
  <2>4. work'[t] = w
    BY <1>0, <2>1
  <2>5. PeerOf(t)'
    BY <2>2, <2>3, <2>4 DEF PeerOf
  <2>6. UNCHANGED <<registered, published, stream, route, inbox, link>>
    BY <2>1 DEF brokerVars, clientVars
  <2> QED
    BY <2>2, <2>3, <2>4, <2>5, <2>6, QuietThread
<1>2. CASE LockTarget(t)
  <2>1. /\ pc[t] = "target"
        /\ UNCHANGED <<configured, brokerVars, clientVars, work, adapterVars>>
    BY <1>2 DEF LockTarget
  <2>2. UNCHANGED <<registered, published, stream, route, inbox, link, adapters, work>>
    BY <2>1 DEF brokerVars, clientVars, adapterVars
  <2>3. PeerOf(t)'
    BY <2>1, <2>2 DEF HearInv, PeerOf
  <2> QED
    BY <2>2, <2>3, QuietThread
<1>3. CASE TargetGone(t)
  <2>1. /\ pc[t] = "target" /\ UNCHANGED <<configured, brokerVars, answers, inbox, adapterVars>>
        /\ link' = link \/ link' = [link EXCEPT ![work[t].conn] = "left"]
        /\ IF work[t].call = "unreg" THEN work'[t] = NoWork
           ELSE /\ pc' = [pc EXCEPT ![t] = "answer"]
                /\ work'[t] = [work[t] EXCEPT !.rest = <<>>, !.refused = work[t].call # "mpublish"]
    BY <1>0, <1>3 DEF TargetGone, Goto
  <2>2. UNCHANGED <<registered, published, stream, route, inbox, adapters>>
    BY <2>1 DEF brokerVars, adapterVars
  <2>3. \A k \in Conns : link'[k] = "open" => link[k] = "open"
    BY <1>0, <2>1
  <2>4. CASE work[t].call = "unreg"
    <3>1. PeerOf(t)'
      BY <2>1, <2>4, NoWorkBears DEF PeerOf
    <3> QED
      BY <2>1, <2>2, <2>3, <2>4, <3>1, NoWorkBears, QuietThread
  <2>5. CASE work[t].call # "unreg"
    <3>1. /\ work'[t].res = work[t].res /\ work'[t].conn = work[t].conn
          /\ work'[t].call = work[t].call
      BY <1>0, <2>1, <2>5 DEF Works
    <3>2. pc'[t] = "answer"
      BY <1>0, <2>1, <2>5
    <3>3. PeerOf(t)'
      BY <3>2 DEF PeerOf
    <3> QED
      BY <2>2, <2>3, <3>1, <3>3, QuietThread
  <2> QED
    BY <2>4, <2>5
<1>4. CASE EraseAdapter(t)
  <2> DEFINE k == work[t].conn
  <2>1. /\ pc[t] = "erase" /\ link' = [link EXCEPT ![k] = "left"] /\ work'[t] = NoWork
        /\ adapters' = Restrict(adapters, DOMAIN adapters \ {k})
        /\ UNCHANGED <<configured, brokerVars, answers, inbox, target, made, late>>
    BY <1>0, <1>4 DEF EraseAdapter
  <2>2. work[t].call = "unreg" /\ k \in Conns /\ link[k] # "open"
    <3>1. work[t].call \in RequestCalls \cup {"unreg", "reset", ""}
      BY <1>0 DEF Works
    <3> QED
      BY <1>0, <2>1, <3>1 DEF WorkOf
  <2>3. \A j \in DOMAIN adapters : j # k => j \in DOMAIN adapters' /\ adapters'[j] = adapters[j]
    BY <2>1 DEF Restrict
  <2>4. (\A j \in Conns : link'[j] = "open" => link[j] = "open") /\ link'[k] # "open"
    BY <1>0, <2>1, <2>2
  <2>5. PeerOf(t)'
    BY <2>1, NoWorkBears DEF PeerOf
  <2>6. UNCHANGED <<registered, published, stream, route, inbox>>
    BY <2>1 DEF brokerVars
  <2>7. work[t].call # "subscribe"
    BY <2>2
  <2> QED
    BY <2>1, <2>3, <2>4, <2>5, <2>6, <2>7, NoWorkBears, QuietThread
<1> QED
  BY <1>1, <1>2, <1>3, <1>4
\* An idle thread takes up a call.
LEMMA BeginHears ==
  ASSUME IndInv, IndInv', HearInv, NEW t \in Threads, pc[t] = "idle", NEW w,
         work' = [work EXCEPT ![t] = w], NEW label, pc' = [pc EXCEPT ![t] = label],
         w.res = <<>>, w.call = "subscribe" /\ w.conn \in CometConns => label \notin {"target", "call"},
         UNCHANGED <<registered, published, stream, route, inbox, adapters>>,
         \A k \in Conns : link'[k] = "open" => link[k] = "open"
  PROVE  HearInv'
<1>1. work'[t] = w /\ pc'[t] = label /\ Alone(t)
  BY DEF Alone, IndInv, WorkInv
<1>2. work[t].call # "subscribe"
  BY NoWorkType DEF IndInv, WorkInv, WorkOf
<1>3. \A e \in ToSet(work'[t].res) : e.sub = 0
  BY <1>1, NoWorkBears
<1>4. PeerOf(t)'
  BY <1>1 DEF PeerOf
<1> QED
  BY <1>1, <1>2, <1>3, <1>4, QuietThread

LEMMA ReceiveHears ==
  ASSUME IndInv, IndInv', HearInv, NEW t \in Threads, NEW r \in Requests, ReceiveRequest(t, r)
  PROVE  HearInv'
<1> DEFINE w == [NoWork EXCEPT !.no = Len(answers) + 1, !.conn = r.conn, !.call = r.call,
                               !.asked = r.channels, !.rest = r.channels,
                               !.since = Len(inbox[r.conn])]
<1>1. /\ pc[t] = "idle" /\ work' = [work EXCEPT ![t] = w] /\ pc' = [pc EXCEPT ![t] = Entry(r)]
      /\ UNCHANGED <<configured, brokerVars, link, inbox, target, adapters, made>>
  BY DEF ReceiveRequest, Receive, Goto
<1>2. w.res = <<>> /\ w.call = r.call /\ w.conn = r.conn
  BY DEF NoWork
<1>3. r.call = "subscribe" /\ r.conn \in CometConns => Entry(r) = "adapter"
  BY DEF Entry
<1> HIDE DEF w
<1>4. UNCHANGED <<registered, published, stream, route, inbox, adapters, link>>
  BY <1>1 DEF brokerVars
<1> QED
  BY <1>1, <1>2, <1>3, <1>4, BeginHears

LEMMA UnregisterHears ==
  ASSUME IndInv, IndInv', HearInv, NEW t \in Threads, NEW k \in Conns, UnregisterConn(t, k)
  PROVE  HearInv'
<1> DEFINE w == [NoWork EXCEPT !.call = "unreg", !.conn = k, !.part = 1]
           label == IF k \in CometConns THEN "target" ELSE "call"
<1>1. /\ pc[t] = "idle" /\ work' = [work EXCEPT ![t] = w] /\ pc' = [pc EXCEPT ![t] = label]
      /\ link' = [link EXCEPT ![k] = "leaving"]
      /\ UNCHANGED <<configured, brokerVars, answers, inbox, target, adapters, made>>
  BY DEF UnregisterConn, Unregister, Goto
<1>2. w.res = <<>> /\ w.call = "unreg"
  BY DEF NoWork
<1> HIDE DEF w, label
<1>3. UNCHANGED <<registered, published, stream, route, inbox, adapters>>
  BY <1>1 DEF brokerVars
<1>4. \A j \in Conns : link'[j] = "open" => link[j] = "open"
  BY <1>1 DEF IndInv, WorkInv
<1> QED
  BY <1>1, <1>2, <1>3, <1>4, BeginHears

LEMMA ResetHears ==
  ASSUME IndInv, IndInv', HearInv, NEW t \in Threads, DebugReset(t), UNCHANGED adapterVars
  PROVE  HearInv'
<1> DEFINE w == [NoWork EXCEPT !.call = "reset", !.part = 1]
<1>1. /\ pc[t] = "idle" /\ work' = [work EXCEPT ![t] = w] /\ pc' = [pc EXCEPT ![t] = "call"]
      /\ UNCHANGED <<configured, brokerVars, clientVars>>
  BY DEF DebugReset, Goto
<1>2. w.res = <<>> /\ w.call = "reset"
  BY DEF NoWork
<1> HIDE DEF w
<1>3. UNCHANGED <<registered, published, stream, route, inbox, adapters, link>>
  BY <1>1 DEF brokerVars, clientVars, adapterVars
<1> QED
  BY <1>1, <1>2, <1>3, BeginHears

\* Steps of no thread.
LEMMA NoThreadHears ==
  ASSUME IndInv, HearInv, registered' \subseteq registered,
         UNCHANGED <<published, stream, route, inbox, adapters, work, pc>>,
         \A k \in Conns : link'[k] = "open" => link[k] = "open"
  PROVE  HearInv'
<1>1. ASSUME NEW u \in Threads PROVE NumbersOf(u)' /\ PeerOf(u)'
  <2>1. NumbersOf(u) /\ PeerOf(u)
    BY DEF HearInv
  <2>2. NumbersOf(u)'
    BY <2>1 DEF NumbersOf
  <2>3. PeerOf(u)'
    BY <2>1, ConnsAssumption DEF PeerOf
  <2> QED
    BY <2>2, <2>3
<1> QED
  BY <1>1, HearsAsBefore
-----------------------------------------------------------------------------
(***************************************************************************)
(* A message is published: each open subscription of the channel is given  *)
(* it, and no other.                                                       *)
(***************************************************************************)
LEMMA LiveFields ==
  ASSUME BrokerInv, NEW c \in Channels, NEW h \in registered
  PROVE  /\ Live(c, h).type = "live" /\ Live(c, h).since = 0
         /\ Live(c, h).res \in Seq(Items)
         /\ \A e \in ToSet(Live(c, h).res) : e.sub = h.sub
         /\ \A n : GotFor(Live(c, h).res, n) =
                     IF n = h.sub THEN <<published[c] + 1>> ELSE <<>>
<1> DEFINE e == Item(c, h.sub, published[c], <<published[c] + 1>>)
<1>1. /\ Live(c, h).type = "live" /\ Live(c, h).since = 0 /\ Live(c, h).res = <<e>>
      /\ e.sub = h.sub /\ e.got = <<published[c] + 1>>
  BY DEF Live, Item
<1>2. e \in Items
  <2>1. published[c] \in Nat /\ h.sub \in Nat
    BY DEF BrokerInv
  <2>2. published[c] + 1 \in Nat
    BY <2>1
  <2>3. <<published[c] + 1>> \in Seq(Nat)
    BY <2>2
  <2> QED
    BY <2>1, <2>3 DEF Item, Items
<1> HIDE DEF e
<1>3. ToSet(<<e>>) = {e} /\ <<e>> \in Seq(Items)
  BY <1>2, OneIsSeq
<1>4. ASSUME NEW n
      PROVE  GotFor(<<e>>, n) = IF n = h.sub THEN <<published[c] + 1>> ELSE <<>>
  <2>1. GotFor(<<e>>, n) = GotOf(e, n)
    BY <1>2, GotForOne
  <2> QED
    BY <1>1, <2>1 DEF GotOf
<1> QED
  BY <1>1, <1>3, <1>4

LEMMA Delivers ==
  ASSUME BrokerInv, HearInv, NEW c, NEW reached \in SUBSET registered, Deliver(c, reached),
         NEW k \in Conns
  PROVE  \/ inbox'[k] = inbox[k] /\ \A g \in reached : ~ (g.id = k /\ g.channel = c)
         \/ \E g \in reached :
              g.id = k /\ g.channel = c /\ inbox'[k] = Append(inbox[k], Live(c, g))
<1> DEFINE H == {g \in reached : g.id = k /\ g.channel = c}
           S == {Live(c, h) : h \in H}
<1>1. inbox'[k] = inbox[k] \o SetToSeq(S)
  BY DEF Deliver
<1>2. \A g, h \in H : g = h
  BY DEF HearInv, OneHandler
<1>3. IsSeq(inbox[k])
  BY DEF HearInv, BoxOf, Box
<1>4. CASE H = {}
  <2> DEFINE none == <<>>
  <2>1. S = {}
    BY <1>4
  <2> HIDE DEF S
  <2>2. SetToSeq(S) = none
    BY <2>1, SetToSeqNone
  <2>3. inbox[k] \o none = inbox[k]
    BY <1>3 DEF IsSeq
  <2> HIDE DEF none
  <2>4. inbox'[k] = inbox[k]
    BY <1>1, <2>2, <2>3
  <2> QED
    BY <1>4, <2>4
<1>5. CASE H # {}
  <2>1. PICK g \in H : TRUE
    BY <1>5
  <2>2. H = {g}
    BY <1>2, <2>1
  <2>3. S = {Live(c, g)}
    BY <2>2
  <2>4. g \in reached /\ g.id = k /\ g.channel = c
    BY <2>1
  <2> HIDE DEF H, S
  <2>5. SetToSeq(S) = <<Live(c, g)>>
    BY <2>3, SetToSeqOne
  <2>6. inbox'[k] = inbox[k] \o <<Live(c, g)>>
    BY <1>1, <2>5
  <2>7. inbox[k] \o <<Live(c, g)>> = Append(inbox[k], Live(c, g))
    BY <1>3 DEF IsSeq
  <2> QED
    BY <2>4, <2>6, <2>7
<1> QED
  BY <1>4, <1>5

\* A message does not change where a subscription began.
LEMMA FromsKept ==
  ASSUME BrokerInv, NEW c, Direct!Publish(c)
  PROVE  \A n \in DOMAIN stream : stream'[n].from = stream[n].from
<1>1. stream' = [n \in DOMAIN stream |->
                   IF Direct!Subscribed(n, c)
                   THEN [stream[n] EXCEPT !.got = Append(@, published[c] + 1)]
                   ELSE stream[n]]
  BY DEF Direct!Publish
<1>2. stream \in Seq(Streams)
  BY DEF BrokerInv, Streams
<1>3. \A n \in DOMAIN stream : stream[n] \in Streams
  BY <1>2
<1> QED
  BY <1>1, <1>3 DEF Streams

LEMMA PublishHears ==
  ASSUME IndInv, IndInv', HearInv, NEW t \in Threads, Alone(t), NEW label,
         PublishTopic(t, Reached, label), UNCHANGED adapterVars
  PROVE  HearInv'
<1> DEFINE c == Here(t)
<1>1. /\ work[t].call # "subscribe" /\ work[t].rest # <<>> /\ Advance(t, <<>>)
      /\ UNCHANGED <<configured, route, link, answers>>
      /\ UNCHANGED <<link, adapters, route>>
  BY DEF PublishTopic, Inside, adapterVars
<1>2. <<>> \in Seq(Items) /\ ToSet(<<>>) = {}
  BY DEF ToSet
<1>3. \A e \in ToSet(work'[t].res) : e.sub = 0
  BY <1>1, <1>2, GathersNone DEF IndInv
<1>4. work'[t].call # "subscribe"
  BY <1>1, AdvanceFields DEF IndInv
<1>5. PeerOf(t)'
  BY <1>4 DEF PeerOf
<1>6. CASE ~ configured
  <2>1. UNCHANGED <<registered, published, stream, inbox>>
    BY <1>6 DEF PublishTopic
  <2> QED
    BY <1>1, <1>3, <1>5, <2>1, QuietThread
<1>7. CASE configured
  <2>1. Direct!Publish(c) /\ Deliver(c, Reached)
    BY <1>7 DEF PublishTopic
  <2>2. c \in Channels
    BY <1>1, AtChannel DEF IndInv
  <2> HIDE DEF c
  <2>3. /\ published' = [published EXCEPT ![c] = published[c] + 1]
        /\ registered' = registered /\ Len(stream') = Len(stream)
        /\ published \in [Channels -> Nat] /\ stream \in Seq(Streams)
    BY <1>1, <2>1, <2>2, PublishKeeps DEF Direct!Publish, IndInv, BrokerInv, Streams
  <2>4. \A n \in DOMAIN stream : stream'[n].from = stream[n].from
    BY <2>1, FromsKept DEF IndInv
  <2>5. /\ \A u \in Threads : \A n \in Nat \ {0} :
             /\ Bears(work'[u].res, n) <=> Bears(work[u].res, n)
             /\ GotFor(work'[u].res, n) = GotFor(work[u].res, n)
             /\ Bears(work[u].res, n) => work'[u].conn = work[u].conn
        /\ \A u \in Threads : NumbersOf(u)' /\ PeerOf(u)'
    BY <1>1, <1>3, <1>5, <2>3, BurdenKept
  <2>6. /\ BrokerInv /\ Reached \in SUBSET registered
        /\ \A h \in registered : /\ h.id \in Conns /\ h.sub \in Nat \ {0} /\ h.sub \in DOMAIN stream
                                 /\ h.channel \in Channels /\ h.sub <= Len(stream)
    <3>1. DOMAIN stream = 1 .. Len(stream)
      BY <2>3
    <3> QED
      BY <3>1 DEF Reached, IndInv, BrokerInv
  <2>7. ASSUME NEW k \in Conns
        PROVE  \/ inbox'[k] = inbox[k] /\ \A g \in Reached : ~ (g.id = k /\ g.channel = c)
               \/ \E g \in Reached :
                    g.id = k /\ g.channel = c /\ inbox'[k] = Append(inbox[k], Live(c, g))
    BY <2>1, <2>6, Delivers
  <2>8. ASSUME NEW k \in Conns PROVE BoxOf(k)'
    <3>1. BoxOf(k)
      BY DEF HearInv
    <3>2. CASE inbox'[k] = inbox[k]
      BY <2>3, <3>1, <3>2 DEF BoxOf
    <3>3. ASSUME NEW g \in Reached, inbox'[k] = Append(inbox[k], Live(c, g))
          PROVE  BoxOf(k)'
      <4>1. /\ Live(c, g).res \in Seq(Items)
            /\ \A e \in ToSet(Live(c, g).res) : e.sub = g.sub
        BY <2>2, <2>6, LiveFields
      <4>2. Box(inbox'[k])
        BY <3>1, <3>3, <4>1, CameInAppend DEF BoxOf
      <4>3. ToSet(inbox'[k]) = ToSet(inbox[k]) \cup {Live(c, g)}
        BY <3>1, <3>3, Appended DEF BoxOf, Box
      <4>4. g.sub <= Len(stream')
        BY <2>3, <2>6
      <4> QED
        BY <2>3, <3>1, <4>1, <4>2, <4>3, <4>4 DEF BoxOf
    <3> QED
      BY <2>7, <3>2, <3>3
  <2>9. ASSUME NEW h \in OpenSubscriptions
        PROVE  /\ Acknowledged(h)' = Acknowledged(h)
               /\ \A s : Exactly(Came(h), s, published[h.channel]) =>
                           Exactly(Came(h)', s, published'[h.channel])
    <3> DEFINE k == h.id
               n == h.sub
               p == published[c]
    <3>1. /\ h \in registered /\ link[k] = "open" /\ k \in Conns /\ h.channel \in Channels
          /\ Box(inbox[k])
      BY <2>6 DEF OpenSubscriptions, HearInv, BoxOf
    <3>2. h \in Reached
      <4>1. RouteOf(h)
        BY <3>1 DEF HearInv
      <4>2. k \in CometConns => route[n] \in Range(adapters)
        BY <3>1, <4>1 DEF RouteOf, Range
      <4> QED
        BY <3>1, <4>2 DEF Reached, Held
    <3>3. /\ Came(h) = CameIn(inbox[k], n) /\ Came(h)' = CameIn(inbox'[k], n)
          /\ Acknowledged(h) = AckIn(inbox[k], n) /\ Acknowledged(h)' = AckIn(inbox'[k], n)
      <4>1. Came(h)' = CameIn(inbox'[k], n)
        BY DEF Came, CameIn
      <4>2. Acknowledged(h)' = AckIn(inbox'[k], n)
        BY DEF Acknowledged, AckIn, Answers, Bears
      <4> QED
        BY <4>1, <4>2, CameAndAcknowledged
    <3>4. CASE inbox'[k] = inbox[k] /\ \A g \in Reached : ~ (g.id = k /\ g.channel = c)
      <4>1. h.channel # c
        BY <3>2, <3>4
      <4>2. published'[h.channel] = published[h.channel]
        BY <2>3, <3>1, <4>1
      <4> QED
        BY <3>3, <3>4, <4>2
    <3>5. ASSUME NEW g \in Reached, g.id = k, g.channel = c,
                 inbox'[k] = Append(inbox[k], Live(c, g))
          PROVE  /\ Acknowledged(h)' = Acknowledged(h)
                 /\ \A s : Exactly(Came(h), s, published[h.channel]) =>
                             Exactly(Came(h)', s, published'[h.channel])
      <4>1. /\ g \in registered /\ Live(c, g).type = "live" /\ Live(c, g).res \in Seq(Items)
            /\ GotFor(Live(c, g).res, n) = IF n = g.sub THEN <<p + 1>> ELSE <<>>
        BY <2>2, <2>6, LiveFields
      <4> DEFINE m == Live(c, g)
                 b == inbox[k]
      <4> HIDE DEF m, b, k
      <4>2. Acknowledged(h)' = Acknowledged(h)
        <5>1. IsSeq(b) /\ m.type # "answer"
          BY <3>1, <4>1 DEF Box, m, b
        <5>2. AckIn(Append(b, m), n) =
                AckIn(b, n) \cup IF m.type = "answer" /\ m.call = "subscribe" /\ Bears(m.res, n)
                                 THEN {Len(b) + 1} ELSE {}
          BY <5>1, AckInAppend, Zenon
        <5>3. AckIn(Append(b, m), n) = AckIn(b, n)
          BY <5>1, <5>2
        <5> QED
          BY <3>3, <3>5, <5>3 DEF m, b
      <4>3. CameIn(inbox'[k], n) = CameIn(inbox[k], n) \o GotFor(Live(c, g).res, n)
        <5>1. CameIn(Append(b, m), n) = CameIn(b, n) \o GotFor(m.res, n)
          BY <3>1, <4>1, CameInAppend DEF m, b
        <5> QED
          BY <3>5, <5>1 DEF m, b
      <4>4. CASE h.channel = c
        <5>1. g = h
          BY <3>1, <3>5, <4>1, <4>4 DEF HearInv, OneHandler, k
        <5>2. Came(h)' = Came(h) \o <<p + 1>>
          BY <3>3, <4>1, <4>3, <5>1
        <5>3. published'[c] = p + 1 /\ p \in Nat
          BY <2>2, <2>3
        <5>4. Exactly(<<p + 1>>, p, p + 1)
          BY <5>3, ExactlyOne
        <5>5. ASSUME NEW s, Exactly(Came(h), s, p)
              PROVE  Exactly(Came(h)', s, p + 1)
          BY <5>2, <5>4, <5>5, ExactlyJoined
        <5> QED
          BY <4>2, <4>4, <5>3, <5>5
      <4>5. CASE h.channel # c
        <5>1. n # g.sub
          BY <3>1, <3>5, <4>1, <4>5 DEF HearInv, OneHandler
        <5> DEFINE none == <<>>
        <5>2. GotFor(Live(c, g).res, n) = none
          BY <4>1, <5>1
        <5>3. CameIn(inbox[k], n) \in Seq(Nat)
          BY <3>1, CameInType
        <5>4. CameIn(inbox[k], n) \o none = CameIn(inbox[k], n)
          BY <5>3
        <5> HIDE DEF none
        <5>5. Came(h)' = Came(h)
          BY <3>3, <4>3, <5>2, <5>4
        <5>6. published'[h.channel] = published[h.channel]
          BY <2>3, <3>1, <4>5
        <5> QED
          BY <4>2, <5>5, <5>6
      <4> QED
        BY <4>4, <4>5
    <3> QED
      BY <2>7, <3>1, <3>4, <3>5
  <2>10. ASSUME NEW h \in OpenSubscriptions' PROVE Whole(h)' \/ Awaited(h)'
    <3>1. /\ h \in OpenSubscriptions /\ h \in registered /\ h.sub \in Nat \ {0}
          /\ stream'[h.sub].from = stream[h.sub].from
      BY <1>1, <2>3, <2>4, <2>6 DEF OpenSubscriptions
    <3>2. CASE Whole(h)
      <4>1. Exactly(Came(h)', stream'[h.sub].from, published'[h.channel])
        BY <2>9, <3>1, <3>2 DEF Whole
      <4> QED
        BY <2>5, <3>1, <3>2, <4>1 DEF Whole
    <3>3. CASE Awaited(h)
      <4>1. PICK u \in Threads, s \in 0 .. published[h.channel] :
              /\ Bears(work[u].res, h.sub) /\ work[u].conn = h.id
              /\ Exactly(GotFor(work[u].res, h.sub), stream[h.sub].from, s)
              /\ Exactly(Came(h), s, published[h.channel])
        BY <3>3 DEF Awaited
      <4>2. /\ Bears(work'[u].res, h.sub) /\ work'[u].conn = h.id
            /\ GotFor(work'[u].res, h.sub) = GotFor(work[u].res, h.sub)
        BY <2>5, <3>1, <4>1
      <4>3. Acknowledged(h)' = {}
        BY <2>9, <3>1, <3>3 DEF Awaited
      <4>4. Exactly(Came(h)', s, published'[h.channel])
        BY <2>9, <3>1, <4>1
      <4>5. s \in 0 .. published'[h.channel]
        BY <4>4 DEF Exactly
      <4> QED
        BY <3>1, <4>1, <4>2, <4>3, <4>4, <4>5 DEF Awaited
    <3> QED
      BY <3>1, <3>2, <3>3 DEF HearInv
  <2>11. OneHandler' /\ OneBearer'
    <3>1. OneHandler'
      BY <2>3 DEF HearInv, OneHandler
    <3>2. OneBearer'
      BY <2>5 DEF HearInv, OneBearer
    <3> QED
      BY <3>1, <3>2
  <2>12. \A h \in registered' : RouteOf(h)'
    BY <1>1, <2>3 DEF HearInv, RouteOf
  <2> QED
    BY <2>5, <2>8, <2>10, <2>11, <2>12 DEF HearInv
<1> QED
  BY <1>6, <1>7

-----------------------------------------------------------------------------
(***************************************************************************)
(* A subscription is made: nothing has come for it, and what its answer    *)
(* has reaches up to the last message.                                     *)
(***************************************************************************)
LEMMA NoneOnEither ==
  ASSUME NEW S, NEW s \in Seq(S)
  PROVE  s \o <<>> = s /\ <<>> \o s = s
<1> DEFINE none == <<>>
<1>1. none \in Seq(S) /\ Len(none) = 0
  OBVIOUS
<1> HIDE DEF none
<1>2. s \o none = s /\ none \o s = s
  BY <1>1
<1> QED
  BY <1>2 DEF none

LEMMA BrokerSubscribes ==
  ASSUME BrokerInv, NEW k \in Conns, NEW c \in Channels,
         Direct!Subscribe(k, c) \/ Adapted!Subscribe(k, c)
  PROVE  LET n == Len(stream) + 1
         IN  /\ n \in Nat \ {0} /\ Len(stream') = n
             /\ Exactly(stream'[n].got, stream'[n].from, published[c])
             /\ \A j \in 1 .. Len(stream) : stream'[j] = stream[j]
             /\ registered' = {h \in registered : ~ (h.id = k /\ h.channel = c)}
                                \cup {[channel |-> c, id |-> k, sub |-> n]}
             /\ UNCHANGED <<published, dropped>>
<1> DEFINE n == Len(stream) + 1
<1>1. PICK f, g : /\ stream' = Append(stream, [from |-> f, got |-> g])
                  /\ Exactly(g, f, published[c])
  BY HeldExactly DEF Direct!Subscribe, Adapted!Subscribe
<1>2. stream \in Seq(Streams) /\ f \in Nat /\ g \in Seq(Nat)
  BY <1>1 DEF BrokerInv, Streams, Exactly
<1> DEFINE e == [from |-> f, got |-> g]
<1>3. e.from = f /\ e.got = g
  OBVIOUS
<1> HIDE DEF e
<1>4. /\ n \in Nat \ {0} /\ Len(stream') = n /\ stream'[n] = e
      /\ \A j \in 1 .. Len(stream) : stream'[j] = stream[j]
  BY <1>1, <1>2 DEF e
<1>5. /\ registered' = {h \in registered : ~ (h.id = k /\ h.channel = c)}
                         \cup {[channel |-> c, id |-> k, sub |-> n]}
      /\ UNCHANGED <<published, dropped>>
  BY DEF Direct!Subscribe, Adapted!Subscribe
<1> HIDE DEF n
<1>6. Exactly(stream'[n].got, stream'[n].from, published[c])
  BY <1>1, <1>3, <1>4
<1>7. /\ n \in Nat \ {0} /\ Len(stream') = n
      /\ Exactly(stream'[n].got, stream'[n].from, published[c])
      /\ \A j \in 1 .. Len(stream) : stream'[j] = stream[j]
      /\ registered' = {h \in registered : ~ (h.id = k /\ h.channel = c)}
                         \cup {[channel |-> c, id |-> k, sub |-> n]}
      /\ UNCHANGED <<published, dropped>>
  BY <1>4, <1>5, <1>6
<1> QED
  BY <1>7 DEF n

\* The item of a new subscription joins those its thread has gathered.
LEMMA ItemJoins ==
  ASSUME NEW res \in Seq(Items), NEW e \in Items
  PROVE  /\ res \o <<e>> \in Seq(Items) /\ ToSet(res \o <<e>>) = ToSet(res) \cup {e}
         /\ \A j : j # e.sub => /\ Bears(res \o <<e>>, j) <=> Bears(res, j)
                                /\ GotFor(res \o <<e>>, j) = GotFor(res, j)
         /\ Bears(res \o <<e>>, e.sub)
         /\ ~ Bears(res, e.sub) => GotFor(res \o <<e>>, e.sub) = e.got
<1> DEFINE more == res \o <<e>>
<1>1. more = Append(res, e) /\ more \in Seq(Items)
  OBVIOUS
<1>2. ToSet(more) = ToSet(res) \cup {e}
  BY SeqIsSeq, OneIsSeq, Joined
<1> HIDE DEF more
<1>3. \A j : GotFor(more, j) = GotFor(res, j) \o GotOf(e, j)
  BY <1>1, GotForAppend
<1>4. e.got \in Seq(Nat)
  BY DEF Items
<1>5. ASSUME NEW j, j # e.sub
      PROVE  /\ Bears(more, j) <=> Bears(res, j)
             /\ GotFor(more, j) = GotFor(res, j)
  <2>1. GotOf(e, j) = <<>>
    BY <1>5 DEF GotOf
  <2>2. GotFor(res, j) \in Seq(Nat)
    BY GotForType
  <2>3. GotFor(res, j) \o <<>> = GotFor(res, j)
    BY <2>2, NoneOnEither
  <2>4. GotFor(more, j) = GotFor(res, j)
    BY <1>3, <2>1, <2>3, Zenon
  <2> QED
    BY <1>2, <1>5, <2>4 DEF Bears
<1>6. Bears(more, e.sub)
  BY <1>2 DEF Bears
<1>7. ASSUME ~ Bears(res, e.sub) PROVE GotFor(more, e.sub) = e.got
  <2>1. GotOf(e, e.sub) = e.got
    BY DEF GotOf
  <2>2. GotFor(res, e.sub) = <<>>
    BY <1>7, GotForType
  <2>3. <<>> \o e.got = e.got
    BY <1>4, NoneOnEither
  <2> QED
    BY <1>3, <2>1, <2>2, <2>3, Zenon
<1>8. /\ more \in Seq(Items) /\ ToSet(more) = ToSet(res) \cup {e}
      /\ \A j : j # e.sub => /\ Bears(more, j) <=> Bears(res, j)
                             /\ GotFor(more, j) = GotFor(res, j)
      /\ Bears(more, e.sub)
      /\ ~ Bears(res, e.sub) => GotFor(more, e.sub) = e.got
  BY <1>1, <1>2, <1>5, <1>6, <1>7
<1> QED
  BY <1>8 DEF more

LEMMA SubscribeHears ==
  ASSUME IndInv, IndInv', HearInv, NEW t \in Threads, Alone(t), SubscribeChannel(t),
         UNCHANGED adapterVars
  PROVE  HearInv'
<1> DEFINE c == Here(t)
           k == work[t].conn
           n == Len(stream) + 1
           e == Item(c, n, stream'[n].from, stream'[n].got)
           new == [channel |-> c, id |-> k, sub |-> n]
<1>1. /\ pc[t] = "call" /\ work[t].call = "subscribe" /\ work[t].rest # <<>>
      /\ UNCHANGED <<configured, clientVars>>
  BY DEF SubscribeChannel, Inside
<1>2. UNCHANGED <<link, inbox, adapters>>
  BY <1>1 DEF clientVars, adapterVars
<1>3. /\ c \in Channels /\ k \in Conns /\ work[t].res \in Seq(Items)
      /\ work[t].call \in RequestCalls /\ WorkInv /\ BrokerInv
  BY <1>1, AtChannel, ResType DEF IndInv, WorkInv, WorkOf, RequestCalls, PubsubCalls
<1>4. CASE ~ configured
  <2>1. UNCHANGED brokerVars /\ Advance(t, <<>>)
    BY <1>4 DEF SubscribeChannel
  <2>2. /\ work'[t].res = work[t].res \o <<>> /\ work'[t].call = work[t].call
        /\ work'[t].conn = work[t].conn /\ work'[t].peer = work[t].peer
    BY <1>3, <2>1, AdvanceFields
  <2>3. work'[t].res = work[t].res
    BY <1>3, <2>2, NoneOnEither
  <2>4. PeerOf(t)'
    BY <1>1, <1>2, <2>2 DEF HearInv, PeerOf
  <2>5. UNCHANGED <<registered, published, stream, route>>
    BY <2>1 DEF brokerVars
  <2> QED
    BY <1>2, <2>2, <2>3, <2>4, <2>5, QuietThread
<1>5. CASE configured
  <2>1. /\ Direct!Subscribe(k, c) \/ Adapted!Subscribe(k, c)
        /\ route' = Append(route, work[t].peer) /\ Advance(t, <<e>>)
    BY <1>5 DEF SubscribeChannel
  <2>2. /\ n \in Nat \ {0} /\ Len(stream') = n
        /\ Exactly(stream'[n].got, stream'[n].from, published[c])
        /\ \A j \in 1 .. Len(stream) : stream'[j] = stream[j]
        /\ registered' = {h \in registered : ~ (h.id = k /\ h.channel = c)} \cup {new}
        /\ UNCHANGED <<published, dropped>>
    BY <1>3, <2>1, BrokerSubscribes
  <2>3. /\ e \in Items /\ e.sub = n /\ e.got = stream'[n].got
        /\ new.channel = c /\ new.id = k /\ new.sub = n
    BY <1>3, <2>2 DEF Exactly, Item, Items
  <2>4. /\ work'[t].res = work[t].res \o <<e>> /\ work'[t].call = "subscribe"
        /\ work'[t].conn = k /\ work'[t].peer = work[t].peer
    BY <1>1, <1>3, <2>1, AdvanceFields
  <2>5. Len(stream) \in Nat /\ Len(stream) < n /\ Len(stream) <= Len(stream')
    BY <1>3, <2>2 DEF BrokerInv
  <2> HIDE DEF c, k, e, new
  <2>6. ASSUME NEW u \in Threads, u # t
        PROVE  work'[u] = work[u] /\ NumbersOf(u)' /\ PeerOf(u)'
    BY <1>2, <2>2, <2>5, <2>6, OthersKept
  <2>7. /\ ToSet(work'[t].res) = ToSet(work[t].res) \cup {e}
        /\ \A j : j # n => /\ Bears(work'[t].res, j) <=> Bears(work[t].res, j)
                           /\ GotFor(work'[t].res, j) = GotFor(work[t].res, j)
        /\ Bears(work'[t].res, n)
        /\ ~ Bears(work[t].res, n) => GotFor(work'[t].res, n) = e.got
    BY <1>3, <2>3, <2>4, ItemJoins
  <2>8. \A u \in Threads : ~ Bears(work[u].res, n)
    <3> TAKE u \in Threads
    <3>1. \A x \in ToSet(work[u].res) : x.sub <= Len(stream) /\ x.sub \in Nat
      BY <1>3, ResType DEF HearInv, NumbersOf
    <3> QED
      BY <2>5, <3>1 DEF Bears
  <2>9. /\ \A u \in Threads, j \in Nat : j # n =>
             /\ Bears(work'[u].res, j) <=> Bears(work[u].res, j)
             /\ GotFor(work'[u].res, j) = GotFor(work[u].res, j)
             /\ work'[u].conn = work[u].conn
        /\ \A u \in Threads : Bears(work'[u].res, n) <=> u = t
    <3>1. ASSUME NEW u \in Threads
          PROVE  /\ \A j \in Nat : j # n =>
                      /\ Bears(work'[u].res, j) <=> Bears(work[u].res, j)
                      /\ GotFor(work'[u].res, j) = GotFor(work[u].res, j)
                      /\ work'[u].conn = work[u].conn
                 /\ Bears(work'[u].res, n) <=> u = t
      <4>1. CASE u = t
        BY <2>4, <2>7, <4>1 DEF k
      <4>2. CASE u # t
        BY <2>6, <2>8, <4>2
      <4> QED
        BY <4>1, <4>2
    <3> QED
      BY <3>1
  <2>10. NumbersOf(t)' /\ PeerOf(t)'
    <3>1. \A x \in ToSet(work[t].res) : x.sub <= Len(stream) /\ x.sub \in Nat
      BY <1>3, ResType DEF HearInv, NumbersOf
    <3>2. \A x \in ToSet(work'[t].res) : x.sub <= Len(stream')
      BY <2>2, <2>3, <2>5, <2>7, <3>1
    <3>3. PeerOf(t)'
      BY <1>1, <1>2, <2>4 DEF HearInv, PeerOf, k
    <3> QED
      BY <2>4, <3>2, <3>3 DEF NumbersOf
  <2>11. \A h \in registered : /\ h.sub \in 1 .. Len(stream) /\ h.sub \in Nat \ {0} /\ h.sub # n
                               /\ h.id \in Conns /\ h.channel \in Channels
    BY <1>3, <2>5 DEF BrokerInv
  <2>12. OneHandler'
    BY <2>2, <2>3, <2>11 DEF HearInv, OneHandler
  <2>13. ASSUME NEW h \in registered' PROVE RouteOf(h)'
    <3>1. route \in Seq(0 .. made) /\ Len(route) = Len(stream)
      BY DEF IndInv, AdapterInv
    <3>2. route'[n] = work[t].peer /\ \A j \in 1 .. Len(stream) : route'[j] = route[j]
      BY <2>1, <3>1
    <3>3. CASE h \in registered
      <4>1. RouteOf(h) /\ route'[h.sub] = route[h.sub] /\ h.id \in Conns
        BY <2>11, <3>2, <3>3 DEF HearInv
      <4> QED
        BY <1>2, <4>1 DEF RouteOf
    <3>4. CASE h = new
      BY <1>1, <1>2, <2>3, <3>2, <3>4 DEF HearInv, PeerOf, RouteOf, k
    <3> QED
      BY <2>2, <3>3, <3>4
  <2>14. OneBearer'
    BY <2>9 DEF HearInv, OneBearer
  <2>15. ASSUME NEW j \in Conns PROVE BoxOf(j)'
    <3>1. BoxOf(j) /\ inbox'[j] = inbox[j]
      BY <1>2 DEF HearInv
    <3>2. \A m \in ToSet(inbox[j]) : \A x \in ToSet(m.res) : x.sub \in Nat
      <4>1. \A x \in Items : x.sub \in Nat
        BY DEF Items
      <4> QED
        BY <3>1, <4>1, ItemFields DEF BoxOf, Box
    <3> QED
      BY <2>5, <3>1, <3>2 DEF BoxOf
  <2>16. ASSUME NEW h \in OpenSubscriptions' PROVE Whole(h)' \/ Awaited(h)'
    <3>1. Came(h)' = Came(h) /\ Acknowledged(h)' = Acknowledged(h)
      BY <1>2 DEF Came, Acknowledged, Answers
    <3>2. CASE h \in registered
      <4>1. /\ h \in OpenSubscriptions /\ h.sub \in Nat /\ h.sub # n
            /\ stream'[h.sub] = stream[h.sub]
        BY <1>2, <2>2, <2>11, <3>2 DEF OpenSubscriptions
      <4>2. CASE Whole(h)
        BY <2>2, <2>9, <3>1, <4>1, <4>2 DEF Whole
      <4>3. CASE Awaited(h)
        <5>1. PICK u \in Threads, s \in 0 .. published[h.channel] :
                /\ Bears(work[u].res, h.sub) /\ work[u].conn = h.id
                /\ Exactly(GotFor(work[u].res, h.sub), stream[h.sub].from, s)
                /\ Exactly(Came(h), s, published[h.channel])
          BY <4>3 DEF Awaited
        <5>2. /\ Bears(work'[u].res, h.sub) /\ work'[u].conn = h.id
              /\ GotFor(work'[u].res, h.sub) = GotFor(work[u].res, h.sub)
          BY <2>9, <4>1, <5>1
        <5>3. Acknowledged(h)' = {}
          BY <3>1, <4>3 DEF Awaited
        <5> QED
          BY <2>2, <3>1, <4>1, <5>1, <5>2, <5>3 DEF Awaited
      <4> QED
        BY <4>1, <4>2, <4>3 DEF HearInv
    <3>3. CASE h = new
      <4>1. /\ Box(inbox[k]) /\ \A m \in ToSet(inbox[k]) : ~ Bears(m.res, n)
        <5>1. BoxOf(k)
          BY <1>3 DEF HearInv, k
        <5>2. \A x \in Items : x.sub \in Nat
          BY DEF Items
        <5> QED
          BY <2>5, <5>1, <5>2, ItemFields DEF BoxOf, Box, Bears
      <4>2. Came(h) = <<>>
        BY <2>3, <3>3, <4>1, CameInType, CameAndAcknowledged
      <4>3. Acknowledged(h) = {}
        <5>1. Acknowledged(h) = AckIn(inbox[k], n)
          BY <2>3, <3>3, CameAndAcknowledged
        <5>2. \A i \in DOMAIN inbox[k] : inbox[k][i] \in ToSet(inbox[k])
          BY DEF ToSet
        <5> QED
          BY <4>1, <5>1, <5>2 DEF AckIn
      <4>4. published[c] \in Nat
        BY <1>3 DEF BrokerInv, c
      <4>5. Exactly(Came(h), published[c], published[c])
        BY <4>2, <4>4, ExactlyNone
      <4>6. GotFor(work'[t].res, n) = stream'[n].got
        BY <2>3, <2>7, <2>8
      <4>7. published[c] \in 0 .. published'[h.channel] /\ published'[h.channel] = published[c]
        BY <2>2, <2>3, <3>3, <4>4
      <4>8. h.sub = n /\ h.id = k /\ h.channel = c
        BY <2>3, <3>3
      <4>9. /\ Acknowledged(h)' = {}
            /\ Bears(work'[t].res, h.sub) /\ work'[t].conn = h.id
            /\ Exactly(GotFor(work'[t].res, h.sub), stream'[h.sub].from, published[c])
            /\ Exactly(Came(h)', published[c], published'[h.channel])
        BY <2>2, <2>4, <2>7, <3>1, <4>3, <4>5, <4>6, <4>7, <4>8
      <4> QED
        BY <4>7, <4>9 DEF Awaited
    <3> QED
      BY <2>2, <3>2, <3>3 DEF OpenSubscriptions
  <2> QED
    BY <2>6, <2>10, <2>12, <2>13, <2>14, <2>15, <2>16 DEF HearInv
<1> QED
  BY <1>4, <1>5

-----------------------------------------------------------------------------
(***************************************************************************)
(* An answer is given: what it has joins what came, and the subscriptions  *)
(* it is about are whole.                                                  *)
(***************************************************************************)
\* What the answer of a thread has.
ResponseOf(t) ==
  IF work[t].call = "mload" /\ ~ work[t].refused
  THEN LoadList(work[t].asked, work[t].res) ELSE work[t].res

LEMMA ResponseBears ==
  ASSUME IndInv, HearInv, NEW t \in Threads
  PROVE  /\ ResponseOf(t) \in Seq(Items)
         /\ \A x \in ToSet(ResponseOf(t)) : x.sub <= Len(stream)
         /\ \A n \in Nat \ {0} :
              /\ Bears(ResponseOf(t), n) <=> Bears(work[t].res, n)
              /\ GotFor(ResponseOf(t), n) = GotFor(work[t].res, n)
<1>1. /\ work[t].res \in Seq(Items) /\ work[t].asked \in Seq(Channels)
      /\ \A x \in ToSet(work[t].res) : x.sub <= Len(stream)
      /\ Len(stream) \in Nat
  <2>1. work[t].res \in Seq(Items) /\ work[t].asked \in Seq(Channels)
    BY DEF IndInv, WorkInv, Works
  <2>2. NumbersOf(t) /\ Len(stream) \in Nat
    BY DEF HearInv, IndInv, BrokerInv
  <2> QED
    BY <2>1, <2>2, Zenon DEF NumbersOf
<1>2. CASE work[t].call = "mload" /\ ~ work[t].refused
  <2> DEFINE list == LoadList(work[t].asked, work[t].res)
  <2>1. ResponseOf(t) = list
    BY <1>2 DEF ResponseOf
  <2>2. /\ list \in Seq(Items)
        /\ \A x \in ToSet(list) : \E c \in Channels : x = MessagesOf(work[t].res, c)
    BY <1>1, LoadListType
  <2>3. \A c : MessagesOf(work[t].res, c).sub = 0
    BY DEF MessagesOf, Item
  <2> HIDE DEF list
  <2>4. \A x \in ToSet(list) : x.sub = 0
    BY <2>2, <2>3
  <2>5. \A x \in ToSet(work[t].res) : x.sub = 0
    BY <1>2 DEF HearInv, NumbersOf
  <2>6. \A n \in Nat \ {0} : /\ ~ Bears(list, n) /\ GotFor(list, n) = <<>>
                             /\ ~ Bears(work[t].res, n) /\ GotFor(work[t].res, n) = <<>>
    BY <1>1, <2>2, <2>4, <2>5, BearsNone
  <2> QED
    BY <1>1, <2>1, <2>2, <2>4, <2>6
<1>3. CASE ~ (work[t].call = "mload" /\ ~ work[t].refused)
  BY <1>1, <1>3 DEF ResponseOf
<1> QED
  BY <1>2, <1>3

AnswerOf(t) ==
  [type  |-> IF work[t].refused THEN "null" ELSE "answer", call |-> work[t].call,
   asked |-> work[t].asked, since |-> work[t].since, res |-> ResponseOf(t)]

LEMMA Responds ==
  ASSUME IndInv, InboxInv, NEW t \in Threads, RespondTo(t)
  PROVE  LET k == work[t].conn
         IN  /\ pc[t] = "answer" /\ pc'[t] = "idle" /\ work'[t] = NoWork
             /\ k \in Conns /\ work[t].call \in RequestCalls
             /\ UNCHANGED <<configured, registered, published, stream, route, link>>
             /\ \A j \in Conns : j # k => inbox'[j] = inbox[j]
             /\ inbox'[k] = IF link[k] = "open" THEN Append(inbox[k], AnswerOf(t)) ELSE inbox[k]
<1> DEFINE k == work[t].conn
           m == AnswerOf(t)
<1>1. /\ pc[t] = "answer" /\ work' = [work EXCEPT ![t] = NoWork] /\ pc' = [pc EXCEPT ![t] = "idle"]
      /\ UNCHANGED <<configured, brokerVars, link>>
      /\ inbox' = IF link[k] = "open" THEN [inbox EXCEPT ![k] = Append(@, m)] ELSE inbox
  BY DEF RespondTo, Respond, Answer, Goto, AnswerOf, ResponseOf
<1>2. UNCHANGED <<configured, registered, published, stream, route, link>>
  BY <1>1 DEF brokerVars
<1>3. k \in Conns /\ work[t].call \in RequestCalls
  BY <1>1 DEF IndInv, WorkInv, WorkOf, Works
<1>4. work'[t] = NoWork /\ pc'[t] = "idle"
  BY <1>1 DEF IndInv, WorkInv
<1> HIDE DEF m, k
<1>5. /\ \A j \in Conns : j # k => inbox'[j] = inbox[j]
      /\ inbox'[k] = IF link[k] = "open" THEN Append(inbox[k], m) ELSE inbox[k]
  BY <1>1, <1>3 DEF InboxInv
<1> QED
  BY <1>1, <1>2, <1>3, <1>4, <1>5 DEF m, k

LEMMA RespondHears ==
  ASSUME IndInv, IndInv', InboxInv, HearInv, NEW t \in Threads, Alone(t), RespondTo(t),
         UNCHANGED adapterVars
  PROVE  HearInv'
<1> DEFINE k == work[t].conn
           res == ResponseOf(t)
           m == AnswerOf(t)
<1>1. /\ k \in Conns /\ work'[t] = NoWork
      /\ \A j \in Conns : j # k => inbox'[j] = inbox[j]
      /\ inbox'[k] = IF link[k] = "open" THEN Append(inbox[k], m) ELSE inbox[k]
  BY Responds
<1>2. UNCHANGED <<registered, published, stream, route, link, adapters>>
  BY Responds DEF adapterVars
<1>3. k \in Conns
  BY <1>1
<1>4. /\ res \in Seq(Items) /\ \A x \in ToSet(res) : x.sub <= Len(stream)
      /\ \A n \in Nat \ {0} : /\ Bears(res, n) <=> Bears(work[t].res, n)
                              /\ GotFor(res, n) = GotFor(work[t].res, n)
  BY ResponseBears
<1>5. m.res = res
  BY DEF AnswerOf
<1> HIDE DEF m, res
<1>6. /\ work'[t] = NoWork /\ ~ \E n \in Nat : Bears(work'[t].res, n)
      /\ NumbersOf(t)' /\ PeerOf(t)'
  BY <1>1, NoWorkBears DEF Bears, NumbersOf, PeerOf
<1>7. ASSUME NEW u \in Threads, u # t
      PROVE  work'[u] = work[u] /\ NumbersOf(u)' /\ PeerOf(u)'
  <2>1. Len(stream') \in Nat /\ Len(stream) <= Len(stream')
    BY <1>2 DEF IndInv, BrokerInv
  <2> QED
    BY <1>2, <1>7, <2>1, OthersKept
<1>8. OneHandler'
  BY <1>2 DEF HearInv, OneHandler
<1>9. ASSUME NEW h \in registered' PROVE RouteOf(h)'
  BY <1>2 DEF HearInv, RouteOf
<1>10. OneBearer'
  BY <1>6, <1>7 DEF HearInv, OneBearer
<1>12. IsSeq(inbox[k]) /\ Box(inbox[k]) /\ BoxOf(k)
  BY <1>3 DEF HearInv, BoxOf, Box
<1> DEFINE b == inbox[k]
           more == Append(b, m)
<1> HIDE DEF b, k
<1>13. /\ Box(more) /\ ToSet(more) = ToSet(b) \cup {m}
       /\ \A n : CameIn(more, n) = CameIn(b, n) \o GotFor(res, n)
       /\ \A n : ~ Bears(res, n) => AckIn(more, n) = AckIn(b, n)
  <2>1. IsSeq(b) /\ Box(b) /\ m.res \in Seq(Items)
    BY <1>4, <1>5, <1>12 DEF b
  <2>2. Box(more) /\ \A n : CameIn(more, n) = CameIn(b, n) \o GotFor(res, n)
    BY <1>5, <2>1, CameInAppend
  <2>3. ToSet(more) = ToSet(b) \cup {m}
    BY <2>1, Appended
  <2>4. ASSUME NEW n, ~ Bears(res, n) PROVE AckIn(more, n) = AckIn(b, n)
    <3>1. AckIn(more, n) =
            AckIn(b, n) \cup IF m.type = "answer" /\ m.call = "subscribe" /\ Bears(m.res, n)
                             THEN {Len(b) + 1} ELSE {}
      BY <2>1, AckInAppend, Zenon
    <3> QED
      BY <1>5, <2>4, <3>1
  <2> QED
    BY <2>2, <2>3, <2>4
<1> HIDE DEF more
<1>14. ASSUME NEW j \in Conns PROVE BoxOf(j)'
  <2>1. BoxOf(j)
    BY DEF HearInv
  <2>2. CASE inbox'[j] = inbox[j]
    BY <1>2, <2>1, <2>2 DEF BoxOf
  <2>3. CASE j = k /\ inbox'[k] = more
    BY <1>2, <1>4, <1>5, <1>12, <1>13, <2>3 DEF BoxOf, b
  <2> QED
    BY <1>1, <2>2, <2>3 DEF more, b
<1>15. ASSUME NEW h \in OpenSubscriptions'
       PROVE  /\ h \in OpenSubscriptions /\ h.sub \in Nat \ {0}
              /\ h.id = k => Came(h)' = Came(h) \o GotFor(work[t].res, h.sub)
              /\ h.id # k \/ ~ Bears(work[t].res, h.sub) =>
                   Came(h)' = Came(h) /\ Acknowledged(h)' = Acknowledged(h)
  <2> DEFINE n == h.sub
  <2>1. h \in OpenSubscriptions /\ link[h.id] = "open" /\ h.id \in Conns /\ n \in Nat \ {0}
    BY <1>2 DEF OpenSubscriptions, IndInv, BrokerInv
  <2>2. /\ Came(h) = CameIn(inbox[h.id], n) /\ Acknowledged(h) = AckIn(inbox[h.id], n)
    BY CameAndAcknowledged
  <2>3. Came(h)' = CameIn(inbox'[h.id], n) /\ Acknowledged(h)' = AckIn(inbox'[h.id], n)
    BY DEF Came, CameIn, Acknowledged, AckIn, Answers, Bears
  <2>4. CASE h.id # k
    BY <1>1, <2>1, <2>2, <2>3, <2>4
  <2>5. CASE h.id = k
    <3>1. inbox'[h.id] = more /\ inbox[h.id] = b
      BY <1>1, <1>2, <2>1, <2>5 DEF more, b
    <3>2. Came(h)' = Came(h) \o GotFor(work[t].res, n)
      BY <1>4, <1>13, <2>1, <2>2, <2>3, <3>1
    <3>3. ASSUME ~ Bears(work[t].res, n)
          PROVE  Came(h)' = Came(h) /\ Acknowledged(h)' = Acknowledged(h)
      <4>1. ~ Bears(res, n)
        BY <1>4, <2>1, <3>3
      <4>2. GotFor(work[t].res, n) = <<>>
        BY <3>3, GotForType, ResType DEF IndInv
      <4>3. Came(h) \in Seq(Nat)
        BY <1>12, <2>2, <3>1, CameInType DEF b
      <4>4. Came(h) \o <<>> = Came(h)
        BY <4>3, NoneOnEither
      <4>5. Came(h)' = Came(h)
        BY <3>2, <4>2, <4>4, Zenon
      <4> QED
        BY <1>13, <2>2, <2>3, <3>1, <4>1, <4>5
    <3> QED
      BY <2>1, <2>5, <3>2, <3>3
  <2> QED
    BY <2>1, <2>4, <2>5
<1>16. ASSUME NEW h \in OpenSubscriptions' PROVE Whole(h)' \/ Awaited(h)'
  <2>1. /\ h \in OpenSubscriptions /\ h.sub \in Nat \ {0} /\ h \in registered
        /\ Whole(h) \/ Awaited(h)
    BY <1>15 DEF HearInv, OpenSubscriptions
  <2>2. CASE Whole(h)
    <3>1. \A u \in Threads : ~ Bears(work'[u].res, h.sub)
      BY <1>6, <1>7, <2>1, <2>2 DEF Whole
    <3>2. Came(h)' = Came(h)
      BY <1>15, <2>2 DEF Whole
    <3> QED
      BY <1>2, <2>2, <3>1, <3>2 DEF Whole
  <2>3. CASE Awaited(h)
    <3>1. PICK u \in Threads, s \in 0 .. published[h.channel] :
            /\ Bears(work[u].res, h.sub) /\ work[u].conn = h.id
            /\ Exactly(GotFor(work[u].res, h.sub), stream[h.sub].from, s)
            /\ Exactly(Came(h), s, published[h.channel])
      BY <2>3 DEF Awaited
    <3>2. \A v \in Threads : Bears(work[v].res, h.sub) => v = u
      BY <2>1, <3>1 DEF HearInv, OneBearer
    <3>3. CASE u = t
      <4>1. Came(h)' = Came(h) \o GotFor(work[t].res, h.sub)
        BY <1>15, <3>1, <3>3 DEF k
      <4>2. Exactly(Came(h)', stream[h.sub].from, published[h.channel])
        BY <3>1, <3>3, <4>1, ExactlyJoined
      <4>3. \A v \in Threads : ~ Bears(work'[v].res, h.sub)
        BY <1>6, <1>7, <2>1, <3>2, <3>3
      <4> QED
        BY <1>2, <4>2, <4>3 DEF Whole
    <3>4. CASE u # t
      <4>1. ~ Bears(work[t].res, h.sub)
        BY <3>2, <3>4
      <4>2. Came(h)' = Came(h) /\ Acknowledged(h)' = Acknowledged(h)
        BY <1>15, <4>1
      <4>3. work'[u] = work[u]
        BY <1>7, <3>4
      <4> QED
        BY <1>2, <2>3, <3>1, <4>2, <4>3 DEF Awaited
    <3> QED
      BY <3>3, <3>4
  <2> QED
    BY <2>1, <2>2, <2>3
<1> QED
  BY <1>6, <1>7, <1>8, <1>9, <1>10, <1>14, <1>16 DEF HearInv

-----------------------------------------------------------------------------
LEMMA InitHears == Init => HearInv
<1> SUFFICES ASSUME Init PROVE HearInv
  OBVIOUS
<1>1. /\ registered = {} /\ work = [t \in Threads |-> NoWork]
      /\ inbox = [k \in Conns |-> <<>>]
  BY DEF Init, DomainInit, Direct!Init
<1>2. IsSeq(<<>>) /\ ToSet(<<>>) = {}
  BY DEF IsSeq, ToSet
<1>3. \A t \in Threads : work[t].call = "" /\ work[t].res = <<>>
  BY <1>1, NoWorkBears
<1>4. \A t \in Threads : PeerOf(t) /\ NumbersOf(t)
  BY <1>2, <1>3 DEF PeerOf, NumbersOf
<1>5. OneBearer
  BY <1>2, <1>3 DEF OneBearer, Bears
<1>6. \A k \in Conns : BoxOf(k)
  BY <1>1, <1>2 DEF BoxOf, Box
<1> QED
  BY <1>1, <1>4, <1>5, <1>6 DEF HearInv, OneHandler, OpenSubscriptions

LEMMA StepHears ==
  ASSUME IndInv, IndInv', InboxInv, HearInv, NEW t \in Threads, Step(t)
  PROVE  HearInv'
<1>1. Alone(t)
  BY DomainAlone DEF IndInv
<1>2. CASE DomainStep(t) /\ UNCHANGED adapterVars
  <2>1. CASE PublishTopic(t, Reached, IF work[t].call = "mpublish" THEN "target" ELSE "call")
    BY <1>1, <1>2, <2>1, PublishHears
  <2>2. CASE SubscribeChannel(t)
    BY <1>1, <1>2, <2>2, SubscribeHears
  <2>3. CASE DescribeChannel(t)
    BY <1>1, <1>2, <2>3, DescribeHears
  <2>4. CASE LoadChannel(t)
    BY <1>1, <1>2, <2>4, LoadHears
  <2>5. CASE SweepPart(t, IF work[t].call = "unreg" /\ work[t].conn \in CometConns
                          THEN "erase" ELSE "idle")
    BY <1>1, <1>2, <2>5, SweepHears
  <2>6. CASE RespondTo(t)
    BY <1>1, <1>2, <2>6, RespondHears
  <2> QED
    BY <1>2, <2>1, <2>2, <2>3, <2>4, <2>5, <2>6 DEF DomainStep
<1>3. CASE FindAdapter(t) \/ LockTarget(t) \/ TargetGone(t) \/ EraseAdapter(t)
  BY <1>1, <1>3, AdapterHears
<1> QED
  BY <1>2, <1>3 DEF Step

LEMMA NextHears == IndInv /\ InboxInv /\ HearInv /\ [Next]_vars => HearInv'
<1> SUFFICES ASSUME IndInv, InboxInv, HearInv, [Next]_vars PROVE HearInv'
  OBVIOUS
<1>1. IndInv'
  BY NextIndInv
<1>2. ASSUME NEW t \in Threads, Step(t) PROVE HearInv'
  BY <1>1, <1>2, StepHears
<1>3. ASSUME NEW t \in Threads, NEW r \in Requests, ReceiveRequest(t, r) PROVE HearInv'
  BY <1>1, <1>3, ReceiveHears
<1>4. ASSUME NEW t \in Threads, NEW k \in Conns, UnregisterConn(t, k) PROVE HearInv'
  BY <1>1, <1>4, UnregisterHears
<1>5. ASSUME NEW t \in Threads, DebugReset(t), UNCHANGED adapterVars PROVE HearInv'
  BY <1>1, <1>5, ResetHears
<1>6. ASSUME NEW k \in Conns, Close(k), UNCHANGED adapterVars PROVE HearInv'
  <2>1. UNCHANGED <<registered, published, stream, route, inbox, adapters, work, pc>>
    BY <1>6 DEF Close, brokerVars, adapterVars
  <2>2. \A j \in Conns : link'[j] = "open" => link[j] = "open"
    BY <1>6 DEF Close, IndInv, WorkInv
  <2> QED
    BY <2>1, <2>2, NoThreadHears
<1>7. CASE DestroyTarget
  <2>1. /\ registered' = {}
        /\ UNCHANGED <<published, stream, route, inbox, adapters, work, pc, link>>
    BY <1>7 DEF DestroyTarget, clientVars
  <2> QED
    BY <2>1, NoThreadHears
<1>8. CASE UNCHANGED vars
  <2>1. UNCHANGED <<registered, published, stream, route, inbox, adapters, work, pc, link>>
    BY <1>8 DEF vars, brokerVars, clientVars, adapterVars
  <2> QED
    BY <2>1, NoThreadHears
<1> QED
  BY <1>2, <1>3, <1>4, <1>5, <1>6, <1>7, <1>8 DEF Next, Quiet

(***************************************************************************)
(* The invariant of what is heard: which subscription a handler, an answer *)
(* under way and an answer in an inbox are about, what came for it so far, *)
(* and which copy of the queue went before that, for every order of the    *)
(* steps of subscribe, fire_, unreg_io and the reset.                      *)
(***************************************************************************)
THEOREM HearInvariance == Spec => [](IndInv /\ InboxInv /\ HearInv)
BY InitIndInv, NextIndInv, InitHears, NextHears, PTL DEF Spec

(***************************************************************************)
(* A client that was told it is subscribed has every message from the      *)
(* first its answer had to the last published, each once, in whatever      *)
(* order the threads publish, subscribe, answer, unregister, reset the     *)
(* pubsub_mt and release the target.                                       *)
(***************************************************************************)
THEOREM ClientsHearEverything == Spec => []ClientGapless
<1>1. HearInv => ClientGapless
  BY DEF HearInv, Whole, Awaited, Exactly, ClientGapless
<1> QED
  BY <1>1, HearInvariance, PTL
-----------------------------------------------------------------------------
(***************************************************************************)
(* What a load answers about a channel to which the client knew to be      *)
(* subscribed when it asked: it reaches up to what the subscription began  *)
(* with.                                                                   *)
(***************************************************************************)
Loads == {"load", "mload"}

Covers(k, since, res) ==
  \A h \in OpenSubscriptions : h.id = k =>
    \A i \in Acknowledged(h) : i <= since =>
      \A e \in ToSet(res) : e.channel = h.channel =>
        (e.from + 1) .. stream[h.sub].from \subseteq ToSet(e.got)

\* A request knows of what had come before it.
SinceOf(t) ==
  work[t].call \in RequestCalls => work[t].since <= Len(inbox[work[t].conn])

StampsOf(k) == \A m \in ToSet(inbox[k]) : m.since \in 0 .. Len(inbox[k])

\* An mload has an item about every channel it has been at.
BeenAt(t) ==
  /\ pc[t] = "answer" => work[t].rest = <<>>
  /\ work[t].call = "mload" /\ configured /\ ~ work[t].refused =>
       ToSet(work[t].asked) \subseteq
         {e.channel : e \in ToSet(work[t].res)} \cup ToSet(work[t].rest)

CoversOf(t) == work[t].call \in Loads => Covers(work[t].conn, work[t].since, work[t].res)

BoxCovers(k) ==
  \A m \in ToSet(inbox[k]) :
    m.type = "answer" /\ m.call \in Loads => Covers(k, m.since, m.res)

LoadInv ==
  /\ \A t \in Threads : SinceOf(t) /\ BeenAt(t) /\ CoversOf(t)
  /\ \A k \in Conns : StampsOf(k) /\ BoxCovers(k)

-----------------------------------------------------------------------------
(***************************************************************************)
(* What no step takes back: what came stays, an open connection was open,  *)
(* and a subscription that was told of stays where it began.               *)
(***************************************************************************)
Grown(b, more) ==
  /\ Len(b) \in Nat /\ Len(more) \in Nat /\ Len(b) <= Len(more)
  /\ DOMAIN b = 1 .. Len(b) /\ DOMAIN more = 1 .. Len(more)
  /\ \A i \in 1 .. Len(b) : more[i] = b[i]

Grows ==
  /\ configured' = configured
  /\ \A k \in Conns : link'[k] = "open" => link[k] = "open"
  /\ \A k \in Conns : Grown(inbox[k], inbox'[k])
  /\ \A n \in 1 .. Len(stream) : stream'[n].from = stream[n].from
  /\ \A h \in registered' : h \in registered \/ h.sub > Len(stream)

LEMMA GrownByOne ==
  ASSUME NEW b, IsSeq(b)
  PROVE  Grown(b, b) /\ \A m : Grown(b, Append(b, m))
BY DEF IsSeq, Grown

LEMMA QuietGrows ==
  ASSUME HearInv, UNCHANGED <<configured, stream, inbox>>, registered' \subseteq registered,
         \A k \in Conns : link'[k] = "open" => link[k] = "open"
  PROVE  Grows
<1>1. \A k \in Conns : IsSeq(inbox[k])
  BY DEF HearInv, BoxOf, Box
<1> QED
  BY <1>1, GrownByOne DEF Grows

LEMMA PublishGrows ==
  ASSUME IndInv, HearInv, NEW t \in Threads, NEW label, PublishTopic(t, Reached, label)
  PROVE  Grows
<1> DEFINE c == Here(t)
<1>1. work[t].rest # <<>> /\ UNCHANGED <<configured, link>>
  BY DEF PublishTopic, Inside
<1>2. CASE ~ configured
  <2>1. UNCHANGED <<registered, stream, inbox>>
    BY <1>2 DEF PublishTopic
  <2> QED
    BY <1>1, <2>1, QuietGrows
<1>3. CASE configured
  <2>1. Direct!Publish(c) /\ Deliver(c, Reached) /\ BrokerInv
    BY <1>3 DEF PublishTopic, IndInv
  <2> HIDE DEF c
  <2>2. registered' = registered
    BY <2>1 DEF Direct!Publish
  <2>3. \A n \in 1 .. Len(stream) : stream'[n].from = stream[n].from
    <3>1. DOMAIN stream = 1 .. Len(stream)
      BY <2>1 DEF BrokerInv
    <3> QED
      BY <2>1, <3>1, FromsKept
  <2>4. ASSUME NEW k \in Conns PROVE Grown(inbox[k], inbox'[k])
    <3>1. IsSeq(inbox[k])
      BY DEF HearInv, BoxOf, Box
    <3>2. Reached \in SUBSET registered
      BY DEF Reached
    <3>3. inbox'[k] = inbox[k] \/ \E g \in Reached : inbox'[k] = Append(inbox[k], Live(c, g))
      BY <2>1, <3>2, Delivers
    <3> QED
      BY <3>1, <3>3, GrownByOne
  <2> QED
    BY <1>1, <2>2, <2>3, <2>4 DEF Grows
<1> QED
  BY <1>2, <1>3

LEMMA SubscribeGrows ==
  ASSUME IndInv, HearInv, NEW t \in Threads, SubscribeChannel(t)
  PROVE  Grows
<1> DEFINE c == Here(t)
           k == work[t].conn
           n == Len(stream) + 1
<1>1. /\ work[t].call = "subscribe" /\ work[t].rest # <<>>
      /\ UNCHANGED <<configured, link, inbox>>
  BY DEF SubscribeChannel, Inside, clientVars
<1>2. c \in Channels /\ k \in Conns /\ BrokerInv
  BY <1>1, AtChannel DEF IndInv, WorkInv, WorkOf, RequestCalls, PubsubCalls
<1>3. CASE ~ configured
  <2>1. UNCHANGED <<registered, stream>>
    BY <1>3 DEF SubscribeChannel, brokerVars
  <2> QED
    BY <1>1, <2>1, QuietGrows
<1>4. CASE configured
  <2>1. Direct!Subscribe(k, c) \/ Adapted!Subscribe(k, c)
    BY <1>4 DEF SubscribeChannel
  <2>2. /\ n \in Nat \ {0}
        /\ \A j \in 1 .. Len(stream) : stream'[j] = stream[j]
        /\ registered' = {h \in registered : ~ (h.id = k /\ h.channel = c)}
                           \cup {[channel |-> c, id |-> k, sub |-> n]}
    BY <1>2, <2>1, BrokerSubscribes
  <2>3. \A h \in registered' : h \in registered \/ h.sub > Len(stream)
    <3>1. n > Len(stream)
      BY <1>2 DEF BrokerInv
    <3> QED
      BY <2>2, <3>1
  <2>4. \A j \in Conns : IsSeq(inbox[j])
    BY DEF HearInv, BoxOf, Box
  <2> QED
    BY <1>1, <2>2, <2>3, <2>4, GrownByOne DEF Grows
<1> QED
  BY <1>3, <1>4

LEMMA RespondGrows ==
  ASSUME IndInv, InboxInv, HearInv, NEW t \in Threads, RespondTo(t)
  PROVE  Grows
<1> DEFINE k == work[t].conn
<1>1. /\ k \in Conns
      /\ UNCHANGED <<configured, registered, stream, link>>
      /\ \A j \in Conns : j # k => inbox'[j] = inbox[j]
      /\ inbox'[k] = IF link[k] = "open" THEN Append(inbox[k], AnswerOf(t)) ELSE inbox[k]
  BY Responds
<1> HIDE DEF k
<1>2. \A j \in Conns : IsSeq(inbox[j])
  BY DEF HearInv, BoxOf, Box
<1>3. ASSUME NEW j \in Conns PROVE Grown(inbox[j], inbox'[j])
  <2>1. inbox'[j] = inbox[j] \/ inbox'[j] = Append(inbox[j], AnswerOf(t))
    BY <1>1
  <2> QED
    BY <1>2, <2>1, GrownByOne
<1> QED
  BY <1>1, <1>3 DEF Grows

LEMMA StepGrows ==
  ASSUME IndInv, InboxInv, HearInv, NEW t \in Threads, Step(t)
  PROVE  Grows
<1>0. link \in [Conns -> {"open", "closed", "leaving", "left"}]
  BY DEF IndInv, WorkInv
<1>1. CASE PublishTopic(t, Reached, IF work[t].call = "mpublish" THEN "target" ELSE "call")
  BY <1>1, PublishGrows
<1>2. CASE SubscribeChannel(t)
  BY <1>2, SubscribeGrows
<1>3. CASE DescribeChannel(t)
  <2>1. UNCHANGED <<configured, link, inbox>> /\ registered' \subseteq registered
        /\ UNCHANGED stream
    BY <1>3 DEF DescribeChannel, Direct!Describe, clientVars
  <2> QED
    BY <2>1, QuietGrows
<1>4. CASE LoadChannel(t)
  <2>1. UNCHANGED <<configured, link, inbox, registered, stream>>
    BY <1>4 DEF LoadChannel, clientVars, brokerVars
  <2> QED
    BY <2>1, QuietGrows
<1>5. ASSUME NEW label, SweepPart(t, label) PROVE Grows
  <2>1. /\ UNCHANGED <<configured, inbox, stream>> /\ registered' \subseteq registered
        /\ link' = link \/ link' = [link EXCEPT ![work[t].conn] = "left"]
    BY <1>5 DEF SweepPart, Direct!Describe, Direct!Reset
  <2>2. \A k \in Conns : link'[k] = "open" => link[k] = "open"
    BY <1>0, <2>1
  <2> QED
    BY <2>1, <2>2, QuietGrows
<1>6. CASE RespondTo(t)
  BY <1>6, RespondGrows
<1>7. CASE FindAdapter(t) \/ LockTarget(t) \/ TargetGone(t) \/ EraseAdapter(t)
  <2>1. /\ UNCHANGED <<configured, brokerVars, inbox>>
        /\ link' = link \/ link' = [link EXCEPT ![work[t].conn] = "left"]
    BY <1>7 DEF FindAdapter, LockTarget, TargetGone, EraseAdapter, clientVars
  <2>2. \A k \in Conns : link'[k] = "open" => link[k] = "open"
    BY <1>0, <2>1
  <2>3. UNCHANGED <<registered, stream>>
    BY <2>1 DEF brokerVars
  <2> QED
    BY <2>1, <2>2, <2>3, QuietGrows
<1> QED
  BY <1>1, <1>2, <1>3, <1>4, <1>5, <1>6, <1>7 DEF Step, DomainStep

\* What is acknowledged where something had come before was so, and began where it begins.
LEMMA Steady ==
  ASSUME IndInv, HearInv, Grows, NEW h \in OpenSubscriptions', NEW i \in Acknowledged(h)',
         i <= Len(inbox[h.id]), h.id \in Conns
  PROVE  h \in OpenSubscriptions /\ i \in Acknowledged(h) /\ stream'[h.sub].from = stream[h.sub].from
<1> DEFINE k == h.id
           n == h.sub
<1>1. Acknowledged(h)' = AckIn(inbox'[k], n) /\ Acknowledged(h) = AckIn(inbox[k], n)
  <2>1. Acknowledged(h)' = AckIn(inbox'[k], n)
    BY DEF Acknowledged, AckIn, Answers, Bears
  <2> QED
    BY <2>1, CameAndAcknowledged
<1>2. Grown(inbox[k], inbox'[k])
  BY DEF Grows
<1>3. i \in 1 .. Len(inbox[k]) /\ inbox'[k][i] = inbox[k][i]
  BY <1>1, <1>2 DEF Grown, AckIn
<1>4. i \in AckIn(inbox[k], n)
  BY <1>1, <1>2, <1>3 DEF Grown, AckIn
<1>5. n <= Len(stream)
  <2>1. BoxOf(k) /\ inbox[k][i] \in ToSet(inbox[k])
    BY <1>2, <1>3 DEF HearInv, ToSet, Grown
  <2> QED
    BY <1>4, <2>1 DEF AckIn, Bears, BoxOf
<1>6. h \in registered' /\ link'[k] = "open" /\ Len(stream) \in Nat
  BY DEF OpenSubscriptions, IndInv, BrokerInv
<1>7. h \in registered
  <2>1. h \in registered \/ n > Len(stream)
    BY <1>6 DEF Grows
  <2>2. CASE h \notin registered
    <3>1. n > Len(stream)
      BY <2>1, <2>2
    <3>2. n \in Nat
      <4>1. inbox[k][i].res \in Seq(Items) /\ Bears(inbox[k][i].res, n)
        <5>1. inbox[k][i] \in ToSet(inbox[k])
          BY <1>2, <1>3 DEF ToSet, Grown
        <5> QED
          BY <1>4, <5>1 DEF HearInv, BoxOf, Box, AckIn
      <4>2. \A e \in Items : e.sub \in Nat
        BY DEF Items
      <4> QED
        BY <4>1, <4>2, ItemFields DEF Bears
    <3> QED
      BY <1>5, <1>6, <3>1, <3>2
  <2> QED
    BY <2>2
<1>8. h \in OpenSubscriptions /\ n \in 1 .. Len(stream)
  BY <1>6, <1>7 DEF Grows, OpenSubscriptions, IndInv, BrokerInv
<1> QED
  BY <1>1, <1>4, <1>8 DEF Grows

-----------------------------------------------------------------------------
(***************************************************************************)
(* The threads: what they know of their client, and what they have         *)
(* gathered for it.                                                        *)
(***************************************************************************)
ThreadLoads(t) == SinceOf(t) /\ BeenAt(t) /\ CoversOf(t)

LEMMA LoadCalls ==
  /\ Loads \subseteq RequestCalls /\ "subscribe" \notin Loads /\ "mload" \in Loads
  /\ "" \notin RequestCalls /\ "unreg" \notin RequestCalls /\ "reset" \notin RequestCalls
  /\ \A call \in {"publish", "mpublish", "subscribe", "describe"} :
       call \notin Loads /\ call # "mload"
BY DEF Loads, RequestCalls, PubsubCalls, CometCalls

\* A thread that has the call, the client and the items it had.
LEMMA SameThread ==
  ASSUME IndInv, HearInv, Grows, NEW u \in Threads, ThreadLoads(u),
         work'[u].call = work[u].call, work'[u].conn = work[u].conn,
         work'[u].since = work[u].since,
         work[u].call \in Loads =>
           /\ work'[u].res = work[u].res /\ work'[u].asked = work[u].asked
           /\ \/ work'[u].rest = work[u].rest /\ work'[u].refused = work[u].refused
              \/ work'[u].refused,
         pc'[u] = "answer" => work'[u].rest = <<>>
  PROVE  ThreadLoads(u)'
<1> DEFINE k == work[u].conn
<1>1. work[u].call \in RequestCalls => k \in Conns
  BY DEF IndInv, WorkInv, WorkOf
<1>2. work[u].call \in RequestCalls => work[u].since \in Nat /\ work[u].since <= Len(inbox[k])
  BY DEF ThreadLoads, SinceOf, IndInv, WorkInv, Works
<1>3. \A j \in Conns : Grown(inbox[j], inbox'[j])
  BY DEF Grows
<1>4. SinceOf(u)'
  <2>1. ASSUME work[u].call \in RequestCalls PROVE work[u].since <= Len(inbox'[k])
    BY <1>1, <1>2, <1>3, <2>1 DEF Grown
  <2> QED
    BY <2>1 DEF SinceOf
<1>5. BeenAt(u)'
  <2>1. BeenAt(u) /\ configured' = configured
    BY DEF ThreadLoads, Grows
  <2> QED
    BY <2>1, LoadCalls DEF BeenAt
<1>6. CoversOf(u)'
  <2> SUFFICES ASSUME work[u].call \in Loads,
                      NEW h \in OpenSubscriptions', h.id = k, NEW i \in Acknowledged(h)',
                      i <= work[u].since,
                      NEW e \in ToSet(work[u].res), e.channel = h.channel
               PROVE  (e.from + 1) .. stream'[h.sub].from \subseteq ToSet(e.got)
    BY DEF CoversOf, Covers
  <2>1. k \in Conns /\ work[u].since \in Nat /\ work[u].since <= Len(inbox[k])
    BY <1>1, <1>2, LoadCalls
  <2>2. i \in Nat /\ Len(inbox[k]) \in Nat
    <3>1. Grown(inbox[k], inbox'[k])
      BY <1>3, <2>1
    <3>2. DOMAIN inbox'[k] = 1 .. Len(inbox'[k]) /\ Len(inbox[k]) \in Nat
      BY <3>1 DEF Grown
    <3>3. i \in DOMAIN inbox'[k]
      BY DEF Acknowledged, Answers
    <3> QED
      BY <3>2, <3>3
  <2>3. i <= Len(inbox[h.id])
    BY <2>1, <2>2
  <2>4. h \in OpenSubscriptions /\ i \in Acknowledged(h) /\ stream'[h.sub].from = stream[h.sub].from
    BY <2>1, <2>3, Steady
  <2> QED
    BY <2>4 DEF ThreadLoads, CoversOf, Covers
<1> QED
  BY <1>4, <1>5, <1>6 DEF ThreadLoads

\* A thread that serves no request.
LEMMA NoRequest ==
  ASSUME NEW u, work'[u].call \notin RequestCalls, pc'[u] # "answer"
  PROVE  ThreadLoads(u)'
BY LoadCalls DEF ThreadLoads, SinceOf, BeenAt, CoversOf

\* After the last channel there is none left.
LEMMA AtTheEnd ==
  ASSUME WorkInv, NEW t \in Threads, NEW items, Advance(t, items), work[t].rest # <<>>,
         NEW label, label # "answer", After(t, label)
  PROVE  pc'[t] = "answer" => work'[t].rest = <<>>
<1>1. pc'[t] = IF Len(work[t].rest) = 1 THEN "answer" ELSE label
  BY DEF After, Goto, WorkInv
<1>2. work'[t].rest = Tail(work[t].rest)
  BY AdvanceFields
<1>3. ASSUME NEW s \in Seq(Channels), s # <<>>, Len(s) = 1 PROVE Tail(s) = <<>>
  <2> DEFINE r == Tail(s)
  <2>1. r \in Seq(Channels) /\ Len(r) = 0
    BY <1>3
  <2> HIDE DEF r
  <2>2. r = <<>>
    BY <2>1
  <2> QED
    BY <2>2 DEF r
<1>4. work[t].rest \in Seq(Channels)
  BY DEF WorkInv, Works
<1> QED
  BY <1>1, <1>2, <1>3, <1>4

LEMMA PassesChannel ==
  ASSUME IndInv, HearInv, Grows, NEW t \in Threads, ThreadLoads(t), work[t].call \notin Loads,
         work[t].rest # <<>>, NEW items, Advance(t, items),
         NEW label, label # "answer", After(t, label)
  PROVE  ThreadLoads(t)'
<1>1. /\ work'[t].call = work[t].call /\ work'[t].conn = work[t].conn
      /\ work'[t].since = work[t].since
  BY AdvanceFields DEF IndInv
<1>2. pc'[t] = "answer" => work'[t].rest = <<>>
  BY AtTheEnd DEF IndInv
<1> QED
  BY <1>1, <1>2, SameThread

LEMMA LoadLoads ==
  ASSUME IndInv, HearInv, Grows, NEW t \in Threads, ThreadLoads(t), LoadChannel(t)
  PROVE  ThreadLoads(t)'
<1> DEFINE c == Here(t)
           k == work[t].conn
           e == Item(c, 0, Direct!From(c), Direct!Held(c))
           items == IF configured THEN <<e>> ELSE <<>>
<1>1. /\ work[t].rest # <<>> /\ Advance(t, items) /\ After(t, "call")
      /\ work[t].call \in RequestCalls /\ work[t].call # "subscribe"
      /\ UNCHANGED <<configured, registered, published, stream, link, inbox>>
  BY DEF LoadChannel, Inside, RequestCalls, PubsubCalls, CometCalls, brokerVars, clientVars
<1>2. /\ c \in Channels /\ work[t].rest \in Seq(Channels) /\ work[t].asked \in Seq(Channels)
      /\ k \in Conns /\ BrokerInv /\ WorkInv /\ work[t].since \in Nat
  BY <1>1, AtChannel DEF IndInv, WorkInv, WorkOf, Works
<1>3. /\ work'[t].res = work[t].res \o items /\ work'[t].rest = Tail(work[t].rest)
      /\ work'[t].call = work[t].call /\ work'[t].conn = work[t].conn
      /\ work'[t].since = work[t].since /\ work'[t].asked = work[t].asked
      /\ work'[t].refused = work[t].refused
  BY <1>1, <1>2, AdvanceFields
<1>4. Exactly(Direct!Held(c), Direct!From(c), published[c])
  BY <1>2, HeldExactly
<1>5. /\ e \in Items /\ e.channel = c /\ e.from = Direct!From(c) /\ e.got = Direct!Held(c)
  BY <1>2, <1>4 DEF Item, Items, Exactly
<1>6. ToSet(work[t].rest) = {c} \cup ToSet(Tail(work[t].rest))
  <2> DEFINE q == work[t].rest
             r == Tail(q)
  <2>1. q \in Seq(Channels) /\ q # <<>>
    BY <1>1, <1>2
  <2>2. c = q[1]
    BY <2>1 DEF Here
  <2> HIDE DEF q, c
  <2>3. /\ Len(q) \in Nat \ {0} /\ DOMAIN q = 1 .. Len(q) /\ DOMAIN r = 1 .. Len(q) - 1
        /\ \A j \in 1 .. Len(q) - 1 : r[j] = q[j + 1]
    BY <2>1
  <2> HIDE DEF r
  <2>4. \A j \in DOMAIN q : q[j] = c \/ (j - 1 \in DOMAIN r /\ r[j - 1] = q[j])
    BY <2>2, <2>3
  <2>5. \A j \in DOMAIN r : j + 1 \in DOMAIN q /\ r[j] = q[j + 1]
    BY <2>3
  <2>6. 1 \in DOMAIN q
    BY <2>3
  <2>7. ToSet(q) = {c} \cup ToSet(r)
    <3>1. \A x \in ToSet(q) : x = c \/ x \in ToSet(r)
      BY <2>4 DEF ToSet
    <3>2. c \in ToSet(q) /\ \A x \in ToSet(r) : x \in ToSet(q)
      BY <2>2, <2>5, <2>6 DEF ToSet
    <3> QED
      BY <3>1, <3>2
  <2> QED
    BY <2>7 DEF q, r
<1> HIDE DEF e, c, k
<1>7. /\ IsSeq(work[t].res) /\ IsSeq(items) /\ ToSet(items) = IF configured THEN {e} ELSE {}
  <2>1. IsSeq(work[t].res)
    BY <1>2, ResType, SeqIsSeq
  <2>2. CASE configured
    BY <2>1, <2>2, OneIsSeq
  <2>3. CASE ~ configured
    BY <2>1, <2>3 DEF IsSeq, ToSet
  <2> QED
    BY <2>2, <2>3
<1> HIDE DEF items
<1>8. ToSet(work'[t].res) = ToSet(work[t].res) \cup IF configured THEN {e} ELSE {}
  BY <1>3, <1>7, Joined
<1>9. SinceOf(t)'
  BY <1>1, <1>3 DEF ThreadLoads, SinceOf
<1>10. BeenAt(t)'
  <2>1. pc'[t] = "answer" => work'[t].rest = <<>>
    BY <1>1, <1>2, AtTheEnd
  <2>2. ASSUME work'[t].call = "mload", configured', ~ work'[t].refused,
               NEW x \in ToSet(work'[t].asked)
        PROVE  (\E f \in ToSet(work'[t].res) : x = f.channel) \/ x \in ToSet(work'[t].rest)
    <3>1. (\E f \in ToSet(work[t].res) : x = f.channel) \/ x \in ToSet(work[t].rest)
      BY <1>1, <1>3, <2>2 DEF ThreadLoads, BeenAt
    <3>2. CASE \E f \in ToSet(work[t].res) : x = f.channel
      BY <1>8, <3>2
    <3>3. CASE x \in ToSet(work[t].rest)
      BY <1>1, <1>3, <1>5, <1>6, <1>8, <2>2, <3>3
    <3> QED
      BY <3>1, <3>2, <3>3
  <2>3. work'[t].call = "mload" /\ configured' /\ ~ work'[t].refused =>
          ToSet(work'[t].asked) \subseteq
            {f.channel : f \in ToSet(work'[t].res)} \cup ToSet(work'[t].rest)
    BY <2>2
  <2> QED
    BY <2>1, <2>3 DEF BeenAt
<1>11. CoversOf(t)'
  <2> SUFFICES ASSUME work[t].call \in Loads,
                      NEW h \in OpenSubscriptions', h.id = k, NEW i \in Acknowledged(h)',
                      i <= work[t].since,
                      NEW f \in ToSet(work'[t].res), f.channel = h.channel
               PROVE  (f.from + 1) .. stream'[h.sub].from \subseteq ToSet(f.got)
    BY <1>3 DEF CoversOf, Covers, k
  <2>1. h \in OpenSubscriptions /\ i \in Acknowledged(h) /\ h \in registered
    BY <1>1 DEF OpenSubscriptions, Acknowledged, Answers
  <2>2. CASE f \in ToSet(work[t].res)
    BY <1>1, <2>1, <2>2 DEF ThreadLoads, CoversOf, Covers, k
  <2>3. CASE f = e
    <3>1. h.channel = c /\ published[c] \in Nat
      BY <1>2, <1>5, <2>3 DEF BrokerInv
    <3>2. stream[h.sub].from \in Nat /\ stream[h.sub].from <= published[c]
      <4>1. Whole(h) \/ Awaited(h)
        BY <2>1 DEF HearInv
      <4>2. CASE Whole(h)
        BY <3>1, <4>2 DEF Whole, Exactly
      <4>3. CASE Awaited(h)
        <5>1. PICK s \in 0 .. published[c] : \E g : Exactly(g, stream[h.sub].from, s)
          BY <3>1, <4>3 DEF Awaited
        <5> QED
          BY <3>1, <5>1 DEF Exactly
      <4> QED
        BY <4>1, <4>2, <4>3
    <3>3. ToSet(f.got) = (f.from + 1) .. published[c] /\ f.from \in Nat
      BY <1>4, <1>5, <2>3 DEF Exactly
    <3>4. (f.from + 1) .. stream[h.sub].from \subseteq (f.from + 1) .. published[c]
      BY <3>1, <3>2, <3>3
    <3> QED
      BY <1>1, <3>3, <3>4
  <2> QED
    BY <1>8, <2>2, <2>3
<1> QED
  BY <1>9, <1>10, <1>11 DEF ThreadLoads

-----------------------------------------------------------------------------
(***************************************************************************)
(* The inboxes: an answer to a load begins, for every channel, where the   *)
(* first item gathered for it began, and has what that item had.           *)
(***************************************************************************)
LEMMA FirstItem ==
  ASSUME NEW res \in Seq(Items), NEW c, NEW f \in ToSet(res), f.channel = c
  PROVE  \E x \in ToSet(res) : /\ x.channel = c /\ MessagesOf(res, c).from = x.from
                               /\ ToSet(x.got) \subseteq ToSet(MessagesOf(res, c).got)
<1> DEFINE mine == {i \in DOMAIN res : res[i].channel = c}
           parts == [i \in DOMAIN res |-> IF i \in mine THEN res[i].got ELSE <<>>]
           j == Min(mine)
<1>1. /\ DOMAIN res = 1 .. Len(res) /\ Len(res) \in Nat
      /\ \A i \in 1 .. Len(res) : /\ res[i] \in Items /\ res[i] \in ToSet(res)
                                  /\ res[i].got \in Seq(Nat)
  BY ItemFields
<1>2. mine # {} /\ mine \in SUBSET Nat
  BY <1>1 DEF ToSet
<1>3. j \in mine
  <2>1. \E x \in mine : \A y \in mine : x <= y
    BY <1>2, Smallest
  <2> QED
    BY <2>1 DEF Min
<1>4. j \in 1 .. Len(res) /\ res[j].channel = c /\ parts[j] = res[j].got
  BY <1>1, <1>3
<1>5. MessagesOf(res, c) = Item(c, 0, res[j].from, FlattenSeq(parts))
  BY <1>2 DEF MessagesOf
<1>6. parts \in Seq(Seq(Nat)) /\ Len(parts) = Len(res)
  <2>1. <<>> \in Seq(Nat)
    OBVIOUS
  <2>2. parts \in [1 .. Len(res) -> Seq(Nat)]
    BY <1>1, <2>1
  <2> DEFINE n == Len(res)
  <2>3. n \in Nat /\ parts \in [1 .. n -> Seq(Nat)]
    BY <1>1, <2>2
  <2> HIDE DEF parts, n
  <2>4. parts \in Seq(Seq(Nat)) /\ Len(parts) = n
    BY <2>3
  <2> QED
    BY <2>4 DEF n
<1> HIDE DEF parts, j, mine
<1>7. ToSet(parts[j]) \subseteq ToSet(FlattenSeq(parts))
  <2>1. ToSet(FlattenSeq(parts)) = UNION {ToSet(parts[i]) : i \in 1 .. Len(res)}
    BY <1>1, <1>6, FlattenedSet
  <2> QED
    BY <1>4, <2>1
<1>8. MessagesOf(res, c).from = res[j].from /\ MessagesOf(res, c).got = FlattenSeq(parts)
  BY <1>5 DEF Item
<1> QED
  BY <1>1, <1>4, <1>7, <1>8

LEMMA AnswerCovers ==
  ASSUME IndInv, InboxInv, HearInv, Grows, NEW t \in Threads, ThreadLoads(t), pc[t] = "answer",
         work[t].call \in Loads, ~ work[t].refused,
         NEW h \in OpenSubscriptions', h.id = work[t].conn, NEW i \in Acknowledged(h)',
         i <= work[t].since, NEW e \in ToSet(ResponseOf(t)), e.channel = h.channel
  PROVE  (e.from + 1) .. stream'[h.sub].from \subseteq ToSet(e.got)
<1> DEFINE k == work[t].conn
           res == work[t].res
           asked == work[t].asked
<1>1. /\ k \in Conns /\ work[t].since \in Nat /\ work[t].since <= Len(inbox[k])
      /\ res \in Seq(Items) /\ asked \in Seq(Channels)
  BY LoadCalls DEF ThreadLoads, SinceOf, IndInv, WorkInv, WorkOf, Works
<1>2. i <= Len(inbox[h.id])
  <2>1. Grown(inbox[k], inbox'[k])
    BY <1>1 DEF Grows
  <2>2. DOMAIN inbox'[k] = 1 .. Len(inbox'[k]) /\ Len(inbox[k]) \in Nat
    BY <2>1 DEF Grown
  <2>3. i \in DOMAIN inbox'[k]
    BY DEF Acknowledged, Answers
  <2>4. i \in Nat
    BY <2>2, <2>3
  <2> QED
    BY <1>1, <2>2, <2>4
<1>3. h \in OpenSubscriptions /\ i \in Acknowledged(h) /\ stream'[h.sub].from = stream[h.sub].from
  BY <1>1, <1>2, Steady
<1>4. \A x \in ToSet(res) : x.channel = h.channel =>
        (x.from + 1) .. stream[h.sub].from \subseteq ToSet(x.got)
  BY <1>3 DEF ThreadLoads, CoversOf, Covers
<1>5. CASE work[t].call # "mload"
  <2>1. e \in ToSet(res)
    BY <1>5 DEF ResponseOf
  <2> QED
    BY <1>3, <1>4, <2>1
<1>6. CASE work[t].call = "mload"
  <2>1. ResponseOf(t) = LoadList(asked, res)
    BY <1>6 DEF ResponseOf
  <2>2. PICK c \in Channels : e = MessagesOf(res, c)
    BY <1>1, <2>1, LoadListType
  <2>3. c = h.channel
    BY <2>2 DEF MessagesOf, Item
  <2>4. Asks(t) /\ BeenAt(t)
    BY DEF InboxInv, ThreadLoads
  <2>5. Names(LoadList(asked, res), ToSet(asked))
    <3>1. IsSeq(asked) /\ IsSeq(res)
      BY <1>1, SeqIsSeq
    <3>2. \A x \in ToSet(res) : x.channel \in ToSet(asked)
      BY <1>6, <2>4 DEF Asks
    <3> QED
      BY <3>1, <3>2, LoadListNames
  <2>6. h.channel \in ToSet(asked)
    BY <2>1, <2>5 DEF Names, ToSet
  <2>7. configured
    BY <1>3 DEF OpenSubscriptions, IndInv, BrokerInv
  <2>8. PICK f \in ToSet(res) : f.channel = h.channel
    <3>1. ToSet(<<>>) = {}
      BY DEF ToSet
    <3>2. ToSet(asked) \subseteq {x.channel : x \in ToSet(res)}
      BY <1>6, <2>4, <2>7, <3>1 DEF BeenAt
    <3> QED
      BY <2>6, <3>2
  <2>9. PICK x \in ToSet(res) : /\ x.channel = c /\ MessagesOf(res, c).from = x.from
                                /\ ToSet(x.got) \subseteq ToSet(MessagesOf(res, c).got)
    BY <1>1, <2>3, <2>8, FirstItem
  <2> QED
    BY <1>3, <1>4, <2>2, <2>3, <2>9
<1> QED
  BY <1>5, <1>6

BoxLoads(k) == StampsOf(k) /\ BoxCovers(k)

\* An inbox that grows by nothing, or by an answer that covers what it should.
LEMMA BoxKeeps ==
  ASSUME IndInv, HearInv, Grows, NEW k \in Conns, BoxLoads(k), NEW m,
         \/ inbox'[k] = inbox[k]
         \/ /\ inbox'[k] = Append(inbox[k], m)
            /\ m.since \in 0 .. Len(inbox[k])
            /\ m.type = "answer" /\ m.call \in Loads =>
                 \A h \in OpenSubscriptions' : h.id = k =>
                   \A i \in Acknowledged(h)' : i <= m.since =>
                     \A e \in ToSet(m.res) : e.channel = h.channel =>
                       (e.from + 1) .. stream'[h.sub].from \subseteq ToSet(e.got)
  PROVE  BoxLoads(k)'
<1>1. Grown(inbox[k], inbox'[k]) /\ IsSeq(inbox[k])
  BY DEF Grows, HearInv, BoxOf, Box
<1>2. \A x \in ToSet(inbox'[k]) : x \in ToSet(inbox[k]) \/ (x = m /\ inbox'[k] = Append(inbox[k], m))
  <2>1. ToSet(Append(inbox[k], m)) = ToSet(inbox[k]) \cup {m}
    BY <1>1, Appended
  <2>2. CASE inbox'[k] = inbox[k]
    BY <2>2
  <2>3. CASE inbox'[k] = Append(inbox[k], m)
    BY <2>1, <2>3
  <2> QED
    BY <2>2, <2>3
<1>3. ASSUME NEW x \in ToSet(inbox[k]), x.type = "answer", x.call \in Loads,
             NEW h \in OpenSubscriptions', h.id = k, NEW i \in Acknowledged(h)', i <= x.since,
             NEW e \in ToSet(x.res), e.channel = h.channel
      PROVE  (e.from + 1) .. stream'[h.sub].from \subseteq ToSet(e.got)
  <2>1. x.since \in 0 .. Len(inbox[k]) /\ Len(inbox[k]) \in Nat
    BY <1>1 DEF BoxLoads, StampsOf, Grown
  <2>2. DOMAIN inbox'[k] = 1 .. Len(inbox'[k])
    BY <1>1 DEF Grown
  <2>3. i \in DOMAIN inbox'[k]
    BY <1>3 DEF Acknowledged, Answers
  <2>4. i \in Nat
    BY <2>2, <2>3
  <2>5. i <= Len(inbox[h.id])
    BY <1>3, <2>1, <2>4
  <2>6. h \in OpenSubscriptions /\ i \in Acknowledged(h) /\ stream'[h.sub].from = stream[h.sub].from
    BY <1>3, <2>5, Steady
  <2> QED
    BY <1>3, <2>6 DEF BoxLoads, BoxCovers, Covers
<1>4. BoxCovers(k)'
  <2> SUFFICES ASSUME NEW x \in ToSet(inbox'[k]), x.type = "answer", x.call \in Loads,
                      NEW h \in OpenSubscriptions', h.id = k, NEW i \in Acknowledged(h)',
                      i <= x.since, NEW e \in ToSet(x.res), e.channel = h.channel
               PROVE  (e.from + 1) .. stream'[h.sub].from \subseteq ToSet(e.got)
    BY DEF BoxCovers, Covers
  <2>1. CASE x \in ToSet(inbox[k])
    BY <1>3, <2>1
  <2>2. CASE x = m /\ inbox'[k] = Append(inbox[k], m) /\ x \notin ToSet(inbox[k])
    <3>1. inbox'[k] # inbox[k]
      BY <2>2
    <3> QED
      BY <2>2, <3>1
  <2> QED
    BY <1>2, <2>1, <2>2
<1>5. StampsOf(k)'
  <2> SUFFICES ASSUME NEW x \in ToSet(inbox'[k]) PROVE x.since \in 0 .. Len(inbox'[k])
    BY DEF StampsOf
  <2>1. Len(inbox[k]) \in Nat /\ Len(inbox'[k]) \in Nat /\ Len(inbox[k]) <= Len(inbox'[k])
    BY <1>1 DEF Grown
  <2>2. x.since \in 0 .. Len(inbox[k])
    <3>1. CASE x \in ToSet(inbox[k])
      BY <3>1 DEF BoxLoads, StampsOf
    <3>2. CASE x \notin ToSet(inbox[k])
      <4>1. x = m /\ inbox'[k] = Append(inbox[k], m) /\ inbox'[k] # inbox[k]
        BY <1>2, <3>2
      <4> QED
        BY <4>1
    <3> QED
      BY <3>1, <3>2
  <2> QED
    BY <2>1, <2>2
<1> QED
  BY <1>4, <1>5 DEF BoxLoads

LEMMA PublishBoxes ==
  ASSUME IndInv, HearInv, Grows, LoadInv, NEW t \in Threads, NEW label,
         PublishTopic(t, Reached, label), NEW k \in Conns
  PROVE  BoxLoads(k)'
<1>1. BoxLoads(k) /\ Len(inbox[k]) \in Nat
  BY DEF LoadInv, BoxLoads, HearInv, BoxOf, Box, IsSeq
<1>2. CASE inbox'[k] = inbox[k]
  BY <1>1, <1>2, BoxKeeps
<1>3. CASE inbox'[k] # inbox[k]
  <2>1. /\ Deliver(Here(t), Reached) /\ Reached \in SUBSET registered
        /\ BrokerInv /\ Here(t) \in Channels
    BY <1>3, AtChannel DEF PublishTopic, Inside, Reached, IndInv
  <2>2. PICK g \in Reached : inbox'[k] = Append(inbox[k], Live(Here(t), g))
    BY <1>3, <2>1, Delivers
  <2>3. PICK m : m = Live(Here(t), g)
    OBVIOUS
  <2>4. m.type = "live" /\ m.since = 0
    BY <2>1, <2>3, LiveFields
  <2>5. m.since \in 0 .. Len(inbox[k]) /\ m.type # "answer"
    BY <1>1, <2>4
  <2> QED
    BY <1>1, <2>2, <2>3, <2>5, BoxKeeps
<1> QED
  BY <1>2, <1>3

LEMMA RespondBoxes ==
  ASSUME IndInv, InboxInv, HearInv, Grows, LoadInv, NEW t \in Threads, RespondTo(t),
         NEW k \in Conns
  PROVE  BoxLoads(k)'
<1>1. BoxLoads(k) /\ Len(inbox[k]) \in Nat /\ ThreadLoads(t)
  BY DEF LoadInv, BoxLoads, ThreadLoads, HearInv, BoxOf, Box, IsSeq
<1>2. CASE inbox'[k] = inbox[k]
  BY <1>1, <1>2, BoxKeeps
<1>3. CASE inbox'[k] # inbox[k]
  <2>1. /\ k = work[t].conn /\ inbox'[k] = Append(inbox[k], AnswerOf(t))
        /\ pc[t] = "answer" /\ work[t].call \in RequestCalls
    BY <1>3, Responds
  <2>2. PICK m : m = AnswerOf(t)
    OBVIOUS
  <2>3. /\ m.type = "answer" => ~ work[t].refused
        /\ m.call = work[t].call /\ m.since = work[t].since /\ m.res = ResponseOf(t)
    BY <2>2 DEF AnswerOf
  <2>4. m.since \in 0 .. Len(inbox[k])
    <3>1. work[t].since \in Nat
      BY DEF IndInv, WorkInv, Works
    <3>2. work[t].since <= Len(inbox[k])
      BY <1>1, <2>1 DEF ThreadLoads, SinceOf
    <3> QED
      BY <1>1, <2>3, <3>1, <3>2
  <2>5. ASSUME m.type = "answer", m.call \in Loads,
               NEW h \in OpenSubscriptions', h.id = k, NEW i \in Acknowledged(h)', i <= m.since,
               NEW e \in ToSet(m.res), e.channel = h.channel
        PROVE  (e.from + 1) .. stream'[h.sub].from \subseteq ToSet(e.got)
    BY <1>1, <2>1, <2>3, <2>5, AnswerCovers
  <2> QED
    BY <1>1, <2>1, <2>2, <2>4, <2>5, BoxKeeps
<1> QED
  BY <1>2, <1>3

-----------------------------------------------------------------------------
\* A step of one thread, and of none.
LEMMA LoadsKeep ==
  ASSUME IndInv, HearInv, Grows, LoadInv, NEW t \in Threads, Alone(t), ThreadLoads(t)',
         \A k \in Conns : BoxLoads(k)'
  PROVE  LoadInv'
<1>1. ASSUME NEW u \in Threads, u # t PROVE ThreadLoads(u)'
  <2>1. pc'[u] = pc[u] /\ work'[u] = work[u] /\ ThreadLoads(u)
    BY <1>1 DEF Alone, LoadInv, ThreadLoads
  <2>2. pc'[u] = "answer" => work'[u].rest = <<>>
    BY <2>1 DEF ThreadLoads, BeenAt
  <2> QED
    BY <2>1, <2>2, SameThread
<1> QED
  BY <1>1 DEF LoadInv, ThreadLoads, BoxLoads

LEMMA BoxesKeep ==
  ASSUME IndInv, HearInv, Grows, LoadInv, UNCHANGED inbox
  PROVE  \A k \in Conns : BoxLoads(k)'
<1> TAKE k \in Conns
<1>1. BoxLoads(k) /\ inbox'[k] = inbox[k]
  BY DEF LoadInv, BoxLoads
<1> QED
  BY <1>1, BoxKeeps

LEMMA NoThreadLoads ==
  ASSUME IndInv, HearInv, Grows, LoadInv, UNCHANGED <<inbox, work, pc>>
  PROVE  LoadInv'
<1>1. ASSUME NEW u \in Threads PROVE ThreadLoads(u)'
  <2>1. ThreadLoads(u)
    BY DEF LoadInv, ThreadLoads
  <2>2. pc'[u] = "answer" => work'[u].rest = <<>>
    BY <2>1 DEF ThreadLoads, BeenAt
  <2> QED
    BY <2>1, <2>2, SameThread
<1>2. \A k \in Conns : BoxLoads(k)'
  BY BoxesKeep
<1> QED
  BY <1>1, <1>2 DEF LoadInv, ThreadLoads, BoxLoads

LEMMA AdapterLoads ==
  ASSUME IndInv, HearInv, Grows, NEW t \in Threads, ThreadLoads(t),
         FindAdapter(t) \/ LockTarget(t) \/ TargetGone(t) \/ EraseAdapter(t)
  PROVE  ThreadLoads(t)'
<1>0. work[t] \in Works /\ work \in [Threads -> Works] /\ pc \in [Threads -> Labels]
  BY DEF IndInv, WorkInv
<1>1. CASE FindAdapter(t)
  <2> DEFINE w == [work[t] EXCEPT !.peer = adapters'[work[t].conn]]
  <2>1. pc'[t] = "target" /\ work'[t] = w
    BY <1>0, <1>1 DEF FindAdapter, Goto
  <2>2. /\ w.call = work[t].call /\ w.conn = work[t].conn /\ w.since = work[t].since
        /\ w.res = work[t].res /\ w.asked = work[t].asked /\ w.rest = work[t].rest
        /\ w.refused = work[t].refused
    BY <1>0 DEF Works
  <2> HIDE DEF w
  <2> QED
    BY <2>1, <2>2, SameThread
<1>2. CASE LockTarget(t)
  <2>1. /\ work'[t] = work[t]
        /\ pc'[t] = IF work[t].call # "unreg" /\ work[t].rest = <<>> THEN "answer" ELSE "call"
    BY <1>0, <1>2 DEF LockTarget, Goto
  <2> QED
    BY <2>1, SameThread
<1>3. CASE TargetGone(t) /\ work[t].call = "unreg"
  <2>1. work'[t] = NoWork /\ pc'[t] = "idle"
    BY <1>0, <1>3 DEF TargetGone, Goto
  <2> QED
    BY <2>1, NoWorkBears, LoadCalls, NoRequest
<1>4. CASE TargetGone(t) /\ work[t].call # "unreg"
  <2> DEFINE w == [work[t] EXCEPT !.rest = <<>>, !.refused = work[t].call # "mpublish"]
  <2>1. work'[t] = w
    BY <1>0, <1>4 DEF TargetGone
  <2>2. /\ w.call = work[t].call /\ w.conn = work[t].conn /\ w.since = work[t].since
        /\ w.res = work[t].res /\ w.asked = work[t].asked /\ w.rest = <<>>
        /\ w.refused = (work[t].call # "mpublish")
    BY <1>0 DEF Works
  <2> HIDE DEF w
  <2>3. work[t].call \in Loads => w.refused
    BY <2>2, LoadCalls
  <2> QED
    BY <2>1, <2>2, <2>3, SameThread
<1>5. CASE EraseAdapter(t)
  <2>1. work'[t] = NoWork /\ pc'[t] = "idle"
    BY <1>0, <1>5 DEF EraseAdapter, Goto
  <2> QED
    BY <2>1, NoWorkBears, LoadCalls, NoRequest
<1> QED
  BY <1>1, <1>2, <1>3, <1>4, <1>5

LEMMA SweepLoads ==
  ASSUME IndInv, NEW t \in Threads, NEW label, label # "answer", SweepPart(t, label)
  PROVE  ThreadLoads(t)'
<1>1. work[t].part \in DOMAIN Parts /\ DOMAIN Parts = 1 .. Len(Parts)
  BY PartsAssumption DEF SweepPart
<1>2. work[t].call \notin RequestCalls
  <2>1. work[t].part # 0
    BY <1>1
  <2> QED
    BY <2>1 DEF IndInv, WorkInv, WorkOf
<1>3. PICK q : work'[t] = NoWork \/ work'[t] = [work[t] EXCEPT !.part = q]
  BY DEF SweepPart, IndInv, WorkInv
<1>4. work'[t] = NoWork \/ work'[t].call = work[t].call
  BY <1>3 DEF IndInv, WorkInv, Works
<1>5. work'[t].call \notin RequestCalls
  BY <1>2, <1>4, NoWorkBears, LoadCalls
<1>6. pc'[t] # "answer"
  BY DEF SweepPart, Goto, IndInv, WorkInv
<1> QED
  BY <1>5, <1>6, NoRequest

LEMMA StepLoads ==
  ASSUME IndInv, InboxInv, HearInv, LoadInv, NEW t \in Threads, Step(t)
  PROVE  LoadInv'
<1>1. Alone(t) /\ Grows /\ ThreadLoads(t)
  BY DomainAlone, StepGrows DEF IndInv, LoadInv, ThreadLoads
<1>2. ASSUME NEW label, label # "answer", PublishTopic(t, Reached, label) PROVE LoadInv'
  <2>1. /\ work[t].rest # <<>> /\ Advance(t, <<>>) /\ After(t, label)
        /\ work[t].call \in {"publish", "mpublish"}
    BY <1>2 DEF PublishTopic, Inside
  <2>2. ThreadLoads(t)'
    BY <1>1, <1>2, <2>1, LoadCalls, PassesChannel
  <2>3. \A k \in Conns : BoxLoads(k)'
    BY <1>1, <1>2, PublishBoxes
  <2> QED
    BY <1>1, <2>2, <2>3, LoadsKeep
<1>3. CASE SubscribeChannel(t)
  <2>1. PICK items : Advance(t, items)
    BY <1>3 DEF SubscribeChannel
  <2>2. /\ work[t].rest # <<>> /\ After(t, "call") /\ work[t].call = "subscribe" /\ UNCHANGED inbox
    BY <1>3 DEF SubscribeChannel, Inside, clientVars
  <2>3. ThreadLoads(t)'
    BY <1>1, <2>1, <2>2, LoadCalls, PassesChannel
  <2> QED
    BY <1>1, <2>2, <2>3, BoxesKeep, LoadsKeep
<1>4. CASE DescribeChannel(t)
  <2>1. /\ work[t].rest # <<>> /\ Advance(t, <<>>) /\ After(t, "call")
        /\ work[t].call = "describe" /\ UNCHANGED inbox
    BY <1>4 DEF DescribeChannel, Inside, clientVars
  <2>2. ThreadLoads(t)'
    BY <1>1, <2>1, LoadCalls, PassesChannel
  <2> QED
    BY <1>1, <2>1, <2>2, BoxesKeep, LoadsKeep
<1>5. CASE LoadChannel(t)
  <2>1. UNCHANGED inbox
    BY <1>5 DEF LoadChannel, clientVars
  <2>2. ThreadLoads(t)'
    BY <1>1, <1>5, LoadLoads
  <2> QED
    BY <1>1, <2>1, <2>2, BoxesKeep, LoadsKeep
<1>6. ASSUME NEW label, label # "answer", SweepPart(t, label) PROVE LoadInv'
  <2>1. UNCHANGED inbox
    BY <1>6 DEF SweepPart
  <2>2. ThreadLoads(t)'
    BY <1>6, SweepLoads
  <2> QED
    BY <1>1, <2>1, <2>2, BoxesKeep, LoadsKeep
<1>7. CASE RespondTo(t)
  <2>1. work'[t] = NoWork /\ pc'[t] = "idle"
    BY <1>7, Responds
  <2>2. ThreadLoads(t)'
    BY <2>1, NoWorkBears, LoadCalls, NoRequest
  <2>3. \A k \in Conns : BoxLoads(k)'
    BY <1>1, <1>7, RespondBoxes
  <2> QED
    BY <1>1, <2>2, <2>3, LoadsKeep
<1>8. CASE FindAdapter(t) \/ LockTarget(t) \/ TargetGone(t) \/ EraseAdapter(t)
  <2>1. UNCHANGED inbox
    BY <1>8 DEF FindAdapter, LockTarget, TargetGone, EraseAdapter, clientVars
  <2>2. ThreadLoads(t)'
    BY <1>1, <1>8, AdapterLoads
  <2> QED
    BY <1>1, <2>1, <2>2, BoxesKeep, LoadsKeep
<1>9. ASSUME DomainStep(t) PROVE LoadInv'
  <2>1. CASE PublishTopic(t, Reached, IF work[t].call = "mpublish" THEN "target" ELSE "call")
    BY <1>2, <2>1
  <2>2. CASE SweepPart(t, IF work[t].call = "unreg" /\ work[t].conn \in CometConns
                          THEN "erase" ELSE "idle")
    BY <1>6, <2>2
  <2> QED
    BY <1>3, <1>4, <1>5, <1>7, <1>9, <2>1, <2>2 DEF DomainStep
<1> QED
  BY <1>8, <1>9 DEF Step

\* An idle thread takes up a call.
LEMMA ReceiveLoads ==
  ASSUME IndInv, HearInv, LoadInv, NEW t \in Threads, NEW r \in Requests, ReceiveRequest(t, r)
  PROVE  LoadInv'
<1> DEFINE w == [NoWork EXCEPT !.no = Len(answers) + 1, !.conn = r.conn, !.call = r.call,
                               !.asked = r.channels, !.rest = r.channels,
                               !.since = Len(inbox[r.conn])]
<1>1. /\ work' = [work EXCEPT ![t] = w] /\ pc' = [pc EXCEPT ![t] = Entry(r)]
      /\ UNCHANGED <<configured, brokerVars, link, inbox>>
  BY DEF ReceiveRequest, Receive, Goto
<1>2. /\ w.res = <<>> /\ w.call = r.call /\ w.conn = r.conn /\ w.asked = r.channels
      /\ w.rest = r.channels /\ w.since = Len(inbox[r.conn])
  BY DEF NoWork
<1> HIDE DEF w
<1>3. work'[t] = w /\ pc'[t] = Entry(r) /\ Alone(t)
  BY <1>1 DEF Alone, IndInv, WorkInv
<1>4. Grows
  BY <1>1, QuietGrows DEF brokerVars
<1>5. r.conn \in Conns
  BY RequestsAssumption DEF Request
<1>6. SinceOf(t)'
  <2>1. Grown(inbox[r.conn], inbox'[r.conn])
    BY <1>4, <1>5 DEF Grows
  <2> QED
    BY <1>2, <1>3, <2>1 DEF SinceOf, Grown
<1>7. BeenAt(t)'
  <2>1. Entry(r) = "answer" => r.channels = <<>>
    BY DEF Entry
  <2> QED
    BY <1>2, <1>3, <2>1 DEF BeenAt
<1>8. CoversOf(t)'
  BY <1>2, <1>3, NoWorkBears DEF CoversOf, Covers
<1>9. ThreadLoads(t)'
  BY <1>6, <1>7, <1>8 DEF ThreadLoads
<1> QED
  BY <1>1, <1>3, <1>4, <1>9, BoxesKeep, LoadsKeep

LEMMA BeginLoads ==
  ASSUME IndInv, HearInv, LoadInv, NEW t \in Threads, NEW w, work' = [work EXCEPT ![t] = w],
         w.call \notin RequestCalls, NEW label, label # "answer", pc' = [pc EXCEPT ![t] = label],
         UNCHANGED <<configured, registered, stream, inbox>>,
         \A k \in Conns : link'[k] = "open" => link[k] = "open"
  PROVE  LoadInv'
<1>1. work'[t] = w /\ pc'[t] = label /\ Alone(t)
  BY DEF Alone, IndInv, WorkInv
<1>2. Grows
  BY QuietGrows
<1>3. ThreadLoads(t)'
  BY <1>1, NoRequest
<1> QED
  BY <1>1, <1>2, <1>3, BoxesKeep, LoadsKeep

LEMMA InitLoads == Init => LoadInv
<1> SUFFICES ASSUME Init PROVE LoadInv
  OBVIOUS
<1>1. /\ work = [t \in Threads |-> NoWork] /\ pc = [t \in Threads |-> "idle"]
      /\ inbox = [k \in Conns |-> <<>>]
  BY DEF Init, DomainInit, Direct!Init
<1>2. \A t \in Threads : work[t].call \notin RequestCalls /\ pc[t] # "answer"
  BY <1>1, NoWorkBears, LoadCalls
<1>3. \A t \in Threads : SinceOf(t) /\ BeenAt(t) /\ CoversOf(t)
  BY <1>2, LoadCalls DEF SinceOf, BeenAt, CoversOf
<1>4. \A k \in Conns : StampsOf(k) /\ BoxCovers(k)
  BY <1>1, NoWorkBears DEF StampsOf, BoxCovers
<1> QED
  BY <1>3, <1>4 DEF LoadInv

LEMMA NextLoads == IndInv /\ InboxInv /\ HearInv /\ LoadInv /\ [Next]_vars => LoadInv'
<1> SUFFICES ASSUME IndInv, InboxInv, HearInv, LoadInv, [Next]_vars PROVE LoadInv'
  OBVIOUS
<1>1. ASSUME NEW t \in Threads, Step(t) PROVE LoadInv'
  BY <1>1, StepLoads
<1>2. ASSUME NEW t \in Threads, NEW r \in Requests, ReceiveRequest(t, r) PROVE LoadInv'
  BY <1>2, ReceiveLoads
<1>3. ASSUME NEW t \in Threads, NEW k \in Conns, UnregisterConn(t, k) PROVE LoadInv'
  <2> DEFINE w == [NoWork EXCEPT !.call = "unreg", !.conn = k, !.part = 1]
             label == IF k \in CometConns THEN "target" ELSE "call"
  <2>1. /\ work' = [work EXCEPT ![t] = w] /\ pc' = [pc EXCEPT ![t] = label]
        /\ link' = [link EXCEPT ![k] = "leaving"]
        /\ UNCHANGED <<configured, registered, stream, inbox>>
    BY <1>3 DEF UnregisterConn, Unregister, Goto, brokerVars
  <2>2. w.call \notin RequestCalls /\ label # "answer"
    BY LoadCalls DEF NoWork
  <2> HIDE DEF w, label
  <2>3. \A j \in Conns : link'[j] = "open" => link[j] = "open"
    BY <2>1 DEF IndInv, WorkInv
  <2> QED
    BY <2>1, <2>2, <2>3, BeginLoads
<1>4. ASSUME NEW t \in Threads, DebugReset(t) PROVE LoadInv'
  <2> DEFINE w == [NoWork EXCEPT !.call = "reset", !.part = 1]
  <2>1. /\ work' = [work EXCEPT ![t] = w] /\ pc' = [pc EXCEPT ![t] = "call"]
        /\ UNCHANGED <<configured, registered, stream, inbox, link>>
    BY <1>4 DEF DebugReset, Goto, brokerVars, clientVars
  <2>2. w.call \notin RequestCalls
    BY LoadCalls DEF NoWork
  <2> HIDE DEF w
  <2> QED
    BY <2>1, <2>2, BeginLoads
<1>5. ASSUME NEW k \in Conns, Close(k) PROVE LoadInv'
  <2>1. UNCHANGED <<configured, registered, stream, inbox, work, pc>>
    BY <1>5 DEF Close, brokerVars
  <2>2. \A j \in Conns : link'[j] = "open" => link[j] = "open"
    BY <1>5 DEF Close, IndInv, WorkInv
  <2> QED
    BY <2>1, <2>2, QuietGrows, NoThreadLoads
<1>6. CASE DestroyTarget
  <2>1. registered' = {} /\ UNCHANGED <<configured, stream, inbox, work, pc, link>>
    BY <1>6 DEF DestroyTarget, clientVars
  <2> QED
    BY <2>1, QuietGrows, NoThreadLoads
<1>7. CASE UNCHANGED vars
  <2>1. UNCHANGED <<configured, registered, stream, inbox, work, pc, link>>
    BY <1>7 DEF vars, brokerVars, clientVars
  <2> QED
    BY <2>1, QuietGrows, NoThreadLoads
<1> QED
  BY <1>1, <1>2, <1>3, <1>4, <1>5, <1>6, <1>7 DEF Next, Quiet

(***************************************************************************)
(* The invariant of what is loaded: how much a client had received when it *)
(* asked, and that what load and mload have gathered for it, or answered,  *)
(* ends no earlier than what came for a subscription it then knew of.      *)
(***************************************************************************)
THEOREM LoadInvariance == Spec => [](IndInv /\ InboxInv /\ HearInv /\ LoadInv)
BY InitIndInv, NextIndInv, InitHears, NextHears, InitLoads, NextLoads, PTL DEF Spec

(***************************************************************************)
(* What a client loads from a channel to which it knew to be subscribed    *)
(* when it asked, with what came for the subscription, is without a gap    *)
(* from the first message loaded to the last published.                    *)
(***************************************************************************)
THEOREM LoadedAfterSubscribing == Spec => []SubscribeThenLoad
<1>1. IndInv /\ HearInv /\ LoadInv => SubscribeThenLoad
  <2> SUFFICES ASSUME IndInv, HearInv, LoadInv,
                      NEW h \in OpenSubscriptions, NEW i \in Acknowledged(h),
                      NEW j \in Answers(h.id, {"load", "mload"}),
                      i <= inbox[h.id][j].since,
                      NEW e \in ToSet(inbox[h.id][j].res), e.channel = h.channel
               PROVE  (e.from + 1) .. published[h.channel] \subseteq ToSet(e.got) \cup ToSet(Came(h))
    BY DEF SubscribeThenLoad
  <2> DEFINE k == h.id
             m == inbox[k][j]
             a == stream[h.sub].from
             p == published[h.channel]
  <2>1. k \in Conns
    BY DEF OpenSubscriptions, IndInv, BrokerInv
  <2>2. m \in ToSet(inbox[k]) /\ m.type = "answer" /\ m.call \in Loads
    BY DEF Answers, ToSet, Loads
  <2>3. (e.from + 1) .. a \subseteq ToSet(e.got)
    BY <2>1, <2>2 DEF LoadInv, BoxCovers, Covers
  <2>4. Exactly(Came(h), a, p)
    BY DEF HearInv, Awaited, Whole
  <2>5. e.from \in Nat
    <3>1. m.res \in Seq(Items)
      BY <2>1, <2>2 DEF HearInv, BoxOf, Box
    <3> QED
      BY <3>1, ItemFields DEF Items
  <2>6. a \in Nat /\ p \in Nat /\ ToSet(Came(h)) = (a + 1) .. p
    BY <2>4 DEF Exactly
  <2>7. (e.from + 1) .. p \subseteq ((e.from + 1) .. a) \cup ((a + 1) .. p)
    BY <2>5, <2>6
  <2> QED
    BY <2>3, <2>6, <2>7
<1> QED
  BY <1>1, LoadInvariance, PTL

=============================================================================
