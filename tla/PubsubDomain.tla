----------------------------- MODULE PubsubDomain -----------------------------
(***************************************************************************)
(* The class pubsub_domain (package/pubsub/domain), which serves requests  *)
(* on the worker threads of the wfc framework, and the connections they    *)
(* come from.  Its pubsub_mt is a Broker: a request takes one call of it   *)
(* for every channel it names, so other threads act between two of them,   *)
(* and between the last one and the answer.                                *)
(*                                                                         *)
(* A connection is served through its gateway, of which the handlers of    *)
(* its subscriptions have a weak pointer; the framework calls unreg_io     *)
(* some time after a connection was closed, while requests of it may still *)
(* be under way.  CometAdapter adds the connections that come through a    *)
(* comet_adapter and composes both.                                        *)
(***************************************************************************)
EXTENDS Integers, Sequences, FiniteSets, FiniteSetsExt, SequencesExt

CONSTANTS
  Threads,       \* the worker threads
  Conns,         \* the connections, by their io_id
  CometConns,    \* those of them that use the comet_adapter
  Channels,
  Parts,         \* the channels of each shard, a sequence
  CacheLimit,    \* the limit of every message
  PageLimit,     \* the limit of the requests that have one
  Configured,    \* the outcomes configure may have: whether there is an ini file
  Requests,      \* the requests that may come in
  MaxRequests    \* bound: the requests of a run

PubsubCalls == {"publish", "subscribe", "describe", "get_messages"}
CometCalls  == {"publish", "mpublish", "subscribe", "describe", "load", "mload"}

Request ==
  [conn : Conns, call : PubsubCalls \cup CometCalls, channels : Seq(Channels)]

ASSUME ConnsAssumption == CometConns \subseteq Conns /\ Conns \subseteq Nat
ASSUME RequestsAssumption ==
  /\ Requests \subseteq Request
  /\ \A r \in Requests : r.call \in IF r.conn \in CometConns THEN CometCalls ELSE PubsubCalls
ASSUME PartsAssumption == Parts \in Seq(SUBSET Channels) /\ UNION ToSet(Parts) = Channels
ASSUME BoundsAssumption ==
  Configured \subseteq BOOLEAN /\ MaxRequests \in Nat /\ CacheLimit \in Nat \ {0} /\ PageLimit \in Nat

VARIABLES
  configured,    \* whether configure made _pubsub
  registered, published, dropped, stream,  \* the Broker
  route,         \* the object the handler of each subscription has a weak pointer of
  link,          \* how far each connection is: open, closed, leaving, left
  pc,            \* what a thread does next
  work,          \* the call a thread is in
  answers,       \* how often each request was answered
  inbox          \* what each client received

brokerVars == <<registered, published, dropped, stream, route>>
clientVars == <<link, answers, inbox>>

-----------------------------------------------------------------------------
\* subscribe_params::limit is what the client sets, and 0 for the comet_adapter.
Direct  == INSTANCE Broker WITH Ids <- Conns, Parts <- ToSet(Parts), SnapshotLimit <- PageLimit
Adapted == INSTANCE Broker WITH Ids <- Conns, Parts <- ToSet(Parts), SnapshotLimit <- 0

NoWork == [no |-> 0, conn |-> 0, call |-> "", asked |-> <<>>, rest |-> <<>>,
           part |-> 0, res |-> <<>>, peer |-> 0, refused |-> FALSE, since |-> 0]

DomainInit ==
  /\ configured \in Configured
  /\ Direct!Init
  /\ route = <<>>
  /\ link = [k \in Conns |-> "open"]
  /\ pc = [t \in Threads |-> "idle"]
  /\ work = [t \in Threads |-> NoWork]
  /\ answers = <<>>
  /\ inbox = [k \in Conns |-> <<>>]

Goto(t, label) == pc' = [pc EXCEPT ![t] = label]

InFlight(k) == \E t \in Threads : pc[t] # "idle" /\ work[t].conn = k

\* A worker thread takes up a request; the connection may be closed by then.
Receive(t, r, label) ==
  /\ pc[t] = "idle"
  /\ Len(answers) < MaxRequests
  /\ answers' = Append(answers, 0)
  /\ work' = [work EXCEPT ![t] = [NoWork EXCEPT !.no = Len(answers) + 1, !.conn = r.conn,
                                    !.call = r.call, !.asked = r.channels, !.rest = r.channels,
                                    !.since = Len(inbox[r.conn])]]
  /\ Goto(t, label)
  /\ UNCHANGED <<configured, brokerVars, link, inbox>>

Here(t) == Head(work[t].rest)

Item(c, sub, from, got) == [channel |-> c, sub |-> sub, from |-> from, got |-> got]

Advance(t, items) ==
  work' = [work EXCEPT ![t].rest = Tail(@), ![t].res = @ \o items]

\* Where a thread goes from the channel it is at.
After(t, label) == Goto(t, IF Len(work[t].rest) = 1 THEN "answer" ELSE label)

Inside(t, calls) == pc[t] = "call" /\ work[t].call \in calls /\ work[t].rest # <<>>

-----------------------------------------------------------------------------
(***************************************************************************)
(* publish: each topic in turn, to the clients whose handlers find an      *)
(* object behind their weak pointer.                                       *)
(***************************************************************************)
Live(c, h) ==
  [type |-> "live", call |-> "publish", asked |-> <<>>, since |-> 0,
   res |-> <<Item(c, h.sub, published[c], <<published[c] + 1>>)>>]

Deliver(c, reached) ==
  inbox' = [k \in Conns |->
              inbox[k] \o SetToSeq({Live(c, h) : h \in {g \in reached : g.id = k /\ g.channel = c}})]

PublishTopic(t, reached, label) ==
  LET c == Here(t)
  IN  /\ Inside(t, {"publish", "mpublish"})
      /\ IF configured THEN Direct!Publish(c) /\ Deliver(c, reached)
         ELSE UNCHANGED <<registered, published, dropped, stream, inbox>>
      /\ Advance(t, <<>>)
      /\ After(t, label)
      /\ UNCHANGED <<configured, route, link, answers>>

\* subscribe: each channel in turn; what the queue held goes into the answer.
SubscribeChannel(t) ==
  LET c == Here(t)
      k == work[t].conn
      n == Len(stream) + 1
  IN  /\ Inside(t, {"subscribe"})
      /\ IF configured
         THEN /\ IF k \in CometConns THEN Adapted!Subscribe(k, c) ELSE Direct!Subscribe(k, c)
              /\ route' = Append(route, work[t].peer)
              /\ Advance(t, <<Item(c, n, stream'[n].from, stream'[n].got)>>)
         ELSE UNCHANGED brokerVars /\ Advance(t, <<>>)
      /\ After(t, "call")
      /\ UNCHANGED <<configured, clientVars>>

DescribeChannel(t) ==
  /\ Inside(t, {"describe"})
  /\ IF configured THEN Direct!Describe(work[t].conn, {Here(t)})
     ELSE UNCHANGED <<registered, published, dropped, stream>>
  /\ Advance(t, <<>>)
  /\ After(t, "call")
  /\ UNCHANGED <<configured, route, clientVars>>

LoadChannel(t) ==
  LET c == Here(t)
  IN  /\ Inside(t, {"get_messages", "load", "mload"})
      /\ Advance(t, IF configured THEN <<Item(c, 0, Direct!From(c), Direct!Held(c))>> ELSE <<>>)
      /\ After(t, "call")
      /\ UNCHANGED <<configured, brokerVars, clientVars>>

\* The callback: the gateway passes the answer on if the connection is still open.
Answer(t, res) ==
  LET k == work[t].conn
  IN  /\ answers' = [answers EXCEPT ![work[t].no] = @ + 1]
      /\ inbox' = IF link[k] = "open"
                  THEN [inbox EXCEPT ![k] =
                          Append(@, [type  |-> IF work[t].refused THEN "null" ELSE "answer",
                                     call  |-> work[t].call,
                                     asked |-> work[t].asked,
                                     since |-> work[t].since,
                                     res   |-> res])]
                  ELSE inbox

Respond(t, res) ==
  /\ pc[t] = "answer"
  /\ Answer(t, res)
  /\ Goto(t, "idle")
  /\ work' = [work EXCEPT ![t] = NoWork]
  /\ UNCHANGED <<configured, brokerVars, link>>

-----------------------------------------------------------------------------
\* The connection is lost, and its gateway with it.
Close(k) ==
  /\ link[k] = "open"
  /\ link' = [link EXCEPT ![k] = "closed"]
  /\ UNCHANGED <<configured, brokerVars, pc, work, answers, inbox>>

\* The framework calls unreg_io, once for a connection.
Unregister(t, k, label) ==
  /\ pc[t] = "idle"
  /\ link[k] = "closed"
  /\ link' = [link EXCEPT ![k] = "leaving"]
  /\ work' = [work EXCEPT ![t] = [NoWork EXCEPT !.call = "unreg", !.conn = k, !.part = 1]]
  /\ Goto(t, label)
  /\ UNCHANGED <<configured, brokerVars, answers, inbox>>

\* The idle handler: it resets the pubsub_mt when _debug_reset is set, which reconfigure
\* may do at any time.  Without a pubsub_mt it dereferences a null pointer and the process
\* ends: that is no step, but a run that stops where it is, as every run of Spec may.
DebugReset(t) ==
  /\ pc[t] = "idle"
  /\ configured
  /\ work' = [work EXCEPT ![t] = [NoWork EXCEPT !.call = "reset", !.part = 1]]
  /\ Goto(t, "call")
  /\ UNCHANGED <<configured, brokerVars, clientVars>>

\* Mistake: the last part is left out.
SweepPartShort(t, label) ==
  LET C == Parts[work[t].part]
      done == work[t].part = Len(Parts) - 1
  IN  /\ pc[t] = "call"
      /\ work[t].part \in DOMAIN Parts
      /\ IF ~ configured THEN UNCHANGED <<registered, published, dropped, stream>>
         ELSE IF work[t].call = "reset" THEN Direct!Reset(C)
         ELSE Direct!Describe(work[t].conn, C)
      /\ work' = [work EXCEPT ![t] = IF done /\ label = "idle" THEN NoWork
                                     ELSE [@ EXCEPT !.part = work[t].part + 1]]
      /\ Goto(t, IF done THEN label ELSE "call")
      /\ link' = IF done /\ work[t].call = "unreg" /\ label = "idle"
                 THEN [link EXCEPT ![work[t].conn] = "left"] ELSE link
      /\ UNCHANGED <<configured, route, answers, inbox>>

\* unreg_io and reset: one part of the channels after another.
SweepPart(t, label) ==
  LET C == Parts[work[t].part]
      done == work[t].part = Len(Parts)
  IN  /\ pc[t] = "call"
      /\ work[t].part \in DOMAIN Parts
      /\ IF ~ configured THEN UNCHANGED <<registered, published, dropped, stream>>
         ELSE IF work[t].call = "reset" THEN Direct!Reset(C)
         ELSE Direct!Describe(work[t].conn, C)
      /\ work' = [work EXCEPT ![t] = IF done /\ label = "idle" THEN NoWork
                                     ELSE [@ EXCEPT !.part = work[t].part + 1]]
      /\ Goto(t, IF done THEN label ELSE "call")
      /\ link' = IF done /\ work[t].call = "unreg" /\ label = "idle"
                 THEN [link EXCEPT ![work[t].conn] = "left"] ELSE link
      /\ UNCHANGED <<configured, route, answers, inbox>>
=============================================================================
