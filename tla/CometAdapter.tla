----------------------------- MODULE CometAdapter -----------------------------
(***************************************************************************)
(* The class comet_adapter_domain (package/comet_adapter/domain) in front  *)
(* of a pubsub_domain, its target, of which it has a weak pointer, beside  *)
(* connections that use the pubsub_domain directly.                        *)
(*                                                                         *)
(* Every comet connection that subscribes has one adapter_impl, kept alive *)
(* by _adapter_map: the handlers in the pubsub_mt only have a weak pointer *)
(* of it.  An adapter_impl passes what a handler gives it to the gateway   *)
(* of the connection.                                                      *)
(***************************************************************************)
EXTENDS PubsubDomain

CONSTANT Events      \* bound: which of the rare events a run may have

ASSUME EventsAssumption == Events \subseteq {"debugReset", "destroyTarget"}

VARIABLES
  target,        \* whether the pubsub_domain still exists
  adapters,      \* _adapter_map: the adapter of a connection, by number
  made,          \* how many adapters were made
  late           \* the connections of which a request was under way when, or came after,
                 \* unreg_io was called

adapterVars == <<target, adapters, made, late>>
vars == <<configured, brokerVars, clientVars, pc, work, adapterVars>>

-----------------------------------------------------------------------------
Init ==
  /\ DomainInit
  /\ target = TRUE
  /\ adapters = [k \in {} |-> 0]
  /\ made = 0
  /\ late = {}

\* The adapters that exist: in the map, or in the hands of a subscribe.
Held == Range(adapters) \cup {work[t].peer : t \in Threads}

\* The handlers that reach a client.
Reached ==
  {h \in registered : link[h.id] = "open" /\ (h.id \in CometConns => route[h.sub] \in Held)}

\* Mistake: every subscribe asks for an adapter.
EntryByCall(r) ==
  IF r.call = "subscribe" THEN "adapter"
  ELSE IF r.conn \in CometConns THEN "target"
  ELSE IF r.channels = <<>> THEN "answer" ELSE "call"

\* Where a request starts.
Entry(r) ==
  IF r.conn \in CometConns
  THEN IF r.call = "subscribe" THEN "adapter" ELSE "target"
  ELSE IF r.channels = <<>> THEN "answer" ELSE "call"

ReceiveRequest(t, r) ==
  /\ r.conn \notin CometConns => target
  /\ Receive(t, r, Entry(r))
  /\ late' = IF link[r.conn] \in {"leaving", "left"} THEN late \cup {r.conn} ELSE late
  /\ UNCHANGED <<target, adapters, made>>

\* Mistake: every subscribe makes an adapter of its own.
FindNewAdapter(t) ==
  LET k == work[t].conn
  IN  /\ pc[t] = "adapter"
      /\ made' = made + 1
      /\ adapters' = (k :> made + 1) @@ adapters
      /\ work' = [work EXCEPT ![t].peer = made + 1]
      /\ Goto(t, "target")
      /\ UNCHANGED <<configured, brokerVars, clientVars, target, late>>

\* Mistake: the adapter is not put into the map.
FindAdapterUnkept(t) ==
  /\ pc[t] = "adapter"
  /\ made' = made + 1
  /\ work' = [work EXCEPT ![t].peer = made + 1]
  /\ Goto(t, "target")
  /\ UNCHANGED <<configured, brokerVars, clientVars, target, adapters, late>>

\* subscribe, under _mutex: the adapter of the connection, made when it is the first.
FindAdapter(t) ==
  LET k == work[t].conn
  IN  /\ pc[t] = "adapter"
      /\ IF k \in DOMAIN adapters THEN UNCHANGED <<adapters, made>>
         ELSE /\ made' = made + 1
              /\ adapters' = [x \in DOMAIN adapters \cup {k} |->
                                IF x = k THEN made + 1 ELSE adapters[x]]
      /\ work' = [work EXCEPT ![t].peer = adapters'[k]]
      /\ Goto(t, "target")
      /\ UNCHANGED <<configured, brokerVars, clientVars, target, late>>

\* _target.lock(), for each message of an mpublish anew.
LockTarget(t) ==
  /\ pc[t] = "target"
  /\ target
  /\ Goto(t, IF work[t].call # "unreg" /\ work[t].rest = <<>> THEN "answer" ELSE "call")
  /\ UNCHANGED <<configured, brokerVars, clientVars, work, adapterVars>>

\* Mistake: nobody is told that there is no target.
TargetGoneUnanswered(t) ==
  /\ pc[t] = "target"
  /\ ~ target
  /\ Goto(t, "idle")
  /\ work' = [work EXCEPT ![t] = NoWork]
  /\ UNCHANGED <<configured, brokerVars, clientVars, adapterVars>>

\* Without a target the answer is null; an mpublish goes through its messages all the same,
\* and unreg_io does nothing.
TargetGone(t) ==
  /\ pc[t] = "target"
  /\ ~ target
  /\ IF work[t].call = "unreg"
     THEN /\ link' = [link EXCEPT ![work[t].conn] = "left"]
          /\ Goto(t, "idle")
     ELSE Goto(t, "answer") /\ UNCHANGED link
  /\ work' = [work EXCEPT ![t] = IF work[t].call = "unreg" THEN NoWork
                                 ELSE [@ EXCEPT !.rest = <<>>, !.refused = work[t].call # "mpublish"]]
  /\ UNCHANGED <<configured, brokerVars, answers, inbox, adapterVars>>

\* The last shared pointer of the pubsub_domain is released: nobody is inside.
DestroyTarget ==
  /\ "destroyTarget" \in Events
  /\ target
  /\ \A t \in Threads : pc[t] # "call"
  /\ target' = FALSE
  /\ registered' = {}
  /\ UNCHANGED <<configured, published, dropped, stream, route, clientVars, pc, work,
                 adapters, made, late>>

\* unreg_io of a comet connection, under _mutex, after that of the target.
EraseAdapter(t) ==
  LET k == work[t].conn
  IN  /\ pc[t] = "erase"
      /\ adapters' = Restrict(adapters, DOMAIN adapters \ {k})
      /\ link' = [link EXCEPT ![k] = "left"]
      /\ work' = [work EXCEPT ![t] = NoWork]
      /\ Goto(t, "idle")
      /\ UNCHANGED <<configured, brokerVars, answers, inbox, target, made, late>>

UnregisterConn(t, k) ==
  /\ k \notin CometConns => target
  /\ Unregister(t, k, IF k \in CometConns THEN "target" ELSE "call")
  /\ late' = IF InFlight(k) THEN late \cup {k} ELSE late
  /\ UNCHANGED <<target, adapters, made>>

-----------------------------------------------------------------------------
(***************************************************************************)
(* The answer to mload: the channels that have messages, with those that   *)
(* came for them, and then the channels asked for that have none.          *)
(***************************************************************************)
MessagesOf(res, c) ==
  LET mine == {i \in DOMAIN res : res[i].channel = c}
  IN  Item(c, 0, IF mine = {} THEN 0 ELSE res[Min(mine)].from,
           FlattenSeq([i \in DOMAIN res |-> IF i \in mine THEN res[i].got ELSE <<>>]))

WithMessages(res) == {e.channel : e \in {f \in ToSet(res) : f.got # <<>>}}

\* Mistake: a channel that has messages is not struck off the list of the empty ones.
EmptyKept(asked, res) == ToSet(asked)

Empty(asked, res) == ToSet(asked) \ WithMessages(res)

LoadList(asked, res) ==
  SetToSeq({MessagesOf(res, c) : c \in WithMessages(res)})
    \o SetToSeq({MessagesOf(res, c) : c \in Empty(asked, res)})

RespondTo(t) ==
  Respond(t, IF work[t].call = "mload" /\ ~ work[t].refused
             THEN LoadList(work[t].asked, work[t].res)
             ELSE work[t].res)

\* What a thread does inside the pubsub_domain.
DomainStep(t) ==
  \/ PublishTopic(t, Reached, IF work[t].call = "mpublish" THEN "target" ELSE "call")
  \/ SubscribeChannel(t)
  \/ DescribeChannel(t)
  \/ LoadChannel(t)
  \/ SweepPart(t, IF work[t].call = "unreg" /\ work[t].conn \in CometConns
                  THEN "erase" ELSE "idle")
  \/ RespondTo(t)

Step(t) ==
  \/ DomainStep(t) /\ UNCHANGED adapterVars
  \/ FindAdapter(t) \/ LockTarget(t) \/ TargetGone(t) \/ EraseAdapter(t)

\* All the requests of the run are answered.
Quiet ==
  /\ Len(answers) = MaxRequests
  /\ \A t \in Threads : pc[t] = "idle"
  /\ UNCHANGED vars

Next ==
  \/ \E t \in Threads :
       \/ Step(t)
       \/ \E r \in Requests : ReceiveRequest(t, r)
       \/ \E k \in Conns : UnregisterConn(t, k)
       \/ "debugReset" \in Events /\ target /\ DebugReset(t) /\ UNCHANGED adapterVars
  \/ \E k \in Conns : Close(k) /\ UNCHANGED adapterVars
  \/ DestroyTarget
  \/ Quiet

Spec == Init /\ [][Next]_vars

\* A worker thread that took up a call is scheduled until it is done: the process runs on.
FairSpec == Spec /\ \A t \in Threads : WF_vars(Step(t))
-----------------------------------------------------------------------------
Labels == {"idle", "adapter", "target", "call", "erase", "answer"}

\* The types of the maps and of the threads.
TypeOK ==
  /\ configured \in BOOLEAN /\ target \in BOOLEAN
  /\ registered \subseteq [channel : Channels, id : Conns, sub : DOMAIN stream]
  /\ DOMAIN route = DOMAIN stream
  /\ Range(route) \subseteq 0 .. made
  /\ link \in [Conns -> {"open", "closed", "leaving", "left"}]
  /\ pc \in [Threads -> Labels]
  /\ \A t \in Threads : work[t].no \in {0} \cup DOMAIN answers /\ work[t].peer \in 0 .. made
  /\ DOMAIN adapters \subseteq CometConns /\ Range(adapters) \subseteq 1 .. made
  /\ late \subseteq Conns

Answers(k, calls) ==
  {i \in DOMAIN inbox[k] : inbox[k][i].type = "answer" /\ inbox[k][i].call \in calls}

\* Where in the inbox the subscription h was acknowledged.
Acknowledged(h) ==
  {i \in Answers(h.id, {"subscribe"}) : \E e \in ToSet(inbox[h.id][i].res) : e.sub = h.sub}

\* What the items of an answer have for the subscription n.
GotFor(res, n) == FlattenSeq([j \in DOMAIN res |-> IF res[j].sub = n THEN res[j].got ELSE <<>>])

\* The messages that came for h, in the order they came in.
Came(h) == FlattenSeq([i \in DOMAIN inbox[h.id] |-> GotFor(inbox[h.id][i].res, h.sub)])

OpenSubscriptions == {h \in registered : link[h.id] = "open"}

(***************************************************************************)
(* A client that was told it is subscribed has got every message of the    *)
(* channel from the first its answer had to the last published, each once: *)
(* none falls between the copy for the answer, the handler, and an answer  *)
(* that is sent when messages published later have already arrived; and no *)
(* adapter dies that a subscription needs.                                 *)
(***************************************************************************)
ClientGapless ==
  \A h \in OpenSubscriptions : Acknowledged(h) # {} =>
    /\ IsInjective(Came(h))
    /\ ToSet(Came(h)) = (stream[h.sub].from + 1) .. published[h.channel]

(***************************************************************************)
(* The comet_adapter answers a subscribe without messages; its clients     *)
(* load them.  A client that loads once it was told that it is subscribed  *)
(* has, with what came since, every message from the first one loaded on.  *)
(***************************************************************************)
SubscribeThenLoad ==
  \A h \in {g \in OpenSubscriptions : g.id \in CometConns} :
    \A i \in Acknowledged(h), j \in Answers(h.id, {"load", "mload"}) :
      i <= inbox[h.id][j].since =>
        \A e \in {f \in ToSet(inbox[h.id][j].res) : f.channel = h.channel} :
          (e.from + 1) .. published[h.channel] \subseteq ToSet(e.got) \cup ToSet(Came(h))

(***************************************************************************)
(* An answer to mload has each channel that was asked for exactly once,    *)
(* with or without messages.                                               *)
(***************************************************************************)
EachChannelOnce ==
  \A k \in Conns : \A i \in Answers(k, {"mload"}) :
    LET names == [n \in DOMAIN inbox[k][i].res |-> inbox[k][i].res[n].channel]
    IN  IsInjective(names) /\ ToSet(names) = ToSet(inbox[k][i].asked)

(***************************************************************************)
(* When unreg_io is done, neither a handler nor an adapter of the          *)
(* connection is left, unless a request of it was still under way or came  *)
(* afterwards, or the target is gone.                                      *)
(***************************************************************************)
NothingLeftBehind ==
  \A k \in Conns : link[k] = "left" /\ k \notin late /\ target =>
    k \notin DOMAIN adapters /\ \A h \in registered : h.id # k

(***************************************************************************)
(* Every request is answered, and never again after that: when the target  *)
(* is gone, when the connection is closed, and, as long as the process     *)
(* runs, when configure found no ini.                                      *)
(***************************************************************************)
EveryRequestAnswered ==
  \A n \in 1 .. MaxRequests : n \in DOMAIN answers ~> [](n \in DOMAIN answers /\ answers[n] = 1)
=============================================================================
