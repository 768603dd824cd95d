--------------------------------- MODULE Broker ---------------------------------
(***************************************************************************)
(* What a pubsub_mt promises to its callers: a call about one channel      *)
(* happens at once, as if there were no other; a call about all channels   *)
(* happens at once for each part of them, one part after another.          *)
(* PubsubMt is shown to implement it.                                      *)
(***************************************************************************)
EXTENDS Integers, Sequences, FiniteSetsExt

CONSTANTS
  Ids,
  Channels,
  Parts,         \* a partition of the channels
  CacheLimit,    \* how many messages are held
  SnapshotLimit  \* how many of them a new subscriber gets

VARIABLES
  registered,    \* the subscriptions in force: channel, id and number of each
  published,     \* how many messages of a channel have been published
  dropped,       \* how many of them are no longer held for later subscribers
  stream         \* what each subscription got, and the number this starts after

vars == <<registered, published, dropped, stream>>

-----------------------------------------------------------------------------
Init ==
  /\ registered = {}
  /\ published = [c \in Channels |-> 0]
  /\ dropped = [c \in Channels |-> 0]
  /\ stream = <<>>

From(c) == Max({dropped[c], published[c] - SnapshotLimit})

Held(c) == [k \in 1 .. published[c] - From(c) |-> From(c) + k]

Subscribed(n, c) == \E h \in registered : h.sub = n /\ h.channel = c

\* A message goes to everyone who is subscribed, and is held for those to come.
Publish(c) ==
  /\ published' = [published EXCEPT ![c] = @ + 1]
  /\ dropped' = [dropped EXCEPT ![c] = Max({@, published[c] + 1 - CacheLimit})]
  /\ stream' = [n \in DOMAIN stream |->
                  IF Subscribed(n, c)
                  THEN [stream[n] EXCEPT !.got = Append(@, published[c] + 1)]
                  ELSE stream[n]]
  /\ UNCHANGED registered

\* A subscription replaces the one its id had, and starts with what is held.
Subscribe(id, c) ==
  /\ stream' = Append(stream, [from |-> From(c), got |-> Held(c)])
  /\ registered' = {h \in registered : ~ (h.id = id /\ h.channel = c)}
                     \cup {[channel |-> c, id |-> id, sub |-> Len(stream) + 1]}
  /\ UNCHANGED <<published, dropped>>

Describe(id, C) ==
  /\ registered' = {h \in registered : ~ (h.id = id /\ h.channel \in C)}
  /\ UNCHANGED <<published, dropped, stream>>

Reset(C) ==
  /\ registered' = {h \in registered : h.channel \notin C}
  /\ dropped' = [c \in Channels |-> IF c \in C THEN published[c] ELSE dropped[c]]
  /\ UNCHANGED <<published, stream>>

Next ==
  \/ \E c \in Channels : Publish(c)
  \/ \E id \in Ids, c \in Channels : Subscribe(id, c) \/ Describe(id, {c})
  \/ \E C \in Parts : Reset(C) \/ \E id \in Ids : Describe(id, C)

Spec == Init /\ [][Next]_vars
=============================================================================
