-------------------------------- MODULE Channel --------------------------------
(***************************************************************************)
(* What a channel's message queue promises to those who publish to it, with *)
(* nothing said of the deque, of the sequenced flag or of when the dead are *)
(* swept: a set of held messages, ordered by cursor and then by arrival.    *)
(* A push may drop any of the dead first (the queue looks for them at most  *)
(* once per second), has the effect of its action, and keeps no more than   *)
(* the latest m.limit messages; remove_death drops every dead message and   *)
(* no other.  MessageQueueSpec is shown to implement it.                    *)
(***************************************************************************)
EXTENDS MessageSets

CONSTANTS
  Inputs,      \* the messages that may be pushed
  Times,       \* the values time(nullptr) may return
  MaxPushes    \* bound: the pushes of a run

VARIABLES
  held,        \* the messages the channel holds
  now,         \* the clock of the host
  pushes       \* how many pushes there have been

vars == <<held, now, pushes>>

-----------------------------------------------------------------------------
Init == held = {} /\ now \in Times /\ pushes = 0

DeadNow == {x \in held : Dead(x, now)}

Accept(m) ==
  /\ pushes < MaxPushes
  /\ ~ HandedBack(m)
  /\ pushes' = pushes + 1
  /\ \E expired \in SUBSET DeadNow :
       held' = Latest(m.limit, Effect(held \ expired, Stamped(m, pushes + 1), now))
  /\ UNCHANGED now

HandBack(m) ==
  /\ pushes < MaxPushes
  /\ HandedBack(m)
  /\ pushes' = pushes + 1
  /\ IF m.limit = 0 THEN held' = {} ELSE \E expired \in SUBSET DeadNow : held' = held \ expired
  /\ UNCHANGED now

Sweep == held' = held \ DeadNow /\ UNCHANGED <<now, pushes>>

Shrink(n) == held' = Latest(n, held) /\ UNCHANGED <<now, pushes>>

SetClock(t) == now' = t /\ UNCHANGED <<held, pushes>>

Next ==
  \/ \E m \in Inputs : Accept(m) \/ HandBack(m)
  \/ Sweep
  \/ \E n \in 0 .. Cardinality(held) : Shrink(n)
  \/ \E t \in Times : SetClock(t)

Spec == Init /\ [][Next]_vars
=============================================================================
