------------------------------- MODULE Messages -------------------------------
(***************************************************************************)
(* The messages of wfc::pubsub, as the queue stores them                   *)
(* (libpubsub/pubsub/stored_message.hpp, libpubsub/pubsub/api/message.hpp) *)
(* and the changes the class stored_message makes to one.                  *)
(***************************************************************************)
EXTENDS Integers

CONSTANT Identities      \* the values of message::identity

Actions == {"publish", "modify", "update", "replace", "remove"}

(***************************************************************************)
(* content stands for the fields content and key, which the code always    *)
(* overwrites together; it holds the number of the push that wrote them.   *)
(* arrival is not in the code: it is the number of the push that placed    *)
(* the message, so that properties can speak of the order of arrival.      *)
(***************************************************************************)
Message ==
  [action : Actions, limit : Nat, birthtime : Int, lifetime : Int,
   cursor : Int, identity : Identities, content : Nat, arrival : Nat]

Stamped(m, n) == [m EXCEPT !.content = n, !.arrival = n]

Deathtime(m) == m.birthtime + m.lifetime

Dead(m, now) == Deathtime(m) < now          \* f_deathtime_less

Unlimited(m) == m.lifetime = 0 \/ m.limit = 0

Born(m, now) == IF m.birthtime = 0 THEN [m EXCEPT !.birthtime = now] ELSE m

\* stored_message::update and stored_message::modify.
Updated(old, m) ==
  [old EXCEPT !.limit = m.limit, !.birthtime = m.birthtime, !.lifetime = m.lifetime,
              !.content = m.content]

Modified(old, m) == [old EXCEPT !.limit = m.limit, !.content = m.content]

\* What push gives back to its caller instead of storing it.
HandedBack(m) == m.action = "publish" /\ Unlimited(m)
=============================================================================
