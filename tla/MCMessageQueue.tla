---------------------------- MODULE MCMessageQueue ----------------------------
(***************************************************************************)
(* Small instances of MessageQueueSpec: the sets of messages the runs      *)
(* push, and what the comments of the source say of the queue where the    *)
(* code does something else.                                               *)
(***************************************************************************)
EXTENDS MessageQueueSpec

CONSTANTS a, b

Input(actions, limits, births, lifetimes, cursors, identities) ==
  [action : actions, limit : limits, birthtime : births, lifetime : lifetimes,
   cursor : cursors, identity : identities, content : {0}, arrival : {0}]

\* Messages that die at different times, in every order along two cursors, and updates
\* and replacements that move the death of those of identity a.
Mortals ==
  Input({"publish"}, {2, 3}, {0, 1}, {1, 2}, {1, 2}, {a})
    \cup Input({"update", "replace", "modify"}, {3}, {1, 3}, {1}, {1}, {a})
    \cup Input({"publish"}, {3}, {0}, {1}, {1}, {b})

\* Every action on two identities, with the limits and lifetimes push treats specially.
EveryAction ==
  Input({"publish"}, {0, 3}, {0}, {0, 1, 2}, {1, 2}, {a})
    \cup Input({"publish"}, {3}, {0}, {2}, {1}, {b})
    \cup Input({"update", "modify", "replace", "remove"}, {0, 3}, {2}, {0, 2}, {1}, {a})

AllInputs == Mortals \cup EveryAction

\* The messages of the runs about what the comments say.
DocPublishes == Input({"publish"}, {1, 2}, {0, 1}, {2}, {1, 2}, {a, b})

\* What the comments call ideal: one lifetime, one cursor, born when they are pushed.
DocIdeals == Input({"publish"}, {3}, {0}, {2}, {1}, {a})

\* message.hpp gives a message no limit, no lifetime and no birthtime unless they are set.
DocUpdates == DocPublishes \cup Input({"update"}, {0, 2}, {0}, {0, 3}, {1}, {a})
DocRemoves == DocPublishes \cup Input({"remove"}, {0}, {0}, {0}, {1}, {a})

-----------------------------------------------------------------------------
Pushed(m) == DoPush(m)

(***************************************************************************)
(* message_queue.hpp:88: update sets the birthtime of the messages it      *)
(* changes to the current time.                                            *)
(***************************************************************************)
DocUpdateRebirths ==
  [][\A m \in Inputs : Pushed(m) /\ m.action = "update" =>
       \A x \in ToSet(q'.msgs) : x.content = pushes' => x.birthtime = now]_vars

(***************************************************************************)
(* message_queue.hpp:96: for remove it is enough to give the identity; the *)
(* live messages of another identity stay.                                 *)
(***************************************************************************)
DocRemoveByIdentity ==
  [][\A m \in Inputs : Pushed(m) /\ m.action = "remove" =>
       \A x \in ToSet(q.msgs) : x.identity # m.identity /\ ~ Dead(x, now) => x \in ToSet(q'.msgs)]_vars

(***************************************************************************)
(* message_queue.hpp:36-43: a queue of messages with one lifetime, with    *)
(* cursors that do not fall and with birthtimes that rise counts as        *)
(* ordered by time: one more such message, put into a queue that counts as *)
(* ordered and loses nothing by it, leaves it so.                          *)
(***************************************************************************)
Ideal(s) ==
  \A i, j \in DOMAIN s : i < j =>
    /\ s[i].cursor <= s[j].cursor
    /\ s[i].lifetime = s[j].lifetime
    /\ s[i].birthtime < s[j].birthtime

DocIdealStaysSequenced ==
  [][\A m \in Inputs :
       /\ Pushed(m) /\ m.action = "publish"
       /\ q.sequenced
       /\ Len(q'.msgs) = Len(q.msgs) + 1
       /\ Ideal(q'.msgs)
       => q'.sequenced]_vars
=============================================================================
