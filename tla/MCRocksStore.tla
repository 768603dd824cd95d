----------------------------- MODULE MCRocksStore -----------------------------
(***************************************************************************)
(* Small instances of RocksStore: the sets of messages the runs push.      *)
(***************************************************************************)
EXTENDS RocksStore

CONSTANTS a, b

Input(actions, lifetimes, cursors, identities) ==
  [action : actions, limit : {2}, birthtime : {0}, lifetime : lifetimes,
   cursor : cursors, identity : identities, content : {0}, arrival : {0}]

\* Messages that die at different times, in every order along two cursors.
Publishes == Input({"publish"}, {1, 2}, {1, 2}, {a})

\* Every action on one of two identities.
EveryAction ==
  Input({"publish"}, {1, 2}, {1}, {a})
    \cup Input({"publish"}, {1}, {1}, {b})
    \cup Input({"update", "modify", "replace", "remove"}, {1}, {1}, {a})
=============================================================================
