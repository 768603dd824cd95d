------------------------------- MODULE MCPubsub -------------------------------
(***************************************************************************)
(* Small instances of Pubsub.                                              *)
(***************************************************************************)
EXTENDS Pubsub

CONSTANTS a, x

TwoTtls == <<1, 3>>

\* Either default for persistent, and each of the places for messages switched off.
Started(persistents, rocksdbs, caches) ==
  [persistentDefault : persistents, rocksdbDisabled : rocksdbs, cacheDisabled : caches,
   defaultLifetime : {2}, defaultLimit : {2}]

EitherDefault == Started(BOOLEAN, {FALSE}, {FALSE})

EveryStart ==
  EitherDefault \cup Started({TRUE}, {TRUE}, {FALSE}) \cup Started({FALSE}, {FALSE}, {TRUE})

Input(limits, lifetimes, cursors, persistents) ==
  [msg : [action : {"publish"}, limit : limits, birthtime : {0}, lifetime : lifetimes,
          cursor : cursors, identity : {a}, content : {0}, arrival : {0}],
   persistent : persistents]

\* Messages for either database and for neither, and one that only passes through.
Mixed ==
  Input({2}, {1}, {1}, {TRUE}) \cup Input({1}, {3}, {1}, {TRUE})
    \cup Input({1, 2}, {1}, {1}, {FALSE})
    \cup Input({0}, {2}, {2}, BOOLEAN) \cup Input({0}, {0}, {1}, {FALSE})
=============================================================================
