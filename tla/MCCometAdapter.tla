---------------------------- MODULE MCCometAdapter ----------------------------
(***************************************************************************)
(* Small instances of CometAdapter: connection 1 uses the pubsub_domain,   *)
(* connection 2 the comet_adapter.                                         *)
(***************************************************************************)
EXTENDS CometAdapter

CONSTANTS t1, t2, x, y

TwoShards == <<{x}, {y}>>

OneShard == <<{x, y}>>

Call(k, calls, lists) == [conn : {k}, call : calls, channels : lists]

\* Publications, and clients of both kinds that subscribe, load and unsubscribe.
Clients ==
  Call(1, {"publish", "subscribe"}, {<<x, y>>})
    \cup Call(2, {"subscribe"}, {<<x>>, <<y>>}) \cup Call(2, {"load", "describe"}, {<<x>>})
    \cup Call(2, {"mload"}, {<<x, y>>}) \cup Call(2, {"mpublish"}, {<<y, x>>})

\* Every call of either interface.
EveryCall ==
  Call(1, PubsubCalls, {<<x>>}) \cup Call(2, CometCalls \ {"mpublish", "mload"}, {<<x>>})
    \cup Call(2, {"mpublish", "mload"}, {<<y, x>>})

Symmetry == Permutations(Threads)
=============================================================================
