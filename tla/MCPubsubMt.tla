------------------------------ MODULE MCPubsubMt ------------------------------
(***************************************************************************)
(* Small instances of PubsubMt.                                            *)
(***************************************************************************)
EXTENDS PubsubMt, TLC

CONSTANTS t1, t2, t3, x, y, z

\* x and y collide in one shard, z is alone in the other.
Hash == x :> 1 @@ y :> 1 @@ z :> 2

Call(kinds, ids, channels) == [kind : kinds, id : ids, channel : channels]

\* A client that subscribes in both shards while it is being disconnected, and the
\* statistics and the reset of the idle handler.
Disconnects ==
  Call({"subscribe"}, {1}, {x, z}) \cup Call({"subscribe"}, {2}, {z})
    \cup Call({"describe"}, {1}, {x})
    \cup Call({"describeAll", "count", "reset"}, {1}, {x})

\* Calls of each kind, so that every pair of kinds meets, on channels that share a mutex
\* and on the other shard.
EveryKind ==
  Call({"publish", "subscribe", "describe", "getMessages"}, {1}, {x})
    \cup Call({"publish"}, {1}, {y}) \cup Call({"subscribe"}, {2}, {x, z})
    \cup Call({"describeAll", "count", "statistics", "reset"}, {1}, {x})

Symmetry == Permutations(Threads)
=============================================================================
