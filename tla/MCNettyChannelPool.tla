------------------------- MODULE MCNettyChannelPool -------------------------
(* Instances of NettyChannelPool: requests and contexts are interchangeable. *)
EXTENDS NettyChannelPool, TLC

PoolSymmetry == Permutations(Requests) \cup Permutations(Contexts)
=============================================================================
