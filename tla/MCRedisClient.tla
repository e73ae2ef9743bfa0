---------------------------- MODULE MCRedisClient ----------------------------
(* RedisClient for TLC: the threads are interchangeable.                   *)
EXTENDS RedisClient, TLC

Symmetry == Permutations(Callers)
=============================================================================
