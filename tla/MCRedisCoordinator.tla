------------------------- MODULE MCRedisCoordinator -------------------------
(***************************************************************************)
(* Three clients with a lease of two ticks and two faults among them; four *)
(* tokens are enough for one per client and one orphaned key.              *)
(***************************************************************************)
EXTENDS RedisCoordinator
=============================================================================
