-------------------------- MODULE MCParsecBarrier --------------------------
(* Three threads, four uses: one thread can be back at the barrier, polling   *)
(* or asleep, while a second leaves and a third sleeps in the use before.     *)
EXTENDS ParsecBarrier

CONSTANTS t1, t2, t3
=============================================================================
