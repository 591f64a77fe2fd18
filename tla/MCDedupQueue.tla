---------------------------- MODULE MCDedupQueue ----------------------------
(* A small instance of DedupQueue for TLC: two producers of three elements    *)
(* each, two consumers, and a queue of two slots, so that batches are split,  *)
(* both indices of every ring buffer wrap around, and two threads can sleep   *)
(* on one condition variable while a batch is moved.                          *)
EXTENDS DedupQueue

CONSTANTS p1, p2, c1, c2

=============================================================================
