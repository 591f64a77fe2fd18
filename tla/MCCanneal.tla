----------------------------- MODULE MCCanneal -----------------------------
(* Two threads and three elements, two moves each at a temperature: swaps of  *)
(* the same pair from both sides, and of pairs that share an element.  They   *)
(* run for one step, or to convergence, in which only the first step can be   *)
(* good enough for another.                                                   *)
EXTENDS Canneal

CONSTANTS t1, t2

MCTempSteps == {-1, 1}
=============================================================================
