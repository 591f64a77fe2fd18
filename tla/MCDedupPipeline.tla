-------------------------- MODULE MCDedupPipeline --------------------------
(* Small instances of DedupPipeline for TLC.                                  *)
EXTENDS DedupPipeline

CONSTANTS ca, cb, cx, cy

(* Four fine chunks in three coarse ones: a repetition within the same group  *)
(* of threads and one across groups.                                          *)
MCInput == << <<ca, cb>>, <<ca>>, <<cb>> >>

(* Two groups of one thread each, which send in batches of two.  Reorder      *)
(* meets the duplicates of one group first while their original waits in the  *)
(* other, and a long coarse chunk makes its group fall behind.                *)
Repeated(n) == [i \in 1 .. n |-> ca]
MCUneven == << <<cx>>, Repeated(2), <<cy>>, Repeated(8), <<ca>>, <<ca>>, Repeated(3), <<ca>>, <<ca>> >>
=============================================================================
