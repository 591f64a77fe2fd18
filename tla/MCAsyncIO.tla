----------------------------- MODULE MCAsyncIO -----------------------------
(* Four frames in a buffer of two sets: either thread may find it full or     *)
(* empty, in the middle and at the end.                                       *)
EXTENDS AsyncIO
=============================================================================
