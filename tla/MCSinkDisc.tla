----------------------------- MODULE MCSinkDisc -----------------------------
(* Two workers on an image of two by five tiles in buffers of two rows: each   *)
(* buffer is used again, rows change within a buffer, and the last section is  *)
(* cut off at the end of the image.                                            *)
EXTENDS SinkDisc

CONSTANTS t1, t2
=============================================================================
