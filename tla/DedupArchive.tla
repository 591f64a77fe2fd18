---------------------------- MODULE DedupArchive ----------------------------
(* What dedup promises whatever the number of threads: the archive lists the  *)
(* chunks of the input in input order, the data of a chunk where its contents *)
(* occur for the first time and only a fingerprint where they occur again.    *)
(* This is what the serial program does (encoder.c,                           *)
(* SerialIntegratedPipeline), and what the decoder relies on (decoder.c): a   *)
(* fingerprint must come after the data it stands for.                        *)
EXTENDS DedupStream

VARIABLES out,      \* the records written to the archive
          next      \* the sequence number of the chunk to be written next

vars == <<out, next>>

Init == out = << >> /\ next = First

(* The serial program: the next chunk of the input is looked up, compressed   *)
(* if it is new, and written.                                                 *)
Write ==
    /\ next \in Chunks
    /\ out' = Append(out, Record(next))
    /\ next' = Successor(next)

Spec == Init /\ [][Write]_vars
=============================================================================
