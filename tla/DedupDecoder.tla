---------------------------- MODULE DedupDecoder ----------------------------
(* The decoder of dedup (dedup/src/decoder.c): it reads the archive record by *)
(* record.  Data is uncompressed, entered into the hash table and written     *)
(* out; a fingerprint is looked up in the hash table, and the program stops   *)
(* when the data it stands for has not been seen ("Encountered a duplicate    *)
(* chunk in input file but not its unique counterpart. Maybe data is out of   *)
(* order?").                                                                  *)
EXTENDS Sequences, SequencesExt

DecodeStart == [cache |-> {}, text |-> << >>, stopped |-> FALSE]

DecodeRecord(s, r) ==
    IF s.stopped THEN s
    ELSE IF r.type = "data"
         THEN [s EXCEPT !.cache = @ \cup {r.of}, !.text = Append(@, r.of)]
         ELSE IF r.of \in s.cache
              THEN [s EXCEPT !.text = Append(@, r.of)]
              ELSE [s EXCEPT !.stopped = TRUE]

Decode(archive) ==
    LET decoded[i \in 0 .. Len(archive)] ==
            IF i = 0 THEN DecodeStart ELSE DecodeRecord(decoded[i - 1], archive[i])
    IN decoded[Len(archive)]
=============================================================================
