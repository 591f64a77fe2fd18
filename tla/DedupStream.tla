---------------------------- MODULE DedupStream ----------------------------
(* The chunks of dedup's input and their order: what the encoder's stages     *)
(* (dedupdef.h, encoder.c) and the archive they write have in common.         *)
EXTENDS Integers, Sequences

CONSTANT Input      \* the input as the fingerprinting cuts it: a sequence of
                    \* coarse chunks, each the sequence of its fine chunks'
                    \* contents

ASSUME InputAssumption ==
    /\ Input \in Seq(Seq(UNION {{Input[a][b] : b \in DOMAIN Input[a]} : a \in DOMAIN Input}))
    /\ \A a \in DOMAIN Input : Input[a] # << >>

(* A fine chunk is known by its two-level sequence number, sequence_t: the    *)
(* number l1num of its coarse chunk and its own number l2num inside it.       *)
Anchors == 0 .. Len(Input) - 1
NPieces(a) == Len(Input[a + 1])
Chunks == UNION {{a} \X (0 .. NPieces(a) - 1) : a \in Anchors}

ContentOf(c) == Input[c[1] + 1][c[2] + 1]

(* sequence_lt                                                                *)
Before(c, d) == c[1] < d[1] \/ (c[1] = d[1] /\ c[2] < d[2])

First == <<0, 0>>
Successor(c) == IF c[2] + 1 < NPieces(c[1]) THEN <<c[1], c[2] + 1>> ELSE <<c[1] + 1, 0>>

(* The two record types of the archive: TYPE_COMPRESS and TYPE_FINGERPRINT.   *)
Data(x) == [type |-> "data", of |-> x]
Fingerprint(x) == [type |-> "fingerprint", of |-> x]

IsRepetition(c) == \E d \in Chunks : Before(d, c) /\ ContentOf(d) = ContentOf(c)

Record(c) == IF IsRepetition(c) THEN Fingerprint(ContentOf(c)) ELSE Data(ContentOf(c))
=============================================================================
