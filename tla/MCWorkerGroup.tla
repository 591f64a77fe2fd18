--------------------------- MODULE MCWorkerGroup ---------------------------
(* Three workers.  One script draws tickets from both dispensers, one is what *)
(* CreateEdgeMap sends for one image.  A work unit of two rows leaves a rest  *)
(* of one, so that the last ticket is cut off.                                *)
EXTENDS WorkerGroup

CONSTANTS w1, w2, w3

MCScripts == {<<"GRADIENT", "FILTERROW", "FILTERCOLUMN">>,
              <<"PARTICLEWEIGHTS", "FILTERROW", "NEWPARTICLES">>}
MCTwoImages == {<<"GRADIENT", "FILTERROW", "FILTERCOLUMN", "GRADIENT">>}
MCWorkUnit == [c \in Commands |-> 2]
=============================================================================
