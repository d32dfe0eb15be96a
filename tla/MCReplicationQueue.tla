------------------------- MODULE MCReplicationQueue -------------------------
(* Model-checking instances of ReplicationQueue. *)
EXTENDS ReplicationQueue, TLC

CONSTANTS l1, l2, s1, s2, w1, w2

\* Sources and workers are interchangeable (not for liveness).
Symmetry == Permutations(Sources) \union Permutations(Workers)
=============================================================================
