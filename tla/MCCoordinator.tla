--------------------------- MODULE MCCoordinator ----------------------------
(* Model-checking instances of Coordinator. *)
EXTENDS Coordinator, TLC

CONSTANTS a, b, t, c1, c2, c3, v, w, eof, reset

\* Secondaries, calls, votes and messages are interchangeable (not for liveness).
Symmetry ==
    Permutations(Secondaries) \union Permutations(Calls) \union
    Permutations(Votes) \union Permutations(LostMessages)
=============================================================================
