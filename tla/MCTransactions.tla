--------------------------- MODULE MCTransactions ---------------------------
(* Model-checking instances of Transactions. *)
EXTENDS Transactions, TLC

CONSTANTS a, b, c1, c2, c3, v, w

\* Secondaries, calls and votes are interchangeable (not for liveness).
Symmetry ==
    Permutations(Secondaries) \union Permutations(Calls) \union Permutations(Votes)
=============================================================================
