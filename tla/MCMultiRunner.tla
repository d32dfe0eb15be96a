---------------------------- MODULE MCMultiRunner ----------------------------
(* Model-checking instances of MultiRunner. *)
EXTENDS MultiRunner, TLC

CONSTANTS w1, w2, w3

TwoWorkers == {w1, w2}
ThreeWorkers == {w1, w2, w3}
Symmetry == Permutations(Workers)

\* The first runner has a limit, the second one has none.
OneLimited == {<<1, 0>>}
LimitedToOne == {<<1>>}
LimitedToOneOrTwo == {<<1>>, <<2>>}

=============================================================================
