-------------------------- MODULE MCRepositoryStore --------------------------
\* The instance that TLC checks: two storages, two requests; c is there for larger ones.
EXTENDS RepositoryStore, TLC

CONSTANTS a, b, c, r1, r2

Symmetry == Permutations(Storages) \union Permutations(Requests)
=============================================================================
