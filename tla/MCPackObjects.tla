---------------------------- MODULE MCPackObjects ----------------------------
\* The instance that TLC checks: two requests for packs of one repository.
EXTENDS PackObjects

CONSTANTS r1, r2, k1, k2, repository

\* For the same pack or for different ones; other assignments rename the keys.
MCAsked == {[r \in Requests |-> k1], [r \in Requests |-> IF r = r1 THEN k1 ELSE k2]}

MCLimitingKeyOf == [k \in Keys |-> repository]
=============================================================================
