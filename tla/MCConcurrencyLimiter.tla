------------------------- MODULE MCConcurrencyLimiter -------------------------
\* The instance that TLC checks: four or more callers of two keys.
EXTENDS ConcurrencyLimiter

CONSTANTS c1, c2, c3, c4, k1, k2
=============================================================================
