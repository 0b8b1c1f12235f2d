----------------------------- MODULE MCRateLimit -----------------------------
EXTENDS RateLimit, TLC

CONSTANTS a1, a2, a3

MCAddr   == {a1, a2, a3}
Symmetry == Permutations(MCAddr)
=============================================================================
