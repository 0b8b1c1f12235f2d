--------------------------- MODULE MCHostedAccess ---------------------------
(* Instances of HostedAccess for TLC.                                       *)
EXTENDS HostedAccess, TLC

CONSTANTS s1, s2, b1, b2, o1, o2

TwoSessions  == {s1, s2}
TwoBrowsers  == {b1, b2}
TwoOperators == {o1, o2}

Same == Permutations(TwoSessions) \union Permutations(TwoBrowsers)
          \union Permutations(TwoOperators)
=============================================================================
