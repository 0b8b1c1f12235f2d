---------------------------- MODULE MCHandshake ----------------------------
(* Instances of Handshake for TLC: one client, with the connections it left *)
(* and the one it is on.                                                    *)
EXTENDS Handshake

CONSTANTS k1, c1, c2, c3, s1, s2, v1

OneClient   == {k1}
ThreeConns  == {c1, c2, c3}
TwoSessions == {s1, s2}
OneVisitor  == {v1}
=============================================================================
