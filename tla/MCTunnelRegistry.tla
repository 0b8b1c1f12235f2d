-------------------------- MODULE MCTunnelRegistry --------------------------
(* Three connections are enough for a session, its resume and a third       *)
(* party; c1 and c2 come from one address.                                  *)
EXTENDS TunnelRegistry, TLC

CONSTANTS c1, c2, c3, x1, x2

MCConn == {c1, c2, c3}
MCSub == {x1, x2}
MCSourceIP == [c \in MCConn |-> IF c = c3 THEN "home" ELSE "office"]
(* c1 and c2, and the two names, can be exchanged. *)
Symmetry == Permutations({c1, c2}) \union Permutations(MCSub)
MCOneIP == [c \in MCConn |-> "office"]
=============================================================================
