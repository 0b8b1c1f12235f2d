-------------------------------- MODULE MCHub --------------------------------
(* Two dashboards of one session, and one of another.                       *)
EXTENDS Hub

CONSTANTS c1, c2, c3, s1, s2

MCClient    == {c1, c2, c3}
MCSession   == {s1, s2}
MCSessionOf == [c \in MCClient |-> IF c = c3 THEN s2 ELSE s1]
TwoClients  == {c1, c3}
TwoSessions == [c \in TwoClients |-> IF c = c3 THEN s2 ELSE s1]
=============================================================================
