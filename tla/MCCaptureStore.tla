--------------------------- MODULE MCCaptureStore ---------------------------
(* Requests and replays of a session that has two tunnels in its life.      *)
EXTENDS CaptureStore

CONSTANTS p1, p2, r1, r2, t1, t2

MCRequest == {p1, p2}
MCReplay  == {r1, r2}
OneReplay == {r1}
MCTunnel  == {t1, t2}
=============================================================================
