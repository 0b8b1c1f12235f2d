---------------------------- MODULE MCForwarding ----------------------------
(* Three requests, one of them a replay, on one tunnel.                     *)
EXTENDS Forwarding

CONSTANTS h1, h2, h3, t1

MCHandler == {h1, h2, h3}
MCReplay  == {h3}
=============================================================================
