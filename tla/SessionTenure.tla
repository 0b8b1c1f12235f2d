---------------------------- MODULE SessionTenure ----------------------------
(***************************************************************************)
(* What the tunnel registry promises, without locks, rows, tokens or time: *)
(* a session is served by one connection at a time.  A connection serves   *)
(* once: when it has lost the session, by a newer connection, a hang-up or *)
(* a restart, it never serves again.  A revoked session is only released.  *)
(***************************************************************************)
CONSTANTS Session, Connection, None

VARIABLES
  owner,    \* the connection that serves each session
  spent,    \* the connections that serve or have served
  revoked   \* the sessions that were revoked

vars == <<owner, spent, revoked>>

Init == /\ owner = [s \in Session |-> None]
        /\ spent = {}
        /\ revoked = {}

Serve(s, c) == /\ s \notin revoked
               /\ c \notin spent
               /\ owner' = [owner EXCEPT ![s] = c]
               /\ spent' = spent \union {c}
               /\ UNCHANGED revoked

Release(s) == /\ owner' = [owner EXCEPT ![s] = None]
              /\ UNCHANGED <<spent, revoked>>

Revoke(s) == /\ revoked' = revoked \union {s}
             /\ UNCHANGED <<owner, spent>>

Restart == /\ owner' = [s \in Session |-> None]
           /\ UNCHANGED <<spent, revoked>>

Next == \/ \E s \in Session : \/ Release(s) \/ Revoke(s)
                              \/ \E c \in Connection : Serve(s, c)
        \/ Restart

Spec == Init /\ [][Next]_vars
=============================================================================
