------------------------ MODULE TunnelRegistryProofs ------------------------
(***************************************************************************)
(* Proofs about TunnelRegistry, for every set of connections, every limit  *)
(* and every length of the periods.                                        *)
(*                                                                         *)
(* None of the safety properties is inductive by itself.  The chain of     *)
(* invariants below says, in this order: who may be inside Register, which *)
(* session IDs exist, who owns a session, that a session has one identity  *)
(* everywhere, that names are not shared, and where tokens are.            *)
(***************************************************************************)
EXTENDS TunnelRegistry, TLAPS, FiniteSetTheorems

Naming == {"upsert", "install"}               \* holds a resolved session
Named  == Naming \union Installed
Bound  == {"install"} \union Installed        \* has written its row
Past   == {"refused"} \union Bound            \* will never write its own row

NameInv == \A c \in Conn : stage[c] \in Named => session[c].sub \in Sub

MutexInv ==
  /\ \A c, d \in Conn :
       stage[c] \in InRegister /\ stage[d] \in InRegister => c = d
  /\ revoking # None => \A c \in Conn : stage[c] \notin InRegister

BornInv ==
  /\ \A s \in Conn : row[s] # NoRow => stage[s] \in Past
  /\ \A c \in Conn : session[c].id # c => stage[session[c].id] \in Past
  /\ \A c \in Conn : IsNew(c) => session[c].id = c
  /\ \A c \in Conn : stage[c] = "fresh" => IsNew(c)
  /\ \A c \in Conn : ~IsNew(c) => session[c].id # c

OwnerInv ==
  \A s \in Conn : bySession[s] # None =>
    stage[bySession[s]] = "live" /\ session[bySession[s]].id = s

IdentityInv ==
  /\ \A c, d \in Conn :
       /\ stage[c] \in Named /\ stage[d] \in Named
       /\ session[c].id = session[d].id
       => session[c] = session[d]
  /\ \A c \in Conn :
       stage[c] \in Named /\ row[session[c].id] # NoRow
       => /\ row[session[c].id].sub = session[c].sub
          /\ row[session[c].id].started = session[c].startedAt

NamesInv ==
  /\ \A s, t \in Conn :
       row[s] # NoRow /\ row[t] # NoRow /\ row[s].sub = row[t].sub => s = t
  /\ \A c, s \in Conn :
       stage[c] \in Naming /\ row[s] # NoRow /\ row[s].sub = session[c].sub
       => s = session[c].id
  /\ \A s \in Conn :
       row[s] # NoRow /\ tunnels[row[s].sub] # None
       => session[tunnels[row[s].sub]].id = s
  /\ \A c \in Conn :
       stage[c] \in Naming /\ tunnels[session[c].sub] # None
       => session[tunnels[session[c].sub]].id = session[c].id

TokenInv ==
  /\ \A s \in Conn :
       row[s] # NoRow /\ row[s].token \in Conn
       => session[row[s].token].id = s /\ stage[row[s].token] \in Past
  /\ \A c \in Conn :
       stage[c] = "install" /\ row[session[c].id] # NoRow
       => row[session[c].id].token = c
  /\ \A c \in Conn :
       ~IsNew(c) => /\ stage[presented[c]] \in Installed
                    /\ session[presented[c]].id = session[c].id

SpentInv ==
  /\ \A c, s \in Conn :
       stage[c] \in Bound /\ ~IsNew(c) /\ row[s] # NoRow
       => row[s].token # presented[c]
  /\ \A c, d \in Conn :
       /\ stage[c] \in Bound /\ ~IsNew(c) /\ presented[c] = presented[d]
       /\ stage[d] \in InRegister \union Installed
       => c = d

RevokedInv ==
  /\ \A s \in revoked : stage[s] \in Past
  /\ \A c \in Conn : stage[c] \in InRegister => session[c].id \notin revoked
  /\ RevokedNotServed

IInv == /\ TypeOK /\ NameInv /\ MutexInv /\ BornInv /\ OwnerInv
        /\ IdentityInv /\ NamesInv /\ RoutingConsistent /\ OneOpenTunnel
        /\ TokenInv /\ SpentInv /\ RevokedInv

-----------------------------------------------------------------------------

(* EndSession and the clean-up at the start change only ended_at.           *)
LEMMA EndedRow ==
  ASSUME TypeOK, NEW s \in Conn
  PROVE  /\ Ended(s) \in Row \union {NoRow}
         /\ Ended(s) = NoRow <=> row[s] = NoRow
         /\ row[s] # NoRow =>
              /\ Ended(s).sub = row[s].sub /\ Ended(s).token = row[s].token
              /\ Ended(s).started = row[s].started /\ Ended(s).ended = now
<1>1. CASE row[s] = NoRow
  BY <1>1 DEF TypeOK, Ended
<1>2. CASE row[s] # NoRow
  <2>1. row[s] \in Row
    BY <1>2 DEF TypeOK
  <2>2. Ended(s) = [row[s] EXCEPT !.ended = now]
    BY <1>2 DEF Ended
  <2>3. Ended(s) \in Row /\ Ended(s).ended = now
    BY <2>1, <2>2 DEF TypeOK, Row
  <2> QED
    BY <1>2, <2>1, <2>2, <2>3, RegistryAssumption DEF Row
<1> QED
  BY <1>1, <1>2

(* What the other parts of the proof need of EndSession and RevokeRow.      *)
LEMMA EndSessionRow ==
  ASSUME TypeOK, NEW c \in Conn, EndSession(c)
  PROVE  /\ row' \in [Conn -> Row \union {NoRow}]
         /\ \A s \in Conn :
              /\ row'[s] = NoRow <=> row[s] = NoRow
              /\ s # session[c].id => row'[s] = row[s]
              /\ row[s] # NoRow =>
                   /\ row'[s].sub = row[s].sub /\ row'[s].token = row[s].token
                   /\ row'[s].started = row[s].started
                   /\ ~DBFaults /\ s = session[c].id => row'[s].ended = now
         /\ stage' = [stage EXCEPT ![c] = "gone"]
<1>1. session[c].id \in Conn
  BY DEF TypeOK
<1>2. row \in [Conn -> Row \union {NoRow}]
  BY DEF TypeOK
<1>3. /\ \/ row' = [row EXCEPT ![session[c].id] = Ended(session[c].id)]
         \/ DBFaults /\ UNCHANGED row
      /\ stage' = [stage EXCEPT ![c] = "gone"]
  BY DEF EndSession
<1> QED
  BY <1>1, <1>2, <1>3, EndedRow

LEMMA RevokeRowRow ==
  ASSUME TypeOK, NEW s \in Conn, RevokeRow(s)
  PROVE  /\ row' \in [Conn -> Row \union {NoRow}]
         /\ \A t \in Conn :
              /\ row'[t] = NoRow <=> row[t] = NoRow
              /\ t # s => row'[t] = row[t]
              /\ row[t] # NoRow => /\ row'[t].sub = row[t].sub
                                   /\ row'[t].started = row[t].started
         /\ row'[s].token = NoToken /\ row'[s].ended \in Nat
<1>1. row \in [Conn -> Row \union {NoRow}] /\ now \in Nat
  BY DEF TypeOK
<1>2. row[s] # NoRow /\ row' = [row EXCEPT ![s] = RevokedRow(s)]
  BY DEF RevokeRow
<1>3. row[s] \in Row
  BY <1>1, <1>2
<1>4. /\ RevokedRow(s) \in Row
      /\ RevokedRow(s).token = NoToken /\ RevokedRow(s).ended \in Nat
      /\ RevokedRow(s).sub = row[s].sub /\ RevokedRow(s).started = row[s].started
  BY <1>1, <1>3 DEF RevokedRow, Row
<1> QED
  BY <1>1, <1>2, <1>4, RegistryAssumption

(* All that a step of the retention loop does to the registry: it closes    *)
(* connections or deletes rows.                                             *)
LEMMA RetentionOnly ==
  ASSUME TypeOK, RetentionStep
  PROVE  /\ UNCHANGED <<up, now, tunnels, bySession, stage, session, presented,
                        revoking, revoked>>
         /\ row' \in [Conn -> Row \union {NoRow}]
         /\ \A s \in Conn : row'[s] \in {row[s], NoRow}
         /\ open' \in [Conn -> BOOLEAN]
         /\ \A c \in Conn : open'[c] => open[c]
         /\ round' \in {"read", "list", "close", "prune"}
         /\ clock' \in Nat
         /\ expired' \subseteq Conn
<1> USE DEF TypeOK, registry
<1>1. CASE ReadTime \/ ListExpired \/ ReadCutoff
  BY <1>1 DEF ReadTime, ListExpired, ReadCutoff
<1>2. ASSUME NEW c \in Conn, CloseExpired(c)
      PROVE  /\ UNCHANGED <<up, now, row, tunnels, bySession, stage, session,
                            presented, revoking, revoked, round, clock>>
             /\ open' \in [Conn -> BOOLEAN]
             /\ \A d \in Conn : open'[d] => open[d]
             /\ expired' \subseteq Conn
  BY <1>2 DEF CloseExpired, Closed
<1>3. CASE Prune
  BY <1>3 DEF Prune
<1> QED
  BY <1>1, <1>2, <1>3 DEF RetentionStep

(* Types are kept; only UpsertSession needs to know that the session it     *)
(* stores was given a name.                                                 *)
LEMMA TypeOKStep == IInv /\ [Next]_vars => TypeOK'
<1> SUFFICES ASSUME IInv, [Next]_vars PROVE TypeOK'
  OBVIOUS
<1> USE RegistryAssumption
  DEF IInv, TypeOK, Row, Stages, InRegister, Installed,
  Naming, Named, Bound, Past, IsNew, RevokedNotServed, NameInv, retention
<1>1. ASSUME NEW c \in Conn, AdmitNew(c) PROVE TypeOK'
  BY <1>1 DEF AdmitNew
<1>2. ASSUME NEW c \in Conn, Refuse(c) PROVE TypeOK'
  BY <1>2 DEF Refuse
<1>3. ASSUME NEW c \in Conn, NEW s \in Conn, NEW t \in Conn,
             AdmitResume(c, s, t)
      PROVE TypeOK'
  BY <1>3 DEF AdmitResume, Claimed, ValidateResume
<1>4. ASSUME NEW c \in Conn, ResolveNew(c) PROVE TypeOK'
  BY <1>4 DEF ResolveNew, Drawn
<1>5. ASSUME NEW c \in Conn, ResolveResume(c) PROVE TypeOK'
  BY <1>5 DEF ResolveResume, Resumed
<1>6. ASSUME NEW c \in Conn, Upsert(c) PROVE TypeOK'
  BY <1>6 DEF Upsert, Stored
<1>7. ASSUME NEW c \in Conn, RegisterFail(c) PROVE TypeOK'
  BY <1>7 DEF RegisterFail, MayFail
<1>8. ASSUME NEW c \in Conn, Install(c) PROVE TypeOK'
  BY <1>8 DEF Install, Closed
<1>9. ASSUME NEW c \in Conn, PeerClose(c) PROVE TypeOK'
  BY <1>9 DEF PeerClose
<1>10. ASSUME NEW c \in Conn, RemoveTunnel(c) PROVE TypeOK'
  BY <1>10 DEF RemoveTunnel, Unrouted, StillOwner
<1>11. ASSUME NEW c \in Conn, EndSession(c) PROVE TypeOK'
  <2>1. row' \in [Conn -> Row \union {NoRow}]
    BY <1>11, EndSessionRow
  <2> QED
    BY <1>11, <2>1 DEF EndSession
<1>12. ASSUME NEW c \in Conn, RevokeRow(c) PROVE TypeOK'
  <2>1. row' \in [Conn -> Row \union {NoRow}]
    BY <1>12, RevokeRowRow
  <2> QED
    BY <1>12, <2>1 DEF RevokeRow
<1>13. ASSUME RevokeClose PROVE TypeOK'
  BY <1>13 DEF RevokeClose, Closed
<1>14. ASSUME RetentionStep PROVE TypeOK'
  BY <1>14, RetentionOnly
<1>15. ASSUME Crash PROVE TypeOK'
  BY <1>15 DEF Crash
<1>16. ASSUME Start PROVE TypeOK'
  BY <1>16, EndedRow DEF Start, OrphanEnded
<1>17. ASSUME Tick PROVE TypeOK'
  BY <1>17 DEF Tick
<1>18. ASSUME UNCHANGED vars PROVE TypeOK'
  BY <1>18 DEF vars, registry, retention
<1> QED
  BY <1>1, <1>2, <1>3, <1>4, <1>5, <1>6, <1>7, <1>8, <1>9, <1>10, <1>11,
     <1>12, <1>13, <1>14, <1>15, <1>16, <1>17, <1>18
  DEF Next

(* A registration past resolveSession holds a name.                         *)
LEMMA NameInvStep == IInv /\ [Next]_vars => NameInv'
<1> SUFFICES ASSUME IInv, [Next]_vars PROVE NameInv'
  OBVIOUS
<1> USE RegistryAssumption
  DEF IInv, TypeOK, Row, Stages, InRegister, Installed,
  Naming, Named, Bound, Past, IsNew, RevokedNotServed, NameInv
<1>1. ASSUME NEW c \in Conn, NEW s \in Conn, NEW t \in Conn,
             AdmitResume(c, s, t)
      PROVE NameInv'
  BY <1>1 DEF AdmitResume, Claimed, ValidateResume
<1>2. ASSUME NEW c \in Conn, ResolveNew(c) PROVE NameInv'
  BY <1>2 DEF ResolveNew, Drawn
<1>3. ASSUME NEW c \in Conn, ResolveResume(c) PROVE NameInv'
  BY <1>3 DEF ResolveResume, Resumed
<1>4. ASSUME NEW c \in Conn,
             \/ AdmitNew(c) \/ Refuse(c) \/ Upsert(c) \/ RegisterFail(c)
             \/ Install(c) \/ PeerClose(c) \/ RemoveTunnel(c) \/ EndSession(c)
             \/ RevokeRow(c)
      PROVE  NameInv'
  BY <1>4 DEF AdmitNew, Refuse, Upsert, Stored, RegisterFail, MayFail,
     Install, Closed, PeerClose, RemoveTunnel, Unrouted, StillOwner,
     EndSession, RevokeRow, RevokedRow
<1>5. CASE RevokeClose \/ RetentionStep \/ Crash \/ Start \/ Tick
          \/ UNCHANGED vars
  BY <1>5, RetentionOnly DEF RevokeClose, Closed, Crash, Start,
     OrphanEnded, Tick, vars, registry
<1> QED
  BY <1>1, <1>2, <1>3, <1>4, <1>5 DEF Next

(* registerMu: Register and revokeHosted exclude each other and themselves. *)
LEMMA MutexInvStep == IInv /\ [Next]_vars => MutexInv'
<1> SUFFICES ASSUME IInv, [Next]_vars PROVE MutexInv'
  OBVIOUS
<1> USE RegistryAssumption
  DEF IInv, TypeOK, Row, Stages, InRegister, Installed,
  Naming, Named, Bound, Past, IsNew, RevokedNotServed, MutexInv
<1>1. ASSUME NEW c \in Conn, AdmitNew(c) PROVE MutexInv'
  BY <1>1 DEF AdmitNew, RegisterMuFree
<1>2. ASSUME NEW c \in Conn, NEW s \in Conn, NEW t \in Conn,
             AdmitResume(c, s, t)
      PROVE MutexInv'
  BY <1>2 DEF AdmitResume, Claimed, ValidateResume, RegisterMuFree
<1>3. ASSUME NEW c \in Conn, RemoveTunnel(c) PROVE MutexInv'
  <2>1. CASE StillOwner(c)
    BY <1>3, <2>1 DEF RemoveTunnel, Unrouted, StillOwner
  <2>2. CASE ~StillOwner(c)
    BY <1>3, <2>2 DEF RemoveTunnel
  <2> QED
    BY <2>1, <2>2
<1>4. ASSUME NEW c \in Conn, RevokeRow(c) PROVE MutexInv'
  BY <1>4 DEF RevokeRow, RevokedRow, RegisterMuFree
<1>5. ASSUME NEW c \in Conn,
             \/ Refuse(c) \/ ResolveNew(c) \/ ResolveResume(c) \/ Upsert(c)
             \/ RegisterFail(c) \/ Install(c) \/ PeerClose(c) \/ EndSession(c)
      PROVE  MutexInv'
  BY <1>5 DEF Refuse, ResolveNew, Drawn, ResolveResume, Resumed, Upsert,
     Stored, RegisterFail, MayFail, Install, Closed, PeerClose, EndSession
<1>6. CASE RevokeClose \/ RetentionStep \/ Crash \/ Start \/ Tick
          \/ UNCHANGED vars
  BY <1>6, RetentionOnly DEF RevokeClose, Closed, Crash, Start,
     OrphanEnded, Tick, vars, registry
<1> QED
  BY <1>1, <1>2, <1>3, <1>4, <1>5, <1>6 DEF Next

(* A session ID exists only once its first registration has written the row *)
(* or has given up, so a resume never meets an ID that is still to be       *)
(* drawn.                                                                   *)
LEMMA BornInvStep == IInv /\ [Next]_vars => BornInv'
<1> SUFFICES ASSUME IInv, [Next]_vars PROVE BornInv'
  OBVIOUS
<1> USE RegistryAssumption
  DEF IInv, TypeOK, Row, Stages, InRegister, Installed,
  Naming, Named, Bound, Past, IsNew, RevokedNotServed, MutexInv, BornInv
<1>1. ASSUME NEW c \in Conn, NEW s \in Conn, NEW t \in Conn,
             AdmitResume(c, s, t)
      PROVE BornInv'
  BY <1>1 DEF AdmitResume, Claimed, ValidateResume
<1>2. ASSUME NEW c \in Conn, ResolveNew(c) PROVE BornInv'
  BY <1>2 DEF ResolveNew, Drawn
<1>3. ASSUME NEW c \in Conn, ResolveResume(c) PROVE BornInv'
  BY <1>3 DEF ResolveResume, Resumed
<1>4. ASSUME NEW c \in Conn, Upsert(c) PROVE BornInv'
  BY <1>4 DEF Upsert, Stored
<1>5. ASSUME NEW c \in Conn, EndSession(c) PROVE BornInv'
  BY <1>5, EndedRow DEF EndSession
<1>6. ASSUME Start PROVE BornInv'
  BY <1>6, EndedRow DEF Start, OrphanEnded
<1>7. ASSUME NEW c \in Conn,
             \/ AdmitNew(c) \/ Refuse(c) \/ RegisterFail(c) \/ Install(c)
             \/ PeerClose(c) \/ RemoveTunnel(c) \/ RevokeRow(c)
      PROVE  BornInv'
  <2>1. CASE RevokeRow(c)
    BY <2>1, RevokeRowRow DEF RevokeRow
  <2>2. CASE ~RevokeRow(c)
    <3>1. /\ UNCHANGED <<row, session, presented>>
          /\ \A d \in Conn : /\ stage[d] \in Past => stage'[d] \in Past
                             /\ stage'[d] = "fresh" => stage[d] = "fresh"
      BY <1>7, <2>2 DEF AdmitNew, Refuse, RegisterFail, MayFail, Install,
         PeerClose, RemoveTunnel
    <3> QED
      BY <3>1
  <2> QED
    BY <2>1, <2>2
<1>8. CASE RevokeClose \/ RetentionStep \/ Crash \/ Tick
          \/ UNCHANGED vars
  BY <1>8, RetentionOnly DEF RevokeClose, Closed, Crash, Tick, vars, registry
<1> QED
  BY <1>1, <1>2, <1>3, <1>4, <1>5, <1>6, <1>7, <1>8 DEF Next

(* An owner is a tunnel of that session whose readLoop runs.                *)
LEMMA OwnerInvStep == IInv /\ [Next]_vars => OwnerInv'
<1> SUFFICES ASSUME IInv, [Next]_vars PROVE OwnerInv'
  OBVIOUS
<1> USE RegistryAssumption
  DEF IInv, TypeOK, Row, Stages, InRegister, Installed,
  Naming, Named, Bound, Past, IsNew, RevokedNotServed, OwnerInv
<1>1. ASSUME NEW c \in Conn, NEW s \in Conn, NEW t \in Conn,
             AdmitResume(c, s, t)
      PROVE OwnerInv'
  BY <1>1 DEF AdmitResume, Claimed, ValidateResume
<1>2. ASSUME NEW c \in Conn, ResolveNew(c) PROVE OwnerInv'
  BY <1>2 DEF ResolveNew, Drawn
<1>3. ASSUME NEW c \in Conn, ResolveResume(c) PROVE OwnerInv'
  BY <1>3 DEF ResolveResume, Resumed
<1>4. ASSUME NEW c \in Conn, Install(c) PROVE OwnerInv'
  BY <1>4 DEF Install, Closed
<1>5. ASSUME NEW c \in Conn, RemoveTunnel(c) PROVE OwnerInv'
  BY <1>5 DEF RemoveTunnel, Unrouted, StillOwner
<1>6. ASSUME Crash PROVE OwnerInv'
  BY <1>6 DEF Crash
<1>7. ASSUME NEW c \in Conn,
             \/ AdmitNew(c) \/ Refuse(c) \/ Upsert(c) \/ RegisterFail(c)
             \/ PeerClose(c) \/ EndSession(c) \/ RevokeRow(c)
      PROVE  OwnerInv'
  BY <1>7 DEF AdmitNew, Refuse, Upsert, Stored, RegisterFail, MayFail,
     PeerClose, EndSession, RevokeRow, RevokedRow
<1>8. CASE RevokeClose \/ RetentionStep \/ Start \/ Tick
          \/ UNCHANGED vars
  BY <1>8, RetentionOnly DEF RevokeClose, Closed, Start,
     OrphanEnded, Tick, vars, registry
<1> QED
  BY <1>1, <1>2, <1>3, <1>4, <1>5, <1>6, <1>7, <1>8 DEF Next

(* All registrations of a session, and its row, agree on name and start.    *)
LEMMA IdentityInvStep == IInv /\ [Next]_vars => IdentityInv'
<1> SUFFICES ASSUME IInv, [Next]_vars PROVE IdentityInv'
  OBVIOUS
<1> USE RegistryAssumption
  DEF IInv, TypeOK, Row, Stages, InRegister, Installed,
  Naming, Named, Bound, Past, IsNew, RevokedNotServed, NameInv, MutexInv,
  BornInv, IdentityInv
<1>1. ASSUME NEW c \in Conn, NEW s \in Conn, NEW t \in Conn,
             AdmitResume(c, s, t)
      PROVE IdentityInv'
  BY <1>1 DEF AdmitResume, Claimed, ValidateResume
<1>2. ASSUME NEW c \in Conn, ResolveNew(c) PROVE IdentityInv'
  BY <1>2 DEF ResolveNew, Drawn
<1>3. ASSUME NEW c \in Conn, ResolveResume(c) PROVE IdentityInv'
  BY <1>3 DEF ResolveResume, Resumed
<1>4. ASSUME NEW c \in Conn, Upsert(c) PROVE IdentityInv'
  BY <1>4 DEF Upsert, Stored
<1>5. ASSUME NEW c \in Conn, EndSession(c) PROVE IdentityInv'
  BY <1>5, EndedRow DEF EndSession
<1>6. ASSUME NEW c \in Conn, RevokeRow(c) PROVE IdentityInv'
  BY <1>6 DEF RevokeRow, RevokedRow
<1>7. ASSUME Start PROVE IdentityInv'
  BY <1>7, EndedRow DEF Start, OrphanEnded
<1>8. ASSUME NEW c \in Conn,
             \/ AdmitNew(c) \/ Refuse(c) \/ RegisterFail(c) \/ Install(c)
             \/ PeerClose(c) \/ RemoveTunnel(c)
      PROVE  IdentityInv'
  BY <1>8 DEF AdmitNew, Refuse, RegisterFail, MayFail, Install, Closed,
     PeerClose, RemoveTunnel, Unrouted, StillOwner
<1>9. CASE RevokeClose \/ RetentionStep \/ Crash \/ Tick
          \/ UNCHANGED vars
  BY <1>9, RetentionOnly DEF RevokeClose, Closed, Crash, Tick, vars, registry
<1> QED
  BY <1>1, <1>2, <1>3, <1>4, <1>5, <1>6, <1>7, <1>8, <1>9 DEF Next

(* Two sessions never share a name: not in the table, not in a registration *)
(* under way, not in the routing map.                                       *)
LEMMA NamesInvStep == IInv /\ [Next]_vars => NamesInv'
<1> SUFFICES ASSUME IInv, [Next]_vars PROVE NamesInv'
  OBVIOUS
<1> USE RegistryAssumption
  DEF IInv, TypeOK, Row, Stages, InRegister, Installed,
  Naming, Named, Bound, Past, IsNew, RevokedNotServed, NameInv, MutexInv,
  BornInv, OwnerInv, IdentityInv, RoutingConsistent, NamesInv
<1>1. ASSUME NEW c \in Conn, NEW s \in Conn, NEW t \in Conn,
             AdmitResume(c, s, t)
      PROVE NamesInv'
  BY <1>1 DEF AdmitResume, Claimed, ValidateResume
<1>2. ASSUME NEW c \in Conn, ResolveNew(c) PROVE NamesInv'
  BY <1>2 DEF ResolveNew, Drawn, SubdomainExists
<1>3. ASSUME NEW c \in Conn, ResolveResume(c) PROVE NamesInv'
  <2>1. /\ row[session[c].id] # NoRow
        /\ session'[c].id = session[c].id
        /\ session'[c].sub = row[session[c].id].sub
        /\ \A d \in Conn \ {c} : session'[d] = session[d]
        /\ \A d \in Conn : session'[d].id = session[d].id
        /\ stage' = [stage EXCEPT ![c] = "upsert"]
        /\ UNCHANGED <<row, tunnels>>
    BY <1>3 DEF ResolveResume, Resumed
  <2>2. /\ \A s, t \in Conn :
             row'[s] # NoRow /\ row'[t] # NoRow /\ row'[s].sub = row'[t].sub => s = t
        /\ \A s \in Conn :
             row'[s] # NoRow /\ tunnels'[row'[s].sub] # None
             => session'[tunnels'[row'[s].sub]].id = s
    BY <2>1
  <2>3. ASSUME NEW d \in Conn, stage'[d] \in Naming
        PROVE  /\ \A s \in Conn : row'[s] # NoRow /\ row'[s].sub = session'[d].sub
                                   => s = session'[d].id
               /\ tunnels'[session'[d].sub] # None
                  => session'[tunnels'[session'[d].sub]].id = session'[d].id
    <3>1. CASE d = c
      BY <2>1, <3>1
    <3>2. CASE d # c
      BY <2>1, <2>3, <3>2
    <3> QED
      BY <3>1, <3>2
  <2> QED
    BY <2>2, <2>3
<1>4. ASSUME NEW c \in Conn, Upsert(c) PROVE NamesInv'
  BY <1>4 DEF Upsert, Stored
<1>5. ASSUME NEW c \in Conn, Install(c) PROVE NamesInv'
  BY <1>5 DEF Install, Closed
<1>6. ASSUME NEW c \in Conn, RemoveTunnel(c) PROVE NamesInv'
  <2>1. \A x \in Sub : tunnels'[x] \in {tunnels[x], None}
    BY <1>6 DEF RemoveTunnel, Unrouted
  <2>2. /\ UNCHANGED <<row, session>>
        /\ \A d \in Conn : stage'[d] \in Naming <=> stage[d] \in Naming
    BY <1>6 DEF RemoveTunnel
  <2>3. \A s \in Conn : row[s] # NoRow => row[s].sub \in Sub
    OBVIOUS
  <2> QED
    BY <2>1, <2>2, <2>3
<1>7. ASSUME NEW c \in Conn, EndSession(c) PROVE NamesInv'
  <2>1. \A s \in Conn : /\ row'[s] = NoRow <=> row[s] = NoRow
                        /\ row[s] # NoRow => row'[s].sub = row[s].sub
    BY <1>7, EndedRow DEF EndSession
  <2>2. /\ UNCHANGED <<tunnels, session>>
        /\ \A d \in Conn : stage'[d] \in Naming <=> stage[d] \in Naming
    BY <1>7 DEF EndSession
  <2> QED
    BY <2>1, <2>2
<1>8. ASSUME NEW c \in Conn, RevokeRow(c) PROVE NamesInv'
  BY <1>8 DEF RevokeRow, RevokedRow
<1>9. ASSUME Start PROVE NamesInv'
  BY <1>9, EndedRow DEF Start, OrphanEnded
<1>10. ASSUME NEW c \in Conn,
             \/ AdmitNew(c) \/ Refuse(c) \/ RegisterFail(c) \/ PeerClose(c)
      PROVE  NamesInv'
  BY <1>10 DEF AdmitNew, Refuse, RegisterFail, MayFail, PeerClose
<1>11. CASE RevokeClose \/ RetentionStep \/ Crash \/ Tick
          \/ UNCHANGED vars
  BY <1>11, RetentionOnly DEF RevokeClose, Closed, Crash, Tick,
     vars, registry
<1> QED
  BY <1>1, <1>2, <1>3, <1>4, <1>5, <1>6, <1>7, <1>8, <1>9, <1>10, <1>11 DEF
     Next

(* The maps stay consistent because a replaced tunnel has the same name.    *)
LEMMA RoutingConsistentStep == IInv /\ [Next]_vars => RoutingConsistent'
<1> SUFFICES ASSUME IInv, [Next]_vars PROVE RoutingConsistent'
  OBVIOUS
<1> USE RegistryAssumption
  DEF IInv, TypeOK, Row, Stages, InRegister, Installed,
  Naming, Named, Bound, Past, IsNew, RevokedNotServed, NameInv, MutexInv,
  OwnerInv, IdentityInv, NamesInv, RoutingConsistent
<1>1. ASSUME NEW c \in Conn, NEW s \in Conn, NEW t \in Conn,
             AdmitResume(c, s, t)
      PROVE RoutingConsistent'
  BY <1>1 DEF AdmitResume, Claimed, ValidateResume
<1>2. ASSUME NEW c \in Conn, ResolveNew(c) PROVE RoutingConsistent'
  BY <1>2 DEF ResolveNew, Drawn
<1>3. ASSUME NEW c \in Conn, ResolveResume(c) PROVE RoutingConsistent'
  BY <1>3 DEF ResolveResume, Resumed
<1>4. ASSUME NEW c \in Conn, Install(c) PROVE RoutingConsistent'
  BY <1>4 DEF Install, Closed
<1>5. ASSUME NEW c \in Conn, RemoveTunnel(c) PROVE RoutingConsistent'
  BY <1>5 DEF RemoveTunnel, Unrouted, StillOwner
<1>6. ASSUME Crash PROVE RoutingConsistent'
  BY <1>6 DEF Crash
<1>7. ASSUME NEW c \in Conn,
             \/ AdmitNew(c) \/ Refuse(c) \/ Upsert(c) \/ RegisterFail(c)
             \/ PeerClose(c) \/ EndSession(c) \/ RevokeRow(c)
      PROVE  RoutingConsistent'
  BY <1>7 DEF AdmitNew, Refuse, Upsert, Stored, RegisterFail, MayFail,
     PeerClose, EndSession, RevokeRow, RevokedRow
<1>8. CASE RevokeClose \/ RetentionStep \/ Start \/ Tick
          \/ UNCHANGED vars
  BY <1>8, RetentionOnly DEF RevokeClose, Closed, Start,
     OrphanEnded, Tick, vars, registry
<1> QED
  BY <1>1, <1>2, <1>3, <1>4, <1>5, <1>6, <1>7, <1>8 DEF Next

(* installTunnel closes what it replaces; removeTunnel needs a dead         *)
(* connection.                                                              *)
LEMMA OneOpenTunnelStep == IInv /\ [Next]_vars => OneOpenTunnel'
<1> SUFFICES ASSUME IInv, [Next]_vars PROVE OneOpenTunnel'
  OBVIOUS
<1> USE RegistryAssumption
  DEF IInv, TypeOK, Row, Stages, InRegister, Installed,
  Naming, Named, Bound, Past, IsNew, RevokedNotServed, OwnerInv, OneOpenTunnel
<1>1. ASSUME NEW c \in Conn, NEW s \in Conn, NEW t \in Conn,
             AdmitResume(c, s, t)
      PROVE OneOpenTunnel'
  BY <1>1 DEF AdmitResume, Claimed, ValidateResume
<1>2. ASSUME NEW c \in Conn, ResolveNew(c) PROVE OneOpenTunnel'
  BY <1>2 DEF ResolveNew, Drawn
<1>3. ASSUME NEW c \in Conn, ResolveResume(c) PROVE OneOpenTunnel'
  BY <1>3 DEF ResolveResume, Resumed
<1>4. ASSUME NEW c \in Conn, Install(c) PROVE OneOpenTunnel'
  BY <1>4 DEF Install, Closed
<1>5. ASSUME NEW c \in Conn, RemoveTunnel(c) PROVE OneOpenTunnel'
  BY <1>5 DEF RemoveTunnel, Unrouted, StillOwner
<1>6. ASSUME RevokeClose PROVE OneOpenTunnel'
  BY <1>6 DEF RevokeClose, Closed
<1>7. ASSUME NEW c \in Conn,
             \/ AdmitNew(c) \/ Refuse(c) \/ Upsert(c) \/ RegisterFail(c)
             \/ PeerClose(c) \/ EndSession(c) \/ RevokeRow(c)
      PROVE  OneOpenTunnel'
  BY <1>7 DEF AdmitNew, Refuse, Upsert, Stored, RegisterFail, MayFail,
     PeerClose, EndSession, RevokeRow, RevokedRow
<1>8. CASE RetentionStep \/ Crash \/ Start \/ Tick
          \/ UNCHANGED vars
  BY <1>8, RetentionOnly DEF Crash, Start, OrphanEnded, Tick, vars, registry
<1> QED
  BY <1>1, <1>2, <1>3, <1>4, <1>5, <1>6, <1>7, <1>8 DEF Next

(* Where the tokens are: a stored token was drawn by a registration of the  *)
(* same session, and a presented one by an installed tunnel of it.          *)
LEMMA TokenInvStep == IInv /\ [Next]_vars => TokenInv'
<1> SUFFICES ASSUME IInv, [Next]_vars PROVE TokenInv'
  OBVIOUS
<1> USE RegistryAssumption
  DEF IInv, TypeOK, Row, Stages, InRegister, Installed,
  Naming, Named, Bound, Past, IsNew, RevokedNotServed, MutexInv, BornInv,
  TokenInv
<1> DEFINE Stays ==
     /\ UNCHANGED <<row, session, presented>>
     /\ \A d \in Conn : /\ stage[d] \in Past => stage'[d] \in Past
                        /\ stage[d] \in Installed => stage'[d] \in Installed
                        /\ stage'[d] = "install" => stage[d] = "install"
<1>s. ASSUME Stays PROVE TokenInv'
  BY <1>s
<1>1. ASSUME NEW c \in Conn, NEW s \in Conn, NEW t \in Conn,
             AdmitResume(c, s, t)
      PROVE TokenInv'
  BY <1>1 DEF AdmitResume, Claimed, ValidateResume
<1>2. ASSUME NEW c \in Conn, ResolveNew(c) PROVE TokenInv'
  BY <1>2 DEF ResolveNew, Drawn
<1>3. ASSUME NEW c \in Conn, ResolveResume(c) PROVE TokenInv'
  BY <1>3 DEF ResolveResume, Resumed
<1>4. ASSUME NEW c \in Conn, Upsert(c) PROVE TokenInv'
  BY <1>4 DEF Upsert, Stored
<1>5. ASSUME NEW c \in Conn, RegisterFail(c) PROVE TokenInv'
  BY <1>5 DEF RegisterFail, MayFail
<1>6. ASSUME NEW c \in Conn, Install(c) PROVE TokenInv'
  BY <1>6 DEF Install, Closed
<1>7. ASSUME NEW c \in Conn, RemoveTunnel(c) PROVE TokenInv'
  <2>1. Stays
    BY <1>7 DEF RemoveTunnel
  <2> QED
    BY <2>1, <1>s
<1>8. ASSUME NEW c \in Conn, EndSession(c) PROVE TokenInv'
  <2>1. \A s \in Conn : /\ row'[s] = NoRow <=> row[s] = NoRow
                        /\ row[s] # NoRow => row'[s].token = row[s].token
    BY <1>8, EndSessionRow
  <2> QED
    BY <1>8, <2>1 DEF EndSession
<1>9. ASSUME NEW c \in Conn, RevokeRow(c) PROVE TokenInv'
  BY <1>9 DEF RevokeRow, RevokedRow, RegisterMuFree
<1>10. ASSUME Crash PROVE TokenInv'
  BY <1>10 DEF Crash
<1>11. ASSUME Start PROVE TokenInv'
  <2>1. \A s \in Conn : /\ row'[s] = NoRow <=> row[s] = NoRow
                        /\ row[s] # NoRow => row'[s].token = row[s].token
    BY <1>11, EndedRow DEF Start, OrphanEnded
  <2> QED
    BY <1>11, <2>1 DEF Start
<1>12. ASSUME NEW c \in Conn,
             \/ AdmitNew(c) \/ Refuse(c) \/ PeerClose(c)
      PROVE  TokenInv'
  <2>1. Stays
    BY <1>12 DEF AdmitNew, Refuse, PeerClose
  <2> QED
    BY <2>1, <1>s
<1>13. CASE RevokeClose \/ RetentionStep \/ Tick
          \/ UNCHANGED vars
  BY <1>13, RetentionOnly DEF RevokeClose, Closed, Tick, vars, registry
<1> QED
  BY <1>1, <1>2, <1>3, <1>4, <1>5, <1>6, <1>7, <1>8, <1>9, <1>10, <1>11,
     <1>12, <1>13 DEF Next

(* A token that bought a row is in no row any more.                         *)
LEMMA SpentInvStep == IInv /\ [Next]_vars => SpentInv'
<1> SUFFICES ASSUME IInv, [Next]_vars PROVE SpentInv'
  OBVIOUS
<1> USE RegistryAssumption
  DEF IInv, TypeOK, Row, Stages, InRegister, Installed,
  Naming, Named, Bound, Past, IsNew, RevokedNotServed, MutexInv, BornInv,
  TokenInv, SpentInv
<1>1. ASSUME NEW c \in Conn, NEW s \in Conn, NEW t \in Conn,
             AdmitResume(c, s, t)
      PROVE SpentInv'
  BY <1>1 DEF AdmitResume, Claimed, ValidateResume
<1>2. ASSUME NEW c \in Conn, Upsert(c) PROVE SpentInv'
  BY <1>2 DEF Upsert, Stored
<1>3. ASSUME NEW c \in Conn, EndSession(c) PROVE SpentInv'
  <2>1. \A s \in Conn : /\ row'[s] = NoRow <=> row[s] = NoRow
                        /\ row[s] # NoRow => row'[s].token = row[s].token
    BY <1>3, EndSessionRow
  <2>2. /\ UNCHANGED <<session, presented>>
        /\ stage[c] = "removed" /\ stage' = [stage EXCEPT ![c] = "gone"]
    BY <1>3 DEF EndSession
  <2> QED
    BY <2>1, <2>2
<1>4. ASSUME NEW c \in Conn, RevokeRow(c) PROVE SpentInv'
  BY <1>4 DEF RevokeRow, RevokedRow
<1>5. ASSUME Start PROVE SpentInv'
  BY <1>5, EndedRow DEF Start, OrphanEnded
<1>6. ASSUME NEW c \in Conn,
             \/ AdmitNew(c) \/ Refuse(c) \/ ResolveNew(c) \/ ResolveResume(c)
             \/ RegisterFail(c) \/ Install(c) \/ PeerClose(c) \/ RemoveTunnel(c)
      PROVE  SpentInv'
  BY <1>6 DEF AdmitNew, Refuse, ResolveNew, Drawn, ResolveResume, Resumed,
     RegisterFail, MayFail, Install, Closed, PeerClose, RemoveTunnel,
     Unrouted, StillOwner
<1>7. CASE RevokeClose \/ RetentionStep \/ Crash \/ Tick
          \/ UNCHANGED vars
  BY <1>7, RetentionOnly DEF RevokeClose, Closed, Crash, Tick, vars, registry
<1> QED
  BY <1>1, <1>2, <1>3, <1>4, <1>5, <1>6, <1>7 DEF Next

(* No registration of a revoked session is under way.                       *)
LEMMA RevokedInvStep == IInv /\ [Next]_vars => RevokedInv'
<1> SUFFICES ASSUME IInv, [Next]_vars PROVE RevokedInv'
  OBVIOUS
<1> USE RegistryAssumption
  DEF IInv, TypeOK, Row, Stages, InRegister, Installed,
  Naming, Named, Bound, Past, IsNew, RevokedNotServed, MutexInv, BornInv,
  OwnerInv, OneOpenTunnel, RevokedInv
<1>1. ASSUME NEW c \in Conn, AdmitNew(c) PROVE RevokedInv'
  BY <1>1 DEF AdmitNew, RegisterMuFree
<1>2. ASSUME NEW c \in Conn, NEW s \in Conn, NEW t \in Conn,
             AdmitResume(c, s, t)
      PROVE RevokedInv'
  BY <1>2 DEF AdmitResume, Claimed, ValidateResume, RegisterMuFree
<1>3. ASSUME NEW c \in Conn, ResolveNew(c) PROVE RevokedInv'
  BY <1>3 DEF ResolveNew, Drawn
<1>4. ASSUME NEW c \in Conn, ResolveResume(c) PROVE RevokedInv'
  BY <1>4 DEF ResolveResume, Resumed
<1>5. ASSUME NEW c \in Conn, Upsert(c) PROVE RevokedInv'
  BY <1>5 DEF Upsert, Stored
<1>6. ASSUME NEW c \in Conn, Install(c) PROVE RevokedInv'
  BY <1>6 DEF Install, Closed
<1>7. ASSUME NEW c \in Conn, RemoveTunnel(c) PROVE RevokedInv'
  BY <1>7 DEF RemoveTunnel, Unrouted, StillOwner
<1>8. ASSUME NEW c \in Conn, EndSession(c) PROVE RevokedInv'
  <2>1. \A s \in Conn : /\ row'[s] = NoRow <=> row[s] = NoRow
                        /\ row[s] # NoRow => row'[s].token = row[s].token
    BY <1>8, EndSessionRow
  <2>2. /\ UNCHANGED <<bySession, session, open, revoking, revoked>>
        /\ stage[c] = "removed" /\ stage' = [stage EXCEPT ![c] = "gone"]
    BY <1>8 DEF EndSession
  <2> QED
    BY <2>1, <2>2
<1>9. ASSUME NEW c \in Conn, RevokeRow(c) PROVE RevokedInv'
  BY <1>9 DEF RevokeRow, RevokedRow, RegisterMuFree
<1>10. ASSUME RevokeClose PROVE RevokedInv'
  <2>1. UNCHANGED <<row, bySession, stage, session, revoked>>
    BY <1>10 DEF RevokeClose
  <2>2. \A d \in Conn : open'[d] <=> open[d] /\ d # bySession[revoking]
    BY <1>10 DEF RevokeClose, Closed
  <2> QED
    BY <1>10, <2>1, <2>2 DEF RevokeClose
<1>11. ASSUME Start PROVE RevokedInv'
  BY <1>11, EndedRow DEF Start, OrphanEnded
<1>12. ASSUME NEW c \in Conn,
             \/ Refuse(c) \/ RegisterFail(c) \/ PeerClose(c)
      PROVE  RevokedInv'
  BY <1>12 DEF Refuse, RegisterFail, MayFail, PeerClose
<1>13. CASE RetentionStep \/ Crash \/ Tick
          \/ UNCHANGED vars
  BY <1>13, RetentionOnly DEF Crash, Tick, vars, registry
<1> QED
  BY <1>1, <1>2, <1>3, <1>4, <1>5, <1>6, <1>7, <1>8, <1>9, <1>10, <1>11,
     <1>12, <1>13 DEF Next

-----------------------------------------------------------------------------

(* The invariant holds in every reachable state.                            *)
THEOREM Inductive == Spec => []IInv
<1>1. Init => IInv
  BY RegistryAssumption
  DEF Init, IInv, TypeOK, Stages, NameInv, MutexInv, BornInv, OwnerInv,
      IdentityInv, NamesInv, RoutingConsistent, OneOpenTunnel, TokenInv,
      SpentInv, RevokedInv, RevokedNotServed, Row, Named, Naming, Bound, Past,
      InRegister, Installed, IsNew
<1>2. IInv /\ [Next]_vars => IInv'
  BY TypeOKStep, NameInvStep, MutexInvStep, BornInvStep, OwnerInvStep,
     IdentityInvStep, NamesInvStep, RoutingConsistentStep, OneOpenTunnelStep,
     TokenInvStep, SpentInvStep, RevokedInvStep
  DEF IInv
<1> QED
  BY <1>1, <1>2, PTL DEF Spec

(* Every variable has its type in every reachable state.                    *)
THEOREM TypeCorrect == Spec => []TypeOK
<1>1. IInv => TypeOK
  BY DEF IInv
<1> QED
  BY <1>1, Inductive, PTL

(* m.tunnels and m.bySession never disagree: the host name of a session     *)
(* reaches the tunnel that owns the session (installTunnel, removeTunnel).  *)
THEOREM RoutingCorrect == Spec => []RoutingConsistent
<1>1. IInv => RoutingConsistent
  BY DEF IInv
<1> QED
  BY <1>1, Inductive, PTL

(* At most one open tunnel per session, whatever resumes overlap.           *)
THEOREM OneTunnel == Spec => []OneOpenTunnel
<1>1. IInv => OneOpenTunnel
  BY DEF IInv
<1> QED
  BY <1>1, Inductive, PTL

(* Every resume keeps the URL and the start of the lifetime.                *)
THEOREM IdentityCorrect == Spec => []IdentityKept
<1>1. IInv => IdentityKept
  BY DEF IInv, IdentityInv, IdentityKept, Named
<1> QED
  BY <1>1, Inductive, PTL

(* No resume token ever buys two tunnels.                                   *)
THEOREM TokensOnce == Spec => []TokenSpentOnce
<1>1. IInv => TokenSpentOnce
  BY DEF IInv, SpentInv, TokenSpentOnce, Bound, IsNew
<1> QED
  BY <1>1, Inductive, PTL

(* Once revokeHosted has returned, the session has no open tunnel and no    *)
(* token that a resume could match.                                         *)
THEOREM RevokedDown == Spec => []RevokedNotServed
<1>1. IInv => RevokedNotServed
  BY DEF IInv, RevokedInv
<1> QED
  BY <1>1, Inductive, PTL

OwnersKept == /\ UNCHANGED bySession
              /\ \A c \in Conn :
                   stage'[c] \in Installed <=> stage[c] \in Installed

(* What a step does to the owners: the core of the next theorems.           *)
LEMMA OwnerStep ==
  ASSUME IInv, Next
  PROVE  \/ OwnersKept
         \/ \E c \in Conn : Install(c)
         \/ \E c \in Conn : RemoveTunnel(c) /\ StillOwner(c)
         \/ Crash
<1> USE DEF IInv, TypeOK, Stages, InRegister, Installed, OwnersKept
<1>1. ASSUME NEW c \in Conn,
             \/ AdmitNew(c) \/ Refuse(c) \/ ResolveNew(c) \/ ResolveResume(c)
             \/ Upsert(c) \/ RegisterFail(c) \/ PeerClose(c) \/ EndSession(c)
             \/ RevokeRow(c)
      PROVE OwnersKept
  BY <1>1
  DEF AdmitNew, Refuse, ResolveNew, ResolveResume, Upsert, RegisterFail,
      MayFail, PeerClose, EndSession, RevokeRow
<1>2. ASSUME NEW c \in Conn, NEW s \in Conn, NEW t \in Conn,
             AdmitResume(c, s, t)
      PROVE OwnersKept
  BY <1>2 DEF AdmitResume
<1>3. ASSUME NEW c \in Conn, RemoveTunnel(c), ~StillOwner(c)
      PROVE OwnersKept
  BY <1>3 DEF RemoveTunnel
<1>4. ASSUME RevokeClose \/ RetentionStep \/ Start \/ Tick
      PROVE OwnersKept
  BY <1>4, RetentionOnly DEF RevokeClose, Start, Tick
<1> QED
  BY <1>1, <1>2, <1>3, <1>4 DEF Next

(* No step gives a revoked session a tunnel.                                *)
THEOREM RevocationIsFinal == Spec => RevocationFinal
<1> DEFINE Final == \A s \in revoked : bySession'[s] \in {bySession[s], None}
<1>1. ASSUME IInv, Next PROVE Final
  <2> USE DEF IInv, TypeOK
  <2>1. CASE UNCHANGED bySession
    BY <2>1
  <2>2. ASSUME NEW c \in Conn, Install(c) PROVE Final
    BY <1>1, <2>2 DEF Install, RevokedInv, InRegister
  <2>3. ASSUME NEW c \in Conn, RemoveTunnel(c), StillOwner(c) PROVE Final
    BY <1>1, <2>3 DEF RemoveTunnel
  <2>4. CASE Crash
    BY <1>1, <2>4 DEF Crash
  <2> QED
    BY <1>1, <2>1, <2>2, <2>3, <2>4, OwnerStep DEF OwnersKept
<1>2. IInv /\ [Next]_vars => [Final]_vars
  BY <1>1
<1> QED
  BY <1>2, Inductive, PTL DEF Spec, RevocationFinal

(* The registry implements SessionTenure: installTunnel is Serve, the map   *)
(* part of removeTunnel is Release, RevokeHostedSession is Revoke, the end  *)
(* of the process is Restart, and everything else is invisible.             *)
THEOREM TenureRefined == Spec => TenureSpec
<1> DEFINE spent == {c \in Conn : stage[c] \in Installed}
<1>1. Init => Tenure!Init
  BY DEF Init, Tenure!Init, Installed
<1>2. ASSUME IInv, [Next]_vars PROVE [Tenure!Next]_(Tenure!vars)
  <2> USE DEF IInv, TypeOK, Stages, InRegister, Installed
  <2>1. CASE UNCHANGED vars
    BY <2>1 DEF vars, registry, Tenure!vars
  <2>2. ASSUME NEW c \in Conn, Install(c) PROVE Tenure!Serve(session[c].id, c)
    BY <1>2, <2>2 DEF Install, Tenure!Serve, RevokedInv
  <2>3. ASSUME NEW c \in Conn, RemoveTunnel(c), StillOwner(c)
        PROVE  Tenure!Release(session[c].id)
    BY <1>2, <2>3 DEF RemoveTunnel, Tenure!Release
  <2>4. ASSUME Crash PROVE Tenure!Restart
    BY <2>4 DEF Crash, Tenure!Restart
  <2>5. ASSUME NEW s \in Conn, RevokeRow(s) PROVE Tenure!Revoke(s)
    BY <2>5 DEF RevokeRow, Tenure!Revoke
  <2>6. CASE Next /\ UNCHANGED bySession /\ spent' = spent
    <3>1. CASE UNCHANGED revoked
      BY <2>6, <3>1 DEF Tenure!vars
    <3>2. CASE revoked' # revoked
      <4>1. PICK s \in Conn : RevokeRow(s)
        BY <1>2, <2>6, <3>2, RetentionOnly
        DEF Next, AdmitNew, AdmitResume, Refuse, ResolveNew, ResolveResume,
            Upsert, RegisterFail, Install, PeerClose, RemoveTunnel,
            EndSession, RevokeClose, Crash, Start, Tick
      <4> QED
        BY <4>1, <2>5 DEF Tenure!Next
    <3> QED
      BY <3>1, <3>2
  <2>7. \A c \in Conn : session[c].id \in Conn
    BY <1>2
  <2> QED
    BY <1>2, <2>1, <2>2, <2>3, <2>4, <2>6, <2>7, OwnerStep
    DEF OwnersKept, Tenure!Next
<1> QED
  BY <1>1, <1>2, Inductive, PTL DEF Spec, TenureSpec, Tenure!Spec

(* While a new tunnel is being registered, there is room for it: registerMu *)
(* keeps other registrations out and removals only make room.               *)
CapInv ==
  \A c \in Conn : stage[c] \in InRegister /\ IsNew(c) => CheckHostedCapacity(c)

(* Fewer owners leave at least as much room.                                *)
LEMMA CapacityKept ==
  ASSUME TypeOK, NEW c \in Conn, CheckHostedCapacity(c),
         \A s \in Conn : bySession'[s] \in {bySession[s], None}
  PROVE  CheckHostedCapacity(c)'
<1> DEFINE ip == SourceIP[c]
<1>1. Active' \subseteq Active /\ ActiveFrom(ip)' \subseteq ActiveFrom(ip)
  BY DEF Active, ActiveFrom
<1>2. IsFiniteSet(Active) /\ IsFiniteSet(ActiveFrom(ip))
  BY RegistryAssumption, FS_Subset, Active \subseteq Conn, ActiveFrom(ip)
     \subseteq Conn
  DEF Active, ActiveFrom
<1>3. Cardinality(Active') <= Cardinality(Active) /\ IsFiniteSet(Active')
      /\ Cardinality(ActiveFrom(ip)') <= Cardinality(ActiveFrom(ip))
      /\ IsFiniteSet(ActiveFrom(ip)')
  BY <1>1, <1>2, FS_Subset
<1>4. /\ Cardinality(Active) \in Nat /\ Cardinality(Active') \in Nat
      /\ Cardinality(ActiveFrom(ip)) \in Nat
      /\ Cardinality(ActiveFrom(ip)') \in Nat
  BY <1>2, <1>3, FS_CardinalityType
<1> QED
  BY <1>3, <1>4, RegistryAssumption DEF CheckHostedCapacity

(* Who is inside Register came by AdmitNew or AdmitResume, and asks for     *)
(* what it asked for then.                                                  *)
LEMMA RegisterKept ==
  ASSUME TypeOK, Next, NEW c \in Conn, stage'[c] \in InRegister, IsNew(c)'
  PROVE  AdmitNew(c) \/ (stage[c] \in InRegister /\ IsNew(c))
<1> USE RegistryAssumption DEF TypeOK, Stages, InRegister, Installed, IsNew
<1>1. ASSUME NEW d \in Conn,
             \/ AdmitNew(d) \/ Refuse(d) \/ ResolveNew(d) \/ ResolveResume(d)
      PROVE  AdmitNew(c) \/ (stage[c] \in InRegister /\ IsNew(c))
  BY <1>1 DEF AdmitNew, Refuse, ResolveNew, ResolveResume
<1>2. ASSUME NEW d \in Conn, NEW s \in Conn, NEW t \in Conn, AdmitResume(d, s, t)
      PROVE  stage[c] \in InRegister /\ IsNew(c)
  BY <1>2 DEF AdmitResume
<1>3. ASSUME NEW d \in Conn,
             \/ Upsert(d) \/ RegisterFail(d) \/ Install(d) \/ PeerClose(d)
             \/ RemoveTunnel(d) \/ EndSession(d) \/ RevokeRow(d)
      PROVE  stage[c] \in InRegister /\ IsNew(c)
  BY <1>3 DEF Upsert, RegisterFail, Install, PeerClose, RemoveTunnel,
     EndSession, RevokeRow
<1>4. CASE RevokeClose \/ RetentionStep \/ Crash \/ Start \/ Tick
  BY <1>4, RetentionOnly DEF RevokeClose, Crash, Start, Tick
<1> QED
  BY <1>1, <1>2, <1>3, <1>4 DEF Next

LEMMA CapStep == IInv /\ CapInv /\ [Next]_vars => CapInv'
<1> SUFFICES ASSUME IInv, CapInv, [Next]_vars,
                    NEW c \in Conn, stage'[c] \in InRegister, IsNew(c)'
             PROVE  CheckHostedCapacity(c)'
  BY DEF CapInv
<1> USE DEF IInv, TypeOK, Stages, InRegister, Installed
<1>1. CASE UNCHANGED vars
  BY <1>1, CapacityKept DEF vars, registry, CapInv, IsNew
<1>2. CASE Next
  <2>1. AdmitNew(c) \/ (stage[c] \in InRegister /\ IsNew(c))
    BY <1>2, RegisterKept
  <2>2. CASE AdmitNew(c)
    BY <2>2, CapacityKept DEF AdmitNew
  <2>3. CASE stage[c] \in InRegister /\ IsNew(c)
    <3>1. \A s \in Conn : bySession'[s] \in {bySession[s], None}
      <4>1. ASSUME NEW d \in Conn, Install(d) PROVE FALSE
        BY <2>3, <4>1 DEF Install, MutexInv
      <4>2. ASSUME NEW d \in Conn, RemoveTunnel(d)
            PROVE  \A s \in Conn : bySession'[s] \in {bySession[s], None}
        BY <4>2 DEF RemoveTunnel
      <4>3. CASE Crash
        BY <4>3 DEF Crash
      <4> QED
        BY <1>2, <4>1, <4>2, <4>3, OwnerStep DEF OwnersKept
    <3> QED
      BY <2>3, <3>1, CapacityKept DEF CapInv
  <2> QED
    BY <2>1, <2>2, <2>3
<1> QED
  BY <1>1, <1>2

(* The limits that checkHostedCapacity tested still have room when the new  *)
(* tunnel is installed.                                                     *)
THEOREM CapacityHolds == Spec => NewWithinCapacity
<1> DEFINE Within == \A c \in Conn :
       Install(c) /\ IsNew(c) => /\ Cardinality(Active') <= MaxTunnels
                                 /\ Cardinality(ActiveFrom(SourceIP[c])')
                                      <= MaxPerIP
<1>1. IInv /\ CapInv => Within
  <2> SUFFICES ASSUME IInv, CapInv, NEW c \in Conn, Install(c), IsNew(c)
               PROVE /\ Cardinality(Active') <= MaxTunnels
                     /\ Cardinality(ActiveFrom(SourceIP[c])') <= MaxPerIP
    OBVIOUS
  <2> DEFINE s == session[c].id
             mine == ActiveFrom(SourceIP[c])
  <2>1. CheckHostedCapacity(c)
    BY DEF CapInv, Install, InRegister
  <2>2. /\ s \in Conn
        /\ \A t \in Conn : t # s => bySession'[t] = bySession[t]
    BY DEF IInv, TypeOK, Install
  <2>3. Active' \subseteq Active \union {s} /\ mine' \subseteq mine \union {s}
    BY <2>2 DEF Active, ActiveFrom
  <2>4. IsFiniteSet(Active) /\ IsFiniteSet(mine)
    BY RegistryAssumption, FS_Subset, Active \subseteq Conn, mine \subseteq
       Conn
    DEF Active, ActiveFrom
  <2>5. /\ Cardinality(Active \union {s}) <= Cardinality(Active) + 1
        /\ Cardinality(mine \union {s}) <= Cardinality(mine) + 1
        /\ IsFiniteSet(Active \union {s}) /\ IsFiniteSet(mine \union {s})
        /\ Cardinality(Active) \in Nat /\ Cardinality(mine) \in Nat
    <3>1. ASSUME NEW S, IsFiniteSet(S)
          PROVE  /\ Cardinality(S \union {s}) <= Cardinality(S) + 1
                 /\ IsFiniteSet(S \union {s}) /\ Cardinality(S) \in Nat
      <4>1. Cardinality(S) \in Nat
        BY <3>1, FS_CardinalityType
      <4>2. /\ IsFiniteSet(S \union {s})
            /\ \/ Cardinality(S \union {s}) = Cardinality(S)
               \/ Cardinality(S \union {s}) = Cardinality(S) + 1
        BY <3>1, FS_AddElement, Zenon
      <4> QED
        BY <4>1, <4>2
    <3> QED
      BY <2>4, <3>1
  <2>6. /\ Cardinality(Active') <= Cardinality(Active \union {s})
        /\ Cardinality(mine') <= Cardinality(mine \union {s})
        /\ IsFiniteSet(Active') /\ IsFiniteSet(mine')
    BY <2>3, <2>5, FS_Subset
  <2>7. /\ Cardinality(Active') \in Nat /\ Cardinality(mine') \in Nat
        /\ Cardinality(Active \union {s}) \in Nat
        /\ Cardinality(mine \union {s}) \in Nat
    BY <2>5, <2>6, FS_CardinalityType
  <2> QED
    BY <2>1, <2>5, <2>6, <2>7, RegistryAssumption DEF CheckHostedCapacity
<1>2. Init => CapInv
  BY DEF Init, CapInv, InRegister
<1>3. Spec => [](IInv /\ CapInv)
  BY <1>2, CapStep, Inductive, PTL DEF Spec
<1>4. IInv /\ CapInv /\ [Next]_vars => [Within]_vars
  BY <1>1
<1> QED
  BY <1>3, <1>4, PTL DEF Spec, NewWithinCapacity

-----------------------------------------------------------------------------

(* Without failing statements, Register never stops between its row and its *)
(* tunnel; both lemmas need that.                                           *)
LEMMA TokenCurrentStep ==
  ASSUME ~DBFaults PROVE IInv /\ TokenCurrent /\ [Next]_vars => TokenCurrent'
<1> SUFFICES ASSUME IInv, TokenCurrent, [Next]_vars PROVE TokenCurrent'
  OBVIOUS
<1> USE RegistryAssumption
  DEF IInv, TypeOK, Row, TokenInv, OwnerInv, TokenCurrent, Stages, InRegister,
      Installed
<1>1. ASSUME NEW c \in Conn, NEW s \in Conn, NEW t \in Conn,
             AdmitResume(c, s, t)
      PROVE TokenCurrent'
  BY <1>1 DEF AdmitResume, Claimed, ValidateResume
<1>2. ASSUME NEW c \in Conn, ResolveNew(c) PROVE TokenCurrent'
  BY <1>2 DEF ResolveNew, Drawn
<1>3. ASSUME NEW c \in Conn, ResolveResume(c) PROVE TokenCurrent'
  BY <1>3 DEF ResolveResume, Resumed
<1>4. ASSUME NEW c \in Conn, Upsert(c) PROVE TokenCurrent'
  BY <1>4 DEF Upsert, Stored
<1>5. ASSUME NEW c \in Conn, RegisterFail(c) PROVE TokenCurrent'
  BY <1>5 DEF RegisterFail, MayFail
<1>6. ASSUME NEW c \in Conn, Install(c) PROVE TokenCurrent'
  BY <1>6 DEF Install, Closed
<1>7. ASSUME NEW c \in Conn, RemoveTunnel(c) PROVE TokenCurrent'
  BY <1>7 DEF RemoveTunnel, Unrouted, StillOwner
<1>8. ASSUME NEW c \in Conn, EndSession(c) PROVE TokenCurrent'
  BY <1>8, EndedRow DEF EndSession
<1>9. ASSUME NEW c \in Conn, RevokeRow(c) PROVE TokenCurrent'
  BY <1>9 DEF RevokeRow, RevokedRow
<1>10. ASSUME Start PROVE TokenCurrent'
  BY <1>10, EndedRow DEF Start, OrphanEnded
<1>11. ASSUME NEW c \in Conn,
             \/ AdmitNew(c) \/ Refuse(c) \/ PeerClose(c)
      PROVE  TokenCurrent'
  BY <1>11 DEF AdmitNew, Refuse, PeerClose
<1>12. CASE RevokeClose \/ RetentionStep \/ Crash \/ Tick
          \/ UNCHANGED vars
  BY <1>12, RetentionOnly DEF RevokeClose, Closed, Crash, Tick,
     vars, registry
<1> QED
  BY <1>1, <1>2, <1>3, <1>4, <1>5, <1>6, <1>7, <1>8, <1>9, <1>10, <1>11, <1>12
     DEF Next

LEMMA NoOrphanStep ==
  ASSUME ~DBFaults PROVE IInv /\ NoOrphanRow /\ [Next]_vars => NoOrphanRow'
<1> SUFFICES ASSUME IInv, NoOrphanRow, [Next]_vars PROVE NoOrphanRow'
  OBVIOUS
<1> USE RegistryAssumption
  DEF IInv, TypeOK, Row, BornInv, OwnerInv, NoOrphanRow, Stages, InRegister,
      Installed, Past, Bound
<1>1. ASSUME NEW c \in Conn, AdmitNew(c) PROVE NoOrphanRow'
  BY <1>1 DEF AdmitNew
<1>2. ASSUME NEW c \in Conn, Refuse(c) PROVE NoOrphanRow'
  BY <1>2 DEF Refuse
<1>3. ASSUME NEW c \in Conn, NEW s \in Conn, NEW t \in Conn,
             AdmitResume(c, s, t)
      PROVE NoOrphanRow'
  BY <1>3 DEF AdmitResume, Claimed, ValidateResume
<1>4. ASSUME NEW c \in Conn, ResolveNew(c) PROVE NoOrphanRow'
  BY <1>4 DEF ResolveNew, Drawn
<1>5. ASSUME NEW c \in Conn, ResolveResume(c) PROVE NoOrphanRow'
  BY <1>5 DEF ResolveResume, Resumed
<1>6. ASSUME NEW c \in Conn, Upsert(c) PROVE NoOrphanRow'
  BY <1>6 DEF Upsert, Stored
<1>7. ASSUME NEW c \in Conn, RegisterFail(c) PROVE NoOrphanRow'
  BY <1>7 DEF RegisterFail, MayFail
<1>8. ASSUME NEW c \in Conn, Install(c) PROVE NoOrphanRow'
  BY <1>8 DEF Install, Closed
<1>9. ASSUME NEW c \in Conn, PeerClose(c) PROVE NoOrphanRow'
  BY <1>9 DEF PeerClose
<1>10. ASSUME NEW c \in Conn, RemoveTunnel(c) PROVE NoOrphanRow'
  BY <1>10 DEF RemoveTunnel, Unrouted, StillOwner
<1>11. ASSUME NEW c \in Conn, EndSession(c) PROVE NoOrphanRow'
  <2>1. \A s \in Conn : /\ row'[s] = NoRow <=> row[s] = NoRow
                        /\ s # session[c].id => row'[s] = row[s]
                        /\ row[s] # NoRow /\ s = session[c].id => row'[s].ended = now
    BY <1>11, EndSessionRow
  <2>2. /\ stage' = [stage EXCEPT ![c] = "gone"]
        /\ UNCHANGED <<up, bySession, session>>
    BY <1>11 DEF EndSession
  <2> SUFFICES ASSUME NEW s \in Conn, up', row'[s] # NoRow, row'[s].ended = Never
               PROVE  \/ bySession'[s] # None
                      \/ \E d \in Conn : /\ session'[d].id = s
                                         /\ stage'[d] \in {"install", "removed"}
    OBVIOUS
  <2>3. s # session[c].id /\ row[s] # NoRow /\ row[s].ended = Never
    BY <2>1
  <2>4. \/ bySession[s] # None
        \/ \E d \in Conn : session[d].id = s /\ stage[d] \in {"install", "removed"}
    BY <2>2, <2>3
  <2> QED
    BY <2>2, <2>3, <2>4
<1>12. ASSUME NEW c \in Conn, RevokeRow(c) PROVE NoOrphanRow'
  BY <1>12 DEF RevokeRow, RevokedRow
<1>13. ASSUME RevokeClose PROVE NoOrphanRow'
  BY <1>13 DEF RevokeClose, Closed
<1>14. ASSUME RetentionStep PROVE NoOrphanRow'
  <2>1. /\ \A s \in Conn : row'[s] \in {row[s], NoRow}
        /\ UNCHANGED <<up, bySession, session, stage>>
    BY <1>14, RetentionOnly
  <2> QED
    BY <2>1
<1>15. ASSUME Crash PROVE NoOrphanRow'
  BY <1>15 DEF Crash
<1>16. ASSUME Start PROVE NoOrphanRow'
  BY <1>16, EndedRow DEF Start, OrphanEnded
<1>17. ASSUME Tick PROVE NoOrphanRow'
  BY <1>17 DEF Tick
<1>18. CASE UNCHANGED vars
  BY <1>18 DEF vars, registry
<1> QED
  BY <1>1, <1>2, <1>3, <1>4, <1>5, <1>6, <1>7, <1>8, <1>9, <1>10, <1>11,
     <1>12, <1>13, <1>14, <1>15, <1>16, <1>17, <1>18 DEF Next

(* If no statement fails, the connected client always holds the token that *)
(* resumes its session.                                                    *)
THEOREM TokenIsCurrent ==
  ASSUME ~DBFaults
  PROVE  Spec => []TokenCurrent
<1>1. Init => TokenCurrent
  BY DEF Init, TokenCurrent
<1>2. IInv /\ TokenCurrent /\ [Next]_vars => TokenCurrent'
  BY TokenCurrentStep
<1> QED
  BY <1>1, <1>2, Inductive, PTL DEF Spec

(* If no statement fails, no row is left without an end and without an     *)
(* owner.                                                                  *)
THEOREM NoOrphans ==
  ASSUME ~DBFaults
  PROVE  Spec => []NoOrphanRow
<1>1. Init => NoOrphanRow
  BY DEF Init, NoOrphanRow
<1>2. IInv /\ NoOrphanRow /\ [Next]_vars => NoOrphanRow'
  BY NoOrphanStep
<1> QED
  BY <1>1, <1>2, Inductive, PTL DEF Spec

-----------------------------------------------------------------------------
(* What the retention loop deletes                                          *)

(* No row and no session starts in the future, a row ends after its start,  *)
(* and the retention loop has read no later time than it is.                *)
ClockInv ==
  /\ \A s \in Conn : row[s] # NoRow =>
       /\ row[s].started <= now
       /\ row[s].ended # Never => row[s].started <= row[s].ended
  /\ \A c \in Conn : session[c].startedAt <= now
  /\ clock <= now

LEMMA ClockStep ==
  ASSUME IInv, ClockInv, [Next]_vars
  PROVE  ClockInv'
<1> USE RegistryAssumption DEF IInv, TypeOK, retention
<1>1. ASSUME UNCHANGED session, now' >= now, clock' \in {clock, 0, now},
             \A s \in Conn : row'[s] # NoRow =>
               /\ row[s] # NoRow /\ row'[s].started = row[s].started
               /\ row'[s].ended \in {row[s].ended, now}
      PROVE  ClockInv'
  <2>1. ASSUME NEW s \in Conn, row'[s] # NoRow
        PROVE  /\ row'[s].started <= now'
               /\ row'[s].ended # Never => row'[s].started <= row'[s].ended
    <3>1. /\ row'[s].started = row[s].started
          /\ row'[s].ended \in {row[s].ended, now}
          /\ row[s].started <= now
          /\ row[s].ended # Never => row[s].started <= row[s].ended
      BY <1>1, <2>1 DEF ClockInv
    <3>2. row[s].started \in Nat /\ now' \in Nat
      BY <1>1, <2>1, TypeOKStep DEF Row
    <3>3. QED
      BY <1>1, <3>1, <3>2
  <2>2. \A c \in Conn : session'[c].startedAt <= now'
    <3>1. \A c \in Conn : session[c].startedAt \in Nat
      OBVIOUS
    <3>2. now' \in Nat
      BY TypeOKStep
    <3>3. QED
      BY <1>1, <3>1, <3>2 DEF ClockInv
  <2>3. clock' <= now'
    <3>1. now \in Nat /\ now' \in Nat /\ clock \in Nat
      BY TypeOKStep
    <3>2. QED
      BY <1>1, <3>1 DEF ClockInv
  <2>4. QED
    BY <2>1, <2>2, <2>3 DEF ClockInv
<1>2. ASSUME NEW c \in Conn, UNCHANGED <<row, now, clock>>,
             session'[c].startedAt <= now,
             \A d \in Conn : d # c => session'[d] = session[d]
      PROVE  ClockInv'
  BY <1>2 DEF ClockInv
<1>3. ASSUME NEW c \in Conn, NEW s \in Conn, NEW t \in Conn,
             AdmitResume(c, s, t)
      PROVE  ClockInv'
  BY <1>2, <1>3 DEF AdmitResume, Claimed, ClockInv
<1>4. ASSUME NEW c \in Conn, ResolveNew(c)
      PROVE  ClockInv'
  BY <1>2, <1>4 DEF ResolveNew, Drawn
<1>5. ASSUME NEW c \in Conn, ResolveResume(c)
      PROVE  ClockInv'
  BY <1>2, <1>5 DEF ResolveResume, Resumed, ClockInv
<1>6. ASSUME NEW c \in Conn, Upsert(c)
      PROVE  ClockInv'
  BY <1>6 DEF Upsert, Stored, ClockInv
<1>7. ASSUME NEW c \in Conn, EndSession(c)
      PROVE  ClockInv'
  <2>1. \A s \in Conn : row'[s] # NoRow =>
          /\ row[s] # NoRow /\ row'[s].started = row[s].started
          /\ row'[s].ended \in {row[s].ended, now}
    BY <1>7, EndedRow DEF EndSession
  <2>2. QED
    BY <1>1, <1>7, <2>1 DEF EndSession
<1>8. ASSUME NEW s \in Conn, RevokeRow(s)
      PROVE  ClockInv'
  <2>1. \A t \in Conn : row'[t] # NoRow =>
          /\ row[t] # NoRow /\ row'[t].started = row[t].started
          /\ row'[t].ended \in {row[t].ended, now}
    BY <1>8 DEF RevokeRow, RevokedRow, Row
  <2>2. QED
    BY <1>1, <1>8, <2>1 DEF RevokeRow
<1>9. CASE Start
  <2>1. \A s \in Conn : row'[s] # NoRow =>
          /\ row[s] # NoRow /\ row'[s].started = row[s].started
          /\ row'[s].ended \in {row[s].ended, now}
    BY <1>9, EndedRow DEF Start, OrphanEnded
  <2>2. QED
    BY <1>1, <1>9, <2>1 DEF Start
<1>10. CASE RetentionStep
  <2>1. clock' \in {clock, 0, now}
    BY <1>10 DEF RetentionStep, ReadTime, ListExpired, CloseExpired,
       ReadCutoff, Prune
  <2>2. QED
    BY <1>1, <1>10, <2>1, RetentionOnly
<1>11. ASSUME NEW c \in Conn,
              \/ AdmitNew(c) \/ Refuse(c) \/ RegisterFail(c) \/ Install(c)
              \/ PeerClose(c) \/ RemoveTunnel(c)
       PROVE  ClockInv'
  BY <1>1, <1>11 DEF AdmitNew, Refuse, RegisterFail, Install, PeerClose,
                     RemoveTunnel
<1>12. CASE RevokeClose \/ Crash \/ Tick \/ UNCHANGED vars
  BY <1>1, <1>12 DEF RevokeClose, Crash, Tick, vars, registry
<1> QED
  BY <1>3, <1>4, <1>5, <1>6, <1>7, <1>8, <1>9, <1>10, <1>11, <1>12 DEF Next

LEMMA ClockInductive == Spec => []ClockInv
<1>1. Init => ClockInv
  BY DEF Init, ClockInv
<1>2. IInv /\ ClockInv /\ [Next]_vars => ClockInv'
  BY ClockStep
<1> QED
  BY <1>1, <1>2, Inductive, PTL DEF Spec

(* Only a round deletes a row, and only one that ended long ago.            *)
LEMMA OnlyPruned ==
  ASSUME IInv, [Next]_vars, NEW s \in Conn, row[s] # NoRow, row'[s] = NoRow
  PROVE  Prune /\ Prunable(s)
<1> USE RegistryAssumption DEF IInv, TypeOK
<1>1. ASSUME NEW c \in Conn, Upsert(c)
      PROVE  FALSE
  <2>1. Stored(c) \in Row
    BY <1>1 DEF Upsert, Stored, NameInv, Named, Naming, Row
  <2>2. row'[s] \in {row[s], Stored(c)}
    BY <1>1 DEF Upsert
  <2>3. QED
    BY <2>1, <2>2
<1>2. ASSUME NEW c \in Conn, EndSession(c)
      PROVE  FALSE
  BY <1>2, EndSessionRow
<1>3. ASSUME NEW t \in Conn, RevokeRow(t)
      PROVE  FALSE
  BY <1>3, RevokeRowRow
<1>4. CASE Start
  BY <1>4, EndedRow DEF Start, OrphanEnded
<1>5. CASE RetentionStep
  BY <1>5 DEF RetentionStep, ReadTime, ListExpired, CloseExpired, ReadCutoff,
     Prune, registry
<1>6. ASSUME NEW c \in Conn,
             \/ AdmitNew(c) \/ Refuse(c) \/ RegisterFail(c) \/ Install(c)
             \/ PeerClose(c) \/ RemoveTunnel(c) \/ ResolveNew(c)
             \/ ResolveResume(c) \/ \E d, t \in Conn : AdmitResume(c, d, t)
      PROVE  FALSE
  BY <1>6 DEF AdmitNew, Refuse, RegisterFail, Install, PeerClose,
              RemoveTunnel, ResolveNew, ResolveResume, AdmitResume
<1>7. CASE RevokeClose \/ Crash \/ Tick \/ UNCHANGED vars
  BY <1>7 DEF RevokeClose, Crash, Tick, vars, registry
<1> QED
  BY <1>1, <1>2, <1>3, <1>4, <1>5, <1>6, <1>7 DEF Next

(* How long ago a deleted session began.                                    *)
LEMMA PrunedAge ==
  ASSUME IInv, ClockInv, NEW s \in Conn, Prunable(s)
  PROVE  row[s].started \in Nat /\ now - row[s].started > Retention
<1>1. /\ row[s].started \in Nat /\ row[s].ended \in Nat /\ now \in Nat
      /\ clock \in Nat /\ Retention \in Nat
  BY RegistryAssumption DEF IInv, TypeOK, Prunable, Row
<1>2. row[s].started <= row[s].ended /\ row[s].ended < clock - Retention /\ clock <= now
  BY DEF ClockInv, Prunable
<1> QED
  BY <1>1, <1>2

(* Finding 1 spares a session until it is older than the retention period:  *)
(* what is deleted began longer ago than that.                              *)
THEOREM PruneSpares == Spec => PruneSparesYoung
<1>1. ASSUME IInv, ClockInv, [Next]_vars, NEW s \in Conn,
             row[s] # NoRow, row'[s] = NoRow
      PROVE  now - row[s].started > Retention
  BY <1>1, OnlyPruned, PrunedAge
<1>2. IInv /\ ClockInv /\ [Next]_vars =>
        [\A s \in Conn : row[s] # NoRow /\ row'[s] = NoRow
                         => now - row[s].started > Retention]_vars
  BY <1>1
<1> QED
  BY <1>2, Inductive, ClockInductive, PTL DEF Spec, PruneSparesYoung
=============================================================================
