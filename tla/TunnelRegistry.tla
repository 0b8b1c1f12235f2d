--------------------------- MODULE TunnelRegistry ---------------------------
(***************************************************************************)
(* The tunnel registry of internal/server/tunnel.go: how a client's        *)
(* connection becomes the tunnel of a session, how a later connection      *)
(* resumes that session, and how tunnels and session rows go away (the     *)
(* peer hangs up, the operator revokes, the lifetime or the retention      *)
(* period passes, the server restarts).                                    *)
(*                                                                         *)
(* The module follows the locks of the code.  Register and revokeHosted    *)
(* run under registerMu from their first step to their last; the two maps  *)
(* are written together under m.mu; EndSession and the retention loop      *)
(* write the sessions table under no lock at all.                          *)
(*                                                                         *)
(* A session ID, an auth token and a tunnel token are fresh random values  *)
(* of the registration that draws them, so each is named here by the       *)
(* connection that registered.                                             *)
(***************************************************************************)
EXTENDS Integers, FiniteSets

CONSTANTS
  Conn,        \* accepted tunnel connections; also session IDs and tokens
  Sub,         \* subdomains that can be drawn
  SourceIP,    \* the remote address of each connection
  MaxTunnels,  \* cfg.HostedMaxTunnels
  MaxPerIP,    \* cfg.HostedMaxPerIP
  Lifetime,    \* cfg.HostedLifetime
  Grace,       \* the 30 seconds of validateResume
  Retention,   \* cfg.HostedRetention
  MaxTime,     \* bound: the clock stops here
  DBFaults,    \* may CountRequests and EndSession fail?
  None,        \* no connection, no subdomain (a nil pointer, a missing key)
  NoToken,     \* the empty token that a revocation leaves
  NoRow,       \* no such row in the sessions table
  Never        \* ended_at IS NULL

Row == [sub : Sub, token : Conn \union {NoToken},
        started : Nat, ended : Nat \union {Never}]

ASSUME RegistryAssumption ==
  /\ IsFiniteSet(Conn)
  /\ None \notin Conn /\ None \notin Sub
  /\ NoToken \notin Conn
  /\ NoRow \notin Row
  /\ Never \notin Nat
  /\ MaxTunnels \in Nat /\ MaxPerIP \in Nat
  /\ Lifetime \in Nat /\ Grace \in Nat /\ Retention \in Nat /\ MaxTime \in Nat
  /\ DBFaults \in BOOLEAN

VARIABLES
  up,         \* is the server process running?
  now,        \* the clock; one tick is about the grace period
  row,        \* the sessions table, by session ID
  tunnels,    \* m.tunnels: the connection that serves a subdomain
  bySession,  \* m.bySession: the connection that serves a session
  stage,      \* how far each connection's goroutines have come
  session,    \* the Session value that each connection's Register carries
  presented,  \* reg.ResumeToken; None when reg.SessionID is empty
  open,       \* is the connection still up, at both ends?
  revoking,   \* the session inside revokeHosted, between its two steps
  revoked,    \* history: the sessions revoked so far
  round,      \* the retention loop: its next step
  clock,      \* ... the time it read, while it needs it
  expired     \* ... the tunnels on its list that it has still to close

registry  == <<up, now, row, tunnels, bySession, stage, session, presented,
               open, revoking, revoked>>
retention == <<round, clock, expired>>
vars      == <<registry, retention>>

-----------------------------------------------------------------------------
(* Stages of a connection.  "resolve", "upsert" and "install" name the next *)
(* step of Register; a "live" tunnel has its readLoop; "removed" is between *)
(* the unlock and the EndSession of removeTunnel.                           *)

InRegister == {"resolve", "upsert", "install"}
Installed  == {"live", "removed", "gone"}
Stages     == {"fresh", "refused"} \union InRegister \union Installed

(* Mutant: the registry without its registration lock.                      *)
NoRegisterMu == TRUE

RegisterMuFree == /\ \A c \in Conn : stage[c] \notin InRegister
                  /\ revoking = None

Active == {s \in Conn : bySession[s] # None}

ActiveFrom(ip) == {s \in Active : SourceIP[bySession[s]] = ip}

Connected == {s \in Active : open[bySession[s]]}

IsNew(c) == presented[c] = None

SubdomainExists(x) == \E s \in Conn : row[s] # NoRow /\ row[s].sub = x

(* Mutant: an off-by-one in both limits.                                    *)
CapacityOffByOne(c) == /\ Cardinality(Active) <= MaxTunnels
                       /\ Cardinality(ActiveFrom(SourceIP[c])) <= MaxPerIP

CheckHostedCapacity(c) == /\ Cardinality(Active) < MaxTunnels
                          /\ Cardinality(ActiveFrom(SourceIP[c])) < MaxPerIP

(* Mutant: the resume token is not compared.                                *)
ValidateAnyToken(s, token) ==
  /\ row[s] # NoRow
  /\ now - row[s].started < Lifetime
  /\ row[s].ended # Never => now - row[s].ended <= Grace

ValidateResume(s, token) ==
  /\ row[s] # NoRow
  /\ now - row[s].started < Lifetime
  /\ row[s].ended # Never => now - row[s].ended <= Grace
  /\ row[s].token = token

(* The session that a resume asks for.                                      *)
Claimed(c, s) == [session[c] EXCEPT !.id = s]

(* newSession: the session value of a new tunnel.                           *)
Drawn(c, x) == [id |-> c, sub |-> x, startedAt |-> now]

(* resumeSession: the session value of a resume, from the stored row.       *)
(* Mutant: the clock of the lifetime starts again.                          *)
ResumedNow(c) == [id |-> session[c].id, sub |-> row[session[c].id].sub,
                  startedAt |-> now]

Resumed(c) == [id |-> session[c].id, sub |-> row[session[c].id].sub,
               startedAt |-> row[session[c].id].started]

(* The row that UpsertSession writes.  Mutant: a resume keeps its token.    *)
StoredOldToken(c) ==
  [sub |-> session[c].sub, started |-> session[c].startedAt, ended |-> Never,
   token |-> IF IsNew(c) THEN c ELSE presented[c]]

Stored(c) == [sub |-> session[c].sub, started |-> session[c].startedAt,
              ended |-> Never, token |-> c]

(* The row after EndSession.  Mutant: it inserts the row that is missing.   *)
EndedOrInserted(s) ==
  IF row[s] = NoRow
    THEN [sub |-> None, token |-> NoToken, started |-> 0, ended |-> now]
    ELSE [row[s] EXCEPT !.ended = now]

Ended(s) == IF row[s] = NoRow THEN NoRow ELSE [row[s] EXCEPT !.ended = now]

(* The row after RevokeHostedSession.                                       *)
RevokedRow(s) == [row[s] EXCEPT !.token = NoToken, !.ended = now]

(* The row after EndOrphanedHostedSessions.  Mutant: it is left alone.      *)
LeftOpen(s) == row[s]

OrphanEnded(s) ==
  IF row[s] # NoRow /\ row[s].ended = Never THEN Ended(s) ELSE row[s]

(* What the last DELETE of PruneHostedBefore takes, with the cutoff that was *)
(* computed before the first.  Mutant: the retention is not subtracted.     *)
PrunableAtOnce(s) == /\ row[s] # NoRow
                     /\ row[s].ended # Never
                     /\ row[s].ended < clock

Prunable(s) == /\ row[s] # NoRow
               /\ row[s].ended # Never
               /\ row[s].ended < clock - Retention

(* The test of expireHostedTunnels, at the time the loop read.  Mutant: the *)
(* lifetime is over one tick late.                                          *)
ExpiredLate(c) == clock - session[c].startedAt > Lifetime

TunnelExpired(c) == clock - session[c].startedAt >= Lifetime

(* The connections after conn.Close of d.  Mutant: nothing is closed.       *)
KeptOpen(d) == open

Closed(d) == [e \in Conn |-> open[e] /\ e # d]

(* The test of removeTunnel.  Mutant: any tunnel of the session will do.    *)
SessionServed(c) == bySession[session[c].id] # None

StillOwner(c) == bySession[session[c].id] = c

(* m.tunnels after removeTunnel.  Mutant: the delete is forgotten.          *)
StillRouted(c) == tunnels

Unrouted(c) == [tunnels EXCEPT ![session[c].sub] = None]

(* Register returns at an error, before it wrote the row or (CountRequests) *)
(* after.                                                                   *)
MayFail(c) == \/ stage[c] \in {"resolve", "upsert"}
              \/ DBFaults /\ stage[c] = "install"

-----------------------------------------------------------------------------

Init ==
  /\ up = TRUE
  /\ now = 0
  /\ row = [s \in Conn |-> NoRow]
  /\ tunnels = [x \in Sub |-> None]
  /\ bySession = [s \in Conn |-> None]
  /\ stage = [c \in Conn |-> "fresh"]
  /\ session = [c \in Conn |-> [id |-> c, sub |-> None, startedAt |-> 0]]
  /\ presented = [c \in Conn |-> None]
  /\ open = [c \in Conn |-> TRUE]
  /\ revoking = None
  /\ revoked = {}
  /\ round = "read"
  /\ clock = 0
  /\ expired = {}

(* Register, up to and including validateRegistration, for a client that    *)
(* asks for a new tunnel.                                                   *)
AdmitNew(c) ==
  /\ up /\ stage[c] = "fresh" /\ RegisterMuFree
  /\ CheckHostedCapacity(c)
  /\ stage' = [stage EXCEPT ![c] = "resolve"]
  /\ UNCHANGED <<up, now, row, tunnels, bySession, session, presented, open,
                 revoking, revoked, retention>>

(* The same for a client that resumes session s with a token it was given   *)
(* earlier, by a Registered reply: no capacity is checked, the stored row   *)
(* decides.                                                                 *)
AdmitResume(c, s, token) ==
  /\ up /\ stage[c] = "fresh" /\ RegisterMuFree
  /\ stage[token] \in Installed
  /\ ValidateResume(s, token)
  /\ stage' = [stage EXCEPT ![c] = "resolve"]
  /\ session' = [session EXCEPT ![c] = Claimed(c, s)]
  /\ presented' = [presented EXCEPT ![c] = token]
  /\ UNCHANGED <<up, now, row, tunnels, bySession, open, revoking, revoked,
                 retention>>

(* Register refuses: paused, over a rate, over capacity, a bad port or a    *)
(* bad resume.  The rates are the subject of RateLimit, so a refusal is     *)
(* possible whenever Register may start.                                    *)
Refuse(c) ==
  /\ up /\ stage[c] = "fresh" /\ RegisterMuFree
  /\ stage' = [stage EXCEPT ![c] = "refused"]
  /\ open' = [open EXCEPT ![c] = FALSE]
  /\ UNCHANGED <<up, now, row, tunnels, bySession, session, presented,
                 revoking, revoked, retention>>

(* resolveSession for a new tunnel: newSession and allocateHostedSubdomain. *)
(* The code only asks the sessions table whether a name is taken; that 64   *)
(* random bits do not hit a routed name without a row is assumed.           *)
ResolveNew(c) ==
  /\ stage[c] = "resolve" /\ IsNew(c)
  /\ \E x \in Sub :
       /\ ~SubdomainExists(x) /\ tunnels[x] = None
       /\ session' = [session EXCEPT ![c] = Drawn(c, x)]
  /\ stage' = [stage EXCEPT ![c] = "upsert"]
  /\ UNCHANGED <<up, now, row, tunnels, bySession, presented, open,
                 revoking, revoked, retention>>

(* resumeSession reads the row a second time and keeps its identity.        *)
ResolveResume(c) ==
  /\ stage[c] = "resolve" /\ ~IsNew(c)
  /\ row[session[c].id] # NoRow
  /\ session' = [session EXCEPT ![c] = Resumed(c)]
  /\ stage' = [stage EXCEPT ![c] = "upsert"]
  /\ UNCHANGED <<up, now, row, tunnels, bySession, presented, open,
                 revoking, revoked, retention>>

(* UpsertSession: the new tunnel token replaces the old one, ended_at is    *)
(* cleared.                                                                 *)
Upsert(c) ==
  /\ stage[c] = "upsert"
  /\ row' = [row EXCEPT ![session[c].id] = Stored(c)]
  /\ stage' = [stage EXCEPT ![c] = "install"]
  /\ UNCHANGED <<up, now, tunnels, bySession, session, presented, open,
                 revoking, revoked, retention>>

(* An error after the admission: the row of the resume is gone, no free     *)
(* name in five draws, a failing statement.  Only CountRequests fails after *)
(* the row was written.                                                     *)
RegisterFail(c) ==
  /\ MayFail(c)
  /\ stage' = [stage EXCEPT ![c] = "refused"]
  /\ open' = [open EXCEPT ![c] = FALSE]
  /\ UNCHANGED <<up, now, row, tunnels, bySession, session, presented,
                 revoking, revoked, retention>>

(* installTunnel closes the connection it replaces; readLoop starts and     *)
(* Register returns.                                                        *)
Install(c) ==
  /\ stage[c] = "install"
  /\ open' = Closed(bySession[session[c].id])
  /\ tunnels' = [tunnels EXCEPT ![session[c].sub] = c]
  /\ bySession' = [bySession EXCEPT ![session[c].id] = c]
  /\ stage' = [stage EXCEPT ![c] = "live"]
  /\ UNCHANGED <<up, now, row, session, presented, revoking, revoked,
                 retention>>

(* The client or the network ends the connection.                           *)
PeerClose(c) ==
  /\ stage[c] \in InRegister \union {"live"} /\ open[c]
  /\ open' = [open EXCEPT ![c] = FALSE]
  /\ UNCHANGED <<up, now, row, tunnels, bySession, stage, session,
                 presented, revoking, revoked, retention>>

(* readLoop fails and runs closeTunnel: the part of removeTunnel under m.mu *)
RemoveTunnel(c) ==
  /\ stage[c] = "live" /\ ~open[c]
  /\ \/ /\ StillOwner(c)
        /\ tunnels' = Unrouted(c)
        /\ bySession' = [bySession EXCEPT ![session[c].id] = None]
        /\ stage' = [stage EXCEPT ![c] = "removed"]
     \/ /\ ~StillOwner(c)
        /\ stage' = [stage EXCEPT ![c] = "gone"]
        /\ UNCHANGED <<tunnels, bySession>>
  /\ UNCHANGED <<up, now, row, session, presented, open, revoking, revoked,
                 retention>>

(* ... and the EndSession that follows the unlock; its error is ignored.    *)
EndSession(c) ==
  /\ stage[c] = "removed"
  /\ \/ row' = [row EXCEPT ![session[c].id] = Ended(session[c].id)]
     \/ DBFaults /\ UNCHANGED row
  /\ stage' = [stage EXCEPT ![c] = "gone"]
  /\ UNCHANGED <<up, now, tunnels, bySession, session, presented, open,
                 revoking, revoked, retention>>

-----------------------------------------------------------------------------
(* The operator, the retention loop and the process.                        *)

(* revokeHosted: the row first ...                                          *)
RevokeRow(s) ==
  /\ up /\ RegisterMuFree /\ row[s] # NoRow
  /\ row' = [row EXCEPT ![s] = RevokedRow(s)]
  /\ revoking' = s
  /\ revoked' = revoked \union {s}
  /\ UNCHANGED <<up, now, tunnels, bySession, stage, session, presented,
                 open, retention>>

(* ... then the connection that FindBySession returns, if any.              *)
RevokeClose ==
  /\ revoking # None
  /\ open' = Closed(bySession[revoking])
  /\ revoking' = None
  /\ UNCHANGED <<up, now, row, tunnels, bySession, stage, session,
                 presented, revoked, retention>>

(* A round of runRetention holds no lock from one step to the next.  It     *)
(* reads the clock for expireHostedTunnels ...                              *)
ReadTime ==
  /\ up /\ round = "read"
  /\ clock' = now
  /\ round' = "list"
  /\ UNCHANGED <<registry, expired>>

(* ... which lists the expired tunnels under m.mu ...                       *)
ListExpired ==
  /\ round = "list"
  /\ expired' = {c \in Conn : StillOwner(c) /\ TunnelExpired(c)}
  /\ round' = "close" /\ clock' = 0
  /\ UNCHANGED registry

(* ... and closes their connections one by one, after the unlock.           *)
CloseExpired(c) ==
  /\ c \in expired
  /\ open' = Closed(c)
  /\ expired' = expired \ {c}
  /\ UNCHANGED <<up, now, row, tunnels, bySession, stage, session, presented,
                 revoking, revoked, round, clock>>

(* The cutoff comes from a clock of its own ...                             *)
ReadCutoff ==
  /\ round = "close" /\ expired = {}
  /\ clock' = now
  /\ round' = "prune"
  /\ UNCHANGED <<registry, expired>>

(* ... and is the cutoff when PruneHostedBefore comes to the sessions.  It  *)
(* may fail before (a row that gets a new request between its deletes).     *)
Prune ==
  /\ round = "prune"
  /\ \/ row' = [s \in Conn |-> IF Prunable(s) THEN NoRow ELSE row[s]]
     \/ UNCHANGED row
  /\ round' = "read" /\ clock' = 0
  /\ UNCHANGED <<up, now, tunnels, bySession, stage, session, presented, open,
                 revoking, revoked, expired>>

(* The process ends, by a crash or by shutdown: connections and maps go     *)
(* with it, the table stays.                                                *)
Crash ==
  /\ up
  /\ up' = FALSE
  /\ tunnels' = [x \in Sub |-> None]
  /\ bySession' = [s \in Conn |-> None]
  /\ stage' = [c \in Conn |-> IF stage[c] \in InRegister THEN "refused"
                              ELSE IF stage[c] \in Installed THEN "gone"
                              ELSE stage[c]]
  /\ open' = [c \in Conn |-> stage[c] = "fresh"]
  /\ revoking' = None
  /\ round' = "read" /\ clock' = 0 /\ expired' = {}
  /\ UNCHANGED <<now, row, session, presented, revoked>>

(* New: EndOrphanedHostedSessions, then the server listens.                 *)
Start ==
  /\ ~up
  /\ up' = TRUE
  /\ row' = [s \in Conn |-> OrphanEnded(s)]
  /\ UNCHANGED <<now, tunnels, bySession, stage, session, presented, open,
                 revoking, revoked, retention>>

Tick ==
  /\ now < MaxTime
  /\ now' = now + 1
  /\ UNCHANGED <<up, row, tunnels, bySession, stage, session, presented,
                 open, revoking, revoked, retention>>

RetentionStep == \/ ReadTime \/ ListExpired \/ ReadCutoff \/ Prune
                 \/ \E c \in Conn : CloseExpired(c)

Next ==
  \/ \E c \in Conn : \/ AdmitNew(c) \/ Refuse(c)
                     \/ \E s, token \in Conn : AdmitResume(c, s, token)
                     \/ ResolveNew(c) \/ ResolveResume(c) \/ Upsert(c)
                     \/ RegisterFail(c) \/ Install(c)
                     \/ PeerClose(c) \/ RemoveTunnel(c) \/ EndSession(c)
                     \/ RevokeRow(c)
  \/ RevokeClose \/ RetentionStep \/ Crash \/ Start \/ Tick

(* The steps of Register once it was admitted: it always returns.           *)
RegisterStep(c) == \/ ResolveNew(c) \/ ResolveResume(c) \/ Upsert(c)
                   \/ RegisterFail(c) \/ Install(c)

(* Only goroutines of the running server are fair: a Register under way, a  *)
(* readLoop that has failed, a revocation under way, the retention ticker.  *)
Fairness == /\ \A c \in Conn : /\ WF_vars(RegisterStep(c))
                               /\ WF_vars(RemoveTunnel(c))
                               /\ WF_vars(EndSession(c))
            /\ WF_vars(RevokeClose)
            /\ WF_vars(RetentionStep)

Spec     == Init /\ [][Next]_vars
FairSpec == Spec /\ Fairness

-----------------------------------------------------------------------------

(* Every variable has its type.                                             *)
TypeOK ==
  /\ up \in BOOLEAN /\ now \in Nat
  /\ row \in [Conn -> Row \union {NoRow}]
  /\ tunnels \in [Sub -> Conn \union {None}]
  /\ bySession \in [Conn -> Conn \union {None}]
  /\ stage \in [Conn -> Stages]
  /\ session \in [Conn -> [id : Conn, sub : Sub \union {None}, startedAt : Nat]]
  /\ presented \in [Conn -> Conn \union {None}]
  /\ open \in [Conn -> BOOLEAN]
  /\ revoking \in Conn \union {None}
  /\ revoked \subseteq Conn
  /\ round \in {"read", "list", "close", "prune"}
  /\ clock \in Nat
  /\ expired \subseteq Conn

(* The two maps agree (installTunnel, removeTunnel, line 276 and 366): the  *)
(* tunnel a host name reaches is the tunnel its session owns, whatever      *)
(* resumes, removals and replaced readLoops did in between.                 *)
RoutingConsistent ==
  \A c \in Conn :
    /\ bySession[session[c].id] = c => tunnels[session[c].sub] = c
    /\ \A x \in Sub : tunnels[x] = c => /\ session[c].sub = x
                                        /\ bySession[session[c].id] = c

(* A session has one open tunnel at most: a readLoop whose connection is    *)
(* still up belongs to the tunnel the registry serves, so a resumed session *)
(* never leaves a second client attached (line 278).                        *)
OneOpenTunnel ==
  \A c \in Conn :
    stage[c] = "live" /\ open[c] => bySession[session[c].id] = c

(* A resume keeps the URL and does not extend the lifetime (line 254): all  *)
(* tunnels of a session share its name and its start.                       *)
IdentityKept ==
  \A c, d \in Conn :
    /\ stage[c] \in Installed /\ stage[d] \in Installed
    /\ session[c].id = session[d].id
    => session[c] = session[d]

(* The client that holds the tunnel holds the token that will resume it: a  *)
(* different token is stored only while a newer registration is about to    *)
(* replace the tunnel, and none after a revocation (line 111 to 121).       *)
TokenCurrent ==
  \A s \in Conn :
    /\ bySession[s] # None /\ row[s] # NoRow
    => \/ row[s].token \in {bySession[s], NoToken}
       \/ \E d \in Conn : stage[d] = "install" /\ session[d].id = s

(* A resume token buys one tunnel: two clients that present the same token  *)
(* are never both installed, however their registrations overlap (line 95). *)
TokenSpentOnce ==
  \A c, d \in Conn :
    /\ stage[c] \in Installed /\ stage[d] \in Installed
    /\ presented[c] = presented[d] /\ presented[c] # None
    => c = d

(* After revokeHosted returned, the session has no open tunnel and no token *)
(* to come back with (line 212).                                            *)
RevokedNotServed ==
  \A s \in revoked :
    /\ row[s] # NoRow => row[s].token = NoToken
    /\ bySession[s] # None /\ revoking # s => ~open[bySession[s]]

(* A row without an end belongs to a tunnel that is registered, is being    *)
(* registered, or is about to be ended; else only a restart would clean it  *)
(* up (line 374, EndOrphanedHostedSessions).                                *)
NoOrphanRow ==
  \A s \in Conn :
    /\ up /\ row[s] # NoRow
    => \/ row[s].ended # Never
       \/ bySession[s] # None
       \/ \E c \in Conn : session[c].id = s /\ stage[c] \in {"install", "removed"}

(* No registration gives a revoked session a tunnel again.                  *)
RevocationFinal ==
  [][\A s \in revoked : bySession'[s] \in {bySession[s], None}]_vars

(* A new tunnel is installed only within both limits, although they were    *)
(* checked several steps earlier (line 143 and 194).                        *)
NewWithinCapacity ==
  [][\A c \in Conn :
       Install(c) /\ IsNew(c) => /\ Cardinality(Active') <= MaxTunnels
                                 /\ Cardinality(ActiveFrom(SourceIP[c])')
                                      <= MaxPerIP]_vars

(* The registry implements the tenure of sessions.                          *)
Tenure == INSTANCE SessionTenure WITH
  Session <- Conn, Connection <- Conn,
  owner <- bySession,
  spent <- {c \in Conn : stage[c] \in Installed}

TenureSpec == Tenure!Spec

(* A session that was revoked loses its tunnel.                             *)
RevokedGoes == \A s \in Conn : s \in revoked ~> bySession[s] = None

(* A tunnel that has reached its lifetime is closed and removed, and so is  *)
(* one that a resume replaced.                                              *)
ExpiredGoes ==
  \A c \in Conn :
    stage[c] = "live" /\ now - session[c].startedAt >= Lifetime
      ~> stage[c] # "live"

(* cmd/server/main.go line 45, "quick tunnel capture retention after        *)
(* disconnect": the retention loop deletes no session (and with it none of  *)
(* its captures) whose tunnel is connected.                                 *)
PruneOnlyDisconnected ==
  [][\A s \in Connected \ revoked : row[s] # NoRow => row'[s] # NoRow]_vars

(* What holds instead: no session is deleted before the retention period    *)
(* has passed since it began, connected or not, although its end may have   *)
(* been written late and the cutoff computed early (sessions.go line 126).  *)
PruneSparesYoung ==
  [][\A s \in Conn : row[s] # NoRow /\ row'[s] = NoRow
                     => now - row[s].started > Retention]_vars
=============================================================================
