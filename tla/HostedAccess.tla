---------------------------- MODULE HostedAccess ----------------------------
(***************************************************************************)
(* Who gets into a session's dashboard and who gets a tunnel at all: the   *)
(* hand-off in the dashboard link and the cookie it is exchanged for       *)
(* (newDashboardHandoff, claimDashboardHandoff, authorize), the auth token *)
(* that each registration of a session replaces, the operator's revoked *)
(* and the operator's pause, which is kept in memory and in the database.  *)
(*                                                                         *)
(* Registrations are numbered in the order in which they take registerMu.  *)
(* Each draws an auth token and, at its end, a hand-off; both are named by *)
(* its number.  The rest of Register is the subject of TunnelRegistry.     *)
(***************************************************************************)
EXTENDS Integers, FiniteSets

CONSTANTS
  Session,   \* session IDs
  MaxReg,    \* bound: registrations
  Browser,   \* claims of a hand-off
  Operator,  \* requests of operators to pause or to resume
  None       \* no session, no token

Reg == 1..MaxReg

ASSUME AccessAssumption ==
  /\ MaxReg \in Nat
  /\ None \notin Session /\ None \notin Reg

VARIABLES
  count,     \* how many registrations there were
  stage,     \* how far each has come
  sid,       \* the session it is for
  auth,      \* the auth_token of each session's row; None if it is empty
  tunnel,    \* m.bySession: the registration that serves a session
  handoffs,  \* m.handoffs: the hand-offs that can still be found ...
  expired,   \* ... and those that are older than five minutes
  at,        \* how far each claim has come
  link,      \* the hand-off it presents
  wanted,    \* the session it names
  cookie,    \* the auth token it is answered with
  revoked,   \* history: the sessions revoked so far
  table,     \* hosted_registrations_paused in the database
  memory,    \* m.registrationsPaused
  writing,   \* an operator's request between the table and the memory
  overlap    \* history: did requests run at once since the last one that
             \* began alone?

registry == <<count, stage, sid, auth, tunnel>>
claims   == <<handoffs, expired, at, link, wanted, cookie>>
pause    == <<table, memory, writing, overlap>>
vars     == <<registry, claims, revoked, pause>>

-----------------------------------------------------------------------------

(* Mutant: Register and revokeHosted take no lock.                          *)
NoRegisterMu == TRUE

RegisterMuFree == \A r \in Reg : stage[r] \in {"new", "done", "lost", "cut"}

(* The auth token that UpsertSession stores.  Mutant: a resume keeps the    *)
(* old one.                                                                 *)
KeptAuth(r) == IF auth[sid[r]] = None THEN r ELSE auth[sid[r]]

NewAuth(r) == r

(* The test of claimDashboardHandoff.  Mutant: any session will do.         *)
AnySession(s, r) == TRUE

OfSession(s, r) == sid[r] = s

(* The flag that New reads.  Mutant: registrations start open.              *)
OpenAtStart == FALSE

PausedAtStart == table

-----------------------------------------------------------------------------

Init ==
  /\ count = 0
  /\ stage = [r \in Reg |-> "new"]
  /\ sid = [r \in Reg |-> None]
  /\ auth = [s \in Session |-> None]
  /\ tunnel = [s \in Session |-> None]
  /\ handoffs = {} /\ expired = {}
  /\ at = [b \in Browser |-> "start"]
  /\ link = [b \in Browser |-> None]
  /\ wanted = [b \in Browser |-> None]
  /\ cookie = [b \in Browser |-> None]
  /\ revoked = {}
  /\ table = FALSE /\ memory = FALSE
  /\ writing = [o \in Operator |-> "no"]
  /\ overlap = FALSE

(* ------------------------------- Register ------------------------------- *)

(* A new session, unless the operator has paused them, or a resume, which   *)
(* its row still allows.                                                    *)
Admit(s) ==
  /\ RegisterMuFree /\ count < MaxReg
  /\ \/ ~memory /\ \A r \in Reg : sid[r] # s
     \/ auth[s] # None
  /\ count' = count + 1
  /\ stage' = [stage EXCEPT ![count'] = "admitted"]
  /\ sid' = [sid EXCEPT ![count'] = s]
  /\ UNCHANGED <<auth, tunnel, claims, revoked, pause>>

(* UpsertSession.                                                           *)
Store(r) ==
  /\ stage[r] = "admitted"
  /\ stage' = [stage EXCEPT ![r] = "stored"]
  /\ auth' = [auth EXCEPT ![sid[r]] = NewAuth(r)]
  /\ UNCHANGED <<count, sid, tunnel, claims, revoked, pause>>

(* installTunnel.                                                           *)
Install(r) ==
  /\ stage[r] = "stored"
  /\ stage' = [stage EXCEPT ![r] = "installed"]
  /\ tunnel' = [tunnel EXCEPT ![sid[r]] = r]
  /\ UNCHANGED <<count, sid, auth, claims, revoked, pause>>

(* The statement of UpsertSession or the one of CountRequests fails.        *)
Fail(r) ==
  /\ stage[r] \in {"admitted", "stored"}
  /\ stage' = [stage EXCEPT ![r] = "lost"]
  /\ UNCHANGED <<count, sid, auth, tunnel, claims, revoked, pause>>

(* newDashboardHandoff, with its sweep.                                     *)
Issue(r) ==
  /\ stage[r] = "installed"
  /\ stage' = [stage EXCEPT ![r] = "done"]
  /\ handoffs' = (handoffs \ expired) \union {r}
  /\ UNCHANGED <<count, sid, auth, tunnel, expired, at, link, wanted, cookie,
                 revoked, pause>>

(* Five minutes pass.                                                       *)
Expire(r) ==
  /\ r \in handoffs \ expired
  /\ expired' = expired \union {r}
  /\ UNCHANGED <<registry, handoffs, at, link, wanted, cookie, revoked,
                 pause>>

(* The connection of the session's tunnel ends.                             *)
Remove(s) ==
  /\ tunnel[s] # None
  /\ tunnel' = [tunnel EXCEPT ![s] = None]
  /\ UNCHANGED <<count, stage, sid, auth, claims, revoked, pause>>

(* -------------------------------- claims -------------------------------- *)

(* What claimDashboardHandoff leaves in the map.  Mutant: everything.       *)
LeftInPlace(s, r) == handoffs

AfterClaim(s, r) == IF OfSession(s, r) THEN handoffs \ {r} ELSE handoffs

(* claimDashboardHandoff under handoffMu, for a link that was printed ...   *)
Claim(b, s, r) ==
  /\ at[b] = "start" /\ stage[r] = "done"
  /\ link' = [link EXCEPT ![b] = r]
  /\ wanted' = [wanted EXCEPT ![b] = s]
  /\ handoffs' = AfterClaim(s, r)
  /\ at' = [at EXCEPT ![b] = IF r \in handoffs /\ OfSession(s, r)
                             THEN "found" ELSE "denied"]
  /\ UNCHANGED <<registry, expired, cookie, revoked, pause>>

(* ... and after it: the token of the tunnel that FindBySession returns is  *)
(* the cookie of handleHostedClaim; without one, or five minutes after the  *)
(* link was made, there is none.                                            *)
LetIn(b) ==
  /\ at[b] = "found" /\ link[b] \notin expired /\ tunnel[wanted[b]] # None
  /\ cookie' = [cookie EXCEPT ![b] = tunnel[wanted[b]]]
  /\ at' = [at EXCEPT ![b] = "in"]
  /\ UNCHANGED <<registry, handoffs, expired, link, wanted, revoked, pause>>

Deny(b) ==
  /\ at[b] = "found" /\ (link[b] \in expired \/ tunnel[wanted[b]] = None)
  /\ at' = [at EXCEPT ![b] = "denied"]
  /\ UNCHANGED <<registry, handoffs, expired, link, wanted, cookie, revoked,
                 pause>>

(* authorize lets a request with this cookie through.                       *)
Authorized(b) == at[b] = "in" /\ auth[wanted[b]] = cookie[b]

(* ------------------------------- operators ------------------------------ *)

(* revokeHosted of a session that has a row; the close of the connection    *)
(* makes a Remove follow.                                                   *)
Revoke(s) ==
  /\ RegisterMuFree /\ (auth[s] # None \/ s \in revoked)
  /\ auth' = [auth EXCEPT ![s] = None]
  /\ revoked' = revoked \union {s}
  /\ UNCHANGED <<count, stage, sid, tunnel, claims, pause>>

(* handleAdminRegistrations: the table ...                                  *)
SetTable(o, v) ==
  /\ writing[o] = "no"
  /\ table' = v
  /\ writing' = [writing EXCEPT ![o] = IF v THEN "pause" ELSE "resume"]
  /\ overlap' = \E p \in Operator : writing[p] # "no"
  /\ UNCHANGED <<registry, claims, revoked, memory>>

(* ... and the flag in memory.                                              *)
SetMemory(o) ==
  /\ writing[o] # "no"
  /\ memory' = (writing[o] = "pause")
  /\ writing' = [writing EXCEPT ![o] = "no"]
  /\ UNCHANGED <<registry, claims, revoked, table, overlap>>

(* The server ends and starts again: New reads the flag, the links that     *)
(* were not followed are void, the cookies are not.  A registration that    *)
(* was under way is lost, or, if it had its tunnel already, cut off from    *)
(* its link.                                                                *)
Restart ==
  /\ memory' = PausedAtStart
  /\ writing' = [o \in Operator |-> "no"]
  /\ overlap' = FALSE
  /\ handoffs' = {}
  /\ at' = [b \in Browser |-> IF at[b] = "found" THEN "denied" ELSE at[b]]
  /\ stage' = [r \in Reg |->
                 CASE stage[r] = "installed" -> "cut"
                   [] stage[r] \in {"admitted", "stored"} -> "lost"
                   [] OTHER -> stage[r]]
  /\ tunnel' = [s \in Session |-> None]
  /\ UNCHANGED <<count, sid, auth, expired, link, wanted, cookie, revoked,
                 table>>

Next ==
  \/ \E s \in Session : Admit(s) \/ Remove(s) \/ Revoke(s)
  \/ \E r \in Reg : Store(r) \/ Install(r) \/ Fail(r) \/ Issue(r)
                    \/ Expire(r)
  \/ \E b \in Browser : \/ \E s \in Session, r \in Reg : Claim(b, s, r)
                        \/ LetIn(b) \/ Deny(b)
  \/ \E o \in Operator : SetMemory(o) \/ \E v \in BOOLEAN : SetTable(o, v)
  \/ Restart

Spec == Init /\ [][Next]_vars

-----------------------------------------------------------------------------

(* Every variable has its type.                                             *)
TypeOK ==
  /\ count \in 0..MaxReg
  /\ stage \in [Reg -> {"new", "admitted", "stored", "installed", "done",
                     "lost", "cut"}]
  /\ sid \in [Reg -> Session \union {None}]
  /\ auth \in [Session -> Reg \union {None}]
  /\ tunnel \in [Session -> Reg \union {None}]
  /\ handoffs \subseteq Reg /\ expired \subseteq Reg
  /\ at \in [Browser -> {"start", "found", "in", "denied"}]
  /\ link \in [Browser -> Reg \union {None}]
  /\ wanted \in [Browser -> Session \union {None}]
  /\ cookie \in [Browser -> Reg \union {None}]
  /\ revoked \subseteq Session
  /\ table \in BOOLEAN /\ memory \in BOOLEAN /\ overlap \in BOOLEAN
  /\ writing \in [Operator -> {"no", "pause", "resume"}]

(* A dashboard link lets one browser in, however many follow it at once,    *)
(* and into its own session: the cookie is a token of that session, and     *)
(* never one older than the link (tunnel.go line 308).                      *)
LinkLetsOneIn ==
  \A b \in Browser :
    at[b] = "in" =>
      /\ sid[cookie[b]] = sid[link[b]] /\ cookie[b] >= link[b]
      /\ \A d \in Browser \ {b} : at[d] = "in" => link[d] # link[b]

(* A browser is let in with a token that authorize knows, unless the        *)
(* session is revoked or a resume of it has stored its token and has not,   *)
(* or will never, put its tunnel there (tunnel.go lines 111 and 328).       *)
CookieFitsRow ==
  [][\A b \in Browser :
       at[b] # "in" /\ at'[b] = "in"
       => \/ auth[wanted[b]] = cookie'[b]
          \/ wanted[b] \in revoked
          \/ stage[auth[wanted[b]]] \in {"stored", "lost"}]_vars

(* A revoked session has no dashboard any more: no cookie that was or will  *)
(* be handed out opens it, whatever registration was under way (tunnel.go   *)
(* line 212).                                                               *)
RevokedShut ==
  \A s \in revoked :
    /\ auth[s] = None
    /\ \A b \in Browser : wanted[b] = s => ~Authorized(b)

(* Operators that take turns leave the flag in memory and the one in the    *)
(* table equal, a request that began alone settles what earlier ones left   *)
(* unequal, and a restart keeps it (http.go line 92, server.go line 49).    *)
PauseKept ==
  ~overlap /\ (\A o \in Operator : writing[o] = "no") => memory = table

(* Seen from the dashboards too, sessions are served as SessionTenure says: *)
(* registrations are its connections, one per session at a time and each    *)
(* for one term, and a revoked session is only released (tunnel.go lines    *)
(* 276 and 212).                                                            *)
Tenure == INSTANCE SessionTenure WITH
  Connection <- Reg,
  owner <- tunnel,
  spent <- {r \in Reg : stage[r] \in {"installed", "done", "cut"}}

AccessTenure == Tenure!Spec
=============================================================================
