----------------------------- MODULE Handshake -----------------------------
(***************************************************************************)
(* The two ends of a tunnel connection: the client's loop of dialling,     *)
(* registering and serving (internal/client/client.go), the server's       *)
(* handler of a connection with its slot (internal/server/binary.go), and  *)
(* the frames between them (internal/protocol).                            *)
(*                                                                         *)
(* The client remembers a session and a token across connections; the      *)
(* server replaces the token in each registration.  The two agree only if  *)
(* the Registered frame arrives, and that frame is written outside         *)
(* writeMu, when public requests can already reach the tunnel.             *)
(*                                                                         *)
(* Register is one step here, as it runs under registerMu, and fails       *)
(* before or after it wrote the row; what happens inside is the subject of *)
(* TunnelRegistry.  A tunnel leaves the map and then ends its session, and *)
(* a resume can come in between.  Tokens are named by the connection that  *)
(* registered them.  Faults are not bounded: names that nobody remembers   *)
(* are drawn again.                                                        *)
(***************************************************************************)
EXTENDS Integers, FiniteSets, Sequences

CONSTANTS
  Client,     \* client processes
  Conn,       \* connections; also tunnel tokens
  Session,    \* session IDs
  Visitor,    \* public requests
  Slots,      \* the capacity of binarySlots
  WireCap,    \* Write calls that the socket holds before it blocks
  None        \* no connection, no session, no token

ASSUME HandshakeAssumption ==
  /\ IsFiniteSet(Conn)
  /\ None \notin Conn /\ None \notin Session
  /\ Session \cap Visitor = {}
  /\ {"rejected", "busy"} \cap (Session \union Visitor) = {}
  /\ Slots \in Nat /\ WireCap \in Nat

VARIABLES
  at,           \* where each client is in runOnce
  conn,         \* its connection
  sessionID,    \* what Run remembers: the session ...
  resumeToken,  \* ... and its token
  asked,        \* reg.SessionID of each connection
  presented,    \* reg.ResumeToken
  session,      \* the session of its tunnel
  stage,        \* how far its handleBinaryConn has come
  loop,         \* is its readLoop running?
  ending,       \* the session that its removeTunnel has still to end
  open,         \* is the connection up?
  wire,         \* the writes to it that the client has not read
  writing,      \* the connection whose writeMu a public request holds
  row,          \* the sessions table
  tunnel,       \* m.bySession
  known         \* the sessions whose URL somebody has seen

client == <<at, conn, sessionID, resumeToken>>
server == <<asked, presented, session, stage, loop, ending, writing, row,
            tunnel>>
vars   == <<client, server, open, wire, known>>

(* A row counts only as long as it can be resumed.                          *)
NoRow == [token |-> None, state |-> "none"]

Stages == {"free", "backlog", "reading", "reply", "body", "waiting"}

(* One call of Write: Encode makes two, a length and an envelope.  The      *)
(* Registered frame is named by its session, a request by its visitor.      *)
Reply == Session \union {"rejected", "busy"}
Write == [of : Reply \union Visitor, part : {"length", "envelope"}]

Frame(f) == <<[of |-> f, part |-> "length"], [of |-> f, part |-> "envelope"]>>

-----------------------------------------------------------------------------

(* Connections whose handler holds a slot.                                  *)
InUse == {c \in Conn : stage[c] \notin {"free", "backlog"}}

(* Names are drawn at random, so one that means nothing any more is as good *)
(* as a new one.                                                            *)
UnusedConn(c) ==
  /\ stage[c] = "free" /\ ~loop[c] /\ ending[c] = None
  /\ \A k \in Client : conn[k] # c /\ resumeToken[k] # c
  /\ \A d \in Conn : presented[d] # c
  /\ \A s \in Session : row[s].token # c
  /\ \A v \in Visitor : writing[v] # c

UnusedSession(s) ==
  /\ row[s] = NoRow
  /\ \A k \in Client : sessionID[k] # s
  /\ \A c \in Conn : /\ s \notin {asked[c], session[c], ending[c]}
                     /\ \A i \in DOMAIN wire[c] : wire[c][i].of # s

(* validateResume.  Mutant: the token is not compared.                      *)
ResumableByID(c) == row[asked[c]].state \in {"open", "ended"}

Resumable(c) == /\ row[asked[c]].state \in {"open", "ended"}
                /\ row[asked[c]].token = presented[c]

(* EndSession, or EndOrphanedHostedSessions.                                *)
Ended(s) == IF row[s] = NoRow THEN NoRow ELSE [row[s] EXCEPT !.state = "ended"]

CanWrite(c) == Len(wire[c]) < WireCap \/ ~open[c]

(* The Register frame of c, on its way or in the handler's reg, is used up. *)
Consumed(c) == /\ asked' = [asked EXCEPT ![c] = None]
               /\ presented' = [presented EXCEPT ![c] = None]

(* What arrives of a write to connection c; a dead one swallows it.         *)
Written(c, writes) == IF open[c] THEN [wire EXCEPT ![c] = @ \o writes] ELSE wire

WriteMuFree(c) == \A v \in Visitor : writing[v] # c

(* Decode gets a frame from what it reads: the bytes that a length counts   *)
(* are the envelope it was written with.                                    *)
Whole(c) == /\ Head(wire[c]).part = "length"
            /\ wire[c][2] = [Head(wire[c]) EXCEPT !.part = "envelope"]

Readable(c) == Len(wire[c]) >= 2

(* Mutant: the envelope is not looked at.                                   *)
LengthIn(c, set) == Readable(c) /\ Head(wire[c]).of \in set

FirstIn(c, set) == Readable(c) /\ Whole(c) /\ Head(wire[c]).of \in set

(* The token that Run keeps after a registration.  Mutant: the first one.   *)
KeptToken(k) == IF resumeToken[k] = None THEN conn[k] ELSE resumeToken[k]

NewToken(k) == conn[k]

(* What Run remembers after a rejected resume.  Mutant: all of it.          *)
Remembered(f) == f

Forgotten(f) == None

-----------------------------------------------------------------------------

Init ==
  /\ at = [k \in Client |-> "away"]
  /\ conn = [k \in Client |-> None]
  /\ sessionID = [k \in Client |-> None]
  /\ resumeToken = [k \in Client |-> None]
  /\ asked = [c \in Conn |-> None]
  /\ presented = [c \in Conn |-> None]
  /\ session = [c \in Conn |-> None]
  /\ stage = [c \in Conn |-> "free"]
  /\ loop = [c \in Conn |-> FALSE]
  /\ ending = [c \in Conn |-> None]
  /\ open = [c \in Conn |-> FALSE]
  /\ wire = [c \in Conn |-> <<>>]
  /\ writing = [v \in Visitor |-> None]
  /\ row = [s \in Session |-> NoRow]
  /\ tunnel = [s \in Session |-> None]
  /\ known = {}

(* ------------------------------ the client ------------------------------ *)

(* dialServer, and registerTunnel up to its Encode, after the three seconds *)
(* of Run.                                                                  *)
Dial(k, c) ==
  /\ at[k] = "away" /\ UnusedConn(c)
  /\ at' = [at EXCEPT ![k] = "waiting"]
  /\ conn' = [conn EXCEPT ![k] = c]
  /\ asked' = [asked EXCEPT ![c] = sessionID[k]]
  /\ presented' = [presented EXCEPT ![c] = resumeToken[k]]
  /\ stage' = [stage EXCEPT ![c] = "backlog"]
  /\ open' = [open EXCEPT ![c] = TRUE]
  /\ wire' = [wire EXCEPT ![c] = <<>>]
  /\ UNCHANGED <<sessionID, resumeToken, session, loop, ending, writing, row,
                 tunnel, known>>

(* runOnce returns and its deferred Close runs.                             *)
Leave(k) ==
  /\ at' = [at EXCEPT ![k] = "away"]
  /\ conn' = [conn EXCEPT ![k] = None]
  /\ open' = [open EXCEPT ![conn[k]] = FALSE]
  /\ wire' = [wire EXCEPT ![conn[k]] = <<>>]

(* registerTunnel returns the registration; runOnce stores it and serves.   *)
ReadRegistered(k) ==
  /\ at[k] = "waiting" /\ FirstIn(conn[k], Session)
  /\ at' = [at EXCEPT ![k] = "serving"]
  /\ sessionID' = [sessionID EXCEPT ![k] = Head(wire[conn[k]]).of]
  /\ resumeToken' = [resumeToken EXCEPT ![k] = NewToken(k)]
  /\ known' = known \union {Head(wire[conn[k]]).of}
  /\ wire' = [wire EXCEPT ![conn[k]] = SubSeq(@, 3, Len(@))]
  /\ UNCHANGED <<server, conn, open>>

(* One of the four messages that make a resumeRejectedError.                *)
ReadRejected(k) ==
  /\ at[k] = "waiting" /\ FirstIn(conn[k], {"rejected"})
  /\ Leave(k)
  /\ sessionID' = [sessionID EXCEPT ![k] = Forgotten(@)]
  /\ resumeToken' = [resumeToken EXCEPT ![k] = Forgotten(@)]
  /\ UNCHANGED <<server, known>>

(* Another error, an "unexpected registration response" or no frame at all. *)
ReadOther(k) ==
  /\ at[k] = "waiting" /\ Readable(conn[k])
  /\ ~FirstIn(conn[k], Session \union {"rejected"})
  /\ Leave(k)
  /\ UNCHANGED <<server, sessionID, resumeToken, known>>

(* serveTunnel takes a request, which it answers (see Forwarding).          *)
ReadRequest(k) ==
  /\ at[k] = "serving" /\ Readable(conn[k]) /\ Whole(conn[k])
  /\ wire' = [wire EXCEPT ![conn[k]] = SubSeq(@, 3, Len(@))]
  /\ UNCHANGED <<client, server, open, known>>

(* Decode fails: the connection has ended, or serveTunnel reads no frame.   *)
ReadFails(k) ==
  /\ \/ at[k] # "away" /\ ~open[conn[k]] /\ ~Readable(conn[k])
     \/ at[k] = "serving" /\ Readable(conn[k]) /\ ~Whole(conn[k])
  /\ Leave(k)
  /\ UNCHANGED <<server, sessionID, resumeToken, known>>

(* The developer stops the command and starts it again.                     *)
Rerun(k) ==
  /\ at[k] # "away"
  /\ Leave(k)
  /\ sessionID' = [sessionID EXCEPT ![k] = None]
  /\ resumeToken' = [resumeToken EXCEPT ![k] = None]
  /\ UNCHANGED <<server, known>>

(* ------------------------------ the server ------------------------------ *)

(* acceptBinary, with a slot ...                                            *)
Accept(c) ==
  /\ stage[c] = "backlog" /\ Cardinality(InUse) < Slots
  /\ stage' = [stage EXCEPT ![c] = "reading"]
  /\ UNCHANGED <<client, asked, presented, session, loop, ending, writing, row,
                 tunnel, open, wire, known>>

(* The handler returns: its slot is given back.                             *)
Returned(c) == [stage EXCEPT ![c] = "free"]

(* ... or without one.                                                      *)
AcceptFull(c) ==
  /\ stage[c] = "backlog" /\ Cardinality(InUse) >= Slots
  /\ stage' = [stage EXCEPT ![c] = "free"]
  /\ Consumed(c)
  /\ open' = [open EXCEPT ![c] = FALSE]
  /\ UNCHANGED <<client, session, loop, ending, writing, row, tunnel, wire,
                 known>>

(* The Register frame is not there, after ten seconds at the latest.        *)
NoRegister(c) ==
  /\ stage[c] = "reading"
  /\ stage' = Returned(c)
  /\ Consumed(c)
  /\ open' = [open EXCEPT ![c] = FALSE]
  /\ UNCHANGED <<client, session, loop, ending, writing, row, tunnel, wire,
                 known>>

(* Register succeeds: the row has the new token, the tunnel it replaces is  *)
(* closed, host names lead to the new one, and its readLoop starts.  Its    *)
(* client may have left meanwhile.                                          *)
Registers(c, s) ==
  /\ row' = [row EXCEPT ![s] = [token |-> c, state |-> "open"]]
  /\ open' = [d \in Conn |-> open[d] /\ d # tunnel[s]]
  /\ tunnel' = [tunnel EXCEPT ![s] = c]
  /\ session' = [session EXCEPT ![c] = s]
  /\ loop' = [loop EXCEPT ![c] = TRUE]
  /\ stage' = [stage EXCEPT ![c] = "reply"]
  /\ Consumed(c)

RegisterNew(c) ==
  /\ stage[c] = "reading" /\ asked[c] = None
  /\ \E s \in Session : /\ UnusedSession(s)
                        /\ Registers(c, s)
                        /\ known' = known \ {s}
  /\ UNCHANGED <<client, ending, writing, wire>>

RegisterResume(c) ==
  /\ stage[c] = "reading" /\ asked[c] # None
  /\ Resumable(c)
  /\ Registers(c, asked[c])
  /\ UNCHANGED <<client, ending, writing, wire, known>>

(* Register fails: an error frame, and the connection is closed.            *)
Error(c, reply) ==
  /\ stage[c] = "reading"
  /\ wire' = Written(c, Frame(reply))
  /\ open' = [open EXCEPT ![c] = FALSE]
  /\ stage' = Returned(c)
  /\ Consumed(c)
  /\ UNCHANGED <<client, session, loop, ending, writing, tunnel>>

Fails(c, reply) == Error(c, reply) /\ UNCHANGED <<row, known>>

(* A row that has ended can be refused: the grace of 30 seconds may be over. *)
RefuseResume(c) ==
  /\ asked[c] # None
  /\ ~Resumable(c) \/ row[asked[c]].state = "ended"
  /\ Fails(c, "rejected")

(* Paused, too busy, at capacity, or a failing statement; if it is the      *)
(* GetSession of a resume, that is called invalid.                          *)
RefuseBusy(c) == \/ Fails(c, "busy")
                 \/ asked[c] # None /\ Fails(c, "rejected")

(* CountRequests fails, after UpsertSession has replaced the token.         *)
FailsLate(c) ==
  /\ Error(c, "busy")
  /\ \E s \in Session :
       /\ \/ asked[c] = None /\ UnusedSession(s) /\ known' = known \ {s}
          \/ asked[c] = s /\ Resumable(c) /\ UNCHANGED known
       /\ row' = [row EXCEPT ![s] = [token |-> c, state |-> "open"]]

(* Encode of the Registered frame, directly on the connection: a length ... *)
ReplyLength(c) ==
  /\ stage[c] = "reply" /\ open[c] /\ CanWrite(c)
  /\ wire' = Written(c, <<Frame(session[c])[1]>>)
  /\ stage' = [stage EXCEPT ![c] = "body"]
  /\ UNCHANGED <<client, asked, presented, session, loop, ending, writing, row,
                 tunnel, open, known>>

(* ... and an envelope.                                                     *)
ReplyEnvelope(c) ==
  /\ stage[c] = "body" /\ open[c] /\ CanWrite(c)
  /\ wire' = Written(c, <<Frame(session[c])[2]>>)
  /\ stage' = [stage EXCEPT ![c] = "waiting"]
  /\ UNCHANGED <<client, asked, presented, session, loop, ending, writing, row,
                 tunnel, open, known>>

(* readLoop fails: tunnel.closed is closed, with which handleBinaryConn     *)
(* returns (an Encode of it fails on a dead connection), and removeTunnel   *)
(* takes the tunnel from the maps ...                                       *)
LoopEnds(c) ==
  /\ loop[c] /\ ~open[c]
  /\ loop' = [loop EXCEPT ![c] = FALSE]
  /\ stage' = Returned(c)
  /\ session' = [session EXCEPT ![c] = None]
  /\ \/ /\ tunnel[session[c]] = c
        /\ tunnel' = [tunnel EXCEPT ![session[c]] = None]
        /\ ending' = [ending EXCEPT ![c] = session[c]]
     \/ /\ tunnel[session[c]] # c
        /\ UNCHANGED <<tunnel, ending>>
  /\ UNCHANGED <<client, asked, presented, writing, row, open, wire, known>>

(* ... and ends the session after the unlock, even if a resume serves it    *)
(* again by then; that this fails goes unseen.                              *)
EndSession(c) ==
  /\ ending[c] # None
  /\ ending' = [ending EXCEPT ![c] = None]
  /\ \/ row' = [row EXCEPT ![ending[c]] = Ended(ending[c])]
     \/ UNCHANGED row
  /\ UNCHANGED <<client, asked, presented, session, stage, loop, writing,
                 tunnel, open, wire, known>>

(* send for a public request whose visitor knows the URL: the length ...    *)
SendLength(v, c) ==
  /\ writing[v] = None /\ loop[c] /\ open[c] /\ session[c] \in known
  /\ WriteMuFree(c) /\ CanWrite(c)
  /\ wire' = Written(c, <<Frame(v)[1]>>)
  /\ writing' = [writing EXCEPT ![v] = c]
  /\ UNCHANGED <<client, asked, presented, session, stage, loop, ending, row,
                 tunnel, open, known>>

(* ... and the envelope.                                                    *)
SendEnvelope(v) ==
  /\ writing[v] # None /\ CanWrite(writing[v])
  /\ wire' = Written(writing[v], <<Frame(v)[2]>>)
  /\ writing' = [writing EXCEPT ![v] = None]
  /\ UNCHANGED <<client, asked, presented, session, stage, loop, ending, row,
                 tunnel, open, known>>

(* The lifetime of a session passes, or the operator revokes it.  A         *)
(* lifetime is longer than a first registration.                            *)
Over(s) ==
  /\ row[s] # NoRow
  /\ s \in known \/ tunnel[s] = None
  /\ row' = [row EXCEPT ![s] = NoRow]
  /\ UNCHANGED <<client, asked, presented, session, stage, loop, ending,
                 writing, tunnel, open, wire, known>>

(* expireHostedTunnels, or the second half of revokeHosted.                 *)
CloseOver(s) ==
  /\ row[s] = NoRow /\ tunnel[s] # None
  /\ open' = [open EXCEPT ![tunnel[s]] = FALSE]
  /\ UNCHANGED <<client, server, wire, known>>

(* PruneHostedBefore: it looks at ended_at only, not at the tunnels.        *)
Prune(s) ==
  /\ row[s].state = "ended"
  /\ row' = [row EXCEPT ![s] = NoRow]
  /\ UNCHANGED <<client, asked, presented, session, stage, loop, ending,
                 writing, tunnel, open, wire, known>>

(* The network loses a connection, and what was on its way.                 *)
Drop(c) ==
  /\ open[c]
  /\ open' = [open EXCEPT ![c] = FALSE]
  /\ wire' = [wire EXCEPT ![c] = <<>>]
  /\ UNCHANGED <<client, server, known>>

(* The server ends and starts again.                                        *)
Restart ==
  /\ stage' = [c \in Conn |-> "free"]
  /\ loop' = [c \in Conn |-> FALSE]
  /\ open' = [c \in Conn |-> FALSE]
  /\ writing' = [v \in Visitor |-> None]
  /\ tunnel' = [s \in Session |-> None]
  /\ row' = [s \in Session |-> Ended(s)]
  /\ ending' = [c \in Conn |-> None]
  /\ asked' = [c \in Conn |-> None]
  /\ presented' = [c \in Conn |-> None]
  /\ session' = [c \in Conn |-> None]
  /\ UNCHANGED <<client, wire, known>>

-----------------------------------------------------------------------------

ClientReads(k) == \/ ReadRegistered(k) \/ ReadRejected(k) \/ ReadOther(k)
                  \/ ReadRequest(k) \/ ReadFails(k)

Handler(c) == \/ Accept(c) \/ AcceptFull(c) \/ (~open[c] /\ NoRegister(c))
              \/ RegisterNew(c) \/ RegisterResume(c) \/ RefuseResume(c)
              \/ ReplyLength(c) \/ ReplyEnvelope(c)

(* readLoop's deferred closeTunnel.                                         *)
ReadLoop(c) == LoopEnds(c) \/ EndSession(c)

RowGoes(s) == Over(s) \/ Prune(s)

Calm ==
  \/ \E k \in Client : (\E c \in Conn : Dial(k, c)) \/ ClientReads(k)
  \/ \E c \in Conn : \/ Handler(c) \/ ReadLoop(c)
                     \/ \E v \in Visitor : SendLength(v, c)
  \/ \E v \in Visitor : SendEnvelope(v)
  \/ \E s \in Session : RowGoes(s) \/ CloseOver(s)

(* What keeps a client from its tunnel: the network, a full or a paused     *)
(* server, its end, or the developer.                                       *)
Disturbance ==
  \/ \E c \in Conn : Drop(c) \/ NoRegister(c) \/ RefuseBusy(c) \/ FailsLate(c)
  \/ \E k \in Client : Rerun(k)
  \/ Restart

Next == Calm \/ Disturbance

(* Both programs run, and a session without a tunnel grows old; visitors,   *)
(* the network and the operator do as they like.                            *)
Fairness ==
  /\ \A k \in Client : /\ WF_vars(\E c \in Conn : Dial(k, c))
                       /\ WF_vars(ClientReads(k))
  /\ \A c \in Conn : WF_vars(Handler(c)) /\ WF_vars(ReadLoop(c))
  /\ \A v \in Visitor : WF_vars(SendEnvelope(v))
  /\ \A s \in Session : WF_vars(tunnel[s] = None /\ RowGoes(s))

Spec     == Init /\ [][Next]_vars
FairSpec == Spec /\ Fairness

-----------------------------------------------------------------------------

(* Every variable has its type.                                             *)
TypeOK ==
  /\ at \in [Client -> {"away", "waiting", "serving"}]
  /\ conn \in [Client -> Conn \union {None}]
  /\ sessionID \in [Client -> Session \union {None}]
  /\ resumeToken \in [Client -> Conn \union {None}]
  /\ asked \in [Conn -> Session \union {None}]
  /\ presented \in [Conn -> Conn \union {None}]
  /\ session \in [Conn -> Session \union {None}]
  /\ stage \in [Conn -> Stages]
  /\ loop \in [Conn -> BOOLEAN]
  /\ ending \in [Conn -> Session \union {None}]
  /\ open \in [Conn -> BOOLEAN]
  /\ wire \in [Conn -> Seq(Write)]
  /\ writing \in [Visitor -> Conn \union {None}]
  /\ row \in [Session -> [token : Conn \union {None},
                          state : {"none", "open", "ended"}]]
  /\ tunnel \in [Session -> Conn \union {None}]
  /\ known \subseteq Session

(* While a client serves the routed tunnel of its session, no other token   *)
(* than the one it remembers can resume it (client.go line 82, tunnel.go    *)
(* line 111).  A late EndSession can have the row of a served session       *)
(* deleted; until then its next resume is not refused for its token.        *)
TokenHeld ==
  \A k \in Client :
    /\ at[k] = "serving" /\ tunnel[sessionID[k]] = conn[k]
    /\ row[sessionID[k]] # NoRow
    => row[sessionID[k]].token = resumeToken[k]

(* A resume closes a connection only if its client has left it: a Register  *)
(* that was sent on an earlier connection and is handled late never takes   *)
(* the tunnel from the connection on which the client went on               *)
(* (tunnel.go line 278).                                                    *)
ReplacesOnlyLeft ==
  [][\A c \in Conn, k \in Client :
       RegisterResume(c) /\ conn[k] # None => tunnel[asked[c]] # conn[k]]_vars

(* A client that serves reads whole frames: the Registered frame, written   *)
(* without the lock, can be torn by a public request, but never tears one   *)
(* that a serving client would read (binary.go line 58, tunnel.go line 429).*)
FramesWhole ==
  \A k \in Client :
    at[k] = "serving" /\ Readable(conn[k]) => Whole(conn[k])

(* When disturbances end, a client keeps getting back to serving, on its    *)
(* session or a new one, whatever replies it lost before and however often  *)
(* a visitor's request comes before the Registered frame (client.go line    *)
(* 39).                                                                     *)
ClientServed ==
  \A k \in Client : <>[][Calm]_vars => []<>(at[k] = "serving")

(* client.go line 132 calls any other answer to Register "unexpected": the  *)
(* first frame on a connection is the server's Registered or Error.         *)
AnswerFirst ==
  \A k \in Client :
    at[k] = "waiting" /\ Readable(conn[k])
    => Whole(conn[k]) /\ Head(wire[conn[k]]).of \in Reply

(* It is so on the first connection of a client that has no session to      *)
(* resume: nobody knows the URL that a public request would need.           *)
FirstAnswer ==
  \A k \in Client :
    at[k] = "waiting" /\ sessionID[k] = None /\ Readable(conn[k])
    => Whole(conn[k]) /\ Head(wire[conn[k]]).of \in Reply

(* No two clients remember one session, whatever becomes of the frames that *)
(* name it: a client is served its own URL (binary.go line 58, client.go    *)
(* line 82).                                                                *)
SessionsApart ==
  \A k, l \in Client :
    k # l /\ sessionID[k] # None => sessionID[k] # sessionID[l]
=============================================================================
