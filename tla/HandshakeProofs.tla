-------------------------- MODULE HandshakeProofs --------------------------
(* Theorems about Handshake: a token is known to the client that is served  *)
(* under it, and to nobody who could use it against that client; the frames *)
(* a client reads are whole; and no client is told of another one's session.*)
EXTENDS Handshake, SequenceTheorems, TLAPS

-----------------------------------------------------------------------------
(* Types                                                                    *)

(* TypeOK without the wire.                                                 *)
StateType ==
  /\ at \in [Client -> {"away", "waiting", "serving"}]
  /\ conn \in [Client -> Conn \union {None}]
  /\ sessionID \in [Client -> Session \union {None}]
  /\ resumeToken \in [Client -> Conn \union {None}]
  /\ asked \in [Conn -> Session \union {None}]
  /\ presented \in [Conn -> Conn \union {None}]
  /\ session \in [Conn -> Session \union {None}]
  /\ stage \in [Conn -> Stages]
  /\ loop \in [Conn -> BOOLEAN]
  /\ ending \in [Conn -> Session \union {None}]
  /\ open \in [Conn -> BOOLEAN]
  /\ writing \in [Visitor -> Conn \union {None}]
  /\ row \in [Session -> [token : Conn \union {None},
                          state : {"none", "open", "ended"}]]
  /\ tunnel \in [Session -> Conn \union {None}]
  /\ known \subseteq Session

WireType == wire \in [Conn -> Seq(Write)]

(* A client without a connection is away, and the other way round.          *)
AwayInv == \A k \in Client : at[k] = "away" <=> conn[k] = None

(* A handler that has registered has a readLoop and a session; no other has. *)
SessionInv ==
  \A c \in Conn :
    /\ loop[c] <=> session[c] # None
    /\ loop[c] <=> stage[c] \in {"reply", "body", "waiting"}

(* m.bySession maps a session to a tunnel of that session.                  *)
TunnelInv ==
  \A s \in Session : tunnel[s] # None => session[tunnel[s]] = s

(* What both writes of a frame look like.                                   *)
LEMMA FrameWrites ==
  ASSUME NEW f \in Reply \union Visitor
  PROVE  /\ Frame(f) \in Seq(Write)
         /\ <<Frame(f)[1]>> \in Seq(Write)
         /\ <<Frame(f)[2]>> \in Seq(Write)
<1>1. /\ [of |-> f, part |-> "length"] \in Write
      /\ [of |-> f, part |-> "envelope"] \in Write
  BY DEF Write
<1>2. Frame(f) \in Seq(Write)
  BY <1>1 DEF Frame
<1>3. /\ Frame(f)[1] = [of |-> f, part |-> "length"]
      /\ Frame(f)[2] = [of |-> f, part |-> "envelope"]
  BY DEF Frame
<1>4. QED
  BY <1>1, <1>2, <1>3

(* A write keeps the wire a sequence of writes.                             *)
LEMMA WrittenType ==
  ASSUME WireType, NEW c \in Conn, NEW w \in Seq(Write)
  PROVE  Written(c, w) \in [Conn -> Seq(Write)]
<1>1. wire[c] \o w \in Seq(Write)
  BY ConcatProperties DEF WireType
<1>2. QED
  BY <1>1 DEF Written, WireType

(* So does a read.                                                          *)
LEMMA ReadType ==
  ASSUME WireType, NEW c \in Conn, Readable(c)
  PROVE  [wire EXCEPT ![c] = SubSeq(@, 3, Len(@))] \in [Conn -> Seq(Write)]
<1>1. wire[c] \in Seq(Write)
  BY DEF WireType
<1>2. Len(wire[c]) \in Nat /\ \A i \in 3..Len(wire[c]) : wire[c][i] \in Write
  BY <1>1
<1>3. SubSeq(wire[c], 3, Len(wire[c])) \in Seq(Write)
  BY <1>2, SubSeqProperties
<1>4. QED
  BY <1>3 DEF WireType

(* A client with a connection has one of Conn.                              *)
LEMMA ConnOf ==
  ASSUME StateType, AwayInv, NEW k \in Client, at[k] # "away"
  PROVE  conn[k] \in Conn
BY DEF StateType, AwayInv

(* Leaving empties a wire.                                                  *)
LEMMA LeaveWire ==
  ASSUME WireType, StateType, AwayInv, NEW k \in Client, at[k] # "away",
         Leave(k)
  PROVE  WireType'
<1>1. <<>> \in Seq(Write)
  OBVIOUS
<1>2. QED
  BY <1>1, ConnOf DEF WireType, Leave

(* Init.                                                                    *)
LEMMA TypeInit ==
  Init => StateType /\ WireType /\ AwayInv /\ SessionInv /\ TunnelInv
<1>1. <<>> \in Seq(Write)
  OBVIOUS
<1>2. QED
  BY <1>1 DEF Init, StateType, WireType, AwayInv, SessionInv, TunnelInv, NoRow,
               Stages

LEMMA TypeSplit == TypeOK <=> StateType /\ WireType
BY DEF TypeOK, StateType, WireType

(* What becomes of a row that ends.                                         *)
LEMMA EndedType ==
  ASSUME StateType, NEW s \in Session
  PROVE  Ended(s) \in [token : Conn \union {None},
                       state : {"none", "open", "ended"}]
BY DEF StateType, Ended, NoRow

(* The wire through every step.                                             *)
LEMMA WireStep ==
  ASSUME StateType, WireType, AwayInv, SessionInv, [Next]_vars
  PROVE  WireType'
<1>1. ASSUME NEW k \in Client, NEW c \in Conn, Dial(k, c)
      PROVE  WireType'
  <2>1. <<>> \in Seq(Write)
    OBVIOUS
  <2>2. QED
    BY <1>1, <2>1 DEF WireType, Dial
<1>2. ASSUME NEW k \in Client, ClientReads(k) \/ Rerun(k)
      PROVE  WireType'
  <2>1. CASE ReadRegistered(k) \/ ReadRequest(k)
    <3>1. at[k] # "away" /\ Readable(conn[k])
      BY <2>1 DEF ReadRegistered, ReadRequest, FirstIn
    <3>2. conn[k] \in Conn
      BY <3>1, ConnOf
    <3>3. wire' = [wire EXCEPT ![conn[k]] = SubSeq(@, 3, Len(@))]
      BY <2>1 DEF ReadRegistered, ReadRequest
    <3>4. QED
      BY <3>1, <3>2, <3>3, ReadType DEF WireType
  <2>2. CASE ReadRejected(k) \/ ReadOther(k) \/ ReadFails(k) \/ Rerun(k)
    <3>1. at[k] # "away" /\ Leave(k)
      BY <2>2 DEF ReadRejected, ReadOther, ReadFails, Rerun
    <3>2. QED
      BY <3>1, LeaveWire
  <2>3. QED
    BY <1>2, <2>1, <2>2 DEF ClientReads
<1>3. ASSUME NEW c \in Conn, NEW f \in {"rejected", "busy"}, Error(c, f)
      PROVE  WireType'
  <2>1. Frame(f) \in Seq(Write)
    BY FrameWrites DEF Reply
  <2>2. QED
    BY <1>3, <2>1, WrittenType DEF Error, WireType
<1>4. ASSUME NEW c \in Conn, ReplyLength(c) \/ ReplyEnvelope(c)
      PROVE  WireType'
  <2>1. session[c] \in Session
    BY <1>4 DEF ReplyLength, ReplyEnvelope, SessionInv, StateType
  <2>2. /\ <<Frame(session[c])[1]>> \in Seq(Write)
        /\ <<Frame(session[c])[2]>> \in Seq(Write)
    BY <2>1, FrameWrites DEF Reply
  <2>3. QED
    BY <1>4, <2>2, WrittenType DEF ReplyLength, ReplyEnvelope, WireType
<1>5. ASSUME NEW v \in Visitor, NEW c \in Conn,
             SendLength(v, c) \/ (SendEnvelope(v) /\ c = writing[v])
      PROVE  WireType'
  <2>1. /\ <<Frame(v)[1]>> \in Seq(Write)
        /\ <<Frame(v)[2]>> \in Seq(Write)
    BY FrameWrites
  <2>2. \/ wire' = Written(c, <<Frame(v)[1]>>)
        \/ wire' = Written(c, <<Frame(v)[2]>>)
    BY <1>5 DEF SendLength, SendEnvelope
  <2>3. QED
    BY <2>1, <2>2, WrittenType DEF WireType
<1>6. ASSUME NEW v \in Visitor, SendEnvelope(v)
      PROVE  WireType'
  <2>1. writing[v] \in Conn
    BY <1>6 DEF SendEnvelope, StateType
  <2>2. QED
    BY <1>5, <1>6, <2>1
<1>7. ASSUME NEW c \in Conn, Drop(c)
      PROVE  WireType'
  <2>1. <<>> \in Seq(Write)
    OBVIOUS
  <2>2. QED
    BY <1>7, <2>1 DEF WireType, Drop
<1>8. ASSUME wire' = wire
      PROVE  WireType'
  BY <1>8 DEF WireType
<1>9. ASSUME NEW c \in Conn, Handler(c)
      PROVE  WireType'
  <2>1. CASE RefuseResume(c)
    BY <2>1, <1>3 DEF RefuseResume, Fails
  <2>2. CASE ReplyLength(c) \/ ReplyEnvelope(c)
    BY <2>2, <1>4
  <2>3. CASE Accept(c) \/ AcceptFull(c) \/ NoRegister(c) \/ RegisterNew(c)
               \/ RegisterResume(c)
    BY <2>3, <1>8 DEF Accept, AcceptFull, NoRegister, RegisterNew,
                      RegisterResume
  <2>4. QED
    BY <1>9, <2>1, <2>2, <2>3 DEF Handler
<1>10. CASE Calm
  <2>1. ASSUME NEW c \in Conn, ReadLoop(c)
        PROVE  WireType'
    BY <2>1, <1>8 DEF ReadLoop, LoopEnds, EndSession
  <2>2. ASSUME NEW s \in Session, RowGoes(s) \/ CloseOver(s)
        PROVE  WireType'
    BY <2>2, <1>8 DEF RowGoes, Over, CloseOver, Prune
  <2>3. QED
    BY <1>10, <1>1, <1>2, <1>5, <1>6, <1>9, <2>1, <2>2 DEF Calm
<1>11. CASE Disturbance
  <2>1. ASSUME NEW c \in Conn, NoRegister(c)
        PROVE  WireType'
    BY <2>1, <1>8 DEF NoRegister
  <2>2. CASE Restart
    BY <2>2, <1>8 DEF Restart
  <2>3. ASSUME NEW c \in Conn, RefuseBusy(c) \/ FailsLate(c)
        PROVE  WireType'
    BY <2>3, <1>3 DEF RefuseBusy, Fails, FailsLate
  <2>4. QED
    BY <1>11, <1>2, <1>7, <2>1, <2>2, <2>3 DEF Disturbance
<1>12. CASE UNCHANGED vars
  BY <1>12, <1>8 DEF vars
<1>13. QED
  BY <1>10, <1>11, <1>12 DEF Next

-----------------------------------------------------------------------------
(* Tokens                                                                   *)

(* A connection is one client's, and a token that a client remembers belongs *)
(* to a connection on which no other client is; the one it serves on is the *)
(* one whose token it holds.                                                *)
ConnInv ==
  /\ \A k \in Client : at[k] = "serving" => /\ resumeToken[k] = conn[k]
                                            /\ sessionID[k] # None
  /\ \A k, l \in Client :
       /\ k # l /\ conn[k] # None => conn[k] # conn[l]
       /\ k # l /\ resumeToken[k] # None => resumeToken[k] # conn[l]

(* A token that is on its way to the server belongs to a connection that    *)
(* its client has left.                                                     *)
PresentedInv ==
  \A c \in Conn, k \in Client : presented[c] # None => presented[c] # conn[k]

(* While a client is on the connection of a session's tunnel, the row has    *)
(* the token of that tunnel, or nobody can resume the session.              *)
RowInv ==
  \A s \in Session, k \in Client :
    row[s] # NoRow /\ conn[k] # None /\ tunnel[s] = conn[k]
    => row[s].token = conn[k]

IInv == /\ StateType /\ WireType /\ AwayInv /\ SessionInv /\ TunnelInv
        /\ ConnInv /\ PresentedInv /\ RowInv

(* The other types through every step.                                      *)
LEMMA StateStep ==
  ASSUME StateType, AwayInv, SessionInv, [Next]_vars,
         WireType, HandshakeAssumption
  PROVE  StateType'
<1>1. ASSUME NEW k \in Client, NEW c \in Conn, Dial(k, c)
      PROVE  StateType'
  BY <1>1 DEF StateType, Dial, Stages
<1>2. ASSUME NEW k \in Client, ClientReads(k) \/ Rerun(k)
      PROVE  StateType'
  <2>1. CASE ReadRegistered(k)
    <3>1. Head(wire[conn[k]]).of \in Session /\ conn[k] \in Conn
      BY <2>1, ConnOf DEF ReadRegistered, FirstIn
    <3>2. QED
      BY <2>1, <3>1 DEF StateType, ReadRegistered, NewToken, server
  <2>2. CASE ReadRejected(k)
    BY <2>2 DEF StateType, ReadRejected, Leave, Forgotten, server
  <2>3. CASE ReadOther(k)
    BY <2>3 DEF StateType, ReadOther, Leave, server
  <2>4. CASE ReadRequest(k)
    BY <2>4 DEF StateType, ReadRequest, server, client
  <2>5. CASE ReadFails(k)
    BY <2>5 DEF StateType, ReadFails, Leave, server
  <2>6. CASE Rerun(k)
    BY <2>6 DEF StateType, Rerun, Leave, server
  <2>7. QED
    BY <1>2, <2>1, <2>2, <2>3, <2>4, <2>5, <2>6 DEF ClientReads
<1>3. ASSUME NEW c \in Conn, NEW f, Error(c, f), known' \subseteq Session,
             row' \in [Session -> [token : Conn \union {None},
                                   state : {"none", "open", "ended"}]]
      PROVE  StateType'
  BY <1>3 DEF StateType, Error, Returned, Consumed, client, Stages
<1>4. ASSUME NEW c \in Conn, NEW s \in Session, Registers(c, s),
             UNCHANGED <<client, ending, writing>>, known' \subseteq Session
      PROVE  StateType'
  <2>1. row' \in [Session -> [token : Conn \union {None},
                            state : {"none", "open", "ended"}]]
    BY <1>4 DEF StateType, Registers
  <2>2. QED
    BY <1>4, <2>1 DEF StateType, Registers, Consumed, client, Stages
<1>5. ASSUME NEW c \in Conn, Handler(c)
      PROVE  StateType'
  <2>1. CASE Accept(c)
    BY <2>1 DEF StateType, Accept, client, Stages
  <2>2. CASE AcceptFull(c)
    BY <2>2 DEF StateType, AcceptFull, Consumed, client, Stages
  <2>3. CASE NoRegister(c)
    BY <2>3 DEF StateType, NoRegister, Returned, Consumed, client, Stages
  <2>4. CASE RegisterNew(c)
    <3>1. PICK s \in Session : Registers(c, s) /\ known' = known \ {s}
      BY <2>4 DEF RegisterNew
    <3>2. known' \subseteq Session /\ UNCHANGED <<client, ending, writing>>
      BY <2>4, <3>1 DEF RegisterNew, StateType
    <3>3. QED
      BY <1>4, <3>1, <3>2
  <2>5. CASE RegisterResume(c)
    <3>1. asked[c] \in Session /\ Registers(c, asked[c])
      BY <2>5 DEF RegisterResume, StateType
    <3>2. known' \subseteq Session /\ UNCHANGED <<client, ending, writing>>
      BY <2>5 DEF RegisterResume, StateType
    <3>3. QED
      BY <1>4, <3>1, <3>2
  <2>6. CASE RefuseResume(c)
    BY <2>6, <1>3 DEF RefuseResume, Fails, StateType
  <2>7. CASE ReplyLength(c)
    BY <2>7 DEF StateType, ReplyLength, client, Stages
  <2>8. CASE ReplyEnvelope(c)
    BY <2>8 DEF StateType, ReplyEnvelope, client, Stages
  <2>9. QED
    BY <1>5, <2>1, <2>2, <2>3, <2>4, <2>5, <2>6, <2>7, <2>8 DEF Handler
<1>6. ASSUME NEW c \in Conn, ReadLoop(c)
      PROVE  StateType'
  <2>1. CASE LoopEnds(c)
    BY <2>1 DEF LoopEnds, Returned, StateType, client, Stages
  <2>2. CASE EndSession(c)
    <3>1. ending[c] \in Session
      BY <2>2 DEF EndSession, StateType
    <3>2. row' \in [Session -> [token : Conn \union {None},
                              state : {"none", "open", "ended"}]]
      BY <2>2, <3>1, EndedType DEF EndSession, StateType
    <3>3. QED
      BY <2>2, <3>2 DEF EndSession, StateType, client
  <2>3. QED
    BY <1>6, <2>1, <2>2 DEF ReadLoop
<1>7. ASSUME NEW v \in Visitor, NEW c \in Conn, SendLength(v, c)
      PROVE  StateType'
  BY <1>7 DEF SendLength, StateType, client
<1>8. ASSUME NEW v \in Visitor, SendEnvelope(v)
      PROVE  StateType'
  BY <1>8 DEF SendEnvelope, StateType, client
<1>9. ASSUME NEW s \in Session, Over(s)
      PROVE  StateType'
  <2>1. row' \in [Session -> [token : Conn \union {None},
                            state : {"none", "open", "ended"}]]
    BY <1>9 DEF Over, NoRow, StateType
  <2>2. QED
    BY <1>9, <2>1 DEF Over, StateType, client
<1>10. ASSUME NEW s \in Session, CloseOver(s)
      PROVE  StateType'
  BY <1>10 DEF CloseOver, StateType, client, server
<1>11. ASSUME NEW s \in Session, Prune(s)
      PROVE  StateType'
  <2>1. row' \in [Session -> [token : Conn \union {None},
                            state : {"none", "open", "ended"}]]
    BY <1>11 DEF Prune, StateType, NoRow
  <2>2. QED
    BY <1>11, <2>1 DEF Prune, StateType, client
<1>12. ASSUME NEW c \in Conn, Drop(c)
      PROVE  StateType'
  BY <1>12 DEF Drop, StateType, client, server
<1>13. CASE Restart
  <2>1. row' \in [Session -> [token : Conn \union {None},
                            state : {"none", "open", "ended"}]]
    BY <1>13, EndedType DEF Restart
  <2>2. QED
    BY <1>13, <2>1 DEF Restart, StateType, client, Stages
<1>14. CASE Calm
  BY <1>14, <1>1, <1>2, <1>5, <1>6, <1>7, <1>8, <1>9, <1>10, <1>11
     DEF Calm, RowGoes
<1>15. ASSUME NEW c \in Conn, NoRegister(c)
      PROVE  StateType'
  BY <1>15 DEF StateType, NoRegister, Returned, Consumed, client, Stages
<1>16. ASSUME NEW c \in Conn, RefuseBusy(c) \/ FailsLate(c)
       PROVE  StateType'
  <2>1. CASE RefuseBusy(c)
    BY <2>1, <1>3 DEF RefuseBusy, Fails, StateType
  <2>2. CASE FailsLate(c)
    <3>1. row' \in [Session -> [token : Conn \union {None},
                              state : {"none", "open", "ended"}]]
      BY <2>2 DEF FailsLate, StateType
    <3>2. known' \subseteq Session /\ Error(c, "busy")
      BY <2>2 DEF FailsLate, StateType
    <3>3. QED
      BY <1>3, <3>1, <3>2
  <2>3. QED
    BY <1>16, <2>1, <2>2
<1>17. CASE Disturbance
  BY <1>17, <1>2, <1>12, <1>13, <1>15, <1>16 DEF Disturbance
<1>18. CASE UNCHANGED vars
  BY <1>18 DEF vars, client, server, StateType
<1>19. QED
  BY <1>14, <1>17, <1>18 DEF Next

(* The clients' side of the invariant through every step.                   *)
LEMMA ConnStep ==
  ASSUME IInv, [Next]_vars
  PROVE  AwayInv' /\ ConnInv' /\ PresentedInv'
<1> USE DEF IInv, StateType
<1>1. ASSUME NEW k \in Client, NEW c \in Conn, Dial(k, c)
      PROVE  AwayInv' /\ ConnInv' /\ PresentedInv'
  <2>1. conn[k] = None /\ c # None
    BY <1>1, HandshakeAssumption DEF Dial, AwayInv
  <2>2. \A l \in Client : conn[l] # c /\ resumeToken[l] # c
    BY <1>1 DEF Dial, UnusedConn
  <2>3. \A d \in Conn : presented[d] # c
    BY <1>1 DEF Dial, UnusedConn
  <2>4. AwayInv'
    BY <1>1, <2>1 DEF Dial, AwayInv
  <2>5. ConnInv'
    BY <1>1, <2>1, <2>2 DEF Dial, ConnInv
  <2>6. PresentedInv'
    BY <1>1, <2>1, <2>2, <2>3 DEF Dial, PresentedInv, ConnInv
  <2>7. QED
    BY <2>4, <2>5, <2>6
<1>2. ASSUME NEW k \in Client, ReadRegistered(k)
      PROVE  AwayInv' /\ ConnInv' /\ PresentedInv'
  <2>1. AwayInv' /\ PresentedInv'
    BY <1>2 DEF ReadRegistered, AwayInv, PresentedInv, server
  <2>2. conn[k] # None
    BY <1>2 DEF ReadRegistered, AwayInv
  <2>3. Head(wire[conn[k]]).of # None
    BY <1>2, HandshakeAssumption DEF ReadRegistered, FirstIn
  <2>4. ConnInv'
    BY <1>2, <2>2, <2>3 DEF ReadRegistered, ConnInv, NewToken
  <2>5. QED
    BY <2>1, <2>4
<1>3. ASSUME NEW k \in Client,
             ReadRejected(k) \/ ReadOther(k) \/ ReadFails(k) \/ Rerun(k)
      PROVE  AwayInv' /\ ConnInv' /\ PresentedInv'
  <2>1. /\ at' = [at EXCEPT ![k] = "away"]
        /\ conn' = [conn EXCEPT ![k] = None]
        /\ presented' = presented
        /\ \/ /\ resumeToken' = [resumeToken EXCEPT ![k] = None]
              /\ sessionID' = [sessionID EXCEPT ![k] = None]
           \/ UNCHANGED <<resumeToken, sessionID>>
    BY <1>3 DEF ReadRejected, ReadOther, ReadFails, Rerun, Leave, Forgotten,
                server
  <2>2. AwayInv'
    BY <2>1 DEF AwayInv
  <2>3. ConnInv'
    BY <2>1 DEF ConnInv
  <2>4. PresentedInv'
    BY <2>1 DEF PresentedInv
  <2>5. QED
    BY <2>2, <2>3, <2>4
<1>4. ASSUME UNCHANGED client,
             \A c \in Conn : presented'[c] \in {presented[c], None}
      PROVE  AwayInv' /\ ConnInv' /\ PresentedInv'
  BY <1>4 DEF client, AwayInv, ConnInv, PresentedInv
<1>5. ASSUME NEW c \in Conn, Consumed(c)
      PROVE  \A d \in Conn : presented'[d] \in {presented[d], None}
  BY <1>5 DEF Consumed
<1>6. ASSUME NEW k \in Client, ReadRequest(k)
      PROVE  AwayInv' /\ ConnInv' /\ PresentedInv'
  BY <1>4, <1>6 DEF ReadRequest, server
<1>7. ASSUME NEW c \in Conn, Handler(c)
      PROVE  AwayInv' /\ ConnInv' /\ PresentedInv'
  <2>1. UNCHANGED client
    BY <1>7 DEF Handler, Accept, AcceptFull, NoRegister, RegisterNew,
                RegisterResume, RefuseResume, Fails, Error, ReplyLength,
                ReplyEnvelope
  <2>2. Consumed(c) \/ presented' = presented
    BY <1>7 DEF Handler, Accept, AcceptFull, NoRegister, RegisterNew,
                RegisterResume, Registers, RefuseResume, Fails, Error,
                ReplyLength, ReplyEnvelope
  <2>3. QED
    BY <1>4, <1>5, <2>1, <2>2
<1>8. ASSUME NEW c \in Conn, NoRegister(c) \/ RefuseBusy(c) \/ FailsLate(c)
      PROVE  AwayInv' /\ ConnInv' /\ PresentedInv'
  <2>1. UNCHANGED client /\ Consumed(c)
    BY <1>8 DEF NoRegister, RefuseBusy, FailsLate, Fails, Error
  <2>2. QED
    BY <1>4, <1>5, <2>1
<1>9. ASSUME NEW c \in Conn,
             \/ ReadLoop(c) \/ Drop(c)
             \/ \E v \in Visitor : SendLength(v, c) \/ SendEnvelope(v)
      PROVE  AwayInv' /\ ConnInv' /\ PresentedInv'
  BY <1>4, <1>9 DEF ReadLoop, LoopEnds, EndSession, Drop, SendLength,
                    SendEnvelope, server
<1>10. ASSUME NEW v \in Visitor, SendEnvelope(v)
       PROVE  AwayInv' /\ ConnInv' /\ PresentedInv'
  BY <1>4, <1>10 DEF SendEnvelope
<1>11. ASSUME NEW s \in Session, RowGoes(s) \/ CloseOver(s)
       PROVE  AwayInv' /\ ConnInv' /\ PresentedInv'
  BY <1>4, <1>11 DEF RowGoes, Over, CloseOver, Prune, server
<1>12. CASE Restart
  BY <1>4, <1>12 DEF Restart
<1>13. CASE UNCHANGED vars
  BY <1>4, <1>13 DEF vars, server
<1>14. CASE Calm
  BY <1>14, <1>1, <1>2, <1>3, <1>6, <1>7, <1>9, <1>10, <1>11
     DEF Calm, ClientReads
<1>15. CASE Disturbance
  BY <1>15, <1>3, <1>8, <1>9, <1>12 DEF Disturbance
<1>16. QED
  BY <1>13, <1>14, <1>15 DEF Next

(* The server's side of it: sessions and tunnels ...                        *)
LEMMA SessionStep ==
  ASSUME IInv, [Next]_vars
  PROVE  SessionInv' /\ TunnelInv'
<1> USE DEF IInv, StateType
<1>1. ASSUME UNCHANGED <<session, loop, tunnel>>,
             \A c \in Conn : \/ stage'[c] = stage[c]
                             \/ {stage[c], stage'[c]} \subseteq
                                  {"free", "backlog", "reading"}
                             \/ {stage[c], stage'[c]} \subseteq
                                  {"reply", "body", "waiting"}
      PROVE  SessionInv' /\ TunnelInv'
  BY <1>1 DEF SessionInv, TunnelInv
<1>2. ASSUME NEW c \in Conn, NEW s \in Session, stage[c] = "reading",
             Registers(c, s)
      PROVE  SessionInv' /\ TunnelInv'
  <2>1. SessionInv'
    BY <1>2, HandshakeAssumption DEF Registers, SessionInv
  <2>2. session[c] = None
    BY <1>2 DEF SessionInv
  <2>3. tunnel'[s] = c /\ session'[c] = s
    BY <1>2 DEF Registers
  <2>4. \A t \in Session : t # s => tunnel'[t] = tunnel[t]
    BY <1>2 DEF Registers
  <2>5. \A d \in Conn : d # c => session'[d] = session[d]
    BY <1>2 DEF Registers
  <2>6. ASSUME NEW t \in Session, tunnel'[t] # None
        PROVE  session'[tunnel'[t]] = t
    <3>1. CASE t = s
      BY <2>3, <3>1
    <3>2. CASE t # s
      <4>1. tunnel'[t] = tunnel[t] /\ tunnel[t] \in Conn
        BY <2>4, <2>6, <3>2
      <4>2. session[tunnel[t]] = t
        BY <2>6, <4>1 DEF TunnelInv
      <4>3. tunnel[t] # c
        BY <2>2, <4>2, HandshakeAssumption
      <4>4. QED
        BY <2>5, <4>1, <4>2, <4>3
    <3>3. QED
      BY <3>1, <3>2
  <2>7. QED
    BY <2>1, <2>6 DEF TunnelInv
<1>3. ASSUME NEW k \in Client, NEW c \in Conn, Dial(k, c)
      PROVE  SessionInv' /\ TunnelInv'
  BY <1>1, <1>3 DEF Dial, UnusedConn
<1>4. ASSUME NEW k \in Client, ClientReads(k) \/ Rerun(k)
      PROVE  SessionInv' /\ TunnelInv'
  BY <1>1, <1>4 DEF ClientReads, ReadRegistered, ReadRejected, ReadOther,
                    ReadRequest, ReadFails, Rerun, server
<1>5. ASSUME NEW c \in Conn, NEW f, Error(c, f)
      PROVE  SessionInv' /\ TunnelInv'
  BY <1>1, <1>5 DEF Error, Returned
<1>6. ASSUME NEW c \in Conn, Handler(c) \/ NoRegister(c)
      PROVE  SessionInv' /\ TunnelInv'
  <2>1. CASE Accept(c) \/ AcceptFull(c) \/ NoRegister(c)
    BY <1>1, <2>1 DEF Accept, AcceptFull, NoRegister, Returned
  <2>2. CASE RegisterNew(c)
    BY <1>2, <2>2 DEF RegisterNew
  <2>3. CASE RegisterResume(c)
    BY <1>2, <2>3 DEF RegisterResume
  <2>4. CASE RefuseResume(c)
    BY <1>5, <2>4 DEF RefuseResume, Fails
  <2>5. CASE ReplyLength(c) \/ ReplyEnvelope(c)
    BY <1>1, <2>5 DEF ReplyLength, ReplyEnvelope
  <2>6. QED
    BY <1>6, <2>1, <2>2, <2>3, <2>4, <2>5 DEF Handler
<1>7. ASSUME NEW c \in Conn, LoopEnds(c)
      PROVE  SessionInv' /\ TunnelInv'
  <2>1. SessionInv'
    BY <1>7 DEF LoopEnds, Returned, SessionInv
  <2>2. session[c] \in Session
    BY <1>7 DEF LoopEnds, SessionInv
  <2>3. tunnel'[session[c]] # c
    BY <1>7, <2>2, HandshakeAssumption DEF LoopEnds
  <2>4. \A t \in Session : tunnel'[t] \in {tunnel[t], None}
    BY <1>7 DEF LoopEnds
  <2>5. \A d \in Conn : d # c => session'[d] = session[d]
    BY <1>7 DEF LoopEnds
  <2>6. ASSUME NEW t \in Session, tunnel'[t] # None
        PROVE  session'[tunnel'[t]] = t
    <3>1. tunnel'[t] = tunnel[t] /\ tunnel[t] \in Conn
      BY <2>4, <2>6
    <3>2. session[tunnel[t]] = t
      BY <2>6, <3>1 DEF TunnelInv
    <3>3. tunnel[t] # c
      BY <2>3, <3>1, <3>2
    <3>4. QED
      BY <2>5, <3>1, <3>2, <3>3
  <2>7. QED
    BY <2>1, <2>6 DEF TunnelInv
<1>8. ASSUME NEW c \in Conn,
             EndSession(c) \/ Drop(c) \/ RefuseBusy(c) \/ FailsLate(c)
      PROVE  SessionInv' /\ TunnelInv'
  BY <1>1, <1>5, <1>8 DEF EndSession, Drop, RefuseBusy, FailsLate, Fails,
                          server
<1>9. ASSUME NEW v \in Visitor,
             SendEnvelope(v) \/ \E c \in Conn : SendLength(v, c)
      PROVE  SessionInv' /\ TunnelInv'
  BY <1>1, <1>9 DEF SendLength, SendEnvelope
<1>10. ASSUME NEW s \in Session, RowGoes(s) \/ CloseOver(s)
       PROVE  SessionInv' /\ TunnelInv'
  BY <1>1, <1>10 DEF RowGoes, Over, Prune, CloseOver, server
<1>11. CASE Restart
  BY <1>11 DEF Restart, SessionInv, TunnelInv
<1>12. CASE UNCHANGED vars
  BY <1>1, <1>12 DEF vars, server
<1>13. CASE Calm
  BY <1>13, <1>3, <1>4, <1>6, <1>7, <1>8, <1>9, <1>10 DEF Calm, ReadLoop
<1>14. CASE Disturbance
  BY <1>14, <1>4, <1>6, <1>8, <1>11 DEF Disturbance
<1>15. QED
  BY <1>12, <1>13, <1>14 DEF Next

(* ... and rows.  A resume that fails late gives the row a token which no    *)
(* tunnel has, but only when no client is on the one it has.                *)
LEMMA RowStep ==
  ASSUME IInv, [Next]_vars
  PROVE  RowInv'
<1> USE DEF IInv, StateType
<1>1. ASSUME \A k \in Client : conn'[k] \in {conn[k], None},
             \A s \in Session : tunnel'[s] \in {tunnel[s], None},
             \A s \in Session : \/ row'[s] = NoRow
                                \/ /\ row[s] # NoRow
                                   /\ row'[s].token = row[s].token
      PROVE  RowInv'
  BY <1>1 DEF RowInv
<1>2. ASSUME UNCHANGED <<tunnel, row>>,
             \A k \in Client : conn'[k] \in {conn[k], None}
      PROVE  RowInv'
  BY <1>2 DEF RowInv
<1>3. ASSUME NEW k \in Client, NEW c \in Conn, Dial(k, c)
      PROVE  RowInv'
  <2>1. \A s \in Session : tunnel[s] # c
    <3>1. session[c] = None
      BY <1>3 DEF Dial, UnusedConn, SessionInv
    <3>2. QED
      BY <3>1, HandshakeAssumption DEF TunnelInv
  <2>2. /\ UNCHANGED <<tunnel, row>>
        /\ conn'[k] = c /\ \A l \in Client : l # k => conn'[l] = conn[l]
    BY <1>3 DEF Dial
  <2>3. QED
    BY <2>1, <2>2 DEF RowInv
<1>4. ASSUME NEW k \in Client, ClientReads(k) \/ Rerun(k)
      PROVE  RowInv'
  <2>1. UNCHANGED server /\ \A l \in Client : conn'[l] \in {conn[l], None}
    BY <1>4 DEF ClientReads, ReadRegistered, ReadRejected, ReadOther,
                ReadRequest, ReadFails, Rerun, Leave, client
  <2>2. QED
    BY <1>2, <2>1 DEF server
<1>5. ASSUME NEW c \in Conn, NEW s \in Session, Registers(c, s),
             UNCHANGED client
      PROVE  RowInv'
  <2>1. row'[s].token = c /\ tunnel'[s] = c
    BY <1>5 DEF Registers
  <2>2. \A t \in Session : t # s => row'[t] = row[t] /\ tunnel'[t] = tunnel[t]
    BY <1>5 DEF Registers
  <2>3. conn' = conn
    BY <1>5 DEF client
  <2>4. QED
    BY <2>1, <2>2, <2>3 DEF RowInv
<1>6. ASSUME NEW c \in Conn, FailsLate(c)
      PROVE  RowInv'
  <2>1. PICK s \in Session :
               /\ \/ UnusedSession(s)
                  \/ asked[c] = s /\ Resumable(c)
               /\ row' = [row EXCEPT ![s] = [token |-> c, state |-> "open"]]
    BY <1>6 DEF FailsLate
  <2>2. UNCHANGED <<tunnel, conn>>
    BY <1>6 DEF FailsLate, Error, client
  <2>3. ASSUME NEW k \in Client, conn[k] # None, tunnel[s] = conn[k]
        PROVE  FALSE
    <3>1. conn[k] \in Conn
      BY <2>3
    <3>2. CASE UnusedSession(s)
      <4>1. session[conn[k]] = s
        BY <2>3 DEF TunnelInv
      <4>2. QED
        BY <3>1, <3>2, <4>1 DEF UnusedSession
    <3>3. CASE asked[c] = s /\ Resumable(c)
      <4>1. row[s] # NoRow /\ row[s].token = presented[c]
        BY <3>3 DEF Resumable, NoRow
      <4>2. presented[c] = conn[k]
        BY <2>3, <4>1 DEF RowInv
      <4>3. QED
        BY <2>3, <4>2 DEF PresentedInv
    <3>4. QED
      BY <2>1, <3>2, <3>3
  <2>4. \A t \in Session : t # s => row'[t] = row[t]
    BY <2>1
  <2>5. QED
    BY <2>2, <2>3, <2>4 DEF RowInv
<1>7. ASSUME NEW c \in Conn, NEW f, Fails(c, f)
      PROVE  RowInv'
  BY <1>2, <1>7 DEF Fails, Error, client
<1>8. ASSUME NEW c \in Conn, Handler(c) \/ NoRegister(c)
      PROVE  RowInv'
  <2>1. CASE Accept(c) \/ AcceptFull(c) \/ NoRegister(c)
             \/ ReplyLength(c) \/ ReplyEnvelope(c)
    BY <1>2, <2>1 DEF Accept, AcceptFull, NoRegister, ReplyLength,
                      ReplyEnvelope, client
  <2>2. CASE RegisterNew(c)
    BY <1>5, <2>2 DEF RegisterNew
  <2>3. CASE RegisterResume(c)
    BY <1>5, <2>3 DEF RegisterResume
  <2>4. CASE RefuseResume(c)
    BY <1>7, <2>4 DEF RefuseResume
  <2>5. QED
    BY <1>8, <2>1, <2>2, <2>3, <2>4 DEF Handler
<1>9. ASSUME NEW c \in Conn, ReadLoop(c)
      PROVE  RowInv'
  <2>1. CASE LoopEnds(c)
    <3>1. UNCHANGED <<conn, row>>
      BY <2>1 DEF LoopEnds, client
    <3>2. \A s \in Session : tunnel'[s] \in {tunnel[s], None}
      BY <2>1 DEF LoopEnds
    <3>3. QED
      BY <1>1, <3>1, <3>2
  <2>2. CASE EndSession(c)
    <3>1. UNCHANGED <<conn, tunnel>>
      BY <2>2 DEF EndSession, client
    <3>2. ending[c] \in Session
      BY <2>2 DEF EndSession
    <3>3. \A s \in Session :
            \/ row'[s] = NoRow
            \/ row[s] # NoRow /\ row'[s].token = row[s].token
      BY <2>2, <3>2 DEF EndSession, Ended
    <3>4. QED
      BY <1>1, <3>1, <3>3
  <2>3. QED
    BY <1>9, <2>1, <2>2 DEF ReadLoop
<1>10. ASSUME NEW v \in Visitor,
              SendEnvelope(v) \/ \E c \in Conn : SendLength(v, c)
       PROVE  RowInv'
  BY <1>2, <1>10 DEF SendLength, SendEnvelope, client
<1>11. ASSUME NEW s \in Session, RowGoes(s)
       PROVE  RowInv'
  <2>1. row' = [row EXCEPT ![s] = NoRow] /\ UNCHANGED <<conn, tunnel>>
    BY <1>11 DEF RowGoes, Over, Prune, client
  <2>2. \A t \in Session :
          \/ row'[t] = NoRow
          \/ row[t] # NoRow /\ row'[t].token = row[t].token
    BY <2>1
  <2>3. QED
    BY <1>1, <2>1, <2>2
<1>12. ASSUME NEW s \in Session, CloseOver(s)
       PROVE  RowInv'
  BY <1>2, <1>12 DEF CloseOver, client, server
<1>13. ASSUME NEW c \in Conn, Drop(c)
       PROVE  RowInv'
  BY <1>2, <1>13 DEF Drop, client, server
<1>14. CASE Restart
  BY <1>14 DEF Restart, RowInv
<1>15. CASE UNCHANGED vars
  BY <1>2, <1>15 DEF vars, client, server
<1>16. CASE Calm
  BY <1>16, <1>3, <1>4, <1>8, <1>9, <1>10, <1>11, <1>12 DEF Calm
<1>17. CASE Disturbance
  BY <1>17, <1>4, <1>6, <1>7, <1>8, <1>13, <1>14 DEF Disturbance, RefuseBusy
<1>18. QED
  BY <1>15, <1>16, <1>17 DEF Next

-----------------------------------------------------------------------------
(* The theorems                                                             *)

LEMMA Inductive == Spec => []IInv
<1>1. Init => IInv
  <2>1. Init => ConnInv /\ PresentedInv /\ RowInv
    BY DEF Init, ConnInv, PresentedInv, RowInv, NoRow
  <2>2. QED
    BY <2>1, TypeInit DEF IInv
<1>2. IInv /\ [Next]_vars => IInv'
  BY HandshakeAssumption, StateStep, WireStep, ConnStep, SessionStep, RowStep
     DEF IInv
<1>3. QED
  BY <1>1, <1>2, PTL DEF Spec

(* Every variable of both programs, the wire and the table has its type.    *)
THEOREM HandshakeTypes == Spec => []TypeOK
<1>1. IInv => TypeOK
  BY TypeSplit DEF IInv
<1>2. QED
  BY <1>1, Inductive, PTL

(* The client that serves a session remembers the token in its row for as   *)
(* long as there is a row, whatever replies were lost and whichever Register *)
(* or EndSession came late before.                                          *)
THEOREM ServingClientHoldsToken == Spec => []TokenHeld
<1>1. IInv => TokenHeld
  <2>1. SUFFICES ASSUME IInv, NEW k \in Client, at[k] = "serving",
                        tunnel[sessionID[k]] = conn[k],
                        row[sessionID[k]] # NoRow
                 PROVE  row[sessionID[k]].token = resumeToken[k]
    BY DEF TokenHeld
  <2>2. conn[k] # None /\ resumeToken[k] = conn[k]
    BY <2>1 DEF IInv, AwayInv, ConnInv
  <2>3. sessionID[k] \in Session
    BY <2>1 DEF IInv, ConnInv, StateType
  <2>4. QED
    BY <2>1, <2>2, <2>3 DEF IInv, RowInv
<1>2. QED
  BY <1>1, Inductive, PTL

(* A resume takes no tunnel from the connection a client is on: the token   *)
(* it presents belongs to a connection that its client has left.            *)
THEOREM LateRegisterHarmless == Spec => ReplacesOnlyLeft
<1>1. ASSUME IInv, NEW c \in Conn, NEW k \in Client, RegisterResume(c),
             conn[k] # None
      PROVE  tunnel[asked[c]] # conn[k]
  <2>1. /\ asked[c] \in Session /\ row[asked[c]] # NoRow
        /\ row[asked[c]].token = presented[c]
    BY <1>1 DEF RegisterResume, Resumable, NoRow, IInv, StateType
  <2>2. SUFFICES ASSUME tunnel[asked[c]] = conn[k]
                 PROVE  FALSE
    OBVIOUS
  <2>3. presented[c] = conn[k]
    BY <1>1, <2>1, <2>2 DEF IInv, RowInv
  <2>4. QED
    BY <1>1, <2>3 DEF IInv, PresentedInv
<1>2. IInv /\ [Next]_vars =>
        [\A c \in Conn, k \in Client :
           RegisterResume(c) /\ conn[k] # None => tunnel[asked[c]] # conn[k]]_vars
  BY <1>1
<1>3. QED
  BY <1>2, Inductive, PTL DEF Spec, ReplacesOnlyLeft

-----------------------------------------------------------------------------
(* The frames that a client reads                                           *)

(* Writes that are whole frames, but for a last one that may lack its       *)
(* envelope.                                                                *)
Paired(w) ==
  \A i \in 1..Len(w) : i % 2 = 1 =>
    /\ w[i].part = "length"
    /\ i < Len(w) => w[i + 1] = [w[i] EXCEPT !.part = "envelope"]

(* Appending one write.                                                     *)
LEMMA Appended ==
  ASSUME NEW w \in Seq(Write), NEW x \in Write
  PROVE  /\ w \o <<x>> \in Seq(Write)
         /\ Len(w \o <<x>>) = Len(w) + 1
         /\ \A i \in 1..Len(w) : (w \o <<x>>)[i] = w[i]
         /\ (w \o <<x>>)[Len(w) + 1] = x
         /\ w = <<>> => w \o <<x>> = <<x>>
<1>1. <<x>> \in Seq(Write) /\ Len(<<x>>) = 1 /\ <<x>>[1] = x
  OBVIOUS
<1>2. Len(w) \in Nat
  BY LenProperties
<1>3. /\ w \o <<x>> \in Seq(Write)
      /\ Len(w \o <<x>>) = Len(w) + 1
      /\ \A i \in 1..Len(w) + 1 :
           (w \o <<x>>)[i] = IF i <= Len(w) THEN w[i] ELSE <<x>>[i - Len(w)]
  BY <1>1, ConcatProperties
<1>4. w = <<>> => w \o <<x>> = <<x>>
  BY <1>1, ConcatEmptySeq
<1>5. QED
  BY <1>1, <1>2, <1>3, <1>4

(* Reading one frame.                                                       *)
LEMMA FrameRead ==
  ASSUME NEW w \in Seq(Write), Len(w) >= 2
  PROVE  /\ SubSeq(w, 3, Len(w)) \in Seq(Write)
         /\ Len(SubSeq(w, 3, Len(w))) = Len(w) - 2
         /\ \A i \in 1..Len(w) - 2 : SubSeq(w, 3, Len(w))[i] = w[i + 2]
<1> DEFINE t == SubSeq(w, 3, Len(w))
           n == Len(w)
<1>1. n \in Nat /\ \A i \in 3..n : w[i] \in Write
  BY LenProperties, ElementOfSeq
<1>2. /\ t \in Seq(Write)
      /\ Len(t) = IF 3 <= n THEN n - 3 + 1 ELSE 0
      /\ \A i \in 1..n - 3 + 1 : t[i] = w[3 + i - 1]
  BY <1>1, SubSeqProperties
<1> HIDE DEF t
<1> HIDE DEF n
<1>3. Len(t) = n - 2
  <2>1. n >= 2
    BY DEF n
  <2>2. Len(t) = IF 3 <= n THEN n - 3 + 1 ELSE 0
    BY <1>2
  <2>3. CASE n = 2
    BY <2>2, <2>3
  <2>4. CASE n # 2
    <3>1. 3 <= n
      BY <1>1, <2>1, <2>4
    <3>2. Len(t) = n - 3 + 1
      BY <2>2, <3>1
    <3>3. QED
      BY <1>1, <3>2
  <2>5. QED
    BY <2>3, <2>4
<1>4. ASSUME NEW i \in 1..n - 2
      PROVE  t[i] = w[i + 2]
  <2>1. i \in 1..n - 3 + 1 /\ 3 + i - 1 = i + 2
    BY <1>1
  <2>2. QED
    BY <1>2, <2>1
<1>5. QED
  BY <1>2, <1>3, <1>4 DEF t, n

(* A length after whole frames, and the envelope after its length.          *)
LEMMA PairedLength ==
  ASSUME NEW w \in Seq(Write), NEW x \in Write, x.part = "length",
         Paired(w), Len(w) % 2 = 0
  PROVE  Paired(w \o <<x>>)
<1> DEFINE v == w \o <<x>>
<1>1. Len(w) \in Nat
  BY LenProperties
<1>2. /\ Len(v) = Len(w) + 1 /\ v[Len(w) + 1] = x
      /\ \A i \in 1..Len(w) : v[i] = w[i]
  BY Appended
<1> HIDE DEF v
<1>3. ASSUME NEW i \in 1..Len(v), i % 2 = 1
      PROVE  /\ v[i].part = "length"
             /\ i < Len(v) => v[i + 1] = [v[i] EXCEPT !.part = "envelope"]
  <2>1. CASE i = Len(w) + 1
    BY <1>1, <1>2, <2>1
  <2>2. CASE i # Len(w) + 1
    <3>1. i \in 1..Len(w) /\ i < Len(w)
      BY <1>1, <1>2, <1>3, <2>2
    <3>2. /\ w[i].part = "length"
          /\ w[i + 1] = [w[i] EXCEPT !.part = "envelope"]
      BY <1>3, <3>1 DEF Paired
    <3>3. v[i] = w[i] /\ v[i + 1] = w[i + 1]
      BY <1>1, <1>2, <3>1
    <3>4. QED
      BY <3>2, <3>3
  <2>3. QED
    BY <2>1, <2>2
<1>4. QED
  BY <1>3 DEF Paired, v

LEMMA PairedEnvelope ==
  ASSUME NEW w \in Seq(Write), NEW x \in Write, Paired(w),
         Len(w) % 2 = 1, x = [w[Len(w)] EXCEPT !.part = "envelope"]
  PROVE  Paired(w \o <<x>>)
<1> DEFINE v == w \o <<x>>
<1>1. Len(w) \in Nat
  BY LenProperties
<1>2. /\ Len(v) = Len(w) + 1 /\ v[Len(w) + 1] = x
      /\ \A i \in 1..Len(w) : v[i] = w[i]
  BY Appended
<1> HIDE DEF v
<1>3. ASSUME NEW i \in 1..Len(v), i % 2 = 1
      PROVE  /\ v[i].part = "length"
             /\ i < Len(v) => v[i + 1] = [v[i] EXCEPT !.part = "envelope"]
  <2>1. i \in 1..Len(w)
    BY <1>1, <1>2, <1>3
  <2>2. /\ w[i].part = "length"
        /\ i < Len(w) => w[i + 1] = [w[i] EXCEPT !.part = "envelope"]
    BY <1>3, <2>1 DEF Paired
  <2>3. v[i] = w[i] /\ (i < Len(w) => v[i + 1] = w[i + 1])
    BY <1>1, <1>2, <2>1
  <2>4. CASE i = Len(w)
    BY <1>2, <2>2, <2>3, <2>4
  <2>5. CASE i < Len(w)
    BY <2>2, <2>3, <2>5
  <2>6. i = Len(w) \/ i < Len(w)
    BY <1>1, <2>1
  <2>7. QED
    BY <2>4, <2>5, <2>6
<1>4. QED
  BY <1>3 DEF Paired, v

LEMMA PairedRead ==
  ASSUME NEW w \in Seq(Write), Paired(w), Len(w) >= 2
  PROVE  Paired(SubSeq(w, 3, Len(w)))
<1>1. Len(w) \in Nat
  BY LenProperties
<1>2. ASSUME NEW i \in 1..Len(w) - 2, i % 2 = 1
      PROVE  /\ w[i + 2].part = "length"
             /\ i < Len(w) - 2 =>
                  w[i + 3] = [w[i + 2] EXCEPT !.part = "envelope"]
  <2>1. i + 2 \in 1..Len(w) /\ (i + 2) % 2 = 1
    BY <1>1, <1>2
  <2>2. QED
    BY <1>1, <2>1 DEF Paired
<1>3. ASSUME NEW i \in 1..Len(w) - 2
      PROVE  i < Len(w) - 2 => i + 1 \in 1..Len(w) - 2 /\ (i + 1) + 2 = i + 3
  BY <1>1
<1>4. QED
  BY <1>1, <1>2, <1>3, FrameRead DEF Paired

LEMMA PairedFrame ==
  ASSUME NEW f \in Reply \union Visitor
  PROVE  /\ Paired(<<>>) /\ Paired(Frame(f))
         /\ Frame(f) = <<Frame(f)[1]>> \o <<Frame(f)[2]>>
         /\ Len(Frame(f)) = 2
         /\ Frame(f)[1] = [of |-> f, part |-> "length"]
         /\ Frame(f)[2] = [of |-> f, part |-> "envelope"]
<1>1. /\ Frame(f)[1] = [of |-> f, part |-> "length"]
      /\ Frame(f)[2] = [of |-> f, part |-> "envelope"]
      /\ Len(Frame(f)) = 2
  BY DEF Frame
<1>2. Paired(<<>>)
  BY DEF Paired
<1>3. Paired(Frame(f))
  <2>1. \A i \in 1..2 : i % 2 = 1 => i = 1
    OBVIOUS
  <2>2. QED
    BY <1>1, <2>1 DEF Paired
<1>4. Frame(f) = <<Frame(f)[1]>> \o <<Frame(f)[2]>>
  BY <1>1 DEF Frame
<1>5. QED
  BY <1>1, <1>2, <1>3, <1>4

(* The two writes of a frame.                                               *)
LEMMA FrameParts ==
  ASSUME NEW f \in Reply \union Visitor
  PROVE  /\ Frame(f)[1] \in Write /\ Frame(f)[2] \in Write
         /\ Frame(f)[1].of = f /\ Frame(f)[1].part = "length"
         /\ Frame(f)[2] = [Frame(f)[1] EXCEPT !.part = "envelope"]
         /\ \A x \in Write : Frame(f)[1] # [x EXCEPT !.part = "envelope"]
<1> DEFINE len == [of |-> f, part |-> "length"]
           env == [of |-> f, part |-> "envelope"]
<1>1. Frame(f)[1] = len /\ Frame(f)[2] = env
  BY DEF Frame
<1>2. len \in Write /\ env \in Write
  BY DEF Write
<1>3. env = [len EXCEPT !.part = "envelope"]
  OBVIOUS
<1>4. ASSUME NEW x \in Write
      PROVE  len # [x EXCEPT !.part = "envelope"]
  <2>1. [x EXCEPT !.part = "envelope"].part = "envelope"
    BY DEF Write
  <2>2. len.part # "envelope"
    OBVIOUS
  <2>3. QED
    BY <2>1, <2>2
<1>5. QED
  BY <1>1, <1>2, <1>3, <1>4

(* A connection with whole frames only, but for the one that a public       *)
(* request is writing; its handler has written the answer.                  *)
Framed(c) ==
  /\ Paired(wire[c])
  /\ open[c] =>
       /\ stage[c] = "waiting"
       /\ \A v \in Visitor : writing[v] = c =>
            Len(wire[c]) % 2 = 1 /\ wire[c][Len(wire[c])] = Frame(v)[1]
       /\ WriteMuFree(c) => Len(wire[c]) % 2 = 0

(* A client that waits has at most the length of its answer, or an answer   *)
(* after which everything is framed, or something it will not accept.       *)
Answered(c) ==
  /\ FirstIn(c, Session) => Framed(c)
  /\ open[c] /\ Len(wire[c]) = 1 /\ wire[c][1].of \in Session =>
       /\ stage[c] = "body" /\ WriteMuFree(c)
       /\ wire[c][1] = Frame(session[c])[1]
  /\ open[c] /\ wire[c] = <<>> => stage[c] # "body" /\ WriteMuFree(c)

FrameInv ==
  \A k \in Client, c \in Conn :
    conn[k] = c => /\ at[k] = "serving" => Framed(c)
                   /\ at[k] = "waiting" => Answered(c)

(* A step that writes nothing to c, and nothing that matters about it.      *)
Quiet(c) ==
  /\ wire'[c] = wire[c]
  /\ open'[c] =>
       /\ open[c]
       /\ \/ stage'[c] = stage[c]
          \/ stage[c] = "backlog" /\ stage'[c] = "reading"
          \/ stage[c] = "reading" /\ stage'[c] = "reply"
       /\ stage'[c] = "body" => session'[c] = session[c]
       /\ \A v \in Visitor : writing'[v] = c <=> writing[v] = c

LEMMA QuietKeeps ==
  ASSUME NEW c, Quiet(c)
  PROVE  /\ Framed(c) => Framed(c)'
         /\ Answered(c) => Answered(c)'
<1>1. ASSUME Framed(c) PROVE Framed(c)'
  BY <1>1 DEF Quiet, Framed, WriteMuFree, Frame
<1>2. FirstIn(c, Session)' => FirstIn(c, Session)
  BY DEF Quiet, FirstIn, Readable, Whole
<1>3. ASSUME Answered(c) PROVE Answered(c)'
  BY <1>1, <1>2, <1>3 DEF Quiet, Answered, WriteMuFree, Frame
<1>4. QED
  BY <1>1, <1>3

(* What a client accepts as its answer does not change with later writes.   *)
LEMMA FirstInKept ==
  ASSUME NEW c \in Conn, WireType, NEW x \in Write,
         wire' = [wire EXCEPT ![c] = @ \o <<x>>]
  PROVE  /\ Len(wire[c]) >= 2 => (FirstIn(c, Session)' <=> FirstIn(c, Session))
         /\ Len(wire[c]) = 1 /\ FirstIn(c, Session)' =>
              /\ wire[c][1].of \in Session
              /\ x = [wire[c][1] EXCEPT !.part = "envelope"]
              /\ wire[c][1].part = "length"
         /\ wire[c] = <<>> => ~FirstIn(c, Session)'
<1>1. wire[c] \in Seq(Write) /\ wire'[c] = wire[c] \o <<x>>
  BY DEF WireType
<1>2. Len(wire[c]) \in Nat
  BY <1>1, LenProperties
<1>3. /\ wire'[c] \in Seq(Write)
      /\ Len(wire'[c]) = Len(wire[c]) + 1
      /\ \A i \in 1..Len(wire[c]) : wire'[c][i] = wire[c][i]
      /\ wire'[c][Len(wire[c]) + 1] = x
  BY <1>1, Appended
<1>4. FirstIn(c, Session) <=>
        /\ Len(wire[c]) >= 2 /\ wire[c][1].part = "length"
        /\ wire[c][2] = [wire[c][1] EXCEPT !.part = "envelope"]
        /\ wire[c][1].of \in Session
  BY <1>1 DEF FirstIn, Readable, Whole
<1>5. FirstIn(c, Session)' <=>
        /\ Len(wire'[c]) >= 2 /\ wire'[c][1].part = "length"
        /\ wire'[c][2] = [wire'[c][1] EXCEPT !.part = "envelope"]
        /\ wire'[c][1].of \in Session
  BY <1>3 DEF FirstIn, Readable, Whole
<1>6. CASE Len(wire[c]) >= 2
  <2>1. 1 \in 1..Len(wire[c]) /\ 2 \in 1..Len(wire[c])
    BY <1>2, <1>6
  <2>2. wire'[c][1] = wire[c][1] /\ wire'[c][2] = wire[c][2]
    BY <1>3, <2>1
  <2>3. Len(wire'[c]) >= 2
    BY <1>2, <1>3, <1>6
  <2>4. FirstIn(c, Session)' <=> FirstIn(c, Session)
    BY <1>4, <1>5, <1>6, <2>2, <2>3
  <2>5. ASSUME Len(wire[c]) = 1
        PROVE  FALSE
    BY <1>6, <2>5
  <2>6. wire[c] # <<>>
    BY <1>6
  <2>7. QED
    BY <2>4, <2>5, <2>6
<1>7. CASE Len(wire[c]) = 1
  <2>1. wire'[c][1] = wire[c][1] /\ wire'[c][2] = x
    BY <1>3, <1>7
  <2>2. wire[c] # <<>>
    BY <1>7
  <2>3. QED
    BY <1>5, <1>7, <2>1, <2>2
<1>8. CASE wire[c] = <<>>
  BY <1>3, <1>5, <1>8
<1>9. CASE Len(wire[c]) = 0
  BY <1>1, <1>8, <1>9, EmptySeq
<1>10. QED
  BY <1>2, <1>6, <1>7, <1>9

(* A step of the server: quiet about every connection but one.              *)
LEMMA ServerKeeps ==
  ASSUME FrameInv, UNCHANGED <<at, conn>>, NEW c,
         \A d \in Conn : d # c => Quiet(d),
         Framed(c) => Framed(c)', Answered(c) => Answered(c)'
  PROVE  FrameInv'
<1>1. ASSUME NEW d \in Conn
      PROVE  /\ Framed(d) => Framed(d)'
             /\ Answered(d) => Answered(d)'
  BY <1>1, QuietKeeps
<1>2. QED
  BY <1>1 DEF FrameInv

(* How many writes are on a wire, and how many with one more.               *)
LEMMA WireLengths ==
  ASSUME NEW w \in Seq(Write)
  PROVE  /\ Len(w) \in Nat
         /\ w = <<>> \/ Len(w) = 1 \/ Len(w) >= 2
         /\ w = <<>> <=> Len(w) = 0
         /\ Len(w) + 1 = 1 <=> w = <<>>
         /\ Len(w) + 1 # 0
         /\ Len(w) % 2 = 0 => (Len(w) + 1) % 2 = 1
         /\ Len(w) % 2 = 1 => (Len(w) + 1) % 2 = 0
<1>1. Len(w) \in Nat
  BY LenProperties
<1>2. w = <<>> <=> Len(w) = 0
  BY EmptySeq
<1>3. ASSUME NEW n \in Nat
      PROVE  /\ n = 0 \/ n = 1 \/ n >= 2
             /\ n + 1 = 1 <=> n = 0
             /\ n + 1 # 0
             /\ n % 2 = 0 => (n + 1) % 2 = 1
             /\ n % 2 = 1 => (n + 1) % 2 = 0
  OBVIOUS
<1>4. QED
  BY <1>1, <1>2, <1>3

(* A write leaves the client with what it would have accepted, or completes *)
(* the first frame.                                                         *)
LEMMA FirstInOnce ==
  ASSUME NEW c \in Conn, WireType, NEW x \in Write,
         wire' = [wire EXCEPT ![c] = @ \o <<x>>],
         ~(/\ Len(wire[c]) = 1 /\ wire[c][1].of \in Session
           /\ x = [wire[c][1] EXCEPT !.part = "envelope"])
  PROVE  FirstIn(c, Session)' => FirstIn(c, Session)
<1>1. wire[c] \in Seq(Write)
  BY DEF WireType
<1>2. wire[c] = <<>> \/ Len(wire[c]) = 1 \/ Len(wire[c]) >= 2
  BY <1>1, WireLengths
<1>3. QED
  BY <1>2, FirstInKept

(* The two writes of the answer: the client is waiting, and what it will    *)
(* accept is either whole already or not there before the envelope is.      *)
LEMMA ReplyKeeps ==
  ASSUME IInv, NEW c \in Conn, ReplyLength(c) \/ ReplyEnvelope(c)
  PROVE  /\ Framed(c) => Framed(c)'
         /\ Answered(c) => Answered(c)'
<1>1. session[c] \in Session /\ session[c] \in Reply \union Visitor
  BY DEF IInv, SessionInv, StateType, ReplyLength, ReplyEnvelope, Reply
<1> DEFINE len == Frame(session[c])[1]
           env == Frame(session[c])[2]
<1>2. /\ Frame(session[c])[1] = len /\ Frame(session[c])[2] = env
      /\ len \in Write /\ env \in Write
      /\ \A x \in Write : len # [x EXCEPT !.part = "envelope"]
      /\ env = [len EXCEPT !.part = "envelope"]
      /\ len.part = "length"
  BY <1>1, FrameParts
<1> HIDE DEF len, env
<1>3. stage[c] \in {"reply", "body"}
  BY DEF ReplyLength, ReplyEnvelope
<1>4. open[c]
  BY DEF ReplyLength, ReplyEnvelope
<1>5. ~Framed(c)
  BY <1>3, <1>4 DEF Framed
<1>6. SUFFICES ASSUME Answered(c)
               PROVE  Answered(c)'
  BY <1>5
<1>7. ~FirstIn(c, Session)
  BY <1>5, <1>6 DEF Answered
<1>8. WireType /\ wire[c] \in Seq(Write) /\ Len(wire[c]) \in Nat
  BY LenProperties DEF IInv, WireType
<1>9. \A v \in Visitor : writing' = writing
  BY DEF ReplyLength, ReplyEnvelope
<1>10. CASE ReplyLength(c)
  <2>1. wire' = [wire EXCEPT ![c] = @ \o <<len>>]
    BY <1>2, <1>4, <1>10 DEF ReplyLength, Written
  <2>2. ~FirstIn(c, Session)'
    <3>1. Len(wire[c]) = 1 => len # [wire[c][1] EXCEPT !.part = "envelope"]
      BY <1>2, <1>8, ElementOfSeq
    <3>2. QED
      BY <1>2, <1>7, <1>8, <2>1, <3>1, FirstInOnce
  <2>3. /\ Len(wire'[c]) = Len(wire[c]) + 1
        /\ wire[c] = <<>> => wire'[c] = <<len>>
    BY <1>2, <1>8, <2>1, Appended DEF WireType
  <2>4. ASSUME open'[c], Len(wire'[c]) = 1
        PROVE  /\ stage'[c] = "body" /\ WriteMuFree(c)'
               /\ wire'[c][1] = Frame(session'[c])[1]
    <3>1. wire[c] = <<>>
      BY <1>8, <2>3, <2>4, WireLengths
    <3>2. WriteMuFree(c)
      BY <1>4, <1>6, <3>1 DEF Answered
    <3>3. stage'[c] = "body" /\ session'[c] = session[c] /\ WriteMuFree(c)'
      BY <1>10, <3>2 DEF ReplyLength, IInv, StateType, WriteMuFree
    <3>4. wire'[c][1] = len
      BY <2>3, <3>1
    <3>5. QED
      BY <1>2, <3>3, <3>4
  <2>5. wire'[c] # <<>>
    BY <1>8, <2>3
  <2>6. QED
    BY <2>2, <2>4, <2>5 DEF Answered
<1>11. CASE ReplyEnvelope(c)
  <2>1. wire' = [wire EXCEPT ![c] = @ \o <<env>>]
    BY <1>2, <1>4, <1>11 DEF ReplyEnvelope, Written
  <2>2. wire[c] # <<>>
    BY <1>4, <1>6, <1>11 DEF Answered, ReplyEnvelope
  <2>3. /\ Len(wire'[c]) = Len(wire[c]) + 1
        /\ wire'[c] = wire[c] \o <<env>>
    BY <1>2, <1>8, <2>1, Appended DEF WireType
  <2>4. Len(wire[c]) # 0
    BY <1>8, <2>2, EmptySeq
  <2>5. Len(wire'[c]) # 1 /\ wire'[c] # <<>>
    BY <1>8, <2>3, <2>4
  <2>6. ASSUME FirstIn(c, Session)'
        PROVE  Framed(c)'
    <3>1. Len(wire[c]) = 1 /\ wire[c][1].of \in Session
      BY <1>2, <1>7, <1>8, <2>1, <2>6, FirstInOnce
    <3>2. WriteMuFree(c) /\ wire[c][1] = len
      BY <1>2, <1>4, <1>6, <3>1 DEF Answered
    <3>3. Paired(wire[c]) /\ Len(wire[c]) % 2 = 1
      BY <1>2, <3>1, <3>2 DEF Paired
    <3>4. env = [wire[c][Len(wire[c])] EXCEPT !.part = "envelope"]
      BY <1>2, <3>1, <3>2
    <3>5. Paired(wire[c] \o <<env>>)
      BY <1>2, <1>8, <3>3, <3>4, PairedEnvelope
    <3>6. Len(wire'[c]) % 2 = 0
      BY <2>3, <3>1
    <3>7. stage'[c] = "waiting" /\ WriteMuFree(c)'
      BY <1>11, <3>2 DEF ReplyEnvelope, IInv, StateType, WriteMuFree
    <3>8. QED
      BY <2>3, <3>5, <3>6, <3>7 DEF Framed, WriteMuFree
  <2>7. QED
    BY <2>5, <2>6 DEF Answered
<1>12. QED
  BY <1>10, <1>11

(* The two writes of a request, under writeMu.                              *)
LEMMA SendKeeps ==
  ASSUME IInv, NEW c \in Conn, NEW v \in Visitor,
         SendLength(v, c) \/ (SendEnvelope(v) /\ writing[v] = c)
  PROVE  /\ Framed(c) => Framed(c)'
         /\ Answered(c) => Answered(c)'
<1> DEFINE len == Frame(v)[1]
           env == Frame(v)[2]
<1>1. /\ Frame(v)[1] = len /\ Frame(v)[2] = env
      /\ len \in Write /\ env \in Write /\ v \notin Session
      /\ \A x \in Write : len # [x EXCEPT !.part = "envelope"]
      /\ env = [len EXCEPT !.part = "envelope"]
      /\ len.part = "length" /\ len.of = v
  BY HandshakeAssumption, FrameParts
<1> HIDE DEF len, env
<1>2. WireType /\ wire[c] \in Seq(Write) /\ Len(wire[c]) \in Nat
  BY LenProperties DEF IInv, WireType
<1>3. UNCHANGED <<open, stage, session>>
  BY DEF SendLength, SendEnvelope
<1>4. CASE open[c] /\ SendLength(v, c)
  <2>1. wire' = [wire EXCEPT ![c] = @ \o <<len>>]
    BY <1>1, <1>4 DEF SendLength, Written
  <2>2. /\ Len(wire'[c]) = Len(wire[c]) + 1
        /\ wire'[c] = wire[c] \o <<len>>
        /\ wire'[c][Len(wire[c]) + 1] = len
        /\ wire[c] = <<>> => wire'[c] = <<len>>
    BY <1>1, <1>2, <2>1, Appended DEF WireType
  <2>3. /\ WriteMuFree(c) /\ writing'[v] = c
        /\ \A u \in Visitor : u # v => writing'[u] # c
    BY <1>4 DEF SendLength, IInv, StateType, WriteMuFree
  <2>4. ASSUME Framed(c)
        PROVE  Framed(c)'
    <3>1. Paired(wire[c]) /\ Len(wire[c]) % 2 = 0
      BY <1>4, <2>3, <2>4 DEF Framed
    <3>2. Paired(wire'[c])
      <4>1. Paired(wire[c] \o <<len>>)
        BY <1>1, <1>2, <3>1, PairedLength
      <4>2. QED
        BY <2>2, <4>1
    <3>3. Len(wire'[c]) % 2 = 1
      BY <1>2, <2>2, <3>1, WireLengths
    <3>4. wire'[c][Len(wire'[c])] = Frame(v)[1]
      BY <1>1, <2>2
    <3>5. QED
      BY <1>3, <2>3, <2>4, <3>2, <3>3, <3>4 DEF Framed, WriteMuFree
  <2>5. ASSUME Answered(c)
        PROVE  Answered(c)'
    <3>1. Len(wire[c]) = 1 => len # [wire[c][1] EXCEPT !.part = "envelope"]
      BY <1>1, <1>2, ElementOfSeq
    <3>2. FirstIn(c, Session)' => FirstIn(c, Session)
      BY <1>1, <1>2, <2>1, <3>1, FirstInOnce
    <3>3. Len(wire'[c]) = 1 => wire'[c][1] = len
      BY <1>2, <2>2, EmptySeq
    <3>4. wire'[c] # <<>>
      BY <1>2, <2>2
    <3>5. QED
      BY <1>1, <2>4, <2>5, <3>2, <3>3, <3>4 DEF Answered
  <2>6. QED
    BY <2>4, <2>5
<1>5. CASE open[c] /\ SendEnvelope(v) /\ writing[v] = c
  <2>1. wire' = [wire EXCEPT ![c] = @ \o <<env>>]
    BY <1>1, <1>5 DEF SendEnvelope, Written
  <2>2. /\ Len(wire'[c]) = Len(wire[c]) + 1
        /\ wire'[c] = wire[c] \o <<env>>
    BY <1>1, <1>2, <2>1, Appended DEF WireType
  <2>3. ~WriteMuFree(c)
    BY <1>5 DEF WriteMuFree
  <2>4. ASSUME Framed(c)
        PROVE  Framed(c)'
    <3>1. /\ Paired(wire[c]) /\ Len(wire[c]) % 2 = 1
          /\ \A u \in Visitor :
               writing[u] = c => wire[c][Len(wire[c])] = Frame(u)[1]
      BY <1>5, <2>4 DEF Framed
    <3>2. wire[c][Len(wire[c])] = len
      BY <1>1, <1>5, <3>1
    <3>3. Paired(wire'[c])
      <4>1. Paired(wire[c] \o <<env>>)
        BY <1>1, <1>2, <3>1, <3>2, PairedEnvelope
      <4>2. QED
        BY <2>2, <4>1
    <3>4. Len(wire'[c]) % 2 = 0
      BY <1>2, <2>2, <3>1, WireLengths
    <3>5. ASSUME NEW u \in Visitor, u # v
          PROVE  writing[u] # c
      <4>1. Frame(u)[1].of = u
        BY FrameParts
      <4>2. Frame(u)[1] # len
        BY <1>1, <3>5, <4>1
      <4>3. QED
        BY <3>1, <3>2, <4>2
    <3>6. \A u \in Visitor : writing'[u] # c
      BY <1>5, <3>5, HandshakeAssumption DEF SendEnvelope, IInv, StateType
    <3>7. QED
      BY <1>3, <2>4, <3>3, <3>4, <3>6 DEF Framed
  <2>5. ASSUME Answered(c)
        PROVE  Answered(c)'
    <3>1. wire[c] # <<>> /\ (Len(wire[c]) = 1 => wire[c][1].of \notin Session)
      BY <1>5, <2>3, <2>5 DEF Answered
    <3>2. FirstIn(c, Session)' => FirstIn(c, Session)
      BY <1>1, <1>2, <2>1, <3>1, FirstInOnce
    <3>3. Len(wire[c]) # 0
      BY <1>2, <3>1, EmptySeq
    <3>4. Len(wire'[c]) # 1 /\ wire'[c] # <<>>
      BY <1>2, <2>2, <3>3
    <3>5. QED
      BY <2>4, <2>5, <3>2, <3>4 DEF Answered
  <2>6. QED
    BY <2>4, <2>5
<1>6. CASE ~open[c]
  <2>1. wire' = wire
    BY <1>6 DEF SendLength, SendEnvelope, Written
  <2>2. Quiet(c)
    BY <1>3, <1>6, <2>1 DEF Quiet
  <2>3. QED
    BY <2>2, QuietKeeps
<1>7. QED
  BY <1>4, <1>5, <1>6

(* An error frame is not an answer that a client accepts.                   *)
LEMMA ErrorKeeps ==
  ASSUME IInv, NEW c \in Conn, NEW f \in {"rejected", "busy"}, Error(c, f)
  PROVE  /\ Framed(c) => Framed(c)'
         /\ Answered(c) => Answered(c)'
<1>1. wire[c] \in Seq(Write) /\ ~open'[c]
  BY DEF IInv, WireType, Error, StateType
<1>2. CASE ~open[c]
  <2>1. Quiet(c)
    BY <1>1, <1>2 DEF Error, Written, Quiet
  <2>2. QED
    BY <2>1, QuietKeeps
<1>3. CASE open[c]
  <2>1. ~Framed(c) /\ stage[c] = "reading"
    BY <1>3 DEF Error, Framed
  <2>2. SUFFICES ASSUME Answered(c)
                 PROVE  ~FirstIn(c, Session)'
    BY <1>1, <2>1 DEF Answered
  <2>3. /\ ~FirstIn(c, Session)
        /\ Len(wire[c]) = 1 => wire[c][1].of \notin Session
    BY <1>3, <2>1, <2>2 DEF Answered
  <2>4. f \in Reply /\ f \notin Session
    BY HandshakeAssumption DEF Reply
  <2>5. /\ Frame(f) \in Seq(Write) /\ Len(Frame(f)) = 2
        /\ Frame(f)[1].of = f
    BY <2>4, FrameWrites, FrameParts, PairedFrame
  <2>6. wire'[c] = wire[c] \o Frame(f)
    BY <1>3 DEF Error, Written, IInv, WireType
  <2>7. \A i \in 1..Len(wire[c]) : wire'[c][i] = wire[c][i]
    BY <1>1, <2>5, <2>6, LenProperties, ConcatProperties
  <2>8. wire[c] = <<>> => wire'[c] = Frame(f)
    BY <2>5, <2>6, ConcatEmptySeq
  <2>9. wire'[c] \in Seq(Write)
    BY <1>1, <2>5, <2>6, ConcatProperties
  <2>10. SUFFICES ASSUME FirstIn(c, Session)'
                  PROVE  FALSE
    OBVIOUS
  <2>11. /\ wire'[c][1].part = "length" /\ wire'[c][1].of \in Session
         /\ wire'[c][2] = [wire'[c][1] EXCEPT !.part = "envelope"]
    BY <2>9, <2>10 DEF FirstIn, Readable, Whole
  <2>12. CASE wire[c] = <<>>
    BY <2>4, <2>5, <2>8, <2>11, <2>12
  <2>13. CASE Len(wire[c]) = 1
    <3>1. wire'[c][1] = wire[c][1]
      BY <2>7, <2>13
    <3>2. QED
      BY <2>3, <2>11, <2>13, <3>1
  <2>14. CASE Len(wire[c]) >= 2
    <3>1. 1 \in 1..Len(wire[c]) /\ 2 \in 1..Len(wire[c])
      BY <1>1, <2>14, LenProperties
    <3>2. wire'[c][1] = wire[c][1] /\ wire'[c][2] = wire[c][2]
      BY <2>7, <3>1
    <3>3. QED
      BY <1>1, <2>3, <2>11, <2>14, <3>2 DEF FirstIn, Readable, Whole
  <2>15. QED
    BY <1>1, <2>12, <2>13, <2>14, WireLengths
<1>4. QED
  BY <1>2, <1>3

(* Reading a frame leaves frames.                                           *)
LEMMA ReadKeeps ==
  ASSUME IInv, NEW c \in Conn, Framed(c), Readable(c),
         wire' = [wire EXCEPT ![c] = SubSeq(@, 3, Len(@))],
         UNCHANGED <<open, stage, writing>>
  PROVE  Framed(c)'
<1> DEFINE w == wire[c]
           t == SubSeq(w, 3, Len(w))
<1>1. w \in Seq(Write) /\ wire'[c] = t /\ Len(w) \in Nat /\ Len(w) >= 2
  BY LenProperties DEF IInv, WireType, Readable
<1>2. /\ Len(t) = Len(w) - 2
      /\ \A i \in 1..Len(w) - 2 : t[i] = w[i + 2]
      /\ Paired(t)
  BY <1>1, FrameRead, PairedRead DEF Framed
<1> HIDE DEF t
<1>3. Len(t) % 2 = Len(w) % 2
  <2>1. \A n \in Nat : n >= 2 => (n - 2) % 2 = n % 2
    OBVIOUS
  <2>2. QED
    BY <1>1, <1>2, <2>1
<1>4. ASSUME Len(w) % 2 = 1
      PROVE  t[Len(t)] = w[Len(w)]
  <2>1. \A n \in Nat : n >= 2 /\ n % 2 = 1
                     => n - 2 \in 1..n - 2 /\ (n - 2) + 2 = n
    OBVIOUS
  <2>2. Len(t) \in 1..Len(w) - 2 /\ Len(t) + 2 = Len(w)
    BY <1>1, <1>2, <1>4, <2>1
  <2>3. QED
    BY <1>2, <2>2
<1>5. QED
  BY <1>1, <1>2, <1>3, <1>4 DEF Framed, WriteMuFree

(* A step of a client, on its connection only.                              *)
LEMMA ClientKeeps ==
  ASSUME FrameInv, NEW k \in Client, NEW c,
         \A l \in Client : l # k => /\ at'[l] = at[l] /\ conn'[l] = conn[l]
                                    /\ conn[l] # None => conn[l] # c,
         \A d \in Conn : d # c => Quiet(d),
         \/ at'[k] = "away"
         \/ /\ conn'[k] = c
            /\ at'[k] = "serving" => Framed(c)'
            /\ at'[k] = "waiting" => Answered(c)'
  PROVE  FrameInv'
<1>1. SUFFICES ASSUME NEW l \in Client, NEW d \in Conn, conn'[l] = d
               PROVE  /\ at'[l] = "serving" => Framed(d)'
                      /\ at'[l] = "waiting" => Answered(d)'
  BY DEF FrameInv
<1>2. CASE l = k
  BY <1>1, <1>2
<1>3. CASE l # k
  <2>1. at'[l] = at[l] /\ conn[l] = d
    BY <1>1, <1>3
  <2>2. d # c
    BY <1>3, <2>1, HandshakeAssumption
  <2>3. QED
    BY <2>1, <2>2, QuietKeeps DEF FrameInv
<1>4. QED
  BY <1>2, <1>3

LEMMA FrameStep ==
  ASSUME IInv, FrameInv, [Next]_vars
  PROVE  FrameInv'
<1> USE DEF IInv, StateType
<1>1. ASSUME UNCHANGED <<at, conn>>, \A c \in Conn : Quiet(c)
      PROVE  FrameInv'
  BY <1>1, QuietKeeps DEF FrameInv
<1>2. ASSUME NEW k \in Client, NEW c \in Conn, Dial(k, c)
      PROVE  FrameInv'
  <2>1. \A d \in Conn : d # c => Quiet(d)
    BY <1>2 DEF Dial, Quiet
  <2>2. WriteMuFree(c)' /\ wire'[c] = <<>> /\ stage'[c] = "backlog"
    BY <1>2 DEF Dial, UnusedConn, WriteMuFree, WireType
  <2>3. Answered(c)'
    BY <2>2 DEF Answered, FirstIn, Readable
  <2>4. \A l \in Client : l # k => /\ at'[l] = at[l] /\ conn'[l] = conn[l]
                                   /\ conn[l] # c
    BY <1>2 DEF Dial, UnusedConn
  <2>5. at'[k] = "waiting" /\ conn'[k] = c
    BY <1>2 DEF Dial
  <2>6. QED
    BY <2>1, <2>3, <2>4, <2>5, ClientKeeps
<1>3. ASSUME NEW k \in Client, ReadRegistered(k) \/ ReadRequest(k)
      PROVE  FrameInv'
  <2>1. PICK c \in Conn : conn[k] = c
    BY <1>3, ConnOf DEF ReadRegistered, ReadRequest
  <2>2. Framed(c) /\ Readable(c)
    BY <1>3, <2>1 DEF ReadRegistered, ReadRequest, FrameInv, Answered, FirstIn
  <2>3. /\ wire' = [wire EXCEPT ![c] = SubSeq(@, 3, Len(@))]
        /\ UNCHANGED <<open, stage, session, writing>>
    BY <1>3, <2>1 DEF ReadRegistered, ReadRequest, server
  <2>4. Framed(c)'
    BY <2>2, <2>3, ReadKeeps
  <2>5. \A d \in Conn : d # c => Quiet(d)
    BY <2>3 DEF Quiet, WireType
  <2>6. \A l \in Client : l # k => /\ at'[l] = at[l] /\ conn'[l] = conn[l]
                                   /\ conn[l] # None => conn[l] # c
    BY <1>3, <2>1 DEF ReadRegistered, ReadRequest, client, ConnInv
  <2>7. at'[k] = "serving" /\ conn'[k] = c
    BY <1>3, <2>1 DEF ReadRegistered, ReadRequest, client
  <2>8. QED
    BY <2>4, <2>5, <2>6, <2>7, ClientKeeps
<1>4. ASSUME NEW k \in Client,
             ReadRejected(k) \/ ReadOther(k) \/ ReadFails(k) \/ Rerun(k)
      PROVE  FrameInv'
  <2>1. at[k] # "away" /\ Leave(k) /\ UNCHANGED server
    BY <1>4 DEF ReadRejected, ReadOther, ReadFails, Rerun
  <2>2. PICK c \in Conn : conn[k] = c
    BY <2>1, ConnOf
  <2>3. \A d \in Conn : d # c => Quiet(d)
    BY <2>1, <2>2 DEF Leave, Quiet, WireType, server
  <2>4. \A l \in Client : l # k => /\ at'[l] = at[l] /\ conn'[l] = conn[l]
                                   /\ conn[l] # None => conn[l] # c
    BY <2>1, <2>2 DEF Leave, ConnInv
  <2>5. at'[k] = "away"
    BY <2>1 DEF Leave
  <2>6. QED
    BY <2>3, <2>4, <2>5, ClientKeeps
<1>5. ASSUME NEW c \in Conn, NEW f \in {"rejected", "busy"}, Error(c, f)
      PROVE  FrameInv'
  <2>1. \A d \in Conn : d # c => Quiet(d)
    BY <1>5 DEF Error, Returned, Written, Quiet, WireType
  <2>2. UNCHANGED <<at, conn>>
    BY <1>5 DEF Error, client
  <2>3. QED
    BY <1>5, <2>1, <2>2, ErrorKeeps, ServerKeeps
<1>6. ASSUME NEW c \in Conn, ReplyLength(c) \/ ReplyEnvelope(c)
      PROVE  FrameInv'
  <2>1. \A d \in Conn : d # c => Quiet(d)
    BY <1>6 DEF ReplyLength, ReplyEnvelope, Written, Quiet, WireType
  <2>2. UNCHANGED <<at, conn>>
    BY <1>6 DEF ReplyLength, ReplyEnvelope, client
  <2>3. QED
    BY <1>6, <2>1, <2>2, ReplyKeeps, ServerKeeps
<1>7. ASSUME NEW v \in Visitor, NEW c \in Conn,
             SendLength(v, c) \/ (SendEnvelope(v) /\ writing[v] = c)
      PROVE  FrameInv'
  <2>1. \A d \in Conn : d # c => Quiet(d)
    <3>1. CASE SendLength(v, c)
      BY <3>1, HandshakeAssumption
         DEF SendLength, Written, Quiet, WireType
    <3>2. CASE SendEnvelope(v) /\ writing[v] = c
      BY <3>2, HandshakeAssumption
         DEF SendEnvelope, Written, Quiet, WireType
    <3>3. QED
      BY <1>7, <3>1, <3>2
  <2>2. UNCHANGED <<at, conn>>
    BY <1>7 DEF SendLength, SendEnvelope, client
  <2>3. QED
    BY <1>7, <2>1, <2>2, SendKeeps, ServerKeeps
<1>8. ASSUME NEW v \in Visitor, SendEnvelope(v)
      PROVE  FrameInv'
  <2>1. writing[v] \in Conn
    BY <1>8 DEF SendEnvelope
  <2>2. QED
    BY <1>7, <1>8, <2>1
<1>9. ASSUME NEW c \in Conn, Drop(c)
      PROVE  FrameInv'
  <2>1. \A d \in Conn : d # c => Quiet(d)
    BY <1>9 DEF Drop, Quiet, WireType, server
  <2>2. wire'[c] = <<>> /\ ~open'[c] /\ UNCHANGED <<at, conn>>
    BY <1>9 DEF Drop, WireType, client
  <2>3. Framed(c)' /\ Answered(c)'
    BY <2>2 DEF Framed, Paired, Answered, FirstIn, Readable
  <2>4. QED
    BY <2>1, <2>2, <2>3, ServerKeeps
<1>10. ASSUME NEW c \in Conn, NEW s \in Session, stage[c] = "reading",
              Registers(c, s), UNCHANGED <<client, writing, wire>>
       PROVE  FrameInv'
  <2>1. \A d \in Conn : Quiet(d)
    BY <1>10 DEF Registers, Quiet
  <2>2. QED
    BY <1>1, <1>10, <2>1 DEF client
<1>11. ASSUME NEW c \in Conn, Handler(c) \/ NoRegister(c)
       PROVE  FrameInv'
  <2>1. CASE Accept(c)
    BY <1>1, <2>1 DEF Accept, Quiet, client
  <2>2. CASE AcceptFull(c) \/ NoRegister(c)
    BY <1>1, <2>2 DEF AcceptFull, NoRegister, Returned, Quiet, client
  <2>3. CASE RegisterNew(c) \/ RegisterResume(c)
    BY <1>10, <2>3 DEF RegisterNew, RegisterResume
  <2>4. CASE RefuseResume(c)
    BY <1>5, <2>4 DEF RefuseResume, Fails
  <2>5. QED
    BY <1>6, <1>11, <2>1, <2>2, <2>3, <2>4 DEF Handler
<1>12. ASSUME NEW c \in Conn, ReadLoop(c)
       PROVE  FrameInv'
  <2>1. CASE LoopEnds(c)
    BY <1>1, <2>1 DEF LoopEnds, Returned, Quiet, client
  <2>2. CASE EndSession(c)
    BY <1>1, <2>2 DEF EndSession, Quiet, client
  <2>3. QED
    BY <1>12, <2>1, <2>2 DEF ReadLoop
<1>13. ASSUME NEW s \in Session, RowGoes(s) \/ CloseOver(s)
       PROVE  FrameInv'
  BY <1>1, <1>13 DEF RowGoes, Over, CloseOver, Prune, Quiet, client, server
<1>14. CASE Restart
  BY <1>1, <1>14 DEF Restart, Quiet, client
<1>15. CASE UNCHANGED vars
  BY <1>1, <1>15 DEF vars, client, server, Quiet
<1>16. CASE Calm
  BY <1>16, <1>2, <1>3, <1>4, <1>7, <1>8, <1>11, <1>12, <1>13
     DEF Calm, ClientReads
<1>17. CASE Disturbance
  BY <1>17, <1>4, <1>5, <1>9, <1>11, <1>14
     DEF Disturbance, RefuseBusy, FailsLate, Fails
<1>18. QED
  BY <1>15, <1>16, <1>17 DEF Next

LEMMA FrameInductive == Spec => []FrameInv
<1>1. Init => FrameInv
  BY DEF Init, FrameInv
<1>2. IInv /\ FrameInv /\ [Next]_vars => FrameInv'
  BY FrameStep
<1>3. QED
  BY <1>1, <1>2, Inductive, PTL DEF Spec

(* Whatever the order in which the handler and the public requests write to *)
(* a connection, a client that took its answer reads nothing but whole      *)
(* frames from then on: an answer that is torn is not taken, and after one  *)
(* that is whole only writes under writeMu follow.                          *)
THEOREM ServedFramesWhole == Spec => []FramesWhole
<1>1. IInv /\ FrameInv => FramesWhole
  <2>1. SUFFICES ASSUME IInv, FrameInv, NEW k \in Client, at[k] = "serving",
                        Readable(conn[k])
                 PROVE  Whole(conn[k])
    BY DEF FramesWhole
  <2>2. PICK c \in Conn : conn[k] = c
    BY <2>1, ConnOf DEF IInv
  <2>3. /\ wire[c] \in Seq(Write) /\ Len(wire[c]) \in Nat
        /\ Len(wire[c]) >= 2 /\ Paired(wire[c])
    BY <2>1, <2>2, LenProperties
       DEF IInv, WireType, FrameInv, Framed, Readable
  <2>4. /\ wire[c][1].part = "length"
        /\ wire[c][2] = [wire[c][1] EXCEPT !.part = "envelope"]
    <3>1. 1 \in 1..Len(wire[c]) /\ 1 < Len(wire[c])
      BY <2>3
    <3>2. 1 % 2 = 1 /\ 1 + 1 = 2
      OBVIOUS
    <3>3. QED
      BY <2>3, <3>1, <3>2 DEF Paired
  <2>5. QED
    BY <2>2, <2>3, <2>4 DEF Whole
<1>2. QED
  BY <1>1, Inductive, FrameInductive, PTL

-----------------------------------------------------------------------------
(* Sessions                                                                 *)

(* The sessions that are on their way to a connection's client, or from it. *)
Named(c) == {wire[c][i].of : i \in 1..Len(wire[c])}

About(c, s) == s = asked[c] \/ s = session[c] \/ s \in Named(c)

(* A client that has a session, or will read of one.                        *)
Holds(k, s) ==
  \/ sessionID[k] = s
  \/ \E c \in Conn : conn[k] = c /\ About(c, s)

ApartInv ==
  \A k, l \in Client, s \in Session : k # l => ~(Holds(k, s) /\ Holds(l, s))

(* What a write adds to the names on a wire, and that a read adds none.     *)
LEMMA NamedWritten ==
  ASSUME WireType, NEW c \in Conn, NEW z \in Seq(Write), NEW f,
         \A i \in 1..Len(z) : z[i].of = f, wire' = Written(c, z),
         NEW d \in Conn, NEW s, s \in Named(d)'
  PROVE  s \in Named(d) \/ (d = c /\ s = f)
<1>1. PICK i \in 1..Len(wire'[d]) : s = wire'[d][i].of
  BY DEF Named
<1>2. CASE wire'[d] = wire[d]
  BY <1>1, <1>2 DEF Named
<1>3. CASE d = c /\ wire'[c] = wire[c] \o z
  <2>1. /\ wire[c] \in Seq(Write)
        /\ Len(wire[c]) \in Nat /\ Len(z) \in Nat
    BY LenProperties DEF WireType
  <2>2. /\ Len(wire'[c]) = Len(wire[c]) + Len(z)
        /\ \A j \in 1..Len(wire[c]) + Len(z) :
             wire'[c][j] = IF j <= Len(wire[c]) THEN wire[c][j]
                                                ELSE z[j - Len(wire[c])]
    BY <1>3, <2>1, ConcatProperties
  <2>3. i \in 1..Len(wire[c]) + Len(z)
    BY <1>1, <1>3, <2>2
  <2>4. CASE i <= Len(wire[c])
    <3>1. i \in 1..Len(wire[c]) /\ wire'[c][i] = wire[c][i]
      BY <2>1, <2>2, <2>3, <2>4
    <3>2. QED
      BY <1>1, <1>3, <3>1 DEF Named
  <2>5. CASE ~(i <= Len(wire[c]))
    <3>1. i - Len(wire[c]) \in 1..Len(z)
      BY <2>1, <2>3, <2>5
    <3>2. wire'[c][i] = z[i - Len(wire[c])]
      BY <2>2, <2>3, <2>5
    <3>3. QED
      BY <1>1, <1>3, <3>1, <3>2
  <2>6. QED
    BY <2>4, <2>5
<1>4. wire'[d] = wire[d] \/ (d = c /\ wire'[c] = wire[c] \o z)
  BY DEF Written, WireType
<1>5. QED
  BY <1>2, <1>3, <1>4

LEMMA NamedRead ==
  ASSUME WireType, NEW c \in Conn, Readable(c),
         wire' = [wire EXCEPT ![c] = SubSeq(@, 3, Len(@))],
         NEW d \in Conn, NEW s, s \in Named(d)'
  PROVE  s \in Named(d)
<1>1. PICK i \in 1..Len(wire'[d]) : s = wire'[d][i].of
  BY DEF Named
<1>2. CASE d # c
  <2>1. wire'[d] = wire[d]
    BY <1>2 DEF WireType
  <2>2. QED
    BY <1>1, <2>1 DEF Named
<1>3. CASE d = c
  <2>1. wire[c] \in Seq(Write) /\ Len(wire[c]) \in Nat /\ Len(wire[c]) >= 2
    BY LenProperties DEF WireType, Readable
  <2>2. /\ Len(wire'[c]) = Len(wire[c]) - 2
        /\ \A j \in 1..Len(wire[c]) - 2 : wire'[c][j] = wire[c][j + 2]
    BY <2>1, FrameRead DEF WireType
  <2>3. i \in 1..Len(wire[c]) - 2
    BY <1>1, <1>3, <2>2
  <2>4. i + 2 \in 1..Len(wire[c])
    BY <2>1, <2>3
  <2>5. QED
    BY <1>1, <1>3, <2>2, <2>3, <2>4 DEF Named
<1>4. QED
  BY <1>2, <1>3

(* The names in what Encode writes, as a whole or in two calls.             *)
LEMMA FrameNames ==
  ASSUME NEW f \in Reply \union Visitor,
         NEW z, z = Frame(f) \/ z = <<Frame(f)[1]>> \/ z = <<Frame(f)[2]>>
  PROVE  z \in Seq(Write) /\ \A i \in 1..Len(z) : z[i].of = f
<1>1. Frame(f)[1].of = f /\ Frame(f)[2].of = f /\ Len(Frame(f)) = 2
  BY DEF Frame
<1>2. 1..2 = {1, 2} /\ 1..1 = {1}
  OBVIOUS
<1>3. CASE z = Frame(f)
  BY <1>1, <1>2, <1>3, FrameWrites
<1>4. CASE z = <<Frame(f)[1]>>
  BY <1>1, <1>2, <1>4, FrameWrites
<1>5. CASE z = <<Frame(f)[2]>>
  BY <1>1, <1>2, <1>5, FrameWrites
<1>6. QED
  BY <1>3, <1>4, <1>5

(* A step after which nobody holds a session who did not hold it before.    *)
LEMMA ApartKept ==
  ASSUME ApartInv,
         \A k \in Client, s \in Session : Holds(k, s)' => Holds(k, s)
  PROVE  ApartInv'
BY DEF ApartInv

LEMMA ServerHolds ==
  ASSUME UNCHANGED <<conn, sessionID>>,
         \A c \in Conn, s \in Session : About(c, s)' => About(c, s)
  PROVE  \A k \in Client, s \in Session : Holds(k, s)' => Holds(k, s)
BY DEF Holds

(* A new session is nobody's, and a connection is one client's.             *)
LEMMA ApartNew ==
  ASSUME IInv, ApartInv, NEW c \in Conn, RegisterNew(c)
  PROVE  ApartInv'
<1> USE DEF IInv, StateType
<1>1. PICK n \in Session : UnusedSession(n) /\ Registers(c, n)
  BY DEF RegisterNew
<1>2. UNCHANGED <<conn, sessionID, wire>>
  BY DEF RegisterNew, client
<1>3. ASSUME NEW d \in Conn, NEW s \in Session, About(d, s)'
      PROVE  About(d, s) \/ (d = c /\ s = n)
  BY <1>1, <1>2, <1>3, HandshakeAssumption
     DEF Registers, Consumed, About, Named
<1>4. \A k \in Client : ~Holds(k, n)
  <2>1. \A d \in Conn : ~About(d, n)
    BY <1>1, LenProperties DEF UnusedSession, About, Named, WireType
  <2>2. QED
    BY <1>1, <2>1 DEF UnusedSession, Holds
<1>5. ASSUME NEW k \in Client, NEW s \in Session, Holds(k, s)'
      PROVE  Holds(k, s) \/ (s = n /\ conn[k] = c)
  BY <1>2, <1>3, <1>5 DEF Holds
<1>6. SUFFICES ASSUME NEW k \in Client, NEW l \in Client, NEW s \in Session,
                      k # l, Holds(k, s)', Holds(l, s)'
               PROVE  FALSE
  BY DEF ApartInv
<1>7. CASE s = n
  <2>1. conn[k] = c /\ conn[l] = c
    BY <1>4, <1>5, <1>6, <1>7
  <2>2. QED
    BY <1>6, <2>1, HandshakeAssumption DEF ConnInv
<1>8. CASE s # n
  BY <1>5, <1>6, <1>8 DEF ApartInv
<1>9. QED
  BY <1>7, <1>8

LEMMA ApartStep ==
  ASSUME IInv, ApartInv, [Next]_vars
  PROVE  ApartInv'
<1> USE DEF IInv, StateType
<1>1. ASSUME UNCHANGED <<conn, sessionID>>,
             \A c \in Conn, s \in Session : About(c, s)' => About(c, s)
      PROVE  ApartInv'
  BY <1>1, ServerHolds, ApartKept
<1>2. ASSUME NEW k \in Client, NEW c \in Conn, Dial(k, c)
      PROVE  ApartInv'
  <2>1. /\ Named(c)' = {} /\ session'[c] = None /\ asked'[c] = sessionID[k]
        /\ UNCHANGED sessionID
    BY <1>2 DEF Dial, UnusedConn, SessionInv, Named, WireType
  <2>2. \A d \in Conn, s \in Session : d # c => (About(d, s)' <=> About(d, s))
    BY <1>2 DEF Dial, About, Named, WireType
  <2>3. /\ conn'[k] = c
        /\ \A l \in Client : l # k => conn'[l] = conn[l] /\ conn[l] # c
    BY <1>2 DEF Dial, UnusedConn
  <2>4. ASSUME NEW l \in Client, NEW s \in Session, Holds(l, s)'
        PROVE  Holds(l, s)
    <3>1. CASE l = k
      <4>1. About(c, s)' => s = sessionID[k]
        BY <2>1, HandshakeAssumption DEF About
      <4>2. sessionID'[l] = s \/ About(c, s)'
        BY <2>3, <2>4, <3>1 DEF Holds
      <4>3. QED
        BY <2>1, <3>1, <4>1, <4>2 DEF Holds
    <3>2. CASE l # k
      BY <2>1, <2>2, <2>3, <2>4, <3>2 DEF Holds
    <3>3. QED
      BY <3>1, <3>2
  <2>5. QED
    BY <2>4, ApartKept
<1>3. ASSUME NEW k \in Client, ReadRegistered(k) \/ ReadRequest(k)
      PROVE  ApartInv'
  <2>1. PICK c \in Conn : conn[k] = c
    BY <1>3, ConnOf DEF ReadRegistered, ReadRequest
  <2>2. /\ wire' = [wire EXCEPT ![c] = SubSeq(@, 3, Len(@))] /\ Readable(c)
        /\ UNCHANGED <<conn, session, asked>>
    BY <1>3, <2>1 DEF ReadRegistered, ReadRequest, FirstIn, server, client
  <2>3. \A d \in Conn, s \in Session : About(d, s)' => About(d, s)
    BY <2>2, NamedRead DEF About
  <2>4. /\ \A l \in Client : l # k => sessionID'[l] = sessionID[l]
        /\ sessionID'[k] = sessionID[k] \/ sessionID'[k] \in Named(c)
    <3>1. CASE ReadRegistered(k)
      <4>1. sessionID' = [sessionID EXCEPT ![k] = Head(wire[c]).of]
        BY <2>1, <3>1 DEF ReadRegistered
      <4>2. Head(wire[c]).of \in Named(c)
        <5>1. /\ wire[c] \in Seq(Write)
              /\ Len(wire[c]) \in Nat /\ Len(wire[c]) >= 2
          BY <2>2, LenProperties DEF WireType, Readable
        <5>2. Head(wire[c]) = wire[c][1] /\ 1 \in 1..Len(wire[c])
          BY <5>1
        <5>3. QED
          BY <5>2 DEF Named
      <4>3. QED
        BY <4>1, <4>2
    <3>2. CASE ReadRequest(k)
      BY <3>2 DEF ReadRequest, client
    <3>3. QED
      BY <1>3, <3>1, <3>2
  <2>5. ASSUME NEW l \in Client, NEW s \in Session, Holds(l, s)'
        PROVE  Holds(l, s)
    BY <2>1, <2>2, <2>3, <2>4, <2>5 DEF Holds, About
  <2>6. QED
    BY <2>5, ApartKept
<1>4. ASSUME NEW k \in Client,
             ReadRejected(k) \/ ReadOther(k) \/ ReadFails(k) \/ Rerun(k)
      PROVE  ApartInv'
  <2>1. at[k] # "away" /\ Leave(k) /\ UNCHANGED server
    BY <1>4 DEF ReadRejected, ReadOther, ReadFails, Rerun
  <2>2. \A l \in Client : sessionID'[l] \in {sessionID[l], None}
    BY <1>4 DEF ReadRejected, ReadOther, ReadFails, Rerun, Forgotten
  <2>3. \A l \in Client : conn'[l] \in {conn[l], None}
    BY <2>1 DEF Leave
  <2>4. \A d \in Conn, s \in Session : About(d, s)' => About(d, s)
    <3>1. \A d \in Conn : wire'[d] = wire[d] \/ wire'[d] = <<>>
      BY <2>1 DEF Leave, WireType
    <3>2. \A d \in Conn, s \in Session : s \in Named(d)' => s \in Named(d)
      BY <3>1 DEF Named
    <3>3. QED
      BY <2>1, <3>2 DEF About, server
  <2>5. ASSUME NEW l \in Client, NEW s \in Session, Holds(l, s)'
        PROVE  Holds(l, s)
    BY <2>2, <2>3, <2>4, <2>5, HandshakeAssumption DEF Holds
  <2>6. QED
    BY <2>5, ApartKept
<1>5. ASSUME NEW c \in Conn, NEW f \in {"rejected", "busy"}, Error(c, f)
      PROVE  ApartInv'
  <2>1. /\ wire' = Written(c, Frame(f))
        /\ UNCHANGED <<conn, sessionID, session>>
        /\ \A d \in Conn : asked'[d] \in {asked[d], None}
    BY <1>5 DEF Error, client, Consumed
  <2>2. f \in Reply /\ f \notin Session
    BY HandshakeAssumption DEF Reply
  <2>3. \A d \in Conn, s \in Session : s \in Named(d)' => s \in Named(d)
    <3>1. /\ Frame(f) \in Seq(Write)
          /\ \A i \in 1..Len(Frame(f)) : Frame(f)[i].of = f
      BY <2>2, FrameNames
    <3>2. QED
      BY <2>1, <2>2, <3>1, NamedWritten
  <2>4. QED
    BY <1>1, <2>1, <2>3, HandshakeAssumption DEF About
<1>6. ASSUME NEW c \in Conn, ReplyLength(c) \/ ReplyEnvelope(c)
      PROVE  ApartInv'
  <2>1. session[c] \in Reply /\ UNCHANGED <<conn, sessionID, session, asked>>
    BY <1>6 DEF ReplyLength, ReplyEnvelope, client, SessionInv, Reply
  <2>2. PICK z : /\ z = <<Frame(session[c])[1]>> \/ z = <<Frame(session[c])[2]>>
                 /\ wire' = Written(c, z)
    BY <1>6 DEF ReplyLength, ReplyEnvelope
  <2>3. z \in Seq(Write) /\ \A i \in 1..Len(z) : z[i].of = session[c]
    BY <2>1, <2>2, FrameNames
  <2>4. \A d \in Conn, s \in Session :
          s \in Named(d)' => s \in Named(d) \/ (d = c /\ s = session[c])
    BY <2>1, <2>2, <2>3, NamedWritten
  <2>5. QED
    BY <1>1, <2>1, <2>4 DEF About
<1>7. ASSUME NEW v \in Visitor, NEW c \in Conn,
             SendLength(v, c) \/ (SendEnvelope(v) /\ writing[v] = c)
      PROVE  ApartInv'
  <2>1. v \notin Session /\ UNCHANGED <<conn, sessionID, session, asked>>
    BY <1>7, HandshakeAssumption DEF SendLength, SendEnvelope, client
  <2>2. PICK z : /\ z = <<Frame(v)[1]>> \/ z = <<Frame(v)[2]>>
                 /\ wire' = Written(c, z)
    BY <1>7 DEF SendLength, SendEnvelope
  <2>3. z \in Seq(Write) /\ \A i \in 1..Len(z) : z[i].of = v
    BY <2>2, FrameNames
  <2>4. ASSUME NEW d \in Conn, NEW s \in Session, s \in Named(d)'
        PROVE  s \in Named(d)
    <3>1. s \in Named(d) \/ (d = c /\ s = v)
      BY <2>2, <2>3, <2>4, NamedWritten
    <3>2. QED
      BY <2>1, <3>1
  <2>5. QED
    BY <1>1, <2>1, <2>4 DEF About
<1>8. ASSUME NEW v \in Visitor, SendEnvelope(v)
      PROVE  ApartInv'
  <2>1. writing[v] \in Conn
    BY <1>8 DEF SendEnvelope
  <2>2. QED
    BY <1>7, <1>8, <2>1
<1>9. ASSUME NEW c \in Conn, Drop(c)
      PROVE  ApartInv'
  <2>1. \A d \in Conn : wire'[d] = wire[d] \/ wire'[d] = <<>>
    BY <1>9 DEF Drop, WireType
  <2>2. \A d \in Conn, s \in Session : s \in Named(d)' => s \in Named(d)
    BY <2>1 DEF Named
  <2>3. QED
    BY <1>1, <1>9, <2>2 DEF Drop, About, client, server
<1>10. ASSUME UNCHANGED <<conn, sessionID, wire>>,
              \A c \in Conn : /\ asked'[c] \in {asked[c], None}
                              /\ session'[c] \in {session[c], asked[c], None}
       PROVE  ApartInv'
  <2>1. \A d \in Conn : Named(d)' = Named(d)
    BY <1>10 DEF Named
  <2>2. QED
    BY <1>1, <1>10, <2>1, HandshakeAssumption DEF About
<1>11. ASSUME NEW c \in Conn, Handler(c) \/ NoRegister(c)
       PROVE  ApartInv'
  <2>1. CASE Accept(c) \/ AcceptFull(c) \/ NoRegister(c)
    BY <1>10, <2>1 DEF Accept, AcceptFull, NoRegister, Consumed, client
  <2>2. CASE RegisterNew(c)
    BY <2>2, ApartNew
  <2>3. CASE RegisterResume(c)
    BY <1>10, <2>3 DEF RegisterResume, Registers, Consumed, client
  <2>4. CASE RefuseResume(c)
    BY <1>5, <2>4 DEF RefuseResume, Fails
  <2>5. QED
    BY <1>6, <1>11, <2>1, <2>2, <2>3, <2>4 DEF Handler
<1>12. ASSUME NEW c \in Conn, ReadLoop(c)
       PROVE  ApartInv'
  BY <1>10, <1>12 DEF ReadLoop, LoopEnds, EndSession, client
<1>13. ASSUME NEW s \in Session, RowGoes(s) \/ CloseOver(s)
       PROVE  ApartInv'
  BY <1>10, <1>13 DEF RowGoes, Over, CloseOver, Prune, client, server
<1>14. CASE Restart
  BY <1>10, <1>14 DEF Restart, client
<1>15. CASE UNCHANGED vars
  BY <1>10, <1>15 DEF vars, client, server
<1>16. CASE Calm
  BY <1>16, <1>2, <1>3, <1>4, <1>7, <1>8, <1>11, <1>12, <1>13
     DEF Calm, ClientReads
<1>17. CASE Disturbance
  BY <1>17, <1>4, <1>5, <1>9, <1>11, <1>14
     DEF Disturbance, RefuseBusy, FailsLate, Fails
<1>18. QED
  BY <1>15, <1>16, <1>17 DEF Next

LEMMA ApartInductive == Spec => []ApartInv
<1>1. ASSUME Init PROVE ApartInv
  <2>1. \A k \in Client, s \in Session : ~Holds(k, s)
    BY <1>1, HandshakeAssumption DEF Init, Holds
  <2>2. QED
    BY <2>1 DEF ApartInv
<1>2. IInv /\ ApartInv /\ [Next]_vars => ApartInv'
  BY ApartStep
<1>3. QED
  BY <1>1, <1>2, Inductive, PTL DEF Spec

(* A session is remembered by at most one client, whatever answers were     *)
(* lost and whatever a resume took over.                                    *)
THEOREM SessionsNeverShared == Spec => []SessionsApart
<1>1. IInv /\ ApartInv => SessionsApart
  BY DEF IInv, StateType, ApartInv, Holds, SessionsApart
<1>2. QED
  BY <1>1, Inductive, ApartInductive, PTL

-----------------------------------------------------------------------------
(* First connections                                                        *)

(* A connection without a session to resume: until its client has read the  *)
(* answer, nothing else is on the wire, for nobody knows its session.       *)
First(c) ==
  /\ asked[c] = None
  /\ session[c] \notin known
  /\ WriteMuFree(c)
  /\ \/ /\ wire[c] = <<>>
        /\ open[c] => stage[c] \in {"backlog", "reading", "reply"}
     \/ \E s \in Session : /\ wire[c] = <<Frame(s)[1]>>
                           /\ open[c] => stage[c] = "body" /\ session[c] = s
     \/ \E f \in Reply : /\ wire[c] = Frame(f)
                         /\ open[c] => stage[c] = "waiting"

NewcomerInv ==
  \A k \in Client, c \in Conn :
    at[k] = "waiting" /\ sessionID[k] = None /\ conn[k] = c => First(c)

LEMMA FirstKept ==
  ASSUME NEW c, First(c), Quiet(c), asked'[c] \in {asked[c], None},
         session'[c] \notin known',
         \A v \in Visitor : writing'[v] = c => writing[v] = c
  PROVE  First(c)'
<1>1. asked'[c] = None /\ WriteMuFree(c)'
  BY DEF First, WriteMuFree
<1>2. CASE wire[c] = <<>> /\ (open[c] => stage[c] \in {"backlog", "reading",
                                                      "reply"})
  BY <1>1, <1>2 DEF First, Quiet
<1>3. ASSUME NEW s \in Session, wire[c] = <<Frame(s)[1]>>,
             open[c] => stage[c] = "body" /\ session[c] = s
      PROVE  First(c)'
  <2>1. wire'[c] = <<Frame(s)[1]>>
    BY <1>3 DEF Quiet
  <2>2. open'[c] => stage'[c] = "body" /\ session'[c] = s
    BY <1>3 DEF Quiet
  <2>3. QED
    BY <1>1, <2>1, <2>2 DEF First, Frame
<1>4. ASSUME NEW f \in Reply, wire[c] = Frame(f),
             open[c] => stage[c] = "waiting"
      PROVE  First(c)'
  <2>1. wire'[c] = Frame(f)
    BY <1>4 DEF Quiet
  <2>2. open'[c] => stage'[c] = "waiting"
    BY <1>4 DEF Quiet
  <2>3. QED
    BY <1>1, <2>1, <2>2 DEF First, Frame
<1>5. QED
  BY <1>2, <1>3, <1>4 DEF First

(* The answer on a first connection.                                        *)
LEMMA FirstReply ==
  ASSUME IInv, NEW c \in Conn, First(c),
         \/ ReplyLength(c) \/ ReplyEnvelope(c)
         \/ /\ \E f \in {"rejected", "busy"} : Error(c, f)
            /\ known' \subseteq known
  PROVE  First(c)'
<1> USE DEF IInv, StateType
<1>1. wire[c] \in Seq(Write)
  BY DEF WireType
<1>2. CASE ReplyLength(c) \/ ReplyEnvelope(c)
  <2>1. /\ session[c] \in Session
        /\ UNCHANGED <<asked, session, known, writing, open>>
    BY <1>2 DEF ReplyLength, ReplyEnvelope, SessionInv
  <2>2. /\ asked'[c] = None /\ session'[c] \notin known' /\ WriteMuFree(c)'
    BY <2>1 DEF First, WriteMuFree
  <2>3. open[c]
    BY <1>2 DEF ReplyLength, ReplyEnvelope
  <2>4. CASE ReplyLength(c)
    <3>1. wire[c] = <<>> /\ stage'[c] = "body"
      BY <2>3, <2>4 DEF First, ReplyLength
    <3>2. wire'[c] = <<>> \o <<Frame(session[c])[1]>>
      BY <2>3, <2>4, <3>1 DEF ReplyLength, Written, WireType
    <3>3. wire'[c] = <<Frame(session[c])[1]>>
      BY <2>1, <3>2, FrameWrites, ConcatEmptySeq DEF Reply
    <3>4. QED
      BY <2>1, <2>2, <3>1, <3>3 DEF First, Frame
  <2>5. CASE ReplyEnvelope(c)
    <3>1. wire[c] = <<Frame(session[c])[1]>> /\ stage'[c] = "waiting"
      BY <2>3, <2>5 DEF First, ReplyEnvelope
    <3>2. wire'[c] = <<Frame(session[c])[1]>> \o <<Frame(session[c])[2]>>
      BY <2>3, <2>5, <3>1 DEF ReplyEnvelope, Written, WireType
    <3>3. wire'[c] = Frame(session[c]) /\ session[c] \in Reply
      BY <2>1, <3>2, PairedFrame DEF Reply
    <3>4. QED
      BY <2>1, <2>2, <3>1, <3>3 DEF First, Frame
  <2>6. QED
    BY <1>2, <2>4, <2>5
<1>3. ASSUME NEW f \in {"rejected", "busy"}, Error(c, f),
             known' \subseteq known
      PROVE  First(c)'
  <2>1. /\ asked'[c] = None /\ ~open'[c]
        /\ UNCHANGED <<session, writing>>
    BY <1>3 DEF Error, Consumed
  <2>2. session'[c] \notin known' /\ WriteMuFree(c)'
    BY <1>3, <2>1 DEF First, WriteMuFree
  <2>3. CASE ~open[c]
    <3>1. Quiet(c)
      BY <1>3, <2>3 DEF Error, Written, Quiet
    <3>2. QED
      BY <2>1, <2>2, <3>1, FirstKept
  <2>4. CASE open[c]
    <3>1. wire[c] = <<>>
      BY <1>3, <2>4 DEF First, Error
    <3>2. f \in Reply
      BY DEF Reply
    <3>3. wire'[c] = <<>> \o Frame(f)
      BY <1>3, <2>4, <3>1 DEF Error, Written, WireType
    <3>4. wire'[c] = Frame(f)
      BY <3>2, <3>3, FrameWrites, ConcatEmptySeq
    <3>5. QED
      BY <2>1, <2>2, <3>2, <3>4 DEF First, Frame
  <2>5. QED
    BY <2>3, <2>4
<1>4. QED
  BY <1>2, <1>3

(* Steps of the server, the network and the operator.                       *)
LEMMA FirstServer ==
  ASSUME IInv, NEW c \in Conn, First(c),
         \/ \E e \in Conn : \/ Handler(e) \/ NoRegister(e) \/ RefuseBusy(e)
                           \/ FailsLate(e) \/ ReadLoop(e) \/ Drop(e)
                           \/ \E v \in Visitor : SendLength(v, e)
         \/ \E v \in Visitor : SendEnvelope(v)
         \/ \E s \in Session : RowGoes(s) \/ CloseOver(s)
         \/ Restart
  PROVE  First(c)'
<1> USE DEF IInv, StateType
<1>1. ASSUME Quiet(c), asked'[c] \in {asked[c], None},
             session'[c] \in {session[c], None}, known' \subseteq known,
             \A u \in Visitor : writing'[u] = c => writing[u] = c
      PROVE  First(c)'
  <2>1. session'[c] \notin known'
    BY <1>1, HandshakeAssumption DEF First
  <2>2. QED
    BY <1>1, <2>1, FirstKept
<1>2. ASSUME NEW e \in Conn, NEW f \in {"rejected", "busy"}, Error(e, f),
             known' \subseteq known
      PROVE  First(c)'
  <2>1. CASE c = e
    BY <1>2, <2>1, FirstReply
  <2>2. CASE c # e
    BY <1>1, <1>2, <2>2
       DEF Error, Returned, Written, Consumed, Quiet, WireType
  <2>3. QED
    BY <2>1, <2>2
<1>3. ASSUME NEW e \in Conn, ReplyLength(e) \/ ReplyEnvelope(e)
      PROVE  First(c)'
  <2>1. CASE c = e
    BY <1>3, <2>1, FirstReply
  <2>2. CASE c # e
    BY <1>1, <1>3, <2>2
       DEF ReplyLength, ReplyEnvelope, Written, Quiet, WireType
  <2>3. QED
    BY <2>1, <2>2
<1>4. ASSUME NEW e \in Conn, RegisterNew(e)
      PROVE  First(c)'
  <2>1. PICK n \in Session : Registers(e, n) /\ known' = known \ {n}
    BY <1>4 DEF RegisterNew
  <2>2. Quiet(c)
    BY <1>4, <2>1 DEF RegisterNew, Registers, Quiet
  <2>3. session'[c] \notin known'
    BY <2>1 DEF Registers, First
  <2>4. asked'[c] \in {asked[c], None} /\ writing' = writing
    BY <1>4, <2>1 DEF RegisterNew, Registers, Consumed
  <2>5. QED
    BY <2>2, <2>3, <2>4, FirstKept
<1>5. ASSUME NEW e \in Conn, RegisterResume(e)
      PROVE  First(c)'
  <2>1. c # e
    BY <1>5 DEF RegisterResume, First
  <2>2. QED
    BY <1>1, <1>5, <2>1 DEF RegisterResume, Registers, Consumed, Quiet
<1>6. ASSUME NEW e \in Conn,
             Accept(e) \/ AcceptFull(e) \/ NoRegister(e)
      PROVE  First(c)'
  BY <1>1, <1>6 DEF Accept, AcceptFull, NoRegister, Returned, Consumed, Quiet
<1>7. ASSUME NEW e \in Conn, ReadLoop(e)
      PROVE  First(c)'
  <2>1. CASE LoopEnds(e)
    BY <1>1, <2>1 DEF LoopEnds, Returned, Quiet
  <2>2. CASE EndSession(e)
    BY <1>1, <2>2 DEF EndSession, Quiet
  <2>3. QED
    BY <1>7, <2>1, <2>2 DEF ReadLoop
<1>8. ASSUME NEW e \in Conn, Drop(e)
      PROVE  First(c)'
  <2>1. CASE c = e
    <3>1. wire'[c] = <<>> /\ ~open'[c] /\ UNCHANGED <<server, known>>
      BY <1>8, <2>1 DEF Drop, WireType
    <3>2. QED
      BY <3>1 DEF First, WriteMuFree, server
  <2>2. CASE c # e
    BY <1>1, <1>8, <2>2 DEF Drop, Quiet, WireType, server
  <2>3. QED
    BY <2>1, <2>2
<1>9. ASSUME NEW e \in Conn, NEW v \in Visitor, SendLength(v, e)
      PROVE  First(c)'
  <2>1. c # e
    BY <1>9 DEF SendLength, First
  <2>2. wire'[c] = wire[c] /\ UNCHANGED <<open, stage, session, asked, known>>
    BY <1>9, <2>1 DEF SendLength, Written, WireType
  <2>3. \A u \in Visitor : writing'[u] = c <=> writing[u] = c
    BY <1>9, <2>1, HandshakeAssumption DEF SendLength
  <2>4. QED
    BY <1>1, <2>2, <2>3 DEF Quiet
<1>10. ASSUME NEW v \in Visitor, SendEnvelope(v)
       PROVE  First(c)'
  <2>1. c # writing[v]
    BY <1>10 DEF SendEnvelope, First, WriteMuFree
  <2>2. QED
    BY <1>1, <1>10, <2>1, HandshakeAssumption
       DEF SendEnvelope, Written, Quiet, WireType
<1>11. ASSUME NEW s \in Session, RowGoes(s) \/ CloseOver(s)
       PROVE  First(c)'
  BY <1>1, <1>11 DEF RowGoes, Over, CloseOver, Prune, Quiet, client,
                     server
<1>12. CASE Restart
  <2>1. Quiet(c) /\ \A u \in Visitor : writing'[u] # c
    BY <1>12, HandshakeAssumption DEF Restart, Quiet
  <2>2. QED
    BY <1>1, <1>12, <2>1 DEF Restart
<1>13. ASSUME NEW e \in Conn,
              RefuseResume(e) \/ RefuseBusy(e) \/ FailsLate(e)
       PROVE  First(c)'
  BY <1>2, <1>13 DEF RefuseResume, RefuseBusy, FailsLate, Fails
<1>14. QED
  BY <1>3, <1>4, <1>5, <1>6, <1>7, <1>8, <1>9, <1>10, <1>11, <1>12, <1>13
     DEF Handler

(* A step of client k on connection e, which tells nobody the session of    *)
(* another client's connection.                                             *)
OnlyOn(k, e) ==
  /\ \A l \in Client : l # k => /\ at'[l] = at[l] /\ conn'[l] = conn[l]
                                /\ sessionID'[l] = sessionID[l]
                                /\ conn[l] # None => conn[l] # e
  /\ \A d \in Conn : d # e => Quiet(d) /\ asked'[d] = asked[d]
  /\ UNCHANGED <<session, writing>>
  /\ \A l \in Client, d \in Conn :
       l # k /\ conn[l] = d /\ session[d] \in known' => session[d] \in known

LEMMA NewcomerClient ==
  ASSUME NewcomerInv, NEW k \in Client, NEW e \in Conn, OnlyOn(k, e),
         at'[k] = "waiting" /\ sessionID'[k] = None
         => conn'[k] = e /\ First(e)'
  PROVE  NewcomerInv'
<1>1. SUFFICES ASSUME NEW l \in Client, NEW c \in Conn, at'[l] = "waiting",
                      sessionID'[l] = None, conn'[l] = c
               PROVE  First(c)'
  BY DEF NewcomerInv
<1>2. CASE l = k
  BY <1>1, <1>2
<1>3. CASE l # k
  <2>1. at[l] = "waiting" /\ sessionID[l] = None /\ conn[l] = c
    BY <1>1, <1>3 DEF OnlyOn
  <2>2. c # e
    BY <1>3, <2>1, HandshakeAssumption DEF OnlyOn
  <2>3. First(c)
    BY <2>1 DEF NewcomerInv
  <2>4. /\ session'[c] \notin known' /\ asked'[c] = asked[c] /\ Quiet(c)
        /\ UNCHANGED writing
    BY <1>3, <2>1, <2>2, <2>3 DEF OnlyOn, First
  <2>5. QED
    BY <2>3, <2>4, FirstKept
<1>4. QED
  BY <1>2, <1>3

LEMMA NewcomerStep ==
  ASSUME IInv, ApartInv, NewcomerInv, [Next]_vars
  PROVE  NewcomerInv'
<1> USE DEF IInv, StateType
<1>1. ASSUME UNCHANGED <<at, conn, sessionID>>,
             \A c \in Conn : First(c) => First(c)'
      PROVE  NewcomerInv'
  BY <1>1 DEF NewcomerInv
<1>2. ASSUME NEW k \in Client, NEW c \in Conn, Dial(k, c)
      PROVE  NewcomerInv'
  <2>1. \A l \in Client : l # k => /\ at'[l] = at[l] /\ conn'[l] = conn[l]
                                   /\ sessionID'[l] = sessionID[l]
                                   /\ conn[l] # c
    BY <1>2 DEF Dial, UnusedConn
  <2>2. \A d \in Conn : d # c => Quiet(d) /\ asked'[d] = asked[d]
    BY <1>2 DEF Dial, Quiet
  <2>3. UNCHANGED <<known, writing, session>> /\ conn'[k] = c
    BY <1>2 DEF Dial
  <2>4. ASSUME sessionID'[k] = None
        PROVE  First(c)'
    <3>1. asked'[c] = None /\ session'[c] = None /\ stage'[c] = "backlog"
      BY <1>2, <2>4 DEF Dial, UnusedConn, SessionInv
    <3>2. wire'[c] = <<>> /\ WriteMuFree(c)'
      BY <1>2 DEF Dial, UnusedConn, WriteMuFree, WireType
    <3>3. session'[c] \notin known'
      BY <2>3, <3>1, HandshakeAssumption
    <3>4. QED
      BY <3>1, <3>2, <3>3 DEF First
  <2>5. OnlyOn(k, c)
    BY <2>1, <2>2, <2>3 DEF OnlyOn
  <2>6. QED
    BY <2>3, <2>4, <2>5, NewcomerClient
<1>3. ASSUME NEW k \in Client, ReadRegistered(k) \/ ReadRequest(k)
      PROVE  NewcomerInv'
  <2>1. PICK c \in Conn : conn[k] = c
    BY <1>3, ConnOf DEF ReadRegistered, ReadRequest
  <2>2. /\ wire' = [wire EXCEPT ![c] = SubSeq(@, 3, Len(@))] /\ Readable(c)
        /\ UNCHANGED <<open, stage, session, asked, writing>>
    BY <1>3, <2>1 DEF ReadRegistered, ReadRequest, FirstIn, server
  <2>3. \A d \in Conn : d # c => Quiet(d) /\ asked'[d] = asked[d]
    BY <2>2 DEF Quiet, WireType
  <2>4. /\ at'[k] = "serving"
        /\ \A l \in Client : l # k => /\ at'[l] = at[l] /\ conn'[l] = conn[l]
                                      /\ sessionID'[l] = sessionID[l]
                                      /\ conn[l] # None => conn[l] # c
    BY <1>3, <2>1 DEF ReadRegistered, ReadRequest, client, ConnInv
  <2>5. ASSUME NEW l \in Client, NEW d \in Conn, l # k, conn[l] = d,
               session[d] \in known'
        PROVE  session[d] \in known
    <3>1. CASE ReadRequest(k)
      BY <2>5, <3>1 DEF ReadRequest
    <3>2. CASE ReadRegistered(k)
      <4>1. /\ known' = known \union {Head(wire[c]).of}
            /\ Head(wire[c]).of \in Session
        BY <2>1, <3>2 DEF ReadRegistered, FirstIn
      <4>2. Head(wire[c]).of \in Named(c)
        <5>1. /\ wire[c] \in Seq(Write)
              /\ Len(wire[c]) \in Nat /\ Len(wire[c]) >= 2
          BY <2>2, LenProperties DEF WireType, Readable
        <5>2. Head(wire[c]) = wire[c][1] /\ 1 \in 1..Len(wire[c])
          BY <5>1
        <5>3. QED
          BY <5>2 DEF Named
      <4>3. Holds(k, Head(wire[c]).of)
        BY <2>1, <4>2 DEF Holds, About
      <4>4. Holds(l, session[d])
        BY <2>5 DEF Holds, About
      <4>5. session[d] # Head(wire[c]).of
        BY <2>5, <4>1, <4>3, <4>4 DEF ApartInv
      <4>6. QED
        BY <2>5, <4>1, <4>5
    <3>3. QED
      BY <1>3, <3>1, <3>2
  <2>6. OnlyOn(k, c)
    BY <2>2, <2>3, <2>4, <2>5 DEF OnlyOn
  <2>7. QED
    BY <2>4, <2>6, NewcomerClient
<1>4. ASSUME NEW k \in Client,
             ReadRejected(k) \/ ReadOther(k) \/ ReadFails(k) \/ Rerun(k)
      PROVE  NewcomerInv'
  <2>1. at[k] # "away" /\ Leave(k) /\ UNCHANGED <<server, known>>
    BY <1>4 DEF ReadRejected, ReadOther, ReadFails, Rerun
  <2>2. PICK c \in Conn : conn[k] = c
    BY <2>1, ConnOf
  <2>3. \A d \in Conn : d # c => Quiet(d) /\ asked'[d] = asked[d]
    BY <2>1, <2>2 DEF Leave, Quiet, WireType, server
  <2>4. \A l \in Client : l # k => sessionID'[l] = sessionID[l]
    BY <1>4 DEF ReadRejected, ReadOther, ReadFails, Rerun
  <2>5. \A l \in Client : l # k => /\ at'[l] = at[l] /\ conn'[l] = conn[l]
                                   /\ conn[l] # None => conn[l] # c
    BY <2>1, <2>2 DEF Leave, ConnInv
  <2>6. at'[k] = "away" /\ UNCHANGED <<known, writing, session>>
    BY <2>1 DEF Leave, server
  <2>7. OnlyOn(k, c)
    BY <2>3, <2>4, <2>5, <2>6 DEF OnlyOn
  <2>8. QED
    BY <2>6, <2>7, NewcomerClient
<1>5. CASE UNCHANGED vars
  <2>1. \A c \in Conn : First(c) => First(c)'
    BY <1>5 DEF First, WriteMuFree, Frame, vars, server, client
  <2>2. QED
    BY <1>1, <1>5, <2>1 DEF vars, client
<1>6. ASSUME UNCHANGED <<at, conn, sessionID>>,
             \/ \E e \in Conn : \/ Handler(e) \/ NoRegister(e) \/ RefuseBusy(e)
                                \/ FailsLate(e) \/ ReadLoop(e) \/ Drop(e)
                                \/ \E v \in Visitor : SendLength(v, e)
             \/ \E v \in Visitor : SendEnvelope(v)
             \/ \E s \in Session : RowGoes(s) \/ CloseOver(s)
             \/ Restart
      PROVE  NewcomerInv'
  BY <1>1, <1>6, FirstServer
<1>7. CASE Calm
  <2>1. CASE \E k \in Client : (\E c \in Conn : Dial(k, c)) \/ ClientReads(k)
    BY <2>1, <1>2, <1>3, <1>4 DEF ClientReads
  <2>2. ASSUME NEW c \in Conn, Handler(c) \/ NoRegister(c)
        PROVE  UNCHANGED client
    BY <2>2 DEF Handler, Accept, AcceptFull, NoRegister, RegisterNew,
                RegisterResume, RefuseResume, Fails, Error, ReplyLength,
                ReplyEnvelope
  <2>3. ASSUME NEW c \in Conn, NEW v \in Visitor, SendLength(v, c)
        PROVE  UNCHANGED client
    BY <2>3 DEF SendLength
  <2>4. ASSUME NEW c \in Conn, ReadLoop(c)
        PROVE  UNCHANGED client
    BY <2>4 DEF ReadLoop, LoopEnds, EndSession
  <2>5. ASSUME NEW v \in Visitor, SendEnvelope(v)
        PROVE  UNCHANGED client
    BY <2>5 DEF SendEnvelope
  <2>6. ASSUME NEW s \in Session, RowGoes(s) \/ CloseOver(s)
        PROVE  UNCHANGED client
    BY <2>6 DEF RowGoes, Over, CloseOver, Prune
  <2>7. QED
    BY <1>6, <1>7, <2>1, <2>2, <2>3, <2>4, <2>5, <2>6 DEF Calm, client
<1>8. CASE Disturbance
  <2>1. ASSUME NEW c \in Conn,
               Drop(c) \/ NoRegister(c) \/ RefuseBusy(c) \/ FailsLate(c)
        PROVE  NewcomerInv'
    <3>1. UNCHANGED client
      BY <2>1 DEF Drop, NoRegister, RefuseBusy, FailsLate, Fails, Error
    <3>2. QED
      BY <1>6, <2>1, <3>1 DEF client
  <2>2. CASE Restart
    BY <1>6, <2>2 DEF Restart, client
  <2>3. QED
    BY <1>4, <1>8, <2>1, <2>2 DEF Disturbance
<1>9. QED
  BY <1>5, <1>7, <1>8 DEF Next

LEMMA NewcomerInductive == Spec => []NewcomerInv
<1>1. Init => NewcomerInv
  BY DEF Init, NewcomerInv
<1>2. IInv /\ ApartInv /\ NewcomerInv /\ [Next]_vars => NewcomerInv'
  BY NewcomerStep
<1>3. QED
  BY <1>1, <1>2, Inductive, ApartInductive, PTL DEF Spec

(* The comment that AnswerFirst refutes holds of a first registration: what *)
(* a client without a session reads first is the server's answer, whole.    *)
THEOREM FirstAnswerFirst == Spec => []FirstAnswer
<1>1. IInv /\ NewcomerInv => FirstAnswer
  <2>1. SUFFICES ASSUME IInv, NewcomerInv, NEW k \in Client,
                        at[k] = "waiting", sessionID[k] = None,
                        Readable(conn[k])
                 PROVE  Whole(conn[k]) /\ Head(wire[conn[k]]).of \in Reply
    BY DEF FirstAnswer
  <2>2. PICK c \in Conn : conn[k] = c
    BY <2>1, ConnOf DEF IInv
  <2>3. First(c) /\ Len(wire[c]) >= 2
    BY <2>1, <2>2 DEF NewcomerInv, Readable
  <2>4. PICK f \in Reply : wire[c] = Frame(f)
    <3>1. wire[c] # <<>>
      BY <2>3
    <3>2. ASSUME NEW s \in Session, wire[c] = <<Frame(s)[1]>>
          PROVE  FALSE
      BY <2>3, <3>2
    <3>3. QED
      BY <2>3, <3>1, <3>2 DEF First
  <2>5. /\ Head(wire[c]) = [of |-> f, part |-> "length"]
        /\ wire[c][2] = [of |-> f, part |-> "envelope"]
    BY <2>4 DEF Frame
  <2>6. QED
    BY <2>2, <2>4, <2>5 DEF Whole
<1>2. QED
  BY <1>1, Inductive, NewcomerInductive, PTL
=============================================================================
