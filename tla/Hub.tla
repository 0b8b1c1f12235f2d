--------------------------------- MODULE Hub ---------------------------------
(***************************************************************************)
(* Live events for dashboards: the Hub of internal/dashboard/hub.go and    *)
(* the websocket handlers of internal/server/websocket.go.                 *)
(*                                                                         *)
(* One goroutine, Run, serves three buffered channels: register,           *)
(* unregister and broadcast.  Each websocket is a handler goroutine that   *)
(* registers a client, copies its Send channel to the socket and, when it  *)
(* leaves, unregisters.  The channels are not ordered with one another:    *)
(* when several are ready, select takes any of them.                       *)
(*                                                                         *)
(* An event is its number in the order of Broadcast and its session.       *)
(***************************************************************************)
EXTENDS Integers, Sequences, FiniteSets

CONSTANTS
  Client,       \* websocket connections, each with its dashboard.Client
  Session,
  SessionOf,    \* the session a client authorized for
  MaxEvents,    \* bound: events broadcast
  WebsocketCap, \* cap(websocketSlots)
  RegisterCap, UnregisterCap, BroadcastCap, \* 64, 64 and 512
  SendCap       \* cap(client.Send), 128

ASSUME HubAssumption ==
  /\ SessionOf \in [Client -> Session]
  /\ MaxEvents \in Nat /\ WebsocketCap \in Nat
  /\ RegisterCap \in Nat /\ UnregisterCap \in Nat /\ BroadcastCap \in Nat
  /\ SendCap \in Nat

VARIABLES
  stage,      \* where each handler stands
  hub,        \* Run: running, returned, or how it ended the process
  register,   \* the three channels
  unregister,
  broadcast,
  clients,    \* hub.clients
  send,       \* client.Send
  closed,     \* the clients whose Send is closed
  last,       \* the last event each client was sent
  sent        \* how many events were broadcast

vars == <<stage, hub, register, unregister, broadcast, clients, send, closed,
          last, sent>>

-----------------------------------------------------------------------------

Stages    == {"fresh", "accepted", "serving", "leaving", "closing", "gone"}
HubStates == {"running", "stopped", "sent on closed", "closed twice"}
Event     == [n : 1..MaxEvents, session : Session]

(* A panic in Run ends the process, and with it every handler.              *)
Up == hub \in {"running", "stopped"}

Holders == {c \in Client : stage[c] \in {"accepted", "serving", "leaving", "closing"}}

Go(c, s) == stage' = [stage EXCEPT ![c] = s]

(* The clients an event goes to.  Mutant: the session is not compared.      *)
Everyone(e) == clients

Receivers(e) == {c \in clients : SessionOf[c] = e.session}

(* Send after an event was offered to it; a full channel loses the event.   *)
(* Mutant: the send ignores the capacity.                                   *)
OfferedAlways(c, e) == Append(send[c], e)

Offered(c, e) == IF Len(send[c]) < SendCap THEN Append(send[c], e) ELSE send[c]

(* When Run can take an event.  Mutant: it waits for slow clients.          *)
WaitsForRoom ==
  broadcast # <<>> /\ \A c \in Receivers(Head(broadcast)) : Len(send[c]) < SendCap

BroadcastReady == broadcast # <<>>

(* Mutant: Run has no case for unregister.                                  *)
NoUnregisterCase == FALSE

UnregisterReady == unregister # <<>>

(* The closed channels after an event.  Mutant: Run drops slow clients.     *)
ClosedWithSlow(e) ==
  closed \union {c \in Receivers(e) : Len(send[c]) >= SendCap}

ClosedAfter(e) == closed

(* The unregister channel after a failed write.  Mutant: the handler        *)
(* unregisters at once, and again when it returns.                          *)
UnregisteredEarly(c) == Append(unregister, c)

UnregisterAfterWrite(c) == unregister

-----------------------------------------------------------------------------

Init ==
  /\ stage = [c \in Client |-> "fresh"]
  /\ hub = "running"
  /\ register = <<>> /\ unregister = <<>> /\ broadcast = <<>>
  /\ clients = {}
  /\ send = [c \in Client |-> <<>>]
  /\ closed = {}
  /\ last = [c \in Client |-> 0]
  /\ sent = 0

(* handleEventsWS: a slot for the websocket, or a refusal.                  *)
Connect(c) ==
  /\ Up /\ stage[c] = "fresh"
  /\ Go(c, IF Cardinality(Holders) < WebsocketCap THEN "accepted" ELSE "gone")
  /\ UNCHANGED <<hub, register, unregister, broadcast, clients, send, closed,
                 last, sent>>

(* websocket.Accept fails: the slot is released.                            *)
AcceptFails(c) ==
  /\ Up /\ stage[c] = "accepted"
  /\ Go(c, "gone")
  /\ UNCHANGED <<hub, register, unregister, broadcast, clients, send, closed,
                 last, sent>>

(* Hub.Register, which blocks while the channel is full.                    *)
Register(c) ==
  /\ Up /\ stage[c] = "accepted" /\ Len(register) < RegisterCap
  /\ register' = Append(register, c)
  /\ Go(c, "serving")
  /\ UNCHANGED <<hub, unregister, broadcast, clients, send, closed, last, sent>>

(* An event goes from Send to the socket.                                   *)
Write(c) ==
  /\ Up /\ stage[c] = "serving" /\ send[c] # <<>>
  /\ send' = [send EXCEPT ![c] = Tail(@)]
  /\ last' = [last EXCEPT ![c] = Head(send[c]).n]
  /\ UNCHANGED <<stage, hub, register, unregister, broadcast, clients, closed,
                 sent>>

(* ... or not: the write fails, and the event is lost.                      *)
WriteFails(c) ==
  /\ Up /\ stage[c] = "serving" /\ send[c] # <<>>
  /\ send' = [send EXCEPT ![c] = Tail(@)]
  /\ unregister' = UnregisterAfterWrite(c)
  /\ Go(c, "leaving")
  /\ UNCHANGED <<hub, register, broadcast, clients, closed, last, sent>>

(* The dashboard hangs up: closeCtx is done.                                *)
Leave(c) ==
  /\ Up /\ stage[c] = "serving"
  /\ Go(c, "leaving")
  /\ UNCHANGED <<hub, register, unregister, broadcast, clients, send, closed,
                 last, sent>>

(* The deferred Hub.Unregister, which blocks while the channel is full.     *)
Unregister(c) ==
  /\ Up /\ stage[c] = "leaving" /\ Len(unregister) < UnregisterCap
  /\ unregister' = Append(unregister, c)
  /\ Go(c, "closing")
  /\ UNCHANGED <<hub, register, broadcast, clients, send, closed, last, sent>>

(* The socket is closed and the slot released.                              *)
ReleaseSlot(c) ==
  /\ Up /\ stage[c] = "closing"
  /\ Go(c, "gone")
  /\ UNCHANGED <<hub, register, unregister, broadcast, clients, send, closed,
                 last, sent>>

(* A handler of a public request broadcasts the request it captured.        *)
Broadcast(s) ==
  /\ Up /\ sent < MaxEvents /\ Len(broadcast) < BroadcastCap
  /\ sent' = sent + 1
  /\ broadcast' = Append(broadcast, [n |-> sent + 1, session |-> s])
  /\ UNCHANGED <<stage, hub, register, unregister, clients, send, closed, last>>

-----------------------------------------------------------------------------
(* The cases of Run's select.                                               *)

TakeRegister ==
  /\ hub = "running" /\ register # <<>>
  /\ register' = Tail(register)
  /\ clients' = clients \union {Head(register)}
  /\ UNCHANGED <<stage, hub, unregister, broadcast, send, closed, last, sent>>

TakeUnregister ==
  /\ hub = "running" /\ UnregisterReady
  /\ LET c == Head(unregister) IN
     /\ clients' = clients \ {c}
     /\ closed' = closed \union {c}
     /\ hub' = IF c \in closed THEN "closed twice" ELSE hub
  /\ unregister' = Tail(unregister)
  /\ UNCHANGED <<stage, register, broadcast, send, last, sent>>

(* A send on a closed channel panics, in a select with a default too.       *)
TakeBroadcast ==
  /\ hub = "running" /\ BroadcastReady
  /\ LET e == Head(broadcast) IN
     \/ /\ Receivers(e) \intersect closed # {}
        /\ hub' = "sent on closed"
        /\ UNCHANGED <<send, closed>>
     \/ /\ Receivers(e) \intersect closed = {}
        /\ send' = [c \in Client |->
                      IF c \in Receivers(e) THEN Offered(c, e) ELSE send[c]]
        /\ closed' = ClosedAfter(e)
        /\ UNCHANGED hub
  /\ broadcast' = Tail(broadcast)
  /\ UNCHANGED <<stage, register, unregister, clients, last, sent>>

(* ctx.Done: Run returns.  The handlers go on.                              *)
Stop ==
  /\ hub = "running"
  /\ hub' = "stopped"
  /\ UNCHANGED <<stage, register, unregister, broadcast, clients, send, closed,
                 last, sent>>

Next ==
  \/ \E c \in Client :
       \/ Connect(c) \/ AcceptFails(c) \/ Register(c) \/ Write(c)
       \/ WriteFails(c) \/ Leave(c) \/ Unregister(c) \/ ReleaseSlot(c)
  \/ \E s \in Session : Broadcast(s)
  \/ TakeRegister \/ TakeUnregister \/ TakeBroadcast \/ Stop

(* select takes a ready case at random, so a case that stays ready is       *)
(* taken; the senders of a full channel queue up (strong fairness).  The    *)
(* dashboards read and hang up when they like.                              *)
Fairness ==
  /\ WF_vars(TakeRegister) /\ WF_vars(TakeUnregister) /\ WF_vars(TakeBroadcast)
  /\ \A c \in Client : SF_vars(Unregister(c)) /\ WF_vars(ReleaseSlot(c))

Spec     == Init /\ [][Next]_vars
FairSpec == Spec /\ Fairness

-----------------------------------------------------------------------------

(* Every variable has its type.                                             *)
TypeOK ==
  /\ stage \in [Client -> Stages]
  /\ hub \in HubStates
  /\ register \in Seq(Client) /\ Len(register) <= RegisterCap
  /\ unregister \in Seq(Client) /\ Len(unregister) <= UnregisterCap
  /\ broadcast \in Seq(Event) /\ Len(broadcast) <= BroadcastCap
  /\ clients \subseteq Client
  /\ send \in [Client -> Seq(Event)]
  /\ \A c \in Client : Len(send[c]) <= SendCap
  /\ closed \subseteq Client
  /\ last \in [Client -> 0..MaxEvents]
  /\ sent \in 0..MaxEvents

(* A dashboard gets the events of its own session, each at most once and in *)
(* the order of Broadcast, whatever a slow reader loses (hub.go line 51 to  *)
(* 65).                                                                     *)
InOrder ==
  \A c \in Client : \A i \in 1..Len(send[c]) :
    /\ send[c][i].session = SessionOf[c]
    /\ send[c][i].n > (IF i = 1 THEN last[c] ELSE send[c][i - 1].n)

(* Run closes no channel that a handler still reads from, which would make  *)
(* it write empty messages for ever (websocket.go line 41).                 *)
OpenWhileServed ==
  \A c \in closed : stage[c] \in {"closing", "gone"}

(* No channel is closed twice, which would end the process (hub.go line 49).*)
NeverClosedTwice == hub # "closed twice"

(* The dashboard has "live request updates" (CHANGELOG.md line 69): an      *)
(* event never ends the server.                                             *)
NeverSentOnClosed == hub # "sent on closed"

(* Slow and dead dashboards do not hold up the events of the others: while  *)
(* Run runs, it gets through its channel.                                   *)
BroadcastDrains == broadcast # <<>> ~> broadcast = <<>> \/ hub # "running"

(* While Run runs, a handler that leaves is finished and its slot is free.  *)
LeaverGoes ==
  \A c \in Client : stage[c] = "leaving" ~> stage[c] = "gone" \/ hub # "running"

(* An unregister overtakes a register if Run takes it while the register of *)
(* the same client is still in its channel (hub.go line 42 and 47).         *)
Overtaking ==
  TakeUnregister /\ \E i \in 1..Len(register) : register[i] = Head(unregister)

NoOvertaking == [][~Overtaking]_vars
=============================================================================
