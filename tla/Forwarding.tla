----------------------------- MODULE Forwarding -----------------------------
(***************************************************************************)
(* Requests through tunnels: handlePublicRequest and handleReplay of       *)
(* internal/server/http.go, and Forward, send and readLoop of              *)
(* internal/server/tunnel.go.                                              *)
(*                                                                         *)
(* Every HTTP handler is a goroutine; every tunnel has one readLoop.  They *)
(* share the in-flight slots, the pending map and the write lock of the    *)
(* tunnel.  The peer reads frames when it likes, answers a request any     *)
(* number of times and on any of its connections, or never.                *)
(*                                                                         *)
(* A handler stands for one request and its random request ID.             *)
(***************************************************************************)
EXTENDS Integers, FiniteSets

CONSTANTS
  Handler,     \* HTTP requests that reach a tunnel handler
  Replay,      \* those that are replays: they have no 30 second timer
  Tunnel,      \* Tunnel objects, of one or several sessions
  PerTunnel,   \* cap(tunnel.inFlight)
  MaxInFlight, \* cfg.HostedMaxInFlight, cap(manager.inFlight)
  WireCap,     \* frames that fit into the socket before a write blocks
  None

ASSUME ForwardingAssumption ==
  /\ IsFiniteSet(Handler) /\ IsFiniteSet(Tunnel)
  /\ Replay \subseteq Handler
  /\ None \notin Handler /\ None \notin Tunnel
  /\ PerTunnel \in Nat /\ MaxInFlight \in Nat /\ WireCap \in Nat

VARIABLES
  stage,     \* where each handler stands
  target,    \* the tunnel it was routed to
  tunnelUse, \* len(tunnel.inFlight)
  globalUse, \* len(manager.inFlight)
  pending,   \* tunnel.pending: requests with a registered channel
  mailbox,   \* the requests whose channel (capacity 1) holds a response
  writeMu,   \* who holds tunnel.writeMu
  wire,      \* frames written and not yet read by the peer
  seen,      \* requests the peer has read
  hand,      \* the channel the readLoop took out of pending, before its send
  open,      \* the connection: up, half closed by the peer, or down
  closed     \* is the channel tunnel.closed closed?

vars == <<stage, target, tunnelUse, globalUse, pending, mailbox, writeMu,
          wire, seen, hand, open, closed>>

-----------------------------------------------------------------------------
(* Stages of a handler.  "half" holds the slot of the tunnel and asks for   *)
(* the global one; "queued" has its channel in pending and asks for the     *)
(* write lock; "leaving" has left the select of Forward; "serving" writes   *)
(* the HTTP response; "releasing" has given back the slot of the tunnel.    *)

InForward   == {"queued", "writing", "waiting", "leaving"}
HoldsGlobal == {"admitted", "serving", "releasing"} \union InForward
HoldsTunnel == {"half", "rollback", "admitted", "serving"} \union InForward
Stages      == {"idle", "done"} \union HoldsGlobal \union HoldsTunnel

UsersOf(t)  == {h \in Handler : target[h] = t /\ stage[h] \in HoldsTunnel}
GlobalUsers == {h \in Handler : stage[h] \in HoldsGlobal}

Go(h, s) == stage' = [stage EXCEPT ![h] = s]

(* acquireSlot.  Mutant: the channel holds one more than its capacity.      *)
SlotFreeLate(n, cap) == n <= cap

SlotFree(n, cap) == n < cap

(* releaseSlot never blocks: a slot that is not taken is not given back.    *)
(* Mutant: every release gives back two.                                    *)
ReleasedTwice(n) == n - 2

Released(n) == IF n = 0 THEN 0 ELSE n - 1

(* The stage after the global slot was refused.  Mutant: nothing is undone. *)
NoRollback == "done"

OnGlobalFull == "rollback"

(* tunnel.pending when Forward starts.  Mutant: it has room for one.        *)
OnlyLatest(t, h) == [pending EXCEPT ![t] = {h}]

Registered(t, h) == [pending EXCEPT ![t] = @ \union {h}]

(* tunnel.pending once the readLoop has taken the channel of a request.     *)
(* Mutant: the entry stays.                                                 *)
NotTaken(t, h) == pending

Taken(t, h) == [pending EXCEPT ![t] = @ \ {h}]

(* tunnel.pending after the deferred delete of Forward.  Mutant: none.      *)
NotDeleted(t, h) == pending

Deleted(t, h) == [pending EXCEPT ![t] = @ \ {h}]

(* What the select of Forward can take.  Mutants: the tunnel's end is not   *)
(* among its cases; the timer is not.                                       *)
SelectWithoutClosed(h) ==
  h \in mailbox

SelectReady(h) ==
  h \in mailbox \/ closed[target[h]]

(* The handlers whose context has a timer.  Mutant: none has.               *)
NoTimer == {}

Timed == Handler \ Replay

-----------------------------------------------------------------------------

Init ==
  /\ stage = [h \in Handler |-> "idle"]
  /\ target = [h \in Handler |-> None]
  /\ tunnelUse = [t \in Tunnel |-> 0]
  /\ globalUse = 0
  /\ pending = [t \in Tunnel |-> {}]
  /\ mailbox = {}
  /\ writeMu = [t \in Tunnel |-> None]
  /\ wire = [t \in Tunnel |-> {}]
  /\ seen = {}
  /\ hand = [t \in Tunnel |-> None]
  /\ open = [t \in Tunnel |-> "up"]
  /\ closed = [t \in Tunnel |-> FALSE]

(* FindByHost or FindBySession returned t; acquireSlot(tunnel.inFlight).    *)
(* The tunnel may already be closed, and may close at any later point.      *)
AcquireTunnel(h, t) ==
  /\ stage[h] = "idle"
  /\ target' = [target EXCEPT ![h] = t]
  /\ \/ /\ SlotFree(tunnelUse[t], PerTunnel)
        /\ tunnelUse' = [tunnelUse EXCEPT ![t] = @ + 1]
        /\ Go(h, "half")
     \/ /\ ~SlotFree(tunnelUse[t], PerTunnel)
        /\ Go(h, "done")
        /\ UNCHANGED tunnelUse
  /\ UNCHANGED <<globalUse, pending, mailbox, writeMu, wire, seen, hand, open,
                 closed>>

(* acquireSlot(manager.inFlight)                                            *)
AcquireGlobal(h) ==
  /\ stage[h] = "half"
  /\ \/ /\ SlotFree(globalUse, MaxInFlight)
        /\ globalUse' = globalUse + 1
        /\ Go(h, "admitted")
     \/ /\ ~SlotFree(globalUse, MaxInFlight)
        /\ Go(h, OnGlobalFull)
        /\ UNCHANGED globalUse
  /\ UNCHANGED <<target, tunnelUse, pending, mailbox, writeMu, wire, seen,
                 hand, open, closed>>

(* acquireHostedSlots gives the slot of the tunnel back and refuses.        *)
Rollback(h) ==
  /\ stage[h] = "rollback"
  /\ tunnelUse' = [tunnelUse EXCEPT ![target[h]] = Released(@)]
  /\ Go(h, "done")
  /\ UNCHANGED <<target, globalUse, pending, mailbox, writeMu, wire, seen,
                 hand, open, closed>>

(* The body was read (or, for a replay, is within its limit): Forward       *)
(* starts and registers the channel of the request.                         *)
Forward(h) ==
  /\ stage[h] = "admitted"
  /\ pending' = Registered(target[h], h)
  /\ Go(h, "queued")
  /\ UNCHANGED <<target, tunnelUse, globalUse, mailbox, writeMu, wire, seen,
                 hand, open, closed>>

(* The body could not be read or is too large: an error is the response.    *)
BodyFails(h) ==
  /\ stage[h] = "admitted"
  /\ Go(h, "serving")
  /\ UNCHANGED <<target, tunnelUse, globalUse, pending, mailbox, writeMu,
                 wire, seen, hand, open, closed>>

(* send: lock, and for a frame already started wait for its writer.         *)
LockWrite(h) ==
  LET t == target[h] IN
  /\ stage[h] = "queued" /\ writeMu[t] = None
  /\ writeMu' = [writeMu EXCEPT ![t] = h]
  /\ Go(h, "writing")
  /\ UNCHANGED <<target, tunnelUse, globalUse, pending, mailbox, wire, seen,
                 hand, open, closed>>

(* Encode returns nil: the frame is in the socket, or lost with it.  A peer *)
(* that has only closed its own half may still read, or never do so again.  *)
WriteFrame(h) ==
  LET t == target[h] IN
  /\ stage[h] = "writing"
  /\ \/ /\ open[t] # "down" /\ Cardinality(wire[t]) < WireCap
        /\ wire' = [wire EXCEPT ![t] = @ \union {h}]
     \/ /\ open[t] = "down"
        /\ UNCHANGED wire
  /\ writeMu' = [writeMu EXCEPT ![t] = None]
  /\ Go(h, "waiting")
  /\ UNCHANGED <<target, tunnelUse, globalUse, pending, mailbox, seen, hand,
                 open, closed>>

(* Encode fails on a connection that has ended; Forward returns the error.  *)
WriteError(h) ==
  LET t == target[h] IN
  /\ stage[h] = "writing" /\ open[t] = "down"
  /\ writeMu' = [writeMu EXCEPT ![t] = None]
  /\ Go(h, "leaving")
  /\ UNCHANGED <<target, tunnelUse, globalUse, pending, mailbox, wire, seen,
                 hand, open, closed>>

(* The select of Forward: a response or the end of the tunnel.              *)
Select(h) ==
  /\ stage[h] = "waiting"
  /\ SelectReady(h)
  /\ Go(h, "leaving")
  /\ UNCHANGED <<target, tunnelUse, globalUse, pending, mailbox, writeMu,
                 wire, seen, hand, open, closed>>

(* ... or the end of its context: the visitor left, or 30 seconds passed.   *)
ContextDone(h) ==
  /\ stage[h] = "waiting"
  /\ Go(h, "leaving")
  /\ UNCHANGED <<target, tunnelUse, globalUse, pending, mailbox, writeMu,
                 wire, seen, hand, open, closed>>

(* The deferred delete; Forward returns.                                    *)
Unregister(h) ==
  /\ stage[h] = "leaving"
  /\ pending' = Deleted(target[h], h)
  /\ Go(h, "serving")
  /\ UNCHANGED <<target, tunnelUse, globalUse, mailbox, writeMu, wire, seen,
                 hand, open, closed>>

(* The response is written and captured; releaseHostedSlots, first slot ... *)
ReleaseTunnel(h) ==
  /\ stage[h] = "serving"
  /\ tunnelUse' = [tunnelUse EXCEPT ![target[h]] = Released(@)]
  /\ Go(h, "releasing")
  /\ UNCHANGED <<target, globalUse, pending, mailbox, writeMu, wire, seen,
                 hand, open, closed>>

(* ... and second slot.                                                     *)
ReleaseGlobal(h) ==
  /\ stage[h] = "releasing"
  /\ globalUse' = Released(globalUse)
  /\ Go(h, "done")
  /\ UNCHANGED <<target, tunnelUse, pending, mailbox, writeMu, wire, seen,
                 hand, open, closed>>

-----------------------------------------------------------------------------
(* The readLoop of a tunnel and the peer.                                   *)

(* A ForwardResponse for a request that the peer has seen: the readLoop     *)
(* takes the channel out of pending; without one the response is dropped.   *)
(* Responses that arrived before the connection ended are still read.       *)
TakeResponse(t, h) ==
  /\ ~closed[t] /\ hand[t] = None
  /\ h \in seen /\ h \in pending[t]
  /\ pending' = Taken(t, h)
  /\ hand' = [hand EXCEPT ![t] = h]
  /\ UNCHANGED <<stage, target, tunnelUse, globalUse, mailbox, writeMu, wire,
                 seen, open, closed>>

(* ch <- &resp, which blocks while the channel is full.                     *)
Deliver(t) ==
  /\ hand[t] # None
  /\ hand[t] \notin mailbox
  /\ mailbox' = mailbox \union {hand[t]}
  /\ hand' = [hand EXCEPT ![t] = None]
  /\ UNCHANGED <<stage, target, tunnelUse, globalUse, pending, writeMu, wire,
                 seen, open, closed>>

(* Decode fails: closeTunnel closes tunnel.closed, once.  After an io.EOF   *)
(* the connection itself is left as it is: half closed, for all it knows.   *)
CloseTunnel(t) ==
  /\ open[t] # "up" /\ ~closed[t] /\ hand[t] = None
  /\ closed' = [closed EXCEPT ![t] = TRUE]
  /\ UNCHANGED <<stage, target, tunnelUse, globalUse, pending, mailbox,
                 writeMu, wire, seen, hand, open>>

(* The peer reads a frame.                                                  *)
PeerReads(t, h) ==
  /\ open[t] # "down" /\ h \in wire[t]
  /\ wire' = [wire EXCEPT ![t] = @ \ {h}]
  /\ seen' = seen \union {h}
  /\ UNCHANGED <<stage, target, tunnelUse, globalUse, pending, mailbox,
                 writeMu, hand, open, closed>>

(* The peer sends its last byte (FIN, or close_notify) and keeps its socket.*)
HalfClose(t) ==
  /\ open[t] = "up"
  /\ open' = [open EXCEPT ![t] = "half"]
  /\ UNCHANGED <<stage, target, tunnelUse, globalUse, pending, mailbox,
                 writeMu, wire, seen, hand, closed>>

(* The connection ends: hang-up, replacement, revocation or expiry.         *)
Disconnect(t) ==
  /\ open[t] # "down"
  /\ open' = [open EXCEPT ![t] = "down"]
  /\ UNCHANGED <<stage, target, tunnelUse, globalUse, pending, mailbox,
                 writeMu, wire, seen, hand, closed>>

HandlerStep(h) ==
  \/ AcquireGlobal(h) \/ Rollback(h) \/ Forward(h) \/ BodyFails(h)
  \/ LockWrite(h) \/ WriteFrame(h) \/ WriteError(h) \/ Select(h)
  \/ Unregister(h) \/ ReleaseTunnel(h) \/ ReleaseGlobal(h)

Next ==
  \/ \E h \in Handler : \/ \E t \in Tunnel : AcquireTunnel(h, t)
                        \/ HandlerStep(h) \/ ContextDone(h)
  \/ \E t \in Tunnel : \/ Deliver(t) \/ CloseTunnel(t)
                       \/ HalfClose(t) \/ Disconnect(t)
                       \/ \E h \in Handler : TakeResponse(t, h) \/ PeerReads(t, h)

(* The server's goroutines run, a reader of the body times out (ReadTimeout)*)
(* and the 30 second timer of a public request fires.  A replay has no      *)
(* timer, and the peer owes nothing: neither reading nor answering.  The    *)
(* queue for writeMu is first come, first served after a millisecond        *)
(* (sync.Mutex), hence strong fairness for it.                              *)
Fairness ==
  /\ \A h \in Handler : /\ WF_vars(HandlerStep(h))
                        /\ SF_vars(LockWrite(h))
  /\ \A h \in Timed : WF_vars(ContextDone(h))
  /\ \A t \in Tunnel : WF_vars(Deliver(t)) /\ WF_vars(CloseTunnel(t))

Spec     == Init /\ [][Next]_vars
FairSpec == Spec /\ Fairness

-----------------------------------------------------------------------------

(* Every variable has its type.                                             *)
TypeOK ==
  /\ stage \in [Handler -> Stages]
  /\ target \in [Handler -> Tunnel \union {None}]
  /\ tunnelUse \in [Tunnel -> Nat]
  /\ globalUse \in Nat
  /\ pending \in [Tunnel -> SUBSET Handler]
  /\ mailbox \subseteq Handler
  /\ writeMu \in [Tunnel -> Handler \union {None}]
  /\ wire \in [Tunnel -> SUBSET Handler]
  /\ seen \subseteq Handler
  /\ hand \in [Tunnel -> Handler \union {None}]
  /\ open \in [Tunnel -> {"up", "half", "down"}]
  /\ closed \in [Tunnel -> BOOLEAN]

(* The slots in use are those of the handlers that hold one: refused,       *)
(* failed and timed-out requests give back exactly what they took (http.go  *)
(* line 287 to 301), although releaseSlot would hide a slot given back      *)
(* twice.                                                                   *)
SlotAccounting ==
  /\ globalUse = Cardinality(GlobalUsers)
  /\ \A t \in Tunnel : tunnelUse[t] = Cardinality(UsersOf(t))

(* No more requests and replays are inside the tunnels of the server, or    *)
(* inside one of them, than the operator allows (deploy/README.md line 70:  *)
(* "100 in-flight public requests"); both limits are tested without a lock, *)
(* one after the other.                                                     *)
InFlightBounded ==
  /\ Cardinality({h \in Handler : stage[h] \in InForward}) <= MaxInFlight
  /\ \A t \in Tunnel :
       Cardinality({h \in Handler : target[h] = t /\ stage[h] \in InForward})
         <= PerTunnel

(* Forward leaves no entry behind: pending only holds requests that are     *)
(* inside Forward on that very tunnel (tunnel.go line 451).                 *)
PendingClean ==
  \A t \in Tunnel : \A h \in pending[t] :
    target[h] = t /\ stage[h] \in InForward

(* The readLoop never blocks on a full channel: a late or repeated response *)
(* finds no entry (tunnel.go line 353 to 359).                              *)
ReaderNeverBlocks ==
  \A t \in Tunnel : hand[t] # None => hand[t] \notin mailbox

(* A request that waits can still be answered: its channel is in pending,   *)
(* in the hand of its readLoop, or already full.                            *)
AnswerNotLost ==
  \A h \in Handler : stage[h] \in {"queued", "writing", "waiting"} =>
    h \in pending[target[h]] \/ hand[target[h]] = h \/ h \in mailbox

(* A public request that was sent is finished, whatever the peer does.      *)
SentFinishes ==
  \A h \in Handler \ Replay : stage[h] = "waiting" ~> stage[h] = "done"

(* When a connection is gone, every request on it is finished, replays and  *)
(* requests blocked in a write included, and has given back its slots; when *)
(* its peer has only closed its half, so is every request that waits for    *)
(* its response (tunnel.go line 345 to 348, 464).  A request blocked in a   *)
(* write is not: after an io.EOF nothing on the server closes the           *)
(* connection.                                                              *)
ClosedFinishes ==
  \A h \in Handler, t \in Tunnel :
    /\ target[h] = t
    /\ open[t] = "down" \/ (open[t] = "half" /\ stage[h] = "waiting")
    ~> stage[h] = "done"
=============================================================================
