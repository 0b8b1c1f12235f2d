-------------------------- MODULE ForwardingProofs --------------------------
(* Proofs about Forwarding, for any number of requests, tunnels and slots.  *)
(*                                                                          *)
(* The channel of a request is in one place: in pending while its handler   *)
(* is in Forward, in the hand of the readLoop, or filled.  FInv says so     *)
(* (HandInv, MailboxInv), which makes the safety properties inductive.      *)
EXTENDS Forwarding, FiniteSetTheorems, TLAPS

(* The handlers that got as far as Forward.                                 *)
Entered == InForward \union {"serving", "releasing", "done"}

(* A handler beyond the routing has a tunnel.                               *)
TargetInv == \A h \in Handler : stage[h] # "idle" => target[h] \in Tunnel

(* The channel in the hand of a readLoop is nowhere else.                   *)
HandInv ==
  \A t \in Tunnel : hand[t] # None =>
    /\ target[hand[t]] = t
    /\ stage[hand[t]] \in Entered
    /\ hand[t] \notin mailbox
    /\ \A u \in Tunnel : hand[t] \notin pending[u]

(* A filled channel is out of pending.                                      *)
MailboxInv ==
  \A h \in mailbox :
    /\ stage[h] \in Entered
    /\ \A u \in Tunnel : h \notin pending[u]

FInv ==
  /\ TypeOK
  /\ TargetInv
  /\ PendingClean
  /\ HandInv
  /\ MailboxInv
  /\ AnswerNotLost

(* The slots taken are at most the capacity of their channel.               *)
SlotBound ==
  /\ globalUse <= MaxInFlight
  /\ \A t \in Tunnel : tunnelUse[t] <= PerTunnel

-----------------------------------------------------------------------------
(* FInv is inductive.                                                       *)

LEMMA FInit == Init => FInv
BY ForwardingAssumption
   DEF Init, FInv, TypeOK, TargetInv, PendingClean, HandInv, MailboxInv,
       AnswerNotLost, Stages

LEMMA FType == FInv /\ [Next]_vars => TypeOK' /\ TargetInv'
<1> SUFFICES ASSUME FInv, [Next]_vars PROVE TypeOK' /\ TargetInv'
  OBVIOUS
<1> USE ForwardingAssumption
  DEF FInv, TypeOK, TargetInv, Stages, HoldsGlobal, HoldsTunnel, InForward, Go
<1>1. ASSUME NEW h \in Handler, NEW t \in Tunnel, AcquireTunnel(h, t)
      PROVE  TypeOK' /\ TargetInv'
  BY <1>1 DEF AcquireTunnel
<1>2. ASSUME NEW h \in Handler, AcquireGlobal(h) \/ Rollback(h) \/ BodyFails(h)
      PROVE  TypeOK' /\ TargetInv'
  BY <1>2 DEF AcquireGlobal, Rollback, BodyFails, Released, OnGlobalFull
<1>3. ASSUME NEW h \in Handler, Forward(h) \/ LockWrite(h) \/ WriteFrame(h)
      PROVE  TypeOK' /\ TargetInv'
  BY <1>3 DEF Forward, LockWrite, WriteFrame, Registered
<1>4. ASSUME NEW h \in Handler,
             WriteError(h) \/ Select(h) \/ ContextDone(h) \/ Unregister(h)
      PROVE  TypeOK' /\ TargetInv'
  BY <1>4 DEF WriteError, Select, ContextDone, Unregister, Deleted
<1>5. ASSUME NEW h \in Handler, ReleaseTunnel(h) \/ ReleaseGlobal(h)
      PROVE  TypeOK' /\ TargetInv'
  BY <1>5 DEF ReleaseTunnel, ReleaseGlobal, Released
<1>6. ASSUME NEW t \in Tunnel, NEW h \in Handler,
             TakeResponse(t, h) \/ PeerReads(t, h)
      PROVE  TypeOK' /\ TargetInv'
  BY <1>6 DEF TakeResponse, PeerReads, Taken
<1>7. ASSUME NEW t \in Tunnel,
             Deliver(t) \/ CloseTunnel(t) \/ HalfClose(t) \/ Disconnect(t)
      PROVE  TypeOK' /\ TargetInv'
  BY <1>7 DEF Deliver, CloseTunnel, HalfClose, Disconnect
<1>8. CASE UNCHANGED vars
  BY <1>8 DEF vars
<1> QED
  BY <1>1, <1>2, <1>3, <1>4, <1>5, <1>6, <1>7, <1>8 DEF Next, HandlerStep

(* The parts of FInv about channels, one step per action that moves a       *)
(* channel, one for those that only move the handler.                       *)
ChannelInv == PendingClean /\ HandInv /\ MailboxInv /\ AnswerNotLost

LEMMA FChannels == FInv /\ [Next]_vars => ChannelInv'
<1> SUFFICES ASSUME FInv, [Next]_vars PROVE ChannelInv'
  OBVIOUS
<1> USE ForwardingAssumption
  DEF FInv, TypeOK, TargetInv, PendingClean, HandInv, MailboxInv,
      AnswerNotLost, ChannelInv, Entered, InForward, Go
<1>1. ASSUME NEW h \in Handler, NEW t \in Tunnel, AcquireTunnel(h, t)
      PROVE  ChannelInv'
  BY <1>1 DEF AcquireTunnel
<1>2. ASSUME NEW h \in Handler, AcquireGlobal(h) \/ Rollback(h) \/ BodyFails(h)
      PROVE  ChannelInv'
  BY <1>2 DEF AcquireGlobal, Rollback, BodyFails, OnGlobalFull
<1>3. ASSUME NEW h \in Handler, Forward(h)
      PROVE  ChannelInv'
  BY <1>3 DEF Forward, Registered
<1>4. ASSUME NEW h \in Handler, LockWrite(h) \/ WriteFrame(h) \/ WriteError(h)
      PROVE  ChannelInv'
  BY <1>4 DEF LockWrite, WriteFrame, WriteError
<1>5. ASSUME NEW h \in Handler, Select(h) \/ ContextDone(h)
      PROVE  ChannelInv'
  BY <1>5 DEF Select, ContextDone
<1>6. ASSUME NEW h \in Handler, Unregister(h)
      PROVE  ChannelInv'
  BY <1>6 DEF Unregister, Deleted
<1>7. ASSUME NEW h \in Handler, ReleaseTunnel(h) \/ ReleaseGlobal(h)
      PROVE  ChannelInv'
  BY <1>7 DEF ReleaseTunnel, ReleaseGlobal
<1>8. ASSUME NEW t \in Tunnel, NEW h \in Handler, TakeResponse(t, h)
      PROVE  ChannelInv'
  BY <1>8 DEF TakeResponse, Taken
<1>9. ASSUME NEW t \in Tunnel, Deliver(t)
      PROVE  ChannelInv'
  BY <1>9 DEF Deliver
<1>10. ASSUME NEW t \in Tunnel, CloseTunnel(t) \/ HalfClose(t) \/ Disconnect(t)
       PROVE  ChannelInv'
  BY <1>10 DEF CloseTunnel, HalfClose, Disconnect
<1>11. ASSUME NEW t \in Tunnel, NEW h \in Handler, PeerReads(t, h)
       PROVE  ChannelInv'
  BY <1>11 DEF PeerReads
<1>12. CASE UNCHANGED vars
  BY <1>12 DEF vars
<1> QED
  BY <1>1, <1>2, <1>3, <1>4, <1>5, <1>6, <1>7, <1>8, <1>9, <1>10, <1>11, <1>12
     DEF Next, HandlerStep

THEOREM ForwardingInvariant == Spec => []FInv
<1>1. FInv /\ [Next]_vars => FInv'
  BY FType, FChannels DEF FInv, ChannelInv
<1> QED
  BY FInit, <1>1, PTL DEF Spec

-----------------------------------------------------------------------------
(* Slots: the sets of users change by at most the handler that moves.       *)

LEMMA UsersFinite ==
  /\ IsFiniteSet(GlobalUsers) /\ Cardinality(GlobalUsers) \in Nat
  /\ \A t \in Tunnel : IsFiniteSet(UsersOf(t)) /\ Cardinality(UsersOf(t)) \in Nat
<1>1. GlobalUsers \subseteq Handler /\ \A t \in Tunnel : UsersOf(t) \subseteq Handler
  BY DEF GlobalUsers, UsersOf
<1>2. IsFiniteSet(GlobalUsers) /\ \A t \in Tunnel : IsFiniteSet(UsersOf(t))
  BY <1>1, FS_Subset, ForwardingAssumption
<1> QED
  BY <1>2, FS_CardinalityType

(* One element more, one element less.                                      *)
LEMMA OneMore ==
  ASSUME NEW S, IsFiniteSet(S), NEW x, x \notin S
  PROVE  Cardinality(S \union {x}) = Cardinality(S) + 1
BY FS_AddElement, Zenon

LEMMA OneLess ==
  ASSUME NEW S, IsFiniteSet(S), NEW x \in S
  PROVE  /\ Cardinality(S \ {x}) = Cardinality(S) - 1
         /\ Cardinality(S) # 0
<1>1. IsFiniteSet(S \ {x}) /\ Cardinality(S \ {x}) = Cardinality(S) - 1
  BY FS_RemoveElement, Zenon
<1>2. Cardinality(S) # 0
  BY FS_EmptySet
<1> QED
  BY <1>1, <1>2

(* The global slots of a step that moves one handler.                       *)
LEMMA GlobalMove ==
  ASSUME TypeOK, NEW h \in Handler, NEW s, Go(h, s)
  PROVE  /\ s \in HoldsGlobal /\ stage[h] \notin HoldsGlobal =>
              Cardinality(GlobalUsers)' = Cardinality(GlobalUsers) + 1
         /\ s \notin HoldsGlobal /\ stage[h] \in HoldsGlobal =>
              /\ Cardinality(GlobalUsers)' = Cardinality(GlobalUsers) - 1
              /\ Cardinality(GlobalUsers) # 0
         /\ (s \in HoldsGlobal <=> stage[h] \in HoldsGlobal) =>
              Cardinality(GlobalUsers)' = Cardinality(GlobalUsers)
<1>1. ASSUME s \in HoldsGlobal, stage[h] \notin HoldsGlobal
      PROVE  Cardinality(GlobalUsers)' = Cardinality(GlobalUsers) + 1
  <2>1. GlobalUsers' = GlobalUsers \union {h} /\ h \notin GlobalUsers
    BY <1>1 DEF GlobalUsers, Go, TypeOK, HoldsGlobal
  <2> QED
    BY <2>1, UsersFinite, OneMore
<1>2. ASSUME s \notin HoldsGlobal, stage[h] \in HoldsGlobal
      PROVE  /\ Cardinality(GlobalUsers)' = Cardinality(GlobalUsers) - 1
             /\ Cardinality(GlobalUsers) # 0
  <2>1. GlobalUsers' = GlobalUsers \ {h} /\ h \in GlobalUsers
    BY <1>2 DEF GlobalUsers, Go, TypeOK, HoldsGlobal
  <2> QED
    BY <2>1, UsersFinite, OneLess
<1>3. ASSUME s \in HoldsGlobal <=> stage[h] \in HoldsGlobal
      PROVE  Cardinality(GlobalUsers)' = Cardinality(GlobalUsers)
  <2>1. GlobalUsers' = GlobalUsers
    BY <1>3 DEF GlobalUsers, Go, TypeOK, HoldsGlobal
  <2> QED
    BY <2>1
<1> QED
  BY <1>1, <1>2, <1>3

(* The slots of the tunnels, for a handler that keeps its tunnel.           *)
LEMMA TunnelMove ==
  ASSUME TypeOK, NEW h \in Handler, NEW s, Go(h, s), UNCHANGED target,
         NEW t \in Tunnel
  PROVE  /\ target[h] = t /\ s \notin HoldsTunnel /\ stage[h] \in HoldsTunnel =>
              /\ Cardinality(UsersOf(t))' = Cardinality(UsersOf(t)) - 1
              /\ Cardinality(UsersOf(t)) # 0
         /\ target[h] # t \/ (s \in HoldsTunnel <=> stage[h] \in HoldsTunnel) =>
              Cardinality(UsersOf(t))' = Cardinality(UsersOf(t))
<1>1. ASSUME target[h] = t, s \notin HoldsTunnel, stage[h] \in HoldsTunnel
      PROVE  /\ Cardinality(UsersOf(t))' = Cardinality(UsersOf(t)) - 1
             /\ Cardinality(UsersOf(t)) # 0
  <2>1. UsersOf(t)' = UsersOf(t) \ {h} /\ h \in UsersOf(t)
    BY <1>1 DEF UsersOf, Go, TypeOK, HoldsTunnel
  <2> QED
    BY <2>1, UsersFinite, OneLess
<1>2. ASSUME target[h] # t \/ (s \in HoldsTunnel <=> stage[h] \in HoldsTunnel)
      PROVE  Cardinality(UsersOf(t))' = Cardinality(UsersOf(t))
  <2>1. UsersOf(t)' = UsersOf(t)
    BY <1>2 DEF UsersOf, Go, TypeOK, HoldsTunnel
  <2> QED
    BY <2>1
<1> QED
  BY <1>1, <1>2

(* The slots of the tunnels when a request is routed.                       *)
LEMMA TunnelTake ==
  ASSUME TypeOK, NEW h \in Handler, NEW u \in Tunnel, NEW t \in Tunnel,
         stage[h] = "idle", NEW s, Go(h, s), target' = [target EXCEPT ![h] = u]
  PROVE  /\ s = "half" /\ t = u =>
              Cardinality(UsersOf(t))' = Cardinality(UsersOf(t)) + 1
         /\ s = "done" \/ t # u =>
              Cardinality(UsersOf(t))' = Cardinality(UsersOf(t))
<1>1. h \notin UsersOf(t)
  BY DEF UsersOf, HoldsTunnel, InForward
<1>2. ASSUME s = "half", t = u
      PROVE  Cardinality(UsersOf(t))' = Cardinality(UsersOf(t)) + 1
  <2>1. UsersOf(t)' = UsersOf(t) \union {h}
    BY <1>2 DEF UsersOf, Go, TypeOK, HoldsTunnel, InForward
  <2> QED
    BY <1>1, <2>1, UsersFinite, OneMore
<1>3. ASSUME s = "done" \/ t # u
      PROVE  Cardinality(UsersOf(t))' = Cardinality(UsersOf(t))
  <2>1. UsersOf(t)' = UsersOf(t)
    BY <1>1, <1>3 DEF UsersOf, Go, TypeOK, HoldsTunnel, InForward
  <2> QED
    BY <2>1
<1> QED
  BY <1>2, <1>3

SlotInv == SlotAccounting /\ SlotBound

LEMMA SInit == Init => SlotInv
<1> SUFFICES ASSUME Init PROVE SlotInv
  OBVIOUS
<1>1. GlobalUsers = {} /\ \A t \in Tunnel : UsersOf(t) = {}
  BY DEF Init, GlobalUsers, UsersOf, HoldsGlobal, HoldsTunnel, InForward
<1>2. Cardinality({}) = 0
  BY FS_EmptySet
<1> QED
  BY <1>1, <1>2, ForwardingAssumption DEF Init, SlotInv, SlotAccounting, SlotBound

LEMMA SStep == FInv /\ SlotInv /\ [Next]_vars => SlotInv'
<1> SUFFICES ASSUME FInv, SlotInv, [Next]_vars PROVE SlotInv'
  OBVIOUS
<1>t. TypeOK /\ TargetInv
  BY DEF FInv
<1>u. Cardinality(GlobalUsers) \in Nat /\ \A t \in Tunnel : Cardinality(UsersOf(t)) \in Nat
  BY UsersFinite
<1> USE ForwardingAssumption DEF SlotInv, SlotAccounting, SlotBound, HoldsGlobal,
    HoldsTunnel, InForward
<1>1. ASSUME NEW h \in Handler, NEW t \in Tunnel, AcquireTunnel(h, t)
      PROVE  SlotInv'
  <2>1. CASE SlotFree(tunnelUse[t], PerTunnel)
    <3>1. Go(h, "half") /\ tunnelUse' = [tunnelUse EXCEPT ![t] = @ + 1]
      BY <1>1, <2>1 DEF AcquireTunnel
    <3>2. Cardinality(GlobalUsers)' = Cardinality(GlobalUsers)
      BY <1>1, <1>t, <3>1, GlobalMove DEF AcquireTunnel
    <3>3. Cardinality(UsersOf(t))' = Cardinality(UsersOf(t)) + 1
      BY <1>1, <1>t, <3>1, TunnelTake DEF AcquireTunnel
    <3>4. \A u \in Tunnel \ {t} :
            Cardinality(UsersOf(u))' = Cardinality(UsersOf(u))
      BY <1>1, <1>t, <3>1, TunnelTake DEF AcquireTunnel
    <3> QED
      BY <1>1, <1>t, <1>u, <2>1, <3>1, <3>2, <3>3, <3>4 DEF AcquireTunnel, SlotFree, TypeOK
  <2>2. CASE ~SlotFree(tunnelUse[t], PerTunnel)
    <3>1. Go(h, "done") /\ UNCHANGED tunnelUse
      BY <1>1, <2>2 DEF AcquireTunnel
    <3>2. Cardinality(GlobalUsers)' = Cardinality(GlobalUsers)
      BY <1>1, <1>t, <3>1, GlobalMove DEF AcquireTunnel
    <3>3. \A u \in Tunnel : Cardinality(UsersOf(u))' = Cardinality(UsersOf(u))
      BY <1>1, <1>t, <3>1, TunnelTake DEF AcquireTunnel
    <3> QED
      BY <1>1, <3>1, <3>2, <3>3 DEF AcquireTunnel
  <2> QED
    BY <2>1, <2>2
<1>2. ASSUME NEW h \in Handler, AcquireGlobal(h)
      PROVE  SlotInv'
  <2>1. \A u \in Tunnel : Cardinality(UsersOf(u))' = Cardinality(UsersOf(u))
    BY <1>2, <1>t, TunnelMove DEF AcquireGlobal, OnGlobalFull
  <2>2. CASE SlotFree(globalUse, MaxInFlight)
    <3>1. Cardinality(GlobalUsers)' = Cardinality(GlobalUsers) + 1
      BY <1>2, <1>t, <2>2, GlobalMove DEF AcquireGlobal
    <3> QED
      BY <1>2, <1>t, <2>1, <2>2, <3>1 DEF AcquireGlobal, SlotFree, TypeOK
  <2>3. CASE ~SlotFree(globalUse, MaxInFlight)
    <3>1. Cardinality(GlobalUsers)' = Cardinality(GlobalUsers)
      BY <1>2, <1>t, <2>3, GlobalMove DEF AcquireGlobal, OnGlobalFull
    <3> QED
      BY <1>2, <2>1, <2>3, <3>1 DEF AcquireGlobal
  <2> QED
    BY <2>2, <2>3
<1>3. ASSUME NEW h \in Handler, Rollback(h) \/ ReleaseTunnel(h)
      PROVE  SlotInv'
  <2>1. target[h] \in Tunnel
    BY <1>3, <1>t DEF TargetInv, Rollback, ReleaseTunnel
  <2>2. PICK s \in {"done", "releasing"} :
          Go(h, s) /\ s \notin HoldsTunnel /\ stage[h] \in HoldsTunnel
          /\ (s \in HoldsGlobal <=> stage[h] \in HoldsGlobal)
    BY <1>3 DEF Rollback, ReleaseTunnel
  <2>3. UNCHANGED <<target, globalUse>>
        /\ tunnelUse' = [tunnelUse EXCEPT ![target[h]] = Released(@)]
    BY <1>3 DEF Rollback, ReleaseTunnel
  <2>4. Cardinality(GlobalUsers)' = Cardinality(GlobalUsers)
    BY <1>t, <2>2, GlobalMove
  <2>5. /\ Cardinality(UsersOf(target[h]))' = Cardinality(UsersOf(target[h])) - 1
        /\ Cardinality(UsersOf(target[h])) # 0
    BY <1>t, <2>1, <2>2, <2>3, TunnelMove
  <2>6. \A u \in Tunnel \ {target[h]} :
          Cardinality(UsersOf(u))' = Cardinality(UsersOf(u))
    BY <1>t, <2>2, <2>3, TunnelMove
  <2> QED
    BY <1>t, <1>u, <2>1, <2>3, <2>4, <2>5, <2>6 DEF Released, TypeOK
<1>4. ASSUME NEW h \in Handler, ReleaseGlobal(h)
      PROVE  SlotInv'
  <2>1. /\ Cardinality(GlobalUsers)' = Cardinality(GlobalUsers) - 1
        /\ Cardinality(GlobalUsers) # 0
    BY <1>4, <1>t, GlobalMove DEF ReleaseGlobal
  <2>2. \A u \in Tunnel : Cardinality(UsersOf(u))' = Cardinality(UsersOf(u))
    BY <1>4, <1>t, TunnelMove DEF ReleaseGlobal
  <2> QED
    BY <1>4, <1>t, <1>u, <2>1, <2>2 DEF ReleaseGlobal, Released, TypeOK
<1>5. ASSUME NEW h \in Handler,
             \/ Forward(h) \/ BodyFails(h) \/ LockWrite(h) \/ WriteFrame(h)
             \/ WriteError(h) \/ Select(h) \/ ContextDone(h) \/ Unregister(h)
      PROVE  SlotInv'
  <2>1. PICK s \in InForward \union {"serving"} : Go(h, s)
    BY <1>5 DEF Forward, BodyFails, LockWrite, WriteFrame, WriteError, Select,
       ContextDone, Unregister
  <2>2. stage[h] \in InForward \union {"admitted"}
    BY <1>5 DEF Forward, BodyFails, LockWrite, WriteFrame, WriteError, Select,
       ContextDone, Unregister
  <2>3. UNCHANGED <<target, tunnelUse, globalUse>>
    BY <1>5 DEF Forward, BodyFails, LockWrite, WriteFrame, WriteError, Select,
       ContextDone, Unregister
  <2>4. Cardinality(GlobalUsers)' = Cardinality(GlobalUsers)
    BY <1>t, <2>1, <2>2, GlobalMove
  <2>5. \A u \in Tunnel : Cardinality(UsersOf(u))' = Cardinality(UsersOf(u))
    BY <1>t, <2>1, <2>2, <2>3, TunnelMove
  <2> QED
    BY <2>3, <2>4, <2>5
<1>6. ASSUME UNCHANGED <<stage, target, tunnelUse, globalUse>>
      PROVE  SlotInv'
  BY <1>6 DEF GlobalUsers, UsersOf
<1>7. ASSUME NEW t \in Tunnel, NEW h \in Handler,
             TakeResponse(t, h) \/ PeerReads(t, h)
      PROVE  SlotInv'
  BY <1>6, <1>7 DEF TakeResponse, PeerReads
<1>8. ASSUME NEW t \in Tunnel,
             Deliver(t) \/ CloseTunnel(t) \/ HalfClose(t) \/ Disconnect(t)
      PROVE  SlotInv'
  BY <1>6, <1>8 DEF Deliver, CloseTunnel, HalfClose, Disconnect
<1>9. CASE UNCHANGED vars
  BY <1>6, <1>9 DEF vars
<1> QED
  BY <1>1, <1>2, <1>3, <1>4, <1>5, <1>7, <1>8, <1>9 DEF Next, HandlerStep

LEMMA SlotsInvariant == Spec => []SlotInv
BY SInit, SStep, ForwardingInvariant, PTL DEF Spec

(* Those inside Forward hold both slots.                                    *)
LEMMA SlotsBound == SlotInv => InFlightBounded
<1> SUFFICES ASSUME SlotInv PROVE InFlightBounded
  OBVIOUS
<1> DEFINE Inside    == {h \in Handler : stage[h] \in InForward}
           InsideOf(t) == {h \in Handler : target[h] = t /\ stage[h] \in InForward}
<1>1. Inside \subseteq GlobalUsers
  BY DEF GlobalUsers, HoldsGlobal
<1>2. \A t \in Tunnel : InsideOf(t) \subseteq UsersOf(t)
  BY DEF UsersOf, HoldsTunnel
<1>3. Cardinality(Inside) \in Nat /\ Cardinality(Inside) <= Cardinality(GlobalUsers)
  BY <1>1, UsersFinite, FS_Subset, FS_CardinalityType
<1>4. \A t \in Tunnel : /\ Cardinality(InsideOf(t)) \in Nat
                        /\ Cardinality(InsideOf(t)) <= Cardinality(UsersOf(t))
  BY <1>2, UsersFinite, FS_Subset, FS_CardinalityType
<1> QED
  BY <1>3, <1>4, UsersFinite, ForwardingAssumption
     DEF SlotInv, SlotAccounting, SlotBound, InFlightBounded

-----------------------------------------------------------------------------
(* The results.                                                             *)

(* The variables of the request path keep their types.                      *)
THEOREM ForwardingTypes == Spec => []TypeOK
BY ForwardingInvariant, PTL DEF FInv

(* Every slot taken is held by exactly one request, so none leaks and none  *)
(* is given back twice, whatever fails on the way (http.go line 287).       *)
THEOREM SlotsAccounted == Spec => []SlotAccounting
BY SlotsInvariant, PTL DEF SlotInv

(* The operator's limits bound the requests inside the tunnels.             *)
THEOREM InFlightLimit == Spec => []InFlightBounded
BY SlotsInvariant, SlotsBound, PTL

(* pending holds requests of this very tunnel that are in Forward.          *)
THEOREM PendingIsClean == Spec => []PendingClean
BY ForwardingInvariant, PTL DEF FInv

(* No response, however late or often it comes, blocks the readLoop of a    *)
(* tunnel (tunnel.go line 357).                                             *)
THEOREM ReaderRuns == Spec => []ReaderNeverBlocks
<1>1. FInv => ReaderNeverBlocks
  BY DEF FInv, HandInv, ReaderNeverBlocks
<1> QED
  BY <1>1, ForwardingInvariant, PTL

(* A request that waits can still get its answer.                           *)
THEOREM AnswersArrive == Spec => []AnswerNotLost
BY ForwardingInvariant, PTL DEF FInv
=============================================================================
