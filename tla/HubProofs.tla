------------------------------ MODULE HubProofs ------------------------------
(* Proofs about Hub, for any number of dashboards, events and buffers.      *)
EXTENDS Hub, TLAPS

(* A client is in unregister once, after its handler has left, and before   *)
(* its channel is closed.                                                   *)
LeftInv ==
  /\ \A i \in 1..Len(unregister) :
       /\ stage[unregister[i]] \in {"closing", "gone"}
       /\ unregister[i] \notin closed
  /\ \A i, j \in 1..Len(unregister) : i # j => unregister[i] # unregister[j]

(* Numbers grow along each channel, and from what a client was written over *)
(* its Send channel to the broadcast channel.                               *)
Growing(q) == \A i, j \in 1..Len(q) : i < j => q[i].n < q[j].n

OrderInv ==
  /\ Growing(broadcast)
  /\ \A i \in 1..Len(broadcast) : broadcast[i].n <= sent
  /\ \A c \in Client :
       /\ Growing(send[c])
       /\ last[c] <= sent
       /\ \A i \in 1..Len(send[c]) :
            /\ send[c][i].session = SessionOf[c]
            /\ last[c] < send[c][i].n
            /\ send[c][i].n <= sent
            /\ \A k \in 1..Len(broadcast) : send[c][i].n < broadcast[k].n
       /\ \A k \in 1..Len(broadcast) : last[c] < broadcast[k].n

HInv ==
  /\ TypeOK
  /\ OpenWhileServed
  /\ NeverClosedTwice
  /\ LeftInv
  /\ OrderInv

-----------------------------------------------------------------------------

LEMMA HInit == Init => HInv
BY HubAssumption
   DEF Init, HInv, TypeOK, OpenWhileServed, NeverClosedTwice, LeftInv, OrderInv,
       Growing, Stages, HubStates

LEMMA HType == TypeOK /\ [Next]_vars => TypeOK'
<1> SUFFICES ASSUME TypeOK, [Next]_vars PROVE TypeOK'
  OBVIOUS
<1>1. ASSUME NEW c \in Client,
             Connect(c) \/ AcceptFails(c) \/ Leave(c) \/ ReleaseSlot(c)
      PROVE  TypeOK'
  BY <1>1 DEF Connect, AcceptFails, Leave, ReleaseSlot, Go, TypeOK, Stages
<1>2. ASSUME NEW c \in Client, Register(c)
      PROVE  TypeOK'
  <2>1. register \in Seq(Client)
    BY DEF TypeOK
  <2>2. Len(register) < RegisterCap /\ register' = Append(register, c)
    BY <1>2 DEF Register
  <2>3. register' \in Seq(Client) /\ Len(register') <= RegisterCap
    BY <2>1, <2>2, HubAssumption
  <2>4. stage' \in [Client -> Stages]
    BY <1>2 DEF Register, Go, TypeOK, Stages
  <2> QED
    BY <1>2, <2>3, <2>4 DEF TypeOK, Register
<1>3. ASSUME NEW c \in Client, Unregister(c)
      PROVE  TypeOK'
  <2>1. unregister \in Seq(Client)
    BY DEF TypeOK
  <2>2. Len(unregister) < UnregisterCap /\ unregister' = Append(unregister, c)
    BY <1>3 DEF Unregister
  <2>3. unregister' \in Seq(Client) /\ Len(unregister') <= UnregisterCap
    BY <2>1, <2>2, HubAssumption
  <2>4. stage' \in [Client -> Stages]
    BY <1>3 DEF Unregister, Go, TypeOK, Stages
  <2> QED
    BY <1>3, <2>3, <2>4 DEF TypeOK, Unregister
<1>4. ASSUME NEW c \in Client, Write(c) \/ WriteFails(c)
      PROVE  TypeOK'
  <2>1. send[c] \in Seq(Event) /\ send[c] # <<>> /\ Len(send[c]) <= SendCap
    BY <1>4 DEF Write, WriteFails, TypeOK
  <2>2. /\ Tail(send[c]) \in Seq(Event) /\ Len(Tail(send[c])) <= SendCap
        /\ Head(send[c]) \in Event
    BY <2>1, HubAssumption
  <2>3. Head(send[c]).n \in 0..MaxEvents
    BY <2>2, HubAssumption DEF Event
  <2>4. send' = [send EXCEPT ![c] = Tail(send[c])]
    BY <1>4 DEF Write, WriteFails
  <2>5. send' \in [Client -> Seq(Event)] /\ \A d \in Client : Len(send'[d]) <= SendCap
    BY <2>2, <2>4 DEF TypeOK
  <2>6. last' \in [Client -> 0..MaxEvents]
    BY <1>4, <2>3 DEF Write, WriteFails, TypeOK
  <2>7. stage' \in [Client -> Stages]
    BY <1>4 DEF Write, WriteFails, Go, TypeOK, Stages
  <2>8. UNCHANGED <<hub, register, unregister, broadcast, clients, closed, sent>>
    BY <1>4 DEF Write, WriteFails, UnregisterAfterWrite
  <2> QED
    BY <2>5, <2>6, <2>7, <2>8 DEF TypeOK
<1>5. ASSUME NEW s \in Session, Broadcast(s)
      PROVE  TypeOK'
  <2>1. broadcast \in Seq(Event) /\ sent \in 0..MaxEvents
    BY DEF TypeOK
  <2>2. /\ Len(broadcast) < BroadcastCap /\ sent < MaxEvents /\ sent' = sent + 1
        /\ broadcast' = Append(broadcast, [n |-> sent + 1, session |-> s])
    BY <1>5 DEF Broadcast
  <2>3. [n |-> sent + 1, session |-> s] \in Event /\ sent' \in 0..MaxEvents
    BY <2>1, <2>2, HubAssumption DEF Event
  <2>4. broadcast' \in Seq(Event) /\ Len(broadcast') <= BroadcastCap
    BY <2>1, <2>2, <2>3, HubAssumption
  <2> QED
    BY <1>5, <2>3, <2>4 DEF Broadcast, TypeOK
<1>6. CASE TakeRegister
  <2>1. register \in Seq(Client) /\ Len(register) <= RegisterCap /\ register # <<>>
    BY <1>6 DEF TakeRegister, TypeOK
  <2>2. /\ Tail(register) \in Seq(Client) /\ Len(Tail(register)) <= RegisterCap
        /\ Head(register) \in Client
    BY <2>1, HubAssumption
  <2> QED
    BY <1>6, <2>2 DEF TakeRegister, TypeOK
<1>7. CASE TakeUnregister
  <2>1. /\ unregister \in Seq(Client) /\ Len(unregister) <= UnregisterCap
        /\ unregister # <<>>
    BY <1>7 DEF TakeUnregister, UnregisterReady, TypeOK
  <2>2. /\ Tail(unregister) \in Seq(Client)
        /\ Len(Tail(unregister)) <= UnregisterCap /\ Head(unregister) \in Client
    BY <2>1, HubAssumption
  <2> QED
    BY <1>7, <2>2 DEF TakeUnregister, TypeOK, HubStates
<1>8. CASE TakeBroadcast
  <2>1. /\ broadcast \in Seq(Event) /\ Len(broadcast) <= BroadcastCap
        /\ broadcast # <<>>
    BY <1>8 DEF TakeBroadcast, BroadcastReady, TypeOK
  <2>2. /\ Tail(broadcast) \in Seq(Event) /\ Len(Tail(broadcast)) <= BroadcastCap
        /\ Head(broadcast) \in Event
    BY <2>1, HubAssumption
  <2>3. \A c \in Client : /\ Offered(c, Head(broadcast)) \in Seq(Event)
                          /\ Len(Offered(c, Head(broadcast))) <= SendCap
    <3> TAKE c \in Client
    <3>1. send[c] \in Seq(Event) /\ Len(send[c]) <= SendCap
      BY DEF TypeOK
    <3> QED
      BY <2>2, <3>1, HubAssumption DEF Offered
  <2>4. \/ UNCHANGED send
        \/ send' = [c \in Client |-> IF c \in Receivers(Head(broadcast))
                                       THEN Offered(c, Head(broadcast)) ELSE send[c]]
    BY <1>8 DEF TakeBroadcast
  <2>5. send' \in [Client -> Seq(Event)] /\ \A d \in Client : Len(send'[d]) <= SendCap
    BY <2>3, <2>4 DEF TypeOK
  <2>6. hub' \in HubStates /\ closed' = closed
    BY <1>8 DEF TakeBroadcast, ClosedAfter, TypeOK, HubStates
  <2>7. broadcast' = Tail(broadcast)
        /\ UNCHANGED <<stage, register, unregister, clients, last, sent>>
    BY <1>8 DEF TakeBroadcast
  <2> QED
    BY <2>2, <2>5, <2>6, <2>7 DEF TypeOK
<1>9. CASE Stop
  BY <1>9 DEF Stop, TypeOK, HubStates
<1>10. CASE UNCHANGED vars
  BY <1>10 DEF vars, TypeOK
<1> QED
  BY <1>1, <1>2, <1>3, <1>4, <1>5, <1>6, <1>7, <1>8, <1>9, <1>10 DEF Next

(* What Run closes: each channel once, after its handler has left.          *)
Closing == OpenWhileServed /\ NeverClosedTwice /\ LeftInv

LEMMA HClosing == TypeOK /\ Closing /\ [Next]_vars => Closing'
<1> SUFFICES ASSUME TypeOK, Closing, [Next]_vars PROVE Closing'
  OBVIOUS
<1>s. stage \in [Client -> Stages] /\ unregister \in Seq(Client) /\ closed \subseteq Client
  BY DEF TypeOK
<1>e. \A i \in 1..Len(unregister) : unregister[i] \in Client
  BY <1>s
<1>1. ASSUME UNCHANGED <<hub, unregister, closed>>, NEW c \in Client, NEW q,
             Go(c, q), stage[c] \in {"closing", "gone"} => q = "gone"
      PROVE  Closing'
  BY <1>1, <1>s, <1>e
     DEF Closing, OpenWhileServed, NeverClosedTwice, LeftInv, Go
<1>2. ASSUME NEW c \in Client,
             \/ Connect(c) \/ AcceptFails(c) \/ Leave(c) \/ ReleaseSlot(c)
             \/ Register(c) \/ WriteFails(c)
      PROVE  Closing'
  BY <1>1, <1>2 DEF Connect, AcceptFails, Leave, ReleaseSlot, Register,
     WriteFails, UnregisterAfterWrite
<1>3. ASSUME NEW c \in Client, Unregister(c)
      PROVE  Closing'
  <2>1. /\ stage[c] = "leaving" /\ stage' = [stage EXCEPT ![c] = "closing"]
        /\ unregister' = Append(unregister, c)
        /\ UNCHANGED <<hub, closed>>
    BY <1>3 DEF Unregister, Go
  <2>2. /\ Len(unregister) \in Nat /\ Len(unregister') = Len(unregister) + 1
        /\ \A i \in 1..Len(unregister) : unregister'[i] = unregister[i]
        /\ unregister'[Len(unregister) + 1] = c
    BY <1>s, <2>1
  <2>3. c \notin closed /\ \A i \in 1..Len(unregister) : unregister[i] # c
    BY <2>1 DEF Closing, OpenWhileServed, LeftInv
  <2>4. \A i \in 1..Len(unregister') :
          \/ i \in 1..Len(unregister)
          \/ i = Len(unregister) + 1 /\ i \notin 1..Len(unregister)
    BY <2>2
  <2>5. OpenWhileServed' /\ NeverClosedTwice'
    BY <2>1, <1>s DEF Closing, OpenWhileServed, NeverClosedTwice
  <2>6. \A i \in 1..Len(unregister') :
          stage'[unregister'[i]] \in {"closing", "gone"} /\ unregister'[i] \notin closed'
    BY <1>s, <1>e, <2>1, <2>2, <2>3, <2>4 DEF Closing, LeftInv
  <2>7. \A i, k \in 1..Len(unregister') : i # k => unregister'[i] # unregister'[k]
    BY <2>2, <2>3, <2>4 DEF Closing, LeftInv
  <2> QED
    BY <2>5, <2>6, <2>7 DEF Closing, LeftInv
<1>4. ASSUME UNCHANGED <<stage, unregister, closed>>, hub' # "closed twice"
      PROVE  Closing'
  BY <1>4 DEF Closing, OpenWhileServed, NeverClosedTwice, LeftInv
<1>5. CASE TakeUnregister
  <2>t. unregister # <<>> /\ unregister' = Tail(unregister)
    BY <1>5 DEF TakeUnregister, UnregisterReady
  <2>u. unregister \in Seq(Client)
    BY <1>s
  <2>1. /\ closed' = closed \union {Head(unregister)} /\ stage' = stage
        /\ hub' = IF Head(unregister) \in closed THEN "closed twice" ELSE hub
        /\ hub = "running"
    BY <1>5 DEF TakeUnregister, UnregisterReady
  <2>2. /\ Len(unregister) \in Nat /\ 1 \in 1..Len(unregister)
        /\ Head(unregister) = unregister[1]
        /\ \A i \in 1..Len(unregister') :
             /\ unregister'[i] = unregister[i + 1]
             /\ i + 1 \in 1..Len(unregister) /\ 1 < i + 1
    BY <2>t, <2>u
  <2>3. \A i, k \in 1..Len(unregister') : i # k => i + 1 # k + 1
    BY <2>t, <2>u
  <2>4. Head(unregister) \notin closed /\ stage[Head(unregister)] \in {"closing", "gone"}
    BY <2>2, <2>3 DEF Closing, LeftInv
  <2>5. OpenWhileServed' /\ NeverClosedTwice'
    BY <2>1, <2>4 DEF Closing, OpenWhileServed, NeverClosedTwice
  <2>6. \A i \in 1..Len(unregister') :
          stage'[unregister'[i]] \in {"closing", "gone"} /\ unregister'[i] \notin closed'
    <3> SUFFICES ASSUME NEW i \in 1..Len(unregister')
                 PROVE  /\ stage'[unregister'[i]] \in {"closing", "gone"}
                        /\ unregister'[i] \notin closed'
      OBVIOUS
    <3>1. /\ unregister'[i] = unregister[i + 1] /\ i + 1 # 1
          /\ i + 1 \in 1..Len(unregister) /\ 1 \in 1..Len(unregister)
      BY <2>2
    <3>2. unregister[i + 1] # unregister[1]
      BY <3>1 DEF Closing, LeftInv
    <3>3. /\ stage[unregister[i + 1]] \in {"closing", "gone"}
          /\ unregister[i + 1] \notin closed
      BY <3>1 DEF Closing, LeftInv
    <3> QED
      BY <2>1, <2>2, <3>1, <3>2, <3>3
  <2>7. \A i, k \in 1..Len(unregister') : i # k => unregister'[i] # unregister'[k]
    BY <2>2, <2>3 DEF Closing, LeftInv
  <2> QED
    BY <2>5, <2>6, <2>7 DEF Closing, LeftInv
<1>6. ASSUME NEW c \in Client, Write(c)
      PROVE  Closing'
  BY <1>4, <1>6 DEF Write, Closing, NeverClosedTwice
<1>7. ASSUME NEW s \in Session, Broadcast(s)
      PROVE  Closing'
  BY <1>4, <1>7 DEF Broadcast, Closing, NeverClosedTwice
<1>8. CASE TakeRegister \/ TakeBroadcast \/ Stop \/ UNCHANGED vars
  BY <1>4, <1>8 DEF TakeRegister, TakeBroadcast, ClosedAfter, Stop, vars, Closing,
     NeverClosedTwice
<1> QED
  BY <1>2, <1>3, <1>5, <1>6, <1>7, <1>8 DEF Next

(* An event keeps its place from Broadcast to the socket.                   *)
LEMMA HOrder == TypeOK /\ OrderInv /\ [Next]_vars => OrderInv'
<1> SUFFICES ASSUME TypeOK, OrderInv, [Next]_vars PROVE OrderInv'
  OBVIOUS
<1>s. /\ broadcast \in Seq(Event) /\ sent \in Nat
      /\ send \in [Client -> Seq(Event)] /\ last \in [Client -> Nat]
  BY HubAssumption DEF TypeOK
<1>n. /\ \A i \in 1..Len(broadcast) : broadcast[i].n \in Nat
      /\ \A c \in Client : \A i \in 1..Len(send[c]) : send[c][i].n \in Nat
  <2>1. \A e \in Event : e.n \in Nat
    BY HubAssumption DEF Event
  <2> QED
    BY <1>s, <2>1
<1>1. ASSUME UNCHANGED <<broadcast, send, last, sent>>
      PROVE  OrderInv'
  BY <1>1 DEF OrderInv, Growing
<1>2. ASSUME NEW c \in Client,
             \/ Connect(c) \/ AcceptFails(c) \/ Leave(c) \/ ReleaseSlot(c)
             \/ Register(c) \/ Unregister(c)
      PROVE  OrderInv'
  BY <1>1, <1>2 DEF Connect, AcceptFails, Leave, ReleaseSlot, Register, Unregister
<1>3. ASSUME NEW c \in Client, Write(c) \/ WriteFails(c)
      PROVE  OrderInv'
  <2>1. /\ send[c] # <<>> /\ send' = [send EXCEPT ![c] = Tail(send[c])]
        /\ last' = last \/ last' = [last EXCEPT ![c] = Head(send[c]).n]
        /\ UNCHANGED <<broadcast, sent>>
    BY <1>3 DEF Write, WriteFails
  <2>2. send[c] \in Seq(Event)
    BY <1>s
  <2>3. /\ Len(send[c]) \in Nat /\ Len(send[c]) >= 1 /\ Head(send[c]) = send[c][1]
        /\ 1 \in 1..Len(send[c])
        /\ \A i \in 1..Len(Tail(send[c])) :
             /\ Tail(send[c])[i] = send[c][i + 1]
             /\ i + 1 \in 1..Len(send[c]) /\ 1 < i + 1
    BY <2>1, <2>2
  <2>4. /\ send'[c] = Tail(send[c])
        /\ last'[c] = last[c] \/ last'[c] = send[c][1].n
        /\ \A d \in Client \ {c} : send'[d] = send[d] /\ last'[d] = last[d]
    BY <1>s, <2>1, <2>3
  <2>5. \A d \in Client : Growing(send'[d])
    <3> TAKE d \in Client
    <3>1. CASE d = c
      <4>1. \A i, k \in 1..Len(Tail(send[c])) : i < k => i + 1 < k + 1
        BY <2>1, <2>2
      <4>2. Growing(Tail(send[c]))
        BY <2>3, <4>1 DEF OrderInv, Growing
      <4> QED
        BY <2>4, <3>1, <4>2
    <3>2. CASE d # c
      BY <2>4, <3>2 DEF OrderInv
    <3> QED
      BY <3>1, <3>2
  <2>6. \A d \in Client : \A i \in 1..Len(send'[d]) :
          /\ send'[d][i].session = SessionOf[d]
          /\ last'[d] < send'[d][i].n
          /\ send'[d][i].n <= sent
          /\ \A k \in 1..Len(broadcast) : send'[d][i].n < broadcast[k].n
    <3> TAKE d \in Client
    <3>1. CASE d = c
      <4>1. \A i \in 1..Len(Tail(send[c])) :
              /\ last[c] < Tail(send[c])[i].n /\ send[c][1].n < Tail(send[c])[i].n
              /\ Tail(send[c])[i].session = SessionOf[c] /\ Tail(send[c])[i].n <= sent
        BY <2>3 DEF OrderInv, Growing
      <4>2. \A i \in 1..Len(Tail(send[c])) : \A k \in 1..Len(broadcast) :
              Tail(send[c])[i].n < broadcast[k].n
        BY <2>3 DEF OrderInv
      <4> QED
        BY <2>4, <3>1, <4>1, <4>2
    <3>2. CASE d # c
      BY <2>4, <3>2 DEF OrderInv
    <3> QED
      BY <3>1, <3>2
  <2>7. \A d \in Client : /\ last'[d] <= sent
                          /\ \A k \in 1..Len(broadcast) : last'[d] < broadcast[k].n
    BY <2>3, <2>4 DEF OrderInv
  <2>8. Growing(broadcast') /\ \A i \in 1..Len(broadcast') : broadcast'[i].n <= sent'
    BY <2>1 DEF OrderInv, Growing
  <2>9. sent' = sent /\ broadcast' = broadcast
    BY <2>1
  <2> QED
    BY <2>5, <2>6, <2>7, <2>8, <2>9 DEF OrderInv
<1>4. ASSUME NEW s \in Session, Broadcast(s)
      PROVE  OrderInv'
  <2> DEFINE e == [n |-> sent + 1, session |-> s]
  <2>1. /\ broadcast' = Append(broadcast, e) /\ sent' = sent + 1
        /\ UNCHANGED <<send, last>>
    BY <1>4 DEF Broadcast
  <2>2. /\ Len(broadcast) \in Nat /\ Len(broadcast') = Len(broadcast) + 1
        /\ \A i \in 1..Len(broadcast) : broadcast'[i] = broadcast[i]
        /\ broadcast'[Len(broadcast) + 1] = e
    BY <1>s, <2>1
  <2>3. \A i \in 1..Len(broadcast') :
          \/ i \in 1..Len(broadcast) /\ broadcast'[i] = broadcast[i]
          \/ i = Len(broadcast) + 1 /\ broadcast'[i].n = sent + 1
    BY <2>2
  <2>4. Growing(broadcast')
    BY <1>s, <1>n, <2>2, <2>3 DEF OrderInv, Growing
  <2>5. \A i \in 1..Len(broadcast') : broadcast'[i].n <= sent'
    BY <1>s, <1>n, <2>1, <2>3 DEF OrderInv
  <2>6. \A c \in Client :
          /\ last'[c] <= sent'
          /\ \A k \in 1..Len(broadcast') : last'[c] < broadcast'[k].n
    BY <1>s, <1>n, <2>1, <2>3 DEF OrderInv
  <2>7. \A c \in Client : \A i \in 1..Len(send'[c]) :
          /\ send'[c][i].session = SessionOf[c]
          /\ last'[c] < send'[c][i].n
          /\ send'[c][i].n <= sent'
          /\ \A k \in 1..Len(broadcast') : send'[c][i].n < broadcast'[k].n
    BY <1>s, <1>n, <2>1, <2>3 DEF OrderInv
  <2> QED
    BY <2>1, <2>4, <2>5, <2>6, <2>7 DEF OrderInv, Growing
<1>5. CASE TakeRegister \/ TakeUnregister \/ Stop \/ UNCHANGED vars
  BY <1>1, <1>5 DEF TakeRegister, TakeUnregister, Stop, vars
<1>6. CASE TakeBroadcast
  <2> DEFINE e == Head(broadcast)
  <2>1. /\ broadcast # <<>> /\ broadcast' = Tail(broadcast)
        /\ UNCHANGED <<last, sent>>
        /\ \/ UNCHANGED send
           \/ send' = [c \in Client |->
                        IF c \in Receivers(e) THEN Offered(c, e) ELSE send[c]]
    BY <1>6 DEF TakeBroadcast, BroadcastReady
  <2>2. /\ Len(broadcast) \in Nat /\ 1 \in 1..Len(broadcast) /\ e = broadcast[1]
        /\ \A i \in 1..Len(broadcast') :
             /\ broadcast'[i] = broadcast[i + 1]
             /\ i + 1 \in 1..Len(broadcast) /\ 1 < i + 1
    BY <1>s, <2>1
  <2>3. /\ Growing(broadcast')
        /\ \A i \in 1..Len(broadcast') : broadcast'[i].n <= sent /\ e.n < broadcast'[i].n
        /\ e.n \in Nat /\ e.n <= sent
    <3>1. \A i, k \in 1..Len(broadcast') : i < k => i + 1 < k + 1
      BY <1>s, <2>1
    <3>2. /\ \A i, k \in 1..Len(broadcast) : i < k => broadcast[i].n < broadcast[k].n
          /\ \A i \in 1..Len(broadcast) : broadcast[i].n <= sent
      BY DEF OrderInv, Growing
    <3>3. Growing(broadcast')
      BY <2>2, <3>1, <3>2 DEF Growing
    <3>4. \A i \in 1..Len(broadcast') : broadcast'[i].n <= sent /\ e.n < broadcast'[i].n
      BY <2>2, <3>2
    <3>5. e.n \in Nat /\ e.n <= sent
      BY <1>n, <2>2, <3>2
    <3> QED
      BY <3>3, <3>4, <3>5
  <2>4. \A c \in Client :
          \/ send'[c] = send[c]
          \/ /\ send'[c] = Append(send[c], e) /\ e.session = SessionOf[c]
             /\ e.n > last[c]
    <3> TAKE c \in Client
    <3>1. e.n > last[c]
      BY <1>s, <1>n, <2>2 DEF OrderInv
    <3> QED
      BY <2>1, <3>1 DEF Offered, Receivers
  <2>5. \A c \in Client : \A i \in 1..Len(send'[c]) :
          \/ i \in 1..Len(send[c]) /\ send'[c][i] = send[c][i]
          \/ /\ send'[c][i] = e /\ e.session = SessionOf[c] /\ e.n > last[c]
             /\ \A k \in 1..Len(send[c]) : k < i
             /\ \A k \in 1..Len(send'[c]) : k <= i
    <3> TAKE c \in Client
    <3>1. send[c] \in Seq(Event) /\ e \in Event
      BY <1>s, <2>2
    <3>2. CASE send'[c] = send[c]
      BY <3>2
    <3>3. CASE send'[c] = Append(send[c], e)
      BY <2>4, <3>1, <3>3
    <3> QED
      BY <2>4, <3>2, <3>3
  <2>6. \A c \in Client : \A i \in 1..Len(send[c]) : send[c][i].n < e.n
    BY <2>2 DEF OrderInv
  <2>7. \A c \in Client : Growing(send'[c])
    <3> SUFFICES ASSUME NEW c \in Client,
                        NEW i \in 1..Len(send'[c]), NEW k \in 1..Len(send'[c]), i < k
                 PROVE  send'[c][i].n < send'[c][k].n
      BY DEF Growing
    <3>1. i \in 1..Len(send[c]) /\ send'[c][i] = send[c][i]
      BY <2>5
    <3>2. CASE k \in 1..Len(send[c]) /\ send'[c][k] = send[c][k]
      BY <3>1, <3>2 DEF OrderInv, Growing
    <3>3. CASE send'[c][k] = e
      BY <2>6, <3>1, <3>3
    <3> QED
      BY <2>5, <3>2, <3>3
  <2>8. \A c \in Client : \A i \in 1..Len(send'[c]) :
          /\ send'[c][i].session = SessionOf[c]
          /\ last[c] < send'[c][i].n
          /\ send'[c][i].n <= sent
          /\ \A k \in 1..Len(broadcast') : send'[c][i].n < broadcast'[k].n
    <3> SUFFICES ASSUME NEW c \in Client, NEW i \in 1..Len(send'[c])
                 PROVE  /\ send'[c][i].session = SessionOf[c]
                        /\ last[c] < send'[c][i].n
                        /\ send'[c][i].n <= sent
                        /\ \A k \in 1..Len(broadcast') : send'[c][i].n < broadcast'[k].n
      OBVIOUS
    <3>1. CASE i \in 1..Len(send[c]) /\ send'[c][i] = send[c][i]
      BY <2>2, <3>1 DEF OrderInv
    <3>2. CASE send'[c][i] = e /\ e.session = SessionOf[c] /\ e.n > last[c]
      BY <1>s, <2>3, <3>2
    <3> QED
      BY <2>5, <3>1, <3>2
  <2>9. \A c \in Client : /\ last[c] <= sent
                          /\ \A k \in 1..Len(broadcast') : last[c] < broadcast'[k].n
    BY <2>2 DEF OrderInv
  <2> QED
    BY <2>1, <2>3, <2>7, <2>8, <2>9 DEF OrderInv
<1> QED
  BY <1>2, <1>3, <1>4, <1>5, <1>6 DEF Next

LEMMA HubInvariant == Spec => []HInv
<1>1. HInv /\ [Next]_vars => HInv'
  BY HType, HClosing, HOrder DEF HInv, Closing
<1> QED
  BY HInit, <1>1, PTL DEF Spec

-----------------------------------------------------------------------------
(* The results.                                                             *)

(* The variables of the hub keep their types, and the channels their        *)
(* capacities.                                                              *)
THEOREM HubTypes == Spec => []TypeOK
BY HubInvariant, PTL DEF HInv

(* A dashboard gets the events of its session, in order and without         *)
(* repetition, for any interleaving of the three channels (hub.go line 41). *)
THEOREM EventsInOrder == Spec => []InOrder
<1>1. HInv => InOrder
  <2> SUFFICES ASSUME HInv, NEW c \in Client, NEW i \in 1..Len(send[c])
               PROVE  /\ send[c][i].session = SessionOf[c]
                      /\ send[c][i].n > (IF i = 1 THEN last[c] ELSE send[c][i - 1].n)
    BY DEF InOrder
  <2>1. /\ send[c] \in Seq(Event)
        /\ last[c] \in Nat
    BY HubAssumption DEF HInv, TypeOK
  <2>2. send[c][i].session = SessionOf[c] /\ last[c] < send[c][i].n
    BY DEF HInv, OrderInv
  <2>3. i # 1 => i - 1 \in 1..Len(send[c]) /\ i - 1 < i
    BY <2>1
  <2>4. i # 1 => send[c][i - 1].n < send[c][i].n
    BY <2>3 DEF HInv, OrderInv, Growing
  <2>5. \A e \in Event : e.n \in Nat
    BY HubAssumption DEF Event
  <2>6. send[c][i].n \in Nat /\ (i # 1 => send[c][i - 1].n \in Nat)
    BY <2>1, <2>3, <2>5
  <2> QED
    BY <2>1, <2>2, <2>4, <2>6
<1> QED
  BY <1>1, HubInvariant, PTL

(* No handler reads from a closed channel.                                  *)
THEOREM ChannelsStayOpen == Spec => []OpenWhileServed
BY HubInvariant, PTL DEF HInv

(* No channel is closed twice, so Run never ends the process that way.      *)
THEOREM ClosedOnce == Spec => []NeverClosedTwice
BY HubInvariant, PTL DEF HInv

-----------------------------------------------------------------------------
(* The boundary of the panic.                                               *)

Waiting(c) == \E i \in 1..Len(register) : register[i] = c

(* A client whose channel is closed is in the map no more, and will not be. *)
GoneInv == /\ \A c \in closed : c \notin clients /\ ~Waiting(c)
           /\ NeverSentOnClosed

LEMMA GoneStep ==
  ASSUME HInv, GoneInv, Next, ~Overtaking
  PROVE  GoneInv'
<1>0. TypeOK /\ OpenWhileServed
  BY DEF HInv
<1>1. CASE UNCHANGED <<hub, register, clients, closed>>
  BY <1>1 DEF GoneInv, Waiting, NeverSentOnClosed
<1>2. ASSUME NEW c \in Client, Register(c) PROVE GoneInv'
  <2>1. c \notin closed
    BY <1>0, <1>2 DEF Register, OpenWhileServed
  <2>2. /\ register \in Seq(Client) /\ register' = Append(register, c)
        /\ UNCHANGED <<hub, clients, closed>>
    BY <1>0, <1>2 DEF Register, TypeOK
  <2>3. \A i \in 1..Len(register') :
          register'[i] = c \/ (i \in 1..Len(register) /\ register'[i] = register[i])
    BY <2>2
  <2>4. \A d : Waiting(d)' => d = c \/ Waiting(d)
    BY <2>3 DEF Waiting
  <2> QED
    BY <2>1, <2>2, <2>4 DEF GoneInv, NeverSentOnClosed
<1>3. CASE TakeRegister
  <2>1. /\ register \in Seq(Client) /\ register # <<>> /\ register' = Tail(register)
        /\ clients' = clients \union {Head(register)} /\ UNCHANGED <<hub, closed>>
    BY <1>0, <1>3 DEF TakeRegister, TypeOK
  <2>2. /\ \A i \in 1..Len(register') : i + 1 \in 1..Len(register)
                                        /\ register'[i] = register[i + 1]
        /\ 1 \in 1..Len(register) /\ Head(register) = register[1]
    BY <2>1
  <2>3. Waiting(Head(register)) /\ \A d : Waiting(d)' => Waiting(d)
    BY <2>2 DEF Waiting
  <2> QED
    BY <2>1, <2>3 DEF GoneInv, NeverSentOnClosed
<1>4. CASE TakeUnregister
  <2>1. /\ clients' = clients \ {Head(unregister)}
        /\ closed' = closed \union {Head(unregister)}
        /\ UNCHANGED register /\ hub' \in {hub, "closed twice"}
    BY <1>4 DEF TakeUnregister
  <2>2. ~Waiting(Head(unregister))
    BY <1>4 DEF Overtaking, Waiting
  <2> QED
    BY <2>1, <2>2 DEF GoneInv, Waiting, NeverSentOnClosed
<1>5. CASE TakeBroadcast
  <2>1. Receivers(Head(broadcast)) \intersect closed = {}
    BY DEF GoneInv, Receivers
  <2>2. UNCHANGED <<hub, register, clients, closed>>
    BY <1>5, <2>1 DEF TakeBroadcast, ClosedAfter
  <2> QED
    BY <1>1, <2>2
<1>6. CASE Stop
  BY <1>6 DEF Stop, GoneInv, Waiting, NeverSentOnClosed
<1> QED
  BY <1>1, <1>2, <1>3, <1>4, <1>5, <1>6
  DEF Next, Connect, AcceptFails, Write, WriteFails, Leave, Unregister,
      ReleaseSlot, Broadcast

(* The only way to a send on a closed channel is an unregister that has     *)
(* overtaken its register: a Run that took the two in their order (one      *)
(* channel for both would do) could not end the process.                    *)
THEOREM NoOvertakingNoPanic == Spec /\ NoOvertaking => []NeverSentOnClosed
<1>1. Init => GoneInv
  BY DEF Init, GoneInv, NeverSentOnClosed
<1>2. HInv /\ GoneInv /\ [Next]_vars /\ [~Overtaking]_vars => GoneInv'
  <2>1. HInv /\ GoneInv /\ Next /\ ~Overtaking => GoneInv'
    BY GoneStep
  <2>2. GoneInv /\ UNCHANGED vars => GoneInv'
    BY DEF vars, GoneInv, Waiting, NeverSentOnClosed
  <2> QED
    BY <2>1, <2>2
<1>3. GoneInv => NeverSentOnClosed
  BY DEF GoneInv
<1> QED
  BY <1>1, <1>2, <1>3, HubInvariant, PTL DEF Spec, NoOvertaking
=============================================================================
