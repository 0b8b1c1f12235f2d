------------------------- MODULE CaptureStoreProofs -------------------------
(* Proofs about CaptureStore, for any number of requests, replays and       *)
(* tunnels, and any limits.                                                 *)
(*                                                                          *)
(* The invariant follows a record on its way: a handler makes it once, it   *)
(* is queued when its handler has finished, and what it refers to stays     *)
(* until the session is old.                                                *)
EXTENDS CaptureStore, FiniteSetTheorems, TLAPS

Written == requests \union replays

(* Records, the queue and the tables against the stages of the handlers.    *)
StageInv ==
  /\ \A h \in Queued \union Written : stage[h] = "done"
  /\ \A h \in records : stage[h] \in {"queueing", "done"}
  /\ \A h \in Request : stage[h] \in {"routed", "answered", "queueing"} \/ h \in records
       => target[h] \in opened
  /\ serving # None => serving \in opened

(* Only a session that has been past its retention is deleted, and only     *)
(* then is a round of the retention loop under way.                         *)
RowInv ==
  /\ row \in {"old", "deleted"} => aged
  /\ round # "replays" => aged
  /\ writer # "running" => stop # "up"

(* Until then, a replay finds the request it repeats.                       *)
OriginalInv ==
  ~aged =>
    \A r \in Replay : stage[r] # "idle" => original[r] \in requests

CInv == TypeOK /\ StageInv /\ RowInv /\ OriginalInv /\ NoOrphans /\ KeptUntilShutdown

-----------------------------------------------------------------------------
(* The queue.                                                               *)

LEMMA AppendQueue ==
  ASSUME NEW S, NEW q \in Seq(S), NEW h \in S
  PROVE  /\ Append(q, h) \in Seq(S) /\ Len(Append(q, h)) = Len(q) + 1
         /\ {Append(q, h)[i] : i \in 1..Len(Append(q, h))}
              = {q[i] : i \in 1..Len(q)} \union {h}
<1>1. Append(q, h) \in Seq(S) /\ Len(Append(q, h)) = Len(q) + 1 /\ Len(q) \in Nat
  OBVIOUS
<1>2. \A i \in 1..Len(q) : Append(q, h)[i] = q[i]
  OBVIOUS
<1>3. Append(q, h)[Len(q) + 1] = h
  OBVIOUS
<1>4. 1..Len(Append(q, h)) = (1..Len(q)) \union {Len(q) + 1}
  BY <1>1
<1> QED
  BY <1>1, <1>2, <1>3, <1>4

LEMMA TailQueue ==
  ASSUME NEW S, NEW q \in Seq(S), q # <<>>
  PROVE  /\ Tail(q) \in Seq(S) /\ Len(Tail(q)) <= Len(q) /\ Head(q) \in S
         /\ {q[i] : i \in 1..Len(q)}
              = {Tail(q)[i] : i \in 1..Len(Tail(q))} \union {Head(q)}
<1>1. /\ Tail(q) \in Seq(S) /\ Len(q) \in Nat /\ Len(q) >= 1
      /\ Len(Tail(q)) = Len(q) - 1 /\ Head(q) = q[1] /\ Head(q) \in S
  OBVIOUS
<1>2. \A i \in 1..Len(Tail(q)) : Tail(q)[i] = q[i + 1]
  BY <1>1
<1>3. \A i \in 1..Len(q) : i = 1 \/ (i - 1 \in 1..Len(Tail(q)) /\ q[i] = Tail(q)[i - 1])
  BY <1>1, <1>2
<1>4. \A i \in 1..Len(Tail(q)) : i + 1 \in 1..Len(q)
  BY <1>1
<1>5. 1 \in 1..Len(q)
  BY <1>1
<1> QED
  BY <1>1, <1>2, <1>3, <1>4, <1>5

LEMMA QueuedHandlers ==
  ASSUME queue \in Seq(Handler)
  PROVE  Queued \subseteq Handler
<1>1. \A i \in 1..Len(queue) : queue[i] \in Handler
  OBVIOUS
<1> QED
  BY <1>1 DEF Queued

(* What the writer takes leaves the queue, and it was a finished handler's. *)
LEMMA TakeFacts ==
  ASSUME TypeOK, Take
  PROVE  /\ queue' \in Seq(Handler) /\ Len(queue') <= QueueCap
         /\ Head(queue) \in Handler
         /\ Queued = Queued' \union {Head(queue)}
<1>1. queue \in Seq(Handler) /\ Len(queue) <= QueueCap /\ Len(queue) \in Nat
  BY DEF TypeOK
<1>2. queue # <<>> /\ queue' = Tail(queue)
  BY DEF Take
<1>3. /\ Tail(queue) \in Seq(Handler) /\ Len(Tail(queue)) <= Len(queue)
      /\ Head(queue) \in Handler
      /\ {queue[i] : i \in 1..Len(queue)}
           = {Tail(queue)[i] : i \in 1..Len(Tail(queue))} \union {Head(queue)}
  BY <1>1, <1>2, TailQueue
<1>4. Len(Tail(queue)) \in Nat
  BY <1>3
<1>5. Len(Tail(queue)) <= QueueCap
  BY <1>1, <1>3, <1>4, CaptureAssumption
<1> QED
  BY <1>2, <1>3, <1>5 DEF Queued

LEMMA EnqueueFacts ==
  ASSUME TypeOK, NEW h \in Handler, Enqueue(h)
  PROVE  /\ queue' \in Seq(Handler) /\ Len(queue') <= QueueCap
         /\ Queued' \subseteq Queued \union {h}
         /\ Queued \subseteq Queued'
         /\ stop = "up" => h \in Queued'
<1>1. queue \in Seq(Handler) /\ Len(queue) <= QueueCap /\ Len(queue) \in Nat
  BY DEF TypeOK
<1>2. CASE Room /\ queue' = Append(queue, h)
  <2>1. /\ queue' \in Seq(Handler) /\ Len(queue') = Len(queue) + 1
        /\ Queued' = Queued \union {h}
    BY <1>1, <1>2, AppendQueue DEF Queued
  <2>2. Len(queue) < QueueCap
    BY <1>2 DEF Room
  <2>3. Len(queue') <= QueueCap
    BY <2>1, <2>2, <1>1, CaptureAssumption
  <2> QED
    BY <2>1, <2>3
<1>3. CASE QueueClosed /\ queue' = queue
  <2>1. Queued' = Queued
    BY <1>3 DEF Queued
  <2> QED
    BY <1>1, <1>3, <2>1 DEF QueueClosed
<1> QED
  BY <1>2, <1>3 DEF Enqueue

-----------------------------------------------------------------------------

LEMMA CInit == Init => CInv
<1> SUFFICES ASSUME Init PROVE CInv
  OBVIOUS
<1>1. queue = <<>>
  BY DEF Init
<1>2. queue \in Seq(Handler) /\ Len(queue) = 0
  BY <1>1
<1>3. Queued = {}
  BY <1>2 DEF Queued
<1>4. TypeOK
  <2>1. queue \in Seq(Handler) /\ Len(queue) <= QueueCap
    BY <1>2, CaptureAssumption
  <2> QED
    BY <2>1 DEF Init, TypeOK, Stages, Stops
<1>5. StageInv /\ RowInv /\ OriginalInv /\ NoOrphans /\ KeptUntilShutdown
  BY <1>3, CaptureAssumption
  DEF Init, StageInv, RowInv, OriginalInv, NoOrphans, KeptUntilShutdown, Written, Handler
<1> QED
  BY <1>4, <1>5 DEF CInv

Kept == StageInv /\ RowInv /\ OriginalInv /\ NoOrphans /\ KeptUntilShutdown

(* Every action keeps the types and the invariant.                          *)
LEMMA CStep == CInv /\ [Next]_vars => CInv'
<1> SUFFICES ASSUME CInv, [Next]_vars PROVE TypeOK' /\ Kept'
  BY DEF CInv, Kept
<1>0. TypeOK /\ Kept
  BY DEF CInv, Kept
<1>a. ASSUME queue' = queue PROVE Queued' = Queued
  BY <1>a DEF Queued
<1>q. queue \in Seq(Handler) /\ Len(queue) <= QueueCap
  BY <1>0 DEF TypeOK
<1> DEFINE QueueType == queue \in Seq(Handler) /\ Len(queue) <= QueueCap
           Rest == /\ stage \in [Handler -> Stages]
                   /\ target \in [Handler -> Tunnel \union {None}]
                   /\ original \in [Replay -> Request \union {None}]
                   /\ serving \in Tunnel \union {None}
                   /\ opened \subseteq Tunnel
                   /\ count \in [Tunnel -> Nat]
                   /\ requests \subseteq Request /\ replays \subseteq Replay
                   /\ row \in {"active", "ended", "old", "deleted"}
                   /\ round \in {"replays", "requests", "sessions"}
                   /\ writer \in {"running", "draining", "done"}
                   /\ stop \in Stops
                   /\ records \subseteq Handler
                   /\ ending \subseteq Tunnel
                   /\ resuming \in Tunnel \union {None}
                   /\ aged \in BOOLEAN /\ missed \subseteq Request
<1>r. Rest
  BY <1>0 DEF TypeOK
<1>k. StageInv /\ RowInv /\ OriginalInv /\ NoOrphans /\ KeptUntilShutdown
  BY <1>0 DEF Kept
<1>t. QueueType' /\ Rest' => TypeOK'
  BY DEF TypeOK
<1>u. ASSUME queue' = queue PROVE QueueType'
  BY <1>u, <1>q
<1> HIDE DEF QueueType
<1>1. ASSUME NEW h \in Handler, Route(h) PROVE TypeOK' /\ Kept'
  <2>1. queue' = queue
    BY <1>1 DEF Route
  <2>2. Queued' = Queued /\ QueueType'
    BY <2>1, <1>a, <1>u
  <2>3. Rest'
    BY <1>1, <1>r, CaptureAssumption DEF Route, life, Go, Stages, Stops, Handler
  <2>4. Kept'
    BY <1>1, <2>2, <1>r, <1>k, CaptureAssumption
    DEF Route,
        life, Go, Kept, StageInv, RowInv, OriginalInv, NoOrphans, KeptUntilShutdown, Written, Handler, Alive, DBOpen, Stages, Stops
  <2> QED
    BY <2>2, <2>3, <2>4, <1>t
<1>2. ASSUME NEW h \in Handler, Answer(h) PROVE TypeOK' /\ Kept'
  <2>1. queue' = queue
    BY <1>2 DEF Answer
  <2>2. Queued' = Queued /\ QueueType'
    BY <2>1, <1>a, <1>u
  <2>3. Rest'
    BY <1>2, <1>r, CaptureAssumption DEF Answer, life, Go, Stages, Stops, Handler
  <2>4. Kept'
    BY <1>2, <2>2, <1>r, <1>k, CaptureAssumption
    DEF Answer,
        life, Go, Kept, StageInv, RowInv, OriginalInv, NoOrphans, KeptUntilShutdown, Written, Handler, Alive, DBOpen, Stages, Stops
  <2> QED
    BY <2>2, <2>3, <2>4, <1>t
<1>3. ASSUME NEW h \in Handler, Fail(h) PROVE TypeOK' /\ Kept'
  <2>1. queue' = queue
    BY <1>3 DEF Fail
  <2>2. Queued' = Queued /\ QueueType'
    BY <2>1, <1>a, <1>u
  <2>3. Rest'
    BY <1>3, <1>r, CaptureAssumption DEF Fail, life, Go, Stages, Stops, Handler
  <2>4. Kept'
    BY <1>3, <2>2, <1>r, <1>k, CaptureAssumption
    DEF Fail,
        life, Go, Kept, StageInv, RowInv, OriginalInv, NoOrphans, KeptUntilShutdown, Written, Handler, Alive, DBOpen, Stages, Stops
  <2> QED
    BY <2>2, <2>3, <2>4, <1>t
<1>4. ASSUME NEW p \in Request, Capture(p) PROVE TypeOK' /\ Kept'
  <2>1. queue' = queue
    BY <1>4 DEF Capture
  <2>2. Queued' = Queued /\ QueueType'
    BY <2>1, <1>a, <1>u
  <2>3. /\ stage[p] = "answered"
        /\ \/ stage' = [stage EXCEPT ![p] = "done"] /\ records' = records
           \/ stage' = [stage EXCEPT ![p] = "queueing"] /\ records' = records \union {p}
        /\ UNCHANGED <<target, original, serving, opened, resuming, ending,
                       requests, replays, row, round, writer, stop, aged,
                       missed>>
    BY <1>4 DEF Capture, Go
  <2>4. count' \in [Tunnel -> Nat]
    <3>1. target[p] \in Tunnel
      BY <2>3, <1>r, <1>k DEF StageInv
    <3>2. count[target[p]] \in Nat /\ count' = [count EXCEPT ![target[p]] = @ + 1]
      BY <1>4, <3>1, <1>r DEF Capture
    <3> QED
      BY <3>1, <3>2, <1>r
  <2>5. p \in Handler /\ p \notin Replay
    BY CaptureAssumption DEF Handler
  <2>6. Rest'
    <3>1. stage' \in [Handler -> Stages]
      BY <2>3, <2>5, <1>r DEF Stages
    <3>2. records' \subseteq Handler
      BY <2>3, <2>5, <1>r
    <3>3. UNCHANGED <<target, original, serving, opened, resuming, ending,
                     requests, replays, row, round, writer, stop, aged, missed>>
      BY <2>3
    <3> QED
      BY <2>4, <3>1, <3>2, <3>3, <1>r
  <2>7. Kept'
    <3>1. /\ stage'[p] \in {"done", "queueing"}
          /\ stage'[p] = "queueing" \/ p \notin records'
          /\ \A h \in Handler : h # p => stage'[h] = stage[h]
          /\ records \subseteq records' /\ records' \subseteq records \union {p}
      BY <2>3, <2>5, <1>r, <1>k DEF StageInv
    <3>2. UNCHANGED <<target, original, serving, opened, resuming, ending,
                     requests, replays, row, round, writer, stop, aged, missed>>
      BY <2>3
    <3>3. StageInv'
      <4>1. p \notin Queued \union Written /\ p \notin records /\ target[p] \in opened
        BY <2>3, <1>k DEF StageInv
      <4>2. Queued' \union Written' = Queued \union Written
        BY <2>2, <3>2 DEF Written
      <4>3. \A h \in Queued' \union Written' : stage'[h] = "done"
        <5>1. Queued \union Written \subseteq Handler
          BY <1>r, <1>q, QueuedHandlers DEF Written, Handler
        <5> QED
          BY <3>1, <4>1, <4>2, <5>1, <1>k DEF StageInv
      <4>4. \A h \in records' : stage'[h] \in {"queueing", "done"}
        BY <3>1, <1>r, <1>k DEF StageInv
      <4>5. \A h \in Request : stage'[h] \in {"routed", "answered", "queueing"}
                               \/ h \in records' => target'[h] \in opened'
        BY <3>1, <3>2, <4>1, <1>k DEF StageInv, Handler
      <4> QED
        BY <3>2, <4>3, <4>4, <4>5, <1>k DEF StageInv
    <3>4. RowInv' /\ NoOrphans'
      BY <3>2, <1>k DEF RowInv, NoOrphans
    <3>5. OriginalInv'
      BY <2>5, <3>1, <3>2, <1>k DEF OriginalInv, Handler
    <3>6. KeptUntilShutdown'
      BY <2>2, <2>3, <2>5, <3>1, <3>2, <1>r, <1>k
      DEF KeptUntilShutdown, StageInv, Written, Handler
    <3> QED
      BY <3>3, <3>4, <3>5, <3>6 DEF Kept
  <2> QED
    BY <2>2, <2>6, <2>7, <1>t
<1>5. ASSUME NEW r \in Replay, CheckReplays(r) PROVE TypeOK' /\ Kept'
  <2>1. queue' = queue
    BY <1>5 DEF CheckReplays
  <2>2. Queued' = Queued /\ QueueType'
    BY <2>1, <1>a, <1>u
  <2>3. Rest'
    BY <1>5, <1>r, CaptureAssumption DEF CheckReplays, life, Go, Stages, Stops, Handler
  <2>4. Kept'
    BY <1>5, <2>2, <1>r, <1>k, CaptureAssumption
    DEF CheckReplays,
        life, Go, Kept, StageInv, RowInv, OriginalInv, NoOrphans, KeptUntilShutdown, Written, Handler, Alive, DBOpen, Stages, Stops
  <2> QED
    BY <2>2, <2>3, <2>4, <1>t
<1>6. ASSUME NEW r \in Replay, NEW p \in Request, LoadOriginal(r, p) PROVE TypeOK' /\ Kept'
  <2>1. queue' = queue
    BY <1>6 DEF LoadOriginal
  <2>2. Queued' = Queued /\ QueueType'
    BY <2>1, <1>a, <1>u
  <2>3. Rest'
    BY <1>6, <1>r, CaptureAssumption DEF LoadOriginal, life, Go, Stages, Stops, Handler
  <2>4. Kept'
    BY <1>6, <2>2, <1>r, <1>k, CaptureAssumption
    DEF LoadOriginal,
        life, Go, Kept, StageInv, RowInv, OriginalInv, NoOrphans, KeptUntilShutdown, Written, Handler, Alive, DBOpen, Stages, Stops
  <2> QED
    BY <2>2, <2>3, <2>4, <1>t
<1>7. ASSUME NEW t \in Tunnel, Resume(t) PROVE TypeOK' /\ Kept'
  <2>1. queue' = queue
    BY <1>7 DEF Resume
  <2>2. Queued' = Queued /\ QueueType'
    BY <2>1, <1>a, <1>u
  <2>3. Rest'
    <3>1. Cardinality(requests) \in Nat
      BY <1>r, CaptureAssumption, FS_Subset, FS_CardinalityType
    <3> QED
      BY <1>7, <3>1, <1>r DEF Resume, Counted, OnTheWay
  <2>4. Kept'
    BY <1>7, <2>2, <1>r, <1>k, CaptureAssumption
    DEF Resume,
        life, Go, Kept, StageInv, RowInv, OriginalInv, NoOrphans, KeptUntilShutdown, Written, Handler, Alive, DBOpen, Stages, Stops
  <2> QED
    BY <2>2, <2>3, <2>4, <1>t
<1>8. ASSUME SeesDone PROVE TypeOK' /\ Kept'
  <2>1. queue' = queue
    BY <1>8 DEF SeesDone
  <2>2. Queued' = Queued /\ QueueType'
    BY <2>1, <1>a, <1>u
  <2>3. Rest'
    BY <1>8, <1>r, CaptureAssumption DEF SeesDone, AfterDone, life, Go, Stages, Stops, Handler
  <2>4. Kept'
    BY <1>8, <2>2, <1>r, <1>k, CaptureAssumption
    DEF SeesDone, AfterDone,
        life, Go, Kept, StageInv, RowInv, OriginalInv, NoOrphans, KeptUntilShutdown, Written, Handler, Alive, DBOpen, Stages, Stops
  <2> QED
    BY <2>2, <2>3, <2>4, <1>t
<1>9. ASSUME Drained PROVE TypeOK' /\ Kept'
  <2>1. queue' = queue
    BY <1>9 DEF Drained
  <2>2. Queued' = Queued /\ QueueType'
    BY <2>1, <1>a, <1>u
  <2>3. Rest'
    BY <1>9, <1>r, CaptureAssumption DEF Drained, life, Go, Stages, Stops, Handler
  <2>4. Kept'
    BY <1>9, <2>2, <1>r, <1>k, CaptureAssumption
    DEF Drained,
        life, Go, Kept, StageInv, RowInv, OriginalInv, NoOrphans, KeptUntilShutdown, Written, Handler, Alive, DBOpen, Stages, Stops
  <2> QED
    BY <2>2, <2>3, <2>4, <1>t
<1>10. ASSUME PruneReplays PROVE TypeOK' /\ Kept'
  <2>1. queue' = queue
    BY <1>10 DEF PruneReplays
  <2>2. Queued' = Queued /\ QueueType'
    BY <2>1, <1>a, <1>u
  <2>3. Rest'
    BY <1>10, <1>r, CaptureAssumption DEF PruneReplays, PrunedReplays, life, Go, Stages, Stops, Handler
  <2>4. Kept'
    BY <1>10, <2>2, <1>r, <1>k, CaptureAssumption
    DEF PruneReplays, PrunedReplays,
        life, Go, Kept, StageInv, RowInv, OriginalInv, NoOrphans, KeptUntilShutdown, Written, Handler, Alive, DBOpen, Stages, Stops
  <2> QED
    BY <2>2, <2>3, <2>4, <1>t
<1>11. ASSUME PruneRequests PROVE TypeOK' /\ Kept'
  <2>1. queue' = queue
    BY <1>11 DEF PruneRequests
  <2>2. Queued' = Queued /\ QueueType'
    BY <2>1, <1>a, <1>u
  <2>3. Rest'
    BY <1>11, <1>r, CaptureAssumption DEF PruneRequests, life, Go, Stages, Stops, Handler
  <2>4. Kept'
    BY <1>11, <2>2, <1>r, <1>k, CaptureAssumption
    DEF PruneRequests,
        life, Go, Kept, StageInv, RowInv, OriginalInv, NoOrphans, KeptUntilShutdown, Written, Handler, Alive, DBOpen, Stages, Stops
  <2> QED
    BY <2>2, <2>3, <2>4, <1>t
<1>12. ASSUME PruneSession PROVE TypeOK' /\ Kept'
  <2>1. queue' = queue
    BY <1>12 DEF PruneSession
  <2>2. Queued' = Queued /\ QueueType'
    BY <2>1, <1>a, <1>u
  <2>3. Rest'
    BY <1>12, <1>r, CaptureAssumption DEF PruneSession, life, Go, Stages, Stops, Handler
  <2>4. Kept'
    BY <1>12, <2>2, <1>r, <1>k, CaptureAssumption
    DEF PruneSession,
        life, Go, Kept, StageInv, RowInv, OriginalInv, NoOrphans, KeptUntilShutdown, Written, Handler, Alive, DBOpen, Stages, Stops
  <2> QED
    BY <2>2, <2>3, <2>4, <1>t
<1>13. ASSUME HangUp PROVE TypeOK' /\ Kept'
  <2>1. queue' = queue
    BY <1>13 DEF HangUp
  <2>2. Queued' = Queued /\ QueueType'
    BY <2>1, <1>a, <1>u
  <2>3. Rest'
    BY <1>13, <1>r, CaptureAssumption DEF HangUp, life, Go, Stages, Stops, Handler
  <2>4. Kept'
    BY <1>13, <2>2, <1>r, <1>k, CaptureAssumption
    DEF HangUp,
        life, Go, Kept, StageInv, RowInv, OriginalInv, NoOrphans, KeptUntilShutdown, Written, Handler, Alive, DBOpen, Stages, Stops
  <2> QED
    BY <2>2, <2>3, <2>4, <1>t
<1>14. ASSUME Age PROVE TypeOK' /\ Kept'
  <2>1. queue' = queue
    BY <1>14 DEF Age
  <2>2. Queued' = Queued /\ QueueType'
    BY <2>1, <1>a, <1>u
  <2>3. Rest'
    BY <1>14, <1>r, CaptureAssumption DEF Age, life, Go, Stages, Stops, Handler
  <2>4. Kept'
    BY <1>14, <2>2, <1>r, <1>k, CaptureAssumption
    DEF Age,
        life, Go, Kept, StageInv, RowInv, OriginalInv, NoOrphans, KeptUntilShutdown, Written, Handler, Alive, DBOpen, Stages, Stops
  <2> QED
    BY <2>2, <2>3, <2>4, <1>t
<1>15. ASSUME Cancel PROVE TypeOK' /\ Kept'
  <2>1. queue' = queue
    BY <1>15 DEF Cancel
  <2>2. Queued' = Queued /\ QueueType'
    BY <2>1, <1>a, <1>u
  <2>3. Rest'
    BY <1>15, <1>r, CaptureAssumption DEF Cancel, life, Go, Stages, Stops, Handler
  <2>4. Kept'
    BY <1>15, <2>2, <1>r, <1>k, CaptureAssumption
    DEF Cancel,
        life, Go, Kept, StageInv, RowInv, OriginalInv, NoOrphans, KeptUntilShutdown, Written, Handler, Alive, DBOpen, Stages, Stops
  <2> QED
    BY <2>2, <2>3, <2>4, <1>t
<1>16. ASSUME Shutdown PROVE TypeOK' /\ Kept'
  <2>1. queue' = queue
    BY <1>16 DEF Shutdown
  <2>2. Queued' = Queued /\ QueueType'
    BY <2>1, <1>a, <1>u
  <2>3. Rest'
    BY <1>16, <1>r, CaptureAssumption DEF Shutdown, life, Go, Stages, Stops, Handler
  <2>4. Kept'
    BY <1>16, <2>2, <1>r, <1>k, CaptureAssumption
    DEF Shutdown,
        life, Go, Kept, StageInv, RowInv, OriginalInv, NoOrphans, KeptUntilShutdown, Written, Handler, Alive, DBOpen, Stages, Stops
  <2> QED
    BY <2>2, <2>3, <2>4, <1>t
<1>17. ASSUME CloseQueue PROVE TypeOK' /\ Kept'
  <2>1. queue' = queue
    BY <1>17 DEF CloseQueue
  <2>2. Queued' = Queued /\ QueueType'
    BY <2>1, <1>a, <1>u
  <2>3. Rest'
    BY <1>17, <1>r, CaptureAssumption DEF CloseQueue, life, Go, Stages, Stops, Handler
  <2>4. Kept'
    BY <1>17, <2>2, <1>r, <1>k, CaptureAssumption
    DEF CloseQueue,
        life, Go, Kept, StageInv, RowInv, OriginalInv, NoOrphans, KeptUntilShutdown, Written, Handler, Alive, DBOpen, Stages, Stops
  <2> QED
    BY <2>2, <2>3, <2>4, <1>t
<1>18. ASSUME CloseDB PROVE TypeOK' /\ Kept'
  <2>1. queue' = queue
    BY <1>18 DEF CloseDB
  <2>2. Queued' = Queued /\ QueueType'
    BY <2>1, <1>a, <1>u
  <2>3. Rest'
    BY <1>18, <1>r, CaptureAssumption DEF CloseDB, life, Go, Stages, Stops, Handler
  <2>4. Kept'
    BY <1>18, <2>2, <1>r, <1>k, CaptureAssumption
    DEF CloseDB,
        life, Go, Kept, StageInv, RowInv, OriginalInv, NoOrphans, KeptUntilShutdown, Written, Handler, Alive, DBOpen, Stages, Stops
  <2> QED
    BY <2>2, <2>3, <2>4, <1>t
<1>19. ASSUME NEW h \in Handler, Enqueue(h) PROVE TypeOK' /\ Kept'
  <2>1. /\ QueueType'
        /\ Queued' \subseteq Queued \union {h}
        /\ Queued \subseteq Queued'
        /\ stop = "up" => h \in Queued'
    BY <1>19, <1>0, EnqueueFacts DEF QueueType
  <2>2. /\ stage[h] = "queueing" /\ stage' = [stage EXCEPT ![h] = "done"]
        /\ UNCHANGED <<life, target, original, requests, replays, round, writer,
                       stop, records>>
    BY <1>19 DEF Enqueue, Go
  <2>3. Rest'
    BY <2>2, <1>r DEF life, Stages, Stops, Handler
  <2>4. Kept'
    BY <2>1, <2>2, <1>r, <1>k, CaptureAssumption
    DEF life, Kept, StageInv, RowInv, OriginalInv, NoOrphans, KeptUntilShutdown, Written, Handler
  <2> QED
    BY <2>1, <2>3, <2>4, <1>t
<1>20. ASSUME Write PROVE TypeOK' /\ Kept'
  <2> PICK h \in Handler : h = Head(queue)
    BY <1>20, <1>0, TakeFacts DEF Write
  <2>1. QueueType' /\ Queued = Queued' \union {h}
    BY <1>20, <1>0, TakeFacts DEF Write, QueueType
  <2>2. Insert(h)
    BY <1>20 DEF Write
  <2>3. UNCHANGED <<life, stage, target, original, round, writer, stop, records>>
    BY <1>20 DEF Write, Take
  <2>4. Rest'
    BY <2>2, <2>3, <1>r DEF life, Insert
  <2>5. Kept'
    BY <2>1, <2>2, <2>3, <1>r, <1>k, CaptureAssumption
    DEF Insert, Referenced,
        life, Kept, StageInv, RowInv, OriginalInv, NoOrphans, KeptUntilShutdown, Written, Handler
  <2> QED
    BY <2>1, <2>4, <2>5, <1>t
<1>21. ASSUME WriteCancelled PROVE TypeOK' /\ Kept'
  <2>1. QueueType' /\ Queued' \subseteq Queued
    BY <1>21, <1>0, TakeFacts DEF WriteCancelled, QueueType
  <2>2. /\ stop # "up"
        /\ UNCHANGED <<life, stage, target, original, requests, replays, round,
                       writer, stop, records>>
    BY <1>21 DEF WriteCancelled, Take
  <2>3. Rest'
    BY <2>2, <1>r DEF life
  <2>4. Kept'
    BY <2>1, <2>2, <1>r, <1>k, CaptureAssumption
    DEF life, Kept, StageInv, RowInv, OriginalInv, NoOrphans, KeptUntilShutdown, Written, Handler
  <2> QED
    BY <2>1, <2>3, <2>4, <1>t
<1>22. ASSUME Exit PROVE TypeOK' /\ Kept'
  <2>1. queue' = <<>>
    BY <1>22 DEF Exit
  <2>2. queue' \in Seq(Handler) /\ Len(queue') = 0
    BY <2>1
  <2>3. QueueType' /\ Queued' = {}
    BY <2>2, CaptureAssumption DEF QueueType, Queued
  <2>4. /\ stop' = "exited"
        /\ UNCHANGED <<life, stage, target, original, requests, replays, round,
                       writer, records>>
    BY <1>22 DEF Exit
  <2>5. Rest'
    BY <2>4, <1>r DEF life, Stops
  <2>6. Kept'
    BY <2>3, <2>4, <1>r, <1>k, CaptureAssumption
    DEF life, Kept, StageInv, RowInv, OriginalInv, NoOrphans, KeptUntilShutdown, Written, Handler
  <2> QED
    BY <2>3, <2>5, <2>6, <1>t
<1>24. ASSUME NEW t \in Tunnel, EndSession(t) PROVE TypeOK' /\ Kept'
  <2>1. queue' = queue
    BY <1>24 DEF EndSession
  <2>2. Queued' = Queued /\ QueueType'
    BY <2>1, <1>a, <1>u
  <2>3. Rest'
    BY <1>24, <1>r, CaptureAssumption DEF EndSession, life, Go, Stages, Stops, Handler
  <2>4. Kept'
    BY <1>24, <2>2, <1>r, <1>k, CaptureAssumption
    DEF EndSession,
        life, Go, Kept, StageInv, RowInv, OriginalInv, NoOrphans, KeptUntilShutdown, Written, Handler, Alive, DBOpen, Stages, Stops
  <2> QED
    BY <2>2, <2>3, <2>4, <1>t
<1>25. ASSUME Install PROVE TypeOK' /\ Kept'
  <2>1. queue' = queue
    BY <1>25 DEF Install
  <2>2. Queued' = Queued /\ QueueType'
    BY <2>1, <1>a, <1>u
  <2>3. Rest'
    BY <1>25, <1>r, CaptureAssumption DEF Install, life, Go, Stages, Stops, Handler
  <2>4. Kept'
    BY <1>25, <2>2, <1>r, <1>k, CaptureAssumption
    DEF Install,
        life, Go, Kept, StageInv, RowInv, OriginalInv, NoOrphans, KeptUntilShutdown, Written, Handler, Alive, DBOpen, Stages, Stops
  <2> QED
    BY <2>2, <2>3, <2>4, <1>t
<1>23. ASSUME UNCHANGED vars PROVE TypeOK' /\ Kept'
  <2>1. queue' = queue
    BY <1>23 DEF vars
  <2>2. Queued' = Queued /\ QueueType'
    BY <2>1, <1>a, <1>u
  <2>3. Rest'
    BY <1>23, <1>r DEF vars, life
  <2>4. Kept'
    BY <1>23, <2>2, <1>k
    DEF vars, life, Kept, StageInv, RowInv, OriginalInv, NoOrphans, KeptUntilShutdown, Written
  <2> QED
    BY <2>2, <2>3, <2>4, <1>t
<1> QED
  BY <1>1, <1>2, <1>3, <1>4, <1>5, <1>6, <1>7, <1>8, <1>9, <1>10, <1>11, <1>12, <1>13, <1>14, <1>15, <1>16, <1>17, <1>18, <1>19, <1>20, <1>21, <1>22, <1>23, <1>24, <1>25
  DEF Next, WriterStep, PruneStep

LEMMA CaptureInvariant == Spec => []CInv
<1>1. Init => CInv
  BY CInit
<1>2. CInv /\ [Next]_vars => CInv'
  BY CStep
<1> QED
  BY <1>1, <1>2, PTL DEF Spec

-----------------------------------------------------------------------------
(* The limit of the session.  Fresh holds the requests with a record, not   *)
(* in missed, that may be or become rows.  The counter of one tunnel stands *)
(* for all of them: of the latest one, or of the one that is being resumed. *)

Pending == {p \in Request : stage[p] \in {"routed", "answered"}}

Fresh == {p \in Request : \/ stage[p] = "queueing"
                          \/ p \in Queued \union requests} \ missed

LimitInv ==
  /\ Cardinality(Fresh) <= CaptureLimit
  /\ resuming # None =>
       Cardinality(Fresh) <= count[resuming] /\ Pending \subseteq missed
  /\ resuming = None =>
       \E t \in Tunnel : /\ serving # None => serving = t
                         /\ Cardinality(Fresh) <= count[t]
                         /\ \A p \in Pending \ missed : target[p] = t

LEMMA OneMoreFresh ==
  ASSUME NEW S, IsFiniteSet(S), NEW p
  PROVE  /\ Cardinality(S \union {p}) \in Nat
         /\ Cardinality(S \union {p}) <= Cardinality(S) + 1
<1>1. Cardinality(S) \in Nat
  BY FS_CardinalityType
<1>2. CASE p \in S
  <2>1. S \union {p} = S
    BY <1>2
  <2>2. Cardinality(S \union {p}) = Cardinality(S)
    BY <2>1
  <2> QED
    BY <1>1, <2>2
<1>3. CASE p \notin S
  <2>1. Cardinality(S \union {p}) = Cardinality(S) + 1
    BY <1>3, FS_AddElement, Zenon
  <2> QED
    BY <1>1, <2>1
<1> QED
  BY <1>2, <1>3

LEMMA FreshSmaller ==
  ASSUME Fresh' \subseteq Fresh
  PROVE  /\ Cardinality(Fresh) \in Nat /\ Cardinality(Fresh') \in Nat
         /\ Cardinality(Fresh') <= Cardinality(Fresh)
<1>1. Fresh \subseteq Request
  BY DEF Fresh
<1>2. IsFiniteSet(Fresh) /\ Cardinality(Fresh) \in Nat
  BY <1>1, CaptureAssumption, FS_Subset, FS_CardinalityType
<1>3. /\ IsFiniteSet(Fresh') /\ Cardinality(Fresh') \in Nat
      /\ Cardinality(Fresh') <= Cardinality(Fresh)
  BY <1>2, FS_Subset, FS_CardinalityType
<1> QED
  BY <1>2, <1>3

(* Most steps make no record of a public request, route none, and lower no  *)
(* counter.                                                                 *)
LEMMA LimitKept ==
  ASSUME TypeOK, LimitInv, Fresh' \subseteq Fresh,
         \A u \in Tunnel : count'[u] \in Nat /\ count[u] <= count'[u],
         Pending' \ missed' \subseteq Pending \ missed,
         resuming' = resuming, target' = target,
         serving' = serving \/ serving' = None
  PROVE  LimitInv'
<1>1. /\ Cardinality(Fresh) \in Nat /\ Cardinality(Fresh') \in Nat
      /\ Cardinality(Fresh') <= Cardinality(Fresh)
  BY FreshSmaller
<1>2. \A u \in Tunnel : /\ count[u] \in Nat
                        /\ Cardinality(Fresh) <= count[u] =>
                             Cardinality(Fresh') <= count'[u]
  BY <1>1 DEF TypeOK
<1>3. Cardinality(Fresh') <= CaptureLimit
  BY <1>1, CaptureAssumption DEF LimitInv
<1>4. CASE resuming # None
  <2>1. resuming \in Tunnel /\ Pending' \subseteq missed'
    BY <1>4 DEF LimitInv, TypeOK
  <2> QED
    BY <1>2, <1>3, <1>4, <2>1 DEF LimitInv
<1>5. CASE resuming = None
  <2>1. PICK t \in Tunnel : /\ serving # None => serving = t
                            /\ Cardinality(Fresh) <= count[t]
                            /\ \A p \in Pending \ missed : target[p] = t
    BY <1>5 DEF LimitInv
  <2>2. /\ serving' # None => serving' = t
        /\ Cardinality(Fresh') <= count'[t]
        /\ \A p \in Pending' \ missed' : target'[p] = t
    BY <1>2, <2>1
  <2> QED
    BY <1>3, <1>5, <2>2 DEF LimitInv
<1> QED
  BY <1>4, <1>5

LEMMA LimitInit == Init => LimitInv
<1> SUFFICES ASSUME Init PROVE LimitInv
  OBVIOUS
<1>1. Queued = {}
  BY DEF Init, Queued
<1>2. Fresh = {} /\ Pending = {}
  BY <1>1 DEF Init, Fresh, Pending, Handler
<1>3. Cardinality(Fresh) = 0
  BY <1>2, FS_EmptySet
<1>4. serving \in Tunnel /\ count[serving] = 0 /\ resuming = None
  BY DEF Init
<1> QED
  BY <1>2, <1>3, <1>4, CaptureAssumption DEF LimitInv

(* A request that passes the counter: it was missed by the last resume, or  *)
(* came through the tunnel whose counter stands for all.                    *)
LEMMA LimitCapture ==
  ASSUME CInv, LimitInv, NEW p \in Request, Capture(p)
  PROVE  LimitInv'
<1>0. TypeOK /\ StageInv
  BY DEF CInv
<1>1. target[p] \in Tunnel /\ count[target[p]] \in Nat /\ p \in Pending
  BY <1>0 DEF Capture, StageInv, TypeOK, Pending
<1>2. /\ count' = [count EXCEPT ![target[p]] = @ + 1]
      /\ UNCHANGED <<target, serving, resuming, queue, requests, missed>>
  BY DEF Capture
<1>3. /\ \A u \in Tunnel : count'[u] \in Nat /\ count[u] <= count'[u]
      /\ count'[target[p]] = count[target[p]] + 1
  BY <1>0, <1>1, <1>2 DEF TypeOK
<1>4. \A q \in Request : q # p => stage'[q] = stage[q]
  BY <1>0 DEF Capture, Go, TypeOK, Handler
<1>5. Pending' \ missed' \subseteq Pending \ missed
  BY <1>1, <1>2, <1>4 DEF Pending
<1>6. Queued' = Queued
  BY <1>2 DEF Queued
<1>7. CASE p \in missed \/ stage'[p] = "done"
  <2>1. Fresh' \subseteq Fresh
    BY <1>2, <1>4, <1>6, <1>7 DEF Fresh
  <2> QED
    BY <1>0, <1>2, <1>3, <1>5, <2>1, LimitKept
<1>8. CASE p \notin missed /\ stage'[p] # "done"
  <2>1. ~OverLimit(count[target[p]] + 1)
    BY <1>0, <1>8 DEF Capture, Go, TypeOK, Handler
  <2>2. count[target[p]] + 1 <= CaptureLimit
    BY <1>1, <2>1, CaptureAssumption DEF OverLimit
  <2>3. resuming = None
    BY <1>1, <1>8 DEF LimitInv
  <2>4. PICK t \in Tunnel : /\ serving # None => serving = t
                            /\ Cardinality(Fresh) <= count[t]
                            /\ \A q \in Pending \ missed : target[q] = t
    BY <2>3 DEF LimitInv
  <2>5. t = target[p]
    BY <1>1, <1>8, <2>4
  <2>6. Fresh \subseteq Request /\ Fresh' \subseteq Fresh \union {p}
    BY <1>2, <1>4, <1>6 DEF Fresh
  <2>7. /\ IsFiniteSet(Fresh) /\ Cardinality(Fresh) \in Nat
        /\ IsFiniteSet(Fresh \union {p})
    BY <2>6, CaptureAssumption, FS_Subset, FS_CardinalityType, FS_AddElement
  <2>8. Cardinality(Fresh \union {p}) \in Nat
        /\ Cardinality(Fresh \union {p}) <= Cardinality(Fresh) + 1
    BY <2>7, OneMoreFresh
  <2>9. Cardinality(Fresh') \in Nat
        /\ Cardinality(Fresh') <= Cardinality(Fresh \union {p})
    BY <2>6, <2>7, FS_Subset, FS_CardinalityType
  <2>10. /\ Cardinality(Fresh') <= CaptureLimit
         /\ Cardinality(Fresh') <= count'[t]
    BY <1>1, <1>3, <2>2, <2>4, <2>5, <2>7, <2>8, <2>9, CaptureAssumption
  <2>11. /\ serving' # None => serving' = t
         /\ \A q \in Pending' \ missed' : target'[q] = t
    BY <1>2, <1>5, <2>4
  <2> QED
    BY <1>2, <2>3, <2>10, <2>11 DEF LimitInv
<1> QED
  BY <1>7, <1>8

(* A resume: what is on its way is missed, so only rows are left, and the   *)
(* counter holds all of them.                                               *)
LEMMA LimitResume ==
  ASSUME CInv, LimitInv, NEW t \in Tunnel, Resume(t)
  PROVE  LimitInv'
<1>0. TypeOK
  BY DEF CInv
<1>1. /\ resuming = None
      /\ UNCHANGED <<stage, target, serving, queue, requests>>
  BY DEF Resume
<1>2. Queued' = Queued
  BY <1>1 DEF Queued
<1>3. CASE UNCHANGED <<resuming, count, missed>>
  <2>1. Fresh' \subseteq Fresh /\ Pending' \ missed' \subseteq Pending \ missed
    BY <1>1, <1>2, <1>3 DEF Fresh, Pending
  <2>2. \A u \in Tunnel : count'[u] \in Nat /\ count[u] <= count'[u]
    BY <1>0, <1>3 DEF TypeOK
  <2> QED
    BY <1>0, <1>1, <1>3, <2>1, <2>2, LimitKept
<1>4. CASE /\ resuming' = t
           /\ count' = [count EXCEPT ![t] = Counted]
           /\ missed' = missed \union OnTheWay
  <2>1. Fresh' \subseteq Fresh /\ Fresh' \subseteq requests
    BY <1>1, <1>2, <1>4 DEF Fresh, OnTheWay
  <2>2. /\ Cardinality(Fresh) \in Nat /\ Cardinality(Fresh') \in Nat
        /\ Cardinality(Fresh') <= Cardinality(Fresh)
    BY <2>1, FreshSmaller
  <2>3. IsFiniteSet(requests)
    BY <1>0, CaptureAssumption, FS_Subset DEF TypeOK
  <2>4. Cardinality(Fresh') <= Cardinality(requests)
    BY <2>1, <2>3, FS_Subset
  <2>5. count'[t] = Cardinality(requests)
    BY <1>0, <1>4 DEF TypeOK, Counted
  <2>6. Pending' \subseteq missed'
    BY <1>1, <1>4 DEF Pending, OnTheWay
  <2>7. Cardinality(Fresh') <= CaptureLimit
    BY <2>2, CaptureAssumption DEF LimitInv
  <2> QED
    BY <1>4, <2>4, <2>5, <2>6, <2>7, CaptureAssumption DEF LimitInv
<1> QED
  BY <1>3, <1>4 DEF Resume

LEMMA LimitInstall ==
  ASSUME CInv, LimitInv, Install
  PROVE  LimitInv'
<1>1. /\ resuming \in Tunnel /\ resuming' = None /\ serving' = resuming
      /\ UNCHANGED <<stage, target, count, queue, requests, missed>>
  BY DEF Install, CInv, TypeOK
<1>2. Queued' = Queued
  BY <1>1 DEF Queued
<1>3. Fresh' = Fresh /\ Pending' = Pending
  BY <1>1, <1>2 DEF Fresh, Pending
<1>4. /\ Cardinality(Fresh) <= CaptureLimit
      /\ Cardinality(Fresh) <= count[resuming] /\ Pending \subseteq missed
  BY <1>1, CaptureAssumption DEF LimitInv
<1>5. /\ Cardinality(Fresh') <= CaptureLimit
      /\ Cardinality(Fresh') <= count'[resuming] /\ Pending' \ missed' = {}
  BY <1>1, <1>3, <1>4
<1> QED
  BY <1>1, <1>5 DEF LimitInv

(* A request is routed to the tunnel that serves, or is missed.             *)
LEMMA LimitRoute ==
  ASSUME CInv, LimitInv, NEW h \in Handler, Route(h)
  PROVE  LimitInv'
<1>0. TypeOK
  BY DEF CInv
<1>1. /\ serving # None /\ stage'[h] = "routed" /\ target'[h] = serving
      /\ \A q \in Handler : q # h => stage'[q] = stage[q] /\ target'[q] = target[q]
      /\ missed' = IF resuming # None /\ h \in Request THEN missed \union {h} ELSE missed
      /\ UNCHANGED <<serving, resuming, count, queue, requests>>
  BY <1>0 DEF Route, Go, TypeOK
<1>2. Queued' = Queued
  BY <1>1 DEF Queued
<1>3. Fresh' \subseteq Fresh
  BY <1>1, <1>2 DEF Fresh, Handler
<1>4. /\ Cardinality(Fresh) \in Nat /\ Cardinality(Fresh') \in Nat
      /\ Cardinality(Fresh') <= Cardinality(Fresh)
  BY <1>3, FreshSmaller
<1>5. \A u \in Tunnel : /\ count[u] \in Nat
                        /\ Cardinality(Fresh) <= count[u] =>
                             Cardinality(Fresh') <= count'[u]
  BY <1>0, <1>1, <1>4 DEF TypeOK
<1>6. Cardinality(Fresh') <= CaptureLimit
  BY <1>4, CaptureAssumption DEF LimitInv
<1>7. Pending' \subseteq Pending \union ({h} \intersect Request)
  BY <1>1 DEF Pending, Handler
<1>8. CASE resuming # None
  <2>1. Pending' \subseteq missed'
    BY <1>1, <1>7, <1>8 DEF LimitInv
  <2>2. resuming \in Tunnel /\ Cardinality(Fresh) <= count[resuming]
    BY <1>0, <1>8 DEF TypeOK, LimitInv
  <2> QED
    BY <1>1, <1>5, <1>6, <1>8, <2>1, <2>2 DEF LimitInv
<1>9. CASE resuming = None
  <2>1. PICK t \in Tunnel : /\ serving # None => serving = t
                            /\ Cardinality(Fresh) <= count[t]
                            /\ \A q \in Pending \ missed : target[q] = t
    BY <1>9 DEF LimitInv
  <2>2. \A q \in Pending' \ missed' : target'[q] = t
    BY <1>1, <1>7, <1>9, <2>1 DEF Pending, Handler
  <2>3. serving' = t /\ Cardinality(Fresh') <= count'[t]
    BY <1>1, <1>5, <2>1
  <2> QED
    BY <1>1, <1>6, <1>9, <2>2, <2>3 DEF LimitInv
<1> QED
  BY <1>8, <1>9

LEMMA LimitStep == CInv /\ LimitInv /\ [Next]_vars => LimitInv'
<1> SUFFICES ASSUME CInv, LimitInv, [Next]_vars PROVE LimitInv'
  OBVIOUS
<1>0. TypeOK
  BY DEF CInv
<1>a. ASSUME queue' = queue PROVE Queued' = Queued
  BY <1>a DEF Queued
<1>b. ASSUME UNCHANGED <<target, count, resuming, missed>>,
             serving' = serving \/ serving' = None,
             Fresh' \subseteq Fresh, Pending' \subseteq Pending
      PROVE  LimitInv'
  <2>1. \A u \in Tunnel : count'[u] \in Nat /\ count[u] <= count'[u]
    BY <1>0, <1>b DEF TypeOK
  <2> QED
    BY <1>0, <1>b, <2>1, LimitKept
<1>1. ASSUME NEW h \in Handler, Answer(h) \/ Fail(h) PROVE LimitInv'
  <2>1. /\ UNCHANGED <<life, target, queue, requests>>
        /\ \A q \in Handler : q # h => stage'[q] = stage[q]
        /\ h \in Request => /\ stage'[h] \in {"answered", "done"}
                            /\ stage'[h] = "answered" => stage[h] = "routed"
    BY <1>0, <1>1, CaptureAssumption DEF Answer, Fail, Go, TypeOK, Handler
  <2>2. Fresh' \subseteq Fresh /\ Pending' \subseteq Pending
    BY <1>a, <2>1 DEF life, Fresh, Pending, Handler
  <2> QED
    BY <1>b, <2>1, <2>2 DEF life
<1>2. ASSUME NEW h \in Handler, Enqueue(h) PROVE LimitInv'
  <2>1. /\ UNCHANGED <<life, target, requests>> /\ stage[h] = "queueing"
        /\ \A q \in Handler : q # h => stage'[q] = stage[q]
        /\ stage'[h] = "done"
    BY <1>0, <1>2 DEF Enqueue, Go, TypeOK
  <2>2. Queued' \subseteq Queued \union {h}
    BY <1>0, <1>2, EnqueueFacts
  <2>3. Fresh' \subseteq Fresh /\ Pending' \subseteq Pending
    BY <2>1, <2>2 DEF life, Fresh, Pending, Handler
  <2> QED
    BY <1>b, <2>1, <2>3 DEF life
<1>3. ASSUME NEW r \in Replay,
             CheckReplays(r) \/ \E p \in Request : LoadOriginal(r, p)
      PROVE  LimitInv'
  <2>1. /\ UNCHANGED <<life, target, queue, requests>>
        /\ \A q \in Request : stage'[q] = stage[q]
    BY <1>0, <1>3, CaptureAssumption DEF CheckReplays, LoadOriginal, Go, TypeOK, Handler
  <2>2. Fresh' \subseteq Fresh /\ Pending' \subseteq Pending
    BY <1>a, <2>1 DEF life, Fresh, Pending
  <2> QED
    BY <1>b, <2>1, <2>2 DEF life
<1>4. CASE Write \/ WriteCancelled
  <2>1. /\ Queued = Queued' \union {Head(queue)}
        /\ UNCHANGED <<life, stage, target>>
    BY <1>0, <1>4, TakeFacts DEF Write, WriteCancelled, Take
  <2>2. requests' \subseteq requests \union {Head(queue)}
    BY <1>4 DEF Write, WriteCancelled, Insert
  <2>3. Fresh' \subseteq Fresh /\ Pending' \subseteq Pending
    BY <2>1, <2>2 DEF life, Fresh, Pending
  <2> QED
    BY <1>b, <2>1, <2>3 DEF life
<1>5. ASSUME requests' \subseteq requests, UNCHANGED <<stage, target, queue>>,
             UNCHANGED <<count, resuming, missed>>,
             serving' = serving \/ serving' = None
      PROVE  LimitInv'
  <2>1. Fresh' \subseteq Fresh /\ Pending' \subseteq Pending
    BY <1>a, <1>5 DEF Fresh, Pending
  <2> QED
    BY <1>b, <1>5, <2>1
<1>6. CASE SeesDone \/ Drained \/ PruneStep
  BY <1>5, <1>6
  DEF SeesDone, Drained, PruneStep, PruneReplays, PruneRequests, PruneSession, life
<1>7. CASE HangUp \/ Age \/ \E t \in Tunnel : EndSession(t)
  BY <1>5, <1>7 DEF HangUp, Age, EndSession
<1>8. CASE Cancel \/ Shutdown \/ CloseQueue \/ CloseDB
  BY <1>5, <1>8 DEF Cancel, Shutdown, CloseQueue, CloseDB, life
<1>9. CASE Exit
  <2>1. Queued' = {} /\ UNCHANGED <<life, stage, target, requests>>
    BY <1>9 DEF Exit, Queued
  <2>2. Fresh' \subseteq Fresh /\ Pending' \subseteq Pending
    BY <2>1 DEF life, Fresh, Pending
  <2> QED
    BY <1>b, <2>1, <2>2 DEF life
<1>10. CASE UNCHANGED vars
  BY <1>5, <1>10 DEF vars, life
<1> QED
  BY <1>1, <1>2, <1>3, <1>4, <1>6, <1>7, <1>8, <1>9, <1>10,
     LimitRoute, LimitCapture, LimitResume, LimitInstall
  DEF Next, WriterStep

-----------------------------------------------------------------------------

(* Every variable of the capture store has its type, and the queue never    *)
(* exceeds its capacity.                                                    *)
THEOREM CaptureTypes == Spec => []TypeOK
<1>1. CInv => TypeOK
  BY DEF CInv
<1> QED
  BY <1>1, CaptureInvariant, PTL

(* The rows of a session pass the limit (http.go line 220) by at most the   *)
(* requests that a resume missed, in any number of resumes.                 *)
THEOREM CapturesOfSession == Spec => []SessionCaptureLimit
<1>1. Init => LimitInv
  BY LimitInit
<1>2. CInv /\ LimitInv /\ [Next]_vars => LimitInv'
  BY LimitStep
<1>3. TypeOK /\ LimitInv => SessionCaptureLimit
  <2> SUFFICES ASSUME TypeOK, LimitInv PROVE SessionCaptureLimit
    OBVIOUS
  <2>1. Fresh \subseteq Request /\ requests \ missed \subseteq Fresh
    BY DEF Fresh, TypeOK
  <2>2. IsFiniteSet(Fresh)
    BY <2>1, CaptureAssumption, FS_Subset
  <2>3. /\ Cardinality(Fresh) \in Nat /\ Cardinality(requests \ missed) \in Nat
        /\ Cardinality(requests \ missed) <= Cardinality(Fresh)
    BY <2>1, <2>2, FS_Subset, FS_CardinalityType
  <2> QED
    BY <2>3, CaptureAssumption DEF LimitInv, SessionCaptureLimit
<1>4. CInv => TypeOK
  BY DEF CInv
<1> QED
  BY <1>1, <1>2, <1>3, <1>4, CaptureInvariant, PTL DEF Spec

(* Late inserts and the three deletions of the retention loop leave no      *)
(* replay without its request and no request without its session.           *)
THEOREM RowsHaveOwners == Spec => []NoOrphans
<1>1. CInv => NoOrphans
  BY DEF CInv
<1> QED
  BY <1>1, CaptureInvariant, PTL

(* While the server runs and the session is not old, every record is on its *)
(* way to its table or in it.                                               *)
THEOREM RecordsKept == Spec => []KeptUntilShutdown
<1>1. CInv => KeptUntilShutdown
  BY DEF CInv
<1> QED
  BY <1>1, CaptureInvariant, PTL

-----------------------------------------------------------------------------
(* How far replays can pass the limit.                                      *)

Reserved == Overlapping \union replays

OvershootInv(k) ==
  IsFiniteSet(Reserved) /\ Cardinality(Reserved) <= ReplayLimit + k - 1

LEMMA SmallerReserve ==
  ASSUME NEW k \in Nat \ {0}, OvershootInv(k), Reserved' \subseteq Reserved
  PROVE  OvershootInv(k)'
<1>1. IsFiniteSet(Reserved') /\ Cardinality(Reserved') <= Cardinality(Reserved)
  BY FS_Subset DEF OvershootInv
<1>2. Cardinality(Reserved') \in Nat /\ Cardinality(Reserved) \in Nat
  BY <1>1, FS_CardinalityType DEF OvershootInv
<1> QED
  BY <1>1, <1>2, CaptureAssumption DEF OvershootInv

(* Only the count itself reserves a place.                                  *)
LEMMA ReserveStep ==
  ASSUME CInv, [Next]_vars,
         \A r \in Replay : CheckReplays(r) => stage'[r] # "allowed"
  PROVE  Reserved' \subseteq Reserved
<1>0. TypeOK
  BY DEF CInv
<1>a. ASSUME queue' = queue PROVE Queued' = Queued
  BY <1>a DEF Queued
<1>1. CASE UNCHANGED <<stage, queue, replays>>
  BY <1>1, <1>a DEF Reserved, Overlapping
<1>2. ASSUME NEW h \in Handler, Route(h) \/ Answer(h) \/ Fail(h)
      PROVE  Reserved' \subseteq Reserved
  <2>1. UNCHANGED <<queue, replays>>
    BY <1>2 DEF Route, Answer, Fail
  <2>2. \A d \in Handler : d # h => stage'[d] = stage[d]
    BY <1>0, <1>2 DEF Route, Answer, Fail, Go, TypeOK
  <2>3. h \in Replay => stage[h] \in {"allowed", "routed"}
    BY <1>2, CaptureAssumption DEF Route, Answer, Fail
  <2> QED
    BY <1>a, <2>1, <2>2, <2>3 DEF Reserved, Overlapping, Handler
<1>3. ASSUME NEW h \in Handler, Enqueue(h)
      PROVE  Reserved' \subseteq Reserved
  <2>1. UNCHANGED replays /\ stage[h] = "queueing"
    BY <1>3 DEF Enqueue
  <2>2. \A d \in Handler : d # h => stage'[d] = stage[d]
    BY <1>0, <1>3 DEF Enqueue, Go, TypeOK
  <2>3. Queued' \subseteq Queued \union {h}
    BY <1>0, <1>3, EnqueueFacts
  <2> QED
    BY <2>1, <2>2, <2>3 DEF Reserved, Overlapping, Handler
<1>4. ASSUME NEW p \in Request, Capture(p)
      PROVE  Reserved' \subseteq Reserved
  <2>1. UNCHANGED <<queue, replays>>
    BY <1>4 DEF Capture
  <2>2. \A d \in Replay : stage'[d] = stage[d]
    BY <1>0, <1>4, CaptureAssumption DEF Capture, Go, TypeOK, Handler
  <2> QED
    BY <1>a, <2>1, <2>2 DEF Reserved, Overlapping
<1>5. ASSUME NEW r \in Replay,
             CheckReplays(r) \/ \E p \in Request : LoadOriginal(r, p)
      PROVE  Reserved' \subseteq Reserved
  <2>1. UNCHANGED <<queue, replays>>
    BY <1>5 DEF CheckReplays, LoadOriginal
  <2>2. /\ \A d \in Replay : d # r => stage'[d] = stage[d]
        /\ stage'[r] \in {"loaded", "done"}
    BY <1>0, <1>5 DEF CheckReplays, LoadOriginal, Go, TypeOK, Handler
  <2> QED
    BY <1>a, <2>1, <2>2 DEF Reserved, Overlapping
<1>6. CASE Write \/ WriteCancelled
  <2>1. Queued = Queued' \union {Head(queue)} /\ UNCHANGED stage
    BY <1>0, <1>6, TakeFacts DEF Write, WriteCancelled, Take
  <2>2. replays' \subseteq replays \union ({Head(queue)} \intersect Replay)
    BY <1>6 DEF Write, WriteCancelled, Insert
  <2> QED
    BY <2>1, <2>2 DEF Reserved, Overlapping
<1>7. CASE PruneReplays
  BY <1>7, <1>a DEF PruneReplays, PrunedReplays, Reserved, Overlapping
<1>8. CASE Exit
  <2>1. Queued' = {} /\ UNCHANGED <<stage, replays>>
    BY <1>8 DEF Exit, Queued
  <2> QED
    BY <2>1 DEF Reserved, Overlapping
<1> QED
  BY <1>1, <1>2, <1>3, <1>4, <1>5, <1>6, <1>7, <1>8
  DEF Next, vars, WriterStep, PruneStep, SeesDone, Drained, PruneRequests,
      PruneSession, HangUp, EndSession, Resume, Install, Age, Cancel, Shutdown, CloseQueue, CloseDB

(* A replay that the count lets through makes one more at most, and what is *)
(* stored is below the limit then.                                          *)
LEMMA CountedReserve ==
  ASSUME CInv, NEW k \in Nat \ {0}, OvershootInv(k), Overlap(k)',
         NEW r \in Replay, CheckReplays(r), stage'[r] = "allowed"
  PROVE  OvershootInv(k)'
<1>0. TypeOK
  BY DEF CInv
<1>1. UNCHANGED <<queue, replays>> /\ Cardinality(replays) < ReplayLimit
  <2>1. IsFiniteSet(replays)
    BY FS_Subset DEF OvershootInv, Reserved
  <2>2. Cardinality(replays) \in Nat
    BY <2>1, FS_CardinalityType
  <2>3. ~(Cardinality(replays) >= ReplayLimit)
    BY <1>0 DEF CheckReplays, Go, TypeOK, Handler
  <2> QED
    BY <2>2, <2>3, CaptureAssumption DEF CheckReplays
<1>2. \A d \in Replay : d # r => stage'[d] = stage[d]
  BY <1>0 DEF CheckReplays, Go, TypeOK, Handler
<1>3. Queued' = Queued
  BY <1>1 DEF Queued
<1>4. Overlapping' \subseteq Overlapping \union {r}
  BY <1>2, <1>3 DEF Overlapping
<1>5. IsFiniteSet(Overlapping) /\ IsFiniteSet(replays)
  BY FS_Subset DEF OvershootInv, Reserved
<1>6. IsFiniteSet(Overlapping')
  BY <1>4, <1>5, FS_AddElement, FS_Subset
<1>7. /\ IsFiniteSet(Overlapping' \union replays)
      /\ Cardinality(Overlapping' \union replays)
           = Cardinality(Overlapping') + Cardinality(replays)
               - Cardinality(Overlapping' \intersect replays)
  BY <1>5, <1>6, FS_Union
<1>8. IsFiniteSet(Overlapping' \intersect replays)
  BY <1>5, FS_Subset
<1>9. /\ Cardinality(Overlapping') \in Nat /\ Cardinality(replays) \in Nat
      /\ Cardinality(Overlapping' \intersect replays) \in Nat
  BY <1>5, <1>6, <1>8, FS_CardinalityType
<1>10. Cardinality(Overlapping') <= k
  BY DEF Overlap
<1>11. Reserved' = Overlapping' \union replays
  BY <1>1 DEF Reserved
<1>12. Cardinality(Overlapping' \union replays) <= ReplayLimit + k - 1
  BY <1>1, <1>7, <1>9, <1>10, CaptureAssumption
<1> QED
  BY <1>7, <1>11, <1>12 DEF OvershootInv

(* The replays of a session pass the limit by less than the number of those *)
(* that overlap: one at a time, they keep it (k = 1).                       *)
THEOREM ReplayOvershoot ==
  ASSUME NEW k \in Nat \ {0}
  PROVE  Spec /\ []Overlap(k) => []Overshoot(k)
<1>1. Init => OvershootInv(k)
  <2> SUFFICES ASSUME Init PROVE OvershootInv(k)
    OBVIOUS
  <2>1. Queued = {}
    BY DEF Init, Queued
  <2>2. Reserved = {}
    BY <2>1 DEF Init, Reserved, Overlapping, Handler
  <2> QED
    BY <2>2, FS_EmptySet, CaptureAssumption DEF OvershootInv
<1>2. CInv /\ OvershootInv(k) /\ Overlap(k)' /\ [Next]_vars => OvershootInv(k)'
  BY ReserveStep, SmallerReserve, CountedReserve
<1>3. OvershootInv(k) => Overshoot(k)
  <2> SUFFICES ASSUME OvershootInv(k) PROVE Overshoot(k)
    OBVIOUS
  <2>1. IsFiniteSet(replays) /\ Cardinality(replays) <= Cardinality(Reserved)
    BY FS_Subset DEF OvershootInv, Reserved
  <2>2. Cardinality(replays) \in Nat /\ Cardinality(Reserved) \in Nat
    BY <2>1, FS_CardinalityType DEF OvershootInv
  <2> QED
    BY <2>1, <2>2, CaptureAssumption DEF OvershootInv, Overshoot
<1> QED
  BY <1>1, <1>2, <1>3, CaptureInvariant, PTL DEF Spec
=============================================================================
