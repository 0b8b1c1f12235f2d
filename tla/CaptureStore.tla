---------------------------- MODULE CaptureStore ----------------------------
(***************************************************************************)
(* The captures of one session: the records that public requests and       *)
(* replays leave behind (internal/server/http.go), the write queue and its *)
(* writer (internal/storage/db.go), the limits on them, their deletion     *)
(* when the session is old, and the shutdown that the writer races.        *)
(*                                                                         *)
(* A record is named by the handler that makes it.  Rows are written one   *)
(* transaction at a time (the database has one connection), but only some  *)
(* time after they were queued, and the limits are taken from the rows.    *)
(***************************************************************************)
EXTENDS Integers, Sequences, FiniteSets

CONSTANTS
  Request,      \* public requests of the session
  Replay,       \* replays of them
  Tunnel,       \* the tunnels the session has in its life, one at a time
  CaptureLimit, \* 200
  ReplayLimit,  \* 200
  QueueCap,     \* cap(db.queue), 1024
  None

Handler == Request \union Replay

ASSUME CaptureAssumption ==
  /\ IsFiniteSet(Request)
  /\ Request \intersect Replay = {}
  /\ None \notin Handler /\ None \notin Tunnel
  /\ CaptureLimit \in Nat /\ ReplayLimit \in Nat /\ QueueCap \in Nat

VARIABLES
  stage,    \* where each handler stands
  target,   \* the tunnel it was routed to
  original, \* the request that a replay repeats
  serving,  \* the tunnel that FindByHost and FindBySession return
  opened,   \* the tunnels the session has had
  resuming, \* the tunnel that a Register has counted for and not installed
  ending,   \* the tunnels whose removal has not called EndSession yet
  count,    \* captureCount of each tunnel
  queue,    \* db.queue
  requests, \* the table requests
  replays,  \* the table replays
  row,      \* the session: "active", "ended", "old" (past retention), "deleted"
  round,    \* the statement PruneHostedBefore comes to next
  writer,   \* RunWriter: "running", "draining", "done"
  stop,     \* how far the shutdown of the server is
  records,  \* history: the handlers that made a record
  aged,     \* history: has the session ever been past its retention?
  missed    \* history: the requests that were on their way when a resume
            \* counted the rows, or came before it had installed its tunnel

life == <<serving, opened, resuming, ending, count, row, aged, missed>>
vars == <<life, stage, target, original, queue, requests, replays, round,
          writer, stop, records>>

-----------------------------------------------------------------------------
(* "loaded" has found the request to replay, "allowed" has counted the      *)
(* replays; "routed" is in Forward; "answered" has its response; "queueing" *)
(* calls Enqueue.                                                           *)
Stages == {"idle", "loaded", "allowed", "routed", "answered", "queueing", "done"}
Active == Stages \ {"idle", "done"}

(* "cancelled": the context is done; "shutting": http.Server.Shutdown was   *)
(* called; "closing": db.closed is closed; "closed": the database is.       *)
Stops  == {"up", "cancelled", "shutting", "closing", "closed", "exited"}
Alive  == stop # "exited"
DBOpen == stop \notin {"closed", "exited"}

Go(h, s) == stage' = [stage EXCEPT ![h] = s]

Queued == {queue[i] : i \in 1..Len(queue)}

(* Requests that may still get a row.                                       *)
OnTheWay == {p \in Request : \/ stage[p] \in {"routed", "answered", "queueing"}
                             \/ p \in Queued}

(* What a resume loads into captureCount.  Mutant: it starts again.         *)
CountedNone == 0

Counted == Cardinality(requests)

(* captureCount.Add(1) > 200.                                               *)
OverLimit(n) == n > CaptureLimit

(* Mutant: the queue takes one record more.                                 *)
RoomLate == Len(queue) <= QueueCap

Room == Len(queue) < QueueCap

(* When Enqueue may give up.  Mutant: when the queue is full.               *)
ClosedOrFull == stop \in {"closing", "closed"} \/ Len(queue) >= QueueCap

QueueClosed == stop \in {"closing", "closed"}

(* The foreign keys, which the writer's INSERT must satisfy.  Mutant: they  *)
(* are not enforced.                                                        *)
AnyRow(h) == TRUE

Referenced(h) == IF h \in Replay THEN original[h] \in requests ELSE row # "deleted"

(* The state of RunWriter after ctx.Done.  Mutant: it returns.              *)
ReturnAtOnce == "done"

AfterDone == "draining"

(* The table replays after the first statement of PruneHostedBefore.        *)
(* Mutant: there is no such statement.                                      *)
KeptReplays == replays

PrunedReplays == {}

-----------------------------------------------------------------------------

Init ==
  /\ stage = [h \in Handler |-> "idle"]
  /\ target = [h \in Handler |-> None]
  /\ original = [r \in Replay |-> None]
  /\ serving \in Tunnel
  /\ opened = {serving} /\ resuming = None /\ ending = {}
  /\ count = [t \in Tunnel |-> 0]
  /\ queue = <<>>
  /\ requests = {} /\ replays = {}
  /\ row = "active" /\ round = "replays"
  /\ writer = "running" /\ stop = "up"
  /\ records = {} /\ aged = FALSE /\ missed = {}

(* loadReplayOriginal: the request, from the table ...                      *)
LoadOriginal(r, p) ==
  /\ stop \in {"up", "cancelled"} /\ stage[r] = "idle"
  /\ p \in requests
  /\ original' = [original EXCEPT ![r] = p]
  /\ Go(r, "loaded")
  /\ UNCHANGED <<life, target, queue, requests, replays, round, writer, stop,
                 records>>

(* ... and the limit, from the rows that are stored.                        *)
CheckReplays(r) ==
  /\ Alive /\ stage[r] = "loaded"
  /\ Go(r, IF Cardinality(replays) >= ReplayLimit THEN "done" ELSE "allowed")
  /\ UNCHANGED <<life, target, original, queue, requests, replays, round,
                 writer, stop, records>>

(* FindByHost for a visitor's request, FindBySession for a replay.          *)
Route(h) ==
  /\ Alive
  /\ \/ h \in Request /\ stage[h] = "idle" /\ stop \in {"up", "cancelled"}
     \/ h \in Replay /\ stage[h] = "allowed"
  /\ serving # None
  /\ target' = [target EXCEPT ![h] = serving]
  /\ Go(h, "routed")
  /\ missed' = IF resuming # None /\ h \in Request THEN missed \union {h} ELSE missed
  /\ UNCHANGED <<original, serving, opened, resuming, ending, count, queue,
                 requests, replays, row, round, writer, stop, records, aged>>

(* Forward returns a response, which may be written slowly ...              *)
Answer(h) ==
  /\ Alive /\ stage[h] = "routed"
  /\ Go(h, IF h \in Replay THEN "queueing" ELSE "answered")
  /\ records' = IF h \in Replay THEN records \union {h} ELSE records
  /\ UNCHANGED <<life, target, original, queue, requests, replays, round,
                 writer, stop>>

(* ... or an error, or there is no tunnel or no slot for the replay: there  *)
(* is no record.                                                            *)
Fail(h) ==
  /\ Alive /\ stage[h] \in {"routed", "allowed"}
  /\ Go(h, "done")
  /\ UNCHANGED <<life, target, original, queue, requests, replays, round,
                 writer, stop, records>>

(* The counter of the tunnel the request went through.                      *)
Capture(p) ==
  /\ Alive /\ stage[p] = "answered"
  /\ count' = [count EXCEPT ![target[p]] = @ + 1]
  /\ \/ /\ OverLimit(count[target[p]] + 1)
        /\ Go(p, "done")
        /\ UNCHANGED records
     \/ /\ ~OverLimit(count[target[p]] + 1)
        /\ Go(p, "queueing")
        /\ records' = records \union {p}
  /\ UNCHANGED <<target, original, serving, opened, queue, requests, replays,
                 row, round, writer, stop, resuming, ending, aged, missed>>

(* InsertRequest, InsertReplay: Enqueue blocks while the queue is full.     *)
Enqueue(h) ==
  /\ Alive /\ stage[h] = "queueing"
  /\ \/ Room /\ queue' = Append(queue, h)
     \/ QueueClosed /\ UNCHANGED queue
  /\ Go(h, "done")
  /\ UNCHANGED <<life, target, original, requests, replays, round, writer,
                 stop, records>>

-----------------------------------------------------------------------------
(* The writer.                                                              *)

(* One transaction: the row of h, or a rollback.                            *)
Insert(h) ==
  /\ requests' = IF h \in Request /\ Referenced(h) THEN requests \union {h} ELSE requests
  /\ replays' = IF h \in Replay /\ Referenced(h) THEN replays \union {h} ELSE replays

Take == /\ queue # <<>>
        /\ queue' = Tail(queue)
        /\ UNCHANGED <<life, stage, target, original, round, writer, stop, records>>

(* The context of the transaction is that of the server, or none.           *)
Write ==
  /\ Alive
  /\ (writer = "running" /\ stop = "up") \/ writer = "draining"
  /\ Take
  /\ Insert(Head(queue))

(* select takes a record although the context is done: BeginTx fails.       *)
WriteCancelled ==
  /\ Alive /\ stop # "up" /\ writer = "running"
  /\ Take
  /\ UNCHANGED <<requests, replays>>

SeesDone ==
  /\ Alive /\ stop # "up" /\ writer = "running"
  /\ writer' = AfterDone
  /\ UNCHANGED <<life, stage, target, original, queue, requests, replays,
                 round, stop, records>>

Drained ==
  /\ Alive /\ writer = "draining" /\ queue = <<>>
  /\ writer' = "done"
  /\ UNCHANGED <<life, stage, target, original, queue, requests, replays,
                 round, stop, records>>

-----------------------------------------------------------------------------
(* The session, its retention, and the shutdown.                            *)

(* removeTunnel: the session has no tunnel any more ...                     *)
HangUp ==
  /\ Alive /\ serving # None
  /\ serving' = None
  /\ ending' = ending \union {serving}
  /\ UNCHANGED <<stage, target, original, opened, resuming, count, queue,
                 requests, replays, row, round, writer, stop, records, aged,
                 missed>>

(* ... and, without m.mu, EndSession: perhaps when it has a tunnel again.   *)
EndSession(t) ==
  /\ DBOpen /\ t \in ending
  /\ ending' = ending \ {t}
  /\ row' = IF row = "deleted" THEN row ELSE "ended"
  /\ UNCHANGED <<stage, target, original, serving, opened, resuming, count,
                 queue, requests, replays, round, writer, stop, records, aged,
                 missed>>

(* Register for a resume: UpsertSession, and CountRequests, which may fail. *)
(* The counter of the new tunnel starts at the rows that are stored.        *)
Resume(t) ==
  /\ DBOpen /\ resuming = None /\ t \notin opened
  /\ row \in {"active", "ended"}
  /\ row' = "active"
  /\ \/ /\ resuming' = t
        /\ count' = [count EXCEPT ![t] = Counted]
        /\ missed' = missed \union OnTheWay
     \/ UNCHANGED <<resuming, count, missed>>
  /\ UNCHANGED <<stage, target, original, serving, opened, ending, queue,
                 requests, replays, round, writer, stop, records, aged>>

(* installTunnel: FindByHost and FindBySession return it from now on.       *)
Install ==
  /\ Alive /\ resuming # None
  /\ serving' = resuming
  /\ opened' = opened \union {resuming}
  /\ resuming' = None
  /\ UNCHANGED <<stage, target, original, ending, count, queue, requests,
                 replays, row, round, writer, stop, records, aged, missed>>

(* The retention period passes.                                             *)
Age ==
  /\ row = "ended"
  /\ row' = "old"
  /\ aged' = TRUE
  /\ UNCHANGED <<stage, target, original, serving, opened, resuming, ending,
                 count, queue, requests, replays, round, writer, stop, records,
                 missed>>

(* PruneHostedBefore: three statements without a transaction, each of which *)
(* looks for old sessions again.  One that would break a foreign key fails  *)
(* and ends the round.                                                      *)
PruneReplays ==
  /\ DBOpen /\ round = "replays" /\ row = "old"
  /\ replays' = PrunedReplays
  /\ round' = "requests"
  /\ UNCHANGED <<life, stage, target, original, queue, requests, writer, stop,
                 records>>

PruneRequests ==
  /\ DBOpen /\ round = "requests"
  /\ requests' = IF row = "old" /\ replays = {} THEN {} ELSE requests
  /\ round' = IF row = "old" /\ replays # {} THEN "replays" ELSE "sessions"
  /\ UNCHANGED <<life, stage, target, original, queue, replays, writer, stop,
                 records>>

PruneSession ==
  /\ DBOpen /\ round = "sessions"
  /\ row' = IF row = "old" /\ requests = {} THEN "deleted" ELSE row
  /\ round' = "replays"
  /\ UNCHANGED <<stage, target, original, serving, opened, resuming, ending,
                 count, queue, requests, replays, writer, stop, records, aged,
                 missed>>

Cancel ==
  /\ stop = "up"
  /\ stop' = "cancelled"
  /\ UNCHANGED <<life, stage, target, original, queue, requests, replays,
                 round, writer, records>>

(* shutdown calls http.Server.Shutdown, which waits for the handlers ...    *)
Shutdown ==
  /\ stop = "cancelled"
  /\ stop' = "shutting"
  /\ UNCHANGED <<life, stage, target, original, queue, requests, replays,
                 round, writer, records>>

(* ... and then db.Close: first it closes db.closed ...                     *)
CloseQueue ==
  /\ stop = "shutting"
  /\ \A h \in Handler : stage[h] \notin Active
  /\ stop' = "closing"
  /\ UNCHANGED <<life, stage, target, original, queue, requests, replays,
                 round, writer, records>>

(* ... then, when the writer has returned, the database.                    *)
CloseDB ==
  /\ stop = "closing" /\ writer = "done"
  /\ stop' = "closed"
  /\ UNCHANGED <<life, stage, target, original, queue, requests, replays,
                 round, writer, records>>

(* Start returned when Shutdown was called, main returns, and the process   *)
(* ends, however far the shutdown is.                                       *)
Exit ==
  /\ stop \in {"shutting", "closing", "closed"}
  /\ stop' = "exited"
  /\ queue' = <<>>
  /\ UNCHANGED <<life, stage, target, original, requests, replays, round,
                 writer, records>>

WriterStep == Write \/ WriteCancelled \/ SeesDone \/ Drained
PruneStep  == PruneReplays \/ PruneRequests \/ PruneSession

Next ==
  \/ \E h \in Handler : Route(h) \/ Answer(h) \/ Fail(h) \/ Enqueue(h)
  \/ \E p \in Request : Capture(p)
  \/ \E r \in Replay : CheckReplays(r) \/ \E p \in Request : LoadOriginal(r, p)
  \/ \E t \in Tunnel : Resume(t) \/ EndSession(t)
  \/ WriterStep \/ PruneStep \/ Install \/ HangUp \/ Age
  \/ Cancel \/ Shutdown \/ CloseQueue \/ CloseDB \/ Exit

(* The writer and the retention ticker run.  Nothing else is needed: not    *)
(* that handlers go on, nor that a shutdown comes to its end.               *)
Fairness == WF_vars(WriterStep) /\ WF_vars(PruneStep)

Spec     == Init /\ [][Next]_vars
FairSpec == Spec /\ Fairness

-----------------------------------------------------------------------------

(* Every variable has its type, and the queue its capacity.                 *)
TypeOK ==
  /\ stage \in [Handler -> Stages]
  /\ target \in [Handler -> Tunnel \union {None}]
  /\ original \in [Replay -> Request \union {None}]
  /\ serving \in Tunnel \union {None}
  /\ opened \subseteq Tunnel /\ ending \subseteq Tunnel
  /\ resuming \in Tunnel \union {None}
  /\ count \in [Tunnel -> Nat]
  /\ queue \in Seq(Handler) /\ Len(queue) <= QueueCap
  /\ requests \subseteq Request /\ replays \subseteq Replay
  /\ row \in {"active", "ended", "old", "deleted"}
  /\ round \in {"replays", "requests", "sessions"}
  /\ writer \in {"running", "draining", "done"}
  /\ stop \in Stops
  /\ records \subseteq Handler
  /\ aged \in BOOLEAN /\ missed \subseteq Request

(* The session passes the limit by at most the requests that were on their  *)
(* way when one of its resumes counted the rows: the counter that the new   *)
(* tunnel is given stands for all the others, however they interleave and   *)
(* however often the session is resumed (tunnel.go line 115 to 119, http.go *)
(* line 220).                                                               *)
SessionCaptureLimit == Cardinality(requests \ missed) <= CaptureLimit

(* No replay is stored without its request and no request without its       *)
(* session, although records are written long after their handlers saw the  *)
(* rows and the session is deleted in three statements (sessions.go line    *)
(* 126 to 135).                                                             *)
NoOrphans ==
  /\ \A r \in replays : original[r] \in requests
  /\ requests # {} => row # "deleted"

(* While the server runs and the session has never been past its retention, *)
(* no record is lost: it is about to be queued, in the queue, or stored     *)
(* (db.go line 180).                                                        *)
KeptUntilShutdown ==
  stop = "up" /\ ~aged =>
    \A h \in records :
      stage[h] = "queueing" \/ h \in Queued \union requests \union replays

(* What is in the queue before RunWriter returns is taken out by it, in a   *)
(* shutdown too, even if the shutdown never gets any further.               *)
QueueDrains ==
  \A h \in Handler : h \in Queued /\ writer # "done" ~> h \notin Queued

(* A session whose retention is over is deleted, although late records make *)
(* rounds of the retention loop fail; only the end of a tunnel that it had  *)
(* all the time (see EndSession) makes it young again.                      *)
OldSessionGoes == row = "old" ~> row \in {"deleted", "ended"} \/ stop # "up"

(* deploy/README.md line 71, "200 captured requests and replays per tunnel":*)
(* the session has no more replays than the limit.                          *)
SessionReplayLimit == Cardinality(replays) <= ReplayLimit

(* The replays that are between their count and their row (http.go 461).    *)
Overlapping == {r \in Replay : \/ stage[r] \in {"allowed", "routed", "queueing"}
                               \/ r \in Queued}

(* With at most k of them at a time, the session has at most k - 1 replays  *)
(* more than the limit (http.go line 461).                                  *)
Overlap(k)    == Cardinality(Overlapping) <= k
Overshoot(k)  == Cardinality(replays) <= ReplayLimit + k - 1
=============================================================================
