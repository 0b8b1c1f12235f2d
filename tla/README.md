# Formal models of vexlo

vexlo is a quick-tunnel service: a client behind a NAT keeps one TCP (TLS)
connection to the server, the server gives it a random subdomain, and every
HTTP request for that subdomain is sent down the connection and answered from
it. A dashboard shows the captured requests and can replay them. This directory
holds TLA+ models of the server, the TLC runs that check them on small
instances, and TLAPS proofs about them.

## 1. Inventory of the system

| Component | Source | State | Operations | Hard behaviour |
|---|---|---|---|---|
| Tunnel registry | `internal/server/tunnel.go`, `auth.go`, `internal/storage/sessions.go` | `tunnels`, `bySession`, the `sessions` table, each tunnel's connection | Register (new, resume), readLoop/removeTunnel, revokeHosted, expireHostedTunnels, prune, restart | `registerMu`, `m.mu` and no lock at all are used by different operations; EndSession after the unlock; the database outlives the process |
| Forwarding | `tunnel.go` (Forward, readLoop, send), `http.go` (public requests, replays) | `pending`, `inFlight`, `hostedSlots`, `writeMu`, the wire | admit, acquire and release slots, send, receive, time out, close | responses race time-outs and disconnects; a send with no deadline; half-closed connections; late and duplicated responses |
| Admission rates | `tunnel.go` (rate windows) | two windows and two maps of windows | allowPublicRequest, checkRegistrationRate | windows that slide, a map with a size limit, a global counter that refused calls also use up |
| Event hub | `internal/dashboard/hub.go`, `internal/server/websocket.go` | client set, three channels | Register, Unregister, Broadcast, Run | separate buffered channels are not ordered with each other; the loop stops at shutdown |
| Capture store | `internal/storage` (queue, RunWriter, requests), `http.go` (captureCount, replays) | the write queue, `requests` and `replays` tables, the capture counter | InsertRequest, InsertReplay, RunWriter, prune, Close | writes are queued, so reads are stale; a counter loaded from the table |
| Registration handshake | `internal/client/client.go`, `binary.go`, `internal/protocol` | the client's saved session and token, the bytes on the wire | Run, runOnce, registerTunnel, handleBinaryConn | a token that changed but whose reply was lost; a frame written outside `writeMu` |
| Operator control | `http.go` (admin), `server.go` (New) | pause flag in memory and in the table | pause, resume, revoke, status | two concurrent writers, restart |
| Dashboard access | `tunnel.go` (handoffs), `http.go` (claim, authorize) | hand-off map, cookies, auth token | newDashboardHandoff, claim, authorize | single use, expiry, token rotation while a claim runs |
| Server life cycle | `server.go`, `tls.go`, `storage.Close` | context, listeners, hub, writer | New, Start, shutdown | the writer drains while handlers still enqueue |
| Dashboard page | `internal/dashboard/dashboard.js` | list, selection, socket | loadInitial, connectWS, openRequest, runReplay | answers out of order, events missed while offline |
| Command lines, TLS files, ACME, logging, HTML, installers | `cmd/`, `tls.go`, `logging.go`, `deploy/`, `scripts/` | none of their own | configuration and I/O | none for a model checker |

How the components meet. A binary connection (`binary.go`) calls `Register` and
then is a tunnel: the registry routes host names to it, forwarding sends frames
down it, and its `readLoop` both hands responses to waiting requests and, when
the connection ends, takes the tunnel out of the registry. HTTP handlers ask the
rate windows first, then the registry (`FindByHost`, `FindBySession`), then
forwarding; when a response is there they queue a capture for the writer and
broadcast an event to the hub. The operator and the retention ticker reach into
the registry by closing connections. `server.go` starts all of them under one
context. The database is the only thing that survives the process.

What makes each component correct:

- **Registry**: a session is served by one connection at a time, and by the one
  its host name leads to; a resume keeps the identity of the session and needs a
  token that is spent by it; a revoked session stays away; rows without an end
  belong to somebody; limits hold; nothing is deleted before its time.
- **Forwarding**: slots are returned exactly as taken; a response reaches the
  request that waits for it and nobody else; no response blocks a `readLoop`;
  every request ends when its timer or its connection does.
- **Rates**: a bound on calls over *any* minute, bounded memory, and no refusal
  that outlives its minute.
- **Hub**: events of the right session, in order, without repetition; no channel
  used after its close; nobody is held up by a slow dashboard.
- **Capture store**: no record is lost while the server runs and its session is
  kept; a session captures within its limit, apart from the records that are on
  their way when it is resumed; no row outlives what it refers to; the queue is
  drained, and old sessions go.
- **Handshake**: as long as its session has a row, the token the client remembers is the one in it;
  a late registration does not take the tunnel from a newer connection of the
  same client; a serving client reads whole frames; when the network is quiet a
  client gets a tunnel again, whatever replies were lost before.
- **Operator control**: the flag in memory and the one in the table agree when
  operators take turns, and after a restart; a revocation shuts the dashboard.
- **Dashboard access**: a link lets one browser in, into the session that printed
  it, with a cookie that opens it.
- **Life cycle**: a restart leaves no session half open; after the context is done
  the writer still empties its queue.
- **Dashboard page**: what is shown as selected is what was selected last (not
  modelled, see section 6).

The full list of hazards, each with its line and the properties that cover it,
is in `PROJECT.json`.

## 2. Modules

| Module | What it is | Rests on |
|---|---|---|
| `SessionTenure` | abstract: who serves a session | |
| `TunnelRegistry` | the registry in detail; implements `SessionTenure` | `SessionTenure` |
| `TunnelRegistryProofs` | its theorems | `TunnelRegistry`, TLAPS |
| `Forwarding`, `ForwardingProofs` | requests through tunnels | |
| `RateLimit`, `RateLimitProofs` | the two-level limiter | |
| `Hub`, `HubProofs` | events for dashboards | |
| `CaptureStore`, `CaptureStoreProofs` | records from the handler to the tables | |
| `Handshake`, `HandshakeProofs` | the client's loop, the server's connection handler and the frames between them | |
| `HostedAccess`, `HostedAccessProofs` | links, cookies and auth tokens; the operator's pause and revocation; implements `SessionTenure` | `SessionTenure` |
| `MCTunnelRegistry`, `MCForwarding`, `MCRateLimit`, `MCHub`, `MCCaptureStore`, `MCHandshake`, `MCHostedAccess` | the sets and symmetries of the instances | |

In the modules, an operator marked "Mutant" is a plausible bug in the definition
that follows it. It is used by nothing: it is what shows that a property can
fail (`PROJECT.json`, "mutants").

### TunnelRegistry

State: `tunnels` and `bySession` are the two maps of the manager; `row` is the
sessions table; `open` is the state of each connection; `session` and
`presented` are what its `Register` carries; `stage` is the program counter of
its goroutine; `revoking` is the program counter of `revokeHosted`. Session IDs
and both kinds of token are random values drawn by one registration, so each is
named by the connection that drew it.

| Action | Code |
|---|---|
| `AdmitNew`, `AdmitResume`, `Refuse` | `Register` to the end of `validateRegistration` |
| `ResolveNew`, `ResolveResume` | `resolveSession` |
| `Upsert` | `UpsertSession` |
| `RegisterFail` | every later error return |
| `Install` | `installTunnel` |
| `RemoveTunnel`, `EndSession` | `removeTunnel`, under and after `m.mu` |
| `RevokeRow`, `RevokeClose` | the two halves of `revokeHosted` |
| `ReadTime`, `ListExpired`, `CloseExpired` | `expireHostedTunnels` with the clock of `runRetention`: the list under `m.mu`, the connections one by one after it |
| `ReadCutoff`, `Prune` | the second reading of the clock, and `PruneHostedBefore` |
| `Crash`, `Start` | the end of the process; `New` with `EndOrphanedHostedSessions` |
| `PeerClose`, `Tick` | the environment |

`registerMu` is not a variable: it is held exactly while some `stage` is inside
`Register` or `revoking` is set, and the actions that take it require that
nobody is (`RegisterMuFree`). `Refuse` is always possible because the rates are
the subject of another module. With `DBFaults`, `CountRequests` may fail after
the row was written and `EndSession` may fail unseen; without it they do not.

`round`, `clock` and `expired` are the program counter of the retention loop, the
time it has read and the tunnels it has still to close. It takes no lock between
its steps, so every other action can come between any two of them. `Crash`
ends the round with the process.

Simplifications: the time that `EndSession` writes is read in the step that
writes it; `Prune` is the `DELETE` of the sessions or a round that failed before it
(the statements one by one are in `CaptureStore`); 64 random bits are assumed not to hit a host name that is routed
although its row is gone; IDs and tokens do not collide.

### SessionTenure

A session has an owner or none; a connection that has served once never serves
again; a revoked session is only released. The mapping is `owner <- bySession`,
`spent <-` the connections that were installed. This is what resumes, late
`readLoop`s, revocations and restarts amount to, without a lock in sight. The
mapping of `HostedAccess` is `owner <- tunnel`, `spent <-` the registrations that
were installed.

### Forwarding

A handler is one public request or one replay, with its request ID. `stage` is
its program counter from `acquireHostedSlots` to `releaseHostedSlots`;
`tunnelUse` and `globalUse` are the lengths of the two semaphores; `pending`
and `mailbox` are the map and the filled channels; `writeMu`, `wire` and
`seen` are the write lock, the socket and what the peer has read; `hand` is the
channel that a `readLoop` has taken out of `pending` and not yet sent to;
`closed` is `tunnel.closed`.

A tunnel here is one `Tunnel` object: a resume makes a new one. Which one a
handler gets is free, one that is closed included, since the lookup happens
before the slots are taken. The peer may answer what it has read any number of
times, on any of its connections, or never. It may also close its half of a connection
and keep the other (`HalfClose`): `readLoop` then gets `io.EOF`, which ends the
tunnel but not the connection (`tunnel.go:345`), so that `CloseTunnel` wakes the requests that
wait for an answer, and those that are blocked in a write stay blocked. After
`Disconnect` both are woken. A frame that is written to a dead
connection may or may not report an error. A response that finds no entry in
`pending` changes nothing and has no action. `Ping` frames are left out: the
client sends none.

### RateLimit

`allowPublicRequest` and `checkRegistrationRate` are the same limiter with other
numbers, each under its own lock, so one call is one step, in three outcomes:
refused for all, refused because the map is full, counted for its address. The
sweep of a full map is part of the step. Time is in ticks, and a window has
ended at the first tick at which `now - start >= Minute`.

### Hub

Each dashboard is a handler goroutine with its `stage`; `register`,
`unregister` and `broadcast` are the three buffered channels, `send` the one of
each client, `closed` the clients whose channel `Run` closed. `Run` takes any
ready case. The two panics of Go that can occur are states of `hub` and end
every step, as they end the process. `Stop` is `ctx.Done`: the loop ends and the
handlers go on.

### CaptureStore

One session and the records of its requests and replays; a record is named by
the handler that makes it, and `target` and `original` are the tunnel and the
request it belongs to. `count` is `captureCount` of each of the session's
tunnels, `queue` is `db.queue`, `requests` and `replays` are the tables.

| Action | Code |
|---|---|
| `LoadOriginal`, `CheckReplays` | `loadReplayOriginal`: the request, then the limit |
| `Route`, `Answer`, `Fail` | the look-up of the tunnel, and the end of `Forward` |
| `Capture` | the counter in `handlePublicRequest` |
| `Enqueue` | `InsertRequest`, `InsertReplay` |
| `Write`, `WriteCancelled`, `SeesDone`, `Drained` | `RunWriter` with the server's context and without |
| `HangUp`, `EndSession` | `removeTunnel` under `m.mu`, and its statement after the unlock |
| `Resume`, `Install` | `Register` for a resume: `UpsertSession` and `CountRequests`, and the installation |
| `Age`, `PruneReplays`, `PruneRequests`, `PruneSession` | the retention period, and `PruneHostedBefore` statement by statement |
| `Cancel`, `Shutdown`, `CloseQueue`, `CloseDB`, `Exit` | the end of the server in `shutdown` and `Close`, and of the process |

`row` is the session: active, ended, old (the retention is over) or deleted.
`ending` are the tunnels whose `EndSession` is still to come, and `resuming` is the tunnel
that has been given its counter and is not routed yet. `missed` is history: the
requests that were between the tunnel and the table when a resume counted the
rows, and those that were sent to the old tunnel after that. `aged` is history too.
`stop` runs from `up` to `closed`, and `exited` can come at any time after
`http.Server.Shutdown` was called: from then on `Start` returns, and `main` does
not wait for `shutdown`.

Simplifications: taking a record from the queue and its transaction are one step,
since the database has one connection and only the writer inserts; the
retention is assumed longer than the grace period of a resume, so that an old
session is not resumed (defaults: 1 h and 30 s); statements fail only by foreign
keys, which are enforced on the one connection; slots and the life of a request
in `Forward` are in `Forwarding`, the restart in `TunnelRegistry`. `PruneBefore` is left out: it
touches sessions that are not hosted, and the server makes none.

### Handshake

Both ends of a connection. Of the client: `at` and `conn` say where `runOnce`
is, `sessionID` and `resumeToken` what `Run` remembers from one connection to
the next. Of the server: `stage` is `handleBinaryConn` (its slot is held in all
stages but `free` and `backlog`), `loop` is the `readLoop`, `asked` and
`presented` are the `Register` frame on its way, `row` and `tunnel` are the
sessions table and `bySession`. Between them: `wire`, from the server to the
client, in single calls of `Write`, because `Encode` makes two (a length and an
envelope), and `writing`, the public requests that hold a `writeMu` between
theirs. `known` is the set of sessions whose URL somebody has seen: nobody asks
for a host name that was never printed.

| Action | Code |
|---|---|
| `Dial` | `dialServer`, and `registerTunnel` up to its `Encode` |
| `ReadRegistered`, `ReadRejected`, `ReadOther` | the answer in `registerTunnel`, and what `runOnce` and `Run` do with it |
| `ReadRequest`, `ReadFails` | `serveTunnel` |
| `Accept`, `AcceptFull`, `NoRegister` | `acceptBinary`, and the deadline on the `Register` frame |
| `RegisterNew`, `RegisterResume` | `Register` succeeds |
| `RefuseResume`, `RefuseBusy`, `FailsLate` | it fails: on the token or the grace, for another reason, after it has written the row |
| `ReplyLength`, `ReplyEnvelope` | the `Registered` frame |
| `LoopEnds`, `EndSession` | `readLoop` fails, `handleBinaryConn` returns and `removeTunnel` empties the maps; its statement after the unlock, which may fail unseen |
| `SendLength`, `SendEnvelope` | `send` for a public request |
| `Over`, `CloseOver`, `Prune` | lifetime and revocation, the closing of what they leave connected, retention |
| `Rerun`, `Drop`, `Restart` | the developer, the network, the end of the server |

`Prune` deletes any row that has an end, as `PruneHostedBefore` does, whether its session has a
tunnel or not: when `EndSession` comes after the resume, the row of a served session goes.
A resume whose `GetSession` fails is "invalid" like one with a wrong token, and
the client forgets its session (`RefuseBusy` with the answer "rejected").

Simplifications: `Register` is one step because it runs under `registerMu`, and
what happens inside it is `TunnelRegistry`; its failures are before or after the row is
written; a row that can no longer be resumed (over its lifetime, revoked) counts as
none; a handler gives its slot back in the step in which the `readLoop` ends, which wakes it; the
client's answers to requests are in `Forwarding`, so the direction to the server
carries only `Register`. Names (connections, tokens, sessions) are drawn again
once nobody remembers them, so there is no bound on restarts, losses or
reconnects: a random value that is new behaves like a name that is used by
nothing. `Ping` frames are left out, as above.

### HostedAccess

Registrations are numbered in the order in which they take `registerMu`; a
registration's number names the auth token it draws and the link it prints. So
"older" is "smaller". `auth` is the `auth_token` column, `tunnel` is
`bySession`, `handoffs` and `expired` are the map of hand-offs and those of them
that are five minutes old; `at`, `link`, `wanted` and `cookie` follow one
browser through `claimDashboardHandoff`; `table`, `memory` and `writing` are the
operator's flag, in its two places, and the requests between the two writes.
`revoked` and `overlap` are history variables.

| Action | Code |
|---|---|
| `Admit`, `Store`, `Install`, `Fail`, `Issue` | `Register`: admission, `UpsertSession`, `installTunnel`, an error, `newDashboardHandoff` |
| `Expire`, `Remove` | five minutes pass; `removeTunnel` |
| `Claim`, `LetIn`, `Deny` | `claimDashboardHandoff` under `handoffMu`, and after it; the cookie of `handleHostedClaim` |
| `Revoke` | `revokeHosted` |
| `SetTable`, `SetMemory` | the two writes of `handleAdminRegistrations` |
| `Restart` | the end of the process, and `New` |

`authorize` reads only and is the operator `Authorized`. Simplifications:
capacity, grace and tokens for resuming are in `TunnelRegistry`; random links
and tokens are not guessed; the Basic-auth and origin checks before the
operator's handlers have no state.

## 3. Runs

| Run | Instance | Checks | Shows |
|---|---|---|---|
| `registry_safety` | 3 connections, 2 names, 2 addresses, 2 tunnels at most, 1 per address; 1,412,726 states (with symmetry), about 40 s | `RoutingConsistent`, `OneOpenTunnel`, `IdentityKept`, `TokenCurrent`, `TokenSpentOnce`, `RevokedNotServed`, `NoOrphanRow`, `RevocationFinal`, `NewWithinCapacity`, `TenureSpec`, `PruneSparesYoung` | registrations, resumes, hang-ups, replacements, revocations, retention rounds step by step and restarts in every order keep one owner per session, implement `SessionTenure`, and delete nothing too early |
| `registry_liveness` | 2 connections, statements may fail; 187,744 states | `RevokedGoes`, `ExpiredGoes` | tunnels that must go do go, also when `CountRequests` or `EndSession` fails |
| `registry_prune` | 3 connections | `PruneOnlyDisconnected` violated | finding 1 |
| `forwarding` | 2 requests and a replay, one tunnel, limits of 2; 48,446 states | `SlotAccounting`, `InFlightBounded`, `ReaderNeverBlocks`, `AnswerNotLost`, `SentFinishes`, `ClosedFinishes` | slots, channels and responses in every order of time-outs, answers and disconnects; requests end without help from the peer: with the connection all of them, with half of it those that wait |
| `rate_limit` | 3 addresses, limits of 4 and 2, a map that refuses at two entries, a minute of two ticks; 410,022 states | `SlidingLimit`, `MapBounded`, `QuietMinuteHeals` | the limiter over minutes that are not its windows |
| `hub` | 3 dashboards of 2 sessions, 2 events, channels of 1; 126,804 states | `InOrder`, `OpenWhileServed`, `NeverClosedTwice`, `BroadcastDrains`, `LeaverGoes` | order and life of channels with slow, failing and leaving dashboards, which hold nobody up |
| `hub_closed` | 2 dashboards, 2 events | `NeverSentOnClosed` violated | finding 2 |
| `capture` | 2 requests, 1 replay, 2 tunnels, limits of 1, a queue of 1; 936,336 states, about 45 s | `SessionCaptureLimit`, `NoOrphans`, `KeptUntilShutdown`, `QueueDrains`, `OldSessionGoes` | late writes against resumes, pruning and the shutdown; the queue is emptied, also in a shutdown; old sessions go although late records make rounds fail |
| `replay_limit` | the same with 2 replays and a queue of 2 | `SessionReplayLimit` violated | finding 3 |
| `handshake` | 1 client, 3 connections, 2 sessions, 1 visitor, 2 slots, a socket of two writes; 575,520 states, about 2 minutes | `TokenHeld`, `FramesWhole`, `ReplacesOnlyLeft`, `ClientServed` | lost replies, late registrations and ends of sessions, restarts, torn frames, failing statements and full slots never leave a served client with a token that is not its row's, and in the end it is served |
| `handshake_first` | the same | `AnswerFirst` violated | finding 4 |
| `access` | 2 sessions, 3 registrations, 2 browsers, 2 operators; 3,364,464 states | `LinkLetsOneIn`, `RevokedShut`, `PauseKept`, `CookieFitsRow` | links against resumes, revocations and restarts; the flag against overlapping operators and restarts |

No run checks a type invariant: `TypeOK` of every module is a theorem (section
4), and the runs spend their time on the rest.

Why the instances are large enough. The hard cases of the registry need a
session, a connection that resumes it, and either a second claimant of the same
token or a stranger that takes the free place: three connections, two names, two
addresses. Periods are one tick and the lifetime is two (three in `registry_prune`, so
that a tunnel can outlive the retention and be connected when its row goes), so that "within the
grace period", "after it", "retention is over" and "lifetime is over" are all
reachable within `MaxTime`, and a retention round can read its clocks in different ticks. Forwarding needs a request that fills a
limit, one that is refused and a replay that never ends by itself: three
handlers, and limits of two; a wire of one frame so that a writer blocks with the
lock held. It has one tunnel: a handler that has released its tunnel's slot and
not yet the global one makes the global limit bite by itself. That a response
arrives on the wrong tunnel, and that tunnels share the global limit, are
covered by the proofs, which are for any set of tunnels; with two tunnels the
fair instance (827,349 states) takes too long to be run each time. The rate run has
two minutes of two ticks and one tick more, so that windows of different
addresses start at different ticks and a minute can straddle two windows; three
addresses fill a map that refuses at two, and a global limit of four leaves one
address enough calls to profit from a sweep that drops too much. Nine calls
exceed twice the global limit. The hub needs two dashboards of one session, so that one can be slow, and
a stranger; channels of one place are full after one event. The
violation has two dashboards, of two sessions, which is
all that it needs. The capture store needs two records of each kind to pass a
limit of one, two tunnels so that a counter is loaded while the old tunnel still
has requests and its removal has still to end the session, and a queue that is full before all records are in it; one replay
is what makes a round of the retention loop fail, and two overlap. The handshake
needs the connection a client is on, one that it left and whose `Register` is
still in the backlog, and one whose `readLoop` has not noticed its end: three
connections for one client, with two slots so that they can be full; a session that is kept and one that is new;
one visitor, whose request can come before, between and after the two writes of
the reply, on a socket that blocks after two. Clients share only the slots, and
`RefuseBusy`, `AcceptFull` and `Drop` stand for all that others can do to one.
Access needs a first registration, a resume and a stranger (three
registrations of two sessions), two browsers with the same link, and two
operators. Symmetry is used in `registry_safety`, `rate_limit` and `access`, whose values are
interchangeable and which check no liveness property.

`CHECK_DEADLOCK FALSE` is in the runs of `Forwarding`, `RateLimit`, `Hub` and
`CaptureStore`: a handler serves one request, a dashboard connects once, calls
are bounded, and the process exits, so the instance really comes to rest.
`HostedAccess` has it too, although its server can always restart, because its
browsers and registrations are used up. The registry and the handshake are checked for deadlock.

Bounds on counters: `MaxTime` (registry and rates), `MaxCalls`, `MaxEvents`,
`MaxReg` (access). The handshake has none, see its module. None is used by a guard of the code's own; each only ends the instance.

Every property of a passing run is violated when one definition is replaced by
its mutant (`PROJECT.json`, "mutants").

### Fairness

Only goroutines of the running server are fair: that is what Go's scheduler
gives, and nothing is assumed of clients, peers, dashboards, visitors or the
operator.

- Registry: weak fairness for a `Register` that is under way, a `readLoop`
  whose read has failed, the end of a removal, a revocation under way and the
  retention ticker with the steps of its round.
- Forwarding: weak fairness for each handler and `readLoop`. The body of a
  request is read within `ReadTimeout` and the response written within
  `WriteTimeout` (`server.go`), so these steps end. `writeMu` has strong
  fairness, since `sync.Mutex` hands itself to the first waiter after a
  millisecond. The 30 second timer is fair for public requests and absent for
  replays, so a replay ends only with its connection.
- Hub: weak fairness for each case of `select`, which chooses among ready
  cases at random, so one that stays ready is taken; strong fairness for a send
  on the full `unregister` channel, whose senders queue up.
- Capture store: weak fairness for the writer and for the retention ticker, which
  are loops of their own. Nothing is assumed of handlers, of the operator, or of
  how far a shutdown gets.
- Handshake: weak fairness for the client's loop (the pause in `Run` is three seconds),
  its reads, each connection handler, the end of a `readLoop` whose connection has ended with its `EndSession`, the second
  write of a frame under way, and the end of a session that has no tunnel (grace, lifetime or retention). Visitors may stay away or come at the worst time for ever, and
  nothing is assumed of `Drop`, `RefuseBusy`, `FailsLate`, `Rerun` or `Restart`. `ClientServed` says what
  happens when such disturbances stop (`<>[][Calm]_vars`); visitors, ends of sessions and
  the retention loop go on.
- Access: safety only.

## 4. Proofs

All theorems are for every value of the constants that satisfies the assumption
of its module: any finite number of connections, requests, tunnels, any number
of addresses or dashboards, any limits and periods. The assumptions say that sets are finite,
numbers are numbers and the placeholder values are no members of the sets.

**Registry** (`TunnelRegistryProofs`). None of the properties is inductive. The
invariant `IInv` is a chain in which each part needs the ones before it:

| Part | Says | Why it is needed |
|---|---|---|
| `TypeOK`, `NameInv` | types; a resolved session has a name | everything |
| `MutexInv` | one registration or revocation at a time | two steps of `Register` are not interleaved with another one's |
| `BornInv` | a session ID comes into being with its connection | a fresh ID has no row and no owner |
| `OwnerInv` | owners are live and carry their session | `RemoveTunnel` deletes its own entries only |
| `IdentityInv` | one name and one start for a session, in memory and in its row | `IdentityKept`; a resume routes the same name |
| `NamesInv` | a name belongs to one session | `Install` does not take a route from another session |
| `RoutingConsistent`, `OneOpenTunnel` | properties | |
| `TokenInv`, `SpentInv` | where tokens are; a spent one is in no row | `TokenSpentOnce` |
| `RevokedInv` | no registration under way is for a revoked session | `RevocationFinal` |

`NewWithinCapacity` needs one invariant more, `CapInv`: from the check to the
installation the count of active tunnels can only fall. `TokenCurrent` and
`NoOrphanRow` are proved under `~DBFaults`, because they fail when statements
fail. `TenureRefined` proves the refinement: initial states map to initial
states, and each action to a step of `SessionTenure` or to a stutter.

`PruneSpares` says how far finding 1 can go. `PruneSparesYoung`
holds in every configuration: whichever statements fail, however removals
and resumes overlap and whatever comes between the steps of a retention round, nothing is deleted before the retention has passed since the
session began. So with a retention that is not shorter than the lifetime a
connected session can lose its row only past its lifetime, when it is being closed anyway; the defaults of `config.go` are 1 h and 8 h.
It rests on `ClockInv`: no row starts in
the future or ends before it started, no session a connection holds starts
in the future, so that a row it writes does not either, and a retention round reads no
clock that is ahead.

**Forwarding** (`ForwardingProofs`). The channel of a request is in one place: in
`pending` while its handler is inside `Forward`, in the hand of a `readLoop`, or
filled (`HandInv`, `MailboxInv`). With it, `PendingClean`, `ReaderNeverBlocks`
and `AnswerNotLost` follow. `SlotAccounting` and `InFlightBounded` are proved by
counting: a step moves one handler into or out of the set that holds a slot.

**Rates** (`RateLimitProofs`). `SlidingLimit` is about any minute, while the code
has windows. The predicate `Accounts` relates the two: what passed in the running window is
at most its count and the limit, what passed in the minute before the window
started is at most the limit, and what passed since an address lost its window
lies a minute back. So two limits cover any minute (`SpanInv`). That is
preserved by a sweep because only ended windows are dropped. `StartInv` says
that windows start at calls, from which `QuietMinuteHeals` follows.

**Hub** (`HubProofs`). `InOrder` needs that numbers grow along the whole way, from
what was written over `send` to `broadcast` (`OrderInv`). `OpenWhileServed` and
`NeverClosedTwice` need that a client is in `unregister` once, after its handler
left and before its channel is closed (`LeftInv`).
`NoOvertakingNoPanic` is the boundary of finding 2: under the hypothesis that
`Run` never takes an `unregister` while the `register` of the same client is still
in its channel, no event is sent on a closed one. `GoneInv` says that a closed client is
neither in the map nor on its way there. One channel for both would make the
hypothesis true.

**Capture store** (`CaptureStoreProofs`). `CInv` follows a record on its way:
what is queued or written has a handler that is done (`StageInv`), and what a
replay refers to stays until the session is old (`OriginalInv`), because a round
of the retention loop is under way only then (`RowInv`). `NoOrphans` and
`KeptUntilShutdown` follow from these; the writer's `INSERT` that the foreign key refuses
is why the second one stops at old sessions. `SessionCaptureLimit` needs, for the tunnel that serves or is about to (the newest), that the requests
of the session that have a record and were missed by no resume are no more than its counter
and the limit (`LimitInv`): a resume starts the counter at the stored rows and calls missed what it did
not find there, and from then on only the newest tunnel makes records that count.
`ReplayOvershoot` is the boundary of finding 3: if at most `k` replays are at once
between their count and their row, the session has at most `k - 1` too many. A
place is reserved only by the count itself, which sees less than the limit stored
(`OvershootInv`); everything else moves a place on or gives it back.

**Handshake** (`HandshakeProofs`). A token is named by the connection it came
with, so `TokenHeld` and `ReplacesOnlyLeft` are about who can still use which
name:

| Part | Says | Why it is needed |
|---|---|---|
| `StateType`, `WireType` | types, the wire apart because its sequences need lemmas of their own | everything |
| `AwayInv`, `SessionInv` | a client that is away has no connection; a connection has a session just while its `readLoop` runs | the steps are about existing ones |
| `TunnelInv` | the tunnel of a session is a connection that has it | a resume or a removal touches its own session |
| `ConnInv` | a connection is one client's, and a serving client holds the token of its own | `TokenHeld`; no other client can resume it |
| `PresentedInv` | the token in a `Register` on its way is not that of a connection a client is on | `ReplacesOnlyLeft` |
| `RowInv` | while a client is on the connection of a session's tunnel, the row, if there is one, has that connection's token | `TokenHeld` |

`TokenHeld` says nothing of a session without a row. That is the consequence of
finding 1 for the client: a row that a late `EndSession` has ended can be pruned while the session is served.

Three theorems are about what is on the wire, where a handler and the public
requests write a frame in two calls each and only the latter hold `writeMu`:

- `ServedFramesWhole`: `FramesWhole` is about clients that serve, but what
  makes it true happens while they wait. `FrameInv` says that the wire of a
  serving client is a row of frames with at most a last length without its
  envelope (`Paired`), and then that of the request which holds `writeMu`
  (`Framed`); and that a client which waits finds its answer whole and all
  that follows framed, or something that it does not accept (`Answered`). A torn
  reply is therefore never the start of serving.
- `SessionsNeverShared`: `ApartInv` follows a session from the handler's
  `Session` over the wire to the client (`Holds`): no two clients hold one,
  so a client is never given another one's URL, not even by a frame that was
  left on a connection. `SessionInv` (a handler before `Register` has no session)
  is what makes a connection safe to use again.
- `FirstAnswerFirst`: the boundary of finding 4. Until the client of a first
  registration has read its answer, nobody knows the URL (`NewcomerInv`), so no request
  can be written before the `Registered` frame or into it. What `handshake_first`
  shows takes a resume.

The assumption `HandshakeAssumption` has a conjunct for them: the names of
sessions and visitors are not those of the two errors.

**Access** (`HostedAccessProofs`). `RegInv` says that registrations are numbered
as they come and that only the last one is under way; it is what `registerMu`
gives. From it, a tunnel is the last one installed for its session
(`TunnelInv`), the auth token in a row is the tunnel's or that of a registration
that got no further (`AuthInv`, hence `CookieFitsRow`), and no registration of a
revoked session is before its write (`RevokedInv`, hence `RevokedShut`). A link
that can be found has let nobody in (`LinkInv`), and a cookie belongs to the
session of its link and is not older (`CookieInv`): `LinkLetsOneIn`. `PauseInv`
says that a request which began alone is the only one, which makes `PauseKept`
inductive.

`AccessRefinesTenure` proves that this module implements `SessionTenure` as well, with
registrations for connections: `Install` is `Serve`, which `RevokedInv` makes
possible only for a session that is not revoked, and claims and pauses are stutters.
The two modules that describe `Register` from its two sides thus promise the
same about who serves a session.

**Model-checked only.** The liveness properties (fairness and ENABLED are out of
the prover's reach) and, naturally, the four violations. Every safety property that
a passing run checks, invariant or action property, is a theorem. The other way
round, `FirstAnswer`, `SessionsApart`,
`AccessTenure` and the two conditional theorems about the hub and the replays
are theorems that no run repeats.

## 5. What the checks found

1. `registry_prune`: `removeTunnel` releases `m.mu` and then calls `EndSession`.
   If a resume writes its row in between, the row of the connected session gets
   an `ended_at`, and after the retention period `PruneHostedBefore` deletes the
   session and its captures while the tunnel is up. The flag's text says
   retention runs "after disconnect". With the defaults (a retention of 1 h and a lifetime of 8 h)
   there is time for it; `PruneSpares` proves that a session is never
   deleted sooner than the retention after it began.
2. `hub_closed`: `select` may take a client's `unregister` before its
   `register`. The closed client is then in the map for good, and the next event
   of its session sends on a closed channel: the process panics. There is no other
   way to it (`NoOvertakingNoPanic`).
3. `replay_limit`: `loadReplayOriginal` counts the stored replays, but a replay is
   stored only after it was forwarded and queued. Replays that overlap see the
   same count, and the session gets more than the "200 captured requests and
   replays per tunnel" of `deploy/README.md`; `ReplayOvershoot` bounds the excess
   by the number that overlap.
4. `handshake_first`: after a resume the tunnel is routed, under a URL that is
   known, before the handler writes the `Registered` frame, and it writes it
   without `writeMu`. A public request goes out first or tears the frame. The client calls that an
   "unexpected registration response" and drops the connection, and as the
   row has the new token and the client the old one, its next resume is
   rejected and it gets another address. `ClientServed` shows that it gets one,
   and `FirstAnswerFirst` that a first registration is not affected.

More observations, which are behaviours of the models and contradict no property above:

- A resume loads the counter of its tunnel from the stored rows while records of the
  old tunnel may still be made or queued. These are not counted, so a session can have more captures
  than the 200 of `deploy/README.md:71`, by the number that was on its way at a resume
  (without `missed`, TLC finds `SessionCaptureLimit` violated).
- When the peer ends only its half of a connection, `readLoop` takes the tunnel away and does not
  close the connection. A request that is blocked in `Encode` because the peer does not read,
  and those behind it on `writeMu`, then keep their slots until the peer reads or ends the
  other half too; nothing of the server will close a connection that is in none of its maps.
  `ClosedFinishes` therefore speaks, for such a connection, of the requests that wait for an answer.
- The late `EndSession` of finding 1 has a consequence for the client too: when the row of its session has
  been pruned, its next resume is rejected and it gets another address. `TokenHeld` is about
  sessions that have a row.
- A resume whose `GetSession` fails for a reason of the database is answered with
  "invalid session resume" (`auth.go:25`), on which the client gives its session up.
- `Start` returns as soon as `http.Server.Shutdown` was called, so the process may exit before the queue is
  drained: `KeptUntilShutdown` and `QueueDrains` say what is kept before that. And
  once the context is done `select` may still take a record with the cancelled context, whose
  `BeginTx` fails: `QueueDrains` says that it leaves the queue, not that it is stored.
- A resume is admitted without `checkHostedCapacity` (`tunnel.go:150`). When a new tunnel
  has taken the place of one that hung up, the old one can return and the server
  has one more than "maximum concurrent quick tunnels" (`cmd/server/main.go:41`):
  `NewWithinCapacity` is about new ones.
- A client whose reply was lost for any reason, not only as in finding 4,
  loses its address within the 30 seconds of grace, because the token it has is
  spent: `ClientServed` says "on its session or a new one" for that.
- Two operators who pause and resume at once can leave the table and the flag in
  memory unequal (each writes one and then the other), until the next request or
  restart. `PauseKept` excludes such requests by `overlap`.
- A link followed while a resume is between `UpsertSession` and `installTunnel`
  is exchanged for the token of the tunnel that is being replaced, which
  `authorize` already refuses; if `CountRequests` then fails, the tunnel that
  stays connected has a cookie that opens nothing. These are the exceptions in
  `CookieFitsRow`.

## 6. What is not modelled

- **`http.Server.Shutdown` and the listeners** (`server.go`). What they wait for is
  decided in the standard library. The parts of a shutdown that are this
  code's own are modelled where they matter: the hub's loop ends in `Hub`, the
  writer, the queue and the database end in `CaptureStore`, and a restart is part of
  `TunnelRegistry`, `Handshake` and `HostedAccess`.
- **The dashboard page** (`dashboard.js`). One thread, with no state that another
  component reads. Its hazard, answers that arrive after the selection changed, is
  listed without a property: the order of its answers is the browser's.
- **Header, body and log formatting, HTML** (`util.go`, `logging.go`, parts of `http.go`): conversions for
  display; no property here distinguishes their results.
- **Flags, certificates, ACME, installers, systemd units**: input and output only,
  with no state that another component depends on.
- **`Ping` and `Pong`**: the client sends no `Ping`.
- **Sessions that are not hosted** (`PruneBefore`): the server makes none.
- **Guessing**: random IDs, tokens and links are taken to be distinct and unguessed.
