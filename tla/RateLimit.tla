------------------------------ MODULE RateLimit ------------------------------
(***************************************************************************)
(* The rate windows of internal/server/tunnel.go.  The same two-level      *)
(* limiter is used twice: allowPublicRequest (6000 and 120 a minute) and   *)
(* checkRegistrationRate (60 and 10 a minute); each use runs under one     *)
(* lock (publicMu, registerMu), so a call is a step.                       *)
(***************************************************************************)
EXTENDS Integers, FiniteSets

CONSTANTS
  Addr,        \* source addresses
  GlobalLimit, \* calls a minute in all
  IPLimit,     \* calls a minute of one address
  MapCap,      \* 10000, tested before an entry is added
  Minute,      \* in ticks of the clock
  MaxTime,     \* bound: the clock
  MaxCalls,    \* bound: calls
  NoWindow     \* a zero rateWindow, or no entry

ASSUME RateAssumption ==
  /\ IsFiniteSet(Addr)
  /\ GlobalLimit \in Nat \ {0} /\ IPLimit \in Nat \ {0}
  /\ MapCap \in Nat /\ Minute \in Nat \ {0}
  /\ MaxTime \in Nat /\ MaxCalls \in Nat

VARIABLES
  now,
  global, \* publicGlobal, rateGlobal
  byIP,   \* publicByIP, rateByIP
  calls,    \* history: how many calls there were
  lastCall, \* history: when the last one was
  passed    \* history: the calls that were let through

vars == <<now, global, byIP, calls, lastCall, passed>>

Window == [start : Nat, count : Nat]
Pass   == [addr : Addr, at : Nat, id : Nat]

ASSUME WindowAssumption == NoWindow \notin Window

-----------------------------------------------------------------------------

(* A window that has ended, at the first tick at which it has.              *)
(* Mutant: one tick late.                                                   *)
ExpiredLate(w) == w = NoWindow \/ now - w.start > Minute

Expired(w) == w = NoWindow \/ now - w.start >= Minute

(* advanceRateWindow.  Mutant: a new window starts at the cutoff.           *)
AdvancedFromCutoff(w) ==
  IF Expired(w) THEN [start |-> now - Minute, count |-> 1]
                ELSE [start |-> w.start, count |-> w.count + 1]

Advanced(w) == IF Expired(w) THEN [start |-> now, count |-> 1]
                             ELSE [start |-> w.start, count |-> w.count + 1]

Live(windows) == {a \in Addr : windows[a] # NoWindow}

(* The test of rateMapHasCapacity.  Mutant: it is left out.                 *)
AlwaysRoom(windows) == TRUE

HasRoom(windows) == Cardinality(Live(windows)) <= MapCap

(* What rateMapHasCapacity leaves: only a full map is swept.  Mutant: it    *)
(* drops the windows that still run as well.                                *)
SweptAll == IF HasRoom(byIP) THEN byIP ELSE [a \in Addr |-> NoWindow]

Swept == IF HasRoom(byIP) THEN byIP
         ELSE [a \in Addr |-> IF Expired(byIP[a]) THEN NoWindow ELSE byIP[a]]

(* The windows once the call of a counts.                                   *)
Counted(a) == [Swept EXCEPT ![a] = Advanced(@)]

Called == /\ calls < MaxCalls
          /\ calls' = calls + 1
          /\ lastCall' = now

-----------------------------------------------------------------------------

Init ==
  /\ now = 0
  /\ global = NoWindow
  /\ byIP = [a \in Addr |-> NoWindow]
  /\ calls = 0 /\ lastCall = 0
  /\ passed = {}

(* Refused for the sum of all addresses, before the address is looked at.   *)
RefuseGlobal(a) ==
  /\ Called
  /\ Advanced(global).count > GlobalLimit
  /\ global' = Advanced(global)
  /\ UNCHANGED <<now, byIP, passed>>

(* Refused because the map is full, of addresses that called this minute.   *)
RefuseFull(a) ==
  /\ Called
  /\ Advanced(global).count <= GlobalLimit
  /\ ~HasRoom(Swept)
  /\ global' = Advanced(global)
  /\ byIP' = Swept
  /\ UNCHANGED <<now, passed>>

(* The call counts for its address, and passes or not.                      *)
Count(a) ==
  /\ Called
  /\ Advanced(global).count <= GlobalLimit
  /\ HasRoom(Swept)
  /\ global' = Advanced(global)
  /\ byIP' = Counted(a)
  /\ passed' = IF byIP'[a].count <= IPLimit
                 THEN passed \union {[addr |-> a, at |-> now, id |-> calls]}
                 ELSE passed
  /\ UNCHANGED now

Tick ==
  /\ now < MaxTime
  /\ now' = now + 1
  /\ UNCHANGED <<global, byIP, calls, lastCall, passed>>

Next ==
  \/ \E a \in Addr : RefuseGlobal(a) \/ RefuseFull(a) \/ Count(a)
  \/ Tick

Spec == Init /\ [][Next]_vars

-----------------------------------------------------------------------------

(* Every variable has its type.                                             *)
TypeOK ==
  /\ now \in Nat /\ calls \in Nat /\ lastCall \in Nat
  /\ global \in Window \union {NoWindow}
  /\ byIP \in [Addr -> Window \union {NoWindow}]
  /\ passed \subseteq Pass

PassedIn(t)     == {p \in passed : t <= p.at /\ p.at < t + Minute}
PassedOf(a, t)  == {p \in PassedIn(t) : p.addr = a}

(* The windows do not slide, so a minute can see the end of one and the     *)
(* start of the next, but never more than two limits, although windows are  *)
(* dropped when the map is full (tunnel.go line 156 to 174).                *)
SlidingLimit ==
  \A t \in 0..MaxTime :
    /\ Cardinality(PassedIn(t)) <= 2 * GlobalLimit
    /\ \A a \in Addr : Cardinality(PassedOf(a, t)) <= 2 * IPLimit

(* The map has a bounded number of entries, one more than its limit since   *)
(* the test comes before the entry (tunnel.go line 165).                    *)
MapBounded == Cardinality(Live(byIP)) <= MapCap + 1

(* Would a call of a be let through now?                                    *)
Allowed(a) ==
  /\ Advanced(global).count <= GlobalLimit
  /\ HasRoom(Swept)
  /\ Counted(a)[a].count <= IPLimit

(* After a minute without a call every address is served again, whatever    *)
(* the windows and the map held: no refusal outlives its minute.            *)
QuietMinuteHeals ==
  calls = 0 \/ now - lastCall >= Minute => \A a \in Addr : Allowed(a)
=============================================================================
