--------------------------- MODULE RateLimitProofs ---------------------------
(* Proofs about RateLimit, for any limits, addresses and length of a minute.*)
(*                                                                          *)
(* SlidingLimit counts calls over any minute, the windows only over their   *)
(* own.  Accounts ties the two: what passed in the running window is at     *)
(* most its count, and what passed in the minute before the window started  *)
(* was at most one limit.                                                   *)
EXTENDS RateLimit, FiniteSetTheorems, TLAPS

(* Passed calls at or after t, in the minute before t, and of an address.   *)
Since(P, t)  == {p \in P : p.at >= t}
Before(P, t) == {p \in P : p.at < t /\ p.at > t - Minute}
Within(P, t) == {p \in P : t <= p.at /\ p.at < t + Minute}
Of(P, a)     == {p \in P : p.addr = a}

(* At time t, the window w with limit n accounts for the passed calls P.    *)
Accounts(w, P, n, t) ==
  /\ w = NoWindow =>
       /\ \A p \in P : p.at < t
       /\ Cardinality(Since(P, t - Minute + 1)) <= n
  /\ w # NoWindow =>
       /\ w.start <= t
       /\ \A p \in P : p.at < w.start + Minute
       /\ Cardinality(Since(P, w.start)) <= w.count
       /\ Cardinality(Since(P, w.start)) <= n
       /\ Cardinality(Before(P, w.start)) <= n

Spans(P, n) == \A t \in Nat : Cardinality(Within(P, t)) <= 2 * n

-----------------------------------------------------------------------------
(* Facts about sets of passed calls.                                        *)

LEMMA Parts ==
  ASSUME NEW P, IsFiniteSet(P), NEW Q \in SUBSET P
  PROVE  /\ IsFiniteSet(Q) /\ Cardinality(Q) \in Nat
         /\ Cardinality(Q) <= Cardinality(P)
BY FS_Subset, FS_CardinalityType

LEMMA NoneCounted == Cardinality({}) = 0
BY FS_EmptySet

LEMMA PartsOf ==
  ASSUME NEW P, IsFiniteSet(P), NEW t
  PROVE  /\ IsFiniteSet(Since(P, t)) /\ Cardinality(Since(P, t)) \in Nat
         /\ IsFiniteSet(Before(P, t)) /\ Cardinality(Before(P, t)) \in Nat
         /\ IsFiniteSet(Within(P, t)) /\ Cardinality(Within(P, t)) \in Nat
<1>1. Since(P, t) \subseteq P /\ Before(P, t) \subseteq P /\ Within(P, t) \subseteq P
  BY DEF Since, Before, Within
<1> QED
  BY <1>1, Parts

LEMMA AddedCount ==
  ASSUME NEW P, IsFiniteSet(P), NEW p
  PROVE  /\ IsFiniteSet(P \union {p})
         /\ p \notin P => Cardinality(P \union {p}) = Cardinality(P) + 1
BY FS_AddElement, Zenon

LEMMA AtMostOneMore ==
  ASSUME NEW P, IsFiniteSet(P), NEW p, NEW n \in Nat, Cardinality(P) <= n
  PROVE  IsFiniteSet(P \union {p}) /\ Cardinality(P \union {p}) <= n + 1
<1>1. Cardinality(P) \in Nat
  BY FS_CardinalityType
<1>2. CASE p \in P
  <2> DEFINE Q == P \union {p}
  <2>1. Q = P
    BY <1>2
  <2> HIDE DEF Q
  <2>2. IsFiniteSet(Q) /\ Cardinality(Q) <= n + 1
    BY <1>1, <2>1
  <2> QED
    BY <2>2 DEF Q
<1>3. CASE p \notin P
  BY <1>1, <1>3, AddedCount
<1> QED
  BY <1>2, <1>3

LEMMA UnionCount ==
  ASSUME NEW S, IsFiniteSet(S), NEW T, IsFiniteSet(T), NEW Q \in SUBSET (S \union T),
         NEW n \in Nat, Cardinality(S) <= n, Cardinality(T) <= n
  PROVE  Cardinality(Q) <= 2 * n
<1>1. /\ IsFiniteSet(S \union T)
      /\ Cardinality(S \union T) = Cardinality(S) + Cardinality(T) - Cardinality(S \intersect T)
  BY FS_Union
<1>2. IsFiniteSet(S \intersect T)
  <2>1. S \intersect T \in SUBSET S
    OBVIOUS
  <2> QED
    BY <2>1, FS_Subset
<1>3. /\ Cardinality(S) \in Nat /\ Cardinality(T) \in Nat
      /\ Cardinality(S \intersect T) \in Nat
  BY <1>2, FS_CardinalityType
<1>4. Cardinality(Q) \in Nat /\ Cardinality(Q) <= Cardinality(S \union T)
  BY <1>1, Parts
<1> QED
  BY <1>1, <1>3, <1>4

-----------------------------------------------------------------------------
(* The four things that happen to a window.                                 *)

(* A call that does not pass.                                               *)
LEMMA AdvanceKeeps ==
  ASSUME now \in Nat, NEW w \in Window \union {NoWindow}, NEW P \in SUBSET Pass,
         IsFiniteSet(P), NEW n \in Nat, Accounts(w, P, n, now)
  PROVE  /\ Advanced(w) \in Window
         /\ Accounts(Advanced(w), P, n, now)
         /\ Cardinality(Since(P, Advanced(w).start)) <= Advanced(w).count - 1
<1> USE RateAssumption, WindowAssumption
<1>p. \A p \in P : p.at \in Nat
  BY DEF Pass
<1>1. CASE Expired(w)
  <2>1. Advanced(w) = [start |-> now, count |-> 1]
    BY <1>1 DEF Advanced
  <2>2. \A p \in P : p.at < now
    BY <1>1, <1>p DEF Expired, Accounts, Window
  <2>3. Since(P, now) = {}
    BY <1>p, <2>2 DEF Since
  <2>4. Cardinality(Before(P, now)) <= n
    <3>1. CASE w = NoWindow
      <4>1. Before(P, now) \subseteq Since(P, now - Minute + 1)
        BY <1>p DEF Before, Since
      <4>2. IsFiniteSet(Since(P, now - Minute + 1))
            /\ Cardinality(Since(P, now - Minute + 1)) \in Nat
        BY PartsOf
      <4> QED
        BY <3>1, <4>1, <4>2, Parts DEF Accounts
    <3>2. CASE w # NoWindow
      <4>1. w.start \in Nat /\ now - w.start >= Minute
        BY <1>1, <3>2 DEF Expired, Window
      <4>2. Before(P, now) \subseteq Since(P, w.start)
        BY <1>p, <4>1 DEF Before, Since
      <4>3. IsFiniteSet(Since(P, w.start)) /\ Cardinality(Since(P, w.start)) \in Nat
        BY <4>1, PartsOf
      <4> QED
        BY <3>2, <4>2, <4>3, Parts DEF Accounts
    <3> QED
      BY <3>1, <3>2
  <2>5. Advanced(w) \in Window /\ Advanced(w) # NoWindow
    BY <2>1 DEF Window
  <2>6. \A p \in P : p.at < now + Minute
    BY <1>p, <2>2
  <2> QED
    BY <2>1, <2>3, <2>4, <2>5, <2>6, NoneCounted DEF Accounts
<1>2. CASE ~Expired(w)
  <2>1. w \in Window /\ w # NoWindow
    BY <1>2 DEF Expired
  <2>2. Advanced(w) = [start |-> w.start, count |-> w.count + 1]
    BY <1>2 DEF Advanced
  <2>3. w.start \in Nat /\ w.count \in Nat
    BY <2>1 DEF Window
  <2>4. Advanced(w) \in Window /\ Advanced(w) # NoWindow
    BY <2>2, <2>3 DEF Window
  <2>5. Cardinality(Since(P, w.start)) \in Nat
    BY <2>3, PartsOf
  <2> QED
    BY <2>1, <2>2, <2>3, <2>4, <2>5 DEF Accounts
<1> QED
  BY <1>1, <1>2

(* A call that passes.                                                      *)
LEMMA PassKeeps ==
  ASSUME now \in Nat, NEW w \in Window \union {NoWindow}, NEW P \in SUBSET Pass,
         IsFiniteSet(P), NEW n \in Nat, Accounts(w, P, n, now),
         Advanced(w).count <= n, NEW p \in Pass, p.at = now, p \notin P
  PROVE  Accounts(Advanced(w), P \union {p}, n, now)
<1> USE RateAssumption, WindowAssumption
<1> DEFINE v == Advanced(w)
<1>1. /\ v \in Window /\ Accounts(v, P, n, now)
      /\ Cardinality(Since(P, v.start)) <= v.count - 1
  BY AdvanceKeeps
<1>2. v # NoWindow /\ v.start \in Nat /\ v.count \in Nat /\ v.start <= now
  BY <1>1 DEF Window, Accounts
<1> HIDE DEF v
<1>3. Since(P \union {p}, v.start) = Since(P, v.start) \union {p}
      /\ p \notin Since(P, v.start)
  BY <1>2 DEF Since
<1>4. Cardinality(Since(P \union {p}, v.start)) = Cardinality(Since(P, v.start)) + 1
      /\ Cardinality(Since(P, v.start)) \in Nat
  BY <1>2, <1>3, PartsOf, AddedCount
<1>5. Before(P \union {p}, v.start) = Before(P, v.start)
  BY <1>2 DEF Before
<1>6. now < v.start + Minute
  BY DEF v, Advanced, Expired, Window
<1>7. v.count <= n
  BY DEF v
<1>8. Accounts(v, P \union {p}, n, now)
  BY <1>1, <1>2, <1>4, <1>5, <1>6, <1>7 DEF Accounts
<1> QED
  BY <1>8 DEF v

(* ... adds to the minutes that end with it only.                           *)
LEMMA SpanKeeps ==
  ASSUME now \in Nat, NEW v \in Window, NEW P \in SUBSET Pass, IsFiniteSet(P),
         NEW n \in Nat, NEW p \in Pass, p.at = now,
         Accounts(v, P \union {p}, n, now), Spans(P, n)
  PROVE  Spans(P \union {p}, n)
<1> USE RateAssumption, WindowAssumption
<1> DEFINE Q == P \union {p}
<1>1. v # NoWindow /\ v.start \in Nat /\ v.start <= now
      /\ Cardinality(Since(Q, v.start)) <= n /\ Cardinality(Before(Q, v.start)) <= n
  BY DEF Window, Accounts
<1>2. IsFiniteSet(Q) /\ \A q \in Q : q.at \in Nat
  BY AddedCount DEF Pass
<1>3. SUFFICES ASSUME NEW t \in Nat
               PROVE  Cardinality(Within(Q, t)) <= 2 * n
  BY DEF Spans
<1>4. CASE t <= now /\ now < t + Minute
  <2>1. Within(Q, t) \subseteq Since(Q, v.start) \union Before(Q, v.start)
    BY <1>1, <1>2, <1>4 DEF Within, Since, Before
  <2>2. IsFiniteSet(Since(Q, v.start)) /\ IsFiniteSet(Before(Q, v.start))
    BY <1>1, <1>2, PartsOf
  <2> QED
    BY <1>1, <2>1, <2>2, UnionCount
<1>5. CASE ~(t <= now /\ now < t + Minute)
  <2>1. Within(Q, t) = Within(P, t)
    BY <1>5 DEF Within
  <2> QED
    BY <2>1 DEF Spans
<1> QED
  BY <1>4, <1>5

(* The map is swept.                                                        *)
LEMMA SweepKeeps ==
  ASSUME now \in Nat, NEW w \in Window \union {NoWindow}, NEW P \in SUBSET Pass,
         IsFiniteSet(P), NEW n \in Nat, Accounts(w, P, n, now), Expired(w)
  PROVE  Accounts(NoWindow, P, n, now)
<1> USE RateAssumption, WindowAssumption
<1>p. \A p \in P : p.at \in Nat
  BY DEF Pass
<1>1. CASE w # NoWindow
  <2>1. w.start \in Nat /\ now - w.start >= Minute
    BY <1>1 DEF Expired, Window
  <2>2. \A p \in P : p.at < now
    BY <1>1, <1>p, <2>1 DEF Accounts
  <2>3. Since(P, now - Minute + 1) \subseteq Since(P, w.start)
    BY <1>p, <2>1 DEF Since
  <2>4. IsFiniteSet(Since(P, w.start)) /\ Cardinality(Since(P, w.start)) \in Nat
    BY <2>1, PartsOf
  <2>5. /\ Cardinality(Since(P, now - Minute + 1)) \in Nat
        /\ Cardinality(Since(P, now - Minute + 1)) <= Cardinality(Since(P, w.start))
    BY <2>3, <2>4, Parts
  <2> QED
    BY <1>1, <2>2, <2>4, <2>5 DEF Accounts
<1> QED
  BY <1>1

(* Time passes.                                                             *)
LEMMA TickKeeps ==
  ASSUME now \in Nat, NEW w \in Window \union {NoWindow}, NEW P \in SUBSET Pass,
         IsFiniteSet(P), NEW n \in Nat, Accounts(w, P, n, now)
  PROVE  Accounts(w, P, n, now + 1)
<1> USE RateAssumption, WindowAssumption
<1>p. \A p \in P : p.at \in Nat
  BY DEF Pass
<1>1. CASE w = NoWindow
  <2>1. Since(P, now + 1 - Minute + 1) \subseteq Since(P, now - Minute + 1)
    BY <1>p DEF Since
  <2>2. IsFiniteSet(Since(P, now - Minute + 1))
        /\ Cardinality(Since(P, now - Minute + 1)) \in Nat
    BY PartsOf
  <2>3. /\ Cardinality(Since(P, now + 1 - Minute + 1)) \in Nat
        /\ Cardinality(Since(P, now + 1 - Minute + 1))
             <= Cardinality(Since(P, now - Minute + 1))
    BY <2>1, <2>2, Parts
  <2>4. \A p \in P : p.at < now + 1
    BY <1>1, <1>p DEF Accounts
  <2> QED
    BY <1>1, <2>2, <2>3, <2>4 DEF Accounts
<1>2. CASE w # NoWindow
  BY <1>2 DEF Accounts, Window
<1> QED
  BY <1>1, <1>2

-----------------------------------------------------------------------------
(* The invariant.                                                           *)

PassInv == IsFiniteSet(passed) /\ \A p \in passed : p.id < calls

AccountInv ==
  /\ Accounts(global, passed, GlobalLimit, now)
  /\ \A a \in Addr : Accounts(byIP[a], Of(passed, a), IPLimit, now)

SpanInv ==
  /\ Spans(passed, GlobalLimit)
  /\ \A a \in Addr : Spans(Of(passed, a), IPLimit)

(* Windows start at calls.                                                  *)
Recent(w) == w # NoWindow => calls # 0 /\ w.start <= lastCall
StartInv  == Recent(global) /\ \A a \in Addr : Recent(byIP[a])

RInv ==
  /\ TypeOK
  /\ PassInv
  /\ AccountInv
  /\ SpanInv
  /\ StartInv
  /\ MapBounded

LEMMA OfFinite ==
  ASSUME NEW P \in SUBSET Pass, IsFiniteSet(P), NEW a
  PROVE  Of(P, a) \in SUBSET Pass /\ IsFiniteSet(Of(P, a))
<1>1. Of(P, a) \in SUBSET P
  BY DEF Of
<1> QED
  BY <1>1, FS_Subset

LEMMA RInit == Init => RInv
<1> SUFFICES ASSUME Init PROVE RInv
  OBVIOUS
<1> USE RateAssumption, WindowAssumption
<1>1. TypeOK /\ StartInv
  BY DEF Init, TypeOK, StartInv, Recent
<1>2. PassInv
  BY FS_EmptySet DEF Init, PassInv
<1>3. /\ \A t : Since({}, t) = {} /\ Within({}, t) = {}
      /\ \A a : Of({}, a) = {}
  BY DEF Since, Within, Of
<1>4. AccountInv
  BY <1>3, NoneCounted DEF Init, AccountInv, Accounts
<1>5. SpanInv
  <2>1. ASSUME NEW n \in Nat PROVE Spans({}, n)
    <3>1. 0 <= 2 * n
      OBVIOUS
    <3>2. \A t \in Nat : Cardinality(Within({}, t)) = 0
      BY <1>3, NoneCounted
    <3> QED
      BY <3>1, <3>2 DEF Spans
  <2>2. passed = {}
    BY DEF Init
  <2> QED
    BY <1>3, <2>1, <2>2 DEF SpanInv
<1>6. MapBounded
  <2>1. Live(byIP) = {}
    BY DEF Init, Live
  <2> QED
    BY <2>1, NoneCounted DEF MapBounded
<1> QED
  BY <1>1, <1>2, <1>4, <1>5, <1>6 DEF RInv

(* What a call does to the window of all addresses and to the map.          *)
LEMMA CallFacts ==
  ASSUME RInv
  PROVE  /\ Advanced(global) \in Window
         /\ Accounts(Advanced(global), passed, GlobalLimit, now)
         /\ Swept \in [Addr -> Window \union {NoWindow}]
         /\ \A a \in Addr : /\ Accounts(Swept[a], Of(passed, a), IPLimit, now)
                            /\ Swept[a] = byIP[a] \/ Swept[a] = NoWindow
<1> USE RateAssumption, WindowAssumption DEF RInv
<1>1. /\ now \in Nat /\ passed \in SUBSET Pass /\ IsFiniteSet(passed)
      /\ global \in Window \union {NoWindow}
      /\ byIP \in [Addr -> Window \union {NoWindow}]
  BY DEF TypeOK, PassInv
<1>2. Advanced(global) \in Window /\ Accounts(Advanced(global), passed, GlobalLimit, now)
  BY <1>1, AdvanceKeeps DEF AccountInv
<1>3. Swept \in [Addr -> Window \union {NoWindow}]
  BY <1>1 DEF Swept
<1>4. \A a \in Addr : \/ Swept[a] = byIP[a]
                      \/ Swept[a] = NoWindow /\ Expired(byIP[a])
  BY <1>1 DEF Swept
<1>5. ASSUME NEW a \in Addr
      PROVE  Accounts(Swept[a], Of(passed, a), IPLimit, now)
  <2>1. Of(passed, a) \in SUBSET Pass /\ IsFiniteSet(Of(passed, a))
    BY <1>1, OfFinite
  <2>2. byIP[a] \in Window \union {NoWindow}
        /\ Accounts(byIP[a], Of(passed, a), IPLimit, now)
    BY <1>1 DEF AccountInv
  <2>3. CASE Swept[a] = byIP[a]
    BY <2>2, <2>3
  <2>4. CASE Swept[a] = NoWindow /\ Expired(byIP[a])
    BY <1>1, <2>1, <2>2, <2>4, SweepKeeps
  <2> QED
    BY <1>4, <2>3, <2>4
<1> QED
  BY <1>2, <1>3, <1>4, <1>5

LEMMA LiveFinite ==
  ASSUME NEW f \in [Addr -> Window \union {NoWindow}]
  PROVE  IsFiniteSet(Live(f)) /\ Cardinality(Live(f)) \in Nat
<1>1. Live(f) \in SUBSET Addr
  BY DEF Live
<1> QED
  BY <1>1, Parts, RateAssumption

(* Sweeping does not add entries.                                           *)
LEMMA SweptBounded ==
  ASSUME RInv
  PROVE  Cardinality(Live(Swept)) <= MapCap + 1
<1>1. byIP \in [Addr -> Window \union {NoWindow}] /\ MapBounded
  BY DEF RInv, TypeOK
<1>2. Live(Swept) \in SUBSET Live(byIP)
  BY <1>1, CallFacts DEF Live
<1> QED
  BY <1>1, <1>2, LiveFinite, Parts, RateAssumption DEF MapBounded

(* A window starts no later than now.                                       *)
LEMMA StartedByNow ==
  ASSUME now \in Nat, NEW w \in Window \union {NoWindow}, w # NoWindow => w.start <= now
  PROVE  Advanced(w).start <= now
BY WindowAssumption DEF Advanced, Expired, Window

(* The parts of RInv that every call keeps.                                 *)
LEMMA CalledKeeps ==
  ASSUME RInv, Called, now' = now, global' = Advanced(global),
         byIP' \in [Addr -> Window \union {NoWindow}],
         \A a \in Addr : byIP'[a] # NoWindow => byIP'[a].start <= now,
         passed' \in SUBSET Pass
  PROVE  TypeOK' /\ StartInv'
<1>1. now \in Nat /\ calls \in Nat /\ global \in Window \union {NoWindow}
  BY DEF RInv, TypeOK
<1>2. Advanced(global) \in Window
  BY CallFacts
<1>3. calls' = calls + 1 /\ lastCall' = now
  BY DEF Called
<1>4. TypeOK'
  BY <1>1, <1>2, <1>3 DEF TypeOK
<1>5. global # NoWindow => global.start <= now
  BY DEF RInv, AccountInv, Accounts
<1>6. global'.start <= now
  BY <1>1, <1>5, StartedByNow
<1> QED
  BY <1>1, <1>3, <1>4, <1>6 DEF StartInv, Recent

LEMMA CallStarts ==
  ASSUME RInv, NEW a \in Addr
  PROVE  /\ byIP[a] # NoWindow => byIP[a].start <= now
         /\ Swept[a] # NoWindow => Swept[a].start <= now
<1>1. byIP[a] # NoWindow => byIP[a].start <= now
  BY DEF RInv, AccountInv, Accounts
<1>2. Swept[a] # NoWindow => Swept[a].start <= now
  BY CallFacts DEF Accounts
<1> QED
  BY <1>1, <1>2

LEMMA RefuseGlobalStep == ASSUME RInv, NEW a \in Addr, RefuseGlobal(a) PROVE RInv'
<1>1. /\ Called /\ now' = now /\ global' = Advanced(global)
      /\ byIP' = byIP /\ passed' = passed
  BY DEF RefuseGlobal
<1>2. TypeOK' /\ StartInv'
  BY <1>1, CalledKeeps, CallStarts DEF RInv, TypeOK
<1>3. PassInv'
  BY <1>1 DEF RInv, TypeOK, PassInv, Called, Pass
<1>4. AccountInv'
  BY <1>1, CallFacts DEF RInv, AccountInv
<1>5. SpanInv' /\ MapBounded'
  BY <1>1 DEF RInv, SpanInv, MapBounded
<1> QED
  BY <1>2, <1>3, <1>4, <1>5 DEF RInv

LEMMA RefuseFullStep == ASSUME RInv, NEW a \in Addr, RefuseFull(a) PROVE RInv'
<1>1. /\ Called /\ now' = now /\ global' = Advanced(global)
      /\ byIP' = Swept /\ passed' = passed
  BY DEF RefuseFull
<1>2. TypeOK' /\ StartInv'
  BY <1>1, CalledKeeps, CallStarts, CallFacts DEF RInv, TypeOK
<1>3. PassInv'
  BY <1>1 DEF RInv, TypeOK, PassInv, Called, Pass
<1>4. AccountInv'
  BY <1>1, CallFacts DEF AccountInv
<1>5. SpanInv'
  BY <1>1 DEF RInv, SpanInv
<1>6. MapBounded'
  BY <1>1, SweptBounded DEF MapBounded
<1> QED
  BY <1>2, <1>3, <1>4, <1>5, <1>6 DEF RInv

LEMMA CountStep == ASSUME RInv, NEW a \in Addr, Count(a) PROVE RInv'
<1> USE RateAssumption, WindowAssumption
<1> DEFINE v == Advanced(Swept[a])
           p == [addr |-> a, at |-> now, id |-> calls]
<1>1. /\ Called /\ now' = now /\ global' = Advanced(global)
      /\ Advanced(global).count <= GlobalLimit /\ HasRoom(Swept)
      /\ byIP' = [Swept EXCEPT ![a] = v]
      /\ passed' = IF byIP'[a].count <= IPLimit THEN passed \union {p} ELSE passed
  BY DEF Count, Counted
<1>2. /\ now \in Nat /\ calls \in Nat /\ passed \in SUBSET Pass
      /\ IsFiniteSet(passed) /\ global \in Window \union {NoWindow}
      /\ \A q \in passed : q.id < calls
  BY DEF RInv, TypeOK, PassInv
<1>3. /\ Swept \in [Addr -> Window \union {NoWindow}]
      /\ \A b \in Addr : Accounts(Swept[b], Of(passed, b), IPLimit, now)
  BY CallFacts
<1>4. Of(passed, a) \in SUBSET Pass /\ IsFiniteSet(Of(passed, a))
  BY <1>2, OfFinite
<1>5. v \in Window /\ Accounts(v, Of(passed, a), IPLimit, now)
  BY <1>2, <1>3, <1>4, AdvanceKeeps
<1>6. p \in Pass /\ p \notin passed /\ p.at = now /\ p.addr = a
  BY <1>2 DEF Pass
<1>7. p \notin Of(passed, a)
  BY <1>6 DEF Of
<1>8. byIP' \in [Addr -> Window \union {NoWindow}]
      /\ byIP'[a] = v /\ \A b \in Addr \ {a} : byIP'[b] = Swept[b]
  BY <1>1, <1>3, <1>5
<1>9. TypeOK' /\ StartInv'
  <2>1. v.start <= now
    BY <1>2, <1>3, CallStarts, StartedByNow
  <2>2. passed' \in SUBSET Pass
    BY <1>1, <1>2, <1>6
  <2>3. \A b \in Addr : byIP'[b] # NoWindow => byIP'[b].start <= now
    BY <1>8, <2>1, CallStarts
  <2> HIDE DEF v, p
  <2> QED
    BY <1>1, <1>8, <2>2, <2>3, CalledKeeps
<1>10. MapBounded'
  <2>1. Live(byIP') \in SUBSET (Live(Swept) \union {a})
    BY <1>8 DEF Live
  <2>2. /\ IsFiniteSet(Live(Swept)) /\ Cardinality(Live(Swept)) \in Nat
        /\ Cardinality(Live(Swept)) <= MapCap
    BY <1>1, <1>3, LiveFinite DEF HasRoom
  <2>3. IsFiniteSet(Live(Swept) \union {a})
        /\ Cardinality(Live(Swept) \union {a}) <= MapCap + 1
    BY <2>2, AtMostOneMore
  <2>4. /\ Cardinality(Live(byIP')) \in Nat
        /\ Cardinality(Live(byIP')) <= Cardinality(Live(Swept) \union {a})
        /\ Cardinality(Live(Swept) \union {a}) \in Nat
    BY <2>1, <2>3, Parts
  <2>5. Cardinality(Live(byIP')) <= MapCap + 1
    BY <2>3, <2>4
  <2> QED
    BY <2>5 DEF MapBounded, Live
<1>11. CASE v.count <= IPLimit
  <2>1. passed' = passed \union {p}
    BY <1>1, <1>8, <1>11
  <2>2. Of(passed', a) = Of(passed, a) \union {p}
        /\ \A b \in Addr \ {a} : Of(passed', b) = Of(passed, b)
    BY <1>6, <2>1 DEF Of
  <2>3. PassInv'
    <3>1. IsFiniteSet(passed')
      BY <1>2, <2>1, AddedCount
    <3>2. \A q \in passed' : q.id < calls'
      BY <1>1, <1>2, <2>1 DEF Called, Pass
    <3> QED
      BY <3>1, <3>2 DEF PassInv
  <2>4. Accounts(Advanced(global), passed \union {p}, GlobalLimit, now)
    BY <1>1, <1>2, <1>6, PassKeeps DEF RInv, AccountInv
  <2>5. Accounts(v, Of(passed, a) \union {p}, IPLimit, now)
    BY <1>2, <1>3, <1>4, <1>6, <1>7, <1>11, PassKeeps
  <2>6. AccountInv'
    BY <1>1, <1>3, <1>8, <2>1, <2>2, <2>4, <2>5 DEF AccountInv
  <2>7. Spans(passed \union {p}, GlobalLimit)
    <3>1. Spans(passed, GlobalLimit) /\ Advanced(global) \in Window
      BY CallFacts DEF RInv, SpanInv
    <3> HIDE DEF p
    <3> QED
      BY <1>2, <1>6, <2>4, <3>1, SpanKeeps
  <2>8. Spans(Of(passed, a) \union {p}, IPLimit)
    <3>1. Spans(Of(passed, a), IPLimit)
      BY DEF RInv, SpanInv
    <3> HIDE DEF p, v
    <3> QED
      BY <1>2, <1>4, <1>5, <1>6, <2>5, <3>1, SpanKeeps
  <2>9. SpanInv'
    BY <2>1, <2>2, <2>7, <2>8 DEF RInv, SpanInv
  <2> QED
    BY <1>9, <1>10, <2>3, <2>6, <2>9 DEF RInv
<1>12. CASE ~(v.count <= IPLimit)
  <2>1. passed' = passed
    BY <1>1, <1>8, <1>12
  <2>2. PassInv'
    BY <1>1, <1>2, <2>1 DEF PassInv, Called, Pass
  <2>3. AccountInv'
    BY <1>1, <1>3, <1>5, <1>8, <2>1, CallFacts DEF AccountInv
  <2>4. SpanInv'
    BY <2>1 DEF RInv, SpanInv
  <2> QED
    BY <1>9, <1>10, <2>2, <2>3, <2>4 DEF RInv
<1> QED
  BY <1>11, <1>12

LEMMA TickStep == ASSUME RInv, Tick PROVE RInv'
<1>1. /\ now' = now + 1
      /\ UNCHANGED <<global, byIP, calls, lastCall, passed>>
  BY DEF Tick
<1>2. /\ now \in Nat /\ passed \in SUBSET Pass /\ IsFiniteSet(passed)
      /\ global \in Window \union {NoWindow}
      /\ byIP \in [Addr -> Window \union {NoWindow}]
  BY DEF RInv, TypeOK, PassInv
<1>3. TypeOK'
  BY <1>1 DEF RInv, TypeOK
<1>4. PassInv' /\ SpanInv' /\ StartInv' /\ MapBounded'
  BY <1>1 DEF RInv, PassInv, SpanInv, StartInv, Recent, MapBounded
<1>5. Accounts(global, passed, GlobalLimit, now + 1)
  BY <1>2, TickKeeps, RateAssumption DEF RInv, AccountInv
<1>6. ASSUME NEW a \in Addr
      PROVE  Accounts(byIP[a], Of(passed, a), IPLimit, now + 1)
  <2>1. Of(passed, a) \in SUBSET Pass /\ IsFiniteSet(Of(passed, a))
    BY <1>2, OfFinite
  <2>2. Accounts(byIP[a], Of(passed, a), IPLimit, now)
    BY DEF RInv, AccountInv
  <2> QED
    BY <1>2, <2>1, <2>2, TickKeeps, RateAssumption
<1>7. AccountInv'
  BY <1>1, <1>5, <1>6 DEF AccountInv
<1> QED
  BY <1>3, <1>4, <1>7 DEF RInv

LEMMA RateInvariant == Spec => []RInv
<1>1. RInv /\ [Next]_vars => RInv'
  <2> SUFFICES ASSUME RInv, [Next]_vars PROVE RInv'
    OBVIOUS
  <2>1. CASE Next
    BY <2>1, RefuseGlobalStep, RefuseFullStep, CountStep, TickStep DEF Next
  <2>2. CASE UNCHANGED vars
    BY <2>2 DEF vars, RInv, TypeOK, PassInv, AccountInv, SpanInv, StartInv, Recent,
       MapBounded
  <2> QED
    BY <2>1, <2>2
<1> QED
  BY RInit, <1>1, PTL DEF Spec

-----------------------------------------------------------------------------
(* The results.                                                             *)

(* The variables of the limiter keep their types.                           *)
THEOREM RateTypes == Spec => []TypeOK
BY RateInvariant, PTL DEF RInv

(* In any minute, not only in a window, at most two limits of calls pass,   *)
(* in all and of each address (tunnel.go line 156).                         *)
THEOREM SlidingLimitHolds == Spec => []SlidingLimit
<1>1. RInv => SlidingLimit
  <2> SUFFICES ASSUME RInv, NEW t \in 0..MaxTime
               PROVE  /\ Cardinality(PassedIn(t)) <= 2 * GlobalLimit
                      /\ \A a \in Addr : Cardinality(PassedOf(a, t)) <= 2 * IPLimit
    BY DEF SlidingLimit
  <2>1. t \in Nat
    BY RateAssumption
  <2>2. PassedIn(t) = Within(passed, t)
    BY DEF PassedIn, Within
  <2>3. \A a \in Addr : PassedOf(a, t) = Within(Of(passed, a), t)
    BY DEF PassedIn, PassedOf, Within, Of
  <2> QED
    BY <2>1, <2>2, <2>3 DEF RInv, SpanInv, Spans
<1> QED
  BY <1>1, RateInvariant, PTL

(* The map never has more than one entry above its limit.                   *)
THEOREM MapIsBounded == Spec => []MapBounded
BY RateInvariant, PTL DEF RInv

(* A minute without calls undoes every refusal.                             *)
THEOREM QuietHeals == Spec => []QuietMinuteHeals
<1>1. RInv => QuietMinuteHeals
  <2> SUFFICES ASSUME RInv, calls = 0 \/ now - lastCall >= Minute, NEW a \in Addr
               PROVE  Allowed(a)
    BY DEF QuietMinuteHeals
  <2> USE RateAssumption, WindowAssumption
  <2>1. /\ now \in Nat /\ calls \in Nat /\ lastCall \in Nat
        /\ global \in Window \union {NoWindow}
        /\ byIP \in [Addr -> Window \union {NoWindow}]
    BY DEF RInv, TypeOK
  <2>2. \A w \in Window \union {NoWindow} : Recent(w) => Expired(w)
    BY <2>1 DEF Recent, Expired, Window
  <2>3. Expired(global) /\ \A b \in Addr : Expired(byIP[b])
    BY <2>1, <2>2 DEF RInv, StartInv
  <2>4. Advanced(global).count = 1
    BY <2>3 DEF Advanced
  <2>5. HasRoom(Swept)
    <3>1. CASE HasRoom(byIP)
      BY <3>1 DEF Swept
    <3>2. CASE ~HasRoom(byIP)
      <4>1. Live(Swept) = {}
        BY <2>3, <3>2 DEF Swept, Live
      <4> QED
        BY <4>1, NoneCounted DEF HasRoom
    <3> QED
      BY <3>1, <3>2
  <2>6. Expired(Swept[a])
    BY <2>3 DEF Swept, Expired
  <2>7. Counted(a)[a].count = 1
    BY <2>1, <2>6, CallFacts DEF Counted, Advanced
  <2> QED
    BY <2>4, <2>5, <2>7 DEF Allowed
<1> QED
  BY <1>1, RateInvariant, PTL
=============================================================================
