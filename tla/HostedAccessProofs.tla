------------------------- MODULE HostedAccessProofs -------------------------
(* Theorems about HostedAccess: who gets in, and what an operator's word is *)
(* worth.                                                                   *)
EXTENDS HostedAccess, TLAPS

USE AccessAssumption DEF Reg

-----------------------------------------------------------------------------
(* The parts of the invariant                                               *)

UnderWay == {"admitted", "stored", "installed"}

(* Registrations are numbered as they come, and only the last is under way. *)
RegInv ==
  \A r \in Reg :
    /\ stage[r] = "new" <=> r > count
    /\ r > count => sid[r] = None
    /\ r <= count => sid[r] \in Session
    /\ stage[r] \in UnderWay => r = count

(* The tunnel of a session is the last that was installed for it.           *)
TunnelInv ==
  \A s \in Session : tunnel[s] # None =>
    /\ sid[tunnel[s]] = s
    /\ stage[tunnel[s]] \in {"installed", "done"}
    /\ \A r \in Reg : sid[r] = s /\ stage[r] \in {"installed", "done"}
                      => r <= tunnel[s]

(* The auth token of a row is a registration of that session; it is the one *)
(* of the tunnel, or of a registration that got no further.                 *)
AuthInv ==
  /\ \A s \in Session : auth[s] # None => sid[auth[s]] = s
  /\ \A r \in Reg : stage[r] = "stored" => auth[sid[r]] = r
  /\ \A s \in Session : tunnel[s] # None =>
       \/ s \in revoked
       \/ auth[s] = tunnel[s]
       \/ auth[s] # None /\ stage[auth[s]] \in {"stored", "lost"}

(* A link that can be found was printed and has let nobody in.              *)
LinkInv ==
  /\ \A r \in handoffs : stage[r] = "done"
  /\ \A b \in Browser : at[b] \in {"found", "in"} =>
       /\ link[b] \in Reg /\ stage[link[b]] = "done"
       /\ link[b] \notin handoffs
       /\ wanted[b] \in Session /\ sid[link[b]] = wanted[b]
       /\ \A d \in Browser \ {b} : at[d] \in {"found", "in"}
                                   => link[d] # link[b]

(* A cookie is a token of the session that its link named.                  *)
CookieInv ==
  \A b \in Browser : at[b] = "in" =>
    /\ cookie[b] \in Reg /\ sid[cookie[b]] = wanted[b]
    /\ cookie[b] >= link[b]

(* A revoked session had a registration, and has none before its end.       *)
RevokedInv ==
  \A s \in revoked :
    /\ auth[s] = None
    /\ \E r \in Reg : sid[r] = s
    /\ \A r \in Reg : sid[r] = s => stage[r] \notin {"admitted", "stored"}

(* An operator's request that began alone is the only one.                  *)
PauseInv ==
  ~overlap =>
    /\ (\A o \in Operator : writing[o] = "no") => memory = table
    /\ \A o \in Operator : writing[o] # "no" =>
         /\ table = (writing[o] = "pause")
         /\ \A p \in Operator \ {o} : writing[p] = "no"

IInv == /\ TypeOK /\ RegInv /\ TunnelInv /\ AuthInv
        /\ LinkInv /\ CookieInv /\ RevokedInv /\ PauseInv

-----------------------------------------------------------------------------
(* Every step keeps them                                                    *)

(* Types.                                                                   *)
LEMMA TypeStep ==
  ASSUME TypeOK, LinkInv, [Next]_vars
  PROVE  TypeOK'
<1>1. ASSUME NEW s \in Session, Admit(s)
      PROVE  TypeOK'
  BY <1>1 DEF Admit, claims, pause, TypeOK
<1>2. ASSUME NEW r \in Reg, Store(r)
      PROVE  TypeOK'
  BY <1>2 DEF Store, NewAuth, claims, pause, TypeOK
<1>3. ASSUME NEW r \in Reg, Install(r)
      PROVE  TypeOK'
  BY <1>3 DEF Install, claims, pause, TypeOK
<1>4. ASSUME NEW r \in Reg, Fail(r)
      PROVE  TypeOK'
  BY <1>4 DEF Fail, claims, pause, TypeOK
<1>5. ASSUME NEW r \in Reg, Issue(r)
      PROVE  TypeOK'
  BY <1>5 DEF Issue, pause, TypeOK
<1>6. ASSUME NEW r \in Reg, Expire(r)
      PROVE  TypeOK'
  BY <1>6 DEF Expire, registry, pause, TypeOK
<1>7. ASSUME NEW s \in Session, Remove(s)
      PROVE  TypeOK'
  BY <1>7 DEF Remove, claims, pause, TypeOK
<1>8. ASSUME NEW b \in Browser, NEW s \in Session, NEW r \in Reg, Claim(b, s, r)
      PROVE  TypeOK'
  BY <1>8 DEF Claim, AfterClaim, OfSession, registry, pause, TypeOK
<1>9. ASSUME NEW b \in Browser, LetIn(b)
      PROVE  TypeOK'
  BY <1>9 DEF LetIn, registry, pause, TypeOK, LinkInv
<1>10. ASSUME NEW b \in Browser, Deny(b)
       PROVE  TypeOK'
  BY <1>10 DEF Deny, registry, pause, TypeOK
<1>11. ASSUME NEW s \in Session, Revoke(s)
       PROVE  TypeOK'
  BY <1>11 DEF Revoke, claims, pause, TypeOK
<1>12. ASSUME NEW o \in Operator, NEW v \in BOOLEAN, SetTable(o, v)
       PROVE  TypeOK'
  BY <1>12 DEF SetTable, registry, claims, pause, TypeOK
<1>13. ASSUME NEW o \in Operator, SetMemory(o)
       PROVE  TypeOK'
  BY <1>13 DEF SetMemory, registry, claims, pause, TypeOK
<1>14. CASE Restart
  BY <1>14 DEF Restart, PausedAtStart, TypeOK
<1>15. CASE UNCHANGED vars
  BY <1>15 DEF vars, registry, claims, pause, TypeOK
<1>16. QED
  BY <1>1, <1>2, <1>3, <1>4, <1>5, <1>6, <1>7, <1>8, <1>9, <1>10, <1>11,
     <1>12, <1>13, <1>14, <1>15 DEF Next

(* What an admission does to the numbered registrations.                    *)
LEMMA Admitted ==
  ASSUME TypeOK, NEW s \in Session, Admit(s)
  PROVE  /\ count \in Nat /\ count + 1 \in Reg /\ count' = count + 1
         /\ stage'[count + 1] = "admitted" /\ sid'[count + 1] = s
         /\ \A r \in Reg : r # count + 1 => stage'[r] = stage[r]
                                         /\ sid'[r] = sid[r]
         /\ UNCHANGED <<auth, tunnel, revoked>>
<1>1. count \in Nat /\ count + 1 \in Reg /\ count' = count + 1
  BY DEF Admit, TypeOK
<1>2. /\ stage' = [stage EXCEPT ![count + 1] = "admitted"]
      /\ sid' = [sid EXCEPT ![count + 1] = s]
  BY <1>1 DEF Admit
<1>3. QED
  BY <1>1, <1>2 DEF Admit, TypeOK

(* Registrations.                                                           *)
LEMMA RegStep ==
  ASSUME TypeOK, RegInv, [Next]_vars
  PROVE  RegInv'
<1>1. CASE UNCHANGED <<count, stage, sid>>
  BY <1>1 DEF RegInv
<1>2. ASSUME NEW s \in Session, Admit(s)
      PROVE  RegInv'
  <2>1. \A r \in Reg : stage[r] \notin UnderWay
    BY <1>2 DEF Admit, RegisterMuFree, UnderWay
  <2>2. ASSUME NEW r \in Reg, r # count + 1
        PROVE  r > count + 1 <=> r > count
    BY <1>2, <2>2, Admitted
  <2>3. \A r \in Reg : r <= count <=> ~(r > count)
    BY <1>2, Admitted
  <2>4. QED
    BY <1>2, <2>1, <2>2, <2>3, Admitted DEF RegInv, UnderWay
<1>3. ASSUME NEW r \in Reg, Store(r)
      PROVE  RegInv'
  BY <1>3 DEF Store, TypeOK, RegInv, UnderWay
<1>4. ASSUME NEW r \in Reg, Install(r)
      PROVE  RegInv'
  BY <1>4 DEF Install, TypeOK, RegInv, UnderWay
<1>5. ASSUME NEW r \in Reg, Fail(r)
      PROVE  RegInv'
  BY <1>5 DEF Fail, TypeOK, RegInv, UnderWay
<1>6. ASSUME NEW r \in Reg, Issue(r)
      PROVE  RegInv'
  BY <1>6 DEF Issue, TypeOK, RegInv, UnderWay
<1>7. CASE Restart
  BY <1>7 DEF Restart, TypeOK, RegInv, UnderWay
<1>8. QED
  BY <1>1, <1>2, <1>3, <1>4, <1>5, <1>6, <1>7 DEF Next, vars, registry,
     claims, pause, Expire, Remove, Claim, LetIn, Deny, Revoke, SetTable,
     SetMemory

(* Tunnels.                                                                 *)
LEMMA TunnelStep ==
  ASSUME TypeOK, RegInv, TunnelInv, [Next]_vars
  PROVE  TunnelInv'
<1>1. CASE UNCHANGED <<stage, sid, tunnel>>
  BY <1>1 DEF TunnelInv
<1>2. ASSUME NEW s \in Session, Admit(s)
      PROVE  TunnelInv'
  <2>1. stage[count + 1] = "new" /\ sid[count + 1] = None
    BY <1>2, Admitted DEF RegInv
  <2>2. ASSUME NEW p \in Session, tunnel[p] # None
        PROVE  tunnel[p] \in Reg /\ tunnel[p] # count + 1
    BY <2>1, <2>2 DEF TypeOK, TunnelInv
  <2>3. \A r \in Reg : stage'[r] \in {"installed", "done"}
                      => stage'[r] = stage[r] /\ sid'[r] = sid[r]
    BY <1>2, Admitted
  <2>4. QED
    BY <1>2, <2>2, <2>3, Admitted DEF TunnelInv
<1>3. ASSUME NEW r \in Reg, Store(r)
      PROVE  TunnelInv'
  BY <1>3 DEF Store, TypeOK, RegInv, UnderWay, TunnelInv
<1>4. ASSUME NEW r \in Reg, Install(r)
      PROVE  TunnelInv'
  BY <1>4 DEF Install, TypeOK, RegInv, UnderWay, TunnelInv
<1>5. ASSUME NEW r \in Reg, Fail(r)
      PROVE  TunnelInv'
  BY <1>5 DEF Fail, TypeOK, RegInv, UnderWay, TunnelInv
<1>6. ASSUME NEW r \in Reg, Issue(r)
      PROVE  TunnelInv'
  BY <1>6 DEF Issue, TypeOK, RegInv, UnderWay, TunnelInv
<1>7. ASSUME NEW s \in Session, Remove(s)
      PROVE  TunnelInv'
  BY <1>7 DEF Remove, TypeOK, RegInv, UnderWay, TunnelInv
<1>8. CASE Restart
  BY <1>8 DEF Restart, TypeOK, RegInv, UnderWay, TunnelInv
<1>9. QED
  BY <1>1, <1>2, <1>3, <1>4, <1>5, <1>6, <1>7, <1>8 DEF Next, vars, registry,
     claims, pause, Expire, Claim, LetIn, Deny, Revoke, SetTable, SetMemory

(* Auth tokens.                                                             *)
LEMMA AuthStep ==
  ASSUME TypeOK, RegInv, TunnelInv, AuthInv, [Next]_vars
  PROVE  AuthInv'
<1>1. CASE UNCHANGED <<stage, sid, auth, tunnel, revoked>>
  BY <1>1 DEF AuthInv
<1>2. ASSUME NEW s \in Session, Admit(s)
      PROVE  AuthInv'
  <2>1. stage[count + 1] = "new" /\ sid[count + 1] = None
    BY <1>2, Admitted DEF RegInv
  <2>2. ASSUME NEW p \in Reg, p # count + 1
        PROVE  stage'[p] = stage[p] /\ sid'[p] = sid[p]
    BY <1>2, <2>2, Admitted
  <2>3. ASSUME NEW p \in Session, auth[p] # None
        PROVE  auth[p] \in Reg /\ auth[p] # count + 1
    BY <2>1, <2>3 DEF TypeOK, AuthInv
  <2>4. UNCHANGED <<auth, tunnel, revoked>> /\ stage'[count + 1] = "admitted"
    BY <1>2, Admitted
  <2>5. \A p \in Session : auth'[p] # None => sid'[auth'[p]] = p
    BY <2>2, <2>3, <2>4 DEF AuthInv
  <2>6. \A r \in Reg : stage'[r] = "stored" => auth'[sid'[r]] = r
    BY <2>2, <2>4 DEF AuthInv
  <2>7. ASSUME NEW p \in Session, tunnel'[p] # None
        PROVE  \/ p \in revoked'
               \/ auth'[p] = tunnel'[p]
               \/ auth'[p] # None /\ stage'[auth'[p]] \in {"stored", "lost"}
    BY <2>2, <2>3, <2>4, <2>7 DEF AuthInv
  <2> QED
    BY <2>5, <2>6, <2>7 DEF AuthInv
<1>3. ASSUME NEW r \in Reg, Store(r)
      PROVE  AuthInv'
  BY <1>3 DEF Store, NewAuth, TypeOK, RegInv, UnderWay, TunnelInv, AuthInv
<1>4. ASSUME NEW r \in Reg, Install(r)
      PROVE  AuthInv'
  BY <1>4 DEF Install, TypeOK, RegInv, UnderWay, TunnelInv, AuthInv
<1>5. ASSUME NEW r \in Reg, Fail(r)
      PROVE  AuthInv'
  BY <1>5 DEF Fail, TypeOK, RegInv, UnderWay, TunnelInv, AuthInv
<1>6. ASSUME NEW r \in Reg, Issue(r)
      PROVE  AuthInv'
  BY <1>6 DEF Issue, TypeOK, RegInv, UnderWay, TunnelInv, AuthInv
<1>7. ASSUME NEW s \in Session, Remove(s)
      PROVE  AuthInv'
  BY <1>7 DEF Remove, TypeOK, RegInv, UnderWay, TunnelInv, AuthInv
<1>8. ASSUME NEW s \in Session, Revoke(s)
      PROVE  AuthInv'
  <2>1. \A r \in Reg : stage[r] # "stored"
    BY <1>8 DEF Revoke, RegisterMuFree
  <2>2. /\ UNCHANGED <<stage, sid, tunnel>>
        /\ auth' = [auth EXCEPT ![s] = None] /\ revoked' = revoked \union {s}
    BY <1>8 DEF Revoke
  <2>3. \A p \in Session : p # s => auth'[p] = auth[p]
    BY <2>2 DEF TypeOK
  <2>4. auth'[s] = None /\ s \in revoked' /\ \A p \in revoked : p \in revoked'
    BY <2>2 DEF TypeOK
  <2>5. QED
    BY <2>1, <2>2, <2>3, <2>4 DEF AuthInv
<1>9. CASE Restart
  BY <1>9 DEF Restart, TypeOK, RegInv, UnderWay, TunnelInv, AuthInv
<1>10. QED
  BY <1>1, <1>2, <1>3, <1>4, <1>5, <1>6, <1>7, <1>8, <1>9 DEF Next, vars,
     registry, claims, pause, Expire, Claim, LetIn, Deny, SetTable, SetMemory

(* Links.                                                                   *)
LEMMA LinkStep ==
  ASSUME TypeOK, RegInv, LinkInv, [Next]_vars
  PROVE  LinkInv'
<1>1. CASE UNCHANGED <<stage, sid, handoffs, at, link, wanted>>
  BY <1>1 DEF LinkInv
<1>2. ASSUME NEW s \in Session, Admit(s)
      PROVE  LinkInv'
  BY <1>2 DEF Admit, claims, TypeOK, RegInv, LinkInv
<1>3. ASSUME NEW r \in Reg, Store(r)
      PROVE  LinkInv'
  BY <1>3 DEF Store, claims, TypeOK, RegInv, LinkInv
<1>4. ASSUME NEW r \in Reg, Install(r)
      PROVE  LinkInv'
  BY <1>4 DEF Install, claims, TypeOK, RegInv, LinkInv
<1>5. ASSUME NEW r \in Reg, Fail(r)
      PROVE  LinkInv'
  BY <1>5 DEF Fail, claims, TypeOK, RegInv, LinkInv
<1>6. ASSUME NEW r \in Reg, Issue(r)
      PROVE  LinkInv'
  BY <1>6 DEF Issue, TypeOK, RegInv, LinkInv
<1>7. ASSUME NEW b \in Browser, NEW s \in Session, NEW r \in Reg, Claim(b, s, r)
      PROVE  LinkInv'
  BY <1>7 DEF Claim, AfterClaim, OfSession, registry, TypeOK, RegInv, LinkInv
<1>8. ASSUME NEW b \in Browser, LetIn(b)
      PROVE  LinkInv'
  BY <1>8 DEF LetIn, registry, TypeOK, RegInv, LinkInv
<1>9. ASSUME NEW b \in Browser, Deny(b)
      PROVE  LinkInv'
  BY <1>9 DEF Deny, registry, TypeOK, RegInv, LinkInv
<1>10. CASE Restart
  BY <1>10 DEF Restart, TypeOK, RegInv, LinkInv
<1>11. QED
  BY <1>1, <1>2, <1>3, <1>4, <1>5, <1>6, <1>7, <1>8, <1>9, <1>10 DEF Next,
     vars, registry, claims, pause, Expire, Remove, Revoke, SetTable,
     SetMemory

(* Cookies.                                                                 *)
LEMMA CookieStep ==
  ASSUME TypeOK, RegInv, TunnelInv, LinkInv, CookieInv, [Next]_vars
  PROVE  CookieInv'
<1>1. CASE UNCHANGED <<sid, at, link, wanted, cookie>>
  BY <1>1 DEF CookieInv
<1>2. ASSUME NEW s \in Session, Admit(s)
      PROVE  CookieInv'
  BY <1>2 DEF Admit, claims, TypeOK, RegInv, TunnelInv, LinkInv, CookieInv
<1>3. ASSUME NEW b \in Browser, NEW s \in Session, NEW r \in Reg, Claim(b, s, r)
      PROVE  CookieInv'
  BY <1>3 DEF Claim, OfSession, registry, TypeOK, RegInv, TunnelInv, LinkInv,
              CookieInv
<1>4. ASSUME NEW b \in Browser, LetIn(b)
      PROVE  CookieInv'
  BY <1>4 DEF LetIn, registry, TypeOK, RegInv, TunnelInv, LinkInv, CookieInv
<1>5. ASSUME NEW b \in Browser, Deny(b)
      PROVE  CookieInv'
  BY <1>5 DEF Deny, registry, TypeOK, RegInv, TunnelInv, LinkInv, CookieInv
<1>6. CASE Restart
  BY <1>6 DEF Restart, TypeOK, RegInv, TunnelInv, LinkInv, CookieInv
<1>7. QED
  BY <1>1, <1>2, <1>3, <1>4, <1>5, <1>6 DEF Next, vars, registry, claims,
     pause, Store, Install, Fail, Issue, Expire, Remove, Revoke, SetTable,
     SetMemory

(* Revocations.                                                             *)
LEMMA RevokedStep ==
  ASSUME TypeOK, RegInv, AuthInv, RevokedInv, [Next]_vars
  PROVE  RevokedInv'
<1>1. CASE UNCHANGED <<stage, sid, auth, revoked>>
  BY <1>1 DEF RevokedInv
<1>2. ASSUME NEW s \in Session, Admit(s)
      PROVE  RevokedInv'
  BY <1>2 DEF Admit, TypeOK, RegInv, AuthInv, RevokedInv, RegisterMuFree
<1>3. ASSUME NEW r \in Reg, Store(r)
      PROVE  RevokedInv'
  BY <1>3 DEF Store, NewAuth, TypeOK, RegInv, AuthInv, RevokedInv
<1>4. ASSUME NEW r \in Reg, Install(r)
      PROVE  RevokedInv'
  BY <1>4 DEF Install, TypeOK, RegInv, AuthInv, RevokedInv
<1>5. ASSUME NEW r \in Reg, Fail(r)
      PROVE  RevokedInv'
  BY <1>5 DEF Fail, TypeOK, RegInv, AuthInv, RevokedInv
<1>6. ASSUME NEW r \in Reg, Issue(r)
      PROVE  RevokedInv'
  BY <1>6 DEF Issue, TypeOK, RegInv, AuthInv, RevokedInv
<1>7. ASSUME NEW s \in Session, Revoke(s)
      PROVE  RevokedInv'
  BY <1>7 DEF Revoke, TypeOK, RegInv, AuthInv, RevokedInv, RegisterMuFree
<1>8. CASE Restart
  BY <1>8 DEF Restart, TypeOK, RegInv, AuthInv, RevokedInv
<1>9. QED
  BY <1>1, <1>2, <1>3, <1>4, <1>5, <1>6, <1>7, <1>8 DEF Next, vars, registry,
     claims, pause, Expire, Remove, Claim, LetIn, Deny, SetTable, SetMemory

(* Pauses.                                                                  *)
LEMMA PauseStep ==
  ASSUME TypeOK, PauseInv, [Next]_vars
  PROVE  PauseInv'
<1>1. CASE UNCHANGED pause
  BY <1>1 DEF PauseInv, pause
<1>2. ASSUME NEW o \in Operator, NEW v \in BOOLEAN, SetTable(o, v)
      PROVE  PauseInv'
  BY <1>2 DEF SetTable, pause, TypeOK, PauseInv
<1>3. ASSUME NEW o \in Operator, SetMemory(o)
      PROVE  PauseInv'
  BY <1>3 DEF SetMemory, pause, TypeOK, PauseInv
<1>4. CASE Restart
  BY <1>4 DEF Restart, PausedAtStart, TypeOK, PauseInv
<1>5. QED
  BY <1>1, <1>2, <1>3, <1>4 DEF Next, vars, registry, claims, pause, Admit,
     Store, Install, Fail, Issue, Expire, Remove, Claim, LetIn, Deny, Revoke

-----------------------------------------------------------------------------
(* The theorems                                                             *)

LEMMA Inductive == Spec => []IInv
<1>1. Init => IInv
  <2>1. ASSUME Init
        PROVE  TypeOK /\ RegInv
    <3>1. count = 0 /\ 0 \in 0..MaxReg
      BY <2>1 DEF Init
    <3>2. \A r \in Reg : r > 0
      OBVIOUS
    <3>3. TypeOK
      BY <2>1, <3>1 DEF Init, TypeOK
    <3>4. RegInv
      BY <2>1, <3>1, <3>2 DEF Init, RegInv, UnderWay
    <3>5. QED
      BY <3>3, <3>4
  <2>2. Init => TunnelInv /\ AuthInv
    BY DEF Init, TunnelInv, AuthInv
  <2>3. Init => LinkInv /\ CookieInv
    BY DEF Init, LinkInv, CookieInv
  <2>4. Init => RevokedInv /\ PauseInv
    BY DEF Init, RevokedInv, PauseInv
  <2>5. QED
    BY <2>1, <2>2, <2>3, <2>4 DEF IInv
<1>2. IInv /\ [Next]_vars => IInv'
  BY TypeStep, RegStep, TunnelStep, AuthStep, LinkStep, CookieStep,
     RevokedStep, PauseStep DEF IInv
<1>3. QED
  BY <1>1, <1>2, PTL DEF Spec

(* Every variable has its type.                                             *)
THEOREM AccessTypes == Spec => []TypeOK
BY Inductive, PTL DEF IInv

(* A link lets in one browser, into its own session, for any number of      *)
(* registrations, browsers, revocations and restarts.                       *)
THEOREM LinkClaimedOnce == Spec => []LinkLetsOneIn
<1>1. IInv => LinkLetsOneIn
  BY DEF IInv, TypeOK, LinkInv, CookieInv, LinkLetsOneIn
<1>2. QED
  BY <1>1, Inductive, PTL

(* A cookie that is handed out fits the row, but for the named cases.       *)
THEOREM CookieIsCurrent == Spec => CookieFitsRow
<1>1. ASSUME IInv, [Next]_vars, NEW b \in Browser, at[b] # "in", at'[b] = "in"
      PROVE  \/ auth[wanted[b]] = cookie'[b]
             \/ wanted[b] \in revoked
             \/ stage[auth[wanted[b]]] \in {"stored", "lost"}
  <2>1. at' # at /\ ~Restart
    BY <1>1 DEF Restart
  <2>2. PICK c \in Browser :
          LetIn(c) \/ Deny(c) \/ \E s \in Session, r \in Reg : Claim(c, s, r)
    BY <2>1, <1>1 DEF Next, vars, claims, Admit, Store, Install, Fail, Issue,
                      Expire, Remove, Revoke, SetTable, SetMemory
  <2>3. at \in [Browser -> {"start", "found", "in", "denied"}]
    BY <1>1 DEF IInv, TypeOK
  <2>4. LetIn(c) /\ c = b
    BY <1>1, <2>2, <2>3 DEF LetIn, Deny, Claim
  <2>5. /\ wanted[b] \in Session /\ tunnel[wanted[b]] # None
        /\ cookie'[b] = tunnel[wanted[b]]
    BY <1>1, <2>4 DEF LetIn, IInv, TypeOK, LinkInv
  <2>6. QED
    BY <1>1, <2>5 DEF IInv, AuthInv
<1>2. IInv /\ [Next]_vars =>
        [\A b \in Browser :
           at[b] # "in" /\ at'[b] = "in"
           => \/ auth[wanted[b]] = cookie'[b]
              \/ wanted[b] \in revoked
              \/ stage[auth[wanted[b]]] \in {"stored", "lost"}]_vars
  BY <1>1
<1>3. QED
  BY <1>2, Inductive, PTL DEF Spec, CookieFitsRow

(* A revocation is for ever, and for every cookie.                          *)
THEOREM RevocationHolds == Spec => []RevokedShut
<1>1. IInv => RevokedShut
  BY DEF IInv, TypeOK, CookieInv, RevokedInv, RevokedShut, Authorized
<1>2. QED
  BY <1>1, Inductive, PTL

(* A pause that no other request disputes is in both places.                *)
THEOREM PauseHolds == Spec => []PauseKept
<1>1. IInv => PauseKept
  BY DEF IInv, PauseInv, PauseKept
<1>2. QED
  BY <1>1, Inductive, PTL

(* HostedAccess implements SessionTenure: Install is Serve, Remove is       *)
(* Release, Revoke and Restart are their namesakes, and neither claims nor  *)
(* pauses nor the rest of a registration can be seen.                       *)
THEOREM AccessRefinesTenure == Spec => AccessTenure
<1> DEFINE served == {r \in Reg : stage[r] \in {"installed", "done", "cut"}}
<1>1. Init => Tenure!Init
  BY DEF Init, Tenure!Init
<1>2. ASSUME IInv, [Next]_vars PROVE [Tenure!Next]_(Tenure!vars)
  <2> USE DEF IInv, TypeOK
  <2>1. ASSUME NEW r \in Reg, Install(r)
        PROVE  sid[r] \in Session /\ Tenure!Serve(sid[r], r)
    <3>1. sid[r] \in Session
      BY <1>2, <2>1 DEF Install, RegInv
    <3>2. sid[r] \notin revoked /\ r \notin served
      BY <1>2, <2>1 DEF Install, RevokedInv
    <3>3. served' = served \union {r}
      BY <1>2, <2>1 DEF Install
    <3> QED
      BY <2>1, <3>1, <3>2, <3>3 DEF Install, Tenure!Serve
  <2>2. ASSUME NEW s \in Session, Remove(s)
        PROVE  Tenure!Release(s)
    BY <2>2 DEF Remove, Tenure!Release
  <2>3. ASSUME NEW s \in Session, Revoke(s)
        PROVE  Tenure!Revoke(s)
    BY <2>3 DEF Revoke, Tenure!Revoke
  <2>4. ASSUME Restart
        PROVE  Tenure!Restart
    <3>1. served' = served
      BY <1>2, <2>4 DEF Restart
    <3> QED
      BY <2>4, <3>1 DEF Restart, Tenure!Restart
  <2>5. CASE served' = served /\ UNCHANGED <<tunnel, revoked>>
    BY <2>5 DEF Tenure!vars
  <2>6. ASSUME NEW s \in Session, Admit(s)
        PROVE  served' = served /\ UNCHANGED <<tunnel, revoked>>
    <3>1. stage[count + 1] = "new"
      BY <1>2, <2>6, Admitted DEF RegInv
    <3> QED
      BY <1>2, <2>6, <3>1, Admitted
  <2>7. ASSUME NEW r \in Reg, Store(r) \/ Fail(r) \/ Issue(r) \/ Expire(r)
        PROVE  served' = served /\ UNCHANGED <<tunnel, revoked>>
    BY <1>2, <2>7 DEF Store, Fail, Issue, Expire, registry
  <2>8. CASE UNCHANGED registry /\ UNCHANGED revoked
    BY <2>5, <2>8 DEF registry
  <2> QED
    BY <1>2, <2>1, <2>2, <2>3, <2>4, <2>5, <2>6, <2>7, <2>8
    DEF Next, vars, Claim, LetIn, Deny, SetTable, SetMemory, Tenure!Next
<1> QED
  BY <1>1, <1>2, Inductive, PTL DEF Spec, AccessTenure, Tenure!Spec
=============================================================================
