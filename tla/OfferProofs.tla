---------------------------- MODULE OfferProofs ----------------------------
(***************************************************************************)
(* Further proofs about Pairing: what a spent claim and a confirmed        *)
(* pairing keep, which port a token may be bound to, which token           *)
(* admin/status names, and how many claims one pairing may spend.          *)
(***************************************************************************)
EXTENDS PairingProofs, FiniteSetTheorems

USE IdsAssumption, TimesAssumption, RestAssumption

-----------------------------------------------------------------------------
(* The ways a row changes.  Everything below rests on these two lemmas.    *)

\* The parts of a claim that no UPDATE addresses.
SameTerms(c) ==
  /\ claims'[c].code = claims[c].code /\ claims'[c].port = claims[c].port
  /\ claims'[c].tenant = claims[c].tenant /\ claims'[c].by = claims[c].by

ClaimSwept(c) ==
  /\ claims[c].status = "offered" /\ claims'[c].status = "expired"
  /\ claims'[c].takenBy = claims[c].takenBy /\ SameTerms(c)

ClaimSpent(c) ==
  /\ claims[c].status = "offered" /\ claims'[c].status = "consumed" /\ SameTerms(c)
  /\ \E w \in Worker :
       /\ ConfirmConsume(w) /\ req[w].claim = c
       /\ claims'[c].takenBy = req[w].pairing
       /\ req' = [req EXCEPT ![w] = [req[w] EXCEPT !.pc = "confirm_status"]]
       /\ \A d \in ClaimId \ {c} : claims'[d] = claims[d]

ClaimMade(c) ==
  /\ claims[c].status = "none" /\ claims'[c].status = "offered"
  /\ claims'[c].takenBy = Null
  /\ \E w \in Worker :
       /\ At(w, "claim_insert")
       /\ claims'[c].by = req[w].ctx /\ claims'[c].tenant = req[w].tenant
       /\ claims'[c].port = req[w].port
       /\ Return(w)

LEMMA ClaimChanges ==
  ASSUME TypeOK, [Next]_vars, NEW c \in ClaimId
  PROVE  claims'[c] = claims[c] \/ ClaimSwept(c) \/ ClaimSpent(c) \/ ClaimMade(c)
<1>0. claims \in [ClaimId -> ClaimRow]
  BY DEF TypeOK
<1>1. ASSUME Sweep PROVE claims'[c] = claims[c] \/ ClaimSwept(c)
  <2>1. SweptClaims[c] = claims[c] \/
          /\ claims[c].status = "offered" /\ SweptClaims[c].status = "expired"
          /\ SweptClaims[c].takenBy = claims[c].takenBy
          /\ SweptClaims[c].code = claims[c].code /\ SweptClaims[c].port = claims[c].port
          /\ SweptClaims[c].tenant = claims[c].tenant /\ SweptClaims[c].by = claims[c].by
    BY <1>0 DEF SweptClaims, ClaimRow, NoClaim
  <2> QED BY <1>1, <2>1 DEF Sweep, ClaimSwept, SameTerms
<1>2. ASSUME NEW w \in Worker, ConfirmConsume(w)
      PROVE  claims'[c] = claims[c] \/ ClaimSpent(c)
  <2>1. CASE UNCHANGED claims
    BY <2>1
  <2>2. CASE ~UNCHANGED claims
    <3> DEFINE d == req[w].claim
               row == [claims[d] EXCEPT !.status = "consumed", !.takenBy = req[w].pairing]
    <3>1. /\ claims[d].status = "offered" /\ claims' = [claims EXCEPT ![d] = row]
          /\ req' = [req EXCEPT ![w] = [req[w] EXCEPT !.pc = "confirm_status"]]
      BY <1>2, <2>2 DEF ConfirmConsume, Consumable, GoTo, Proceed
    <3>2. d \in ClaimId
      BY <1>2 DEF ConfirmConsume, At, TypeOK, LocalsOK, Confirming
    <3>3. claims[d] \in [status : {"offered", "expired", "consumed"}, code : Code,
            hostCode : HostCode, port : Port, tenant : Owner, expires : Nat, by : Ctx,
            takenBy : PairingId \cup {Null}]
      BY <1>0, <3>1, <3>2 DEF ClaimRow, NoClaim
    <3>4. /\ row.status = "consumed" /\ row.takenBy = req[w].pairing
          /\ row.code = claims[d].code /\ row.port = claims[d].port
          /\ row.tenant = claims[d].tenant /\ row.by = claims[d].by
      BY <3>3
    <3> HIDE DEF row
    <3>5. claims'[d] = row /\ \A e \in ClaimId \ {d} : claims'[e] = claims[e]
      BY <1>0, <3>1, <3>2
    <3>6. c = d => ClaimSpent(c)
      <4> SUFFICES ASSUME c = d PROVE ClaimSpent(c)
        OBVIOUS
      <4>1. SameTerms(c)
        BY <3>4, <3>5 DEF SameTerms
      <4>2. /\ claims[c].status = "offered" /\ claims'[c].status = "consumed"
            /\ claims'[c].takenBy = req[w].pairing /\ req[w].claim = c
            /\ \A e \in ClaimId \ {c} : claims'[e] = claims[e]
        BY <3>1, <3>4, <3>5
      <4> QED BY <1>2, <3>1, <4>1, <4>2 DEF ClaimSpent
    <3> QED BY <3>5, <3>6
  <2> QED BY <2>1, <2>2
<1>3. ASSUME NEW w \in Worker, NEW h \in HostCode, ClaimInsert(w, h)
      PROVE  claims'[c] = claims[c] \/ ClaimMade(c)
  BY <1>0, <1>3 DEF ClaimInsert, ClaimMade
<1>4. CASE \E w \in Worker : Start(w) \/ Poll(w) \/ Confirm(w) \/ Claim(w)
  <2>1. PICK w \in Worker : Start(w) \/ Poll(w) \/ Confirm(w) \/ Claim(w)
    BY <1>4
  <2>2. \/ UNCHANGED claims \/ Sweep \/ ConfirmConsume(w)
        \/ \E h \in HostCode : ClaimInsert(w, h)
    BY <2>1 DEF Start, StartRequest, StartSweep, StartInsert, Poll, PollGet, PollSweep,
                Confirm, ConfirmGet, ConfirmClaim, ConfirmStatus, ConfirmToken, ConfirmInsert,
                Claim, TenantAuth, OperatorAuth, ClaimPairing, ClaimHost
  <2> QED BY <1>1, <1>2, <1>3, <2>2
<1>5. CASE Registry \/ Tick \/ Crash \/ UNCHANGED vars
  BY <1>5 DEF Registry, TenantCreate, TenantRevoke, HostCreate, HostRemove, Tick, Crash, vars
<1> QED BY <1>4, <1>5 DEF Next

PairingSwept(p) ==
  /\ pairings[p].status = "pending" /\ pairings'[p].status = "expired"
  /\ pairings'[p].jti = pairings[p].jti

PairingMade(p) ==
  pairings[p].status = "none" /\ pairings'[p].status = "pending" /\ pairings'[p].jti = Null

PairingPaid(p) ==
  /\ pairings'[p].status = "confirmed" /\ pairings'[p].jti = pairings[p].jti
  /\ \E w \in Worker : At(w, "confirm_status") /\ req[w].pairing = p

PairingNamed(p) ==
  /\ pairings'[p].status = pairings[p].status
  /\ \E w \in Worker : /\ ConfirmToken(w) /\ req[w].pairing = p
                       /\ pairings'[p].jti = req[w].jti

LEMMA PairingChanges ==
  ASSUME TypeOK, [Next]_vars, NEW p \in PairingId
  PROVE  \/ pairings'[p] = pairings[p]
         \/ PairingSwept(p) \/ PairingMade(p) \/ PairingPaid(p) \/ PairingNamed(p)
<1>0. pairings \in [PairingId -> PairingRow]
  BY DEF TypeOK
<1>1. ASSUME Sweep PROVE pairings'[p] = pairings[p] \/ PairingSwept(p)
  <2>1. SweptPairings[p] = pairings[p] \/
          /\ pairings[p].status = "pending" /\ SweptPairings[p].status = "expired"
          /\ SweptPairings[p].jti = pairings[p].jti
    BY <1>0 DEF SweptPairings, PairingRow, NoPairing
  <2> QED BY <1>1, <2>1 DEF Sweep, PairingSwept
<1>2. ASSUME NEW w \in Worker, ConfirmStatus(w) \/ ConfirmToken(w)
      PROVE  pairings'[p] = pairings[p] \/ PairingPaid(p) \/ PairingNamed(p)
  <2> DEFINE r == req[w].pairing
             paid == [pairings[r] EXCEPT !.status = "confirmed"]
             named == [pairings[r] EXCEPT !.jti = req[w].jti]
  <2>1. r \in PairingId /\ pairings[r].status # "none"
    BY <1>2 DEF TypeOK, LocalsOK, RefsOK, Confirming, Granting, At, ConfirmStatus, ConfirmToken
  <2>2. pairings[r] \in [status : {"pending", "expired", "confirmed"}, code : Code,
          tenant : TenantId \cup {Open}, created : Nat, expires : Nat, jti : Jti \cup {Null}]
    BY <1>0, <2>1 DEF PairingRow, NoPairing
  <2>3. /\ paid.status = "confirmed" /\ paid.jti = pairings[r].jti
        /\ named.status = pairings[r].status /\ named.jti = req[w].jti
    BY <2>2
  <2>4. \/ UNCHANGED pairings
        \/ ConfirmStatus(w) /\ pairings' = [pairings EXCEPT ![r] = paid]
        \/ ConfirmToken(w) /\ pairings' = [pairings EXCEPT ![r] = named]
    BY <1>2 DEF ConfirmStatus, ConfirmToken, Confirmed, WithToken
  <2> HIDE DEF paid, named
  <2>5. CASE ConfirmStatus(w) /\ pairings' = [pairings EXCEPT ![r] = paid]
    <3>1. pairings'[p] = IF p = r THEN paid ELSE pairings[p]
      BY <1>0, <2>1, <2>5
    <3> QED BY <2>3, <2>5, <3>1 DEF PairingPaid, ConfirmStatus
  <2>6. CASE ConfirmToken(w) /\ pairings' = [pairings EXCEPT ![r] = named]
    <3>1. pairings'[p] = IF p = r THEN named ELSE pairings[p]
      BY <1>0, <2>1, <2>6
    <3> QED BY <2>3, <2>6, <3>1 DEF PairingNamed
  <2> QED BY <2>4, <2>5, <2>6
<1>3. ASSUME NEW w \in Worker, StartInsert(w)
      PROVE  pairings'[p] = pairings[p] \/ PairingMade(p)
  BY <1>0, <1>3 DEF StartInsert, PairingMade
<1>4. CASE \E w \in Worker : Start(w) \/ Poll(w) \/ Confirm(w) \/ Claim(w)
  <2>1. PICK w \in Worker : Start(w) \/ Poll(w) \/ Confirm(w) \/ Claim(w)
    BY <1>4
  <2>2. \/ UNCHANGED pairings \/ Sweep \/ StartInsert(w)
        \/ ConfirmStatus(w) \/ ConfirmToken(w)
    BY <2>1 DEF Start, StartRequest, StartSweep, Poll, PollGet, PollSweep,
                Confirm, ConfirmGet, ConfirmClaim, ConfirmConsume, ConfirmInsert,
                Claim, TenantAuth, OperatorAuth, ClaimPairing, ClaimHost, ClaimInsert
  <2> QED BY <1>1, <1>2, <1>3, <2>2
<1>5. CASE Registry \/ Tick \/ Crash \/ UNCHANGED vars
  BY <1>5 DEF Registry, TenantCreate, TenantRevoke, HostCreate, HostRemove, Tick, Crash, vars
<1> QED BY <1>4, <1>5 DEF Next

-----------------------------------------------------------------------------
(* Spent stays spent.                                                      *)
LEMMA SpentStep ==
  ASSUME TypeOK, [Next]_vars
  PROVE  /\ \A p \in PairingId :
              pairings[p].status = "confirmed" => pairings'[p].status = "confirmed"
         /\ \A c \in ClaimId :
              claims[c].status = "consumed" => claims'[c] = claims[c]
<1>1. ASSUME NEW p \in PairingId, pairings[p].status = "confirmed"
      PROVE  pairings'[p].status = "confirmed"
  BY <1>1, PairingChanges DEF PairingSwept, PairingMade, PairingPaid, PairingNamed
<1>2. ASSUME NEW c \in ClaimId, claims[c].status = "consumed"
      PROVE  claims'[c] = claims[c]
  BY <1>2, ClaimChanges DEF ClaimSwept, ClaimSpent, ClaimMade
<1> QED BY <1>1, <1>2

(* No step takes back a confirmed pairing or a consumed claim: no sweep,   *)
(* no late write of another request, no restart (pairing_sweep,            *)
(* pairing_set_status, claim_consume).                                     *)
THEOREM SpentForGood == Spec => SpentStaysSpent
<1>1. TypeOK /\ [Next]_vars =>
        [/\ \A p \in PairingId :
              pairings[p].status = "confirmed" => pairings'[p].status = "confirmed"
         /\ \A c \in ClaimId :
              claims[c].status = "consumed" => claims'[c] = claims[c]]_vars
  BY SpentStep
<1> QED BY <1>1, TypeCorrect, PTL DEF Spec, SpentStaysSpent

LEMMA ConfirmedStep ==
  ASSUME TypeOK, GrantInv, ConfirmedHasClaim, [Next]_vars
  PROVE  ConfirmedHasClaim'
<1> SUFFICES ASSUME NEW p \in PairingId, pairings'[p].status = "confirmed"
             PROVE  \E c \in ClaimId : claims'[c].takenBy = p
  BY DEF ConfirmedHasClaim
<1>1. ASSUME NEW c \in ClaimId, claims[c].takenBy = p PROVE claims'[c].takenBy = p
  <2>1. claims[c].status = "consumed"
    BY <1>1 DEF GrantInv, Taken
  <2> QED BY <1>1, <2>1, SpentStep
<1>2. CASE pairings[p].status = "confirmed"
  BY <1>1, <1>2 DEF ConfirmedHasClaim
<1>3. CASE pairings[p].status # "confirmed"
  <2>1. PICK w \in Worker : At(w, "confirm_status") /\ req[w].pairing = p
    BY <1>3, PairingChanges DEF PairingSwept, PairingMade, PairingPaid, PairingNamed
  <2>2. req[w].claim \in ClaimId /\ claims[req[w].claim].takenBy = p
    BY <2>1 DEF At, GrantInv, Held, Granting, Confirming, TypeOK, LocalsOK
  <2> QED BY <1>1, <2>2
<1> QED BY <1>2, <1>3

(* A pairing is reported as confirmed only when a claim was spent on it,   *)
(* whatever the order of the unconditional writes (pairing_set_status).    *)
THEOREM ConfirmedMeansSpent == Spec => []ConfirmedHasClaim
<1>1. Init => ConfirmedHasClaim
  BY DEF Init, ConfirmedHasClaim, NoPairing
<1>2. TypeOK /\ GrantInv /\ ConfirmedHasClaim /\ [Next]_vars => ConfirmedHasClaim'
  BY ConfirmedStep
<1> QED BY <1>1, <1>2, GrantInvariant, PTL DEF Spec

-----------------------------------------------------------------------------
(* A request only changes by a step of its own, or by being cut off.       *)
LEMMA RequestChanges ==
  ASSUME TypeOK, [Next]_vars, NEW w \in Worker
  PROVE  \/ req'[w] = req[w] \/ req'[w] = Idle
         \/ Start(w) \/ Poll(w) \/ Confirm(w) \/ Claim(w)
<1>0. req \in [Worker -> Request]
  BY DEF TypeOK
<1>1. ASSUME NEW v \in Worker, v # w, Start(v) \/ Poll(v) \/ Confirm(v) \/ Claim(v)
      PROVE  req'[w] = req[w]
  <2>1. \E r : Proceed(v, r)
    BY <1>1 DEF Start, StartRequest, StartSweep, StartInsert, Poll, PollGet, PollSweep,
                Confirm, ConfirmGet, ConfirmClaim, ConfirmConsume, ConfirmStatus,
                ConfirmToken, ConfirmInsert, Claim, TenantAuth, OperatorAuth, ClaimPairing,
                ClaimHost, ClaimInsert, Return, GoTo
  <2> QED BY <1>0, <1>1, <2>1 DEF Proceed
<1>2. CASE Registry \/ Tick \/ Crash \/ UNCHANGED vars
  BY <1>2 DEF Registry, TenantCreate, TenantRevoke, HostCreate, HostRemove, Tick, Crash, vars
<1> QED BY <1>1, <1>2 DEF Next

-----------------------------------------------------------------------------
(* Port authority.  The registry may change at once after it was read, so  *)
(* the invariant speaks of who HAS owned a port: that never shrinks.       *)

Entitled(by, t, q) == q \in TunnelPorts /\ (by = Operator \/ t \in everOwned[q])
EntitledNext(by, t, q) == q \in TunnelPorts /\ (by = Operator \/ t \in everOwned'[q])

OwnersRecorded == \A q \in Port :
  hosts[q] # Null => q \in TunnelPorts /\ hosts[q] \in everOwned[q]

\* A tenant's own request offers for that tenant, never for the default one.
OwnTenant == \A w \in Worker :
  req[w].pc \in Claiming /\ req[w].ctx # Operator =>
    req[w].ctx \in TenantId /\ req[w].tenant = req[w].ctx

RequestEntitled == \A w \in Worker :
  req[w].pc = "claim_insert" => Entitled(req[w].ctx, req[w].tenant, req[w].port)

ClaimsEntitled == \A c \in ClaimId :
  claims[c].status # "none" => Entitled(claims[c].by, claims[c].tenant, claims[c].port)

PortInv == OwnersRecorded /\ OwnTenant /\ RequestEntitled /\ ClaimsEntitled

LEMMA RegistryGrows ==
  ASSUME TypeOK, OwnersRecorded, [Next]_vars
  PROVE  OwnersRecorded' /\ \A q \in Port : everOwned[q] \subseteq everOwned'[q]
<1>1. CASE UNCHANGED <<hosts, everOwned>>
  BY <1>1 DEF OwnersRecorded
<1>2. ASSUME NEW t \in Owner, NEW q \in Port, HostCreate(t, q)
      PROVE  OwnersRecorded' /\ \A r \in Port : everOwned[r] \subseteq everOwned'[r]
  BY <1>2 DEF HostCreate, OwnersRecorded, TypeOK
<1>3. ASSUME NEW q \in Port, HostRemove(q)
      PROVE  OwnersRecorded' /\ \A r \in Port : everOwned[r] \subseteq everOwned'[r]
  BY <1>3 DEF HostRemove, OwnersRecorded, TypeOK
<1>4. \/ UNCHANGED <<hosts, everOwned>>
      \/ \E t \in Owner, q \in Port : HostCreate(t, q)
      \/ \E q \in Port : HostRemove(q)
  <2>1. ASSUME NEW w \in Worker, Start(w) \/ Poll(w) \/ Confirm(w) \/ Claim(w)
        PROVE  UNCHANGED <<hosts, everOwned>>
    BY <2>1 DEF Start, StartRequest, StartSweep, StartInsert, Poll, PollGet, PollSweep,
                Confirm, ConfirmGet, ConfirmClaim, ConfirmConsume, ConfirmStatus,
                ConfirmToken, ConfirmInsert, Claim, TenantAuth, OperatorAuth, ClaimPairing,
                ClaimHost, ClaimInsert
  <2>2. CASE Tick \/ Crash \/ UNCHANGED vars
    BY <2>2 DEF Tick, Crash, vars
  <2> QED BY <2>1, <2>2 DEF Next, Registry, TenantCreate, TenantRevoke
<1> QED BY <1>1, <1>2, <1>3, <1>4

LEMMA GoToFields ==
  ASSUME TypeOK, NEW w \in Worker, NEW pc, GoTo(w, pc)
  PROVE  /\ req'[w].pc = pc /\ req'[w].jti = req[w].jti
         /\ req'[w].pairing = req[w].pairing /\ req'[w].claim = req[w].claim
  BY DEF TypeOK, GoTo, Proceed, Request

LEMMA ReturnFields ==
  ASSUME TypeOK, NEW w \in Worker, Return(w)
  PROVE  req'[w] = Idle /\ req'[w].pc = "idle" /\ req'[w].jti = Null
  BY DEF TypeOK, Return, Proceed, Idle

\* Which call a request stands before after a step of its own.
LEMMA PcAfter ==
  ASSUME TypeOK, NEW w \in Worker
  PROVE  /\ Start(w) => req'[w].pc \in {"idle", "start_sweep", "start_insert"}
         /\ Poll(w) => req'[w].pc \in {"idle", "poll_sweep"}
         /\ Confirm(w) => req'[w].pc \in {"idle", "confirm_claim"} \cup Confirming
         /\ Claim(w) => req'[w].pc \in {"idle", "authed"} \cup Claiming
<1> USE DEF Claiming, Confirming, Granting
<1>0. req \in [Worker -> Request] /\ Idle \in Request
  BY IdleOK DEF TypeOK
<1>1. ASSUME NEW r, Proceed(w, r) PROVE req'[w].pc = r.pc
  BY <1>0, <1>1 DEF Proceed
<1>3. ASSUME Start(w) PROVE req'[w].pc \in {"idle", "start_sweep", "start_insert"}
  <2>1. CASE \E k \in Code, t \in TenantId \cup {Open} : StartRequest(w, k, t)
    BY <1>0, <2>1 DEF StartRequest, Proceed, Idle
  <2>2. CASE StartSweep(w)
    BY <2>2, GoToFields DEF StartSweep
  <2>3. CASE StartInsert(w)
    BY <2>3, ReturnFields DEF StartInsert
  <2> QED BY <1>3, <2>1, <2>2, <2>3 DEF Start
<1>4. ASSUME Poll(w) PROVE req'[w].pc \in {"idle", "poll_sweep"}
  <2>1. CASE \E p \in PairingId : PollGet(w, p)
    BY <1>0, <2>1 DEF PollGet, Proceed, Idle
  <2> QED BY <1>4, <2>1, ReturnFields DEF Poll, PollSweep
<1>5. ASSUME Confirm(w) PROVE req'[w].pc \in {"idle", "confirm_claim"} \cup Confirming
  <2>1. CASE \E p \in PairingId : ConfirmGet(w, p)
    BY <1>0, <2>1 DEF ConfirmGet, Proceed, Idle
  <2>2. CASE \E c \in ClaimId, h \in HostCode : ConfirmClaim(w, c, h)
    <3>1. PICK c \in ClaimId, h \in HostCode : ConfirmClaim(w, c, h)
      BY <2>2
    <3> DEFINE r == [req[w] EXCEPT !.pc = "confirm_consume", !.claim = c,
                                   !.port = claims[c].port, !.tenant = claims[c].tenant]
    <3>2. Return(w) \/ Proceed(w, r)
      BY <3>1 DEF ConfirmClaim
    <3>3. r.pc = "confirm_consume"
      BY <1>0 DEF Request
    <3> HIDE DEF r
    <3> QED BY <1>1, <3>2, <3>3, ReturnFields
  <2>3. CASE ConfirmConsume(w) \/ ConfirmToken(w) \/ ConfirmInsert(w)
    BY <2>3, GoToFields, ReturnFields DEF ConfirmConsume, ConfirmToken, ConfirmInsert
  <2>4. CASE ConfirmStatus(w)
    BY <1>0, <2>4 DEF ConfirmStatus, Proceed, Request
  <2> QED BY <1>5, <2>1, <2>2, <2>3, <2>4 DEF Confirm
<1>6. ASSUME Claim(w) PROVE req'[w].pc \in {"idle", "authed"} \cup Claiming
  <2>1. CASE (\E t \in TenantId : TenantAuth(w, t)) \/ OperatorAuth(w)
    <3>1. PICK t : Proceed(w, [Idle EXCEPT !.pc = "authed", !.ctx = t])
      BY <2>1 DEF TenantAuth, OperatorAuth
    <3>2. [Idle EXCEPT !.pc = "authed", !.ctx = t].pc = "authed"
      BY DEF Idle
    <3> QED BY <1>1, <3>1, <3>2
  <2>2. CASE \E k \in Code : ClaimPairing(w, k)
    <3>1. PICK k, t : \/ Return(w)
                      \/ Proceed(w, [req[w] EXCEPT !.pc = "claim_host", !.code = k,
                                                   !.tenant = t])
      BY <2>2 DEF ClaimPairing
    <3>2. [req[w] EXCEPT !.pc = "claim_host", !.code = k, !.tenant = t].pc = "claim_host"
      BY <1>0 DEF Request
    <3> QED BY <1>1, <3>1, <3>2, ReturnFields
  <2>3. CASE \E q \in Port : ClaimHost(w, q)
    <3>1. PICK q : \/ Return(w)
                   \/ Proceed(w, [req[w] EXCEPT !.pc = "claim_insert", !.port = q])
      BY <2>3 DEF ClaimHost
    <3>2. [req[w] EXCEPT !.pc = "claim_insert", !.port = q].pc = "claim_insert"
      BY <1>0 DEF Request
    <3> QED BY <1>1, <3>1, <3>2, ReturnFields
  <2>4. CASE \E h \in HostCode : ClaimInsert(w, h)
    BY <2>4, ReturnFields DEF ClaimInsert
  <2> QED BY <1>6, <2>1, <2>2, <2>3, <2>4 DEF Claim
<1> QED BY <1>3, <1>4, <1>5, <1>6

\* What a request has become when it stands before one of the claim calls.
LEMMA ClaimingStep ==
  ASSUME TypeOK, [Next]_vars, NEW w \in Worker, req'[w].pc \in Claiming
  PROVE  \/ req'[w] = req[w]
         \/ /\ req'[w].pc = "claim_host" /\ req'[w].ctx = req[w].ctx /\ req[w].ctx \in Ctx
            /\ req[w].ctx # Operator => req'[w].tenant = req[w].ctx
         \/ /\ At(w, "claim_host") /\ req'[w].pc = "claim_insert"
            /\ req'[w].ctx = req[w].ctx /\ req'[w].tenant = req[w].tenant
            /\ req'[w].port \in Port
            /\ \E h \in HostRead(req'[w].port) :
                 MayBind(req[w].ctx, req[w].tenant, h, req'[w].port)
<1> USE DEF Claiming
<1>0. req \in [Worker -> Request] /\ Idle.pc = "idle" /\ Idle \in Request
  BY IdleOK DEF TypeOK, Idle
<1>3. CASE Claim(w)
  <2>1. CASE \E k \in Code : ClaimPairing(w, k)
    <3>1. PICK k \in Code : ClaimPairing(w, k)
      BY <2>1
    <3>2. PICK p \in PairingId :
            req'[w] = [req[w] EXCEPT !.pc = "claim_host", !.code = k,
                                     !.tenant = OfferTenant(p, req[w].ctx)]
      BY <1>0, <3>1 DEF ClaimPairing, Proceed, Return
    <3>3. req[w].ctx \in Ctx
      BY <3>1 DEF ClaimPairing, At, TypeOK, LocalsOK
    <3>4. /\ req'[w].pc = "claim_host" /\ req'[w].ctx = req[w].ctx
          /\ req'[w].tenant = OfferTenant(p, req[w].ctx)
      BY <1>0, <3>2 DEF Request
    <3> QED BY <3>3, <3>4 DEF OfferTenant
  <2>2. CASE \E q \in Port : ClaimHost(w, q)
    <3>1. PICK q \in Port : ClaimHost(w, q)
      BY <2>2
    <3>2. PICK h \in HostRead(q) :
            /\ MayBind(req[w].ctx, req[w].tenant, h, q)
            /\ req'[w] = [req[w] EXCEPT !.pc = "claim_insert", !.port = q]
      BY <1>0, <3>1 DEF ClaimHost, Proceed, Return
    <3>3. /\ req'[w].pc = "claim_insert" /\ req'[w].ctx = req[w].ctx
          /\ req'[w].tenant = req[w].tenant /\ req'[w].port = q
      BY <1>0, <3>2 DEF Request
    <3>4. /\ req'[w].port \in Port
          /\ \E g \in HostRead(req'[w].port) :
               MayBind(req[w].ctx, req[w].tenant, g, req'[w].port)
      BY <3>2, <3>3, Zenon
    <3>5. At(w, "claim_host")
      BY <3>1 DEF ClaimHost
    <3> QED BY <3>3, <3>4, <3>5, Zenon
  <2>3. CASE (\E t \in TenantId : TenantAuth(w, t)) \/ OperatorAuth(w)
    <3>1. PICK t : Proceed(w, [Idle EXCEPT !.pc = "authed", !.ctx = t])
      BY <2>3 DEF TenantAuth, OperatorAuth
    <3>2. req'[w] = [Idle EXCEPT !.pc = "authed", !.ctx = t]
      BY <1>0, <3>1 DEF Proceed
    <3>3. req'[w].pc = "authed"
      BY <3>2 DEF Idle
    <3> QED BY <3>3
  <2>4. CASE \E h \in HostCode : ClaimInsert(w, h)
    BY <1>0, <2>4 DEF ClaimInsert, Return, Proceed
  <2> QED BY <1>3, <2>1, <2>2, <2>3, <2>4 DEF Claim
<1>4. CASE Start(w) \/ Poll(w) \/ Confirm(w)
  BY <1>4, PcAfter DEF Confirming, Granting
<1> QED BY <1>0, <1>3, <1>4, RequestChanges

LEMMA PortStep ==
  ASSUME TypeOK, PortInv, [Next]_vars
  PROVE  PortInv'
<1>1. OwnersRecorded' /\ \A q \in Port : everOwned[q] \subseteq everOwned'[q]
  BY RegistryGrows DEF PortInv
<1>2. \A by, t, q : q \in Port /\ Entitled(by, t, q) => EntitledNext(by, t, q)
  BY <1>1 DEF Entitled, EntitledNext
<1>3. OwnTenant'
  <2> SUFFICES ASSUME NEW w \in Worker, req'[w].pc \in Claiming, req'[w].ctx # Operator
               PROVE  req'[w].ctx \in TenantId /\ req'[w].tenant = req'[w].ctx
    BY DEF OwnTenant
  <2> QED BY ClaimingStep DEF PortInv, OwnTenant, Ctx, At, Claiming
<1>4. RequestEntitled'
  <2> SUFFICES ASSUME NEW w \in Worker, req'[w].pc = "claim_insert"
               PROVE  EntitledNext(req'[w].ctx, req'[w].tenant, req'[w].port)
    BY DEF RequestEntitled, Entitled, EntitledNext
  <2>1. CASE req'[w] = req[w]
    <3>1. req[w].port \in Port /\ Entitled(req[w].ctx, req[w].tenant, req[w].port)
      BY <2>1 DEF PortInv, RequestEntitled, TypeOK, LocalsOK
    <3> QED BY <1>2, <2>1, <3>1
  <2>2. CASE req'[w] # req[w]
    <3> DEFINE q == req'[w].port
    <3>1. /\ At(w, "claim_host") /\ q \in Port
          /\ req'[w].ctx = req[w].ctx /\ req'[w].tenant = req[w].tenant
      BY <2>2, ClaimingStep DEF Claiming
    <3>2. PICK h \in HostRead(q) : MayBind(req[w].ctx, req[w].tenant, h, q)
      BY <2>2, ClaimingStep DEF Claiming
    <3>3. req[w].ctx # Operator => req[w].tenant # Default
      BY <3>1 DEF PortInv, OwnTenant, At, Claiming
    <3>4. Entitled(req[w].ctx, req[w].tenant, q)
      BY <3>1, <3>2, <3>3 DEF MayBind, HostRead, Entitled, PortInv, OwnersRecorded
    <3> QED BY <1>2, <3>1, <3>4
  <2> QED BY <2>1, <2>2
<1>5. ClaimsEntitled'
  <2> SUFFICES ASSUME NEW c \in ClaimId, claims'[c].status # "none"
               PROVE  EntitledNext(claims'[c].by, claims'[c].tenant, claims'[c].port)
    BY DEF ClaimsEntitled, Entitled, EntitledNext
  <2>1. CASE ClaimMade(c)
    <3>1. PICK w \in Worker :
            /\ At(w, "claim_insert")
            /\ claims'[c].by = req[w].ctx /\ claims'[c].tenant = req[w].tenant
            /\ claims'[c].port = req[w].port
      BY <2>1 DEF ClaimMade
    <3>2. req[w].port \in Port /\ Entitled(req[w].ctx, req[w].tenant, req[w].port)
      BY <3>1 DEF PortInv, RequestEntitled, At, TypeOK, LocalsOK
    <3> QED BY <1>2, <3>1, <3>2
  <2>2. CASE ~ClaimMade(c)
    <3>1. /\ claims[c].status # "none"
          /\ claims'[c].by = claims[c].by /\ claims'[c].tenant = claims[c].tenant
          /\ claims'[c].port = claims[c].port
      BY <2>2, ClaimChanges DEF ClaimSwept, ClaimSpent, SameTerms
    <3>2. claims[c].port \in Port
      BY <3>1 DEF TypeOK, ClaimRow, NoClaim
    <3>3. Entitled(claims[c].by, claims[c].tenant, claims[c].port)
      BY <3>1 DEF PortInv, ClaimsEntitled
    <3> QED BY <1>2, <3>1, <3>2, <3>3
  <2> QED BY <2>1, <2>2
<1> QED BY <1>1, <1>3, <1>4, <1>5 DEF PortInv

LEMMA InitPort == Init => PortInv
<1> SUFFICES ASSUME Init PROVE PortInv
  OBVIOUS
<1>1. \A w \in Worker : req[w].pc = "idle"
  BY DEF Init, Idle
<1> QED BY <1>1 DEF Init, NoClaim, PortInv, OwnersRecorded, OwnTenant, RequestEntitled,
                    ClaimsEntitled, Claiming

LEMMA PortInvariant == Spec => [](TypeOK /\ PortInv)
<1>1. TypeOK /\ PortInv /\ [Next]_vars => PortInv'
  BY PortStep
<1> QED BY <1>1, InitPort, TypeCorrect, PTL DEF Spec

(* A token's port is in the tunnel range and, unless the operator made the *)
(* offer, has been registered to the token's tenant, also when the read of *)
(* the registry failed or was out of date (admin_claim_handler).           *)
THEOREM Authorised == Spec => []PortAuthority
<1>1. TypeOK /\ GrantInv /\ PortInv => PortAuthority
  <2> SUFFICES ASSUME TypeOK, GrantInv, PortInv, NEW j \in Issued
               PROVE  /\ tokens[j].port \in TunnelPorts
                      /\ \/ GrantOf(j).by = Operator
                         \/ tokens[j].tenant \in everOwned[tokens[j].port]
    BY DEF PortAuthority
  <2>1. /\ tokens[j].claim \in ClaimId /\ GrantOf(j).status = "consumed"
        /\ tokens[j].port = GrantOf(j).port /\ tokens[j].tenant = GrantOf(j).tenant
    BY DEF GrantInv, Bound, ClaimSingleUse, Issued, TypeOK, TokenRow, NoToken
  <2> QED BY <2>1 DEF GrantOf, PortInv, ClaimsEntitled, Entitled
<1> QED BY <1>1, PortInvariant, GrantInvariant, PTL

-----------------------------------------------------------------------------
(* What admin/status names.                                                *)

\* Only confirm_status and confirm_token leave a request with a jti chosen.
LEMMA NamingStep ==
  ASSUME TypeOK, [Next]_vars, NEW w \in Worker, req'[w].pc \in Naming
  PROVE  \/ req'[w] = req[w]
         \/ /\ req'[w].jti = req[w].jti /\ req'[w].pairing = req[w].pairing
         \/ FreshJti(req'[w].jti)
<1> USE DEF Naming, Confirming, Granting, Claiming
<1>1. CASE req'[w] = Idle \/ Start(w) \/ Poll(w) \/ Claim(w)
  BY <1>1, PcAfter DEF Idle
<1>2. CASE Confirm(w)
  <2>0. req \in [Worker -> Request]
    BY DEF TypeOK
  <2>1. CASE \E p \in PairingId : ConfirmGet(w, p)
    BY <2>0, <2>1 DEF ConfirmGet, Proceed, Idle
  <2>2. CASE \E c \in ClaimId, h \in HostCode : ConfirmClaim(w, c, h)
    <3>1. PICK c \in ClaimId : \/ Return(w)
                               \/ Proceed(w, [req[w] EXCEPT !.pc = "confirm_consume", !.claim = c,
                                    !.port = claims[c].port, !.tenant = claims[c].tenant])
      BY <2>2 DEF ConfirmClaim
    <3>2. [req[w] EXCEPT !.pc = "confirm_consume", !.claim = c, !.port = claims[c].port,
                         !.tenant = claims[c].tenant].pc = "confirm_consume"
      BY <2>0 DEF Request
    <3> QED BY <2>0, <3>1, <3>2, ReturnFields DEF Proceed
  <2>3. CASE ConfirmConsume(w) \/ ConfirmToken(w) \/ ConfirmInsert(w)
    BY <2>3, GoToFields, ReturnFields DEF ConfirmConsume, ConfirmToken, ConfirmInsert
  <2>4. CASE ConfirmStatus(w)
    <3>1. PICK j \in Jti :
            FreshJti(j) /\ Proceed(w, [req[w] EXCEPT !.pc = "confirm_token", !.jti = j])
      BY <2>4 DEF ConfirmStatus
    <3>2. req'[w].jti = j
      BY <2>0, <3>1 DEF Proceed, Request
    <3> QED BY <3>1, <3>2
  <2> QED BY <1>2, <2>1, <2>2, <2>3, <2>4 DEF Confirm
<1> QED BY <1>1, <1>2, RequestChanges

LEMMA TokenChanges ==
  ASSUME TypeOK, [Next]_vars, NEW j \in Jti
  PROVE  \/ tokens'[j] = tokens[j]
         \/ \E w \in Worker : /\ At(w, "confirm_insert") /\ req[w].jti = j
                              /\ tokens'[j].claim = req[w].claim
<1>1. ASSUME NEW w \in Worker, ConfirmInsert(w), tokens'[j] # tokens[j]
      PROVE  req[w].jti = j /\ tokens'[j].claim = req[w].claim
  BY <1>1 DEF ConfirmInsert, TypeOK
<1>2. ASSUME NEW w \in Worker, Start(w) \/ Poll(w) \/ Confirm(w) \/ Claim(w), ~ConfirmInsert(w)
      PROVE  UNCHANGED tokens
  BY <1>2 DEF Start, StartRequest, StartSweep, StartInsert, Poll, PollGet, PollSweep,
              Confirm, ConfirmGet, ConfirmClaim, ConfirmConsume, ConfirmStatus,
              ConfirmToken, Claim, TenantAuth, OperatorAuth, ClaimPairing, ClaimHost,
              ClaimInsert
<1>3. CASE Registry \/ Tick \/ Crash \/ UNCHANGED vars
  BY <1>3 DEF Registry, TenantCreate, TenantRevoke, HostCreate, HostRemove, Tick, Crash, vars
<1> QED BY <1>1, <1>2, <1>3 DEF Next, ConfirmInsert

\* A pairing names a token of its own: issued for a claim spent on it, or
\* still in the hands of a confirm of this pairing.
NamesInv == \A p \in PairingId : pairings[p].jti # Null =>
  /\ pairings[p].jti \in Issued => GrantOf(pairings[p].jti).takenBy = p
  /\ \A w \in Worker : req[w].jti = pairings[p].jti => req[w].pairing = p

LEMMA NamesStep ==
  ASSUME TypeOK, GrantInv, NamesInv, [Next]_vars
  PROVE  NamesInv'
<1> SUFFICES ASSUME NEW p \in PairingId, pairings'[p].jti # Null
             PROVE  /\ pairings'[p].jti \in Issued' =>
                         claims'[tokens'[pairings'[p].jti].claim].takenBy = p
                    /\ \A w \in Worker : req'[w].jti = pairings'[p].jti => req'[w].pairing = p
  BY DEF NamesInv, GrantOf
<1>0. TypeOK'
  BY NextTypes
<1>1. CASE PairingNamed(p)
  <2>1. PICK w \in Worker : ConfirmToken(w) /\ req[w].pairing = p /\ pairings'[p].jti = req[w].jti
    BY <1>1 DEF PairingNamed
  <2>2. req[w].pc \in Naming /\ tokens' = tokens /\ GoTo(w, "confirm_insert")
    BY <2>1 DEF ConfirmToken, At, Naming
  <2>3. /\ tokens[req[w].jti].status = "none"
        /\ \A v \in Worker : v # w => req[v].jti # req[w].jti
    BY <2>2 DEF GrantInv, Named
  <2>4. req[w].jti \notin Issued'
    BY <2>2, <2>3 DEF Issued
  <2>5. req'[w].pairing = p /\ \A v \in Worker : v # w => req'[v] = req[v]
    BY <2>1, <2>2, GoToFields DEF GoTo, Proceed, TypeOK
  <2> QED BY <2>1, <2>3, <2>4, <2>5
<1>2. CASE ~PairingNamed(p)
  <2> DEFINE j == pairings[p].jti
  <2>1. pairings'[p].jti = j /\ j # Null
    BY <1>2, PairingChanges DEF PairingSwept, PairingMade, PairingPaid
  <2>2. ASSUME j \in Issued' PROVE claims'[tokens'[j].claim].takenBy = p
    <3>1. CASE tokens'[j] = tokens[j]
      <4>1. j \in Issued /\ claims[tokens[j].claim].takenBy = p
        BY <2>1, <2>2, <3>1 DEF NamesInv, GrantOf, Issued
      <4>2. tokens[j].claim \in ClaimId /\ claims[tokens[j].claim].status = "consumed"
        BY <4>1 DEF GrantInv, ClaimSingleUse, GrantOf, Issued, TypeOK, TokenRow, NoToken
      <4>3. claims'[tokens[j].claim] = claims[tokens[j].claim]
        BY <4>2, SpentStep
      <4> QED BY <3>1, <4>1, <4>3
    <3>2. CASE tokens'[j] # tokens[j]
      <4>1. PICK w \in Worker : /\ At(w, "confirm_insert") /\ req[w].jti = j
                                /\ tokens'[j].claim = req[w].claim
        BY <2>2, <3>2, TokenChanges DEF Issued
      <4>2. req[w].pairing = p
        BY <2>1, <4>1 DEF NamesInv
      <4>3. /\ req[w].claim \in ClaimId /\ claims[req[w].claim].status = "consumed"
            /\ claims[req[w].claim].takenBy = req[w].pairing
        BY <4>1 DEF At, GrantInv, Held, Granting, Confirming, TypeOK, LocalsOK
      <4>4. claims'[req[w].claim] = claims[req[w].claim]
        BY <4>3, SpentStep
      <4> QED BY <4>1, <4>2, <4>3, <4>4
    <3> QED BY <3>1, <3>2
  <2>3. ASSUME NEW w \in Worker, req'[w].jti = j PROVE req'[w].pairing = p
    <3>1. req'[w].pc \in Naming
      BY <1>0, <2>1, <2>3 DEF TypeOK, LocalsOK
    <3>2. ~FreshJti(j)
      BY DEF FreshJti
    <3> QED BY <2>1, <2>3, <3>1, <3>2, NamingStep DEF NamesInv
  <2> QED BY <2>1, <2>2, <2>3
<1> QED BY <1>1, <1>2

(* The token admin/status names for a code was issued for the latest       *)
(* pairing with that code (pairing_status_with_token, pairing_set_token).  *)
THEOREM StatusIsTrue == Spec => []StatusNamesAGrant
<1>1. Init => NamesInv
  BY DEF Init, NamesInv, NoPairing
<1>2. TypeOK /\ GrantInv /\ NamesInv /\ [Next]_vars => NamesInv'
  BY NamesStep
<1>3. TypeOK /\ NamesInv => StatusNamesAGrant
  <2> SUFFICES ASSUME TypeOK, NamesInv, NEW k \in Code, NEW j \in StatusToken(k) \cap Issued
               PROVE  GrantOf(j).takenBy \in Latest(k)
    BY DEF StatusNamesAGrant
  <2>1. PICK p \in Latest(k) : j = pairings[p].jti /\ j # Null
    BY DEF StatusToken
  <2>2. p \in PairingId
    BY DEF Latest
  <2> QED BY <2>1, <2>2 DEF NamesInv
<1> QED BY <1>1, <1>2, <1>3, GrantInvariant, PTL DEF Spec

-----------------------------------------------------------------------------
(* How many claims one pairing may spend.  A confirm that has read the     *)
(* pairing (Asker) may still spend a claim on it; until the status is      *)
(* written every spent claim has its own request before that write         *)
(* (Payer); once it is written nobody joins the askers any more.           *)

Asking == {"confirm_claim", "confirm_consume"}
Askers(p) == {w \in Worker : req[w].pc \in Asking /\ req[w].pairing = p}
Payers(p) == {w \in Worker : At(w, "confirm_status") /\ req[w].pairing = p}
Takers(p) == {c \in ClaimId : claims[c].takenBy = p}

Backed(p) == \A c \in Takers(p) : \E w \in Payers(p) : req[w].claim = c
Room(p) == /\ IsFiniteSet(Takers(p))
           /\ Cardinality(Takers(p)) + Cardinality(Askers(p)) <= Cardinality(Worker)
OvergrantInv == \A p \in PairingId :
  Room(p) /\ (pairings[p].status # "confirmed" => Backed(p))

\* Two disjoint sets of requests.
LEMMA Disjoint ==
  ASSUME IsFiniteSet(Worker), NEW A \in SUBSET Worker, NEW B \in SUBSET Worker, A \cap B = {}
  PROVE  /\ IsFiniteSet(A) /\ IsFiniteSet(B)
         /\ Cardinality(A) \in Nat /\ Cardinality(B) \in Nat /\ Cardinality(Worker) \in Nat
         /\ Cardinality(A) + Cardinality(B) <= Cardinality(Worker)
<1>1. /\ IsFiniteSet(A) /\ IsFiniteSet(B) /\ IsFiniteSet(A \cup B)
      /\ Cardinality(A \cup B) <= Cardinality(Worker)
  BY FS_Subset
<1>2. Cardinality(A \cup B) = Cardinality(A) + Cardinality(B) - Cardinality(A \cap B)
  BY <1>1, FS_Union
<1>3. Cardinality(A \cap B) = 0
  BY FS_EmptySet
<1>4. /\ Cardinality(A) \in Nat /\ Cardinality(B) \in Nat /\ Cardinality(Worker) \in Nat
  BY <1>1, FS_CardinalityType
<1> QED BY <1>1, <1>2, <1>3, <1>4

\* While every spent claim has its payer, there is room for all who ask.
LEMMA BackedHasRoom ==
  ASSUME IsFiniteSet(Worker), NEW T, NEW P \in SUBSET Worker, NEW A \in SUBSET Worker,
         P \cap A = {}, NEW f, \A c \in T : \E w \in P : f[w] = c
  PROVE  /\ IsFiniteSet(T) /\ Cardinality(T) + Cardinality(A) <= Cardinality(Worker)
<1> DEFINE I == {f[w] : w \in P}
           g == [w \in P |-> f[w]]
<1>1. /\ IsFiniteSet(P) /\ Cardinality(P) \in Nat /\ Cardinality(A) \in Nat
      /\ Cardinality(Worker) \in Nat /\ Cardinality(P) + Cardinality(A) <= Cardinality(Worker)
  BY Disjoint
<1>2. IsFiniteSet(I) /\ Cardinality(I) <= Cardinality(P)
  <2>1. g \in Surjection(P, I)
    BY DEF Surjection
  <2> HIDE DEF g, I
  <2> QED BY <1>1, <2>1, FS_Surjection
<1>3. T \subseteq I
  OBVIOUS
<1> HIDE DEF I
<1>4. IsFiniteSet(T) /\ Cardinality(T) <= Cardinality(I)
  BY <1>2, <1>3, FS_Subset
<1>5. Cardinality(T) \in Nat /\ Cardinality(I) \in Nat
  BY <1>2, <1>4, FS_CardinalityType
<1> QED BY <1>1, <1>2, <1>4, <1>5

\* Without faults nothing cuts a request off.
LEMMA OwnStep ==
  ASSUME TypeOK, ~Faults, [Next]_vars, NEW w \in Worker, req'[w] # req[w]
  PROVE  (Start(w) \/ Poll(w) \/ Confirm(w) \/ Claim(w)) /\ now' = now
<1>0. req \in [Worker -> Request]
  BY DEF TypeOK
<1>1. ASSUME NEW v \in Worker, Start(v) \/ Poll(v) \/ Confirm(v) \/ Claim(v)
      PROVE  now' = now /\ \E r : Proceed(v, r)
  BY <1>1 DEF Start, StartRequest, StartSweep, StartInsert, Poll, PollGet, PollSweep,
              Confirm, ConfirmGet, ConfirmClaim, ConfirmConsume, ConfirmStatus,
              ConfirmToken, ConfirmInsert, Claim, TenantAuth, OperatorAuth, ClaimPairing,
              ClaimHost, ClaimInsert, Return, GoTo
<1>2. ASSUME NEW v \in Worker, v # w, Start(v) \/ Poll(v) \/ Confirm(v) \/ Claim(v)
      PROVE  FALSE
  BY <1>0, <1>1, <1>2 DEF Proceed
<1>3. CASE Registry \/ Tick \/ Crash \/ UNCHANGED vars
  BY <1>3 DEF Registry, TenantCreate, TenantRevoke, HostCreate, HostRemove, Tick, Crash, vars
<1> QED BY <1>1, <1>2, <1>3 DEF Next

\* One becomes an asker only by reading the pairing while it is pending.
LEMMA AskerStep ==
  ASSUME TypeOK, ~Faults, [Next]_vars, NEW p \in PairingId,
         NEW w \in Worker, req'[w].pc \in Asking, req'[w].pairing = p
  PROVE  w \in Askers(p) \/ ConfirmGet(w, p)
<1> USE DEF Asking, Confirming, Granting, Claiming
<1>0. req \in [Worker -> Request]
  BY DEF TypeOK
<1>1. CASE req'[w] = req[w]
  BY <1>1 DEF Askers
<1>2. CASE Start(w) \/ Poll(w) \/ Claim(w)
  BY <1>2, PcAfter
<1>3. CASE Confirm(w)
  <2>1. CASE \E q \in PairingId : ConfirmGet(w, q)
    <3>1. PICK q \in PairingId : ConfirmGet(w, q)
      BY <2>1
    <3>2. req'[w].pairing = q
      BY <1>0, <3>1 DEF ConfirmGet, Proceed, Idle
    <3> QED BY <3>1, <3>2
  <2>2. CASE \E c \in ClaimId, h \in HostCode : ConfirmClaim(w, c, h)
    <3>1. PICK c \in ClaimId : \/ Return(w)
                               \/ Proceed(w, [req[w] EXCEPT !.pc = "confirm_consume", !.claim = c,
                                    !.port = claims[c].port, !.tenant = claims[c].tenant])
      BY <2>2 DEF ConfirmClaim
    <3>2. [req[w] EXCEPT !.pc = "confirm_consume", !.claim = c, !.port = claims[c].port,
                         !.tenant = claims[c].tenant].pairing = req[w].pairing
      BY <1>0 DEF Request
    <3>3. req'[w].pairing = req[w].pairing
      BY <1>0, <3>1, <3>2, ReturnFields DEF Proceed
    <3>4. req[w].pc = "confirm_claim"
      BY <2>2 DEF ConfirmClaim, At
    <3> QED BY <3>3, <3>4 DEF Askers
  <2>3. CASE ConfirmConsume(w) \/ ConfirmToken(w) \/ ConfirmInsert(w)
    BY <2>3, GoToFields, ReturnFields DEF ConfirmConsume, ConfirmToken, ConfirmInsert
  <2>4. CASE ConfirmStatus(w)
    BY <1>0, <2>4 DEF ConfirmStatus, Proceed, Request
  <2> QED BY <1>3, <2>1, <2>2, <2>3, <2>4 DEF Confirm
<1> QED BY <1>1, <1>2, <1>3, OwnStep

\* A step spends at most one claim on p, and that by an asker who leaves.
LEMMA TakerStep ==
  ASSUME TypeOK, GrantInv, [Next]_vars, NEW p \in PairingId
  PROVE  \/ Takers(p)' = Takers(p)
         \/ \E c \in ClaimId, w \in Worker :
              /\ Takers(p)' = Takers(p) \cup {c} /\ c \notin Takers(p)
              /\ w \in Askers(p) /\ req[w].claim = c
              /\ req' = [req EXCEPT ![w] = [req[w] EXCEPT !.pc = "confirm_status"]]
<1>1. CASE \E c \in ClaimId : ClaimSpent(c) /\ claims'[c].takenBy = p
  <2>1. PICK c \in ClaimId : ClaimSpent(c) /\ claims'[c].takenBy = p
    BY <1>1
  <2>2. PICK w \in Worker :
          /\ ConfirmConsume(w) /\ req[w].claim = c
          /\ claims'[c].takenBy = req[w].pairing
          /\ req' = [req EXCEPT ![w] = [req[w] EXCEPT !.pc = "confirm_status"]]
          /\ \A d \in ClaimId \ {c} : claims'[d] = claims[d]
    BY <2>1 DEF ClaimSpent
  <2>3. claims[c].takenBy = Null
    BY <2>1 DEF ClaimSpent, GrantInv, Taken
  <2>4. Takers(p)' = Takers(p) \cup {c} /\ c \notin Takers(p)
    BY <2>1, <2>2, <2>3 DEF Takers
  <2>5. w \in Askers(p)
    BY <2>1, <2>2 DEF Askers, Asking, ConfirmConsume, At
  <2> QED BY <2>2, <2>4, <2>5
<1>2. CASE ~\E c \in ClaimId : ClaimSpent(c) /\ claims'[c].takenBy = p
  <2>1. ASSUME NEW c \in ClaimId PROVE claims'[c].takenBy = p <=> claims[c].takenBy = p
    <3>1. CASE ClaimSpent(c)
      <4>1. claims[c].takenBy = Null
        BY <3>1 DEF ClaimSpent, GrantInv, Taken
      <4> QED BY <1>2, <3>1, <4>1
    <3>2. CASE ClaimMade(c)
      BY <3>2 DEF ClaimMade, GrantInv, Taken
    <3> QED BY <3>1, <3>2, ClaimChanges DEF ClaimSwept
  <2> QED BY <2>1 DEF Takers
<1> QED BY <1>1, <1>2

LEMMA BackedStep ==
  ASSUME TypeOK, GrantInv, OvergrantInv, ~Faults, [Next]_vars, NEW p \in PairingId,
         pairings'[p].status # "confirmed"
  PROVE  Backed(p)'
<1> SUFFICES ASSUME NEW c \in ClaimId, claims'[c].takenBy = p
             PROVE  \E w \in Worker : /\ req'[w].pc = "confirm_status"
                                      /\ req'[w].pairing = p /\ req'[w].claim = c
  BY DEF Backed, Takers, Payers, At
<1>0. req \in [Worker -> Request] /\ pairings \in [PairingId -> PairingRow]
  BY DEF TypeOK
<1>1. CASE c \in Takers(p)
  <2>1. pairings[p].status # "confirmed"
    BY SpentStep
  <2>2. PICK w \in Worker : At(w, "confirm_status") /\ req[w].pairing = p /\ req[w].claim = c
    BY <1>1, <2>1 DEF OvergrantInv, Backed, Payers
  <2>3. ~ConfirmStatus(w)
    <3> SUFFICES ASSUME ConfirmStatus(w) PROVE FALSE
      OBVIOUS
    <3>1. pairings' = [pairings EXCEPT ![p] = [pairings[p] EXCEPT !.status = "confirmed"]]
      BY <2>2 DEF ConfirmStatus, Confirmed
    <3>2. pairings[p].status # "none"
      BY <2>2 DEF TypeOK, LocalsOK, RefsOK, At, Confirming, Granting
    <3>3. [pairings[p] EXCEPT !.status = "confirmed"].status = "confirmed"
      BY <1>0, <3>2 DEF PairingRow, NoPairing
    <3> QED BY <1>0, <3>1, <3>3
  <2>4. req'[w] = req[w]
    <3>1. CASE Start(w) \/ Poll(w) \/ Claim(w)
      BY <2>2, <3>1 DEF Start, StartRequest, StartSweep, StartInsert, Poll, PollGet, PollSweep,
                        Claim, TenantAuth, OperatorAuth, ClaimPairing, ClaimHost, ClaimInsert, At
    <3>2. CASE Confirm(w)
      BY <2>2, <2>3, <3>2 DEF Confirm, ConfirmGet, ConfirmClaim, ConfirmConsume, ConfirmToken,
                              ConfirmInsert, At
    <3> QED BY <3>1, <3>2, OwnStep
  <2> QED BY <2>2, <2>4 DEF At
<1>2. CASE c \notin Takers(p)
  <2>1. PICK w \in Worker : /\ w \in Askers(p) /\ req[w].claim = c
                            /\ req' = [req EXCEPT ![w] = [req[w] EXCEPT !.pc = "confirm_status"]]
    BY <1>2, TakerStep DEF Takers
  <2>2. GoTo(w, "confirm_status")
    BY <2>1 DEF GoTo, Proceed
  <2> QED BY <2>1, <2>2, GoToFields DEF Askers
<1> QED BY <1>1, <1>2

LEMMA RoomStep ==
  ASSUME IsFiniteSet(Worker), TypeOK, GrantInv, OvergrantInv, ~Faults, [Next]_vars,
         NEW p \in PairingId
  PROVE  Room(p)'
<1> DEFINE A == Askers(p)'
           T == Takers(p)'
<1>1. A \subseteq Worker /\ Askers(p) \subseteq Worker
  BY DEF Askers
<1>2. CASE pairings'[p].status # "confirmed"
  <2> DEFINE P == Payers(p)'
             f == [w \in Worker |-> req'[w].claim]
  <2>1. P \subseteq Worker /\ P \cap A = {}
    BY DEF Payers, Askers, Asking, At
  <2>2. \A c \in T : \E w \in P : f[w] = c
    BY <1>2, <2>1, BackedStep DEF Backed
  <2> HIDE DEF A, T, P, f
  <2>3. IsFiniteSet(T) /\ Cardinality(T) + Cardinality(A) <= Cardinality(Worker)
    BY <1>1, <2>1, <2>2, BackedHasRoom
  <2> QED BY <2>3 DEF Room, A, T
<1>3. CASE pairings'[p].status = "confirmed"
  <2>1. A \subseteq Askers(p)
    <3> SUFFICES ASSUME NEW w \in Worker, req'[w].pc \in Asking, req'[w].pairing = p
                 PROVE  w \in Askers(p)
      BY DEF Askers
    <3>1. ~ConfirmGet(w, p)
      BY <1>3 DEF ConfirmGet, PairingActive
    <3> QED BY <3>1, AskerStep
  <2>2. /\ IsFiniteSet(Takers(p)) /\ IsFiniteSet(Askers(p)) /\ IsFiniteSet(A)
        /\ Cardinality(Takers(p)) \in Nat /\ Cardinality(Askers(p)) \in Nat
        /\ Cardinality(A) \in Nat /\ Cardinality(Worker) \in Nat
        /\ Cardinality(Takers(p)) + Cardinality(Askers(p)) <= Cardinality(Worker)
    <3>1. IsFiniteSet(Askers(p)) /\ IsFiniteSet(A)
      BY <1>1, FS_Subset
    <3> QED BY <3>1, FS_CardinalityType DEF OvergrantInv, Room
  <2>3. CASE T = Takers(p)
    <3>1. Cardinality(A) <= Cardinality(Askers(p))
      BY <2>1, <2>2, FS_Subset
    <3> HIDE DEF A, T
    <3>2. Cardinality(Takers(p)) + Cardinality(A) <= Cardinality(Worker)
      BY <2>2, <3>1
    <3>3. IsFiniteSet(T) /\ Cardinality(T) + Cardinality(A) <= Cardinality(Worker)
      BY <2>2, <2>3, <3>2
    <3> QED BY <3>3 DEF Room, A, T
  <2>4. CASE T # Takers(p)
    <3>1. PICK c \in ClaimId, w \in Worker :
            /\ T = Takers(p) \cup {c} /\ c \notin Takers(p) /\ w \in Askers(p)
            /\ req' = [req EXCEPT ![w] = [req[w] EXCEPT !.pc = "confirm_status"]]
      BY <2>4, TakerStep
    <3>2. w \notin A
      <4>1. req'[w].pc = "confirm_status"
        BY <3>1, GoToFields DEF GoTo, Proceed
      <4> QED BY <4>1 DEF Askers, Asking
    <3> HIDE DEF A, T
    <3>3. IsFiniteSet(T) /\ Cardinality(T) = Cardinality(Takers(p)) + 1
      BY <2>2, <3>1, FS_AddElement
    <3>4. Cardinality(A) <= Cardinality(Askers(p)) - 1
      <4>1. A \subseteq Askers(p) \ {w}
        BY <2>1, <3>2
      <4>2. /\ IsFiniteSet(Askers(p) \ {w})
            /\ Cardinality(Askers(p) \ {w}) = Cardinality(Askers(p)) - 1
        BY <2>2, <3>1, FS_RemoveElement
      <4>3. Cardinality(A) <= Cardinality(Askers(p) \ {w})
        BY <4>1, <4>2, FS_Subset
      <4> QED BY <4>2, <4>3
    <3>5. Cardinality(T) + Cardinality(A) <= Cardinality(Worker)
      BY <2>2, <3>3, <3>4
    <3> QED BY <3>3, <3>5 DEF Room, A, T
  <2> QED BY <2>3, <2>4
<1> QED BY <1>2, <1>3

(* Without faults, concurrent confirms of one pairing spend no more claims *)
(* on it than there can be requests in flight, for any finite number of    *)
(* them (confirm_handler, whose two reads precede every write).            *)
THEOREM Overgrant ==
  ASSUME IsFiniteSet(Worker), ~Faults
  PROVE  Spec => []BoundedOvergrant
<1>1. Init => OvergrantInv
  <2> SUFFICES ASSUME Init, NEW p \in PairingId PROVE Room(p) /\ Backed(p)
    BY DEF OvergrantInv
  <2>1. Takers(p) = {} /\ Askers(p) = {}
    BY DEF Init, Takers, Askers, Asking, NoClaim, Idle
  <2>2. Cardinality(Worker) \in Nat
    BY FS_CardinalityType
  <2> QED BY <2>1, <2>2, FS_EmptySet DEF Room, Backed
<1>2. TypeOK /\ GrantInv /\ OvergrantInv /\ [Next]_vars => OvergrantInv'
  BY RoomStep, BackedStep DEF OvergrantInv
<1>3. OvergrantInv => BoundedOvergrant
  <2> SUFFICES ASSUME OvergrantInv, NEW p \in PairingId
               PROVE  Cardinality(Takers(p)) <= Cardinality(Worker)
    BY DEF BoundedOvergrant, Takers
  <2>1. Askers(p) \subseteq Worker
    BY DEF Askers
  <2>2. IsFiniteSet(Askers(p)) /\ Room(p)
    BY <2>1, FS_Subset DEF OvergrantInv
  <2>3. /\ Cardinality(Askers(p)) \in Nat /\ Cardinality(Takers(p)) \in Nat
        /\ Cardinality(Worker) \in Nat
    BY <2>2, FS_CardinalityType DEF Room
  <2> QED BY <2>2, <2>3 DEF Room
<1> QED BY <1>1, <1>2, <1>3, GrantInvariant, PTL DEF Spec

-----------------------------------------------------------------------------
(* No grant is lost.                                                       *)

\* Between the consume and the insert a request goes from write to write.
LEMMA GrantingStep ==
  ASSUME TypeOK, GrantInv, ~Faults, [Next]_vars, NEW w \in Worker, req[w].pc \in Granting
  PROVE  \/ req'[w].pc \in Granting /\ req'[w].claim = req[w].claim
         \/ \E j \in Jti : /\ tokens'[j].status = "issued"
                           /\ tokens'[j].claim = req[w].claim
<1> USE DEF Granting
<1>0. req \in [Worker -> Request] /\ tokens \in [Jti -> TokenRow]
  BY DEF TypeOK
<1>1. CASE req'[w] = req[w]
  BY <1>1
<1>2. CASE Start(w) \/ Poll(w) \/ Claim(w)
  BY <1>2 DEF Start, StartRequest, StartSweep, StartInsert, Poll, PollGet, PollSweep,
              Claim, TenantAuth, OperatorAuth, ClaimPairing, ClaimHost, ClaimInsert, At
<1>3. CASE ConfirmStatus(w)
  <2>1. PICK j \in Jti : req'[w] = [req[w] EXCEPT !.pc = "confirm_token", !.jti = j]
    BY <1>0, <1>3 DEF ConfirmStatus, Proceed
  <2> QED BY <1>0, <2>1 DEF Request
<1>4. CASE ConfirmToken(w)
  BY <1>4, GoToFields DEF ConfirmToken
<1>5. CASE ConfirmInsert(w)
  <2>1. req[w].jti \in Jti
    BY <1>5 DEF ConfirmInsert, At, TypeOK, LocalsOK, Naming
  <2>2. tokens' = [tokens EXCEPT ![req[w].jti] =
                     [status |-> "issued", port |-> req[w].port,
                      tenant |-> req[w].tenant, claim |-> req[w].claim]]
    BY <1>5 DEF ConfirmInsert
  <2> QED BY <1>0, <2>1, <2>2
<1>6. CASE Confirm(w)
  BY <1>3, <1>4, <1>5, <1>6 DEF Confirm, ConfirmGet, ConfirmClaim, ConfirmConsume, At
<1> QED BY <1>1, <1>2, <1>6, OwnStep

\* A token stays what it is.
LEMMA TokenKept ==
  ASSUME TypeOK, GrantInv, [Next]_vars, NEW j \in Issued
  PROVE  tokens'[j] = tokens[j]
<1>0. tokens \in [Jti -> TokenRow] /\ j \in Jti /\ tokens[j].status = "issued"
  BY DEF TypeOK, Issued
<1>1. ASSUME NEW w \in Worker, ConfirmInsert(w) PROVE tokens'[j] = tokens[j]
  <2>1. tokens[req[w].jti].status = "none"
    BY <1>1 DEF ConfirmInsert, At, GrantInv, Named, Naming
  <2> QED BY <1>0, <1>1, <2>1 DEF ConfirmInsert
<1>2. CASE \E w \in Worker : Start(w) \/ Poll(w) \/ Confirm(w) \/ Claim(w)
  BY <1>1, <1>2 DEF Start, StartRequest, StartSweep, StartInsert, Poll, PollGet, PollSweep,
                    Confirm, ConfirmGet, ConfirmClaim, ConfirmConsume, ConfirmStatus,
                    ConfirmToken, Claim, TenantAuth, OperatorAuth, ClaimPairing, ClaimHost,
                    ClaimInsert
<1>3. CASE Registry \/ Tick \/ Crash \/ UNCHANGED vars
  BY <1>3 DEF Registry, TenantCreate, TenantRevoke, HostCreate, HostRemove, Tick, Crash, vars
<1> QED BY <1>2, <1>3 DEF Next

LEMMA NoGrantLostStep ==
  ASSUME TypeOK, GrantInv, NoGrantLost, ~Faults, [Next]_vars
  PROVE  NoGrantLost'
<1> SUFFICES ASSUME NEW c \in ClaimId, claims'[c].status = "consumed"
             PROVE  \/ \E j \in Jti : tokens'[j].status = "issued" /\ tokens'[j].claim = c
                    \/ \E w \in Worker : req'[w].pc \in Granting /\ req'[w].claim = c
  BY DEF NoGrantLost, Issued
<1>1. CASE claims[c].status = "consumed"
  <2>1. CASE \E j \in Issued : tokens[j].claim = c
    BY <2>1, TokenKept DEF Issued
  <2>2. CASE \E w \in Worker : req[w].pc \in Granting /\ req[w].claim = c
    BY <2>2, GrantingStep
  <2> QED BY <1>1, <2>1, <2>2 DEF NoGrantLost
<1>2. CASE claims[c].status # "consumed"
  <2>1. ClaimSpent(c)
    BY <1>2, ClaimChanges DEF ClaimSwept, ClaimMade
  <2>2. PICK w \in Worker :
          /\ req[w].claim = c
          /\ req' = [req EXCEPT ![w] = [req[w] EXCEPT !.pc = "confirm_status"]]
    BY <2>1 DEF ClaimSpent
  <2>3. GoTo(w, "confirm_status")
    BY <2>2 DEF GoTo, Proceed
  <2> QED BY <2>2, <2>3, GoToFields DEF Granting
<1> QED BY <1>1, <1>2

(* Without faults no spent claim is ever without a token and without a     *)
(* request that will write it: after the consume nothing in confirm reads  *)
(* the database, so neither another confirm, a sweep, a revoked tenant nor *)
(* a port taken out of the registry can leave the phone with a spent claim *)
(* and no token (confirm_handler).                                         *)
THEOREM GrantsKept == ASSUME ~Faults PROVE Spec => []NoGrantLost
<1>1. Init => NoGrantLost
  BY DEF Init, NoGrantLost, NoClaim
<1>2. TypeOK /\ GrantInv /\ NoGrantLost /\ [Next]_vars => NoGrantLost'
  BY NoGrantLostStep
<1> QED BY <1>1, <1>2, GrantInvariant, PTL DEF Spec

-----------------------------------------------------------------------------
(* What a revoked tenant can still do.                                     *)

\* A request acts for a tenant from the look-up of its key on.
LEMMA ActingStep ==
  ASSUME TypeOK, [Next]_vars, NEW w \in Worker, NEW t \in TenantId, req'[w].ctx = t
  PROVE  req[w].ctx = t \/ tenants[t] = "active"
<1>0. req \in [Worker -> Request] /\ Idle.ctx = Null /\ Null # t /\ Operator # t
  BY DEF TypeOK, Idle
<1>1. ASSUME NEW r, Proceed(w, r) PROVE req'[w] = r
  BY <1>0, <1>1 DEF Proceed
<1>2. ASSUME Return(w) PROVE FALSE
  BY <1>0, <1>1, <1>2 DEF Return
<1>3. ASSUME NEW pc, GoTo(w, pc) PROVE req[w].ctx = t
  BY <1>0, <1>1, <1>3 DEF GoTo, Request
<1>4. CASE Start(w)
  <2>1. CASE \E k \in Code, a \in TenantId \cup {Open} : StartRequest(w, k, a)
    BY <1>0, <2>1 DEF StartRequest, Proceed, Idle
  <2> QED BY <1>2, <1>3, <1>4, <2>1 DEF Start, StartSweep, StartInsert
<1>5. CASE Poll(w)
  BY <1>0, <1>2, <1>5 DEF Poll, PollGet, PollSweep, Proceed, Idle
<1>6. CASE Confirm(w)
  <2>1. CASE \E p \in PairingId : ConfirmGet(w, p)
    BY <1>0, <2>1 DEF ConfirmGet, Proceed, Idle
  <2>2. CASE \E c \in ClaimId, h \in HostCode : ConfirmClaim(w, c, h)
    <3>1. PICK c \in ClaimId :
            Proceed(w, [req[w] EXCEPT !.pc = "confirm_consume", !.claim = c,
                                      !.port = claims[c].port, !.tenant = claims[c].tenant])
      BY <1>2, <2>2 DEF ConfirmClaim
    <3>2. [req[w] EXCEPT !.pc = "confirm_consume", !.claim = c, !.port = claims[c].port,
                         !.tenant = claims[c].tenant].ctx = req[w].ctx
      BY <1>0 DEF Request
    <3> QED BY <1>1, <3>1, <3>2
  <2>3. CASE ConfirmStatus(w)
    BY <1>0, <2>3 DEF ConfirmStatus, Proceed, Request
  <2> QED BY <1>2, <1>3, <1>6, <2>1, <2>2, <2>3 DEF Confirm, ConfirmConsume, ConfirmToken,
                                                  ConfirmInsert
<1>7. CASE Claim(w)
  <2>1. CASE \E a \in TenantId : TenantAuth(w, a)
    BY <1>0, <2>1 DEF TenantAuth, Proceed, Idle
  <2>2. CASE OperatorAuth(w)
    BY <1>0, <2>2 DEF OperatorAuth, Proceed, Idle
  <2>3. CASE \E k \in Code : ClaimPairing(w, k)
    <3>1. PICK k, a : Proceed(w, [req[w] EXCEPT !.pc = "claim_host", !.code = k, !.tenant = a])
      BY <1>2, <2>3 DEF ClaimPairing
    <3>2. [req[w] EXCEPT !.pc = "claim_host", !.code = k, !.tenant = a].ctx = req[w].ctx
      BY <1>0 DEF Request
    <3> QED BY <1>1, <3>1, <3>2
  <2>4. CASE \E q \in Port : ClaimHost(w, q)
    <3>1. PICK q : Proceed(w, [req[w] EXCEPT !.pc = "claim_insert", !.port = q])
      BY <1>2, <2>4 DEF ClaimHost
    <3>2. [req[w] EXCEPT !.pc = "claim_insert", !.port = q].ctx = req[w].ctx
      BY <1>0 DEF Request
    <3> QED BY <1>1, <3>1, <3>2
  <2> QED BY <1>2, <1>7, <2>1, <2>2, <2>3, <2>4 DEF Claim, ClaimInsert
<1> QED BY <1>0, <1>4, <1>5, <1>6, <1>7, RequestChanges

\* The request that makes an offer is gone with it.
LEMMA OfferLeaves ==
  ASSUME TypeOK, [Next]_vars, NEW c \in ClaimId, NEW t \in TenantId,
         claims[c].by # t, claims'[c].by = t
  PROVE  \E w \in Worker : req[w].ctx = t /\ req'[w].ctx # t
<1>1. ClaimMade(c)
  BY ClaimChanges DEF ClaimSwept, ClaimSpent, SameTerms
<1>2. PICK w \in Worker : claims'[c].by = req[w].ctx /\ Return(w)
  BY <1>1 DEF ClaimMade
<1>3. req'[w].ctx = Null /\ Null # t
  BY <1>2, ReturnFields DEF Idle
<1> QED BY <1>2, <1>3

(* Once a tenant is revoked nobody joins the requests that act for it, and *)
(* each of them makes one offer at most: the revocation is late by no more *)
(* than what was already past the look-up of the key                       *)
(* (tenant_auth_middleware, tenant_revoke_handler).                        *)
THEOREM RevokedDrains == Spec => RevokedTenantDrains
<1> DEFINE Drains ==
      \A t \in TenantId : tenants[t] = "revoked" =>
        /\ Acting(t)' \subseteq Acting(t)
        /\ (\E c \in ClaimId : claims[c].by # t /\ claims'[c].by = t)
             => Acting(t)' # Acting(t)
<1>1. TypeOK /\ [Next]_vars => [Drains]_vars
  <2> SUFFICES ASSUME TypeOK, [Next]_vars, NEW t \in TenantId, tenants[t] = "revoked"
               PROVE  /\ Acting(t)' \subseteq Acting(t)
                      /\ (\E c \in ClaimId : claims[c].by # t /\ claims'[c].by = t)
                           => Acting(t)' # Acting(t)
    OBVIOUS
  <2>1. Acting(t)' \subseteq Acting(t)
    BY ActingStep DEF Acting
  <2>2. ASSUME NEW c \in ClaimId, claims[c].by # t, claims'[c].by = t
        PROVE  Acting(t)' # Acting(t)
    <3>1. PICK w \in Worker : req[w].ctx = t /\ req'[w].ctx # t
      BY <2>2, OfferLeaves
    <3>2. w \in Acting(t) /\ w \notin Acting(t)'
      BY <3>1 DEF Acting
    <3> QED BY <3>2
  <2> QED BY <2>1, <2>2
<1> QED BY <1>1, TypeCorrect, PTL DEF Spec, RevokedTenantDrains
-----------------------------------------------------------------------------
(* What a tenant that lost a port can still do.                            *)

\* Only the registration as it is lets a tenant's request past the arbitration.
LEMMA ArbitrationStep ==
  ASSUME TypeOK, PortInv, [Next]_vars, NEW t \in TenantId, NEW q \in Port,
         NEW w \in Arbitrated(t, q)'
  PROVE  w \in Arbitrated(t, q) \/ hosts[q] = t
<1>0. /\ w \in Worker /\ req'[w].pc = "claim_insert"
      /\ req'[w].ctx = t /\ req'[w].port = q
  BY DEF Arbitrated, At
<1>1. CASE req'[w] = req[w]
  BY <1>0, <1>1 DEF Arbitrated, At
<1>2. CASE req'[w] # req[w]
  <2>1. /\ At(w, "claim_host") /\ req[w].ctx = t
        /\ \E h \in HostRead(q) : MayBind(t, req[w].tenant, h, q)
    BY <1>0, <1>2, ClaimingStep DEF Claiming
  <2>2. t # Operator /\ t # Default
    OBVIOUS
  <2>3. req[w].tenant = t
    BY <1>0, <2>1, <2>2 DEF PortInv, OwnTenant, At, Claiming
  <2> QED BY <2>1, <2>2, <2>3 DEF MayBind, HostRead
<1> QED BY <1>1, <1>2

\* The request that offers a port is gone with the offer.
LEMMA ArbitratedLeaves ==
  ASSUME TypeOK, [Next]_vars, NEW t \in TenantId, NEW q \in Port, NEW c \in ClaimId,
         ~OfferedBy(c, t, q), OfferedBy(c, t, q)'
  PROVE  \E w \in Arbitrated(t, q) : w \notin Arbitrated(t, q)'
<1>0. claims'[c].by = t /\ claims'[c].port = q
  BY DEF OfferedBy
<1>1. ClaimMade(c)
  BY <1>0, ClaimChanges DEF OfferedBy, ClaimSwept, ClaimSpent, SameTerms
<1>2. PICK w \in Worker : /\ At(w, "claim_insert") /\ Return(w)
                          /\ claims'[c].by = req[w].ctx /\ claims'[c].port = req[w].port
  BY <1>1 DEF ClaimMade
<1>3. w \in Arbitrated(t, q)
  BY <1>0, <1>2 DEF Arbitrated
<1>4. w \notin Arbitrated(t, q)'
  BY <1>2, ReturnFields DEF Arbitrated, At
<1> QED BY <1>3, <1>4

(* A tenant without a port, or that has it no longer, gets no new request  *)
(* past the arbitration of it, whatever the look-up of the registry said,  *)
(* and each that is past it makes one offer at most                        *)
(* (admin_claim_handler, host_remove_handler).                             *)
THEOREM LostPort == Spec => LostPortDrains
<1> DEFINE Drains ==
      \A t \in TenantId, q \in Port : hosts[q] # t =>
        /\ Arbitrated(t, q)' \subseteq Arbitrated(t, q)
        /\ (\E c \in ClaimId : ~OfferedBy(c, t, q) /\ OfferedBy(c, t, q)')
             => Arbitrated(t, q)' # Arbitrated(t, q)
<1>1. TypeOK /\ PortInv /\ [Next]_vars => [Drains]_vars
  <2> SUFFICES ASSUME TypeOK, PortInv, [Next]_vars,
                      NEW t \in TenantId, NEW q \in Port, hosts[q] # t
               PROVE  /\ Arbitrated(t, q)' \subseteq Arbitrated(t, q)
                      /\ (\E c \in ClaimId : ~OfferedBy(c, t, q) /\ OfferedBy(c, t, q)')
                           => Arbitrated(t, q)' # Arbitrated(t, q)
    OBVIOUS
  <2>1. Arbitrated(t, q)' \subseteq Arbitrated(t, q)
    BY ArbitrationStep
  <2>2. ASSUME NEW c \in ClaimId, ~OfferedBy(c, t, q), OfferedBy(c, t, q)'
        PROVE  Arbitrated(t, q)' # Arbitrated(t, q)
    <3>1. PICK w \in Arbitrated(t, q) : w \notin Arbitrated(t, q)'
      BY <2>2, ArbitratedLeaves
    <3> QED BY <3>1
  <2> QED BY <2>1, <2>2
<1> QED BY <1>1, PortInvariant, PTL DEF Spec, LostPortDrains
=============================================================================
