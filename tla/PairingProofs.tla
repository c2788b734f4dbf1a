--------------------------- MODULE PairingProofs ---------------------------
(***************************************************************************)
(* Proofs about Pairing, for every number of requests, rows, codes, ports  *)
(* and tenants, every TTL, and with crashes and failing writes allowed.    *)
(***************************************************************************)
EXTENDS Pairing, TLAPS

USE IdsAssumption, TimesAssumption, RestAssumption

-----------------------------------------------------------------------------
(* Type correctness. *)

\* The part of TypeOK that speaks of requests: every handler step touches it.
ReqOK == /\ req \in [Worker -> Request]
         /\ \A w \in Worker : LocalsOK(req[w]) /\ RefsOK(req[w])

\* No step deletes a row.
RowsKept == /\ \A p \in PairingId : pairings[p].status # "none" => pairings'[p].status # "none"
            /\ \A c \in ClaimId : claims[c].status # "none" => claims'[c].status # "none"

LEMMA IdleOK == Idle \in Request /\ LocalsOK(Idle) /\ RefsOK(Idle)
  BY DEF Idle, Request, LocalsOK, RefsOK, Starting, Confirming, Granting, Naming, Claiming

LEMMA ProceedOK ==
  ASSUME ReqOK, RowsKept,
         NEW w \in Worker, NEW r \in Request, LocalsOK(r), RefsOK(r), Proceed(w, r)
  PROVE  ReqOK'
<1>1. req' \in [Worker -> Request] /\ \A v \in Worker : LocalsOK(req'[v])
  BY DEF ReqOK, Proceed
<1>2. ASSUME NEW v \in Worker PROVE RefsOK(req[v])'
  <2>1. req'[v] \in Request /\ RefsOK(req'[v])
    BY DEF ReqOK, Proceed
  <2> QED BY <2>1 DEF RefsOK, RowsKept, Request
<1> QED BY <1>1, <1>2 DEF ReqOK, LocalsOK

LEMMA ReturnOK ==
  ASSUME ReqOK, RowsKept, NEW w \in Worker, Return(w)
  PROVE  ReqOK'
  BY IdleOK, ProceedOK DEF Return

LEMMA SweepOK ==
  ASSUME TypeOK, Sweep
  PROVE  /\ pairings' \in [PairingId -> PairingRow] /\ claims' \in [ClaimId -> ClaimRow]
         /\ RowsKept
<1>1. SweptPairings \in [PairingId -> PairingRow]
  BY DEF SweptPairings, TypeOK, PairingRow, NoPairing
<1>2. SweptClaims \in [ClaimId -> ClaimRow]
  BY DEF SweptClaims, TypeOK, ClaimRow, NoClaim
<1>3. /\ \A p \in PairingId : SweptPairings[p].status = "none" => pairings[p].status = "none"
      /\ \A c \in ClaimId : SweptClaims[c].status = "none" => claims[c].status = "none"
  BY DEF SweptPairings, SweptClaims, TypeOK, PairingRow, ClaimRow, NoPairing, NoClaim
<1> QED BY <1>1, <1>2, <1>3 DEF Sweep, TypeOK, RowsKept

LEMMA InitTypes == Init => TypeOK
<1> SUFFICES ASSUME Init PROVE TypeOK
  OBVIOUS
<1> QED BY IdleOK DEF Init, TypeOK, Owner, PairingRow, ClaimRow, TokenRow

LEMMA StartTypes ==
  ASSUME TypeOK, NEW w \in Worker, Start(w)
  PROVE  TypeOK'
<1> USE DEF Request, LocalsOK, RefsOK, Starting, Confirming, Granting, Naming, Claiming
<1>0. ReqOK
  BY DEF TypeOK, ReqOK
<1>1. CASE \E k \in Code, t \in TenantId \cup {Open} : StartRequest(w, k, t)
  <2>1. PICK k \in Code, t \in TenantId \cup {Open} : StartRequest(w, k, t)
    BY <1>1
  <2> DEFINE r == [Idle EXCEPT !.pc = "start_sweep", !.code = k, !.tenant = t]
  <2>2. r \in Request /\ LocalsOK(r) /\ RefsOK(r)
    BY DEF Idle, Owner
  <2>3. ReqOK'
    BY <1>0, <2>1, <2>2, ProceedOK DEF StartRequest, RowsKept
  <2> QED BY <2>1, <2>3 DEF StartRequest, TypeOK, ReqOK
<1>2. CASE StartSweep(w)
  <2> DEFINE r == [req[w] EXCEPT !.pc = "start_insert"]
  <2>1. r \in Request /\ LocalsOK(r) /\ RefsOK(r)
    BY <1>0, <1>2 DEF StartSweep, ReqOK, At
  <2>2. ReqOK'
    BY <1>0, <1>2, <2>1, SweepOK, ProceedOK DEF StartSweep, GoTo
  <2> QED BY <1>2, <2>2, SweepOK DEF StartSweep, TypeOK, ReqOK
<1>3. CASE StartInsert(w)
  <2>1. [status |-> "pending", code |-> req[w].code, tenant |-> req[w].tenant,
         created |-> now, expires |-> now + PairingTTL, jti |-> Null] \in PairingRow
    BY <1>0, <1>3 DEF StartInsert, At, ReqOK, PairingRow, TypeOK
  <2>2. pairings' \in [PairingId -> PairingRow] /\ RowsKept
    BY <1>3, <2>1 DEF StartInsert, TypeOK, RowsKept
  <2>3. ReqOK'
    BY <1>0, <1>3, <2>2, ReturnOK DEF StartInsert
  <2> QED BY <1>3, <2>2, <2>3 DEF StartInsert, TypeOK, ReqOK
<1> QED BY <1>1, <1>2, <1>3 DEF Start

LEMMA PollTypes ==
  ASSUME TypeOK, NEW w \in Worker, Poll(w)
  PROVE  TypeOK'
<1> USE DEF Request, LocalsOK, RefsOK, Starting, Confirming, Granting, Naming, Claiming
<1>0. ReqOK
  BY DEF TypeOK, ReqOK
<1>1. CASE \E p \in PairingId : PollGet(w, p)
  <2> DEFINE r == [Idle EXCEPT !.pc = "poll_sweep"]
  <2>1. r \in Request /\ LocalsOK(r) /\ RefsOK(r)
    BY DEF Idle
  <2>2. ReqOK'
    BY <1>0, <1>1, <2>1, ProceedOK DEF PollGet, RowsKept
  <2> QED BY <1>1, <2>2 DEF PollGet, TypeOK, ReqOK
<1>2. CASE PollSweep(w)
  <2>1. ReqOK'
    BY <1>0, <1>2, SweepOK, ReturnOK DEF PollSweep
  <2> QED BY <1>2, <2>1, SweepOK DEF PollSweep, TypeOK, ReqOK
<1> QED BY <1>1, <1>2 DEF Poll

LEMMA ConfirmTypes ==
  ASSUME TypeOK, NEW w \in Worker, Confirm(w)
  PROVE  TypeOK'
<1> USE DEF Request, LocalsOK, RefsOK, Starting, Confirming, Granting, Naming, Claiming
<1>0. ReqOK
  BY DEF TypeOK, ReqOK
<1>1. CASE \E p \in PairingId : ConfirmGet(w, p)
  <2>1. PICK p \in PairingId : ConfirmGet(w, p)
    BY <1>1
  <2> DEFINE r == [Idle EXCEPT !.pc = "confirm_claim", !.pairing = p]
  <2>2. r \in Request /\ LocalsOK(r) /\ RefsOK(r)
    BY <2>1 DEF Idle, ConfirmGet, PairingActive
  <2>3. ReqOK'
    BY <1>0, <2>1, <2>2, ProceedOK DEF ConfirmGet, RowsKept
  <2> QED BY <2>1, <2>3 DEF ConfirmGet, TypeOK, ReqOK
<1>2. CASE \E c \in ClaimId, h \in HostCode : ConfirmClaim(w, c, h)
  <2>1. PICK c \in ClaimId, h \in HostCode : ConfirmClaim(w, c, h)
    BY <1>2
  <2>2. RowsKept
    BY <2>1 DEF ConfirmClaim, RowsKept
  <2>3. CASE Return(w)
    BY <1>0, <2>1, <2>2, <2>3, ReturnOK DEF ConfirmClaim, TypeOK, ReqOK
  <2>4. CASE ~Return(w)
    <3> DEFINE r == [req[w] EXCEPT !.pc = "confirm_consume", !.claim = c,
                                   !.port = claims[c].port, !.tenant = claims[c].tenant]
    <3>1. Proceed(w, r) /\ claims[c].status = "offered"
      BY <2>1, <2>4 DEF ConfirmClaim, Applicable
    <3>2. claims[c].port \in Port /\ claims[c].tenant \in Owner
      BY <3>1 DEF TypeOK, ClaimRow, NoClaim
    <3>3. /\ req[w] \in Request /\ req[w].pc = "confirm_claim"
          /\ req[w].pairing \in PairingId /\ req[w].jti = Null
          /\ pairings[req[w].pairing].status # "none"
      BY <1>0, <2>1 DEF ConfirmClaim, At, ReqOK
    <3>4. r \in Request
      BY <3>2, <3>3
    <3>5. LocalsOK(r) /\ RefsOK(r)
      BY <3>1, <3>2, <3>3
    <3>6. ReqOK'
      BY <1>0, <2>2, <3>1, <3>4, <3>5, ProceedOK
    <3> QED BY <2>1, <3>6 DEF ConfirmClaim, TypeOK, ReqOK
  <2> QED BY <2>3, <2>4
<1>3. CASE ConfirmConsume(w)
  <2>1. CASE Return(w) /\ UNCHANGED claims
    BY <1>0, <1>3, <2>1, ReturnOK DEF ConfirmConsume, TypeOK, ReqOK, RowsKept
  <2>2. CASE ~(Return(w) /\ UNCHANGED claims)
    <3> DEFINE c == req[w].claim
               row == [claims[c] EXCEPT !.status = "consumed", !.takenBy = req[w].pairing]
               r == [req[w] EXCEPT !.pc = "confirm_status"]
    <3>1. /\ claims[c].status = "offered"
          /\ claims' = [claims EXCEPT ![c] = row]
          /\ Proceed(w, r)
      BY <1>3, <2>2 DEF ConfirmConsume, Consumable, GoTo
    <3>2. c \in ClaimId /\ req[w].pairing \in PairingId
      BY <1>0, <1>3 DEF ConfirmConsume, At, ReqOK
    <3>3. claims[c] \in [status : {"offered", "expired", "consumed"}, code : Code,
             hostCode : HostCode, port : Port, tenant : Owner, expires : Nat, by : Ctx,
             takenBy : PairingId \cup {Null}]
      BY <3>1, <3>2 DEF TypeOK, ClaimRow, NoClaim
    <3>4. row \in ClaimRow
      BY <3>2, <3>3 DEF ClaimRow
    <3>5. claims' \in [ClaimId -> ClaimRow] /\ RowsKept
      BY <1>3, <3>1, <3>2, <3>3, <3>4 DEF ConfirmConsume, TypeOK, RowsKept
    <3>6. r \in Request /\ LocalsOK(r) /\ RefsOK(r)
      BY <1>0, <1>3 DEF ConfirmConsume, At, ReqOK
    <3>7. ReqOK'
      BY <1>0, <3>1, <3>5, <3>6, ProceedOK
    <3> QED BY <1>3, <3>5, <3>7 DEF ConfirmConsume, TypeOK, ReqOK
  <2> QED BY <2>1, <2>2
<1>4. CASE ConfirmStatus(w)
  <2>1. PICK j \in Jti : Proceed(w, [req[w] EXCEPT !.pc = "confirm_token", !.jti = j])
    BY <1>4 DEF ConfirmStatus
  <2> DEFINE r == [req[w] EXCEPT !.pc = "confirm_token", !.jti = j]
             p == req[w].pairing
  <2>2. /\ req[w] \in Request /\ req[w].pc = "confirm_status" /\ LocalsOK(req[w])
        /\ RefsOK(req[w]) /\ p \in PairingId
    BY <1>0, <1>4 DEF ConfirmStatus, At, ReqOK
  <2>3. r \in Request
    BY <2>2
  <2>4. LocalsOK(r) /\ RefsOK(r)
    BY <2>2
  <2>5. pairings' \in [PairingId -> PairingRow] /\ RowsKept
    BY <1>4, <2>2 DEF ConfirmStatus, Confirmed, TypeOK, PairingRow, NoPairing, RowsKept
  <2>6. ReqOK'
    BY <1>0, <2>1, <2>3, <2>4, <2>5, ProceedOK
  <2> QED BY <1>4, <2>5, <2>6 DEF ConfirmStatus, TypeOK, ReqOK
<1>5. CASE ConfirmToken(w)
  <2> DEFINE r == [req[w] EXCEPT !.pc = "confirm_insert"]
             p == req[w].pairing
  <2>1. /\ req[w] \in Request /\ req[w].pc = "confirm_token" /\ LocalsOK(req[w])
        /\ RefsOK(req[w]) /\ p \in PairingId /\ req[w].jti \in Jti
    BY <1>0, <1>5 DEF ConfirmToken, At, ReqOK
  <2>2. r \in Request /\ LocalsOK(r) /\ RefsOK(r)
    BY <2>1
  <2>3. pairings' \in [PairingId -> PairingRow] /\ RowsKept
    BY <1>5, <2>1 DEF ConfirmToken, WithToken, TypeOK, PairingRow, NoPairing, RowsKept
  <2>4. ReqOK'
    BY <1>0, <1>5, <2>2, <2>3, ProceedOK DEF ConfirmToken, GoTo
  <2> QED BY <1>5, <2>3, <2>4 DEF ConfirmToken, TypeOK, ReqOK
<1>6. CASE ConfirmInsert(w)
  <2>1. ReqOK'
    BY <1>0, <1>6, ReturnOK DEF ConfirmInsert, RowsKept
  <2>2. [status |-> "issued", port |-> req[w].port,
         tenant |-> req[w].tenant, claim |-> req[w].claim] \in TokenRow
    BY <1>0, <1>6 DEF ConfirmInsert, At, ReqOK, TokenRow
  <2>3. tokens' \in [Jti -> TokenRow]
    BY <1>6, <2>2 DEF ConfirmInsert, TypeOK
  <2> QED BY <1>6, <2>1, <2>3 DEF ConfirmInsert, TypeOK, ReqOK
<1> QED BY <1>1, <1>2, <1>3, <1>4, <1>5, <1>6 DEF Confirm

\* Either door of the admin face sets the context, and nothing else.
LEMMA AuthStep ==
  ASSUME NEW w \in Worker, (\E t \in TenantId : TenantAuth(w, t)) \/ OperatorAuth(w)
  PROVE  \E ctx \in Ctx :
           /\ Proceed(w, [Idle EXCEPT !.pc = "authed", !.ctx = ctx])
           /\ UNCHANGED <<now, pairings, claims, tokens, tenants, hosts, everOwned>>
BY DEF TenantAuth, OperatorAuth, Ctx

LEMMA ClaimTypes ==
  ASSUME TypeOK, NEW w \in Worker, Claim(w)
  PROVE  TypeOK'
<1> USE DEF Request, LocalsOK, RefsOK, Starting, Confirming, Granting, Naming, Claiming
<1>0. ReqOK
  BY DEF TypeOK, ReqOK
<1>1. CASE (\E t \in TenantId : TenantAuth(w, t)) \/ OperatorAuth(w)
  <2>1. PICK ctx \in Ctx :
          /\ Proceed(w, [Idle EXCEPT !.pc = "authed", !.ctx = ctx])
          /\ UNCHANGED <<now, pairings, claims, tokens, tenants, hosts, everOwned>>
    BY <1>1, AuthStep
  <2> DEFINE r == [Idle EXCEPT !.pc = "authed", !.ctx = ctx]
  <2>2. r \in Request /\ LocalsOK(r) /\ RefsOK(r)
    BY DEF Idle
  <2>3. ReqOK'
    BY <1>0, <2>1, <2>2, ProceedOK DEF RowsKept
  <2> QED BY <2>1, <2>3 DEF TypeOK, ReqOK
<1>2. CASE \E k \in Code : ClaimPairing(w, k)
  <2>1. PICK k \in Code : ClaimPairing(w, k)
    BY <1>2
  <2>2. RowsKept
    BY <2>1 DEF ClaimPairing, RowsKept
  <2>3. CASE Return(w)
    BY <1>0, <2>1, <2>2, <2>3, ReturnOK DEF ClaimPairing, TypeOK, ReqOK
  <2>4. CASE ~Return(w)
    <3>1. PICK p \in PairingId :
            /\ Answers(p, k, req[w].ctx)
            /\ Proceed(w, [req[w] EXCEPT !.pc = "claim_host", !.code = k,
                                    !.tenant = OfferTenant(p, req[w].ctx)])
      BY <2>1, <2>4 DEF ClaimPairing
    <3> DEFINE t == OfferTenant(p, req[w].ctx)
               r == [req[w] EXCEPT !.pc = "claim_host", !.code = k, !.tenant = t]
    <3>2. /\ req[w] \in Request /\ req[w].pc = "authed" /\ LocalsOK(req[w])
          /\ RefsOK(req[w]) /\ req[w].ctx \in Ctx
      BY <1>0, <2>1 DEF ClaimPairing, At, ReqOK
    <3>3. pairings[p].tenant \in TenantId \cup {Open}
      BY <3>1 DEF Answers, TypeOK, PairingRow, NoPairing
    <3>4. t \in Owner
      BY <3>2, <3>3 DEF OfferTenant, Owner, Ctx
    <3> HIDE DEF t
    <3>5. r \in Request
      BY <3>2, <3>4
    <3>6. LocalsOK(r) /\ RefsOK(r)
      BY <3>2, <3>4
    <3>7. ReqOK'
      BY <1>0, <2>2, <3>1, <3>5, <3>6, ProceedOK DEF t
    <3> QED BY <2>1, <3>7 DEF ClaimPairing, TypeOK, ReqOK
  <2> QED BY <2>3, <2>4
<1>3. CASE \E q \in Port : ClaimHost(w, q)
  <2>1. PICK q \in Port : ClaimHost(w, q)
    BY <1>3
  <2>2. RowsKept
    BY <2>1 DEF ClaimHost, RowsKept
  <2>3. CASE Return(w)
    BY <1>0, <2>1, <2>2, <2>3, ReturnOK DEF ClaimHost, TypeOK, ReqOK
  <2>4. CASE ~Return(w)
    <3> DEFINE r == [req[w] EXCEPT !.pc = "claim_insert", !.port = q]
    <3>1. /\ req[w] \in Request /\ req[w].pc = "claim_host" /\ LocalsOK(req[w])
          /\ RefsOK(req[w])
      BY <1>0, <2>1 DEF ClaimHost, At, ReqOK
    <3>2. r \in Request
      BY <3>1
    <3>3. LocalsOK(r) /\ RefsOK(r)
      BY <3>1
    <3>4. ReqOK'
      BY <1>0, <2>1, <2>2, <2>4, <3>2, <3>3, ProceedOK DEF ClaimHost
    <3> QED BY <2>1, <3>4 DEF ClaimHost, TypeOK, ReqOK
  <2> QED BY <2>3, <2>4
<1>4. CASE \E h \in HostCode : ClaimInsert(w, h)
  <2>1. PICK h \in HostCode : ClaimInsert(w, h)
    BY <1>4
  <2>2. [status |-> "offered", code |-> req[w].code, hostCode |-> h,
         port |-> req[w].port, tenant |-> req[w].tenant,
         expires |-> now + ClaimTTL, by |-> req[w].ctx, takenBy |-> Null] \in ClaimRow
    BY <1>0, <2>1 DEF ClaimInsert, At, ReqOK, ClaimRow, TypeOK
  <2>3. claims' \in [ClaimId -> ClaimRow] /\ RowsKept
    BY <2>1, <2>2 DEF ClaimInsert, TypeOK, RowsKept
  <2>4. ReqOK'
    BY <1>0, <2>1, <2>3, ReturnOK DEF ClaimInsert
  <2> QED BY <2>1, <2>3, <2>4 DEF ClaimInsert, TypeOK, ReqOK
<1> QED BY <1>1, <1>2, <1>3, <1>4 DEF Claim

LEMMA OtherTypes ==
  ASSUME TypeOK, Registry \/ Tick \/ Crash \/ UNCHANGED vars
  PROVE  TypeOK'
<1>1. CASE Registry
  BY <1>1 DEF Registry, TenantCreate, TenantRevoke, HostCreate, HostRemove, TypeOK,
              Owner, RefsOK, LocalsOK
<1>2. CASE Tick
  BY <1>2 DEF Tick, TypeOK, RefsOK, LocalsOK
<1>3. CASE Crash
  <2>1. req' \in [Worker -> Request] /\ \A w \in Worker : req'[w] = Idle
    BY <1>3, IdleOK DEF Crash
  <2>2. (\A w \in Worker : LocalsOK(req[w]) /\ RefsOK(req[w]))'
    BY <1>3, <2>1, IdleOK DEF Crash, LocalsOK, RefsOK
  <2> QED BY <1>3, <2>1, <2>2 DEF Crash, TypeOK
<1>4. CASE UNCHANGED vars
  BY <1>4 DEF vars, TypeOK, RefsOK, LocalsOK
<1> QED BY <1>1, <1>2, <1>3, <1>4

LEMMA NextTypes == TypeOK /\ [Next]_vars => TypeOK'
  BY StartTypes, PollTypes, ConfirmTypes, ClaimTypes, OtherTypes DEF Next

(* Rows, registries and requests keep their types, a stored row is         *)
(* complete and a handler never refers to a row that is gone, whatever     *)
(* fails or crashes (db.rs, pair.rs).                                      *)
THEOREM TypeCorrect == Spec => []TypeOK
  BY InitTypes, NextTypes, PTL DEF Spec

-----------------------------------------------------------------------------
(* Single use, and what a token is bound to.                               *)
(*                                                                         *)
(* ClaimSingleUse is not inductive: between the consume and the insert a   *)
(* claim is spent and has no token yet, so the invariant follows the       *)
(* requests that hold a spent claim (pc in Granting).                      *)

\* What a request has read of a claim is what the row says: rows keep their terms.
SnapshotTrue == \A w \in Worker : req[w].pc \in Confirming =>
  /\ req[w].port = claims[req[w].claim].port
  /\ req[w].tenant = claims[req[w].claim].tenant
  /\ pairings[req[w].pairing].tenant \in {Open, req[w].tenant}

\* A spent claim is in the hands of one request, and has no token yet.
Held == \A w \in Worker : req[w].pc \in Granting =>
  /\ claims[req[w].claim].status = "consumed"
  /\ claims[req[w].claim].takenBy = req[w].pairing
  /\ \A j \in Issued : tokens[j].claim # req[w].claim
  /\ \A v \in Worker : v # w /\ req[v].pc \in Granting => req[v].claim # req[w].claim

\* Requests have chosen different jtis, and no token has them.
Named == \A w \in Worker : req[w].pc \in Naming =>
  /\ tokens[req[w].jti].status = "none"
  /\ \A v \in Worker : v # w => req[v].jti # req[w].jti

\* A token carries the terms of its claim.
Bound == \A j \in Issued :
  tokens[j].port = GrantOf(j).port /\ tokens[j].tenant = GrantOf(j).tenant

\* A claim is taken exactly when it is spent, by a pairing of a fitting anchor.
Taken == \A c \in ClaimId :
  IF claims[c].status = "consumed"
  THEN /\ claims[c].takenBy \in PairingId
       /\ pairings[claims[c].takenBy].status # "none"
       /\ pairings[claims[c].takenBy].tenant \in {Open, claims[c].tenant}
  ELSE claims[c].takenBy = Null

GrantInv == SnapshotTrue /\ Held /\ Named /\ Bound /\ Taken /\ ClaimSingleUse

\* What every step but a consume leaves alone in the two tables.
TermsKept ==
  /\ \A p \in PairingId : pairings[p].status # "none" =>
       pairings'[p].status # "none" /\ pairings'[p].tenant = pairings[p].tenant
  /\ \A c \in ClaimId :
       /\ claims[c].status = "consumed" => claims'[c] = claims[c]
       /\ claims[c].status # "consumed" =>
            claims'[c].status # "consumed" /\ claims'[c].takenBy = claims[c].takenBy
       /\ claims[c].status # "none" =>
            claims'[c].port = claims[c].port /\ claims'[c].tenant = claims[c].tenant

LEMMA SweepKeepsTerms == ASSUME TypeOK, Sweep PROVE TermsKept
<1>1. \A p \in PairingId : pairings[p].status # "none" =>
        /\ SweptPairings[p].status # "none"
        /\ SweptPairings[p].tenant = pairings[p].tenant
  BY DEF SweptPairings, TypeOK, PairingRow, NoPairing
<1>2. \A c \in ClaimId :
        /\ SweptClaims[c] = claims[c] \/ SweptClaims[c].status = "expired"
        /\ SweptClaims[c].takenBy = claims[c].takenBy
        /\ SweptClaims[c].port = claims[c].port
        /\ SweptClaims[c].tenant = claims[c].tenant
        /\ claims[c].status = "consumed" => SweptClaims[c] = claims[c]
  BY DEF SweptClaims, TypeOK, ClaimRow, NoClaim
<1> QED BY <1>1, <1>2 DEF Sweep, TermsKept

\* A step of a request that neither holds a claim nor comes to hold one.
LEMMA OutsideStep ==
  ASSUME TypeOK, GrantInv, TermsKept, tokens' = tokens,
         NEW w \in Worker, NEW r \in Request, r.pc \notin Confirming, r.jti = Null,
         req' = [req EXCEPT ![w] = r]
  PROVE  GrantInv'
<1> USE DEF Granting, Confirming, Naming
<1>1. \A v \in Worker : req'[v] = r \/ req'[v] = req[v]
  BY DEF TypeOK
<1>2. \A v \in Worker : req'[v].pc \in Confirming => v # w /\ req'[v] = req[v]
  BY DEF TypeOK
<1>3. \A v \in Worker : req[v].pc \in Confirming =>
        /\ req[v].claim \in ClaimId /\ claims[req[v].claim].status # "none"
        /\ req[v].pairing \in PairingId /\ pairings[req[v].pairing].status # "none"
  BY DEF TypeOK, LocalsOK, RefsOK
<1>4. SnapshotTrue'
  BY <1>2, <1>3 DEF GrantInv, SnapshotTrue, TermsKept
<1>5. Issued' = Issued /\ \A j \in Issued : tokens[j].claim \in ClaimId
  BY DEF Issued, TypeOK, TokenRow, NoToken
<1>6. Held'
  BY <1>2, <1>3, <1>5 DEF GrantInv, Held, TermsKept
<1>7. Named'
  BY <1>1, <1>2 DEF GrantInv, Named, TypeOK, LocalsOK
<1>8. Bound' /\ ClaimSingleUse'
  BY <1>5 DEF GrantInv, Bound, ClaimSingleUse, GrantOf, TermsKept
<1>9. Taken'
  BY DEF GrantInv, Taken, TermsKept, TypeOK
<1> QED BY <1>4, <1>6, <1>7, <1>8, <1>9 DEF GrantInv

LEMMA ReturnGrant ==
  ASSUME TypeOK, GrantInv, TermsKept, tokens' = tokens, NEW w \in Worker, Return(w)
  PROVE  GrantInv'
<1>1. Idle \in Request /\ Idle.pc \notin Confirming /\ Idle.jti = Null
  BY IdleOK DEF Idle, Confirming, Granting
<1> QED BY <1>1, OutsideStep DEF Return, Proceed

LEMMA StartGrant ==
  ASSUME TypeOK, GrantInv, NEW w \in Worker, Start(w)
  PROVE  GrantInv'
<1>1. CASE \E k \in Code, t \in TenantId \cup {Open} : StartRequest(w, k, t)
  <2>1. PICK k \in Code, t \in TenantId \cup {Open} : StartRequest(w, k, t)
    BY <1>1
  <2> DEFINE r == [Idle EXCEPT !.pc = "start_sweep", !.code = k, !.tenant = t]
  <2>2. r \in Request /\ r.pc \notin Confirming /\ r.jti = Null
    BY DEF Idle, Owner, Request, Confirming, Granting, Starting
  <2>3. TermsKept
    BY <2>1 DEF StartRequest, TermsKept
  <2> QED BY <2>1, <2>2, <2>3, OutsideStep DEF StartRequest, Proceed
<1>2. CASE StartSweep(w)
  <2> DEFINE r == [req[w] EXCEPT !.pc = "start_insert"]
  <2>1. r \in Request /\ r.pc \notin Confirming /\ r.jti = Null
    BY <1>2 DEF StartSweep, TypeOK, LocalsOK, At, Request, Confirming, Granting, Starting, Naming
  <2> QED BY <1>2, <2>1, SweepKeepsTerms, OutsideStep DEF StartSweep, GoTo, Proceed
<1>3. CASE StartInsert(w)
  <2>1. TermsKept
    BY <1>3 DEF StartInsert, TermsKept, TypeOK
  <2> QED BY <1>3, <2>1, ReturnGrant DEF StartInsert
<1> QED BY <1>1, <1>2, <1>3 DEF Start

LEMMA PollGrant ==
  ASSUME TypeOK, GrantInv, NEW w \in Worker, Poll(w)
  PROVE  GrantInv'
<1>1. CASE \E p \in PairingId : PollGet(w, p)
  <2> DEFINE r == [Idle EXCEPT !.pc = "poll_sweep"]
  <2>1. r \in Request /\ r.pc \notin Confirming /\ r.jti = Null
    BY DEF Idle, Request, Confirming, Granting
  <2>2. TermsKept
    BY <1>1 DEF PollGet, TermsKept
  <2> QED BY <1>1, <2>1, <2>2, OutsideStep DEF PollGet, Proceed
<1>2. CASE PollSweep(w)
  BY <1>2, SweepKeepsTerms, ReturnGrant DEF PollSweep
<1> QED BY <1>1, <1>2 DEF Poll

LEMMA ClaimGrant ==
  ASSUME TypeOK, GrantInv, NEW w \in Worker, Claim(w)
  PROVE  GrantInv'
<1> USE DEF Confirming, Granting
<1>0. TypeOK'
  BY ClaimTypes
<1>1. CASE \E h \in HostCode : ClaimInsert(w, h)
  <2>1. PICK h \in HostCode : ClaimInsert(w, h)
    BY <1>1
  <2>2. TermsKept
    <3>1. CASE UNCHANGED claims
      BY <2>1, <3>1 DEF ClaimInsert, TermsKept
    <3>2. CASE ~UNCHANGED claims
      <4>1. PICK c \in ClaimId :
              /\ claims[c].status = "none"
              /\ claims' = [claims EXCEPT ![c] =
                   [status |-> "offered", code |-> req[w].code, hostCode |-> h,
                    port |-> req[w].port, tenant |-> req[w].tenant,
                    expires |-> now + ClaimTTL, by |-> req[w].ctx, takenBy |-> Null]]
        BY <2>1, <3>2 DEF ClaimInsert
      <4>2. claims[c] = NoClaim
        BY <4>1 DEF TypeOK, ClaimRow
      <4>3. claims[c].takenBy = Null
        BY <4>2 DEF NoClaim
      <4> QED BY <2>1, <4>1, <4>3 DEF ClaimInsert, TermsKept, TypeOK
    <3> QED BY <3>1, <3>2
  <2> QED BY <2>1, <2>2, ReturnGrant DEF ClaimInsert
<1>2. CASE ~\E h \in HostCode : ClaimInsert(w, h)
  <2>0. Idle.pc = "idle"
    BY DEF Idle
  <2>1. TermsKept /\ tokens' = tokens
    BY <1>2 DEF Claim, TenantAuth, OperatorAuth, ClaimPairing, ClaimHost, TermsKept
  <2>2. \E r : /\ req' = [req EXCEPT ![w] = r]
               /\ r.pc \in {"idle", "authed", "claim_host", "claim_insert"}
    <3>1. CASE (\E t \in TenantId : TenantAuth(w, t)) \/ OperatorAuth(w)
      <4>1. PICK ctx \in Ctx : Proceed(w, [Idle EXCEPT !.pc = "authed", !.ctx = ctx])
        BY <3>1, AuthStep
      <4> DEFINE r == [Idle EXCEPT !.pc = "authed", !.ctx = ctx]
      <4>2. r.pc = "authed"
        BY DEF Idle
      <4> QED BY <4>1, <4>2 DEF Proceed
    <3>2. CASE \E k \in Code : ClaimPairing(w, k)
      <4>1. PICK k \in Code : ClaimPairing(w, k)
        BY <3>2
      <4>2. CASE Return(w)
        BY <2>0, <4>2 DEF Return, Proceed
      <4>3. CASE ~Return(w)
        <5>1. PICK p \in PairingId :
                Proceed(w, [req[w] EXCEPT !.pc = "claim_host", !.code = k,
                                    !.tenant = OfferTenant(p, req[w].ctx)])
          BY <4>1, <4>3 DEF ClaimPairing
        <5> DEFINE t == OfferTenant(p, req[w].ctx)
                   r == [req[w] EXCEPT !.pc = "claim_host", !.code = k, !.tenant = t]
        <5>2. req' = [req EXCEPT ![w] = r]
          BY <5>1 DEF Proceed
        <5>3. req[w] \in Request
          BY DEF TypeOK
        <5> HIDE DEF t
        <5>4. r.pc = "claim_host"
          BY <5>3 DEF Request
        <5> HIDE DEF r
        <5> QED BY <5>2, <5>4
      <4> QED BY <4>2, <4>3
    <3>3. CASE \E q \in Port : ClaimHost(w, q)
      <4>1. PICK q \in Port : ClaimHost(w, q)
        BY <3>3
      <4>2. CASE Return(w)
        BY <2>0, <4>2 DEF Return, Proceed
      <4>3. CASE ~Return(w)
        <5> DEFINE r == [req[w] EXCEPT !.pc = "claim_insert", !.port = q]
        <5>1. req' = [req EXCEPT ![w] = r]
          BY <4>1, <4>3 DEF ClaimHost, Proceed
        <5>2. req[w] \in Request
          BY DEF TypeOK
        <5>3. r.pc = "claim_insert"
          BY <5>2 DEF Request
        <5> HIDE DEF r
        <5> QED BY <5>1, <5>3
      <4> QED BY <4>2, <4>3
    <3> QED BY <1>2, <3>1, <3>2, <3>3 DEF Claim
  <2>3. PICK r : /\ req' = [req EXCEPT ![w] = r]
                 /\ r.pc \in {"idle", "authed", "claim_host", "claim_insert"}
    BY <2>2
  <2>4. r = req'[w]
    BY <2>3 DEF TypeOK
  <2>5. r \in Request /\ r.jti = Null
    BY <1>0, <2>3, <2>4 DEF TypeOK, LocalsOK, Naming
  <2> QED BY <2>1, <2>3, <2>5, OutsideStep
<1> QED BY <1>1, <1>2

LEMMA ConfirmGrant ==
  ASSUME TypeOK, GrantInv, NEW w \in Worker, Confirm(w)
  PROVE  GrantInv'
<1> USE DEF Granting, Confirming, Naming
<1>0. TypeOK'
  BY ConfirmTypes
<1>1. /\ req[w] \in Request /\ LocalsOK(req[w]) /\ RefsOK(req[w])
      /\ \A v \in Worker : req[v].jti \in Jti <=> req[v].pc \in Naming
      /\ \A v \in Worker : req[v].pc \in Confirming =>
           /\ req[v].claim \in ClaimId /\ claims[req[v].claim].status # "none"
           /\ req[v].pairing \in PairingId /\ pairings[req[v].pairing].status # "none"
  BY DEF TypeOK, LocalsOK, RefsOK
<1>2. \A j \in Issued : tokens[j].claim \in ClaimId
  BY DEF Issued, TypeOK, TokenRow, NoToken
<1>3. CASE \E p \in PairingId : ConfirmGet(w, p)
  <2>1. PICK p \in PairingId : ConfirmGet(w, p)
    BY <1>3
  <2> DEFINE r == [Idle EXCEPT !.pc = "confirm_claim", !.pairing = p]
  <2>2. r \in Request /\ r.pc \notin Confirming /\ r.jti = Null
    BY DEF Idle, Request
  <2>3. TermsKept
    BY <2>1 DEF ConfirmGet, TermsKept
  <2> QED BY <2>1, <2>2, <2>3, OutsideStep DEF ConfirmGet, Proceed
<1>4. CASE \E c \in ClaimId, h \in HostCode : ConfirmClaim(w, c, h)
  <2>1. PICK c \in ClaimId, h \in HostCode : ConfirmClaim(w, c, h)
    BY <1>4
  <2>2. CASE Return(w)
    BY <2>1, <2>2, ReturnGrant DEF ConfirmClaim, TermsKept
  <2>3. CASE ~Return(w)
    <3> DEFINE r == [req[w] EXCEPT !.pc = "confirm_consume", !.claim = c,
                                   !.port = claims[c].port, !.tenant = claims[c].tenant]
    <3>1. /\ req' = [req EXCEPT ![w] = r]
          /\ pairings[req[w].pairing].tenant \in {Open, claims[c].tenant}
          /\ req[w].pc = "confirm_claim"
          /\ UNCHANGED <<pairings, claims, tokens>>
      BY <2>1, <2>3 DEF ConfirmClaim, Applicable, Proceed, At
    <3>2. /\ r.pc = "confirm_consume" /\ r.claim = c /\ r.pairing = req[w].pairing
          /\ r.port = claims[c].port /\ r.tenant = claims[c].tenant /\ r.jti = Null
      BY <1>1, <3>1 DEF Request, LocalsOK
    <3> HIDE DEF r
    <3>3. req'[w] = r /\ \A v \in Worker : v # w => req'[v] = req[v]
      BY <3>1 DEF TypeOK
    <3>4. SnapshotTrue' /\ Held'
      BY <3>1, <3>2, <3>3 DEF GrantInv, SnapshotTrue, Held, Issued
    <3>5. Named'
      BY <1>1, <3>1, <3>2, <3>3 DEF GrantInv, Named
    <3> QED BY <3>1, <3>4, <3>5
               DEF GrantInv, Bound, Taken, ClaimSingleUse, Issued, GrantOf
  <2> QED BY <2>2, <2>3
<1>5. CASE ConfirmConsume(w)
  <2>1. CASE Return(w) /\ UNCHANGED claims
    BY <1>5, <2>1, ReturnGrant DEF ConfirmConsume, TermsKept
  <2>2. CASE ~(Return(w) /\ UNCHANGED claims)
    <3> DEFINE c == req[w].claim
               p == req[w].pairing
               row == [claims[c] EXCEPT !.status = "consumed", !.takenBy = p]
               r == [req[w] EXCEPT !.pc = "confirm_status"]
    <3>1. /\ req[w].pc = "confirm_consume"
          /\ claims[c].status = "offered"
          /\ claims' = [claims EXCEPT ![c] = row]
          /\ req' = [req EXCEPT ![w] = r]
          /\ UNCHANGED <<pairings, tokens>>
      BY <1>5, <2>2 DEF ConfirmConsume, Consumable, GoTo, Proceed, At
    <3>2. c \in ClaimId /\ p \in PairingId /\ pairings[p].status # "none"
      BY <1>1, <3>1
    <3>3. /\ r.pc = "confirm_status" /\ r.claim = c /\ r.pairing = p
          /\ r.port = req[w].port /\ r.tenant = req[w].tenant /\ r.jti = Null
      BY <1>1, <3>1 DEF Request, LocalsOK
    <3>4. claims[c] \in [status : {"offered", "expired", "consumed"}, code : Code,
             hostCode : HostCode, port : Port, tenant : Owner, expires : Nat, by : Ctx,
             takenBy : PairingId \cup {Null}]
      BY <3>1, <3>2 DEF TypeOK, ClaimRow, NoClaim
    <3>5. /\ row.status = "consumed" /\ row.takenBy = p
          /\ row.port = claims[c].port /\ row.tenant = claims[c].tenant
      BY <3>4
    <3> HIDE DEF r, row
    <3>6. /\ req'[w] = r /\ \A v \in Worker : v # w => req'[v] = req[v]
          /\ claims'[c] = row /\ \A d \in ClaimId : d # c => claims'[d] = claims[d]
      BY <3>1, <3>2 DEF TypeOK
    <3>7. SnapshotTrue'
      BY <1>1, <3>1, <3>2, <3>3, <3>5, <3>6 DEF GrantInv, SnapshotTrue
    <3>8. Issued' = Issued /\ \A j \in Issued : tokens[j].claim # c
      BY <3>1 DEF Issued, GrantInv, ClaimSingleUse, GrantOf
    <3>9. \A v \in Worker : v # w /\ req[v].pc \in Granting => req[v].claim # c
      BY <3>1 DEF GrantInv, Held
    <3>10. Held'
      BY <1>1, <3>1, <3>2, <3>3, <3>5, <3>6, <3>8, <3>9 DEF GrantInv, Held
    <3>11. Named'
      BY <1>1, <3>1, <3>3, <3>6 DEF GrantInv, Named
    <3>12. Bound' /\ ClaimSingleUse'
      BY <1>2, <3>1, <3>6, <3>8 DEF GrantInv, Bound, ClaimSingleUse, GrantOf
    <3>13. pairings[p].tenant \in {Open, claims[c].tenant}
      BY <3>1 DEF GrantInv, SnapshotTrue
    <3>14. Taken'
      BY <3>1, <3>2, <3>5, <3>6, <3>13 DEF GrantInv, Taken
    <3> QED BY <3>7, <3>10, <3>11, <3>12, <3>14 DEF GrantInv
  <2> QED BY <2>1, <2>2
<1>6. CASE ConfirmStatus(w)
  <2>1. PICK j \in Jti :
          /\ FreshJti(j)
          /\ Proceed(w, [req[w] EXCEPT !.pc = "confirm_token", !.jti = j])
    BY <1>6 DEF ConfirmStatus
  <2> DEFINE p == req[w].pairing
             r == [req[w] EXCEPT !.pc = "confirm_token", !.jti = j]
  <2>2. /\ req[w].pc = "confirm_status" /\ UNCHANGED <<claims, tokens>>
        /\ req' = [req EXCEPT ![w] = r]
    BY <1>6, <2>1 DEF ConfirmStatus, At, Proceed
  <2>3. /\ r.pc = "confirm_token" /\ r.claim = req[w].claim /\ r.pairing = p
        /\ r.port = req[w].port /\ r.tenant = req[w].tenant /\ r.jti = j
    BY <1>1 DEF Request
  <2> HIDE DEF r
  <2>4. req'[w] = r /\ \A v \in Worker : v # w => req'[v] = req[v]
    BY <2>2 DEF TypeOK
  <2>5. \A q \in PairingId : pairings[q].status # "none" =>
          pairings'[q].status # "none" /\ pairings'[q].tenant = pairings[q].tenant
    BY <1>1, <1>6, <2>2 DEF ConfirmStatus, Confirmed, TypeOK, PairingRow, NoPairing
  <2>6. SnapshotTrue' /\ Taken'
    BY <1>1, <2>2, <2>3, <2>4, <2>5 DEF GrantInv, SnapshotTrue, Taken
  <2>7. Held'
    BY <2>2, <2>3, <2>4 DEF GrantInv, Held, Issued
  <2>8. Named'
    BY <2>1, <2>2, <2>3, <2>4 DEF GrantInv, Named, FreshJti
  <2> QED BY <2>2, <2>6, <2>7, <2>8 DEF GrantInv, Bound, ClaimSingleUse, Issued, GrantOf
<1>7. CASE ConfirmToken(w)
  <2> DEFINE p == req[w].pairing
             r == [req[w] EXCEPT !.pc = "confirm_insert"]
  <2>2. /\ req[w].pc = "confirm_token" /\ UNCHANGED <<claims, tokens>>
        /\ req' = [req EXCEPT ![w] = r]
    BY <1>7 DEF ConfirmToken, At, GoTo, Proceed
  <2>3. /\ r.pc = "confirm_insert" /\ r.claim = req[w].claim /\ r.pairing = p
        /\ r.port = req[w].port /\ r.tenant = req[w].tenant /\ r.jti = req[w].jti
    BY <1>1 DEF Request
  <2> HIDE DEF r
  <2>4. req'[w] = r /\ \A v \in Worker : v # w => req'[v] = req[v]
    BY <2>2 DEF TypeOK
  <2>5. \A q \in PairingId : pairings[q].status # "none" =>
          pairings'[q].status # "none" /\ pairings'[q].tenant = pairings[q].tenant
    BY <1>1, <1>7, <2>2 DEF ConfirmToken, WithToken, TypeOK, PairingRow, NoPairing
  <2>6. SnapshotTrue' /\ Taken'
    BY <1>1, <2>2, <2>3, <2>4, <2>5 DEF GrantInv, SnapshotTrue, Taken
  <2>7. Held'
    BY <2>2, <2>3, <2>4 DEF GrantInv, Held, Issued
  <2>8. Named'
    BY <2>2, <2>3, <2>4 DEF GrantInv, Named
  <2> QED BY <2>2, <2>6, <2>7, <2>8 DEF GrantInv, Bound, ClaimSingleUse, Issued, GrantOf
<1>8. CASE ConfirmInsert(w)
  <2>1. CASE UNCHANGED tokens
    BY <1>8, <2>1, ReturnGrant DEF ConfirmInsert, TermsKept
  <2>2. CASE ~UNCHANGED tokens
    <3> DEFINE j == req[w].jti
               c == req[w].claim
               tok == [status |-> "issued", port |-> req[w].port,
                       tenant |-> req[w].tenant, claim |-> c]
    <3>1. /\ req[w].pc = "confirm_insert"
          /\ tokens' = [tokens EXCEPT ![j] = tok]
          /\ req' = [req EXCEPT ![w] = Idle]
          /\ UNCHANGED <<pairings, claims>>
      BY <1>8, <2>2 DEF ConfirmInsert, At, Return, Proceed
    <3>2. j \in Jti /\ c \in ClaimId
      BY <1>1, <3>1
    <3>3. Idle.pc = "idle" /\ Idle.jti = Null
      BY DEF Idle
    <3>4. /\ req'[w] = Idle /\ \A v \in Worker : v # w => req'[v] = req[v]
          /\ tokens'[j] = tok /\ \A i \in Jti : i # j => tokens'[i] = tokens[i]
      BY <3>1, <3>2 DEF TypeOK
    <3>5. /\ tok.status = "issued" /\ tok.claim = c
          /\ tok.port = claims[c].port /\ tok.tenant = claims[c].tenant
          /\ claims[c].status = "consumed" /\ \A i \in Issued : tokens[i].claim # c
      BY <3>1 DEF GrantInv, SnapshotTrue, Held
    <3> HIDE DEF tok
    <3>6. Issued' = Issued \cup {j}
      BY <3>2, <3>4, <3>5 DEF Issued
    <3>7. j \notin Issued
      BY <3>1 DEF GrantInv, Named, Issued
    <3>8. \A i \in Issued : tokens'[i] = tokens[i]
      BY <3>4, <3>7 DEF Issued
    <3>9. SnapshotTrue' /\ Taken'
      BY <3>1, <3>3, <3>4 DEF GrantInv, SnapshotTrue, Taken
    <3>10. Held'
      BY <3>1, <3>3, <3>4, <3>5, <3>6, <3>8 DEF GrantInv, Held
    <3>11. Named'
      BY <1>1, <3>1, <3>3, <3>4 DEF GrantInv, Named
    <3>12. Bound' /\ ClaimSingleUse'
      BY <3>1, <3>4, <3>5, <3>6, <3>8 DEF GrantInv, Bound, ClaimSingleUse, GrantOf
    <3> QED BY <3>9, <3>10, <3>11, <3>12 DEF GrantInv
  <2> QED BY <2>1, <2>2
<1> QED BY <1>3, <1>4, <1>5, <1>6, <1>7, <1>8 DEF Confirm

LEMMA OtherGrant ==
  ASSUME TypeOK, GrantInv, Registry \/ Tick \/ Crash \/ UNCHANGED vars
  PROVE  GrantInv'
<1> USE DEF GrantInv, SnapshotTrue, Held, Named, Bound, Taken, ClaimSingleUse, Issued, GrantOf
<1>1. CASE Registry \/ Tick \/ UNCHANGED vars
  <2>1. UNCHANGED <<pairings, claims, tokens, req>>
    BY <1>1 DEF Registry, TenantCreate, TenantRevoke, HostCreate, HostRemove, Tick, vars
  <2> QED BY <2>1
<1>2. CASE Crash
  <2>1. /\ UNCHANGED <<pairings, claims, tokens>>
        /\ \A w \in Worker : req'[w].pc = "idle"
    BY <1>2 DEF Crash, Idle
  <2>2. "idle" \notin Confirming /\ "idle" \notin Granting /\ "idle" \notin Naming
    BY DEF Confirming, Granting, Naming
  <2> QED BY <2>1, <2>2
<1> QED BY <1>1, <1>2

LEMMA InitGrant == Init => GrantInv
<1> SUFFICES ASSUME Init PROVE GrantInv
  OBVIOUS
<1>1. /\ Issued = {} /\ \A w \in Worker : req[w].pc = "idle"
      /\ \A c \in ClaimId : claims[c].status = "none" /\ claims[c].takenBy = Null
  BY DEF Init, Issued, NoToken, NoClaim, Idle
<1> QED BY <1>1 DEF GrantInv, SnapshotTrue, Held, Named, Bound, Taken, ClaimSingleUse,
                    Confirming, Granting, Naming

LEMMA NextGrant == TypeOK /\ GrantInv /\ [Next]_vars => GrantInv'
  BY StartGrant, PollGrant, ConfirmGrant, ClaimGrant, OtherGrant DEF Next

LEMMA GrantInvariant == Spec => [](TypeOK /\ GrantInv)
  BY InitTypes, NextTypes, InitGrant, NextGrant, PTL DEF Spec

(* A claim is good for one token: a token's claim is consumed and no two   *)
(* tokens share one, however requests interleave, writes fail or the       *)
(* process restarts (confirm_handler, claim_consume).                      *)
THEOREM SingleUse == Spec => []ClaimSingleUse
<1>1. GrantInv => ClaimSingleUse
  BY DEF GrantInv
<1> QED BY <1>1, GrantInvariant, PTL

(* A token of an anchored pairing belongs to the anchor's tenant, offers   *)
(* left over from an earlier use of the code included (confirm_handler).   *)
THEOREM Fenced == Spec => []AnchorFence
<1>1. TypeOK /\ GrantInv => AnchorFence
  BY DEF GrantInv, Taken, Bound, ClaimSingleUse, AnchorFence, Issued, GrantOf, TypeOK,
         TokenRow, NoToken
<1> QED BY <1>1, GrantInvariant, PTL

-----------------------------------------------------------------------------
(* Codes.  The insert is one statement, so what it has checked still holds *)
(* when the row appears; everything else only takes rows out of pending.   *)

CodeInv ==
  /\ \A p \in PairingId : pairings[p].status # "none" => pairings[p].created <= now
  /\ UniquePendingCode
  /\ CodeQuarantine

\* A step that inserts no pairing.
NoNewPairing ==
  \A p \in PairingId :
    /\ pairings'[p].code = pairings[p].code /\ pairings'[p].created = pairings[p].created
    /\ pairings'[p].status # "none" => pairings[p].status # "none"
    /\ pairings'[p].status = "pending" => pairings[p].status = "pending"

LEMMA NoNewPairingStep ==
  ASSUME TypeOK, [Next]_vars, \A w \in Worker : ~StartInsert(w)
  PROVE  NoNewPairing /\ now' \in Nat /\ now <= now'
<1>1. ASSUME Sweep PROVE NoNewPairing
  <2>1. \A p \in PairingId :
          /\ SweptPairings[p].code = pairings[p].code
          /\ SweptPairings[p].created = pairings[p].created
          /\ SweptPairings[p].status # "none" => pairings[p].status # "none"
          /\ SweptPairings[p].status = "pending" => pairings[p].status = "pending"
    BY DEF SweptPairings, TypeOK, PairingRow, NoPairing
  <2> QED BY <1>1, <2>1 DEF Sweep, NoNewPairing
<1>2. ASSUME NEW w \in Worker, ConfirmStatus(w) \/ ConfirmToken(w) PROVE NoNewPairing
  <2>1. /\ req[w].pairing \in PairingId
        /\ pairings[req[w].pairing].status # "none"
    BY <1>2 DEF TypeOK, LocalsOK, RefsOK, Confirming, Granting, At, ConfirmStatus, ConfirmToken
  <2>2. ASSUME NEW row,
               row.code = pairings[req[w].pairing].code,
               row.created = pairings[req[w].pairing].created,
               row.status \in {"confirmed", pairings[req[w].pairing].status},
               pairings' = [pairings EXCEPT ![req[w].pairing] = row]
        PROVE  NoNewPairing
    BY <2>1, <2>2 DEF NoNewPairing, TypeOK
  <2> DEFINE p == req[w].pairing
             paid == [pairings[p] EXCEPT !.status = "confirmed"]
             named == [pairings[p] EXCEPT !.jti = req[w].jti]
  <2>3. pairings[p] \in [status : {"pending", "expired", "confirmed"}, code : Code,
          tenant : TenantId \cup {Open}, created : Nat, expires : Nat, jti : Jti \cup {Null}]
    BY <2>1 DEF TypeOK, PairingRow, NoPairing
  <2>4. /\ paid.code = pairings[p].code /\ paid.created = pairings[p].created
        /\ paid.status = "confirmed"
        /\ named.code = pairings[p].code /\ named.created = pairings[p].created
        /\ named.status = pairings[p].status
    BY <2>3
  <2>5. \/ UNCHANGED pairings
        \/ pairings' = [pairings EXCEPT ![p] = paid]
        \/ pairings' = [pairings EXCEPT ![p] = named]
    BY <1>2 DEF ConfirmStatus, ConfirmToken, Confirmed, WithToken
  <2> HIDE DEF paid, named
  <2>6. UNCHANGED pairings => NoNewPairing
    BY DEF NoNewPairing
  <2> QED BY <2>2, <2>4, <2>5, <2>6
<1>3. CASE \E w \in Worker : Start(w) \/ Poll(w) \/ Confirm(w) \/ Claim(w)
  <2>1. PICK w \in Worker : Start(w) \/ Poll(w) \/ Confirm(w) \/ Claim(w)
    BY <1>3
  <2>2. now' = now
    BY <2>1 DEF Start, StartRequest, StartSweep, StartInsert, Poll, PollGet, PollSweep,
                Confirm, ConfirmGet, ConfirmClaim, ConfirmConsume, ConfirmStatus,
                ConfirmToken, ConfirmInsert, Claim, TenantAuth, OperatorAuth, ClaimPairing, ClaimHost,
                ClaimInsert
  <2>3. \/ UNCHANGED pairings
        \/ Sweep
        \/ ConfirmStatus(w) \/ ConfirmToken(w)
    BY <2>1 DEF Start, StartRequest, StartSweep, Poll, PollGet, PollSweep,
                Confirm, ConfirmGet, ConfirmClaim, ConfirmConsume, ConfirmInsert,
                Claim, TenantAuth, OperatorAuth, ClaimPairing, ClaimHost, ClaimInsert
  <2>4. UNCHANGED pairings => NoNewPairing
    BY DEF NoNewPairing
  <2> QED BY <1>1, <1>2, <2>2, <2>3, <2>4 DEF TypeOK
<1>4. CASE Registry \/ Tick \/ Crash \/ UNCHANGED vars
  BY <1>4 DEF Registry, TenantCreate, TenantRevoke, HostCreate, HostRemove, Tick, Crash,
              vars, NoNewPairing, TypeOK
<1> QED BY <1>3, <1>4 DEF Next

LEMMA NextCode == TypeOK /\ CodeInv /\ [Next]_vars => CodeInv'
<1> SUFFICES ASSUME TypeOK, CodeInv, [Next]_vars PROVE CodeInv'
  OBVIOUS
<1>0. \A p \in PairingId : pairings[p].created \in Nat
  BY DEF TypeOK, PairingRow, NoPairing
<1>1. CASE \A w \in Worker : ~StartInsert(w)
  <2>1. NoNewPairing /\ now' \in Nat /\ now <= now'
    BY <1>1, NoNewPairingStep
  <2>2. \A p \in PairingId : pairings'[p].status # "none" => pairings'[p].created <= now'
    BY <1>0, <2>1 DEF CodeInv, NoNewPairing, TypeOK
  <2>3. UniquePendingCode'
    BY <2>1 DEF CodeInv, NoNewPairing, UniquePendingCode
  <2>4. CodeQuarantine'
    BY <2>1 DEF CodeInv, NoNewPairing, CodeQuarantine
  <2> QED BY <2>2, <2>3, <2>4 DEF CodeInv
<1>2. ASSUME NEW w \in Worker, StartInsert(w) PROVE CodeInv'
  <2>1. CASE UNCHANGED pairings
    BY <1>2, <2>1 DEF StartInsert, CodeInv, UniquePendingCode, CodeQuarantine
  <2>2. CASE ~UNCHANGED pairings
    <3> DEFINE k == req[w].code
               row == [status |-> "pending", code |-> k, tenant |-> req[w].tenant,
                       created |-> now, expires |-> now + PairingTTL, jti |-> Null]
    <3>1. PICK p \in PairingId :
            pairings[p].status = "none" /\ pairings' = [pairings EXCEPT ![p] = row]
      BY <1>2, <2>2 DEF StartInsert
    <3>2. ~CodeTaken(k) /\ now' = now
      BY <1>2, <2>2 DEF StartInsert
    <3>3. row.status = "pending" /\ row.code = k /\ row.created = now
      OBVIOUS
    <3> HIDE DEF row
    <3>4. pairings'[p] = row /\ \A r \in PairingId : r # p => pairings'[r] = pairings[r]
      BY <3>1 DEF TypeOK
    <3>5. \A r \in PairingId : r # p /\ pairings[r].status # "none" /\ pairings[r].code = k
            => pairings[r].status # "pending" /\ pairings[r].created + ReuseWindow <= now
      BY <1>0, <3>2 DEF CodeTaken, TypeOK
    <3>6. \A r \in PairingId : pairings'[r].status # "none" => pairings'[r].created <= now'
      BY <3>2, <3>3, <3>4 DEF CodeInv, TypeOK
    <3>7. UniquePendingCode'
      BY <3>3, <3>4, <3>5 DEF CodeInv, UniquePendingCode
    <3>8. CodeQuarantine'
      <4>1. ASSUME NEW r \in PairingId, r # p, pairings'[r].status # "none",
                   pairings'[r].code = k
            PROVE  pairings'[r].created + ReuseWindow <= pairings'[p].created
        BY <3>3, <3>4, <3>5, <4>1
      <4>2. \A r, s \in PairingId :
              /\ r # s /\ r # p /\ s # p
              /\ pairings'[r].status # "none" /\ pairings'[s].status # "none"
              /\ pairings'[r].code = pairings'[s].code
              => \/ pairings'[r].created + ReuseWindow <= pairings'[s].created
                 \/ pairings'[s].created + ReuseWindow <= pairings'[r].created
        BY <3>4 DEF CodeInv, CodeQuarantine
      <4>3. pairings'[p].code = k
        BY <3>3, <3>4
      <4> HIDE DEF k
      <4> QED BY <4>1, <4>2, <4>3 DEF CodeQuarantine
    <3> QED BY <3>6, <3>7, <3>8 DEF CodeInv
  <2> QED BY <2>1, <2>2
<1> QED BY <1>1, <1>2

LEMMA InitCode == Init => CodeInv
  BY DEF Init, CodeInv, UniquePendingCode, CodeQuarantine, NoPairing

LEMMA CodeInvariant == Spec => []CodeInv
  BY TypeCorrect, InitCode, NextCode, PTL DEF Spec

(* No two live pairings ever share a code (pairing_insert).                *)
THEOREM UniqueCode == Spec => []UniquePendingCode
<1>1. CodeInv => UniquePendingCode
  BY DEF CodeInv
<1> QED BY <1>1, CodeInvariant, PTL

(* A code is not used again within the reuse window, whatever became of    *)
(* the pairing that had it (pairing_insert).                               *)
THEOREM Quarantine == Spec => []CodeQuarantine
<1>1. CodeInv => CodeQuarantine
  BY DEF CodeInv
<1> QED BY <1>1, CodeInvariant, PTL
=============================================================================
