------------------------------ MODULE Pairing ------------------------------
(***************************************************************************)
(* The pairing face of the gateway (src/pair.rs over src/db.rs): a phone   *)
(* registers a code (start), a Mac answers it with an offer (claim), the   *)
(* phone lists the offers (poll) and picks one (confirm), which consumes   *)
(* the claim and issues a token bound to the Mac's tunnel port.            *)
(*                                                                         *)
(* The database is one Mutex<Connection>: each call is atomic, committed   *)
(* on its own, and survives a crash.  A handler is a SEQUENCE of calls, so *)
(* a Worker (a request in flight) takes one step per call and other        *)
(* requests, the clock and the operator run in between.  A check a handler *)
(* makes on the row it has just read belongs to the step that reads it.    *)
(* A request that is refused before its first write leaves no trace and is *)
(* not a step.                                                             *)
(***************************************************************************)
EXTENDS Naturals, FiniteSets

CONSTANTS
  Worker,       \* requests in flight at the same time
  PairingId, ClaimId, Jti,        \* uuids of the three tables
  Code,         \* pairing codes shown on a phone
  HostCode,     \* host codes shown on a Mac's terminal
  Port,         \* tunnel ports a request may name
  TunnelPorts,  \* those within tunnel_port_min..tunnel_port_max
  TenantId,     \* explicit tenants; the operator's own is Default
  Default, Operator, Open, Null,
  PairingTTL, ClaimTTL, ReuseWindow,  \* 600 s, 300 s and 1800 s
  MaxTime,      \* bound on the clock
  Faults        \* whether the process crashes and database calls fail

ASSUME IdsAssumption ==
  /\ Default \notin TenantId /\ Operator \notin TenantId /\ Open \notin TenantId
  /\ Default # Open /\ Default # Operator
  /\ Null \notin PairingId \cup ClaimId \cup Jti \cup Code \cup HostCode \cup Port
                \cup TenantId \cup {Default, Operator, Open}
ASSUME TimesAssumption ==
  /\ PairingTTL \in Nat /\ ClaimTTL \in Nat /\ ReuseWindow \in Nat /\ MaxTime \in Nat
  /\ 0 < ReuseWindow
ASSUME RestAssumption == TunnelPorts \subseteq Port /\ Faults \in BOOLEAN

VARIABLES
  now,        \* the clock, in units of 300 s
  pairings,   \* PairingId -> row of table pairings
  claims,     \* ClaimId -> row of table claims, plus the history fields by, takenBy
  tokens,     \* Jti -> row of table tokens, plus the history field claim
  tenants,    \* TenantId -> "none" | "active" | "revoked"
  hosts,      \* Port -> the tenant it is registered to, Null when it is not
  everOwned,  \* history: Port -> the tenants it has been registered to
  req         \* Worker -> the request in flight: its next call and its locals

vars == <<now, pairings, claims, tokens, tenants, hosts, everOwned, req>>

-----------------------------------------------------------------------------
(* Rows and their types. *)

Owner == TenantId \cup {Default}
Ctx == TenantId \cup {Operator}

NoPairing == [status |-> "none", code |-> Null, tenant |-> Null,
              created |-> 0, expires |-> 0, jti |-> Null]
NoClaim == [status |-> "none", code |-> Null, hostCode |-> Null, port |-> Null,
            tenant |-> Null, expires |-> 0, by |-> Null, takenBy |-> Null]
NoToken == [status |-> "none", port |-> Null, tenant |-> Null, claim |-> Null]
Idle == [pc |-> "idle", ctx |-> Null, code |-> Null, tenant |-> Null,
         pairing |-> Null, claim |-> Null, port |-> Null, jti |-> Null]

PairingRow == {NoPairing} \cup
  [status : {"pending", "expired", "confirmed"}, code : Code,
   tenant : TenantId \cup {Open}, created : Nat, expires : Nat, jti : Jti \cup {Null}]
ClaimRow == {NoClaim} \cup
  [status : {"offered", "expired", "consumed"}, code : Code, hostCode : HostCode,
   port : Port, tenant : Owner, expires : Nat, by : Ctx, takenBy : PairingId \cup {Null}]
TokenRow == {NoToken} \cup
  [status : {"issued"}, port : Port, tenant : Owner, claim : ClaimId]

Starting == {"start_sweep", "start_insert"}
Granting == {"confirm_status", "confirm_token", "confirm_insert"}   \* the claim is spent
Confirming == {"confirm_consume"} \cup Granting
Naming == {"confirm_token", "confirm_insert"}                       \* the jti is chosen
Claiming == {"claim_host", "claim_insert"}
Request == [pc : {"idle", "poll_sweep", "authed", "confirm_claim"}
                   \cup Starting \cup Confirming \cup Claiming,
            ctx : Ctx \cup {Null}, code : Code \cup {Null},
            tenant : Owner \cup {Open, Null}, pairing : PairingId \cup {Null},
            claim : ClaimId \cup {Null}, port : Port \cup {Null}, jti : Jti \cup {Null}]

\* The locals a handler has set by the time it makes its next call.
LocalsOK(r) ==
  /\ r.pc \in Starting => r.code \in Code /\ r.tenant \in TenantId \cup {Open}
  /\ r.pc = "confirm_claim" => r.pairing \in PairingId
  /\ r.pc \in Confirming => /\ r.pairing \in PairingId /\ r.claim \in ClaimId
                            /\ r.port \in Port /\ r.tenant \in Owner
  /\ r.pc \in Naming => r.jti \in Jti
  /\ r.pc \notin Naming => r.jti = Null
  /\ r.pc = "authed" => r.ctx \in Ctx
  /\ r.pc \in Claiming => r.ctx \in Ctx /\ r.code \in Code /\ r.tenant \in Owner
  /\ r.pc = "claim_insert" => r.port \in Port

\* The rows a handler has read are still there: no row is ever deleted.
RefsOK(r) ==
  /\ r.pairing # Null => pairings[r.pairing].status # "none"
  /\ r.claim # Null => claims[r.claim].status # "none"

(* Every table and every request in flight hold values of their columns    *)
(* and locals (src/db.rs rows, the handlers' variables in src/pair.rs):    *)
(* a stored row is complete, a handler has the locals its next call needs, *)
(* and those point to stored rows.                                         *)
TypeOK ==
  /\ now \in Nat
  /\ pairings \in [PairingId -> PairingRow]
  /\ claims \in [ClaimId -> ClaimRow]
  /\ tokens \in [Jti -> TokenRow]
  /\ tenants \in [TenantId -> {"none", "active", "revoked"}]
  /\ hosts \in [Port -> Owner \cup {Null}]
  /\ everOwned \in [Port -> SUBSET Owner]
  /\ req \in [Worker -> Request]
  /\ \A w \in Worker : LocalsOK(req[w]) /\ RefsOK(req[w])

Init ==
  /\ now = 0
  /\ pairings = [p \in PairingId |-> NoPairing]
  /\ claims = [c \in ClaimId |-> NoClaim]
  /\ tokens = [j \in Jti |-> NoToken]
  /\ tenants = [t \in TenantId |-> "none"]
  /\ hosts = [q \in Port |-> Null]
  /\ everOwned = [q \in Port |-> {}]
  /\ req = [w \in Worker |-> Idle]

-----------------------------------------------------------------------------
(* Pieces of the database calls. *)

Expired(row) == row.expires < now

SweptPairings ==
  [p \in PairingId |->
     IF pairings[p].status = "pending" /\ Expired(pairings[p])
     THEN [pairings[p] EXCEPT !.status = "expired"] ELSE pairings[p]]

SlipSweepTakesConsumed ==   \* slip: the status filter of the second UPDATE is lost
  [c \in ClaimId |->
     IF claims[c].status \in {"offered", "consumed"} /\ Expired(claims[c])
     THEN [claims[c] EXCEPT !.status = "expired"] ELSE claims[c]]

SweptClaims ==
  [c \in ClaimId |->
     IF claims[c].status = "offered" /\ Expired(claims[c])
     THEN [claims[c] EXCEPT !.status = "expired"] ELSE claims[c]]

\* pairing_sweep: two UPDATEs in one batch whose error is dropped; a fault
\* may stop it before either.
Sweep ==
  \/ pairings' = SweptPairings /\ claims' = SweptClaims
  \/ Faults /\ pairings' = SweptPairings /\ UNCHANGED claims
  \/ Faults /\ UNCHANGED <<pairings, claims>>

SlipCodeTakenByRecentOnly(k) ==   \* slip: the live pending row is forgotten
  \E p \in PairingId : /\ pairings[p].status # "none" /\ pairings[p].code = k
                       /\ now < pairings[p].created + ReuseWindow

SlipCodeTakenByPendingOnly(k) ==  \* slip: used codes are free again at once
  \E p \in PairingId : pairings[p].status = "pending" /\ pairings[p].code = k

\* The NOT EXISTS of pairing_insert: a pending row, or any row of the last 30 minutes.
CodeTaken(k) ==
  \E p \in PairingId : /\ pairings[p].status # "none" /\ pairings[p].code = k
                       /\ \/ pairings[p].status = "pending"
                          \/ now < pairings[p].created + ReuseWindow

SlipPairingActiveByTime(p) ==     \* slip: a confirmed pairing is still usable
  pairings[p].status # "none" /\ ~Expired(pairings[p])

PairingActive(p) == pairings[p].status = "pending" /\ ~Expired(pairings[p])

SlipApplicableWithoutAnchor(c, p) ==  \* slip: confirm trusts the filter of poll
  /\ claims[c].status = "offered" /\ claims[c].code = pairings[p].code
  /\ ~Expired(claims[c])

\* What confirm demands of the claim it has just read.
Applicable(c, p) ==
  /\ claims[c].status = "offered" /\ claims[c].code = pairings[p].code
  /\ pairings[p].tenant \in {Open, claims[c].tenant}
  /\ ~Expired(claims[c])

\* host_by_port: a read that fails looks like a port nobody registered.
HostRead(q) == {hosts[q]} \cup (IF Faults THEN {Null} ELSE {})

SlipPortNotOwned(ctx, t, h, q) ==    \* slip: any registered port will do
  \/ h # Null
  \/ h = Null /\ ctx = Operator /\ q \in TunnelPorts

SlipAnyMayBindFree(ctx, t, h, q) ==  \* slip: a port nobody registered is left to all
  \/ h # Null /\ h = t
  \/ h = Null /\ q \in TunnelPorts

\* Port arbitration of claim, on the host h that was read for port q: a
\* registered port must be the tenant's own, an unregistered one is left to
\* the operator, within the range.
MayBind(ctx, t, h, q) ==
  \/ h # Null /\ h = t
  \/ h = Null /\ (ctx = Operator \/ t = Default) /\ q \in TunnelPorts

\* uuids are fresh: not in a table and not held by a request in flight.
FreshJti(j) ==
  /\ tokens[j].status = "none"
  /\ \A p \in PairingId : pairings[p].jti # j
  /\ \A w \in Worker : req[w].jti # j

At(w, pc) == req[w].pc = pc
Proceed(w, r) == req' = [req EXCEPT ![w] = r]
GoTo(w, pc) == Proceed(w, [req[w] EXCEPT !.pc = pc])
Return(w) == Proceed(w, Idle)

-----------------------------------------------------------------------------
(* POST /pair/start.  The tenant check precedes the sweep and the insert.  *)

StartRequest(w, k, t) ==
  /\ At(w, "idle")
  /\ t # Open => tenants[t] # "none"       \* tenant_by_id does not look at revoked
  /\ Proceed(w, [Idle EXCEPT !.pc = "start_sweep", !.code = k, !.tenant = t])
  /\ UNCHANGED <<now, pairings, claims, tokens, tenants, hosts, everOwned>>

StartSweep(w) ==
  /\ At(w, "start_sweep")
  /\ Sweep
  /\ GoTo(w, "start_insert")
  /\ UNCHANGED <<now, tokens, tenants, hosts, everOwned>>

PairingsUsedUp == \A p \in PairingId : pairings[p].status # "none"   \* bound

\* The clock is read three times under the lock, for created, expires and the
\* window; here once, as if the three readings fell into one second.
StartInsert(w) ==
  /\ At(w, "start_insert")
  /\ \/ /\ ~CodeTaken(req[w].code)
        /\ \E p \in PairingId :
             /\ pairings[p].status = "none"
             /\ pairings' = [pairings EXCEPT ![p] =
                  [status |-> "pending", code |-> req[w].code, tenant |-> req[w].tenant,
                   created |-> now, expires |-> now + PairingTTL, jti |-> Null]]
     \/ /\ CodeTaken(req[w].code) \/ PairingsUsedUp \/ Faults
        /\ UNCHANGED pairings
  /\ Return(w)
  /\ UNCHANGED <<now, claims, tokens, tenants, hosts, everOwned>>

-----------------------------------------------------------------------------
(* POST /pair/poll: read the pairing, sweep, and select its offers, which  *)
(* only builds the answer.                                                 *)

PollGet(w, p) ==
  /\ At(w, "idle")
  /\ PairingActive(p)
  /\ Proceed(w, [Idle EXCEPT !.pc = "poll_sweep"])
  /\ UNCHANGED <<now, pairings, claims, tokens, tenants, hosts, everOwned>>

PollSweep(w) ==
  /\ At(w, "poll_sweep")
  /\ Sweep
  /\ Return(w)
  /\ UNCHANGED <<now, tokens, tenants, hosts, everOwned>>

-----------------------------------------------------------------------------
(* POST /pair/confirm.  The phone's input is the pairing, the claim it     *)
(* picked and the host code it was told; the secret stands for "this is    *)
(* the phone that started p".                                              *)

ConfirmGet(w, p) ==
  /\ At(w, "idle")
  /\ PairingActive(p)
  /\ Proceed(w, [Idle EXCEPT !.pc = "confirm_claim", !.pairing = p])
  /\ UNCHANGED <<now, pairings, claims, tokens, tenants, hosts, everOwned>>

ConfirmClaim(w, c, echo) ==
  /\ At(w, "confirm_claim")
  /\ \/ /\ Applicable(c, req[w].pairing) /\ echo = claims[c].hostCode
        /\ Proceed(w, [req[w] EXCEPT !.pc = "confirm_consume", !.claim = c,
                                     !.port = claims[c].port, !.tenant = claims[c].tenant])
     \/ /\ ~(Applicable(c, req[w].pairing) /\ echo = claims[c].hostCode) \/ Faults
        /\ Return(w)
  /\ UNCHANGED <<now, pairings, claims, tokens, tenants, hosts, everOwned>>

SlipConsumeUnchecked(c) == TRUE   \* slip: the UPDATE loses AND status = 'offered'

Consumable(c) == claims[c].status = "offered"

\* claim_consume, the only guarded UPDATE: a second confirm of the claim is refused.
ConfirmConsume(w) ==
  /\ At(w, "confirm_consume")
  /\ \/ /\ Consumable(req[w].claim)
        /\ claims' = [claims EXCEPT ![req[w].claim] =
                        [@ EXCEPT !.status = "consumed", !.takenBy = req[w].pairing]]
        /\ GoTo(w, "confirm_status")
     \/ /\ ~Consumable(req[w].claim) \/ Faults
        /\ UNCHANGED claims
        /\ Return(w)
  /\ UNCHANGED <<now, pairings, tokens, tenants, hosts, everOwned>>

SlipConfirmedByCode(p) ==   \* slip: the UPDATE addresses the code, not the id
  [r \in PairingId |-> IF pairings[r].code = pairings[p].code
                       THEN [pairings[r] EXCEPT !.status = "confirmed"] ELSE pairings[r]]

\* pairing_set_status is unconditional: it does not ask that p is still pending.
Confirmed(p) == [pairings EXCEPT ![p].status = "confirmed"]

SlipStatusRechecks(w) ==    \* slip: a second look at the pairing after the claim is spent
  /\ At(w, "confirm_status")
  /\ IF pairings[req[w].pairing].status = "pending"
     THEN \E j \in Jti :
            /\ FreshJti(j)
            /\ pairings' = Confirmed(req[w].pairing)
            /\ Proceed(w, [req[w] EXCEPT !.pc = "confirm_token", !.jti = j])
     ELSE Return(w) /\ UNCHANGED pairings
  /\ UNCHANGED <<now, claims, tokens, tenants, hosts, everOwned>>

ConfirmStatus(w) ==
  /\ At(w, "confirm_status")
  /\ \E j \in Jti :
       /\ FreshJti(j)
       /\ Proceed(w, [req[w] EXCEPT !.pc = "confirm_token", !.jti = j])
  /\ \/ pairings' = Confirmed(req[w].pairing)
     \/ Faults /\ UNCHANGED pairings       \* the error is dropped
  /\ UNCHANGED <<now, claims, tokens, tenants, hosts, everOwned>>

SlipWithTokenByCode(p, j) ==    \* slip: the UPDATE addresses the code, not the id
  [r \in PairingId |-> IF pairings[r].code = pairings[p].code
                       THEN [pairings[r] EXCEPT !.jti = j] ELSE pairings[r]]

WithToken(p, j) == [pairings EXCEPT ![p].jti = j]

ConfirmToken(w) ==
  /\ At(w, "confirm_token")
  /\ GoTo(w, "confirm_insert")
  /\ \/ pairings' = WithToken(req[w].pairing, req[w].jti)
     \/ Faults /\ UNCHANGED pairings       \* the error is dropped
  /\ UNCHANGED <<now, claims, tokens, tenants, hosts, everOwned>>

\* TokenDb::insert with the port and the tenant of the claim as it was read.
ConfirmInsert(w) ==
  /\ At(w, "confirm_insert")
  /\ \/ tokens' = [tokens EXCEPT ![req[w].jti] =
                     [status |-> "issued", port |-> req[w].port,
                      tenant |-> req[w].tenant, claim |-> req[w].claim]]
     \/ Faults /\ UNCHANGED tokens
  /\ Return(w)
  /\ UNCHANGED <<now, pairings, claims, tenants, hosts, everOwned>>

-----------------------------------------------------------------------------
(* POST /admin/claim.  Both doors fix the context before the body arrives: *)
(* a tenant's key is looked up on the public port; on the operator's       *)
(* loopback port the token was right, or none is configured.               *)

SlipTenantAuthKnown(w, t) ==    \* slip: the look-up of the key loses AND revoked = 0
  /\ At(w, "idle")
  /\ tenants[t] # "none"
  /\ Proceed(w, [Idle EXCEPT !.pc = "authed", !.ctx = t])
  /\ UNCHANGED <<now, pairings, claims, tokens, tenants, hosts, everOwned>>

TenantAuth(w, t) ==
  /\ At(w, "idle")
  /\ tenants[t] = "active"
  /\ Proceed(w, [Idle EXCEPT !.pc = "authed", !.ctx = t])
  /\ UNCHANGED <<now, pairings, claims, tokens, tenants, hosts, everOwned>>

OperatorAuth(w) ==
  /\ At(w, "idle")
  /\ Proceed(w, [Idle EXCEPT !.pc = "authed", !.ctx = Operator])
  /\ UNCHANGED <<now, pairings, claims, tokens, tenants, hosts, everOwned>>

\* pairing_by_code, and the tenant fence on what it returns.
Answers(p, k, ctx) ==
  /\ pairings[p].status = "pending" /\ pairings[p].code = k
  /\ ctx = Operator \/ pairings[p].tenant \in {Open, ctx}

SlipOfferTenantIsAnchor(p, ctx) ==   \* slip: an open pairing's '' is stored as a tenant
  IF ctx # Operator THEN ctx ELSE pairings[p].tenant

OfferTenant(p, ctx) ==
  IF ctx # Operator THEN ctx
  ELSE IF pairings[p].tenant = Open THEN Default ELSE pairings[p].tenant

ClaimPairing(w, k) ==
  /\ At(w, "authed")
  /\ \/ \E p \in PairingId :
          /\ Answers(p, k, req[w].ctx)
          /\ Proceed(w, [req[w] EXCEPT !.pc = "claim_host", !.code = k,
                                    !.tenant = OfferTenant(p, req[w].ctx)])
     \/ /\ (\A p \in PairingId : ~Answers(p, k, req[w].ctx)) \/ Faults
        /\ Return(w)
  /\ UNCHANGED <<now, pairings, claims, tokens, tenants, hosts, everOwned>>

ClaimHost(w, q) ==
  /\ At(w, "claim_host")
  /\ \E h \in HostRead(q) :
       IF MayBind(req[w].ctx, req[w].tenant, h, q)
       THEN Proceed(w, [req[w] EXCEPT !.pc = "claim_insert", !.port = q])
       ELSE Return(w)
  /\ UNCHANGED <<now, pairings, claims, tokens, tenants, hosts, everOwned>>

ClaimsUsedUp == \A c \in ClaimId : claims[c].status # "none"   \* bound

\* The insert trusts what the two reads said; neither is looked at again.
ClaimInsert(w, h) ==
  /\ At(w, "claim_insert")
  /\ \/ \E c \in ClaimId :
          /\ claims[c].status = "none"
          /\ claims' = [claims EXCEPT ![c] =
               [status |-> "offered", code |-> req[w].code, hostCode |-> h,
                port |-> req[w].port, tenant |-> req[w].tenant,
                expires |-> now + ClaimTTL, by |-> req[w].ctx, takenBy |-> Null]]
     \/ (ClaimsUsedUp \/ Faults) /\ UNCHANGED claims
  /\ Return(w)
  /\ UNCHANGED <<now, pairings, tokens, tenants, hosts, everOwned>>

-----------------------------------------------------------------------------
(* The operator's tenant and host registries.  The checks that precede the *)
(* writes are on facts that never change back (a tenant row is never       *)
(* deleted), so each handler is one step.                                  *)

TenantCreate(t) ==
  /\ tenants[t] = "none"
  /\ tenants' = [tenants EXCEPT ![t] = "active"]
  /\ UNCHANGED <<now, pairings, claims, tokens, hosts, everOwned, req>>

TenantRevoke(t) ==
  /\ tenants[t] # "none"
  /\ tenants' = [tenants EXCEPT ![t] = "revoked"]
  /\ UNCHANGED <<now, pairings, claims, tokens, hosts, everOwned, req>>

HostCreate(t, q) ==
  /\ t # Default => tenants[t] # "none"
  /\ q \in TunnelPorts
  /\ hosts[q] = Null                        \* port INTEGER NOT NULL UNIQUE
  /\ hosts' = [hosts EXCEPT ![q] = t]
  /\ everOwned' = [everOwned EXCEPT ![q] = @ \cup {t}]
  /\ UNCHANGED <<now, pairings, claims, tokens, tenants, req>>

HostRemove(q) ==
  /\ hosts[q] # Null
  /\ hosts' = [hosts EXCEPT ![q] = Null]
  /\ UNCHANGED <<now, pairings, claims, tokens, tenants, everOwned, req>>

-----------------------------------------------------------------------------
(* The environment. *)

Tick ==
  /\ now < MaxTime
  /\ now' = now + 1
  /\ UNCHANGED <<pairings, claims, tokens, tenants, hosts, everOwned, req>>

\* The process dies and is started again: requests are gone, tables are not.
Crash ==
  /\ Faults
  /\ req' = [w \in Worker |-> Idle]
  /\ UNCHANGED <<now, pairings, claims, tokens, tenants, hosts, everOwned>>

Start(w) ==
  \/ \E k \in Code, t \in TenantId \cup {Open} : StartRequest(w, k, t)
  \/ StartSweep(w) \/ StartInsert(w)
Poll(w) == (\E p \in PairingId : PollGet(w, p)) \/ PollSweep(w)
Confirm(w) ==
  \/ \E p \in PairingId : ConfirmGet(w, p)
  \/ \E c \in ClaimId, h \in HostCode : ConfirmClaim(w, c, h)
  \/ ConfirmConsume(w) \/ ConfirmStatus(w) \/ ConfirmToken(w) \/ ConfirmInsert(w)
Claim(w) ==
  \/ \E t \in TenantId : TenantAuth(w, t)
  \/ OperatorAuth(w)
  \/ \E k \in Code : ClaimPairing(w, k)
  \/ \E q \in Port : ClaimHost(w, q)
  \/ \E h \in HostCode : ClaimInsert(w, h)
Registry ==
  \/ \E t \in TenantId : TenantCreate(t) \/ TenantRevoke(t)
  \/ \E t \in Owner, q \in Port : HostCreate(t, q)
  \/ \E q \in Port : HostRemove(q)

Next ==
  \/ \E w \in Worker : Start(w) \/ Poll(w) \/ Confirm(w) \/ Claim(w)
  \/ Registry
  \/ Tick
  \/ Crash

Spec == Init /\ [][Next]_vars

(* A handler that has begun runs to its end: between two database calls    *)
(* there is no await, so nothing but a crash stops it.  A claim that is    *)
(* only authenticated still waits for its body, which may never come.      *)
Continue(w) == ~At(w, "idle") /\ ~At(w, "authed") /\ (Start(w) \/ Poll(w) \/ Confirm(w) \/ Claim(w))

FairSpec == Spec /\ \A w \in Worker : WF_vars(Continue(w))

-----------------------------------------------------------------------------
(* Safety. *)

Issued == {j \in Jti : tokens[j].status = "issued"}
GrantOf(j) == claims[tokens[j].claim]     \* the claim a token was issued for

(* "A pairing code is unique while it lives" (README): two pending rows    *)
(* never carry the same code, whatever the sweep, which runs in a call of  *)
(* its own before the insert, has missed by then (db.rs pairing_insert).   *)
UniquePendingCode ==
  \A p, r \in PairingId :
    /\ pairings[p].status = "pending" /\ pairings[r].status = "pending"
    /\ pairings[p].code = pairings[r].code
    => p = r

(* "... and is not reused within 30 minutes": rows with the same code are  *)
(* created at least ReuseWindow apart, confirmed and expired ones included.*)
CodeQuarantine ==
  \A p, r \in PairingId :
    /\ p # r /\ pairings[p].status # "none" /\ pairings[r].status # "none"
    /\ pairings[p].code = pairings[r].code
    => \/ pairings[p].created + ReuseWindow <= pairings[r].created
       \/ pairings[r].created + ReuseWindow <= pairings[p].created

(* A claim is good for one token: however confirms interleave, sweeps run, *)
(* writes fail or the process restarts, a token's claim is consumed and no *)
(* two tokens come from the same claim (confirm_handler, claim_consume).   *)
ClaimSingleUse ==
  /\ \A j \in Issued : GrantOf(j).status = "consumed"
  /\ \A i, j \in Issued : tokens[i].claim = tokens[j].claim => i = j

(* A token issued for a pairing anchored to a tenant is that tenant's,     *)
(* also when the offer was made for an earlier pairing with the same code. *)
AnchorFence ==
  \A j \in Issued : \E p \in PairingId :
    p = GrantOf(j).takenBy /\ pairings[p].tenant \in {Open, tokens[j].tenant}

(* A token's port is in the tunnel range and, unless the operator made the *)
(* offer, was registered to the token's tenant at some time before.        *)
PortAuthority ==
  \A j \in Issued :
    /\ tokens[j].port \in TunnelPorts
    /\ GrantOf(j).by = Operator \/ tokens[j].tenant \in everOwned[tokens[j].port]

(* A pairing is reported as confirmed only when a claim was spent on it:   *)
(* the status is written after the consume, and only to this row.          *)
ConfirmedHasClaim ==
  \A p \in PairingId :
    pairings[p].status = "confirmed" => \E c \in ClaimId : claims[c].takenBy = p

(* The token admin/status reports for a code was issued for the latest     *)
(* pairing with that code, never for an earlier one that reused it.        *)
Latest(k) == {p \in PairingId :
  /\ pairings[p].status # "none" /\ pairings[p].code = k
  /\ \A r \in PairingId : pairings[r].status # "none" /\ pairings[r].code = k
                            => pairings[r].created <= pairings[p].created}
StatusToken(k) == {pairings[p].jti : p \in Latest(k)} \ {Null}
StatusNamesAGrant ==
  \A k \in Code : \A j \in StatusToken(k) \cap Issued : GrantOf(j).takenBy \in Latest(k)

(* Confirms that had read a pairing before it was confirmed each spend a   *)
(* claim of their own, but never more than there are requests in flight:   *)
(* once the status is written no confirm of that pairing begins.  Holds    *)
(* without faults: a dropped error of set_status leaves the pairing open.  *)
BoundedOvergrant ==
  \A p \in PairingId :
    Cardinality({c \in ClaimId : claims[c].takenBy = p}) <= Cardinality(Worker)

(* A spent claim is never lost: it has its token, or a request that is     *)
(* past every check and only has writes left.  This is what makes          *)
(* GrantCompletes possible; holds without faults, a crash between the      *)
(* consume and the insert loses the claim (confirm_handler).               *)
NoGrantLost ==
  \A c \in ClaimId : claims[c].status = "consumed" =>
    \/ \E j \in Issued : tokens[j].claim = c
    \/ \E w \in Worker : req[w].pc \in Granting /\ req[w].claim = c

(* No step takes a confirmed pairing or a consumed claim back, not even a  *)
(* sweep long after it expired, and no step re-targets a claim.            *)
SpentStaysSpent ==
  [][/\ \A p \in PairingId :
          pairings[p].status = "confirmed" => pairings'[p].status = "confirmed"
     /\ \A c \in ClaimId :
          claims[c].status = "consumed" => claims'[c] = claims[c]]_vars

(* A revocation of a tenant takes effect for everybody but the requests    *)
(* that its key has already let in: they become fewer only, and each makes *)
(* one offer at most, since the one that makes it is gone (the key is      *)
(* looked up before the body arrives, tenant_auth_middleware, and never    *)
(* again, admin_claim_handler).                                            *)
Acting(t) == {w \in Worker : req[w].ctx = t}
RevokedTenantDrains ==
  [][\A t \in TenantId : tenants[t] = "revoked" =>
       /\ Acting(t)' \subseteq Acting(t)
       /\ (\E c \in ClaimId : claims[c].by # t /\ claims'[c].by = t)
            => Acting(t)' # Acting(t)]_vars

(* A tenant that does not have a port, or has it no longer, makes no offer *)
(* on it but with the requests that found it registered while it had it:   *)
(* they become fewer only, and each makes one offer at most, though nobody *)
(* looks at the registration again, and though a look-up that fails is     *)
(* taken for a free port (admin_claim_handler, host_remove_handler).       *)
Arbitrated(t, q) ==
  {w \in Worker : At(w, "claim_insert") /\ req[w].ctx = t /\ req[w].port = q}
OfferedBy(c, t, q) == claims[c].by = t /\ claims[c].port = q
LostPortDrains ==
  [][\A t \in TenantId, q \in Port : hosts[q] # t =>
       /\ Arbitrated(t, q)' \subseteq Arbitrated(t, q)
       /\ (\E c \in ClaimId : ~OfferedBy(c, t, q) /\ OfferedBy(c, t, q)')
            => Arbitrated(t, q)' # Arbitrated(t, q)]_vars

(* Liveness: without faults a spent claim yields its token.  Nothing after *)
(* the consume looks at the database again, so nothing can refuse it.      *)
GrantCompletes ==
  \A c \in ClaimId :
    claims[c].status = "consumed" ~> \E j \in Issued : tokens[j].claim = c

-----------------------------------------------------------------------------
(* Pairing implements Grant: the consume is the instant an offer is taken, *)
(* the insert of the token the instant it is issued; everything else is    *)
(* invisible.  Lost answers, crashes and dropped errors included, nobody   *)
(* who sees only claims and tokens can tell the six calls of confirm from  *)
(* those two steps.                                                        *)

AbsOffers == [c \in ClaimId |-> [status |-> claims[c].status, port |-> claims[c].port,
                                 tenant |-> claims[c].tenant]]
AbsGrants == [j \in Jti |-> [claim |-> tokens[j].claim, port |-> tokens[j].port,
                             tenant |-> tokens[j].tenant]]
G == INSTANCE Grant WITH offers <- AbsOffers, grants <- AbsGrants

(* Every behaviour of the pairing face is one of Grant (confirm_handler,   *)
(* admin_claim_handler, pairing_sweep).                                    *)
GrantSpec == G!Spec

(* The pairing face shares table tokens with the device gate.  All it ever *)
(* does there is to issue: a row that was not there, for the operator's    *)
(* tenant or an explicit one, never a second time for the same row, which  *)
(* may have been revoked meanwhile (TokenDb::insert, OfferTenant).         *)
Table == INSTANCE Gate WITH
       Request <- {}, TenantId <- Owner, inside <- <<>>, sockets <- {}, online <- {},
       rows <- [j \in Jti |-> [status |-> IF tokens[j].status = "issued" THEN "live" ELSE "none",
                               tenant |-> tokens[j].tenant]]

IssueSpec == Table!Spec

-----------------------------------------------------------------------------
(* What the documentation says and the code does not do. *)

(* pair.rs: the anchor "must be a registered ACTIVE tenant".               *)
AnchorIsActive ==
  [][\A w \in Worker : req[w].pc = "idle" /\ req'[w].pc = "start_sweep"
        => req'[w].tenant = Open \/ tenants[req'[w].tenant] = "active"]_vars

(* pair.rs: "there must be a phone waiting for this code (no dangling      *)
(* offer is created)".                                                     *)
NoDanglingOffer ==
  [][\A c \in ClaimId : claims[c].status = "none" /\ claims'[c].status = "offered"
        => \E p \in PairingId : PairingActive(p) /\ pairings[p].code = claims'[c].code]_vars

(* README: an explicit tenant's claim is only made on a port that is       *)
(* registered to it.                                                       *)
ClaimOnOwnPort ==
  [][\A c \in ClaimId : claims[c].status = "none" /\ claims'[c].status = "offered"
        => claims'[c].by = Operator \/ hosts[claims'[c].port] = claims'[c].tenant]_vars
=============================================================================
