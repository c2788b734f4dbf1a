----------------------------- MODULE DeviceGate -----------------------------
(***************************************************************************)
(* What a device token opens, and how it is closed (auth_middleware and    *)
(* the revoke handlers in src/auth.rs and src/pair.rs, the presence count  *)
(* of src/relay.rs).                                                       *)
(*                                                                         *)
(* Every protected request looks its token up twice, in two database calls *)
(* (is_valid, route_for; touch between them only writes last_used_at,      *)
(* which is displayed and never read), then runs a handler.  A WebSocket   *)
(* counts in ws_sessions from before the upstream is dialled until its     *)
(* pipe ends, through a guard that counts down when it is dropped: by an   *)
(* early return, by the end of the spawned pipe, or because the client has *)
(* gone and the handler's future is dropped.                               *)
(***************************************************************************)
EXTENDS Naturals, FiniteSets

CONSTANTS
  Request,          \* requests and sockets open at the same time
  Jti,              \* device tokens
  TenantId,         \* tenants, the operator's own (Default) among them
  Default, Operator, Null

ASSUME GateAssumption ==
  /\ IsFiniteSet(Request)
  /\ Default \in TenantId /\ Operator \notin TenantId \cup Jti
  /\ Null \notin Jti \cup TenantId /\ TenantId \cap Jti = {}

VARIABLES
  tokens,    \* Jti -> row of table tokens, plus by: who revoked it (history)
  lapsed,    \* the tokens whose 30 days are over
  req,       \* Request -> the request or socket
  sessions   \* ws_sessions: Jti -> its number of sockets, 0 for no entry

vars == <<tokens, lapsed, req, sessions>>

NoToken == [status |-> "none", tenant |-> Null, by |-> Null]
TokenRow == {NoToken} \cup
  [status : {"live", "revoked"}, tenant : TenantId, by : Jti \cup TenantId \cup {Operator, Null}]

Idle == [pc |-> "idle", jti |-> Null, tenant |-> Null]
Holding == {"dialing", "piping"}                     \* a presence guard exists
Admitted == {"running"} \cup Holding                 \* past auth_middleware
RequestState == {Idle} \cup
  [pc : {"routing"}, jti : Jti, tenant : {Null}] \cup
  [pc : Admitted, jti : Jti, tenant : TenantId]

(* Rows and requests hold values of their fields, and a request has no     *)
(* tenant before route_for has given it the one of its token's row.        *)
GateTypeOK ==
  /\ tokens \in [Jti -> TokenRow]
  /\ lapsed \subseteq Jti
  /\ req \in [Request -> RequestState]
  /\ sessions \in [Jti -> Nat]
  /\ \A r \in Request : req[r].pc \in Admitted => req[r].tenant = tokens[req[r].jti].tenant

Init ==
  /\ tokens = [j \in Jti |-> NoToken]
  /\ lapsed = {}
  /\ req = [r \in Request |-> Idle]
  /\ sessions = [j \in Jti |-> 0]

At(r, pc) == req[r].pc = pc
Proceed(r, s) == req' = [req EXCEPT ![r] = s]
Return(r) == Proceed(r, Idle)

-----------------------------------------------------------------------------
(* Issuing: login_handler (Default) and confirm_handler (any tenant). *)

Issue(j, t) ==
  /\ tokens[j].status = "none"
  /\ tokens' = [tokens EXCEPT ![j] = [status |-> "live", tenant |-> t, by |-> Null]]
  /\ UNCHANGED <<lapsed, req, sessions>>

\* The exp of the JWT passes.
Lapse(j) ==
  /\ tokens[j].status # "none"
  /\ lapsed' = lapsed \cup {j}
  /\ UNCHANGED <<tokens, req, sessions>>

-----------------------------------------------------------------------------
(* auth_middleware *)

IsValid(r, j) ==
  /\ At(r, "idle")
  /\ j \notin lapsed                      \* decode_jwt
  /\ tokens[j].status = "live"
  /\ Proceed(r, [pc |-> "routing", jti |-> j, tenant |-> Null])
  /\ UNCHANGED <<tokens, lapsed, sessions>>

SlipRoutable(j) == tokens[j].status # "none"   \* slip: revoked = 0 was checked already

Routable(j) == tokens[j].status = "live"

SlipRouteTenant(j) == Default     \* slip: the column's default instead of the row's tenant

RouteTenant(j) == tokens[j].tenant

RouteFor(r) ==
  /\ At(r, "routing")
  /\ LET j == req[r].jti IN
       \/ /\ Routable(j)
          /\ Proceed(r, [pc |-> "running", jti |-> j, tenant |-> RouteTenant(j)])
       \/ Return(r)                       \* not routable, or the read failed
  /\ UNCHANGED <<tokens, lapsed, sessions>>

-----------------------------------------------------------------------------
(* Revoking: by a device of the tenant, by the tenant's key, by the        *)
(* operator.  A device's request goes on if its own token is revoked now.  *)

SlipInFence(j, t) == tokens[j].status = "live"   \* slip: AND tenant_id = ?2 is lost

InFence(j, t) == tokens[j].status = "live" /\ tokens[j].tenant = t

Revoked(j, by) == [tokens EXCEPT ![j] = [@ EXCEPT !.status = "revoked", !.by = by]]

DeviceRevoke(r, j) ==
  /\ At(r, "running")
  /\ tokens' = IF InFence(j, req[r].tenant) THEN Revoked(j, req[r].jti) ELSE tokens
  /\ Return(r)
  /\ UNCHANGED <<lapsed, sessions>>

AdminRevoke(ctx, j) ==
  /\ \/ ctx = Operator /\ tokens[j].status = "live"
     \/ ctx \in TenantId \ {Default} /\ InFence(j, ctx)
  /\ tokens' = Revoked(j, ctx)
  /\ UNCHANGED <<lapsed, req, sessions>>

-----------------------------------------------------------------------------
(* relay_handler and the presence guard. *)

Enter(j) == sessions' = [sessions EXCEPT ![j] = @ + 1]

SlipDropped(j) == [sessions EXCEPT ![j] = 0]     \* slip: the entry is removed outright

\* saturating_sub, and the entry goes when it reaches 0.
Dropped(j) == [sessions EXCEPT ![j] = IF @ = 0 THEN 0 ELSE @ - 1]

Drop(r) == sessions' = Dropped(req[r].jti)

\* The list of devices, a relayed HTTP request, or its client going away.
Answer(r) ==
  /\ At(r, "running")
  /\ Return(r)
  /\ UNCHANGED <<tokens, lapsed, sessions>>

WsEnter(r) ==
  /\ At(r, "running")
  /\ Enter(req[r].jti)
  /\ Proceed(r, [req[r] EXCEPT !.pc = "dialing"])
  /\ UNCHANGED <<tokens, lapsed>>

SlipWsAccepted(r) ==          \* slip: the guard stays behind in the handler, which returns
  /\ At(r, "dialing")
  /\ Drop(r)
  /\ Proceed(r, [req[r] EXCEPT !.pc = "piping"])
  /\ UNCHANGED <<tokens, lapsed>>

\* 101: the guard moves into the spawned pipe.
WsAccepted(r) ==
  /\ At(r, "dialing")
  /\ Proceed(r, [req[r] EXCEPT !.pc = "piping"])
  /\ UNCHANGED <<tokens, lapsed, sessions>>

\* The upstream cannot be dialled, hangs up, answers something else or too
\* much; or the client has gone meanwhile.
WsRefused(r) ==
  /\ At(r, "dialing")
  /\ Drop(r)
  /\ Return(r)
  /\ UNCHANGED <<tokens, lapsed>>

\* The upgrade does not complete, or either side of the pipe ends.
WsClosed(r) ==
  /\ At(r, "piping")
  /\ Drop(r)
  /\ Return(r)
  /\ UNCHANGED <<tokens, lapsed>>

\* The process dies: the table stays, the counts do not.
Crash ==
  /\ req' = [r \in Request |-> Idle]
  /\ sessions' = [j \in Jti |-> 0]
  /\ UNCHANGED <<tokens, lapsed>>

Next ==
  \/ \E j \in Jti, t \in TenantId : Issue(j, t)
  \/ \E j \in Jti : Lapse(j)
  \/ \E r \in Request, j \in Jti : IsValid(r, j) \/ DeviceRevoke(r, j)
  \/ \E r \in Request :
       RouteFor(r) \/ Answer(r) \/ WsEnter(r) \/ WsAccepted(r) \/ WsRefused(r) \/ WsClosed(r)
  \/ \E ctx \in TenantId \cup {Operator}, j \in Jti : AdminRevoke(ctx, j)
  \/ Crash

Spec == Init /\ [][Next]_vars

-----------------------------------------------------------------------------
(* What admin/pair/tokens shows as connected is exact: the count of a      *)
(* token is the number of its sockets between dialling and the end of      *)
(* their pipe, whatever order they end in (WsPresenceGuard).               *)
PresenceExact ==
  \A j \in Jti :
    sessions[j] = Cardinality({r \in Request : req[r].pc \in Holding /\ req[r].jti = j})

(* From the moment a token is revoked no request of it is let through, not *)
(* even one that was found valid just before: only those that are already  *)
(* past auth_middleware go on (the second look at revoked in route_for).   *)
AdmittedWith(j) == {r \in Request : req[r].pc \in Admitted /\ req[r].jti = j}
RevokedAdmitsNobody ==
  [][\A j \in Jti :
       tokens[j].status = "revoked" => AdmittedWith(j)' \subseteq AdmittedWith(j)]_vars

(* A token is revoked by the operator, by its own tenant's key or by a     *)
(* device of the same tenant, and by nobody else (revoke_in_tenant, and    *)
(* the tenant route_for gave the revoking request).                        *)
RevokeFence ==
  \A j \in Jti : tokens[j].status = "revoked" =>
    \/ tokens[j].by \in {Operator, tokens[j].tenant}
    \/ tokens[j].by \in Jti /\ tokens[tokens[j].by].tenant = tokens[j].tenant

-----------------------------------------------------------------------------
(* DeviceGate implements Gate: a request found valid is not inside yet,    *)
(* route_for lets it in.                                                   *)

AbsRows == [j \in Jti |-> [status |-> tokens[j].status, tenant |-> tokens[j].tenant]]
AbsInside == [r \in Request |-> IF req[r].pc \in Admitted THEN req[r].jti ELSE Null]
AbsSockets == {r \in Request : req[r].pc \in Holding}
AbsOnline == {j \in Jti : sessions[j] # 0}
A == INSTANCE Gate WITH rows <- AbsRows, inside <- AbsInside,
                        sockets <- AbsSockets, online <- AbsOnline

(* The two looks at a token, with revocations, crashes and sockets of the  *)
(* same token coming and going between them, are as good as one, and the   *)
(* list of connected devices is true after every step (auth_middleware,    *)
(* revoke_in_tenant, WsPresenceGuard).                                     *)
GateSpec == A!Spec
=============================================================================
