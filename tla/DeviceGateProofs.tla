------------------------- MODULE DeviceGateProofs -------------------------
(***************************************************************************)
(* Proofs about the device gate, for any finite number of requests and any *)
(* tokens and tenants.  The type invariant says that a request past        *)
(* auth_middleware carries the tenant of its token's row; that is what the *)
(* fence rests on.  The presence count is inductive as it stands.          *)
(***************************************************************************)
EXTENDS DeviceGate, FiniteSetTheorems, TLAPS

USE GateAssumption

LEMMA IdleState == Idle \in RequestState /\ Idle.pc = "idle"
BY DEF RequestState, Idle

LEMMA States ==
  ASSUME GateTypeOK, NEW r \in Request
  PROVE  /\ At(r, "routing") => req[r].jti \in Jti
         /\ req[r].pc \in Admitted => req[r].jti \in Jti /\ req[r].tenant \in TenantId
BY DEF GateTypeOK, RequestState, Idle, At, Admitted, Holding

LEMMA Rows ==
  ASSUME GateTypeOK, NEW j \in Jti
  PROVE  /\ tokens[j].status = "none" => tokens[j] = NoToken
         /\ tokens[j].status # "none" => tokens[j].tenant \in TenantId
         /\ tokens[j].tenant \in TenantId => tokens[j].status # "none"
BY DEF GateTypeOK, TokenRow, NoToken

\* What a step that revokes j does to the table.
LEMMA RevokedRow ==
  ASSUME GateTypeOK, NEW j \in Jti, NEW b \in Jti \cup TenantId \cup {Operator},
         tokens[j].status = "live"
  PROVE  /\ Revoked(j, b) \in [Jti -> TokenRow]
         /\ \A i \in Jti : Revoked(j, b)[i].tenant = tokens[i].tenant
         /\ \A i \in Jti \ {j} : Revoked(j, b)[i] = tokens[i]
         /\ Revoked(j, b)[j].by = b
<1>1. tokens[j] \in [status : {"live", "revoked"}, tenant : TenantId,
                     by : Jti \cup TenantId \cup {Operator, Null}]
  BY DEF GateTypeOK, TokenRow, NoToken
<1>2. [tokens[j] EXCEPT !.status = "revoked", !.by = b] \in TokenRow
  BY <1>1 DEF TokenRow
<1> QED
  BY <1>1, <1>2 DEF Revoked, GateTypeOK

-----------------------------------------------------------------------------
(* Types. *)

LEMMA GateTypesInit == Init => GateTypeOK
BY IdleState DEF Init, GateTypeOK, TokenRow, Idle, Admitted, Holding

LEMMA GateTypesNext == GateTypeOK /\ [Next]_vars => GateTypeOK'
<1> SUFFICES ASSUME GateTypeOK, [Next]_vars PROVE GateTypeOK'
  OBVIOUS
<1> USE DEF At, Proceed, Return
<1>1. ASSUME NEW j \in Jti, NEW t \in TenantId, Issue(j, t) PROVE GateTypeOK'
  <2>1. [status |-> "live", tenant |-> t, by |-> Null] \in TokenRow
    BY DEF TokenRow
  <2>2. ASSUME NEW r \in Request, req[r].pc \in Admitted PROVE req[r].jti # j
    BY <1>1, <2>2, States, Rows DEF Issue, GateTypeOK
  <2> QED
    BY <1>1, <2>1, <2>2, States DEF Issue, GateTypeOK
<1>2. ASSUME NEW j \in Jti, Lapse(j) PROVE GateTypeOK'
  BY <1>2 DEF Lapse, GateTypeOK
<1>3. ASSUME NEW r \in Request, NEW j \in Jti, IsValid(r, j) PROVE GateTypeOK'
  <2>1. [pc |-> "routing", jti |-> j, tenant |-> Null] \in RequestState
    BY DEF RequestState
  <2> QED
    BY <1>3, <2>1 DEF IsValid, GateTypeOK, Admitted, Holding
<1>4. ASSUME NEW r \in Request, RouteFor(r) PROVE GateTypeOK'
  <2>1. req[r].jti \in Jti
    BY <1>4, States DEF RouteFor
  <2>2. ASSUME Routable(req[r].jti)
        PROVE  [pc |-> "running", jti |-> req[r].jti, tenant |-> RouteTenant(req[r].jti)]
                 \in RequestState
    BY <2>1, <2>2, Rows DEF Routable, RouteTenant, RequestState, Admitted
  <2>3. CASE ~Return(r)
    BY <1>4, <2>1, <2>2, <2>3 DEF RouteFor, RouteTenant, GateTypeOK
  <2>4. CASE Return(r)
    BY <1>4, <2>4, IdleState DEF RouteFor, GateTypeOK, Admitted, Holding
  <2> QED
    BY <2>3, <2>4
<1>5. ASSUME NEW r \in Request, NEW j \in Jti, DeviceRevoke(r, j) PROVE GateTypeOK'
  <2>1. req[r].jti \in Jti
    BY <1>5, States DEF DeviceRevoke, Admitted
  <2>2. tokens' \in [Jti -> TokenRow] /\ \A i \in Jti : tokens'[i].tenant = tokens[i].tenant
    BY <1>5, <2>1, RevokedRow DEF DeviceRevoke, InFence, GateTypeOK
  <2> QED
    BY <1>5, <2>2, IdleState, States DEF DeviceRevoke, GateTypeOK, Admitted, Holding
<1>6. ASSUME NEW ctx \in TenantId \cup {Operator}, NEW j \in Jti, AdminRevoke(ctx, j)
      PROVE  GateTypeOK'
  <2>1. tokens' \in [Jti -> TokenRow] /\ \A i \in Jti : tokens'[i].tenant = tokens[i].tenant
    BY <1>6, RevokedRow DEF AdminRevoke, InFence, GateTypeOK
  <2> QED
    BY <1>6, <2>1, States DEF AdminRevoke, GateTypeOK
<1>7. ASSUME NEW r \in Request, Answer(r) PROVE GateTypeOK'
  BY <1>7, IdleState DEF Answer, GateTypeOK, Admitted, Holding
<1>8. ASSUME NEW r \in Request, WsEnter(r) \/ WsAccepted(r) PROVE GateTypeOK'
  <2>1. req[r].pc \in Admitted
    BY <1>8 DEF WsEnter, WsAccepted, Admitted, Holding
  <2>2. ASSUME NEW pc \in Holding
        PROVE  /\ [req[r] EXCEPT !.pc = pc] \in RequestState
               /\ [req[r] EXCEPT !.pc = pc].jti = req[r].jti
               /\ [req[r] EXCEPT !.pc = pc].tenant = req[r].tenant
    BY <2>1 DEF GateTypeOK, RequestState, Idle, Admitted, Holding
  <2>3. PICK pc \in Holding : req' = [req EXCEPT ![r] = [req[r] EXCEPT !.pc = pc]]
    BY <1>8 DEF WsEnter, WsAccepted, Holding
  <2>4. sessions' \in [Jti -> Nat]
    BY <1>8 DEF WsEnter, WsAccepted, Enter, GateTypeOK
  <2>5. UNCHANGED <<tokens, lapsed>>
    BY <1>8 DEF WsEnter, WsAccepted
  <2> QED
    BY <2>1, <2>2, <2>3, <2>4, <2>5 DEF GateTypeOK
<1>9. ASSUME NEW r \in Request, WsRefused(r) \/ WsClosed(r) PROVE GateTypeOK'
  <2>1. sessions' \in [Jti -> Nat]
    BY <1>9 DEF WsRefused, WsClosed, Drop, Dropped, GateTypeOK
  <2> QED
    BY <1>9, <2>1, IdleState DEF WsRefused, WsClosed, GateTypeOK, Admitted, Holding
<1>10. CASE Crash
  BY <1>10, IdleState DEF Crash, GateTypeOK, Admitted, Holding
<1>11. CASE UNCHANGED vars
  BY <1>11 DEF vars, GateTypeOK
<1> QED
  BY <1>1, <1>2, <1>3, <1>4, <1>5, <1>6, <1>7, <1>8, <1>9, <1>10, <1>11 DEF Next

(* Rows and requests are well formed, and a request past auth_middleware   *)
(* carries the tenant of its token's row, which no call ever changes.      *)
THEOREM GateTypeCorrect == Spec => []GateTypeOK
BY GateTypesInit, GateTypesNext, PTL DEF Spec

-----------------------------------------------------------------------------
(* Revocation. *)

(* No request of a revoked token is let through (auth_middleware): the     *)
(* only step past it asks for revoked = 0 in the same query as the route.  *)
THEOREM RevokedStaysOut == Spec => RevokedAdmitsNobody
<1> DEFINE Step == \A j \in Jti :
      tokens[j].status = "revoked" => AdmittedWith(j)' \subseteq AdmittedWith(j)
<1>1. GateTypeOK /\ [Next]_vars => [Step]_vars
  <2> SUFFICES ASSUME GateTypeOK, Next, NEW j \in Jti, tokens[j].status = "revoked",
                      NEW x \in AdmittedWith(j)'
               PROVE  x \in AdmittedWith(j)
    BY DEF vars
  <2> USE DEF At, Proceed, Return, AdmittedWith, GateTypeOK, Admitted, Holding, Idle
  <2>1. CASE \E r \in Request : RouteFor(r)
    BY <2>1 DEF RouteFor, Routable
  <2>2. CASE \E r \in Request : WsEnter(r) \/ WsAccepted(r)
    BY <2>2 DEF WsEnter, WsAccepted, RequestState
  <2>3. CASE \E r \in Request : \/ Answer(r) \/ WsRefused(r) \/ WsClosed(r)
                                \/ \E i \in Jti : IsValid(r, i) \/ DeviceRevoke(r, i)
    BY <2>3 DEF Answer, WsRefused, WsClosed, IsValid, DeviceRevoke
  <2>4. CASE \/ \E i \in Jti, t \in TenantId : Issue(i, t)
             \/ \E i \in Jti : Lapse(i)
             \/ \E ctx \in TenantId \cup {Operator}, i \in Jti : AdminRevoke(ctx, i)
    BY <2>4 DEF Issue, Lapse, AdminRevoke
  <2>5. CASE Crash
    BY <2>5 DEF Crash
  <2> QED
    BY <2>1, <2>2, <2>3, <2>4, <2>5 DEF Next
<1> QED
  BY <1>1, GateTypeCorrect, PTL DEF RevokedAdmitsNobody, Spec

-----------------------------------------------------------------------------
(* The tenant fence. *)

LEMMA FenceInit == Init => RevokeFence
BY DEF Init, RevokeFence, NoToken

LEMMA FenceNext == GateTypeOK /\ RevokeFence /\ [Next]_vars => RevokeFence'
<1> SUFFICES ASSUME GateTypeOK, RevokeFence, [Next]_vars PROVE RevokeFence'
  OBVIOUS
<1>1. ASSUME NEW i \in Jti, NEW t \in TenantId, Issue(i, t) PROVE RevokeFence'
  <2>1. ASSUME NEW j \in Jti, tokens'[j].status = "revoked"
        PROVE  j # i /\ tokens[j].status = "revoked" /\ tokens[j].tenant \in TenantId
    BY <1>1, <2>1, Rows DEF Issue, GateTypeOK
  <2>2. ASSUME NEW j \in Jti, tokens[j].tenant \in TenantId PROVE j # i
    BY <1>1, <2>2, Rows DEF Issue
  <2> QED
    BY <1>1, <2>1, <2>2 DEF Issue, RevokeFence, GateTypeOK
<1>2. ASSUME NEW i \in Jti, NEW b \in Jti \cup TenantId \cup {Operator},
             tokens[i].status = "live", tokens' = Revoked(i, b),
             \/ b \in {Operator, tokens[i].tenant}
             \/ b \in Jti /\ tokens[b].tenant = tokens[i].tenant
      PROVE  RevokeFence'
  <2>1. /\ \A j \in Jti : tokens'[j].tenant = tokens[j].tenant
        /\ \A j \in Jti \ {i} : tokens'[j] = tokens[j]
        /\ tokens'[i].by = b
    BY <1>2, RevokedRow
  <2> QED
    BY <1>2, <2>1 DEF RevokeFence
<1>3. ASSUME NEW r \in Request, NEW i \in Jti, DeviceRevoke(r, i) PROVE RevokeFence'
  <2>1. CASE InFence(i, req[r].tenant)
    <3>1. req[r].jti \in Jti /\ req[r].tenant = tokens[req[r].jti].tenant
      BY <1>3, States DEF DeviceRevoke, At, Admitted, GateTypeOK
    <3> QED
      BY <1>2, <1>3, <2>1, <3>1 DEF DeviceRevoke, InFence
  <2>2. CASE ~InFence(i, req[r].tenant)
    BY <1>3, <2>2 DEF DeviceRevoke, RevokeFence
  <2> QED
    BY <2>1, <2>2
<1>4. ASSUME NEW ctx \in TenantId \cup {Operator}, NEW i \in Jti, AdminRevoke(ctx, i)
      PROVE  RevokeFence'
  BY <1>2, <1>4 DEF AdminRevoke, InFence
<1>5. CASE UNCHANGED tokens
  BY <1>5 DEF RevokeFence
<1> QED
  BY <1>1, <1>3, <1>4, <1>5 DEF Next, Lapse, IsValid, RouteFor, Answer, WsEnter, WsAccepted,
     WsRefused, WsClosed, Crash, vars

(* Whoever revokes a token is the operator, the token's own tenant, or a   *)
(* device of that tenant, even if it has been revoked itself meanwhile     *)
(* (revoke_in_tenant with the tenant route_for returned).                  *)
THEOREM Fence == Spec => []RevokeFence
BY GateTypeCorrect, FenceInit, FenceNext, PTL DEF Spec

-----------------------------------------------------------------------------
(* The presence count. *)

Holders(j) == {r \in Request : req[r].pc \in Holding /\ req[r].jti = j}

LEMMA HoldersFinite ==
  ASSUME NEW j PROVE IsFiniteSet(Holders(j)) /\ Cardinality(Holders(j)) \in Nat
BY FS_Subset, FS_CardinalityType DEF Holders

\* A guard dropped takes one from a count that has it.
LEMMA DropCounts ==
  ASSUME GateTypeOK, PresenceExact, NEW r \in Request, req[r].pc \in Holding,
         sessions' = Dropped(req[r].jti), req' = [req EXCEPT ![r] = Idle]
  PROVE  PresenceExact'
<1> DEFINE k == req[r].jti
<1>1. k \in Jti
  BY States DEF Admitted
<1>2. ASSUME NEW j \in Jti PROVE sessions'[j] = Cardinality(Holders(j)')
  <2>1. CASE j = k
    <3>1. Holders(j)' = Holders(j) \ {r}
      BY <2>1 DEF Holders, Holding, Idle, GateTypeOK
    <3>2. r \in Holders(j) /\ sessions[j] = Cardinality(Holders(j))
      BY <2>1 DEF Holders, PresenceExact
    <3>3. Cardinality(Holders(j)) # 0
      BY <3>2, HoldersFinite, FS_EmptySet
    <3>4. Cardinality(Holders(j) \ {r}) = Cardinality(Holders(j)) - 1
      BY <3>2, HoldersFinite, FS_RemoveElement
    <3>5. sessions'[j] = sessions[j] - 1
      BY <1>1, <2>1, <3>2, <3>3 DEF Dropped, GateTypeOK
    <3> QED
      BY <3>1, <3>2, <3>4, <3>5
  <2>2. CASE j # k
    <3>1. Holders(j)' = Holders(j)
      BY <2>2 DEF Holders, Holding, Idle, GateTypeOK
    <3> QED
      BY <2>2, <3>1 DEF Dropped, PresenceExact, Holders, GateTypeOK
  <2> QED
    BY <2>1, <2>2
<1> QED
  BY <1>2 DEF PresenceExact, Holders

LEMMA PresenceInit == Init => PresenceExact
<1> SUFFICES ASSUME Init, NEW j \in Jti
             PROVE  sessions[j] = Cardinality(Holders(j))
  BY DEF PresenceExact, Holders
<1>1. Holders(j) = {}
  BY DEF Init, Holders, Holding, Idle
<1> QED
  BY <1>1, FS_EmptySet DEF Init

LEMMA PresenceNext == GateTypeOK /\ PresenceExact /\ [Next]_vars => PresenceExact'
<1> SUFFICES ASSUME GateTypeOK, PresenceExact, [Next]_vars PROVE PresenceExact'
  OBVIOUS
<1> USE DEF At, Proceed, Return
<1>0. \A j \in Jti : sessions[j] = Cardinality(Holders(j))
  BY DEF PresenceExact, Holders
<1>1. ASSUME UNCHANGED sessions, \A j \in Jti : Holders(j)' = Holders(j) PROVE PresenceExact'
  BY <1>0, <1>1 DEF PresenceExact, Holders
<1>2. ASSUME NEW r \in Request, WsEnter(r) PROVE PresenceExact'
  <2> DEFINE k == req[r].jti
  <2>1. k \in Jti
    BY <1>2, States DEF WsEnter, Admitted
  <2>2. req'[r].pc = "dialing" /\ req'[r].jti = k /\ \A x \in Request \ {r} : req'[x] = req[x]
    BY <1>2 DEF WsEnter, GateTypeOK, RequestState, Idle
  <2>3. ASSUME NEW j \in Jti PROVE sessions'[j] = Cardinality(Holders(j)')
    <3>1. CASE j = k
      <4>1. Holders(j)' = Holders(j) \cup {r} /\ r \notin Holders(j)
        BY <1>2, <2>2, <3>1 DEF WsEnter, Holders, Holding
      <4>2. Cardinality(Holders(j) \cup {r}) = Cardinality(Holders(j)) + 1
        BY <4>1, HoldersFinite, FS_AddElement
      <4> QED
        BY <1>0, <1>2, <2>1, <3>1, <4>1, <4>2 DEF WsEnter, Enter, GateTypeOK
    <3>2. CASE j # k
      <4>1. Holders(j)' = Holders(j)
        BY <1>2, <2>2, <3>2 DEF WsEnter, Holders, Holding
      <4> QED
        BY <1>0, <1>2, <3>2, <4>1 DEF WsEnter, Enter, GateTypeOK
    <3> QED
      BY <3>1, <3>2
  <2> QED
    BY <2>3 DEF PresenceExact, Holders
<1>3. ASSUME NEW r \in Request, WsRefused(r) \/ WsClosed(r) PROVE PresenceExact'
  BY <1>3, DropCounts DEF WsRefused, WsClosed, Drop, Holding
<1>4. ASSUME NEW r \in Request, WsAccepted(r) PROVE PresenceExact'
  <2>1. \A j \in Jti : Holders(j)' = Holders(j)
    BY <1>4 DEF WsAccepted, Holders, Holding, GateTypeOK, RequestState, Idle
  <2> QED
    BY <1>1, <1>4, <2>1 DEF WsAccepted
<1>5. ASSUME NEW r \in Request, \/ RouteFor(r) \/ Answer(r)
                                \/ \E j \in Jti : IsValid(r, j) \/ DeviceRevoke(r, j)
      PROVE  PresenceExact'
  <2>1. \A j \in Jti : Holders(j)' = Holders(j)
    BY <1>5 DEF RouteFor, Answer, IsValid, DeviceRevoke, Holders, Holding, Idle, GateTypeOK
  <2> QED
    BY <1>1, <1>5, <2>1 DEF RouteFor, Answer, IsValid, DeviceRevoke
<1>6. CASE Crash
  <2>1. \A j \in Jti : Holders(j)' = {}
    BY <1>6 DEF Crash, Holders, Holding, Idle
  <2> QED
    BY <1>6, <2>1, FS_EmptySet DEF Crash, PresenceExact, Holders
<1>7. CASE UNCHANGED <<req, sessions>>
  BY <1>0, <1>1, <1>7 DEF Holders
<1> QED
  BY <1>2, <1>3, <1>4, <1>5, <1>6, <1>7 DEF Next, Issue, Lapse, AdminRevoke, vars

(* The count of a token is the number of its sockets: every guard made is  *)
(* dropped exactly once, on whichever path the socket ends, and a dropped  *)
(* one never takes the entry of another socket with it.                    *)
THEOREM Presence == Spec => []PresenceExact
BY GateTypeCorrect, PresenceInit, PresenceNext, PTL DEF Spec

-----------------------------------------------------------------------------
(* DeviceGate implements Gate. *)

AbsVars == <<AbsRows, AbsInside, AbsSockets, AbsOnline>>

\* The list of connected tokens is what the counts say it is.
OnlineTrue == AbsOnline = {AbsInside[r] : r \in AbsSockets}

LEMMA InitMaps == Init => A!Init
<1> SUFFICES ASSUME Init PROVE A!Init
  OBVIOUS
<1>1. AbsRows = [j \in Jti |-> [status |-> "none", tenant |-> Null]]
  BY DEF Init, AbsRows, NoToken
<1>2. AbsInside = [r \in Request |-> Null] /\ AbsSockets = {}
  BY DEF Init, AbsInside, AbsSockets, Idle, Admitted, Holding
<1>3. AbsOnline = {}
  BY DEF Init, AbsOnline
<1> QED
  BY <1>1, <1>2, <1>3 DEF A!Init

LEMMA CountsAreTrue == GateTypeOK /\ PresenceExact => OnlineTrue
<1> SUFFICES ASSUME GateTypeOK, PresenceExact PROVE OnlineTrue
  OBVIOUS
<1>1. ASSUME NEW j \in Jti PROVE sessions[j] # 0 <=> Holders(j) # {}
  BY HoldersFinite, FS_EmptySet DEF PresenceExact, Holders
<1>2. ASSUME NEW r \in AbsSockets PROVE AbsInside[r] = req[r].jti /\ req[r].jti \in Jti
  BY States DEF AbsSockets, AbsInside, Admitted
<1> QED
  BY <1>1, <1>2 DEF OnlineTrue, AbsOnline, AbsSockets, Holders

\* A step that changes the state of one request, seen from outside.
LEMMA OneRequest ==
  ASSUME GateTypeOK, NEW r \in Request, NEW s, Proceed(r, s)
  PROVE  /\ AbsInside' = [AbsInside EXCEPT ![r] = IF s.pc \in Admitted THEN s.jti ELSE Null]
         /\ AbsSockets' = IF s.pc \in Holding THEN AbsSockets \cup {r} ELSE AbsSockets \ {r}
BY DEF GateTypeOK, Proceed, AbsInside, AbsSockets

\* A revocation, seen from outside.
LEMMA RevokeMaps ==
  ASSUME GateTypeOK, NEW j \in Jti, NEW b \in Jti \cup TenantId \cup {Operator},
         tokens[j].status = "live", tokens' = Revoked(j, b)
  PROVE  A!Revoke(j)
<1>0. tokens[j] \in [status : {"live", "revoked"}, tenant : TenantId,
                     by : Jti \cup TenantId \cup {Operator, Null}]
  BY DEF GateTypeOK, TokenRow, NoToken
<1>1. tokens'[j].status = "revoked"
  BY <1>0 DEF Revoked, GateTypeOK
<1>2. /\ \A i \in Jti : tokens'[i].tenant = tokens[i].tenant
      /\ \A i \in Jti \ {j} : tokens'[i] = tokens[i]
  BY RevokedRow
<1>3. AbsRows' = [AbsRows EXCEPT ![j].status = "revoked"]
  BY <1>1, <1>2 DEF AbsRows
<1> QED
  BY <1>3 DEF A!Revoke, AbsRows

LEMMA StepMaps ==
  GateTypeOK /\ OnlineTrue' /\ [Next]_vars => [A!Next]_AbsVars
<1> SUFFICES ASSUME GateTypeOK, OnlineTrue', Next PROVE A!Step \/ UNCHANGED AbsVars
  BY DEF A!Next, OnlineTrue, AbsVars, vars, AbsRows, AbsInside, AbsSockets, AbsOnline
<1> USE DEF At, Return
<1>u. UNCHANGED <<tokens, sessions>> => UNCHANGED <<AbsRows, AbsOnline>>
  BY DEF AbsRows, AbsOnline
<1>i. ASSUME NEW r \in Request
      PROVE  /\ req[r].pc \in Admitted => AbsInside[r] = req[r].jti /\ req[r].jti \in Jti
             /\ req[r].pc \notin Admitted => AbsInside[r] = Null
             /\ r \in AbsSockets <=> req[r].pc \in Holding
             /\ AbsInside \in [Request -> Jti \cup {Null}]
             /\ AbsSockets \subseteq Request
  BY States DEF AbsInside, AbsSockets
<1>1. ASSUME NEW j \in Jti, NEW t \in TenantId, Issue(j, t) PROVE A!Step
  <2>1. AbsRows' = [AbsRows EXCEPT ![j] = [status |-> "live", tenant |-> t]]
    BY <1>1 DEF Issue, AbsRows, GateTypeOK
  <2>2. A!Issue(j, t)
    BY <1>1, <2>1 DEF Issue, A!Issue, AbsRows, AbsInside, AbsSockets
  <2> QED
    BY <2>2 DEF A!Step
<1>2. ASSUME NEW r \in Request, NEW j \in Jti, IsValid(r, j) PROVE UNCHANGED AbsVars
  <2> DEFINE s == [pc |-> "routing", jti |-> j, tenant |-> Null]
  <2>1. s.pc \notin Admitted /\ s.pc \notin Holding /\ Proceed(r, s)
    BY <1>2 DEF IsValid, Admitted, Holding
  <2>2. AbsInside[r] = Null /\ r \notin AbsSockets
    BY <1>2, <1>i DEF IsValid, Admitted, Holding
  <2> HIDE DEF s
  <2>3. UNCHANGED <<AbsInside, AbsSockets>>
    BY <1>i, <2>1, <2>2, OneRequest
  <2> QED
    BY <1>2, <1>u, <2>3 DEF IsValid, AbsVars
<1>3. ASSUME NEW r \in Request, RouteFor(r) PROVE A!Step \/ UNCHANGED AbsVars
  <2> DEFINE j == req[r].jti
             s == [pc |-> "running", jti |-> j, tenant |-> RouteTenant(j)]
  <2>1. j \in Jti /\ AbsInside[r] = Null /\ r \notin AbsSockets
    BY <1>3, <1>i, States DEF RouteFor, Admitted, Holding
  <2>2. UNCHANGED <<AbsRows, AbsOnline>>
    BY <1>3, <1>u DEF RouteFor
  <2>3. CASE Routable(j) /\ Proceed(r, s)
    <3>1. Proceed(r, s) /\ s.pc \in Admitted /\ s.pc \notin Holding /\ s.jti = j
      BY <2>3 DEF Admitted, Holding
    <3>2. AbsRows[j].status = "live"
      BY <2>1, <2>3 DEF Routable, AbsRows
    <3> HIDE DEF s, j
    <3>3. AbsInside' = [AbsInside EXCEPT ![r] = j] /\ UNCHANGED AbsSockets
      BY <1>i, <2>1, <3>1, OneRequest
    <3>4. A!Admit(r, j)
      BY <2>1, <2>2, <3>2, <3>3 DEF A!Admit
    <3> QED
      BY <2>1, <3>4 DEF A!Step
  <2>4. CASE Return(r)
    <3>1. Proceed(r, Idle) /\ Idle.pc \notin Admitted /\ Idle.pc \notin Holding
      BY <2>4 DEF Return, Admitted, Holding, Idle
    <3>2. UNCHANGED <<AbsInside, AbsSockets>>
      BY <1>i, <2>1, <3>1, OneRequest
    <3> QED
      BY <2>2, <3>2 DEF AbsVars
  <2> QED
    BY <1>3, <2>3, <2>4 DEF RouteFor
\* Whoever is done leaves.
<1>4. ASSUME NEW r \in Request, req[r].pc \in Admitted, Proceed(r, Idle), UNCHANGED tokens
      PROVE  A!Step
  <2>1. Idle.pc \notin Admitted /\ Idle.pc \notin Holding
    BY DEF Idle, Admitted, Holding
  <2>2. AbsInside' = [AbsInside EXCEPT ![r] = Null] /\ AbsSockets' = AbsSockets \ {r}
    BY <1>4, <2>1, OneRequest
  <2>3. A!Leave(r)
    BY <1>4, <1>i, <2>2 DEF A!Leave, AbsRows
  <2> QED
    BY <2>3 DEF A!Step
<1>5. ASSUME NEW r \in Request, Answer(r) \/ WsRefused(r) \/ WsClosed(r) PROVE A!Step
  BY <1>4, <1>5 DEF Answer, WsRefused, WsClosed, Admitted, Holding
<1>6. ASSUME NEW r \in Request, NEW j \in Jti, DeviceRevoke(r, j) PROVE A!Step
  <2>1. CASE ~InFence(j, req[r].tenant)
    BY <1>4, <1>6, <2>1 DEF DeviceRevoke, Admitted
  <2>2. CASE InFence(j, req[r].tenant)
    <3>1. /\ req[r].jti \in Jti /\ req[r].tenant = tokens[req[r].jti].tenant
          /\ AbsInside[r] = req[r].jti /\ r \notin AbsSockets
      BY <1>6, <1>i DEF DeviceRevoke, Admitted, Holding, GateTypeOK
    <3>2. A!Revoke(j)
      BY <1>6, <2>2, <3>1, RevokeMaps DEF DeviceRevoke, InFence
    <3>3. Idle.pc \notin Admitted /\ Idle.pc \notin Holding
      BY DEF Idle, Admitted, Holding
    <3>4. AbsInside' = [AbsInside EXCEPT ![r] = Null] /\ UNCHANGED AbsSockets
      BY <1>6, <1>i, <3>1, <3>3, OneRequest DEF DeviceRevoke
    <3>5. AbsRows[AbsInside[r]].tenant = AbsRows[j].tenant
      BY <2>2, <3>1 DEF InFence, AbsRows
    <3>6. A!RevokeInside(r, j)
      BY <3>1, <3>2, <3>4, <3>5 DEF A!RevokeInside
    <3> QED
      BY <3>6 DEF A!Step
  <2> QED
    BY <2>1, <2>2
<1>7. ASSUME NEW ctx \in TenantId \cup {Operator}, NEW j \in Jti, AdminRevoke(ctx, j)
      PROVE  A!Step
  <2>1. tokens[j].status = "live" /\ A!Revoke(j)
    BY <1>7, RevokeMaps DEF AdminRevoke, InFence
  <2>2. ctx = Operator \/ (ctx # Default /\ ctx = AbsRows[j].tenant)
    BY <1>7 DEF AdminRevoke, InFence, AbsRows
  <2>3. A!RevokeOutside(ctx, j)
    BY <1>7, <2>1, <2>2 DEF A!RevokeOutside, AdminRevoke, AbsInside, AbsSockets
  <2> QED
    BY <2>3 DEF A!Step
<1>8. ASSUME NEW r \in Request, WsEnter(r) PROVE A!Step
  <2> DEFINE s == [req[r] EXCEPT !.pc = "dialing"]
  <2>1. Proceed(r, s) /\ s.pc \in Admitted /\ s.pc \in Holding /\ s.jti = req[r].jti
    BY <1>8 DEF WsEnter, Admitted, Holding, GateTypeOK, RequestState, Idle
  <2>2. AbsInside[r] = req[r].jti /\ req[r].jti \in Jti /\ r \notin AbsSockets
    BY <1>8, <1>i DEF WsEnter, Admitted, Holding
  <2> HIDE DEF s
  <2>3. UNCHANGED AbsInside /\ AbsSockets' = AbsSockets \cup {r}
    BY <1>i, <2>1, <2>2, OneRequest
  <2>4. A!Connect(r)
    BY <1>8, <2>2, <2>3 DEF A!Connect, WsEnter, AbsRows
  <2> QED
    BY <2>4 DEF A!Step
<1>9. ASSUME NEW r \in Request, WsAccepted(r) PROVE UNCHANGED AbsVars
  <2> DEFINE s == [req[r] EXCEPT !.pc = "piping"]
  <2>1. Proceed(r, s) /\ s.pc \in Admitted /\ s.pc \in Holding /\ s.jti = req[r].jti
    BY <1>9 DEF WsAccepted, Admitted, Holding, GateTypeOK, RequestState, Idle
  <2>2. AbsInside[r] = req[r].jti /\ r \in AbsSockets
    BY <1>9, <1>i DEF WsAccepted, Admitted, Holding
  <2> HIDE DEF s
  <2>3. UNCHANGED <<AbsInside, AbsSockets>>
    BY <1>i, <2>1, <2>2, OneRequest
  <2> QED
    BY <1>9, <1>u, <2>3 DEF WsAccepted, AbsVars
<1>10. ASSUME NEW j \in Jti, Lapse(j) PROVE UNCHANGED AbsVars
  BY <1>10, <1>u DEF Lapse, AbsVars, AbsInside, AbsSockets
<1>11. CASE Crash
  <2>1. AbsInside' = [r \in Request |-> Null] /\ AbsSockets' = {}
    BY <1>11 DEF Crash, AbsInside, AbsSockets, Idle, Admitted, Holding
  <2>2. A!Restart
    BY <1>11, <2>1 DEF A!Restart, Crash, AbsRows
  <2> QED
    BY <2>2 DEF A!Step
<1> QED
  BY <1>1, <1>2, <1>3, <1>5, <1>6, <1>7, <1>8, <1>9, <1>10, <1>11 DEF Next

(* To anyone who sees the table, the requests that run and the list of     *)
(* connected devices, the two looks of auth_middleware at a token are one, *)
(* a revocation takes effect in one step, and the list is never wrong.     *)
THEOREM GateImplements == Spec => GateSpec
<1>1. Spec => [](GateTypeOK /\ PresenceExact)
  BY GateTypeCorrect, Presence, PTL
<1>2. [](GateTypeOK /\ PresenceExact) => []OnlineTrue
  BY CountsAreTrue, PTL
<1> QED
  BY <1>1, <1>2, InitMaps, StepMaps, PTL DEF Spec, GateSpec, A!Spec, AbsVars
=============================================================================
