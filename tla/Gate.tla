-------------------------------- MODULE Gate --------------------------------
(***************************************************************************)
(* What a device token promises, without expiry, database calls or         *)
(* counters: a live token lets requests in, one step each; once revoked it *)
(* lets nobody in, and it is revoked from its own tenant or by the         *)
(* operator; and the list of connected tokens shows those that have a      *)
(* socket.  DeviceGate implements it (GateSpec); Pairing, the other writer *)
(* of the table, only makes the step Issue (IssueSpec).                    *)
(***************************************************************************)
CONSTANTS Request, Jti, TenantId, Default, Operator, Null

VARIABLES
  rows,      \* Jti -> its status and tenant
  inside,    \* Request -> the token of a request that was let in, or Null
  sockets,   \* the requests that have become sockets
  online     \* the tokens shown as connected

Init ==
  /\ rows = [j \in Jti |-> [status |-> "none", tenant |-> Null]]
  /\ inside = [r \in Request |-> Null]
  /\ sockets = {} /\ online = {}

Issue(j, t) ==
  /\ rows[j].status = "none"
  /\ rows' = [rows EXCEPT ![j] = [status |-> "live", tenant |-> t]]
  /\ UNCHANGED <<inside, sockets>>

Admit(r, j) ==
  /\ inside[r] = Null /\ rows[j].status = "live"
  /\ inside' = [inside EXCEPT ![r] = j]
  /\ UNCHANGED <<rows, sockets>>

Connect(r) ==
  /\ inside[r] # Null /\ r \notin sockets
  /\ sockets' = sockets \cup {r}
  /\ UNCHANGED <<rows, inside>>

Leave(r) ==
  /\ inside[r] # Null
  /\ inside' = [inside EXCEPT ![r] = Null] /\ sockets' = sockets \ {r}
  /\ UNCHANGED rows

Revoke(j) ==
  /\ rows[j].status = "live"
  /\ rows' = [rows EXCEPT ![j].status = "revoked"]

\* A device takes back a token of its own tenant, whether its own is good or
\* not by now, and has its answer.
RevokeInside(r, j) ==
  /\ inside[r] # Null /\ r \notin sockets
  /\ rows[inside[r]].tenant = rows[j].tenant
  /\ Revoke(j)
  /\ inside' = [inside EXCEPT ![r] = Null]
  /\ UNCHANGED sockets

RevokeOutside(ctx, j) ==
  /\ ctx = Operator \/ (ctx # Default /\ ctx = rows[j].tenant)
  /\ Revoke(j)
  /\ UNCHANGED <<inside, sockets>>

Restart ==
  /\ inside' = [r \in Request |-> Null] /\ sockets' = {}
  /\ UNCHANGED rows

Step ==
  \/ \E j \in Jti, t \in TenantId : Issue(j, t)
  \/ \E r \in Request, j \in Jti : Admit(r, j) \/ RevokeInside(r, j)
  \/ \E r \in Request : Connect(r) \/ Leave(r)
  \/ \E ctx \in TenantId \cup {Operator}, j \in Jti : RevokeOutside(ctx, j)
  \/ Restart

\* Whatever happens, the list is true afterwards.
Next == Step /\ online' = {inside'[r] : r \in sockets'}

Spec == Init /\ [][Next]_<<rows, inside, sockets, online>>
=============================================================================
