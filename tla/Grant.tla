------------------------------- MODULE Grant -------------------------------
(***************************************************************************)
(* What the pairing face promises, without codes, clocks, databases or     *)
(* requests: a Mac offers a tunnel port on behalf of a tenant; an offer is *)
(* taken at most once, in one step, or lapses; and a token is what a taken *)
(* offer turns into, at most once, bound to that offer's port and tenant.  *)
(* Pairing implements it (GrantSpec, GrantProofs).                         *)
(***************************************************************************)
CONSTANTS ClaimId, Jti, Port, Owner, Null

VARIABLES
  offers,   \* ClaimId -> an offer
  grants    \* Jti -> what the token is bound to

NoOffer == [status |-> "none", port |-> Null, tenant |-> Null]
NoGrant == [claim |-> Null, port |-> Null, tenant |-> Null]

Init ==
  /\ offers = [c \in ClaimId |-> NoOffer]
  /\ grants = [j \in Jti |-> NoGrant]

Offer(c, q, t) ==
  /\ offers[c] = NoOffer
  /\ offers' = [offers EXCEPT ![c] = [status |-> "offered", port |-> q, tenant |-> t]]
  /\ UNCHANGED grants

\* Any of the open offers run out together.
Lapse(S) ==
  /\ \A c \in S : offers[c].status = "offered"
  /\ offers' = [c \in ClaimId |-> IF c \in S THEN [offers[c] EXCEPT !.status = "expired"]
                                  ELSE offers[c]]
  /\ UNCHANGED grants

Take(c) ==
  /\ offers[c].status = "offered"
  /\ offers' = [offers EXCEPT ![c].status = "consumed"]
  /\ UNCHANGED grants

Issue(j, c) ==
  /\ grants[j] = NoGrant
  /\ offers[c].status = "consumed"
  /\ \A i \in Jti : grants[i].claim # c
  /\ grants' = [grants EXCEPT ![j] = [claim |-> c, port |-> offers[c].port,
                                      tenant |-> offers[c].tenant]]
  /\ UNCHANGED offers

Next ==
  \/ \E c \in ClaimId, q \in Port, t \in Owner : Offer(c, q, t)
  \/ \E S \in SUBSET ClaimId : Lapse(S)
  \/ \E c \in ClaimId : Take(c)
  \/ \E j \in Jti, c \in ClaimId : Issue(j, c)

Spec == Init /\ [][Next]_<<offers, grants>>
=============================================================================
