---------------------------- MODULE GrantProofs ----------------------------
(***************************************************************************)
(* Pairing implements Grant: every step of the pairing face is a step of   *)
(* the abstract specification or leaves offers and grants as they are.     *)
(* And of Gate, whose table of tokens it shares, it only makes Issue.      *)
(***************************************************************************)
EXTENDS PairingProofs

LEMMA InitMaps == Init => G!Init
  BY DEF Init, G!Init, AbsOffers, AbsGrants, NoClaim, NoToken, G!NoOffer, G!NoGrant

LEMMA StoredClaim ==
  ASSUME TypeOK, NEW c \in ClaimId
  PROVE  /\ claims[c].status = "none" => claims[c] = NoClaim
         /\ claims[c].status # "none" =>
              claims[c] \in [status : {"offered", "expired", "consumed"}, code : Code,
                hostCode : HostCode, port : Port, tenant : Owner, expires : Nat, by : Ctx,
                takenBy : PairingId \cup {Null}]
  BY DEF TypeOK, ClaimRow, NoClaim

\* A sweep lets the offers that ran out lapse.
LEMMA SweepMaps ==
  ASSUME TypeOK, Sweep, UNCHANGED tokens
  PROVE  [G!Next]_<<AbsOffers, AbsGrants>>
<1>1. CASE UNCHANGED claims
  BY <1>1 DEF AbsOffers, AbsGrants
<1>2. CASE claims' = SweptClaims
  <2> DEFINE S == {c \in ClaimId : claims[c].status = "offered" /\ Expired(claims[c])}
  <2>1. \A c \in ClaimId :
          /\ c \in S => claims'[c].status = "expired"
          /\ c \notin S => claims'[c].status = claims[c].status
          /\ claims'[c].port = claims[c].port /\ claims'[c].tenant = claims[c].tenant
    BY <1>2 DEF SweptClaims, TypeOK, ClaimRow, NoClaim
  <2>2. S \in SUBSET ClaimId /\ \A c \in S : claims[c].status = "offered"
    OBVIOUS
  <2> HIDE DEF S
  <2>3. AbsOffers' = [c \in ClaimId |->
          IF c \in S THEN [AbsOffers[c] EXCEPT !.status = "expired"] ELSE AbsOffers[c]]
    BY <2>1 DEF AbsOffers
  <2>4. (\A c \in S : AbsOffers[c].status = "offered") /\ UNCHANGED AbsGrants
    BY <2>2 DEF AbsOffers, AbsGrants
  <2>5. G!Lapse(S)
    BY <2>3, <2>4 DEF G!Lapse
  <2> QED BY <2>2, <2>5 DEF G!Next
<1> QED BY <1>1, <1>2 DEF Sweep

\* Inserting a claim is the offer.
LEMMA ClaimInsertMaps ==
  ASSUME TypeOK, NEW w \in Worker, NEW h \in HostCode, ClaimInsert(w, h)
  PROVE  [G!Next]_<<AbsOffers, AbsGrants>>
<1>1. CASE UNCHANGED claims
  BY <1>1 DEF ClaimInsert, AbsOffers, AbsGrants
<1>2. CASE ~UNCHANGED claims
  <2> DEFINE q == req[w].port
             t == req[w].tenant
             row == [status |-> "offered", code |-> req[w].code, hostCode |-> h,
                     port |-> q, tenant |-> t, expires |-> now + ClaimTTL,
                     by |-> req[w].ctx, takenBy |-> Null]
  <2>1. PICK c \in ClaimId :
          claims[c].status = "none" /\ claims' = [claims EXCEPT ![c] = row]
    BY <1>2 DEF ClaimInsert
  <2>2. q \in Port /\ t \in Owner
    BY DEF ClaimInsert, At, TypeOK, LocalsOK, Claiming
  <2>3. row.status = "offered" /\ row.port = q /\ row.tenant = t
    OBVIOUS
  <2> HIDE DEF row, q, t
  <2>4. claims'[c] = row /\ \A d \in ClaimId : d # c => claims'[d] = claims[d]
    BY <2>1 DEF TypeOK
  <2>5. AbsOffers[c] = G!NoOffer
    BY <2>1, StoredClaim DEF AbsOffers, NoClaim, G!NoOffer
  <2>6. AbsOffers' = [AbsOffers EXCEPT ![c] =
                        [status |-> "offered", port |-> q, tenant |-> t]]
    BY <2>3, <2>4 DEF AbsOffers
  <2>7. UNCHANGED AbsGrants
    BY DEF ClaimInsert, AbsGrants
  <2> QED BY <2>2, <2>5, <2>6, <2>7 DEF G!Next, G!Offer
<1> QED BY <1>1, <1>2

\* The consume takes the offer.
LEMMA ConsumeMaps ==
  ASSUME TypeOK, NEW w \in Worker, ConfirmConsume(w)
  PROVE  [G!Next]_<<AbsOffers, AbsGrants>>
<1>1. CASE UNCHANGED claims
  BY <1>1 DEF ConfirmConsume, AbsOffers, AbsGrants
<1>2. CASE ~UNCHANGED claims
  <2> DEFINE c == req[w].claim
             row == [claims[c] EXCEPT !.status = "consumed", !.takenBy = req[w].pairing]
  <2>1. claims[c].status = "offered" /\ claims' = [claims EXCEPT ![c] = row]
    BY <1>2 DEF ConfirmConsume, Consumable
  <2>2. c \in ClaimId
    BY DEF ConfirmConsume, At, TypeOK, LocalsOK, Confirming
  <2>3. /\ row.status = "consumed"
        /\ row.port = claims[c].port /\ row.tenant = claims[c].tenant
    BY <2>1, <2>2, StoredClaim
  <2> HIDE DEF row, c
  <2>4. claims'[c] = row /\ \A d \in ClaimId : d # c => claims'[d] = claims[d]
    BY <2>1, <2>2 DEF TypeOK
  <2>5. AbsOffers[c].status = "offered"
    BY <2>1, <2>2 DEF AbsOffers
  <2>6. AbsOffers' = [AbsOffers EXCEPT ![c].status = "consumed"]
    BY <2>2, <2>3, <2>4 DEF AbsOffers
  <2>7. UNCHANGED AbsGrants
    BY DEF ConfirmConsume, AbsGrants
  <2> QED BY <2>2, <2>5, <2>6, <2>7 DEF G!Next, G!Take
<1> QED BY <1>1, <1>2

\* The insert of the token issues it: the claim is spent, has no token, and
\* what the request remembers of it is what the row says.
LEMMA InsertMaps ==
  ASSUME TypeOK, GrantInv, NEW w \in Worker, ConfirmInsert(w)
  PROVE  [G!Next]_<<AbsOffers, AbsGrants>>
<1>1. CASE UNCHANGED tokens
  BY <1>1 DEF ConfirmInsert, AbsOffers, AbsGrants
<1>2. CASE ~UNCHANGED tokens
  <2> DEFINE c == req[w].claim
             j == req[w].jti
             tok == [status |-> "issued", port |-> req[w].port,
                     tenant |-> req[w].tenant, claim |-> c]
  <2>1. tokens' = [tokens EXCEPT ![j] = tok] /\ req[w].pc = "confirm_insert"
    BY <1>2 DEF ConfirmInsert, At
  <2>2. c \in ClaimId /\ j \in Jti
    BY <2>1 DEF TypeOK, LocalsOK, Confirming, Granting, Naming
  <2>3. /\ claims[c].status = "consumed" /\ \A i \in Issued : tokens[i].claim # c
        /\ tokens[j].status = "none"
        /\ req[w].port = claims[c].port /\ req[w].tenant = claims[c].tenant
    BY <2>1 DEF GrantInv, Held, Named, SnapshotTrue, Confirming, Granting, Naming
  <2>13. tok.claim = c /\ tok.port = claims[c].port /\ tok.tenant = claims[c].tenant
    BY <2>3
  <2> HIDE DEF c, j, tok
  <2>4. tokens'[j] = tok /\ \A i \in Jti : i # j => tokens'[i] = tokens[i]
    BY <2>1, <2>2 DEF TypeOK
  <2>5. \A i \in Jti : tokens[i].status = "none" => tokens[i] = NoToken
    BY DEF TypeOK, TokenRow
  <2>6. \A i \in Jti : tokens[i].status \in {"none", "issued"}
    BY DEF TypeOK, TokenRow, NoToken
  <2>7. AbsGrants[j] = G!NoGrant
    BY <2>2, <2>3, <2>5 DEF AbsGrants, NoToken, G!NoGrant
  <2>8. \A i \in Jti : AbsGrants[i].claim # c
    <3>1. c # Null
      BY <2>2, IdsAssumption
    <3>2. \A i \in Jti : tokens[i].claim # c
      BY <2>3, <2>5, <2>6, <3>1 DEF NoToken, Issued
    <3> QED BY <3>2 DEF AbsGrants
  <2>9. AbsOffers[c].status = "consumed"
    BY <2>2, <2>3 DEF AbsOffers
  <2>10. AbsGrants' = [AbsGrants EXCEPT ![j] =
           [claim |-> c, port |-> AbsOffers[c].port, tenant |-> AbsOffers[c].tenant]]
    BY <2>2, <2>4, <2>13 DEF AbsGrants, AbsOffers
  <2>11. UNCHANGED AbsOffers
    BY DEF ConfirmInsert, AbsOffers
  <2>12. G!Issue(j, c)
    BY <2>7, <2>8, <2>9, <2>10, <2>11 DEF G!Issue
  <2> QED BY <2>2, <2>12 DEF G!Next
<1> QED BY <1>1, <1>2

LEMMA StepMaps ==
  TypeOK /\ GrantInv /\ [Next]_vars => [G!Next]_<<AbsOffers, AbsGrants>>
<1> SUFFICES ASSUME TypeOK, GrantInv, [Next]_vars
             PROVE  [G!Next]_<<AbsOffers, AbsGrants>>
  OBVIOUS
<1>1. UNCHANGED <<claims, tokens>> => UNCHANGED <<AbsOffers, AbsGrants>>
  BY DEF AbsOffers, AbsGrants
<1>2. ASSUME NEW w \in Worker, Start(w) \/ Poll(w)
      PROVE  [G!Next]_<<AbsOffers, AbsGrants>>
  <2>1. UNCHANGED <<claims, tokens>> \/ (Sweep /\ UNCHANGED tokens)
    BY <1>2 DEF Start, StartRequest, StartSweep, StartInsert, Poll, PollGet, PollSweep
  <2> QED BY <1>1, <2>1, SweepMaps
<1>3. ASSUME NEW w \in Worker, Confirm(w)
      PROVE  [G!Next]_<<AbsOffers, AbsGrants>>
  <2>1. UNCHANGED <<claims, tokens>> \/ ConfirmConsume(w) \/ ConfirmInsert(w)
    BY <1>3 DEF Confirm, ConfirmGet, ConfirmClaim, ConfirmStatus, ConfirmToken
  <2> QED BY <1>1, <2>1, ConsumeMaps, InsertMaps
<1>4. ASSUME NEW w \in Worker, Claim(w)
      PROVE  [G!Next]_<<AbsOffers, AbsGrants>>
  <2>1. UNCHANGED <<claims, tokens>> \/ \E h \in HostCode : ClaimInsert(w, h)
    BY <1>4 DEF Claim, TenantAuth, OperatorAuth, ClaimPairing, ClaimHost
  <2> QED BY <1>1, <2>1, ClaimInsertMaps
<1>5. CASE Registry \/ Tick \/ Crash \/ UNCHANGED vars
  BY <1>1, <1>5 DEF Registry, TenantCreate, TenantRevoke, HostCreate, HostRemove, Tick,
                    Crash, vars
<1> QED BY <1>2, <1>3, <1>4, <1>5 DEF Next

(* The six database calls of confirm, interleaved and interrupted, are a   *)
(* taking and an issuing to anyone who sees only offers and tokens: every  *)
(* token is the one token of one taken offer and carries its port and      *)
(* tenant (confirm_handler, admin_claim_handler).                          *)
THEOREM Implements == Spec => GrantSpec
<1>1. Spec => [](TypeOK /\ GrantInv)
  BY GrantInvariant
<1> QED BY <1>1, InitMaps, StepMaps, PTL DEF Spec, GrantSpec, G!Spec

-----------------------------------------------------------------------------
(* Of the shared table tokens the pairing face makes the step Issue only.  *)

\* The table as the device gate sees it.
Rows == [j \in Jti |-> [status |-> IF tokens[j].status = "issued" THEN "live" ELSE "none",
                        tenant |-> tokens[j].tenant]]

LEMMA InsertIssues ==
  ASSUME TypeOK, GrantInv, NEW w \in Worker, ConfirmInsert(w)
  PROVE  \/ UNCHANGED tokens
         \/ \E j \in Jti, t \in Owner :
              /\ Rows[j].status = "none"
              /\ Rows' = [Rows EXCEPT ![j] = [status |-> "live", tenant |-> t]]
<1> SUFFICES ASSUME ~UNCHANGED tokens
             PROVE  \E j \in Jti, t \in Owner :
                      /\ Rows[j].status = "none"
                      /\ Rows' = [Rows EXCEPT ![j] = [status |-> "live", tenant |-> t]]
  OBVIOUS
<1> DEFINE j == req[w].jti
           t == req[w].tenant
           tok == [status |-> "issued", port |-> req[w].port, tenant |-> t,
                   claim |-> req[w].claim]
<1>1. req[w].pc = "confirm_insert" /\ tokens' = [tokens EXCEPT ![j] = tok]
  BY DEF ConfirmInsert, At
<1>2. j \in Jti /\ t \in Owner
  BY <1>1 DEF TypeOK, LocalsOK, Confirming, Granting, Naming
<1>3. tokens[j].status = "none"
  BY <1>1 DEF GrantInv, Named, Naming
<1>4. tok.status = "issued" /\ tok.tenant = t
  OBVIOUS
<1> HIDE DEF j, t, tok
<1>5. tokens'[j] = tok /\ \A i \in Jti : i # j => tokens'[i] = tokens[i]
  BY <1>1, <1>2 DEF TypeOK
<1>6. Rows' = [Rows EXCEPT ![j] = [status |-> "live", tenant |-> t]]
  BY <1>2, <1>4, <1>5 DEF Rows
<1>7. Rows[j].status = "none"
  BY <1>2, <1>3 DEF Rows
<1> QED BY <1>2, <1>6, <1>7

LEMMA StepIssues ==
  TypeOK /\ GrantInv /\ [Next]_vars => [Table!Next]_<<Rows, <<>>, {}, {}>>
<1> SUFFICES ASSUME TypeOK, GrantInv, [Next]_vars
             PROVE  [Table!Next]_<<Rows, <<>>, {}, {}>>
  OBVIOUS
<1>1. UNCHANGED tokens => UNCHANGED Rows
  BY DEF Rows
<1>2. \A j \in Jti, t \in Owner :
        /\ Rows[j].status = "none"
        /\ Rows' = [Rows EXCEPT ![j] = [status |-> "live", tenant |-> t]]
        => Table!Issue(j, t)
  BY DEF Table!Issue, Rows
<1>3. ASSUME NEW w \in Worker, ConfirmInsert(w)
      PROVE  [Table!Next]_<<Rows, <<>>, {}, {}>>
  <2>1. CASE UNCHANGED tokens
    BY <1>1, <2>1
  <2>2. CASE \E j \in Jti, t \in Owner : Table!Issue(j, t)
    BY <2>2 DEF Table!Next, Table!Step
  <2> QED BY <1>2, <1>3, <2>1, <2>2, InsertIssues
<1>4. CASE \E w \in Worker : Start(w) \/ Poll(w) \/ Confirm(w) \/ Claim(w)
  <2>1. UNCHANGED tokens \/ \E w \in Worker : ConfirmInsert(w)
    BY <1>4 DEF Start, StartRequest, StartSweep, StartInsert, Poll, PollGet, PollSweep,
                Confirm, ConfirmGet, ConfirmClaim, ConfirmConsume, ConfirmStatus,
                ConfirmToken, Claim, TenantAuth, OperatorAuth, ClaimPairing, ClaimHost,
                ClaimInsert
  <2> QED BY <1>1, <1>3, <2>1
<1>5. CASE Registry \/ Tick \/ Crash \/ UNCHANGED vars
  BY <1>1, <1>5 DEF Registry, TenantCreate, TenantRevoke, HostCreate, HostRemove, Tick,
                    Crash, vars
<1> QED BY <1>4, <1>5 DEF Next

(* All the pairing face ever does to the table of tokens is to issue one   *)
(* that was not there, under the default tenant or an explicit one.  A     *)
(* confirm, however late, thus cannot bring back a token that the gate has *)
(* revoked meanwhile (TokenDb::insert, OfferTenant).                       *)
THEOREM IssuesOnly == Spec => IssueSpec
<1>1. Init => Table!Init
  BY DEF Init, Table!Init, NoToken
<1>2. TypeOK /\ GrantInv /\ [Next]_vars => [Table!Next]_<<Rows, <<>>, {}, {}>>
  BY StepIssues
<1> QED BY <1>1, <1>2, GrantInvariant, PTL DEF Spec, IssueSpec, Table!Spec, Rows
=============================================================================
