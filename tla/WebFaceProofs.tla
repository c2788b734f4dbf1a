-------------------------- MODULE WebFaceProofs --------------------------
(***************************************************************************)
(* Proofs about the browser face, for every number of requests and logins, *)
(* every lifetime and every behaviour of the operator.                     *)
(*                                                                         *)
(* That a rotation ends the older sessions is not inductive: nothing in it *)
(* says that a password under which cookies are still being signed has a   *)
(* smaller version than the one in force.  Behind says it, of the cookies  *)
(* and of the logins and renewals that have read a password and not signed *)
(* with it yet.                                                            *)
(***************************************************************************)
EXTENDS WebFace, TLAPS

\* What was signed, or will be, with version v read at epoch s.
Older(v, s) ==
  /\ s <= epoch
  /\ reset <= s => v <= version
  /\ reset <= s /\ s < epoch => v < version

ToSign == {"login", "signing"}
Admitted == {"relaying", "renewing", "signing"}

Behind ==
  /\ reset <= epoch
  /\ \A c \in cookies : Older(c.version, c.signed)
  /\ \A w \in Worker : req[w].pc \in ToSign => Older(req[w].version, req[w].signed)

\* The cookie a request was admitted with is one that was issued.
Presented == \A w \in Worker : req[w].pc \in Admitted => req[w].cookie \in cookies

USE NumbersAssumption, BoundsAssumption

-----------------------------------------------------------------------------
(* Types. *)

\* What web_creds returns is the row's version or the environment's 0.
LEMMA CredsTypes ==
  ASSUME version \in Nat, NEW v \in Creds
  PROVE  v \in Nat /\ (v = version \/ v = 0)
BY DEF Creds

LEMMA NewCookieTypes ==
  ASSUME now \in Nat, NEW l \in Login, NEW v \in Nat, NEW s \in Nat, NEW p \in Nat
  PROVE  /\ NewCookie(l, v, s, p) \in Cookie
         /\ NewCookie(l, v, s, p).exp = now + SessionTTL
BY DEF NewCookie, Cookie

(* Every cookie and request is well formed, and no cookie lasts longer     *)
(* than one SESSION_TTL from now: issue_session signs now + SESSION_TTL,   *)
(* never an extension of what the old cookie had left.                     *)
THEOREM WebTypeCorrect == Spec => []WebTypeOK
<1>1. Init => WebTypeOK
  BY DEF Init, WebTypeOK, Request
<1>2. WebTypeOK /\ [Next]_vars => WebTypeOK'
  <2> SUFFICES ASSUME WebTypeOK, [Next]_vars PROVE WebTypeOK'
    OBVIOUS
  <2>1. ASSUME NEW w \in Worker, LoginCreds(w) PROVE WebTypeOK'
    <3>1. PICK v \in Creds : Proceed(w, [pc |-> "login", cookie |-> NoCookie, version |-> v,
                                          signed |-> epoch])
      BY <2>1 DEF LoginCreds
    <3>2. [pc |-> "login", cookie |-> NoCookie, version |-> v, signed |-> epoch] \in Request
      BY CredsTypes DEF WebTypeOK, Request
    <3> QED
      BY <2>1, <3>1, <3>2 DEF LoginCreds, Proceed, WebTypeOK
  <2>2. ASSUME NEW w \in Worker, LoginIssue(w) PROVE WebTypeOK'
    <3>1. req[w].version \in Nat /\ req[w].signed \in Nat
      BY DEF WebTypeOK, Request, Idle
    <3>2. Idle \in Request
      BY DEF Request
    <3>3. ASSUME NEW l \in Login
          PROVE LET c == NewCookie(l, req[w].version, req[w].signed, req[w].signed)
                IN  c \in Cookie /\ c.exp = now + SessionTTL
      BY <3>1, NewCookieTypes DEF WebTypeOK
    <3> QED
      BY <2>2, <3>2, <3>3 DEF LoginIssue, Return, Proceed, WebTypeOK
  <2>3. ASSUME NEW w \in Worker, RelayVerify(w) PROVE WebTypeOK'
    <3>1. ASSUME NEW c \in cookies
          PROVE  [pc |-> "relaying", cookie |-> c, version |-> 0, signed |-> 0] \in Request
      BY DEF WebTypeOK, Request
    <3> QED
      BY <2>3, <3>1 DEF RelayVerify, Proceed, WebTypeOK
  <2>4. ASSUME NEW w \in Worker, RelayPublic(w) PROVE WebTypeOK'
    <3>1. [pc |-> "public", cookie |-> NoCookie, version |-> 0, signed |-> 0] \in Request
      BY DEF Request
    <3> QED
      BY <2>4, <3>1 DEF RelayPublic, Proceed, WebTypeOK
  <2>5. ASSUME NEW w \in Worker, RelayAnswer(w) PROVE WebTypeOK'
    <3>1. Idle \in Request
      BY DEF Request
    <3>2. At(w, "relaying") =>
            [pc |-> "renewing", cookie |-> req[w].cookie, version |-> 0, signed |-> 0] \in Request
      BY DEF At, WebTypeOK, Request, Idle
    <3> QED
      BY <2>5, <3>1, <3>2 DEF RelayAnswer, Return, Proceed, WebTypeOK
  <2>11. ASSUME NEW w \in Worker, RenewCreds(w) PROVE WebTypeOK'
    <3>1. Idle \in Request
      BY DEF Request
    <3>2. ASSUME NEW v \in Creds
          PROVE  [pc |-> "signing", cookie |-> req[w].cookie, version |-> v,
                  signed |-> epoch] \in Request
      <4>1. v \in Nat /\ epoch \in Nat
        BY CredsTypes DEF WebTypeOK
      <4>2. req[w].cookie \in Cookie
        BY <2>11 DEF RenewCreds, At, WebTypeOK, Request, Idle
      <4> QED
        BY <4>1, <4>2 DEF Request
    <3> QED
      BY <2>11, <3>1, <3>2 DEF RenewCreds, Return, Proceed, WebTypeOK
  <2>12. ASSUME NEW w \in Worker, RenewIssue(w) PROVE WebTypeOK'
    <3>1. Idle \in Request
      BY DEF Request
    <3>2. /\ req[w].cookie.login \in Login /\ req[w].cookie.proved \in Nat
          /\ req[w].version \in Nat /\ req[w].signed \in Nat
      BY <2>12 DEF RenewIssue, At, WebTypeOK, Request, Idle, Cookie
    <3>3. LET c == req[w].cookie
              n == NewCookie(c.login, req[w].version, req[w].signed, c.proved)
          IN  n \in Cookie /\ n.exp = now + SessionTTL
      BY <3>2, NewCookieTypes DEF WebTypeOK
    <3> QED
      BY <2>12, <3>1, <3>3 DEF RenewIssue, Return, Proceed, WebTypeOK
  <2>6. CASE SetPassword
    BY <2>6 DEF SetPassword, NextVersion, WebTypeOK
  <2>7. CASE ClearPassword
    BY <2>7 DEF ClearPassword, WebTypeOK
  <2>8. ASSUME NEW e \in EnvHash \cup {Null}, Restart(e) PROVE WebTypeOK'
    <3>1. Idle \in Request
      BY DEF Request
    <3> QED
      BY <2>8, <3>1 DEF Restart, WebTypeOK
  <2>9. CASE Tick
    <3>1. \A c \in cookies : c.exp \in Nat
      BY DEF WebTypeOK, Cookie
    <3> QED
      BY <2>9, <3>1 DEF Tick, WebTypeOK
  <2>10. CASE UNCHANGED vars
    BY <2>10 DEF vars, WebTypeOK
  <2> QED
    BY <2>1, <2>2, <2>3, <2>4, <2>5, <2>6, <2>7, <2>8, <2>9, <2>10, <2>11, <2>12 DEF Next
<1> QED
  BY <1>1, <1>2, PTL DEF Spec

-----------------------------------------------------------------------------
(* Rotation. *)

\* What the steps after a relay make of the requests.
Unchanged(w) == req'[w] = req[w]
Done(w) == req'[w] = Idle
Decided(w) ==
  /\ req[w].pc = "relaying" /\ Renewable(req[w].cookie)
  /\ req'[w] = [pc |-> "renewing", cookie |-> req[w].cookie, version |-> 0, signed |-> 0]
Read(w) ==
  /\ req[w].pc = "renewing"
  /\ \E v \in Creds :
       req'[w] = [pc |-> "signing", cookie |-> req[w].cookie, version |-> v, signed |-> epoch]

LEMMA Moves ==
  ASSUME WebTypeOK, NEW x \in Worker, RelayAnswer(x) \/ RenewCreds(x) \/ RenewIssue(x),
         NEW w \in Worker
  PROVE  Unchanged(w) \/ Done(w) \/ Decided(w) \/ Read(w)
<1> USE DEF Unchanged, Done, Decided, Read, Proceed, Return, At, WebTypeOK
<1>1. CASE RelayAnswer(x)
  BY <1>1 DEF RelayAnswer
<1>2. CASE RenewCreds(x)
  BY <1>2 DEF RenewCreds
<1>3. CASE RenewIssue(x)
  BY <1>3 DEF RenewIssue
<1> QED
  BY <1>1, <1>2, <1>3

LEMMA RequestTypes ==
  ASSUME WebTypeOK, NEW w \in Worker
  PROVE  /\ req[w].version \in Nat /\ req[w].signed \in Nat
         /\ req[w].pc \in Admitted => req[w].cookie \in Cookie
BY DEF WebTypeOK, Request, Idle, Admitted

LEMMA BehindInit == Init => Behind
BY DEF Init, Behind, ToSign, Idle

LEMMA BehindNext == WebTypeOK /\ Behind /\ [Next]_vars => Behind'
<1> SUFFICES ASSUME WebTypeOK, Behind, [Next]_vars PROVE Behind'
  OBVIOUS
<1> USE DEF At, ToSign
<1>t. \A c \in cookies : c.version \in Nat /\ c.signed \in Nat
  BY DEF WebTypeOK, Cookie
<1>1. ASSUME NEW w \in Worker, LoginCreds(w) PROVE Behind'
  <2>1. \A v \in Creds : Older(v, epoch)
    BY CredsTypes DEF WebTypeOK, Older
  <2>2. ASSUME NEW x \in Worker, req'[x].pc \in ToSign
        PROVE  Older(req'[x].version, req'[x].signed)
    BY <1>1, <2>1, <2>2 DEF LoginCreds, Proceed, WebTypeOK, Behind
  <2> QED
    BY <1>1, <2>2 DEF LoginCreds, Behind, Older
<1>2. ASSUME NEW w \in Worker, LoginIssue(w) PROVE Behind'
  <2>1. ASSUME NEW c \in cookies' PROVE Older(c.version, c.signed)
    BY <1>2, <2>1 DEF LoginIssue, NewCookie, Behind
  <2>2. ASSUME NEW x \in Worker, req'[x].pc \in ToSign
        PROVE  Older(req'[x].version, req'[x].signed)
    BY <1>2, <2>2 DEF LoginIssue, Return, Proceed, Idle, WebTypeOK, Behind
  <2> QED
    BY <1>2, <2>1, <2>2 DEF LoginIssue, Behind, Older
<1>3. ASSUME NEW w \in Worker, RelayVerify(w) \/ RelayPublic(w) PROVE Behind'
  <2>1. ASSUME NEW x \in Worker, req'[x].pc \in ToSign
        PROVE  Older(req'[x].version, req'[x].signed)
    BY <1>3, <2>1 DEF RelayVerify, RelayPublic, Proceed, WebTypeOK, Behind
  <2> QED
    BY <1>3, <2>1 DEF RelayVerify, RelayPublic, Behind, Older
<1>4. ASSUME NEW w \in Worker, RelayAnswer(w) PROVE Behind'
  <2>1. ASSUME NEW x \in Worker, req'[x].pc \in ToSign
        PROVE  Older(req'[x].version, req'[x].signed)
    BY <1>4, <2>1, Moves DEF Unchanged, Done, Decided, Idle, RelayAnswer, Return, Proceed, WebTypeOK, Behind
  <2> QED
    BY <1>4, <2>1 DEF RelayAnswer, Behind, Older
<1>9. ASSUME NEW w \in Worker, RenewCreds(w) PROVE Behind'
  <2>1. \A v \in Creds : Older(v, epoch)
    BY CredsTypes DEF WebTypeOK, Older
  <2>2. ASSUME NEW x \in Worker, req'[x].pc \in ToSign
        PROVE  Older(req'[x].version, req'[x].signed)
    <3>1. Unchanged(x) \/ Done(x) \/ Decided(x) \/ Read(x)
      BY <1>9, Moves
    <3>2. CASE Unchanged(x)
      BY <2>1, <2>2, <3>2 DEF Unchanged, Behind
    <3>3. CASE Done(x)
      BY <2>1, <2>2, <3>3 DEF Done, Idle, Behind
    <3>4. CASE Decided(x)
      BY <2>1, <2>2, <3>4 DEF Decided, Behind
    <3>5. CASE Read(x)
      BY <2>1, <2>2, <3>5 DEF Read, Behind
    <3> QED
      BY <3>1, <3>2, <3>3, <3>4, <3>5
  <2> QED
    BY <1>9, <2>2 DEF RenewCreds, Behind, Older
<1>10. ASSUME NEW w \in Worker, RenewIssue(w) PROVE Behind'
  <2>1. ASSUME NEW c \in cookies' PROVE Older(c.version, c.signed)
    BY <1>10, <2>1 DEF RenewIssue, NewCookie, Behind
  <2>2. ASSUME NEW x \in Worker, req'[x].pc \in ToSign
        PROVE  Older(req'[x].version, req'[x].signed)
    BY <1>10, <2>2 DEF RenewIssue, Return, Proceed, Idle, WebTypeOK, Behind
  <2> QED
    BY <1>10, <2>1, <2>2 DEF RenewIssue, Behind, Older
<1>5. CASE SetPassword
  <2>1. ASSUME NEW v \in Nat, NEW s \in Nat, Older(v, s)
        PROVE  Older(v, s)'
    BY <1>5, <2>1 DEF SetPassword, NextVersion, Older, WebTypeOK
  <2>2. (\A c \in cookies : Older(c.version, c.signed))'
    BY <1>5, <1>t, <2>1 DEF SetPassword, Behind
  <2>3. ASSUME NEW w \in Worker, req[w].pc \in ToSign
        PROVE  Older(req[w].version, req[w].signed)'
    <3>1. Older(req[w].version, req[w].signed)
      BY <2>3 DEF Behind
    <3>2. req[w].version \in Nat /\ req[w].signed \in Nat
      BY RequestTypes
    <3> QED
      BY <1>5, <3>1, <3>2 DEF SetPassword, NextVersion, Older, WebTypeOK
  <2>4. (reset <= epoch)'
    BY <1>5 DEF SetPassword, Behind, WebTypeOK
  <2> QED
    BY <1>5, <2>2, <2>3, <2>4 DEF SetPassword, Behind
<1>6. CASE ClearPassword
  <2>1. ASSUME NEW v \in Nat, NEW s \in Nat, Older(v, s)
        PROVE  Older(v, s)'
    BY <1>6, <2>1 DEF ClearPassword, Older, WebTypeOK
  <2> QED
    BY <1>6, <1>t, <2>1, RequestTypes DEF ClearPassword, Behind, Older, WebTypeOK
<1>7. ASSUME NEW e \in EnvHash \cup {Null}, Restart(e) PROVE Behind'
  <2>1. ASSUME NEW v \in Nat, NEW s \in Nat, Older(v, s)
        PROVE  Older(v, s)'
    BY <1>7, <2>1 DEF Restart, Older, WebTypeOK
  <2>2. \A w \in Worker : req'[w].pc \notin ToSign
    BY <1>7 DEF Restart, Idle
  <2>3. (reset <= epoch)'
    BY <1>7 DEF Restart, Behind, WebTypeOK
  <2> QED
    BY <1>7, <1>t, <2>1, <2>2, <2>3 DEF Restart, Behind
<1>8. CASE Tick \/ UNCHANGED vars
  BY <1>8 DEF Tick, vars, Behind, Older
<1> QED
  BY <1>1, <1>2, <1>3, <1>4, <1>5, <1>6, <1>7, <1>8, <1>9, <1>10 DEF Next

(* A new password ends every older session: of the cookies accepted at any *)
(* time, those signed since the last clear or change of environment were   *)
(* signed under the password in force (set_web_password counts its row's   *)
(* version up, web_secret puts it under every signature).                  *)
THEOREM Rotation == Spec => []RotationEndsSessions
<1>1. WebTypeOK /\ Behind => RotationEndsSessions
  <2> SUFFICES ASSUME WebTypeOK, Behind, NEW c \in cookies, Verified(c), reset <= c.signed
               PROVE  c.signed = epoch
    BY DEF RotationEndsSessions
  <2> QED
    BY DEF Behind, Older, Verified, Accepts, WebTypeOK, Cookie
<1> QED
  BY <1>1, WebTypeCorrect, BehindInit, BehindNext, PTL DEF Spec

-----------------------------------------------------------------------------
(* Expiry, and the end of a session. *)

LEMMA PresentedInit == Init => Presented
BY DEF Init, Presented, Admitted, Idle

LEMMA PresentedNext == WebTypeOK /\ Presented /\ [Next]_vars => Presented'
<1> SUFFICES ASSUME WebTypeOK, Presented, [Next]_vars,
                    NEW x \in Worker, req'[x].pc \in Admitted
             PROVE  req'[x].cookie \in cookies'
  BY DEF Presented
<1> USE DEF Admitted
<1>1. ASSUME NEW w \in Worker,
             LoginCreds(w) \/ LoginIssue(w) \/ RelayVerify(w) \/ RelayPublic(w)
      PROVE  req'[x].cookie \in cookies'
  BY <1>1 DEF LoginCreds, LoginIssue, RelayVerify, RelayPublic, Return,
              Proceed, Idle, At, WebTypeOK, Presented
<1>4. ASSUME NEW w \in Worker, RelayAnswer(w) \/ RenewCreds(w) \/ RenewIssue(w)
      PROVE  req'[x].cookie \in cookies'
  <2>1. Unchanged(x) \/ Done(x) \/ Decided(x) \/ Read(x)
    BY <1>4, Moves
  <2>2. cookies \subseteq cookies'
    BY <1>4 DEF RelayAnswer, RenewCreds, RenewIssue
  <2>3. CASE Unchanged(x)
    BY <2>2, <2>3 DEF Unchanged, Presented
  <2>4. CASE Done(x)
    BY <2>2, <2>4 DEF Done, Idle, Presented
  <2>5. CASE Decided(x)
    BY <2>2, <2>5 DEF Decided, Presented
  <2>6. CASE Read(x)
    BY <2>2, <2>6 DEF Read, Presented
  <2> QED
    BY <2>1, <2>3, <2>4, <2>5, <2>6
<1>2. CASE SetPassword \/ ClearPassword \/ Tick \/ UNCHANGED vars
  BY <1>2 DEF SetPassword, ClearPassword, Tick, vars, Presented
<1>3. CASE \E e \in EnvHash \cup {Null} : Restart(e)
  BY <1>3 DEF Restart, Idle
<1> QED
  BY <1>1, <1>2, <1>3, <1>4 DEF Next

\* Time does not run back.
LEMMA ClockRises ==
  ASSUME WebTypeOK, [Next]_vars
  PROVE  now' \in Nat /\ now <= now'
<1>1. now' = now \/ now' = now + 1
  BY DEF Next, LoginCreds, LoginIssue, RelayVerify, RelayPublic, RelayAnswer, RenewCreds,
         RenewIssue, SetPassword, ClearPassword, Restart, Tick, vars
<1> QED
  BY <1>1 DEF WebTypeOK

\* A cookie is new by a login of that name, the first, or by a renewal, which
\* ends its request.
LEMMA NewCookies ==
  ASSUME WebTypeOK, [Next]_vars, NEW n \in cookies' \ cookies
  PROVE  \/ ~Opened(n.login)
         \/ \E w \in Worker : /\ req[w].pc = "signing" /\ req[w].cookie.login = n.login
                             /\ req'[w].pc = "idle"
<1>1. PICK w \in Worker : LoginIssue(w) \/ RenewIssue(w)
  BY DEF Next, LoginCreds, RelayVerify, RelayPublic, RelayAnswer, RenewCreds, SetPassword,
         ClearPassword, Restart, Tick, vars
<1>2. CASE LoginIssue(w)
  BY <1>2 DEF LoginIssue, NewCookie, Opened
<1>3. CASE RenewIssue(w)
  <2>1. n.login = req[w].cookie.login
    BY <1>3 DEF RenewIssue, NewCookie
  <2>2. req'[w] = Idle
    BY <1>3 DEF RenewIssue, Return, Proceed, WebTypeOK
  <2> QED
    BY <1>3, <2>1, <2>2 DEF RenewIssue, At, Idle
<1> QED
  BY <1>1, <1>2, <1>3

\* How a request comes to be under way for a login: it is admitted by one of
\* its cookies, or it was under way before.
LEMMA UnderWay ==
  ASSUME WebTypeOK, [Next]_vars, NEW w \in Worker, NEW l \in Login,
         req'[w].pc \in Admitted, req'[w].cookie.login = l
  PROVE  \/ req[w].pc \in Admitted /\ req[w].cookie.login = l
         \/ /\ \E c \in cookies : c.login = l /\ Passes(c)
            /\ req'[w].pc = "relaying"
<1> USE DEF Admitted
<1>1. ASSUME NEW x \in Worker, LoginCreds(x) \/ LoginIssue(x) \/ RelayPublic(x)
      PROVE  req[w] = req'[w]
  BY <1>1 DEF LoginCreds, LoginIssue, RelayPublic, Return, Proceed, Idle, WebTypeOK
<1>2. ASSUME NEW x \in Worker, RelayVerify(x), req[w] # req'[w]
      PROVE  (\E c \in cookies : c.login = l /\ Passes(c)) /\ req'[w].pc = "relaying"
  <2>1. PICK c \in cookies, v \in Creds :
          /\ Accepts(c, v)
          /\ Proceed(x, [pc |-> "relaying", cookie |-> c, version |-> 0, signed |-> 0])
    BY <1>2 DEF RelayVerify
  <2>2. req'[w] = [pc |-> "relaying", cookie |-> c, version |-> 0, signed |-> 0]
    BY <1>2, <2>1 DEF Proceed, WebTypeOK
  <2> QED
    BY <2>1, <2>2 DEF Passes
<1>3. ASSUME NEW x \in Worker, RelayAnswer(x) \/ RenewCreds(x) \/ RenewIssue(x)
      PROVE  req[w].pc \in Admitted /\ req[w].cookie.login = l
  <2>1. Unchanged(w) \/ Done(w) \/ Decided(w) \/ Read(w)
    BY <1>3, Moves
  <2>2. CASE Unchanged(w)
    BY <2>2 DEF Unchanged
  <2>3. CASE Done(w)
    BY <2>3 DEF Done, Idle
  <2>4. CASE Decided(w)
    BY <2>4 DEF Decided
  <2>5. CASE Read(w)
    BY <2>5 DEF Read
  <2> QED
    BY <2>1, <2>2, <2>3, <2>4, <2>5
<1>4. CASE SetPassword \/ ClearPassword \/ Tick \/ UNCHANGED vars
  BY <1>4 DEF SetPassword, ClearPassword, Tick, vars
<1>5. CASE \E e \in EnvHash \cup {Null} : Restart(e)
  BY <1>5 DEF Restart, Idle
<1> QED
  BY <1>1, <1>2, <1>3, <1>4, <1>5 DEF Next

\* A renewal is decided on a cookie that still lasts.
LEMMA DecidedInTime ==
  ASSUME WebTypeOK, Presented, [Next]_vars, NEW w \in Worker, NEW l \in Login,
         w \in Renewing(l)'
  PROVE  w \in Renewing(l) \/ Live(l)
<1> USE DEF Renewing, With
<1>1. ASSUME NEW x \in Worker,
             LoginCreds(x) \/ LoginIssue(x) \/ RelayPublic(x) \/ RelayVerify(x)
      PROVE  w \in Renewing(l)
  BY <1>1 DEF LoginCreds, LoginIssue, RelayPublic, RelayVerify, Return, Proceed, Idle, WebTypeOK
<1>2. ASSUME NEW x \in Worker, RelayAnswer(x) \/ RenewCreds(x) \/ RenewIssue(x)
      PROVE  w \in Renewing(l) \/ Live(l)
  <2>1. Unchanged(w) \/ Done(w) \/ Decided(w) \/ Read(w)
    BY <1>2, Moves
  <2>2. CASE Unchanged(w)
    BY <2>2 DEF Unchanged
  <2>3. CASE Done(w)
    BY <2>3 DEF Done, Idle
  <2>4. CASE Decided(w)
    BY <2>4 DEF Decided, Presented, Admitted, Renewable, Live
  <2>5. CASE Read(w)
    BY <2>5 DEF Read
  <2> QED
    BY <2>1, <2>2, <2>3, <2>4, <2>5
<1>4. CASE SetPassword \/ ClearPassword \/ Tick \/ UNCHANGED vars
  BY <1>4 DEF SetPassword, ClearPassword, Tick, vars
<1>5. CASE \E e \in EnvHash \cup {Null} : Restart(e)
  BY <1>5 DEF Restart, Idle
<1> QED
  BY <1>1, <1>2, <1>4, <1>5 DEF Next

(* Once a login's cookies have run out nobody joins the renewals of it that *)
(* were decided in time, and each of them signs one cookie at most: the     *)
(* clock is read before the password and again after it, and only the       *)
(* first reading is held against the old cookie (web_relay, issue_session). *)
THEOREM Lapse == Spec => LapsedSessionsDrain
<1> DEFINE Drains == \A l \in Login : Opened(l) /\ ~Live(l) =>
              /\ Renewing(l)' \subseteq Renewing(l)
              /\ Live(l)' => Renewing(l)' # Renewing(l)
<1>1. WebTypeOK /\ Presented /\ [Next]_vars => [Drains]_vars
  <2> SUFFICES ASSUME WebTypeOK, Presented, [Next]_vars, NEW l \in Login, Opened(l), ~Live(l)
               PROVE  /\ Renewing(l)' \subseteq Renewing(l)
                      /\ Live(l)' => Renewing(l)' # Renewing(l)
    OBVIOUS
  <2>1. Renewing(l)' \subseteq Renewing(l)
    <3>1. ASSUME NEW w \in Renewing(l)' PROVE w \in Renewing(l)
      <4>1. w \in Worker
        BY <3>1 DEF Renewing, With
      <4> QED
        BY <3>1, <4>1, DecidedInTime
    <3> QED
      BY <3>1
  <2>2. ASSUME Live(l)' PROVE Renewing(l)' # Renewing(l)
    <3>1. PICK n \in cookies' : n.login = l /\ now' < n.exp
      BY <2>2 DEF Live
    <3>2. n \notin cookies
      <4>1. n \in cookies => n.exp \in Nat /\ ~(now < n.exp)
        BY <3>1 DEF Live, WebTypeOK, Cookie
      <4> QED
        BY <3>1, <4>1, ClockRises DEF WebTypeOK
    <3>3. PICK w \in Worker : /\ req[w].pc = "signing" /\ req[w].cookie.login = l
                              /\ req'[w].pc = "idle"
      BY <3>1, <3>2, NewCookies
    <3>4. w \in Renewing(l) /\ w \notin Renewing(l)'
      BY <3>3 DEF Renewing, With
    <3> QED
      BY <3>4
  <2> QED
    BY <2>1, <2>2
<1> QED
  BY <1>1, WebTypeCorrect, PresentedInit, PresentedNext, PTL DEF Spec, LapsedSessionsDrain

\* A cookie signed since the last reset that does not pass never will, until
\* the operator clears the password or gives another environment.
LEMMA NeverPasses ==
  ASSUME WebTypeOK, Behind, [Next]_vars, reset' = reset, env' = env,
         NEW c \in cookies, reset <= c.signed, ~Passes(c)
  PROVE  ~Passes(c)'
<1>1. c.version \in Nat /\ c.exp \in Nat /\ c.signed \in Nat
  BY DEF WebTypeOK, Cookie
<1>2. c.version <= version
  BY DEF Behind, Older
<1>3. version' = version \/ version' = version + 1
  <2>1. CASE ClearPassword
    BY <2>1 DEF ClearPassword, WebTypeOK, Behind
  <2>2. CASE ~ClearPassword
    BY <2>2 DEF Next, LoginCreds, LoginIssue, RelayVerify, RelayPublic, RelayAnswer, RenewCreds,
                RenewIssue, SetPassword, NextVersion, Restart, Tick, vars
  <2> QED
    BY <2>1, <2>2
<1>4. now' \in Nat /\ now <= now'
  BY ClockRises
<1>5. now \in Nat /\ version \in Nat
  BY DEF WebTypeOK
<1>6. CASE ~(now < c.exp)
  BY <1>1, <1>4, <1>5, <1>6 DEF Passes, Accepts
<1>7. CASE now < c.exp
  <2>1. c.version \notin Creds
    BY <1>7 DEF Passes, Accepts
  <2>2. c.version \notin Creds'
    BY <1>1, <1>2, <1>3, <1>5, <2>1 DEF Creds, Open
  <2> QED
    BY <2>2 DEF Passes, Accepts
<1> QED
  BY <1>6, <1>7

(* A session that has ended stays ended until the operator clears the       *)
(* password or changes the environment: to come back it needs a cookie that *)
(* passes or a request under way, and each needs the other (verify_session, *)
(* web_relay, set_web_password).                                            *)
THEOREM Ends == Spec => EndedStaysEnded
<1> DEFINE Stays == \A l \in Login : Ended(l) => Ended(l)' \/ reset' # reset \/ env' # env
<1>1. WebTypeOK /\ Behind /\ [Next]_vars => [Stays]_vars
  <2> SUFFICES ASSUME WebTypeOK, Behind, [Next]_vars, NEW l \in Login, Ended(l),
                      reset' = reset, env' = env
               PROVE  Ended(l)'
    OBVIOUS
  <2>1. ASSUME NEW c \in cookies', c.login = l PROVE c \in cookies
    <3>1. \A w \in Worker : ~(req[w].pc = "signing" /\ req[w].cookie.login = l)
      BY DEF Ended, With
    <3> QED
      BY <2>1, <3>1, NewCookies DEF Ended
  <2>2. ASSUME NEW c \in cookies', c.login = l PROVE (reset <= c.signed)' /\ ~Passes(c)'
    BY <2>1, <2>2, NeverPasses DEF Ended
  <2>3. With(l, Admitted)' = {}
    <3>1. ASSUME NEW w \in Worker, req'[w].pc \in Admitted, req'[w].cookie.login = l PROVE FALSE
      BY <3>1, UnderWay DEF Ended, With, Admitted
    <3> QED
      BY <3>1 DEF With
  <2>4. Opened(l)'
    <3>1. cookies \subseteq cookies'
      BY DEF Next, LoginCreds, LoginIssue, RelayVerify, RelayPublic, RelayAnswer, RenewCreds,
             RenewIssue, SetPassword, ClearPassword, Restart, Tick, vars
    <3> QED
      BY <3>1 DEF Ended, Opened
  <2> QED
    BY <2>2, <2>3, <2>4 DEF Ended, Admitted
<1> QED
  BY <1>1, WebTypeCorrect, BehindInit, BehindNext, PTL DEF Spec, EndedStaysEnded

-----------------------------------------------------------------------------
(* When the two sentences of the documentation do hold.  Both fail in      *)
(* general (see the end of WebFace): a version number that comes back      *)
(* refutes the first, a request under way across the change the second.    *)

\* The operator only ever sets a new password: no clear, no other environment.
OnlySets == OperatorActs \cap {"clear", "env"} = {}

NeverReset == reset = 0

\* Every password change finds no login and no relayed session under way.
Quiet == \A w \in Worker : req[w].pc \notin ToSign \cup Admitted
ChangesFindNoSession == [][epoch' # epoch => Quiet]_vars

(* "Changing the password invalidates all old sessions" holds of an        *)
(* operator who only sets passwords, faults of the table included: without *)
(* a clear or a new environment the version never starts again             *)
(* (set_web_password).                                                     *)
THEOREM SetsEndSessions == ASSUME OnlySets PROVE Spec => []OldSessionsDie
<1>1. Init => NeverReset
  BY DEF Init, NeverReset
<1>2. WebTypeOK /\ NeverReset /\ [Next]_vars => NeverReset'
  BY DEF NeverReset, OnlySets, Next, LoginCreds, LoginIssue, RelayVerify, RelayPublic, RelayAnswer,
         RenewCreds, RenewIssue, SetPassword, ClearPassword, Restart, Tick, vars
<1>3. WebTypeOK /\ NeverReset /\ RotationEndsSessions => OldSessionsDie
  BY DEF NeverReset, RotationEndsSessions, OldSessionsDie, WebTypeOK, Cookie
<1> QED
  BY <1>1, <1>2, <1>3, WebTypeCorrect, Rotation, PTL DEF Spec

\* The version counts the password changes, a cookie's version says which
\* password its user logged in with, and what is under way is of the present.
Counted ==
  /\ version = epoch
  /\ \A c \in cookies : c.version = c.proved
  /\ \A w \in Worker :
       /\ req[w].pc \in ToSign => req[w].version = epoch /\ req[w].signed = epoch
       /\ req[w].pc \in Admitted => req[w].cookie.proved = epoch

LEMMA CountedStep ==
  ASSUME OnlySets, ~Faults, WebTypeOK, Counted, [Next]_vars,
         epoch' # epoch => Quiet
  PROVE  Counted'
<1> USE DEF At, OnlySets, ToSign, Admitted
<1>c. \A v \in Creds : v = epoch
  BY DEF Creds, Counted
<1>1. ASSUME NEW w \in Worker, LoginCreds(w) \/ RelayPublic(w) PROVE Counted'
  BY <1>c, <1>1 DEF LoginCreds, RelayPublic, Proceed, WebTypeOK, Counted
<1>2. ASSUME NEW w \in Worker, LoginIssue(w) PROVE Counted'
  <2>1. ASSUME NEW c \in cookies' PROVE c.version = c.proved
    BY <1>2, <2>1 DEF LoginIssue, NewCookie, Counted
  <2> QED
    BY <1>2, <2>1 DEF LoginIssue, Return, Proceed, Idle, WebTypeOK, Counted
<1>3. ASSUME NEW w \in Worker, RelayVerify(w) PROVE Counted'
  <2>1. PICK c \in cookies, v \in Creds :
          /\ Accepts(c, v)
          /\ Proceed(w, [pc |-> "relaying", cookie |-> c, version |-> 0, signed |-> 0])
    BY <1>3 DEF RelayVerify
  <2>2. c.proved = epoch
    BY <1>c, <2>1 DEF Accepts, Counted
  <2> QED
    BY <1>3, <2>1, <2>2 DEF RelayVerify, Proceed, WebTypeOK, Counted
<1>4. ASSUME NEW w \in Worker, RelayAnswer(w) \/ RenewCreds(w) PROVE Counted'
  <2>1. ASSUME NEW x \in Worker
        PROVE  Unchanged(x) \/ Done(x) \/ Decided(x) \/ Read(x)
    BY <1>4, Moves
  <2>2. UNCHANGED <<version, epoch, cookies>>
    BY <1>4 DEF RelayAnswer, RenewCreds
  <2>3. ASSUME NEW x \in Worker
        PROVE  /\ req'[x].pc \in ToSign => req'[x].version = epoch /\ req'[x].signed = epoch
               /\ req'[x].pc \in Admitted => req'[x].cookie.proved = epoch
    <3>1. CASE Unchanged(x)
      BY <1>c, <3>1 DEF Unchanged, Counted
    <3>2. CASE Done(x)
      BY <1>c, <3>2 DEF Done, Idle, Counted
    <3>3. CASE Decided(x)
      BY <1>c, <3>3 DEF Decided, Counted
    <3>4. CASE Read(x)
      BY <1>c, <3>4 DEF Read, Counted
    <3> QED
      BY <2>1, <3>1, <3>2, <3>3, <3>4
  <2> QED
    BY <2>2, <2>3 DEF Counted
<1>8. ASSUME NEW w \in Worker, RenewIssue(w) PROVE Counted'
  <2>1. ASSUME NEW c \in cookies' PROVE c.version = c.proved
    BY <1>8, <2>1 DEF RenewIssue, NewCookie, Counted
  <2> QED
    BY <1>8, <2>1 DEF RenewIssue, Return, Proceed, Idle, WebTypeOK, Counted
<1>5. CASE SetPassword
  BY <1>5 DEF SetPassword, NextVersion, WebTypeOK, Counted, Quiet
<1>6. ASSUME NEW e \in EnvHash \cup {Null}, Restart(e) PROVE Counted'
  BY <1>6 DEF Restart, Idle, WebTypeOK, Counted
<1>7. CASE ClearPassword \/ Tick \/ UNCHANGED vars
  BY <1>7 DEF ClearPassword, Tick, vars, Counted
<1> QED
  BY <1>1, <1>2, <1>3, <1>4, <1>5, <1>6, <1>7, <1>8 DEF Next

(* "... its user logged in with the password in force" holds when, besides,*)
(* no read of the table fails and no password change overtakes a login or  *)
(* a relayed request under way (web_login, web_relay).                     *)
THEOREM QuietChanges ==
  ASSUME OnlySets, ~Faults
  PROVE  Spec /\ ChangesFindNoSession => []LoggedInWithThisPassword
<1>1. Init => Counted
  BY DEF Init, Counted, ToSign, Admitted, Idle
<1>2. WebTypeOK /\ Counted /\ [Next]_vars /\ [epoch' # epoch => Quiet]_vars
      => Counted'
  BY CountedStep DEF vars
<1>3. Counted => LoggedInWithThisPassword
  BY DEF Counted, LoggedInWithThisPassword, Verified, Accepts
<1> QED
  BY <1>1, <1>2, <1>3, WebTypeCorrect, PTL DEF Spec, ChangesFindNoSession
=============================================================================
