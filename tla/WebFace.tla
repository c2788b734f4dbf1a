------------------------------ MODULE WebFace ------------------------------
(***************************************************************************)
(* The browser face of the gateway (src/web.rs over table web_password):   *)
(* a login answers with a signed cookie, a relayed request is admitted by  *)
(* its cookie and may be answered with a renewed one.                      *)
(*                                                                         *)
(* Nothing about a session is stored.  A cookie is signed with a key made  *)
(* of the JWT secret, which does not change here, and of the VERSION of    *)
(* the password in force, so whether an old cookie is still good depends   *)
(* only on that number and on the cookie's own expiry.  The password in    *)
(* force is the row of the table or, when there is none, the hash given in *)
(* the environment, whose version is always 0.  A read of the table that    *)
(* fails looks like a table without a row (db.rs, web_password), so it      *)
(* falls back to the environment as well (Faults).                          *)
(*                                                                         *)
(* Requests refused by the path, CSRF or rate gates leave no trace here    *)
(* and are not steps; a hash that does not parse is left out.              *)
(***************************************************************************)
EXTENDS Naturals, FiniteSets

CONSTANTS
  Worker,          \* requests in flight at the same time
  Login,           \* names for the logins that succeed
  EnvHash,         \* hashes the environment may hold
  Null,
  SessionTTL, SessionRefresh,   \* 12 h and 6 h
  OperatorActs,    \* what the operator does: "set", "clear", "env"
  Faults,          \* whether a read of the table may fail
  MaxTime, MaxVersion, MaxEpoch, \* bounds: clock, password writes, password changes
  MaxCookies                    \* bound: cookies issued

ASSUME IdsAssumption == Null \notin EnvHash \cup Login
ASSUME NumbersAssumption ==
  SessionTTL \in Nat \ {0} /\ SessionRefresh \in Nat /\ SessionRefresh <= SessionTTL
ASSUME FaultsAssumption == Faults \in BOOLEAN
ASSUME BoundsAssumption ==
  MaxTime \in Nat /\ MaxVersion \in Nat /\ MaxEpoch \in Nat /\ MaxCookies \in Nat

VARIABLES
  now,       \* the clock, in units of 3 h
  version,   \* version of the row of web_password, 0 when there is no row
  env,       \* the hash the running process was given, or Null
  cookies,   \* every cookie issued so far: any of them may come back
  req,       \* Worker -> the request in flight
  epoch,     \* history: how often the password in force has changed
  reset      \* history: the epoch of the last change that was not a new row version

vars == <<now, version, env, cookies, req, epoch, reset>>

\* A cookie, with the history of the epoch in which the version it is signed
\* under was read (signed), at this renewal and at the login (proved).
Cookie == [login : Login, version : Nat, exp : Nat, signed : Nat, proved : Nat]
NoCookie == [login |-> Null, version |-> 0, exp |-> 0, signed |-> 0, proved |-> 0]

Idle == [pc |-> "idle", cookie |-> NoCookie, version |-> 0, signed |-> 0]
Request ==
  {Idle} \cup
  [pc : {"login"}, cookie : {NoCookie}, version : Nat, signed : Nat] \cup
  [pc : {"public"}, cookie : {NoCookie}, version : {0}, signed : {0}] \cup
  [pc : {"relaying", "renewing"}, cookie : Cookie, version : {0}, signed : {0}] \cup
  [pc : {"signing"}, cookie : Cookie, version : Nat, signed : Nat]

(* Every cookie and request holds values of its fields, and no cookie is   *)
(* good for longer than one SESSION_TTL from now (issue_session).          *)
WebTypeOK ==
  /\ now \in Nat /\ version \in Nat /\ epoch \in Nat /\ reset \in Nat
  /\ env \in EnvHash \cup {Null}
  /\ cookies \subseteq Cookie
  /\ \A c \in cookies : c.exp <= now + SessionTTL
  /\ req \in [Worker -> Request]

Init ==
  /\ now = 0 /\ version = 0 /\ epoch = 0 /\ reset = 0
  /\ env \in EnvHash \cup {Null}
  /\ cookies = {}
  /\ req = [w \in Worker |-> Idle]

-----------------------------------------------------------------------------
(* web_creds, verify_session, issue_session. *)

Open == version # 0 \/ env # Null     \* some password is in force; its version is version

\* The versions a call of web_creds may return; none, and the face is closed.
Creds == (IF Open THEN {version} ELSE {}) \cup (IF Faults /\ env # Null THEN {0} ELSE {})

\* web_creds finds none: nothing is in force, or the read fails and there is no
\* hash to fall back to.
NoCreds == ~Open \/ (Faults /\ env = Null)

Accepts(c, v) == c.version = v /\ now < c.exp

\* Accepted when the table is read.
Verified(c) == Open /\ Accepts(c, version)

SlipNewCookieExtends(l, v, s, p) ==  \* slip: the refresh margin is added to the lifetime
  [login |-> l, version |-> v, exp |-> now + SessionTTL + SessionRefresh,
   signed |-> s, proved |-> p]

NewCookie(l, v, s, p) ==
  [login |-> l, version |-> v, exp |-> now + SessionTTL, signed |-> s, proved |-> p]

SlipRenewableLate(c) == c.exp < now + SessionRefresh   \* slip: remaining > 0 is lost

\* Less than 6 h left, but some: looked at when the upstream has answered.
Renewable(c) == now < c.exp /\ c.exp < now + SessionRefresh

CookiesUsedUp == Cardinality(cookies) >= MaxCookies   \* bound

At(w, pc) == req[w].pc = pc
Proceed(w, r) == req' = [req EXCEPT ![w] = r]
Return(w) == Proceed(w, Idle)

-----------------------------------------------------------------------------
(* POST /_gateway/login: read the password, check it (argon2 is slow), sign *)
(* under the version read.                                                  *)

LoginCreds(w) ==
  /\ At(w, "idle")
  /\ \E v \in Creds :
       Proceed(w, [pc |-> "login", cookie |-> NoCookie, version |-> v, signed |-> epoch])
  /\ UNCHANGED <<now, version, env, cookies, epoch, reset>>

LoginIssue(w) ==
  /\ At(w, "login")
  /\ \/ \E l \in Login :
          /\ \A c \in cookies : c.login # l
          /\ ~CookiesUsedUp
          /\ cookies' = cookies \cup
               {NewCookie(l, req[w].version, req[w].signed, req[w].signed)}
     \/ UNCHANGED cookies                   \* wrong password
  /\ Return(w)
  /\ UNCHANGED <<now, version, env, epoch, reset>>

\* Relaying: admitted by the cookie, or as a public file without one.
SlipRelayVerify(w) ==         \* slip: the signature is checked without the version
  /\ At(w, "idle")
  /\ \E c \in cookies :
       /\ now < c.exp
       /\ Proceed(w, [pc |-> "relaying", cookie |-> c, version |-> 0, signed |-> 0])
  /\ UNCHANGED <<now, version, env, cookies, epoch, reset>>

RelayVerify(w) ==
  /\ At(w, "idle")
  /\ \E c \in cookies, v \in Creds :
       /\ Accepts(c, v)
       /\ Proceed(w, [pc |-> "relaying", cookie |-> c, version |-> 0, signed |-> 0])
  /\ UNCHANGED <<now, version, env, cookies, epoch, reset>>

RelayPublic(w) ==
  /\ At(w, "idle")
  /\ Creds # {}
  /\ Proceed(w, [pc |-> "public", cookie |-> NoCookie, version |-> 0, signed |-> 0])
  /\ UNCHANGED <<now, version, env, cookies, epoch, reset>>

\* The upstream has answered, any time later: the clock is read and, if little
\* is left of the cookie, but some, it is renewed.  An upgrade (101) is not.
RelayAnswer(w) ==
  /\ \/ /\ At(w, "relaying") /\ Renewable(req[w].cookie)
        /\ Proceed(w, [pc |-> "renewing", cookie |-> req[w].cookie, version |-> 0, signed |-> 0])
     \/ (At(w, "relaying") \/ At(w, "public")) /\ Return(w)
  /\ UNCHANGED <<now, version, env, cookies, epoch, reset>>

\* The renewal reads the password anew, once it has the lock of the table, and
\* signs under that version, whatever the cookie was verified with.
RenewCreds(w) ==
  /\ At(w, "renewing")
  /\ \/ \E v \in Creds :
          Proceed(w, [pc |-> "signing", cookie |-> req[w].cookie, version |-> v, signed |-> epoch])
     \/ NoCreds /\ Return(w)
  /\ UNCHANGED <<now, version, env, cookies, epoch, reset>>

\* issue_session reads the clock again, and does not look back at the cookie.
RenewIssue(w) ==
  /\ At(w, "signing")
  /\ LET c == req[w].cookie IN
       \/ /\ ~CookiesUsedUp
          /\ cookies' = cookies \cup {NewCookie(c.login, req[w].version, req[w].signed, c.proved)}
       \/ CookiesUsedUp /\ UNCHANGED cookies
  /\ Return(w)
  /\ UNCHANGED <<now, version, env, epoch, reset>>

-----------------------------------------------------------------------------
(* The operator: POST /admin/web/password, and the environment. *)

SlipNextVersionRestarts == 1     \* slip: INSERT OR REPLACE writes version 1 again

NextVersion == version + 1       \* 1 on insert, version + 1 on conflict

SetPassword ==
  /\ "set" \in OperatorActs
  /\ version < MaxVersion /\ epoch < MaxEpoch
  /\ version' = NextVersion
  /\ epoch' = epoch + 1
  /\ UNCHANGED <<now, env, cookies, req, reset>>

\* The row is deleted, and its version number with it.
ClearPassword ==
  /\ "clear" \in OperatorActs
  /\ version # 0 /\ epoch < MaxEpoch
  /\ version' = 0
  /\ epoch' = epoch + 1
  /\ reset' = epoch + 1
  /\ UNCHANGED <<now, env, cookies, req>>

\* The process stops and starts again, maybe with another hash.
Restart(e) ==
  /\ e # env => "env" \in OperatorActs
  /\ env' = e
  /\ req' = [w \in Worker |-> Idle]
  /\ IF e # env /\ version = 0
     THEN epoch < MaxEpoch /\ epoch' = epoch + 1 /\ reset' = epoch + 1
     ELSE UNCHANGED <<epoch, reset>>
  /\ UNCHANGED <<now, version, cookies>>

Tick ==
  /\ now < MaxTime
  /\ now' = now + 1
  /\ UNCHANGED <<version, env, cookies, req, epoch, reset>>

Next ==
  \/ \E w \in Worker :
       \/ LoginCreds(w) \/ LoginIssue(w)
       \/ RelayVerify(w) \/ RelayPublic(w) \/ RelayAnswer(w) \/ RenewCreds(w) \/ RenewIssue(w)
  \/ SetPassword
  \/ ClearPassword
  \/ \E e \in EnvHash \cup {Null} : Restart(e)
  \/ Tick

Spec == Init /\ [][Next]_vars

-----------------------------------------------------------------------------
(* A new password ends every older session: a cookie that is accepted now, *)
(* and was signed after the last clear or change of environment, was       *)
(* signed under the very password in force.  Logins that read the old      *)
(* password and answer after the change, renewals, and what was let in or  *)
(* signed while the table could not be read, included (set_web_password,   *)
(* web_secret, issue_session, web_password).                               *)
RotationEndsSessions ==
  \A c \in cookies : Verified(c) /\ reset <= c.signed => c.signed = epoch

(* A login whose cookies have all run out is over, but for the renewals    *)
(* that were decided while a cookie of it had time left: no request joins  *)
(* them, not even one that is being relayed, and each brings the session   *)
(* back at most once, since it is gone when it has.  That is all that the  *)
(* remaining > 0 of web_relay can promise, because the password and the    *)
(* clock are read again after it (web_creds, issue_session).               *)
Opened(l) == \E c \in cookies : c.login = l
Live(l) == \E c \in cookies : c.login = l /\ now < c.exp
With(l, pcs) == {w \in Worker : req[w].pc \in pcs /\ req[w].cookie.login = l}
Renewing(l) == With(l, {"renewing", "signing"})
LapsedSessionsDrain ==
  [][\A l \in Login : Opened(l) /\ ~Live(l) =>
       /\ Renewing(l)' \subseteq Renewing(l)
       /\ Live(l)' => Renewing(l)' # Renewing(l)]_vars

(* A session that has ended stays ended: once no cookie of a login passes  *)
(* and no request admitted with one is under way, nothing admits it again, *)
(* neither a read that fails and falls back to the environment nor another *)
(* password.  So a session is taken across a password change by requests   *)
(* that were under way (see below), or by a cookie the environment's hash  *)
(* still answers for, and not otherwise.  A clear or another environment   *)
(* begins the versions again and is excepted (set_web_password, web_creds, *)
(* web_relay).                                                             *)
Passes(c) == \E v \in Creds : Accepts(c, v)
Ended(l) ==
  /\ Opened(l)
  /\ \A c \in cookies : c.login = l => reset <= c.signed /\ ~Passes(c)
  /\ With(l, {"relaying", "renewing", "signing"}) = {}
EndedStaysEnded ==
  [][\A l \in Login : Ended(l) => Ended(l)' \/ reset' # reset \/ env' # env]_vars

-----------------------------------------------------------------------------
(* What the documentation says and the code does not do. *)

(* README: changing the password invalidates all old sessions.             *)
OldSessionsDie ==
  \A c \in cookies : Verified(c) => c.signed = epoch

(* The same sentence, of the user rather than of the cookie: a session is  *)
(* accepted only when its user logged in with the password in force.       *)
LoggedInWithThisPassword ==
  \A c \in cookies : Verified(c) => c.proved = epoch
=============================================================================
