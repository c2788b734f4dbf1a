# A TLA+ model of dsh-mobile-gateway

The gateway lets a phone, or a browser, reach a `dsh` that runs on a Mac behind
an SSH reverse tunnel. This directory holds TLA+ modules that model its control
logic, TLC configurations that check them on small instances, and proofs that
TLAPS checks for every instance. File and line numbers refer to this repository
(`src/pair.rs` of the crate is `src/src/pair.rs` in `PROJECT.json`).

Run a configuration with `tlc -config X.cfg M`, check the proofs with
`tlapm M.tla`. `PROJECT.json` lists the runs, the mutant that refutes each
property, the source lines of each definition, the findings and the theorems.

## 1. Inventory

| Part | State it keeps | Operations | Talks to | What must be right |
|---|---|---|---|---|
| Pairing face (`pair.rs`) | none of its own | start, poll, confirm (phone); claim, status (Mac) | tables, limiter | codes unique and quarantined; a claim spent once; the token is the claim's; anchors hold |
| Tables (`db.rs`) | `tokens`, `pairings`, `claims`, `tenants`, `hosts`, `web_password`, one SQLite file behind one mutex | about thirty calls, each atomic and committed alone | every handler | what a handler read may be stale at its next call |
| Tenant and host registry (`tenant.rs`) | rows of `tenants`, `hosts` | create, revoke, register, remove; look-up of a tenant key | claim, start | a tenant only binds ports registered to it |
| Device gate (`auth.rs`) | rows of `tokens` | `auth_middleware`, devices, revoke, password login | relay | a revoked token admits nobody; revocation stays within a tenant |
| Rate limiter (`auth.rs`) | instants per key, in memory | `allow` | pairing, login, tenant admin | the bound holds in every window; nobody is refused below it |
| Relay (`relay.rs`) | `ws_sessions`, sockets | HTTP relay, WebSocket handshake and pipe, health probe | upstream tunnel | the presence count is exact; bytes in order |
| Web face (`web.rs`) | row of `web_password`; sessions live only in cookies | login, logout, relay with sliding renewal, password set/clear/status | relay, table | a new password ends old sessions; a session that ran out is over, but for a renewal already decided |
| QR and landing page (`pair.rs`) | none | render | | presentation |
| Routers, operator token (`lib.rs`) | none | routing, comparison | all | who may call what |
| Configuration, start-up (`config.rs`, `main.rs`), JWT and errors (`shared/`) | read once | | all | |

What makes it hard. A handler is a *sequence* of database calls with no
transaction around it, and the three listeners serve requests in parallel, so
between two calls of one request anything may happen: another request, the
operator changing a registry, the clock passing an expiry, a crash. Errors of
some writes are dropped. The relay is awaited for as long as the upstream likes
and state read before it is used after it. Sessions are not stored, so whether
an old cookie is good depends on a counter alone. The list of hazards, each at
its line and with the properties that watch it, is in `PROJECT.json`.

## 2. Modules

| Module | Models | Kind |
|---|---|---|
| `Pairing` | start, poll, confirm, claim, the registries, the clock, crashes | component |
| `Grant` | what pairing promises: offer, lapse, take, issue | abstract specification |
| `WebFace` | cookie sessions, renewal, the web password | component |
| `DeviceGate` | `auth_middleware`, revocation, presence count | component |
| `Gate` | what a device token promises: issue, admit, connect, leave, revoke | abstract specification |
| `RateLimiter` | `LoginRateLimiter::allow` | component |
| `WsRelay` | one relayed WebSocket: dial, handshake, pipe | component |
| `Stream` | what a relayed WebSocket promises in one direction | abstract specification |
| `MCPairing`, `MCWebFace`, `MCDeviceGate`, `MCRateLimiter`, `MCWsRelay` | values and symmetry for TLC | model checking |
| `PairingProofs`, `OfferProofs`, `GrantProofs`, `WebFaceProofs`, `DeviceGateProofs`, `RateLimiterProofs`, `WsRelayProofs` | theorems | proofs |

### Pairing

*State.* One function per table, from ids to rows; a row with status `"none"` is
not there. No row is ever deleted from `pairings`, `claims` or `tokens`, so
neither are they here. `req` holds, for each `Worker` (a request in flight), the
next database call of its handler (`pc`) and the locals the rest of the handler
uses. `by`, `takenBy`, `claim` and `everOwned` are history: who made an offer, for
which pairing it was spent, which claim a token came from, who a port was
registered to. No guard reads them.

*Steps.* One action per database call; a check on a row that was just read
belongs to the step that reads it. `confirm_handler` (`pair.rs:216`), for instance:

| Call | Action |
|---|---|
| `pairing_get`, then status and expiry | `ConfirmGet` |
| `claim_get`, then code, status, anchor, expiry, host code | `ConfirmClaim` |
| `claim_consume` | `ConfirmConsume` |
| `pairing_set_status` (error dropped) | `ConfirmStatus` |
| `pairing_set_token` (error dropped) | `ConfirmToken` |
| `TokenDb::insert` | `ConfirmInsert` |

`pairing_insert` and `claims_for` lock twice, once for the sweep: `StartSweep` and
`StartInsert`, `PollGet` and `PollSweep`. `admin_claim_handler` is `TenantAuth` or
`OperatorAuth` (the middleware of the tenants' and of the operator's router), then
`ClaimPairing`, `ClaimHost`, `ClaimInsert`.

*Abstraction.* A code, a port, a uuid is a model value. The pairing secret is the
identity of the pairing (who knows the secret can name the pairing). Format
checks, labels and device names are left out. A request refused before it wrote
anything leaves no trace and is not a step. A tenant key is looked up in
`TenantAuth` and the request goes on even if the tenant is revoked then, as in the
code; `RevokedTenantDrains` says how far: nobody joins those requests, and each makes
one offer at most. `LostPortDrains` says the same of the requests past the arbitration
of a port that their tenant has lost. `pairing_insert` reads the clock three times under
the lock, `StartInsert` once, so the model is exact to the second in which they
fall. `enabled` of a host is always 1, no call writes it. Time is in units of
300 s, the greatest that divides the three constants; `Expired` and `CodeTaken`
keep the strict comparisons of the code.

*Faults.* With `Faults`, a write may fail (after which the handler goes on or
returns as the code does; the batch of the sweep may stop after its first
update), and `Crash` forgets every request and keeps every table. A read may fail too:
`host_by_port` then answers as for a port that nobody registered (`HostRead`), so a
tenant's claim is refused and the operator's goes on as for a free port of the range;
every other read of the face that fails refuses the request or gives an answer that
writes nothing.

### WebFace

`web_creds` prefers the row and falls back to the environment's hash with version
0. `version` is therefore both the row's version (0 for no row) and the version in
force, and `Open` says that there is one. With `Faults` the read may fail, which
`web_password` turns into "no row": `Creds` is the set of versions a call may
return, the row's and then also the environment's. `Verified` is what the table,
when it can be read, accepts. A cookie is its version, its expiry, and
history: the login it descends from, and the epoch of the password it is signed
under and of the one its user typed. `epoch` counts changes of the password in
force; `reset` is the epoch of the last one that was not a new row version (a
clear, or another hash in the environment). `LoginCreds` / `LoginIssue` are apart
because argon2 runs between them; `RelayVerify` / `RelayAnswer` because the relay is
awaited; `RelayAnswer` / `RenewCreds` / `RenewIssue` because the clock is read for
`remaining > 0`, then the table is locked, maybe after a wait, and `issue_session` reads
the clock again. Between the first and the last the cookie may run out, and the renewal
then brings the session back: `LapsedSessionsDrain` says that nothing else does.
`EndedStaysEnded` says that a session none of whose cookies passes, and that no request
is carrying, never comes back, but by a clear or another environment. `MaxCookies`
bounds the cookies issued. Every cookie ever issued may come back: logging out only asks the
browser to forget it and changes nothing in the gateway. Time is in units of 3 h.

### DeviceGate

A request is looked up by `is_valid` (`IsValid`) and again by `route_for`
(`RouteFor`), then runs. A socket holds a presence guard from before the upstream
is dialled (`dialing`) to the end of its pipe (`piping`). Tokens come from
`confirm_handler` or `login_handler`: `Issue`, with any tenant. `Lapse` is the expiry
of the JWT. `RouteFor` may also refuse a live token, as `route_for` does when its read
fails. The sockets of the web face have keys of their own in `ws_sessions` and
behave the same.

`Gate` says what a token promises: while it is live it lets requests in, each in one
step; once revoked it lets nobody in, and it is revoked from its own tenant or by the
operator; the list of connected tokens is true after every step. `DeviceGate`
implements it (`GateSpec`). A request is inside from `RouteFor` on, and a token is
online when its counter is not zero; what the mapping hides is that there are two
look-ups, between which the row may be revoked, that the list is a counter kept apart
from the sockets, and the expiry of the JWT.

`Gate` also ties this module to `Pairing`, the other writer of the table: seen through
the rows of `tokens`, every step of the pairing face is `Gate`'s `Issue` or nothing
(`IssueSpec`). A confirm that is late can therefore not bring back a token revoked in
the meantime, and the `Issue` action of `DeviceGate` stands for all that pairing does.

### RateLimiter

`allow` is one step: it holds the lock and reads the clock inside. The `Vec` of an
entry is the set of its admissions, each with a number of its own because two may
fall on one instant; the code never looks at their order. `admitted` remembers every
admission (history), where the code only keeps those of the last window. The three
limiters of the gateway are three instances that share nothing.

### WsRelay

One socket of `relay_websocket` and `pipe_after_upgrade` (`relay.rs:259-407`). A
direction is named by where its bytes go, `"down"` to the client and `"up"` to the
upstream. `sent` and `closed` belong to the peers; `got` is how far the gateway has
read, `held` what it has read and not passed on, `out` what it has delivered, `fin`
that it has shut the receiver's side down. `held["down"]` is the code's `buf`, then
`leftover`, then a buffer of the copy; a byte is a value told apart from CR, LF and
the one that stands for "101".

| Code | Action |
|---|---|
| `connect_target` | `Dial` |
| `write_all` of the request | `Ask` |
| one `read` of the handshake loop: bytes, none, an error | `Reading`, `ReadNone`, `ReadError` |
| `on_upgrade.await` | `Upgrade` |
| `write_all` of the leftover | `Flushing`, then `StartCopy` |
| `copy_bidirectional` | `Copy(d)`: `CopyRead`, `CopyWrite`, `CopyEnd` |
| an error of either socket in the pipe | `PipeError` |
| the handler is dropped with the client's connection | `ClientGone` |

`Reading` is a read *and* what follows it: `find_head_end` over all that was read,
the status line, the leftover, the size limit. `Refuse` drops the guard on every
path. That the 101 cannot be built (`relay.rs:366`) is left out: it is made of a head that
was parsed. The two peers and what `copy_bidirectional` does inside are not under `src/`;
they are marked external and modelled as the code relies on them. `DeviceGate`
composes with this module by the presence guard: it is held from before `Dial` until
`Over`.

`Stream` says, of one direction, that the receiver gets what the sender said, in
order and nothing else, and is told of the end only when all of it has arrived.
`WsRelay` implements it twice: `Down`, where what is said is all that follows the
upstream's head, and `Up`.

## 3. Runs

| Run | Question | Distinct states | Bounds |
|---|---|---|---|
| `PairingRaces` | What can two interleaved requests, faults and the clock do to codes and claims? Does pairing implement `Grant`? | 234 k | 2 requests, 2 pairings, 1 code, 1 claim, 2 tokens, 7 units (a code is reused at 6), TTLs 2 : 1 : 6 as in the code |
| `PairingTenants` | Do anchors and port ownership hold when registries change under a request? What can a tenant still do that is revoked or has lost a port? Does pairing only issue on the shared table? | 755 k | 1 request against 2 tenants and the operator, 2 ports (1 in range), 2 pairings with the same code, TTLs 1 : 1 : 2 |
| `PairingLiveness` | Does a spent claim yield its token, and is one ever lost? How many claims can one pairing spend? | 181 k | 2 requests, 3 claims on 1 pairing, no faults |
| `WebFace` | Which cookies are accepted after passwords, environments and time have moved and reads have failed? What brings a session back that ran out or has ended? | 1.1 M | 2 requests, 1 login and its renewals, 3 cookies, 3 password changes, 18 h |
| `DeviceGate` | Is the presence count exact, revocation effective and fenced? Does the gate implement `Gate`? | 18 k | 3 requests, 2 tokens, 2 tenants |
| `RateLimiter` | Is the window exact? | 484 k | 2 keys, 2 admissions per 3 instants, 8 instants |
| `WsRelay` | Is each direction of a relayed socket faithful, does it end, and in how many steps? | 14 k | reads of 1 to 3 bytes, head limit 6, copy buffer 2, eight upstreams (up to 10 bytes), a client that says two bytes |

Why these are enough. Two requests are what a race on a row needs; the third
party of the interesting cases (operator, clock, sweep, crash) is not a request
and is always there. One code suffices to speak of collisions, two pairings of
reuse; the clock runs past the reuse window. `PairingTenants` needs no second
request: what may change under a claim is changed by the registry's own actions.
In `WebFace` three changes are the fewest that bring a version back (set, clear,
set), and 18 h and three cookies let a renewed cookie be renewed; one login and the cookies that
descend from it suffice, since a cookie is judged by itself. Three sockets tell "one less" from
"none", and two tokens one that revokes from one that is revoked. Two full windows and a bit show every alignment of a window of three. The eight
upstreams of `MCWsRelay` have a head that ends before, at and past the limit, a blank
line that falls across reads, one more in the payload, a refusal, an empty head, a
"101" outside the first line, and a head without an end; each may stop anywhere.
The theorems of section 4 have no bounds.

Fairness. `PairingLiveness` and the three violation runs of `MCPairing` assume weak fairness of `Continue(w)`, the next call of a handler that has begun. A
handler of the pairing face awaits nothing between its database calls, so once it
runs it finishes unless the process stops (`Faults` is off there). A claim that is
only authenticated still waits for its body, and is excluded. Neither the clock,
nor a client, nor the operator is assumed to act. `WsRelay` assumes weak fairness of
the gateway's own steps and of each direction of the copy: its task is woken whenever a
socket can go on, a dial ends one way or the other, the server resolves every upgrade,
and a peer that has not broken off keeps taking bytes. Nobody has to say or to end
anything, and no error has to happen: an upstream that accepts and stays silent keeps
its request in `reading` for ever, which is why `BothEndedIsOver` has to begin with both
sides' end.

### What the documentation says and the code does not do

Each has a run that TLC refutes.

* `AnchorIsActive`: "必须是已登记的活跃租户" (`pair.rs:42-43`, again at 154). `tenant_by_id`
  ignores `revoked`, so a pairing is anchored to a tenant that cannot answer.
* `NoDanglingOffer`: "不创建悬空 offer" (`pair.rs:305`). `pairing_by_code` ignores expiry and
  does not sweep, and the insert does not look again.
* `ClaimOnOwnPort`: "登记表是唯一仲裁者" (`README.md:115-116`). The registration may be
  removed, or go to another tenant, between the check and the insert.
* `OldSessionsDie`: "改密即全量旧会话失效(版本号入签名域)" (`README.md:64`). Clearing the
  password deletes its version, the next one starts again at 1, and cookies of the
  first are good again.
* `LoggedInWithThisPassword`: the same sentence. A renewal signs under the password
  read after the relay, so a request under way while the password changes takes its
  session across.

The last two do hold under conditions, which are proved. `SetsEndSessions`:
`OldSessionsDie` holds of an operator who only sets passwords, never clears one and never
starts with another environment, whatever reads fail. `QuietChanges`:
`LoggedInWithThisPassword` holds if, besides, no read fails and no change finds a login
or a relayed session under way. The reads matter even then: one that fails
falls back to the environment's hash, admits a cookie of its version 0, and the renewal
signs that session under the row's version.

Not behaviours, so not in a model: `config.rs` says of `web_port` that 0 closes the
face, `main.rs` then binds a port of the system's choice; `README.md:41` gives 0.0.0.0
as the default bind, the code 127.0.0.1; the comment on `pairing_sweep` promises to
delete secrets of consumed rows, the statement does not; `admin_web_password_get`
reports version 1 for an environment hash whose sessions are signed under 0;
`main.rs:98` says that the end of one listener ends the process, `join!` waits for all.

Not a divergence, and worth knowing: "单次消费" is about a *claim*. Two confirms of one
*pairing*, with two claims, may both pass the status check and both be granted;
`BoundedOvergrant` says how far that can go.

## 4. Proofs

| Theorem | Says |
|---|---|
| `TypeCorrect` | `[]TypeOK` of `Pairing` |
| `SingleUse`, `Fenced` | `[]ClaimSingleUse`, `[]AnchorFence` |
| `UniqueCode`, `Quarantine` | `[]UniquePendingCode`, `[]CodeQuarantine` |
| `SpentForGood`, `ConfirmedMeansSpent`, `StatusIsTrue` | `SpentStaysSpent`, `[]ConfirmedHasClaim`, `[]StatusNamesAGrant` |
| `Authorised`, `Overgrant` | `[]PortAuthority`; `[]BoundedOvergrant` without faults |
| `GrantsKept`, `RevokedDrains`, `LostPort` | `[]NoGrantLost` without faults; `RevokedTenantDrains`, `LostPortDrains` |
| `Implements` | `Spec => GrantSpec`: pairing implements `Grant` |
| `IssuesOnly` | `Spec => IssueSpec`: on the shared table pairing only makes `Gate`'s step `Issue` |
| `WebTypeCorrect`, `Rotation`, `Lapse`, `Ends` | `[]WebTypeOK`, `[]RotationEndsSessions`, `LapsedSessionsDrain`, `EndedStaysEnded` |
| `SetsEndSessions`, `QuietChanges` | `[]OldSessionsDie`, `[]LoggedInWithThisPassword`, under the conditions of section 3 |
| `GateTypeCorrect`, `RevokedStaysOut`, `Fence`, `Presence` | `[]GateTypeOK`, `RevokedAdmitsNobody`, `[]RevokeFence`, `[]PresenceExact` |
| `GateImplements` | `Spec => GateSpec`: the device gate implements `Gate` |
| `LimiterTypeCorrect`, `WindowBounded`, `NeverRefusedEarly` | `[]LimiterTypeOK`, `[]WindowBound`, `[]RefusedOnlyWhenFull` |
| `WsTypeInvariant`, `HeadLimitHolds`, `OrderlyEnd` | `[]WsTypeOK`, `[]HeadLimit`, `[]OrderlyEndLosesNothing` |
| `DownImplementsStream`, `UpImplementsStream` | `Spec => DownStream`, `Spec => UpStream`: each direction implements `Stream` |
| `EndIsBounded` | `WindsDown` |

They assume the named assumptions on constants and nothing else: the special values
are distinct from the ordinary ones, times are naturals, and (`DeviceGate`) the
requests in flight are finitely many. Ids, codes, tenants, ports, bytes are any sets,
the upstream may say anything, and `Pairing` may have any number of requests. Four
theorems take more, in their statement: `Overgrant` finitely many requests and no
faults, `GrantsKept` no faults (a crash between the consume and the insert loses the
claim), `SetsEndSessions` and `QuietChanges` the conditions named above. `QuietChanges`
has one on the behaviour too (`ChangesFindNoSession`), which is how it says "if nobody is
in the middle of a request when the password changes".

*`SingleUse`, `Fenced`.* `ClaimSingleUse` speaks of tokens already issued; a step that
issues one needs to know about the requests about to. `GrantInv` says, of a request
between its consume and its insert: the claim's port and tenant are still what it
read (`SnapshotTrue`), it alone holds that claim and no token has it (`Held`), its uuid
is its own (`Named`); of a consumed claim, that the pairing it was taken for admits its
tenant (`Taken`), and of a token that it carries its claim's port and tenant (`Bound`).
`GrantInvariant` proves it inductive with one step per group of actions.

*`UniqueCode`, `Quarantine`.* `CodeInv` adds that no row was created in the future, so a
row inserted now is at least the window away from every earlier row of its code.

*`Implements`.* A claim is the abstract offer, a token the abstract grant. The sweep is
`Lapse` (of none, some or all that ran out: a batch that fails is a stutter),
`ClaimInsert` is `Offer`, `ConfirmConsume` is `Take`, `ConfirmInsert` is `Issue`, all else
stutters. `Issue` demands that the claim is consumed and that no grant has it: `GrantInv`.

*`IssuesOnly`.* Only `ConfirmInsert` writes `tokens`. That the row was not there is `Named`
(a request's uuid is its own until it inserts), that its tenant is one is typing.

*`GrantsKept`* needs no strengthening: a request past the consume has only writes left,
none of which looks at the database again, and only its own steps move it.

*`RevokedDrains`.* `ActingStep` says that a request takes on a tenant's authority in
`TenantAuth` alone, which finds the tenant active, and `OfferLeaves` that `ClaimInsert`,
the one step that makes an offer, ends its request.

*`LostPort`* has the same two halves. `ArbitrationStep`: a tenant's request passes
`ClaimHost` on the registration as it is, for it is its own context that is compared
(`PortInv`) and a read that fails only makes a port look free, which is not enough for a
tenant. `ArbitratedLeaves`: the offer ends the request that makes it.

*`Rotation`.* `Behind` says of every cookie, and of every login that has read the
password and not answered, that it was signed at no later epoch than now, under no
greater version, and under a smaller one if earlier, unless a reset lies between.

*`Lapse`.* A request that is relayed was admitted with a cookie that was issued
(`Presented`); a renewal decided before that cookie runs out is decided while its login
has a live one (`DecidedInTime`). A cookie of a login that has one already comes from
`RenewIssue` alone, and ends its request (`NewCookies`).

*`Ends`.* What may be read (`Creds`) changes, short of a clear or another environment,
only to the next version, and `Behind` puts every cookie signed since the last of those
at the version in force or below: one that does not pass now never will (`NeverPasses`).
A request takes up a session with a cookie that passes, and only so (`UnderWay`).

*`SetsEndSessions`, `QuietChanges`.* An operator who only sets passwords never resets the
version (`NeverReset`), so `RotationEndsSessions` covers every cookie. For the second, the
row's version counts the passwords: the version of a cookie, and of one about to be
issued or renewed, is the epoch of the password its user typed (`Counted`). This is
where a change that overtakes a request, or a read that fails, would break in.

*`Presence`.* The count is the cardinality of the sockets that hold a guard; entering
adds one that was not there, dropping removes one that was, so the count is not zero
and `saturating_sub` never saturates.

*`GateImplements`* rests on it: only because the counts are true is the list of tokens
with a count, after every step, that of the tokens whose requests are sockets. The
second look-up is the instant a request is let in; `is_valid` stutters.

*`StatusIsTrue`, `ConfirmedMeansSpent`, `SpentForGood`* (`OfferProofs`). Two lemmas,
`ClaimChanges` and `PairingChanges`, say once what any step may do to a claim's and to a
pairing's row; the theorems then only look at those changes.

*`Authorised`.* `PortInv` carries the port of a token back to the claim, to the request
that inserts it and to the registration that request read (`everOwned`), since the
registration itself may be gone by then.

*`Overgrant`.* `OvergrantInv` counts: the claims spent on a pairing (`Takers`) and the
requests that have read it as pending and may still spend one (`Askers`) are together at
most the requests in flight. Until the status is written, every spent claim has a
request of its own before that write (`Payers`); once it is written, without faults,
nobody joins the askers any more.

*`WindowBounded`, `NeverRefusedEarly`.* An entry holds every admission of the last window
(`NoneLost`), so a call that is admitted joins fewer than the maximum in every window it
falls into (`WindowsFull`), and one that is refused has as many before it.

*`WsRelay`.* `IInv` is `Flow` (`out`, `held` and the rest of `sent` are what was said, cut in
three) and `Phase` (what each phase holds: nothing yet, all that was read, what followed
the head). It needs to know that a head once found stays where it is when more is said.
The bounds, the head limit and both refinements follow from it.

*`EndIsBounded`.* `Remaining` is the number of phases to come and, for each
direction, two for a byte not yet read, one for a byte held and one for an end not yet
passed on: reading turns two into one, delivering one into none. Once both sides have
ended there is nothing to add to it, and each step takes some away.

Only model-checked are the liveness properties `GrantCompletes`, `BothEndedIsOver` and
`Delivered`: fairness and ENABLED are out of this prover's reach. Of the first two the
part that is about states is proved: a spent claim always has its token or a request
with only writes left (`GrantsKept`); a socket both sides of which have ended has a
bounded number of steps left (`EndIsBounded`). Every invariant, action property and refinement of the runs is proved,
the two that a run refutes under the conditions named.

## 5. Not modelled

* The routers and the configuration are read once and hold no state; the two doors of a
  claim are `TenantAuth` and `OperatorAuth`, values that matter are CONSTANTS, and a
  restart is an action of each module with memory (`Crash`, `Restart`).
* Start-up creates the tables and adds the columns that are missing, each idempotent
  and before any listener runs, so no request sees them change.
* An HTTP relay, rewriting headers, redirects, the CSRF and path filters of the web
  face, the QR and the landing page are functions of one request and change nothing.
* JWT, argon2 and HMAC are abstracted to unforgeability; errors to the refusal.

Four hazards have no property. A socket that outlives the revocation of its token
(`relay.rs:399`) is modelled, in `Gate` too, and no document says what should happen. An
upstream that accepts and says nothing (`relay.rs:306`) keeps its request and its count
for as long as the client stays; `WsRelay` lets it, and no document promises a timeout.
A client that does not take the leftover (`relay.rs:393`) holds up what it says itself,
and taking it ends that. The limiter's table (`auth.rs:115`) grows with the number of
keys, which an instance fixes.
