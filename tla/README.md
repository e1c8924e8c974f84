# IdpForge in TLA+

IdpForge is an identity provider: one Go binary that signs people in, decides
what they may do (RBAC), acts as OpenID Connect provider for other applications,
records an audit log and serves a web application. Several instances can run
against one database and one Redis; a small installation runs one instance with
SQLite and an in-memory cache.

This directory holds specifications of the parts of it that are hard to test:
where requests overlap, where a read is used after something else has written,
where a process dies half way, where a queue is full, where something must
happen in the end. Source paths below are relative to `src/`.

## 1. Inventory

| component | state | operations | what is hard about it | status |
|---|---|---|---|---|
| RBAC (`internal/rbac`) | eight tables, cache entries `rbac:user:<id>` | Resolve, HasPermission, 14 administrative writes, each followed by an invalidation | resolutions read query by query and cache the result while writes invalidate; group trees can be deep or cyclic | `GroupHierarchy`, `RbacCache`, `AccessProofs` |
| leader lease (`internal/leaderlease`) | one row per job in `leader_leases` | New, TryAcquire | three unguarded statements per call, on a clock of each instance's own; crashes | `SingleLeader`, `LeaderLease`, `LeaderLeaseProofs` |
| audit writer (`internal/audit/writer.go`) | channel, batch, table | Log, run, Stop | bounded channel, batching, timer, shutdown racing handlers, failed inserts | `LossyLog`, `AuditWriter`, `AuditWriterProofs` |
| OIDC provider (`internal/auth/oidc`) | codes and refresh tokens in the cache | Authorize, ExchangeCode, RefreshTokens, ClientCredentials | read, delete and store are separate cache calls; chains of refreshes | `OidcProvider`, `OidcProviderProofs` |
| sign-in and sessions (`internal/httpserver`: auth, me, session, users handlers) | failure counter, lock and sessions in the cache; hash, flag and status in the table | login, logout, password change, reset, status, offboarding | a check in one place and its effect in another, with expensive hashing in between | `LoginSession`, `SignInProofs` |
| cache (`internal/cache`) | keys with expiry, in memory or in Redis | Get, Set, Delete, DeletePrefix, Increment, Publish, Subscribe | volatile, can fail, prefix deletion is not atomic on Redis | in the modules of its callers |
| second factors (`internal/mfa`, `internal/webauthn`) | TOTP secret, credentials, one shared `mfa_enabled` column, challenges in the cache | enroll, confirm, disable, begin and finish a registration, the second step of the login | two factors share one flag; lists are read, changed and written back; flag and secret are read by two queries | `SecondFactor`, `SignInProofs` |
| realtime hub and bell (`internal/httpserver/ws.go`, `web/lib/ws.ts`, `web/components/AppShell.tsx`, announcements) | set of connections, Redis subscription; a socket and a list per tab | connect, broadcast, relay, disconnect, reconnect; post, load the list | fan-out between instances; several deliveries at one connection; dying connections and processes; a list loaded while events arrive | `LiveFeed`, `LiveFeedProofs` |
| web application (`web/app`, `web/lib`, `web/components`) | per page what each answer filled, its id, offset, range or filter; what `/me` said | load, page, filter, search, and some twenty-five operations with their refreshes | nothing is cancelled: answers overtake each other and come after the page moved on; two tables of permissions, in the pages and in the router | `ConsolePages`, `Console`, `ConsoleProofs` |
| background jobs (`cmd/server/main.go`) | last observed health, announcements | health alerts, update check, metrics samples | run under the lease; per-instance memory of what was last said | not modelled (section 7) |
| IoT (`internal/iot`) | devices, credentials of users, events | check-in, add and delete a credential | credentials of one check-in are resolved one by one; the event is recorded and then counted; the day may end in between | `DeviceCheckin`, `DeviceCheckinProofs` |
| API clients (`internal/apiclient`, `actor.go`, `permission.go`, `router.go`) | clients with scopes | authenticate, pass the gates of a route, create scope by scope, delete | which checks a route meets depends on registration order and prefixes; scopes are checked one by one while permissions change | `ApiClients`, `AccessProofs` |
| bootstrap and migrations (`internal/bootstrap`, `internal/db`) | schema version, first account | run at every start | several instances starting at once; half-done creation | not modelled (section 7) |
| audit queries, settings, configuration, middleware, forward auth, metrics, captcha, storage, images, scripts | none, or single statements | | one decision per request, I/O, or presentation | not modelled |

How they interact: every request handler authenticates by a session or an API
client (`actor.go`), asks RBAC for a permission (`permission.go`), calls its
repository, and logs an audit entry. RBAC, sessions, the lockout and OIDC keep
volatile state in the one cache. The background jobs call `TryAcquire` before
each tick. Shutdown stops the HTTP server, then the audit writer
(`cmd/server/main.go:178-190`). Every audit entry and announcement is also broadcast
by the hub, whose listeners are the tabs of the web application; the rest of
what a tab does are calls of the same handlers.

## 2. Modules

### GroupHierarchy, RbacCache, MCRbacCache, AccessProofs
`GroupHierarchy` has the parent maps a database can hold (the schema refuses no cycle,
though `CreateGroup`, the only writer, makes none), `Ancestors`,
the reference definition: the least set that contains the start and is closed
under `parent`, and `expandAncestorGroups` (`resolve.go:112-151`) as it is
written: for each of the user's groups in the order of the rows, `WalkUp` to the
root, to a group seen before or to the guard (`MaxDepth`, 100 in the code). `Rounds`
is where the inner loop is before each of its rounds, `Walks` what the outer one
has seen after each row; both are functions over the iterations.

`RbacCache` has the tables of `0001_init.sql`, the cache, and two kinds of
goroutine. A *request* is inside `Resolve`: `Lookup` or `Hit`, then a step for
each query of `resolveFromDB`, then `Fill` (the `cache.Set`), then `Return`;
`QueryFails` may end it at any query. An *admin request* executes one statement
(`CreateRole` ... `RemoveUserFromGroup`, and `DeleteUser` for the handler in
`users_handlers.go`), which puts the keys it is about to invalidate in `todo`;
`DeleteKeys` removes them, all at once for the in-memory cache, in any pieces
for Redis, and `InvalidationFails` gives up on them. `ForeignKeys`, chosen at
the start, says whether `ON DELETE CASCADE` is executed.

History variables: `doubt`, the requests a concerning write overlapped, and
`suspect`, the users whose entry came from such a request or outlived a failed
invalidation. They make the guarantee the code does give precise.

### SingleLeader, LeaderLease, LeaderLeaseProofs
`SingleLeader`: nobody leads, or one does; a leader steps down before another is
elected. `LeaderLease`: each instance runs Begin, Delete, Insert, Update, the
clock reading and the three statements of `TryAcquire`, interleaved with
everything else. Times are kept relative to the present (`left`, `age`,
`lease`), and those too old to matter stop at a floor, so the state space is
finite though time is not bounded. `Tick` lets a call last at most `MaxCall`.
An instance `Leads` while what is left of the lease it last won, by its own
clock, is at least `Spread`: that is what a job may count on when clocks differ
by up to `Spread`. Crashed holders are `Gone`: their holder id is never drawn
again. `driver`, chosen at the start, is what `RowsAffected` counts (`Affected`): the
rows an UPDATE matched, or, as with MySQL, whose DSN is opened as it is configured,
those it changed: there the UPDATE that rewrites what the INSERT of the same call has
just written answers 0.

### LossyLog, AuditWriter, AuditWriterProofs
`LossyLog`: entries are accepted at one end and leave at the other in whole
prefixes, into the table or lost. `AuditWriter`: handlers call `Log` in two
steps (before and after the `onLog` callback), the loop of `run` is `Receive`,
`Timer`, `StopSeen`, `DrainOne`, `DrainEnd` and the flush. `FlushFails` is an
INSERT that fails, by itself (`DbMayFail`) or for its rows (`BadEntries`, an
`actor_id` the column refuses; more than `MaxRows` rows). With `LateHandlers`
handlers outlive `ShutdownWithTimeout`.

### OidcProvider, MCOidcProvider, OidcProviderProofs
Codes and refresh tokens are numbered in order of issue (their values are
UUIDs); the records they stand for are kept for ever in `codes` and `tokens`,
`liveCodes` and `liveTokens` say which the cache still has. A token request is
`Receive` (parsing and `authenticateClient`), then the steps of its grant: a
read, a deletion, the issue. The cache may answer each call with an error and a
restart may empty it. S256 is an injective function.

### LoginSession, MCLoginSession, SignInProofs
One account. `handleLogin` is BeginLogin (accountLocked), VerifyPassword,
GetUser, VerifyCode, then Count and Lock (`recordLoginFailure`) or ClearFailures
and CreateSession. `handleChangePassword` is BeginChange, VerifyCurrent,
SetPassword, ClearMustChange. Administrators reset and set the status. Counter,
lock and sessions expire at any time, as the cache's clock says. Everything overlaps
everything, and every call can fail as the code lets it: the lockout's Get counts as
unlocked (`BeginLogin`), an error of its Increment leaves a failure uncounted
(`CountFails`), one of its Set the account unlocked (`LockFails`), Logout answers
whether or not the session was deleted, and an UPDATE may have been executed
(`ChangeFails`). History: `guesses`, the wrong passwords and codes examined since the
account was unlocked or its counter expired, and `faults`, the calls of the lockout
that failed since; `ended`, sessions logged out, and `suspect`, those whose logout
failed or fell into a change made with that session; `owing`, a reset nobody has made
good, `proved`, requests that may make it good, and `exposed`, a reset that fell
between a change's check and its UPDATE.

### SecondFactor, SignInProofs
One account's `mfa_enabled`, `mfa_secret` and keys, the pending challenge, and
requests that are between two queries: `CheckCode` and `EnableTotp` (Confirm),
`FinishRegistration`, `Load` and `Save` (AddCredential), `BeginSignIn`,
`ReadFlag` and `Verify` (handleLogin after the password). `Enroll`, `Disable`
and `BeginRegistration` are one statement or cache call each. A secret is its
place in the order of enrolments, a code the secret it was computed from. All of it
overlaps. History: `off`, `accepted` and `unasked` record what the factors were while a
sign-in ran; `setBy` what set the flag last, where `undone` are the confirmations a
disabling has fallen into; `missed` the keys that appeared since a registration read the
list.

### DeviceCheckin, MCDeviceCheckin, DeviceCheckinProofs
The credentials of users, the events of a day and check-ins of an authenticated
device: `Receive`, one `Resolve` per credential (`Agree` compares), `Record`,
`CheckAccess`, `Count` (HasEventToday) and `Finish`. Meanwhile credentials are
added and deleted, users deleted, and the clock passes midnight. `clock` is the
day a check-in read from the clock, first for the event it records and then for
the count. History: `held`, whose each scanned credential was since a check-in
began; `deserved`, whether that bears out the status of each event; `answers`,
what the readers were told.

### ConsolePages, Console, MCConsole, ConsoleProofs
`ConsolePages` is one table per page: the GETs that fill it (`...Loads`), the panels
it is made of, what they show and offer and to whom (`...Panel`), the link that
leads there (`NAV`), and on the other side what the router asks for (`ReadRoute`,
`Route`) and what an operation changes (`Touches`).

`Console` is one tab. Shell: `/me` answers, asks for a new password or fails;
sign-in, logout, reload. A page is mounted with its GETs; `ChangeAddress`, `Turn`,
`SetDays`, `ApplyFilter` ask again; `Press`, `Serve` and `Answered` are an
operation, whose success refreshes (`report()`, `handleCreate`) with the address
the button was pressed at. A GET is read by the server (`ServeLoad`) and comes
back (`LoadAnswered`) at different times, in any order; either half of any call
may fail. Ids, offsets and ranges of days are all `arg`. The pieces of state that
answers fill never read one another, so one of them, `slot`, is followed, chosen
at the start and any. `due`, `newest` and `doubt` number the GETs and remember
whether the last was lost, overtaken, or asked for from another address; `writes`
and `acked` count what the server has done and what the page has been told.

### LiveFeed, LiveFeedProofs
Every instance's hub, every tab's hook, and the bell. `Create` inserts an
announcement, `onAnnouncement` and `onAuditLog` begin a delivery (`deliverLocal`
fixes the connections, as the read lock does), `Write` is one `WriteMessage`,
`Finish` publishes, `Relay` handles a message of the channel, its own ones
skipped. Two deliveries at one connection are a `Clash`: the frames mix (`Garble`)
or the process panics (`Crash`). `Upgrade` decides what a connection may see, unless the
server refuses it (`Refuse`: 401 or 429, `router.go:24`, `41`, `103`); `add` and
`remove` wait for the lock. A publication may reach all subscriptions, some or none. A
tab mounts, connects, loses its socket (`onclose`), waits and connects again, and
unmounts; the bell loads its list once (`ReadList`, the latest `BellSize`) and puts
what arrives first (`Receive`, which drops one listed when the list is full; the order
of the list is abstracted, so which one is left open). `BellSize` is 20 in the code.
History: `cut`, announcements whose broadcast did not run its course; `exposed`, those
in flight while a tab had no list or no connection; `pushed`, those a full list dropped.

### ApiClients, MCApiClients, AccessProofs
`Stack` is what `registerRoutes` adds, in its order, with the rule
`router.go:105-113` describes: `Group(prefix, handlers...)` adds its handlers for
everything below the prefix. A request takes the entries that apply (`GatesOf`, places in
the stack) one by one (`Gate`), reading permissions anew each time (`known`, which
`Learn` changes), and then runs its handler; `handleCreateAPIClient` is `Ask`, `CheckScope` for each
scope, `Create`. Resources are paths; `Matches` is the comparison the code makes,
`Below` what a wildcard means. `held` and `source` are what the actor of a request
and the creator of a client have held.

## 3. Runs

Two workers, each well under five minutes. *Passing* runs:

| run | instance | shows |
|---|---|---|
| `rbac` | 1 user, 2 groups in any hierarchy `CreateGroup` builds, 1 role, 1 permission, 1 request, 1 admin request, with and without cascades, failing cache, fairness | `Fresh`: a cached entry that differs from the tables is about to be deleted or is one of the suspects, and an answer no write overlapped is what one consistent read gives; `CacheConverges`: once administrators are done, the cache agrees with the tables from some point on. One user is enough because users share tables but never an entry or a key: what deletes the keys of all users in pieces is, for each of them, a deletion that comes later. Two groups make a chain; `CreateGroup` makes no cycle, so the run reaches none. The assumption `WalkReturnsAncestors` of its module compares the upward walk with `Ancestors` over every parent map on 4 groups, every start set and row order and guards of 1 to 4, cycles included |
| `lease` | 2 instances, lease 3, calls up to 2, skew up to 1, `RowsAffected` of either kind, failures and crashes, fairness | `OneLeader`, `LeaderHoldsRow`, refinement of `SingleLeader`, `Takeover`; `AnswerIsTruth` where rows matched are counted: on MySQL an instance can hold the row and be told it lost, and the property says nothing of that case. A call may last longer than what remains of a lease, which is when the statements can do harm |
| `audit` | 2 handlers, channel 2, batch 2, INSERT limit 3, 4 entries, every failure, fairness | `NothingAstray`, `StopDrains`, refinement of `LossyLog`, `EventuallyHanded`. Four entries fill channel and batch at once and make the drain exceed the INSERT limit |
| `oidc` | 1 confidential and 1 public client, 2 overlapping requests, 1 code, 2 refresh tokens, failing cache that a restart empties | `TracesToAuthorization`, `ProofPresented`, `ConsumedRightly`. Two tokens let a refresh follow an exchange, or two exchanges overlap |
| `login` | 2 requests, 2 passwords, lock after 2 failures, second factor on, 2 sessions, failing calls, 1 of them of the lockout | `GuessesBounded`: however many requests guess at once, the wrong answers `handleLogin` examines between two unlockings are at most the limit, one for each other request already past the check, and one for each call of the lockout that failed; `LoggedOutStaysOut` for sessions whose logout neither failed nor fell into a change made with them; `ResetForcesChange` for resets that fell into no change between check and UPDATE. The default and one other password are what is right and wrong before and after a reset; two sessions let one be changed with while the other is logged out |
| `factors` | 3 requests, 2 keys, 2 secrets, 1 ceremony, failing queries | `EnabledHasFactor`, `FactorAsked`, `KeysKept`, with every overlap. One ceremony is enough for any number of registrations, since none consumes its challenge; three requests are two registrations or confirmations and a sign-in; a second secret and a second key are what can replace, or be lost behind, the first |
| `checkin` | 2 overlapping check-ins of 1 or 2 credentials, 2 users, 2 credentials, 1 resource or none, 2 events, a midnight, foreign keys, failing queries | `StatusDeserved`: a recorded status is one the credentials justified at some time during the check-in; `NoSecondFirst`: two check-ins of one user and resource are both told that they are the first of a day only if neither's event is of that day, as when both are recorded before midnight and counted after, which the run reaches. Two users are what a credential can pass between, two check-ins are the least that overlap |
| `clients` | 1 user, 1 client at a time, 2 overlapping requests, 3 grants (everything, a resource, all below it), 4 resources, 4 routes | `NoEscalation`, `Gatekept`. The grants contain each kind of wildcard and a pair in which one covers the other but not conversely; the routes meet every kind of gate (none of their own, one of their own, one or two of a group, session only, key only) |
| `console` | every page and every slot, an administrator and a mere reader, 2 addresses (ids, offsets, ranges), 2 filters, 3 GETs for the slot and 2 operations per mounted page | `ShowsWhatItActsOn`, `ReadsOwnWrites`, `HiddenNotRefused` (of operations; what a page reads may be refused, section 6). Three GETs are what a move and an operation add to the first load, and enough for a late answer to overtake two others |
| `live` | 2 instances, 1 tab, an announcement posted before and a new one, a bell with room for one, 1 audit entry, 1 fault (a broken connection, a publication lost to some or all, or an ended process), refusals at any time, fairness | `DeliveryDiscipline`, `BellIsRight`, `LinksSettle`. Two events in flight are what can clash at a connection; an older announcement is what a full bell drops; two instances what an event goes round between; a panic may follow a clash in addition to the fault. A second tab shares nothing with the first but the lock, which a delivery holds either way |

*Violations*: each run checks one statement of the repository that the code
does not keep (section 6): `checkin_first`, `token_like_admin`.

`CHECK_DEADLOCK FALSE` is set where the system, or the bounds, stop it:
`audit` (all entries logged and the loop ended),
`oidc` and `login` (all codes, tokens or sessions used), `checkin` and
`checkin_first` (all events recorded and the day over), `live` (everything posted,
the tab gone).

Every property of a passing run has a mutant in PROJECT.json: a plausible slip
in one mapped definition, kept beside it as a "Seeded fault", under which TLC
finds the property violated.

## 4. Fairness

* `RbacCache`: an entry nobody touches reaches its TTL (WF of `Expire`;
  `memory.go:30-51`, Redis TTLs). Nothing forces requests to arrive, or those
  under way to go on.
* `LiveFeed`: a process that ended is restarted (the service manager does), a
  write to a connection ends since the peer reads or the kernel gives up, a tab's
  timers get their turn, a request to connect is answered one way or the other, and a
  read loop notices its connection is gone (WF of `Restart`, `Delivery`, `connect` or
  `onclose`, `Upgrade` or `Refuse`, `add` or `remove`). Nothing forces the answer to be
  an upgrade: `LinksSettle` says of each tab that it is refused again and again, as one
  whose session has ended is, or settles. Beyond that it needs only that
  connections break finitely often, which the bound says; a clash may still end a
  process, which the bounds on events make finite as well.
* `LeaderLease`: time goes on, and an instance that is up keeps calling and
  finishes its calls (`main.go` runs each job on a ticker). `Takeover` is stated
  for behaviours in which crashes and statement failures eventually end; no
  fairness promises that. On MySQL only a renewal of a row that is still there answers
  that it won, so there `Takeover` also asks that from some time on no call finds the row
  expired (`Expires`): the jobs call every interval for a lease of two (`main.go:263`,
  `301`).
* `AuditWriter`: a handler finishes its call, the loop its flush and its drain
  (WF); Go's `select` chooses uniformly among the ready cases, so a case ready
  again and again is chosen (SF of `Receive`, `Timer`, `StopSeen`).
* The other modules state no fairness and no liveness: their requests may stop
  at any step, which only adds behaviours to those the invariants hold of.

## 5. Proofs

`LeaderLeaseProofs` proves for every set of instances, every duration, call
length and spread, with or without failures and crashes:

* `TypeCorrect`: `Spec => []TypeOK`
* `AtMostOneLeader`: `Spec => []OneLeader`
* `RowOutlivesLease`: `Spec => []LeaderHoldsRow`
* `LosersHoldNothing`: `Spec => []AnswerIsTruth`
* `Implementation`: `Spec => ImplementsSingleLeader`

The only assumption is `LeaseAssumption` (the numbers are naturals, `NoOne` and
`Gone` are no instances and differ). `OneLeader` is not inductive: nothing in it
stops an `Update` of an instance that lost its row from shortening, or a
`Delete` with an old clock reading from removing, a row somebody counts on. The
strengthening `IInv` adds `LeaderHoldsRow` (a leader's row is its own and
outlives its lease: then two leaders would both be the row's holder) and
`RenewalExtends` (a running call of the leader computes an expiry no earlier
than what its lease still promises, because `lease` and `age` move in step).
The proof has a step per action; `Delete` is the interesting one: a row some
leader counts on has at least `Spread` left, and no clock is ahead by more.
`Implementation` then needs that a leader's successor is not elected in the
same step, which follows from `LeaderHoldsRow` before and after it.
`LosersHoldNothing` needs only the types and `NotYetAnswered`, that a call under
way has not answered: an instance could otherwise insert a row with the answer of
its last call still standing. It is a theorem about Postgres, SQL Server and SQLite;
MySQL is excepted in the property itself. The other theorems hold with either driver.

`AuditWriterProofs` proves for every number of handlers and entries and every size
of channel, batch and INSERT, with or without failing inserts, refused entries
and handlers that outlive the shutdown:

* `TypeCorrect`: `Spec => []TypeOK`
* `NothingGoesAstray`: `Spec => []NothingAstray`
* `StopHasDrained`: `Spec => []StopDrains`
* `Implementation`: `Spec => ImplementsLossyLog`

under `WriterAssumption` (sizes are positive, the flags Booleans). `NothingAstray`
needs only the types. `StopDrains` is about the end of the loop; its
strengthening `KeepsPromise` says what must be in the last batch while that is
flushed, which `NothingAstray` gives at the moment the drain finds the channel
empty, and `DrainsAfterStop` that the promise does not change any more then.
`SelectHasRoom` is what keeps the batch within its size. In the refinement an
entry the loop takes from the channel is a stuttering step, a flush writes or
loses the prefix that is the batch. The three lemmas on sequences at the head of
the module are about concatenations only.

`ConsoleProofs` proves for every set of permission sets, any
number of addresses, of GETs and of operations per page (`ConsoleAssumption`: the
bounds are naturals, and there are two addresses at least):

* `TypeCorrect`: `Spec => []TypeOK`
* `NothingOfferedInVain`: `Spec => []HiddenNotRefused`
* `PageShowsItsAddress`: `Spec => []ShowsWhatItActsOn`
* `PageShowsItsOperations`: `Spec => []ReadsOwnWrites`

`NothingOfferedInVain` needs of the state only that the page is one: the work is in
`PanelsAreGated`, which goes through the tables and shows that whatever a panel
offers needs what its gate or the page's link asks for, or nothing. The other two
are not inductive, as they speak of the moment when no answer is missing. The
invariant `IInv` says why that moment can be trusted: GETs are numbered, and the
last one is either under way or came back (`Numbered`); it asks for the page's
address and filter, and was read after every operation the page knew of when it
was sent, as each such operation sends another (`LastAsked`); once it has come
back it is what is shown, or `doubt` says otherwise (`LastShown`). `ToldOfDone` is
what makes reading later enough: the page has been told of no more than the
server has done, and writes are never undone. The proof has a step per action,
and three kinds of them matter: those that ask (`AskAnswers`), GETs that come
back (`LoadGone`), and `Answered`, which raises `acked` and asks in the same step.

`LiveFeedProofs` proves for any number of instances, tabs, announcements, audit
entries and faults and any size of the bell, given that no announcement is an audit
entry, that what was posted before are announcements, and that the bounds are naturals
(`LiveFeedAssumption`):

* `TypeCorrect`: `Spec => []TypeOK`
* `WrittenOnce`: `Spec => []DeliveryDiscipline`
* `BellShowsAll`: `Spec => []BellIsRight`

The run has one tab and two instances; the theorem has no such bound, so it is
also about several tabs at one instance and an event that goes round among many.
The invariant follows an event on its way: what has not begun is nowhere
(`Unbegun`); a post is all there is of its announcement (`PostAlone`); the delivery
where it was posted is then all there is of it, and only connections of that
instance have had it (`FirstAlone`); afterwards each other instance has one
message of it or one delivery, and whoever that is still for has not had it
(`OneChance`). `LeftHeld` is what the hub's lock is for: the connections a delivery
has left are there, at its instance, and may see what it delivers. `Named` makes
the pair of tab and count a name. `Write` is the step that uses them all; `remove`
and `Crash` are those that would break `LeftHeld` without the lock, or if a process
kept anything.

`BellIsRight` speaks of announcements that have come to rest. The invariant for it,
`BellInv`, says why they come to rest on the list: while one is in flight, a tab with
a right to all of it and room for it (`Entitled`) is connected and known to the hub
(`Settled`, from what `exposed` records); it is listed as often as it was written to the
tab's one connection, and if that is not yet, it is still due there (`Due`): as a post,
as a delivery with that connection left or one that will be published, or as a message
to that instance (`Told`, `ListRight`). What a full list drops is `pushed` from then on,
and every other entry is listed as before (`ReceiveLists`). `SnapshotRight` is the same for an answer that is yet to be
handled. `Finish` is the step the argument turns on: the first delivery may only end,
without `cut` saying so, with a message to every process that runs, which is where
connections are (`AtUp`). With `DeliveryDiscipline` a count of writes is 0 or 1, so
what is no longer due has been listed once.

`OidcProviderProofs` proves for any number of requests, clients, users, verifiers and
redirect URIs, any bounds, and a cache that answers with errors or is emptied, under
`ClientAssumption` (public clients are clients, and what each registers are URIs) and
`BoundAssumption` (bounds are naturals, flags Booleans):

* `TypeCorrect`: `Spec => []TypeOK`
* `NothingWidens`: `Spec => []TracesToAuthorization`
* `ProofIsAsked`: `Spec => []ProofPresented`
* `UsedUpRightly`: `Spec => []ConsumedRightly`

The run has one code and two refresh tokens, so its chains are of length two; the
theorems are about chains of any length. What a request has checked must still be
true when it issues: records never change while the cache forgets them, so `Checked`
(a request about to issue has compared the verifier, the URI and the client with the
record of its code, or the client with that of its token) survives every step of the
others. `CodesRegistered` and `AnsweredRequests` say where codes come from and that
what a token answers exists; then the token a refresh issues traces back to the
authorization of the one before it.

`SignInProofs` proves for any finite set of requests, any passwords, sessions
and number of attempts, with and without a second factor (`LoginAssumption`):

* `TypeCorrect`: `Spec => []TypeOK`
* `GuessesAreFew`: `Spec => []GuessesBounded`
* `NoSessionRevived`: `Spec => []LoggedOutStaysOut`
* `ResetIsHeeded`: `Spec => []ResetForcesChange`

with every overlap and failing calls; the races that do go wrong (section 6) are
exceptions the properties name. `GuessesBounded` is not inductive. `Guessing` counts
the requests at each stage: a wrong guess is in the counter, about to be, or a call
failed to count it; until the account is locked, all but `MaxAttempts - 1` of them
belong to requests still counting; from then on the guesses made and the requests that
may still make one are together no more than the bound, since nobody new passes
`accountLocked`; and each failed call makes it one more throughout. The lemmas at the
head of the module are about the cardinality of the set of requests at a label when one
of them moves. `NobodyBringsBack` says of a session whose logout is not suspect that it
is not valid and that no change made with it is under way, which lasts because a change
begins with a valid session only. `ResetStands` says that while a reset stands, whoever
is about to overwrite the password has proved to know what it was reset to.

The same module extends `SecondFactor`, which shares no name with `LoginSession`, and
proves for every number of requests, keys, enrolments and
registrations, with or without failing queries, with every overlap:

* `FactorTypes`: `FactorSpec => []FactorTypeOK`
* `FactorIsAsked`: `FactorSpec => []FactorAsked`
* `FlagHasFactor`: `FactorSpec => []EnabledHasFactor`
* `NoKeyLost`: `FactorSpec => KeysKept`

under `FactorAssumption` (the bounds are naturals, the flags Booleans), and nothing
`LoginAssumption` says. `FactorAsked` speaks of
sign-ins that have ended; its strengthening adds `OffIsKnown`: for one that has yet to
read the flag, either the flag is set now, or the history knows that it was off at some
time since the sign-in began. `EnabledHasFactor` is not inductive because `EnableTotp`
trusts an earlier query: `SecretToEnable` says the secret its request checked the code
against, or one enrolled since, is still there, unless a disabling fell in between.
`KeysKept` needs `ListsRead`: what a registration is about to write back lacks only
keys that appeared since it read. That the flag and its factor can part and that a key
can be lost are not hidden by a hypothesis: the two properties say in which steps.

`AccessProofs` proves for any number of users, roles, groups, permissions and
requests, with and without cascades and a cache that fails, under `NoGroupAssumption`,
`DepthAssumption` and `FlagAssumption`:

* `WalkReturnsAncestors`: whatever the order of the rows, `expandAncestorGroups`
  returns nothing but `Ancestors` of the user's groups, and all of them if none has
  more ancestors than the guard lets through
* `TypeCorrect`: `Spec => []TypeOK`
* `OnlyOverlapsGoStale`: `Spec /\ []Shallow => []Fresh`
* `FewGroupsAlwaysFresh`: `Spec => []Fresh` where there are no more than `MaxDepth`
  groups at all

`Shallow` (no group has more than `MaxDepth` ancestors, itself included) is necessary:
with a guard of 1 TLC finds that `Fresh` fails for a user in a group whose parent has
a role: the walk stops at the group, and the entry lacks the role though nothing was
written meanwhile. The code's guard is 100. `WalkReturnsAncestors` is an induction
over both loops. Theorems of the library that take an operator cannot be used, so it
is built from sets of naturals and the well-foundedness of `<` (`LeastNat`, `Up`),
which also shows that `Rounds` and `Walks` are the functions their definitions say. If
the walk stops at the guard, the path it took is a chain of distinct ancestors as
long as the guard (`WalkEnds`), which a shallow hierarchy lacks.

`Fresh` speaks of entries and of requests that are done. The strengthening `FInv`
says what a request that no write has concerned holds after each query: what the same
query would give now (`AsRead`). `TInv` adds that rows refer to roles and groups that
exist or existed (`Refs`). A write either concerns no key of a user, and then leaves
all that could be read for them alone (`QuietWrite`, for instance a new group, of which
`AncestorsAgree` shows that no old walk meets it), or puts the requests in doubt and the
keys in `todo` (`LoudWrite`).

`DeviceCheckinProofs` proves for any finite set of check-ins, any users, devices and
credentials, and any bounds on factors, events and days (`CheckinAssumption`):

* `CheckinTypes`: `Spec => []TypeOK`
* `StatusIsBorneOut`: `Spec => []StatusDeserved`
* `OneFirstADay`: `Spec => []NoSecondFirst`

`StatusDeserved` speaks of recorded events. What a check-in carries from one query to
the next is `Scanning` (whoever it has found had every credential resolved so far at
some time since it began) and `Witnessed` (whoever has one of its credentials now is
in its history), from which `Justified` follows when the last credential is resolved.
`OwnIsCounted` says that whoever was answered "no" was counted on another day than that
of their own event, midnight having fallen between the two queries, as long as the user
exists; that is what `NoSecondFirst` says of each of two. `Room` counts the check-ins under way
that have yet to record, so that the bound on events is never what stops one.

About API clients `AccessProofs` proves for any accounts, clients and calls, any grants
whose wildcards stand at the end and any resources without one (`ClientsAssumption`):

* `AccessTypes`: `AccessSpec => []AccessTypeOK`
* `NothingEscalates`: `AccessSpec => []NoEscalation`
* `EveryRouteIsKept`: `AccessSpec => []Gatekept`, for any of the modelled routes
  (`ServedAssumption`: what gates ask for is about resources there are)

The state carries less than the properties say: `Covered` is that each scope checked so
far is matched by a grant its creator has held (`Has`), `Entitled` that each gate a
request has behind it was passed with grants it has held, `Abreast` that the grants of
its user are now among those. The rest is about operators. `CoveredOpensLess` shows that
a grant which matches another one, compared as it is written, opens all that one does:
the code's comparison of patterns is sound for what they mean, because the part of a
grant before the wildcard has none. `DocumentedIsAGate` finds the documented permission
of every route among the gates that the order of registration gives it.

Model-checked only: all liveness (`Takeover`, `CacheConverges`,
`EventuallyHanded`, `LinksSettle`), since fairness and ENABLED are beyond the
proof system. Every safety property that a
passing run checks is proved, under the hypotheses above: the only ones theorems add to
its module's assumptions on the constants are those of `OnlyOverlapsGoStale` on the
hierarchy and of `FewGroupsAlwaysFresh` on the number of groups.

## 6. Where the code and its comments part

Runs that end in a violation:

* **`checkin_first`**: `HasEventToday` "reports whether a matching (user,
  event_type, resource) event already exists since the start of today"
  (`iot/repository.go:197-198`). The handler records the event of this check-in
  (`iot_handlers.go:138`) before it asks (line 165), so whenever a resource is
  given the answer is yes from the first check-in of the day on.
* **`token_like_admin`**: `docs/api-clients.md:33-36` says that any `/api/v1`
  route works the same way for a token. `api.Group("/", requireUserActor)`
  (`router.go:41`) adds that gate for everything below `/api/v1` registered
  later, so API clients are answered 403 by the rbac, iot, api-clients,
  audit-logs, metrics, settings and announcements routes whatever their scopes.
  The branch of `requireOwnScopes` for clients can therefore not be reached. By
  the same rule `iot/events` asks for `iot:manage` (line 79) as well as for
  `iot:read` (line 82), of users too.

What properties except, because the code does not keep it; the exceptions are part of
the properties, and the models have these steps:

* `LoggedOutStaysOut`: `clearMustChangePassword` (`session.go:64-72`) writes the session
  without looking whether it still exists, so a logout while a change of the password
  made with that session is under way is undone. `handleLogout` answers `logged_out`
  also where the cache returned an error (`auth_handlers.go:162`).
* `ResetForcesChange`: a change that has checked the current password before an
  administrator's reset overwrites it afterwards, flag included (`me_handlers.go:66-70`).
* `GuessesBounded`: a cache that fails opens the lockout: `accountLocked` takes an error
  for unlocked (`auth_handlers.go:24`), `recordLoginFailure` returns uncounted or
  unlocked (`36-40`). Each such call costs one guess. The bound is about
  `handleLogin`: wrong passwords that the change of a password
  (`me_handlers.go:66`), the disabling of TOTP (`mfa_handlers.go:52`) and
  `/external/v1/login` (`api_client_handlers.go:97-100`) examine are never counted.
* `EnabledHasFactor`: a disabling between the check of a code and `EnableTotp` leaves
  the flag on over an empty secret (`totp.go:39-60`).
* `KeysKept`: of two registrations that end together one key is lost, since the list is
  read, extended and written back (`store.go:56-63`).
* `AnswerIsTruth`: with MySQL's default RowsAffected the call that inserts the row is told
  it lost, as its UPDATE writes the expiry that is there already (`leaderlease.go:59-63`);
  lines 35-37 call that UPDATE the single source of truth. The instance wins with its
  next call, if the row has not expired by then.
* `NoSecondFirst`: a check-in recorded before midnight and counted after it is told that
  it is the first of the new day, and so is every other one around that midnight
  (`iot_handlers.go:147`, `repository.go:202`).
* `BellIsRight`: an announcement is missing from a list that was full, from one that was
  loaded while it was on its way, or from a tab that was not connected; one that
  arrives twice is listed twice. `LinksSettle`: a tab whose session has ended asks for a
  connection for ever (`ws.ts:54-57`), with pauses that grow to 30 seconds.
* `ShowsWhatItActsOn`, `ReadsOwnWrites`: answers that were lost, came in after a later
  one, or were asked for from another address (below, on the console).

Observations made while modelling that no run shows:

* RBAC changes "take effect immediately" (`admin.go:34-36`), except that a
  `Resolve` under way may have read before the write and set the entry after
  the invalidation (`resolve.go:52`): the old permissions then stay cached up to
  the TTL of five minutes. `Fresh` names exactly these users, the suspects.
* A code is "single use" (`provider.go:112`), but Get and Delete are two calls
  (from line 105 on); two overlapping exchanges both get tokens. Two overlapping
  refreshes of one token both succeed and leave two live chains
  (`provider.go:135-156`). RefreshTokens never reads the user's status, and
  deletes the old token before it stores the new one.
* Offboarding "invalidates ... any live session" (`users_handlers.go:188-189`); it
  destroys none, and no lookup of a session reads the status. A disabled
  account can sign in: `handleLogin` never reads the status either.
* The forced change accepts the default password as the new one.
  `must_change_password` is reported by `/me` and enforced by the web
  application only.
* `actorID` returns `apiclient:<uuid>` for API clients (`actor.go:95-103`), which
  the UUID columns of Postgres and SQL Server (and CHAR(36) on MySQL) refuse;
  the multi-row INSERT fails and takes the whole batch with it. `BadEntries`
  stands for such entries.
* On SQLite foreign keys are enforced only after `PRAGMA foreign_keys=ON`, which
  nothing sets: the rows of a deleted role stay and keep granting, because the
  permission query does not join `roles`; a deleted user's credential still
  resolves at a check-in.
* The drain makes one batch of the whole channel; beyond the driver's parameter
  limit (11 per row) its only INSERT fails and everything is lost. An entry a
  handler sends after the last drain stays in the channel.
* A single instance that restarts loses to its own previous lease until it
  expires, since `New` draws a new holder id (`leaderlease.go:5-7` says it always
  wins).
* WebAuthn-only enrolment sets `mfa_enabled`, after which the password login
  asks for a TOTP code that cannot exist. TOTP enrolment overwrites the secret
  of an enabled factor before the new one is confirmed. The challenge of a
  ceremony is not consumed when the ceremony ends.
* The key of a device cannot be revoked. A client outlives its creator and the
  permissions its creator had when it was made, and nothing records who made
  it. `splitScope` cuts a scope at its last colon, `HasScope` at its first; the
  model has no resource with a colon in it, and no pattern `*/*`.
* Redis' INCR and EXPIRE are two commands (`cache/redis.go:72`): a crash between
  them leaves a failure counter that never expires. `users.Update` changes email,
  status and employee id in separate statements without a transaction
  (`users/repository.go:169`). A killed process loses what is in the audit
  channel and batch. A device's `already_used_today` is FALSE when the count
  fails (`iot_handlers.go:165`).
* The realtime hub writes to one connection from several goroutines: two
  deliveries hold the same read lock (`ws.go:115`), and `WriteMessage` of the library
  panics on concurrent writers; nothing recovers, so an audit entry that is
  logged while an announcement is delivered can end the process. What a
  connection may see is decided once, when it connects (`ws.go:177-180` says so).
* "anyone who connects later still sees recent ones" (`announcements/models.go:3-4`)
  holds for a shell that is mounted later. A tab whose socket was down for a while
  reconnects and does not ask again (`AppShell.tsx:99-102`); an announcement whose
  broadcast meets the answer of that request is listed twice or not at all. The
  list compares the server's `created_at` with the browser's clock when it counts.
* In the console, an answer that comes late replaces the later one
  (`users/detail/page.tsx:27-35`, `audit/page.tsx:48`, `usage/page.tsx:87`): a page may
  show the former offset, range or filter under the present heading. `report()` keeps the id
  the button was pressed at (`users/detail/page.tsx:43`), `handleCreate` of the
  device page the offset (`iot/page.tsx:63`): after moving to another user through
  the search, the former user's answers may replace the present one's, while the
  buttons act on the present id. `doubt` names exactly these cases. A user's page
  that was deleted keeps its buttons.
* The link to the IoT page asks for `iot:read`, both of its lists for `iot:manage`
  (`router.go:78-82`): a reader is led to an empty page. The actor list of the audit page needs
  `users:read` besides `audit:read`. On the dashboard one refusal of four leaves all
  tiles at zero (`page.tsx:14-23`), where `AppShell.tsx:33-34` says that they degrade
  individually. None of these is an operation that is offered and refused.
* Creating an API client or a device does not disable its button while the call
  is under way: pressed twice it makes two, and only the key that comes last can
  be copied. The reload after a change of the account (`account/page.tsx:32`)
  fires on whatever page is open by then. An error of the logout call is swallowed
  and the login page shown (`AppShell.tsx:167-170`); no page notices that a session ended.
* A process that dies between the first account and its role (`bootstrap.go:53-80`)
  leaves an administrator without permissions: the next start finds a user and does nothing.
* Health alerts keep the last state in each instance's memory. One that is not
  leading skips the tick before it updates that memory (`main.go:263-269`), so
  after a change of leader a transition is announced again, or never.

## 7. What is left out

Left out for good: what is a single statement or a pure read, presentation, file
and network I/O, cryptography, the parsing of configuration (section 1, last
row). Wording, formats and timings appear only where a property tells them
apart. Of the web application that is the layout, charts, the contents of form
fields, the theme, and the one-time display of keys; of the announcements their
levels and the count of those unread.

Not modelled though it has behaviour: the health alerts' memory per instance
(section 6), bootstrap and migrations of two instances that start on an empty
database, captcha services, and the login ceremony of WebAuthn. Each is a short
sequence of statements whose failures section 6 describes where they matter.

Parts are modelled one at a time. `AuditWriter` and `LiveFeed` meet in the `onLog`
callback, which only starts a delivery and gives nothing back; `Console` and the
components behind its calls meet in answers that may always be refusals.
`LeaderLease` and the jobs it protects meet in `Leads`.

What proofs could add: of what the passing runs check only the liveness properties are
not proved. The steps they rest on (that what must happen stays enabled until it does)
could be, as action properties.
