# Verification of go-codebase

This directory holds TLA+ specifications of the program in `src/`, the TLC
configurations that check them on small instances, and theorems about them that
TLAPS proves for every value of their constants. `PROJECT.json` lists the
components, the runs, the properties with the mutants that break them, the lines
of code behind every definition, the hazards and the findings.

    tlc -workers 2 -config <X>.cfg <MCModule>     # a run
    tlapm <Module>Proofs.tla                      # the proofs of a module

## The system

A modular monolith in Go: HTTP handlers (chi) call command and query handlers,
which call repositories; state is in Postgres, Redis holds idempotency records,
rate-limit counters and the token denylist, events go over an in-process bus or
NATS JetStream, and casbin decides authorization from a model in memory.  Two
replicas run behind one service (`k8s/base/deployment.yaml:9`).  Nothing holds a
lock across two database calls and no transaction spans a read and the write that
depends on it, so every pair of calls of two requests may interleave: that is the
grain of the models, one step per repository, Redis or broker call.

| Part | State | Operations | Talks to |
|---|---|---|---|
| Account (`internal/authentication`) | `users`, `user_credentials`, `user_security`, `user_tokens` | register, login, forgot, resend, verify, reset | events; `POST`, `PUT` and `DELETE /users` write `email` and `is_active` of the same rows |
| Sessions (`internal/authentication`) | `refresh_tokens` | generate tokens, refresh, logout, logout-all; reset revokes | account rows, JWT |
| Policy sync (`internal/authorization/infrastructure/casbin`) | `casbin_rule`, enforcer model, decision cache | assign, unassign, sync one, sync all, reload, enforce | RBAC tables, every request's authorization |
| Role and permission catalogue (`internal/authorization`) | `roles`, `permissions` | create, get, update, delete, list | policy sync reads the link tables |
| Events (`internal/shared/events`) | subscriptions, JetStream messages | publish, subscribe, deliver, ack, nak | e-mail and todo handlers |
| Debug buffer (`infrastructure/messaging/debug.go`) | a ring of the last messages | append, read | the NATS client, `/debug/nats` |
| Idempotency, rate limit (`internal/shared/middleware`) | Redis keys | one GET/SET or INCR/EXPIRE per request | auth routes |
| Todo, user, tenant (`internal/todo`, `internal/user`, `internal/tenant`) | their tables | create, get, update, delete, complete, list, search | events, account rows |
| Paging (`internal/shared/cursor`, `pagination`) | none | encode, decode, next page, page size | six list endpoints |
| Middleware chain (`internal/shared/middleware`, `router.go`) | audit and error rows, response held back | log, limit, authenticate, resolve tenant, authorize, format, recover | every route |
| Access tokens (`infrastructure/auth/jwt.go`) | denylist (Redis) | issue, validate | middleware chain |
| Metrics (`internal/monitoring`) | vectors behind a read-write lock | get or create, increment | middleware chain |
| CQRS bus, configuration, telemetry, e-mail providers | set at start | register, dispatch, send | every module |

### What is hard

* every handler is read, change in memory, write: of two requests the later write
  undoes the earlier one (accounts, todos, tenants, roles);
* a token is checked in one statement and spent in another;
* policies are read outside the transaction that replaces them, and the decision
  cache is filled by readers while it is being cleared;
* uniqueness is checked by a read before the insert;
* events are published after the commit, best effort, and delivered at least once;
* Redis keys are read and written in separate calls;
* eleven layers of middleware see a response on its way up, and a panic passes all
  but two of them by.

What makes each part correct:

* Account: a verified address stays verified, the last reset's password is the
  password, is_active and e-mail are what the administration gave last, a lock comes in
  time and is kept, a taken address is a conflict.
* Sessions: a refresh token buys one successor, logout-all and a reset end every
  session that was open, a spent token stays dead.
* Policy sync: the enforcer and its cache agree with the RBAC tables, and never
  hold a right that the tables have not granted.
* Events: an acknowledged message has been handled, handlers run in order, what the
  stream keeps is handled in the end, and it keeps what is published.
* Rate limit, idempotency: no more than the limit per window, every refusal ends,
  a retry of what succeeded is answered and not executed.
* Paging: every steady row exactly once, in order, and the walk ends.
* Records (roles, permissions, tenants, todos, users): a request takes effect once or
  not at all, an update builds on a version its row had meanwhile, names are unique,
  a refusal has a reason, the last event tells the last write.
* Middleware chain: one error row per failure, the audit log shows what the client
  got, a handler runs only for who was entitled, who was counted on the way in is counted on the way out, and once.
* Debug buffer: the last messages, newest first.

## Modules

Each component is one module (state, Init, an action per step of the code, Next,
properties), an `MC` module with the values of its constants, one or more `.cfg`
files, and a `Proofs` module.  Request handlers are slots: a request takes an idle
slot with its first call, `pc` names its next call, and what the handler holds in
memory between the calls (`seen`, `want`, `loaded`) is kept per slot.  Variables
marked as history record the past for the properties; no guard reads them, except
where a bound says so.  `Traffic` and `Faults` select which requests and failures
a run has.  Definitions that start with "Mutant of" are the plausible bugs that
`PROJECT.json` pairs with the properties; no specification uses them.

| Module | Code | State and steps |
|---|---|---|
| `Sessions` | `authentication/application/command/{refresh_token,generate_tokens,logout,logout_all,reset_password}.go`, `refresh_token_repository.go` | `owner`, `revoked`, `expired` are the columns of `refresh_tokens`, `row` the user columns that decide. Login: `LoginRead`, `LoginWrite`, `Mint`; refresh: `RefreshRead`, `RefreshUser`, `RefreshRevoke`, `Mint`; reset: `ResetRead`, `ResetPurge`, `ResetWrite`. `userRepo.Update` writes the whole entity a handler read. History: `shared`, `mixed` and `crossed` say of which tokens and users a refresh, a logout-all or a reset had company. |
| `Account` | `register_user.go`, `login.go`, `forgot_password.go`, `resend_verification.go`, `verify_email.go`, `reset_password.go`, `user_repository.go`, `entity/user.go`; of the user module `create_user.go`, `update_user.go`, `delete_user.go` and its repository | One account. `row` joins `users`, `user_credentials`, `user_security`; `codes` is `user_tokens`, which only grows. Every handler is a Read into `seen` and a Write from it. `email` is the address the account began with or another; `taken` says that some other row of `users` has the first, so that the unique constraint (`Clash`) decides every insert and every Update. Other accounts come and go by `OthersMove`, `RegisterAnother`, `CreateUser`. `RegisterRead` may begin a registration of an address that exists, because the look-up's error is dropped. `WriteUser` is the Update of the user module, which writes `email` and `is_active` only, from an entity that may be outdated: after `PUT` (`UpdateUser`) and after `DELETE` (`DeleteUser`), whose deletion itself is not stored. History: `fresh` are the requests whose entity is still the row, `promised` is what was set last, `sighted` are the registrations that found the address free and have not seen it taken since. |
| `AtomicAccount` | (abstract) | What the owner of an account may rely on: a request is one step, judged by the account as it is. No entity in memory. `Owner == INSTANCE AtomicAccount` in `Account`. |
| `PolicySync` | `infrastructure/casbin/{sync,enforcer,adapter}.go`, the four assign and unassign commands, role and permission deletion | RBAC tables, `casbin_rule` (`rules`), and per process the model (`policy`) and decision cache (`allowed`, `denied`). A sync is `Flatten`, `Delete`, `Commit`, `Load`, `Swap`; a check is `Enforce`, `Remember`. |
| `Events` | `shared/events/*.go`, `eventbus/email_handler.go`, `todo_event_handler.go`, module start-up | `known`, `wired`, `live` per process; `durable`, the type whose subject the one consumer `event-bus` has; `msg` and `out` in the stream; `next`, `last` of each delivery. `Subscribe` creates the consumer or joins it if the subject is its own (`Joins`); else it fails, and the program does not notice. `Earlier` is the order in which modules subscribe. JetStream (interest policy, keep until acknowledged, redeliver after AckWait, one queue group) is external and modelled as `jsContextAdapter` configures it; the consumer stays when a process goes, since `NATSMessenger.Close` has no caller. |
| `Paging` | the six `GetAll`/`List`/`Search` queries, their handlers, `cursor.go`, `pagination.go`, `tenantfilter/filter.go` | `table` (rows and their columns), `walk` (list, tenant, cursor, history of one client). Six list actions, one per endpoint: page size from what was asked, `LIMIT n+1`, cursor of the last row shown. `Insert`, `Edit`, `Delete` are everybody else. |
| `RequestGuards` | `middleware/ratelimit.go`, `middleware/idempotency.go` | `count`, `ttl` of `ratelimit:<client>`, `record` of `idempotency:<key>`; a request goes `Arrive`, `SetExpire`, `Lookup`, `Succeed` or `Fail`, `Save`. |
| `RecordRows` | the tables and request bodies of the record endpoints | No state: rows and requests, shared by the next two. |
| `Catalogue` | (abstract) | What a client may rely on: a request takes effect in one step or is refused for a reason. No look-up, no entity in memory, no error values. |
| `Records` | handlers, commands, domain services and repositories of roles, permissions, tenants, todos and users | `rows` of one table, `pc`, `ask`, `seen` of each request; one action per statement: look-up, insert, write, erase, and `Publish` for todos. `Promised == INSTANCE Catalogue WITH phase <- ...` is the refinement. |
| `Pipeline` | `router.go`, `middleware.go`, `formatter.go`, `audit.go`, `metrics.go`, `tenant.go`, `registry.go`, `jwt.go`, `monitoring/infrastructure/prometheus/metrics.go` | `req`: where a request is in the chain and what it carries; `holder`, `claim`, `expired`, `listed` of access tokens; `allowed`; `registered` metrics; `entered`, `left` and `total` count what a request adds to the counters. A path that is not UTF-8 (route `garbled`) is no label: whoever counts it panics (`Thrown`). An action is one layer, down or up. |
| `DebugBuffer` | `messaging/debug.go` | No state of its own: `NewBuffer`, `Appended`, `Entries` as operators, because both methods hold the mutex; `Latest` is the promise. |

The modules are composed where the code shares state: `Sessions` and `Account` both
hold the user row with the columns they need, and each contains the other's writers
of these columns (`AccountRead`/`TouchWrite`/`VerifyWrite`/`SetActive` in `Sessions`,
`ResetWrite` in both), because the whole-entity write is what couples them.
`SetActive(u, b)` in `Sessions` is what any request of the user module leaves in
`is_active`, `DELETE`'s stale value included, at any time.
`RequestGuards` composes the two middlewares in the order of `router.go:38,57`, and
`Pipeline` the whole chain, in which what `RequestGuards` and `PolicySync` say of a
refusal and of `Enforce` is a choice.  `Records` and `Account` overlap in the update
of a user: `Records` has its answers and its row, `Account` what it undoes.

## Runs

| Run | Question | Bounds |
|---|---|---|
| `sessions_concurrent` | what survives two requests at once and every failure | 1 user, 3 tokens, 2 slots, all traffic, 1 reset, 1 logout-all |
| `policy_sequential` | do tables, rules, model and cache agree between requests | 2 users, 2 roles, 1 permission, 1 right, 1 slot |
| `policy_concurrent` | what a sync gives with another request beside it, stale checks, failures, crashes, restarts | 1 user, 1 role, 1 permission, 1 right, 2 slots |
| `account_concurrent` | how the promises to an account's owner can break at all | 2 slots, 1 code, 2 attempts, 1 change of password, 2 locks, all traffic, other accounts at the address, failures |
| `account_reset_code` | finding, below | 1 code, 2 resets |
| `events_safety` | what an acknowledgement and a redelivery mean | 2 processes, 2 events of a type with 2 handlers, both drivers, all faults |
| `events_live` | is what the stream keeps handled in the end, by one worker | the program's wiring: 2 types, 1 handler each; 2 processes, 1 event of each type; crashes, failing handlers, failing publishes, lost acks |
| `events_one_consumer` | finding, below | 1 process, 2 types, 1 event, no faults |
| `paging` | is a walk complete, without repeats, in order, and does it end | 6 lists, 2 moments with 2 ids each, page sizes 1 and 2 (asked for 0, 1, 3), with and without tenant |
| `request_guards` | the limit, its end, safe retries | 3 requests, 2 addresses, 1 key, limit 1, all faults |
| `records` | do statement-by-statement handlers keep what `Catalogue` promises; do events tell the last write | 5 tables, 2 requests, one of which may fail or die, 2 ids, 2 names, 1 text |
| `pipeline` | do logs, counters and rights hold through the chain | 2 requests of any route, paths that are UTF-8 and not, 1 user, 1 token, 1 tenant, failing Redis and database, panics |

Why the bounds are enough for what the runs ask: every property relates at most two
requests and one piece of shared state, so two slots show each interleaving of two
handlers; three tokens make a session, its successor and a rival; two rows of one
moment make page boundaries fall inside and between moments, for pages of one row and
of two; a limit of one refuses the second request; two events of one type share a
subscription; two names and two rows make every conflict of names, and a row that is
deleted while it is changed.  `MaxReset`, `MaxPurge`, `MaxHash`, `MaxLock`, `Batch` and
`MaxSeen` bound counters that the code does not bound; each is a guard, or a cap in
`Counted`, named in the module.  Two runs have a `CONSTRAINT Bounds`:
`sessions_concurrent` cuts off what can only follow the last token (locks,
verifications and expiries after it), `records` keeps todos on one row and drops the
text column where name and flag already tell two versions apart.
`CHECK_DEADLOCK FALSE` stands where the system may come to rest: requests that are
sent once, codes that are used up, events that are all dealt with.  In the other runs
it never does, and deadlock is checked.

`policy_concurrent` has one right, so that editing a permission is a table write
beside a sync but grants nothing new (two rights pass eight million states);
`LoneSyncTheorem` and `NothingInventedTheorem` are for any rights.
`request_guards` gives every request the key; a request without one is covered by
the theorems.  `account_concurrent` has one code: two would only show two resets or
verifications at once, which two requests with one code show too.  `events_live` has
the program's two kinds of types: `todo.created`, whose handler ignores the pointer it
gets and returns nil, subscribes before its type is registered; the e-mail types
register first, and their handlers would reject the pointer.  Its faults do not include
a JetStream that fails a subscription (`subscribe`): then a mail type may get the
consumer, and what it keeps is rejected for ever.  `pipeline`
has one user and one token; the theorems are for any number.  `MCEvents` also has TLC
evaluate `BufferShowsLatest`: rings of one to three places, every log of up to seven
messages.

### Fairness

Safety runs need none.  `events_live`: processes start, publish, take deliveries
and finish them (strong fairness, because a crash disables these steps and a
restart enables them again: crashes do not win every time, which the orchestrator's
restarts justify), AckWait is a timer (weak), and a failing handler does return its
error (weak).  Nothing is assumed about handlers beyond not failing every time; one
that rejects the payload it is given always fails, fairness or not.
`paging`: the client goes on asking; no assumption about writers.
`request_guards`: a request between INCR and EXPIRE runs on unless it crashes, and
time passes; nothing is assumed of clients.

### What the runs show

*Sessions.* Rotation revokes before it inserts, so a spent token is never usable
beside its successor, under any failure. Single use, logout-all and re-login after a
reset hold for one request at a time. Of two refreshes with one token at once both
succeed, because `refresh_token.go` reads and revokes in separate statements; a reset
revokes before it stores the password (`reset_password.go:44`), so that a login or
refresh beside it keeps a session of the old one. The `...Unless...` properties say
that these are the only ways.

*Policy sync.* Alone, a sync makes rules, model and cache equal to the tables. Beside
others it may install the past (the flattening is read outside the transaction), but
never a right that was not granted at some time.

*Account.* All promises hold for one request at a time; beside each other they break
by a whole-entity write from an outdated read, or by an `Update` whose error login
drops, and by nothing else (`NothingLostUnlessOvertaken`). `AtomicUnlessOvertaken` says
it of all that handlers do: every step is one whole request of `AtomicAccount` on the
row as it is, or the write of an overtaken entity. A registration is answered with the
constraint's 500 in place of 409 if its look-up failed, or if after it the address was
taken: by another registration, by `POST` or `PUT /users`, or by a stale write that puts
an e-mail back (`DuplicateIsConflictUnlessTaken`).

*Events.* An acknowledgement means that every handler the delivery found returned
without error; handlers before a failing one run again; the memory driver runs each
at most once. With the nats driver only the first type to subscribe has a consumer.
What the stream keeps of it is handled by one worker at a time and acknowledged in the
end, unless a starting process acknowledges it unread; the other types' events are
dropped (the finding).

*Paging.* On all six lists, complete, without repeats, in order and finite, whatever
is inserted, edited or deleted, and whatever size the client asks for.

*Request guards.* The limit holds per window under every interleaving; a counter is
without an end only if its EXPIRE was lost (a crash, a dropped error, or an INCR the
client library sent again); a retry after a success that was seen executes again
only if Redis lost or could not give the response.

*Records.* Every handler implements `Catalogue`: an update writes a version its row
had while the request was served, merged with what was sent, and not more; what it
undoes is only what was written in between. Todo events tell the last write unless two
writes crossed between commit and publication, or the process died there.

*Pipeline.* A failure leaves one error row, from `ErrorHandler` or `ErrorRecorder` and
never from both, if the database takes it; the audit row shows what the client got,
except that a panic leaves none; a handler of a module ran for a token that was good on
arrival and a right that was in force at some time since; two requests that meet a new
metric register it once. Who adds to the active requests on the way in adds once more
on the way out, also after a panic of a handler, and once to the total if it came back:
the counters agree with each other, though not with the gauge they are meant to be
(below). The five writers that pass the status up are one field, `sent`: that each
passes it on is read from the code, not checked.

## Findings

Two runs are expected to find a violation:

* `account_reset_code`: a reset code sets the password again until it expires. The
  e-mail design has the token fields cleared; the handler clears them in the entity,
  and `userRepository.Update` only inserts tokens.
* `events_one_consumer`: the design gives each type a consumer of its own
  (`2026-07-14-nats-event-bus-design.md:15`) and calls the driver transparent to the
  handlers (`:5`). In `nats_event_bus.go:40-42` every type asks for the durable
  `event-bus`. `todo.created` subscribes first and gives it its subject; each later
  `QueueSubscribe` is refused with a subject mismatch, line 80 drops the error, and under
  the interest policy of `module.go:17` the stream discards those events: a user
  registers, and no mail is ever sent. Nor would a consumer help: the driver hands over
  the pointer `CreatePayload` returned where the handlers assert the struct. The todo
  handler ignores it and returns nil, so that `todo.created` is acknowledged without
  effect; the e-mail handlers would reject it for ever.

Other differences between documents and code that the models show, or that were met
while modelling, and that have no run of their own:

* two concurrent refreshes, or a refresh beside a logout-all, leave a session that
  `docs/API.md` says is over (`SingleUse` and `LogoutAllEndsSessions` hold for one
  request at a time, and are proved for that);
* the reset revokes sessions before it stores the password: a login in between keeps
  a session of the old password;
* deleting a role or permission, or editing one, does not sync: the enforcer keeps
  the old rules; a second replica never reloads at all;
* a decision computed before a reload may enter the cache after it was cleared;
* parallel wrong passwords are counted as one; a concurrent writer can undo a
  verification, a password, a disabled account or a change of e-mail;
* two registrations of one address at once, or one beside `POST` or `PUT /users` with
  that e-mail: the loser gets 500, not 409;
* handlers subscribe before payload types are registered (`todo/module.go`): after a
  restart a pending message may be acknowledged unread; a message that comes between
  the first and the second subscription is acknowledged without the second handler;
* when AckWait passes a second worker gets the message the first is still handling;
* a request with `prev_cursor` goes forward: the comparison is `<` in every query;
* a crash between INCR and EXPIRE makes a counter permanent; the window is fixed, not
  sliding, and the counted address includes the port;
* `idempotency.enabled` is not read, and overlapping requests with one key both run;
* deleting a user through the administration changes nothing (`Update` does not write
  `deleted_at`), though its description is "Soft-delete a user"
  (`user/interfaces/http/handler.go:244`); an update without `is_active` enables the
  user again (`:223`);
* the name of a deleted role or permission stays taken, and so a create with it is
  answered 500; a missing role or permission is answered 500 where the description of
  the endpoint says 404; a look-up that fails counts as "no such name"; of two equal
  creates at once the second gets 500;
* the list endpoints are described with `page` and `per_page` and take `cursor` and
  `limit`;
* nothing writes `tenant_id` in an INSERT, reads by id are not filtered by tenant, and
  `tenantfilter.WhereAnd` has no caller
  (`2026-07-12-multitenancy-design.md:230` and `:232` promise both); a token never carries a
  tenant, because the resolver is not on `/auth`, and `X-Tenant-ID` is honoured for
  every user, not for super-administrators only (`:22`, `:33`);
* the denylist is read and never written; the audit log never has a user or a tenant,
  since it wraps the layers that would know them
  (`2026-07-08-security-middleware-completeness-design.md:37`); a panic leaves no audit row and
  is not in the total; the row of an answer of 500 that is no panic has no message and
  no stack (`2026-07-13-error-hardening-design.md:77`);
* `http_requests_active` never falls: the deferred call adds one too, so that a request
  leaves it two higher, where the design has an "Active requests gauge"
  (`observability-monitoring-design.md:28`);
* a path that is not UTF-8 (`GET /%ff`) makes `WithLabelValues` panic at
  `middleware/metrics.go:23`, before line 24 defers anything and before any handler:
  the client gets 500, and neither a counter nor a row tells of it.

## Theorems

Proved by TLAPS for all values of the constants under the modules' named assumptions
(`SessionConstants`, `PolicyConstants`, `EventsConstants`, `PagingConstants`,
`GuardConstants`, `AccountConstants`, `RowAssumption`, `PipelineConstants`), which
only say what kind of values the constants are. TLC evaluates each assumption in the
runs of its module.

* Type correctness of every module with state.
* `SessionsProofs`: `IInv` says what a refresh in memory may hold: an issued token of
  its user, revoked by the time it mints (`HeldTokens`); a token with two holders, or
  with a holder and a successor, is shared (`TwoHolders`, `LateHolders`); successors
  are rows (`Successors`); a held session is of the present purge count unless mixed
  (`HeldSessions`). `SingleUseUnlessShared`, `SpentTokensStayDead` and
  `LogoutAllEndsSessionsUnlessMixed` are its consequences; none is inductive by itself,
  because what a request holds in memory decides what it will write. `ResetTheorem`
  needs `ResetInv` on top: of a user who is not crossed a reset is the only request
  (`AloneInReset`), the row has the last password, and every request will write or mint
  with it (`UpToDate`); between purge and write there is no session to outlive it.
  `RevocationTheorem` is the action property that revocation is final (no run checks
  it). `LoneRequestsKeepPromises`: with one slot and no failing call nothing is ever
  shared, mixed or crossed, so the promises hold without their exceptions (`SingleUse`,
  `LogoutAllEndsSessions`, `ResetForcesRelogin`).
* `PolicySyncProofs`: `LoneInv` follows a sync through its five steps (what it wants,
  what is committed, what it loaded) as long as nobody else writes; `GrantedInv` says
  the same of "was granted once" for everything in flight. `LoneRequestsAgree`: with
  one slot, no failing call, and no role or permission edited or deleted, tables,
  rules, model and cache agree. `OneAtATime` is the invariant behind it: what a command
  is not about agrees all the time, and what it is about when it is done.
  Two theorems need less. `CacheTheorem` has one slot per process (`SoleSlot`) and any
  number of processes, with crashes and every failure: the cache follows the model,
  because `CacheInv` has it empty from the clearing to the swap and knows what a
  decision on its way to the cache was computed from. `MemoryTheorem` has one slot and
  no failing call, but lets roles and permissions be edited and deleted: the model is
  the rows of `casbin_rule` between requests. `StartUpTheorem` is the action property
  `StartUpRepairs` (no run checks it): a process that starts while nobody else writes a
  table comes up with what the tables grant, whatever was left behind.
* `AccountProofs`: `NothingLost` adds to `NothingLostUnlessOvertaken` what an entity in
  memory says compared with the row, which is what a Write will make true or false.
  `LockIsKeptTheorem` is the action property `LockIsKeptUnlessOvertaken` (no run checks
  it). `DuplicateTheorem`: a registration in `sighted` finds the address still free
  (`Sighted`), whoever writes `users.email`, so that a 500 goes to others only.
  `AtomicTheorem` is the refinement for any number of requests and every failure:
  `Atomic` says that a fresh entity is the row after the whole request (`Meant`, one
  conjunct per handler), so that its write is a step of `AtomicAccount`. With one slot
  every entity is fresh (`LoneRequests`), also when calls fail and processes crash. From
  it follow `LoneRequestsKeepPromises`, that no lock is lifted or shortened, and
  `LoneRequestsAreAtomic`, that `Account` implements `AtomicAccount`, both without the
  exception of an overtaken write.
* `EventsProofs`: `AllServed`, a delivery's progress and what it has served so far,
  gives `AckedMeansServed`. Six theorems add what holds under conditions they name:
  `OneWorkerTheorem` (no handler slower than AckWait; `Sole`: who handles an event has
  it from a stream that waits); `AckedMeansHandledTheorem` (one handler per type, as the
  program has; `Whole`: who takes deliveries has subscribed it);
  `PublishedIsKeptTheorem` (the same, and JetStream fails no subscription; `Taken`: once
  a process has subscribed there is a consumer, which keeps its subject): what is
  published of the type that has the consumer is stored, acknowledged unread or handled,
  and all else is dropped; `LaterTypesAreDropped` (JetStream fails no subscription):
  that is the lot of every type whose handlers subscribe after another's, so of all but
  `todo.created`; `OrderTheorem` and `AtMostOnceTheorem` (no handler subscribes twice to
  a type; the second is of the memory driver and not checked by a run). `InOrder` counts
  the deliveries on their way from one handler to another, as two workers may be there
  at once; `Once` says that handlers to come have not completed. `NewIsHeld`,
  `AppendIsHeld` and `ReadShowsLatest` are about the debug buffer: a ring of any size
  that holds a log holds it after an append, and what is read are the log's last
  messages, newest first.
* `PagingProofs`: `IInv` is that the rows behind the cursor are exactly the steady rows
  not yet returned, on whichever list the walk is; the rest is the order of keys
  (`KeyOrder`), that a finite page has a last row (`NewestExists`, `OldestExists`), and
  that a page has room for at least one row. `PageAdvancesTheorem`: a page with a
  successor ends on a row older than all returned before, so a walk has no more pages
  with a successor than there are keys.
* `RequestGuardsProofs`: `Numbered` gives the requests of a window different numbers no
  greater than the counter, so the admitted ones inject into `1..Limit`; `Retained` says
  that what a client saw succeed is kept or has lapsed, from which `SafeRetry` follows.
* `RecordsProofs`: `Implementation`, that `Records` implements `Catalogue`: the initial
  states map, and each of the statements maps to a step or a stutter. The invariant
  says that an entity in memory is a version its row had meanwhile, merged
  (`SlotInv`, `RecentInv`), that names are unique (`UniqueInv`), that ids of creates are
  new (`NewInv`) and that a tenant's slug is not changed (`TenantInv`); `ToldInv` gives
  `EventOrder`.
* `PipelineProofs`: `Inv` says of a request in each layer how often it was counted
  (`CountFine`), which answers it holds and has logged (`AnswerFine`), and that its
  token and right were no worse on arrival than later (`TokenFine`, `RightFine`); the
  four properties of the run follow.

Only model-checked: liveness (`KeptIsAcknowledged`, `WalkEnds`, `RefusalEnds`), which
is out of the prover's reach. What these rest on besides fairness is proved: what the
stream has taken stays until it is handled (`PublishedIsKeptTheorem`), pages advance
(`PageAdvancesTheorem`), and a counter without an end has lost its EXPIRE
(`WindowClosesTheorem`). The invariants and action properties of the passing runs are
all proved. What the debug buffer's operators do is proved for one append and one read;
that a whole log ends up in the ring is an induction over the log, which TLC does for
the logs of `BufferShowsLatest`.

## Not modelled

`PROJECT.json` lists every component. Left out, and why:

* NATS client and stream set-up: it connects and creates the stream at start; what it
  configures is in `Events`.
* CQRS bus: a map that is filled at start and only read afterwards.
* E-mail providers: a call to the outside and no state; in `Events` it is the reaction
  that may fail.
* Database, transactions and caches: connection set-up. `WithTx` and the todo cache
  have no caller.
* Configuration, wiring, logger, telemetry: start-up. The order of middlewares and of
  module start is used by `Pipeline`, `RequestGuards` and `Events`.
* Generated queries and migrations: modelled at their callers; unique constraints,
  defaults and the two replicas are in the modules that need them.
* Parts of two components: the histograms of `Metrics`, which follow the same code as
  the counters, and `SetGauge`, which has no caller; of the casbin adapter, the methods
  the program does not reach (`SavePolicy`, `AddPolicy`, `RemovePolicy`,
  `RemoveFilteredPolicy`).

Contents of messages, names, payloads, envelopes and log rows are abstracted
everywhere.

## Plan

Done, in this order: `Sessions`, `PolicySync`, `Account`, `Events`, `Paging`,
`RequestGuards`, then `Catalogue` and `Records` with the refinement, `Pipeline`,
`DebugBuffer`, all six lists in `Paging`, the theorems about lone requests and those
about the order and number of effects, `AtomicAccount` with its two refinement
theorems, the reset's order in `Sessions`, cache, memory and start-up in `PolicySync`,
the safety halves of the liveness properties.

What would come next:

1. An abstract session store that `Sessions` implements for one request at a time, and
   an abstract rule table for `PolicySync`; both are stated today as invariants.
2. An abstract rate limiter, of which `LimitHolds` and `WindowCloses` are consequences.
3. The tenant of a row from its INSERT to the lists, once the code writes it.
