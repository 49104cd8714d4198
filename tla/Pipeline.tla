------------------------------ MODULE Pipeline ------------------------------
(***************************************************************************)
(* The chain of middleware that every HTTP request passes, from the router *)
(* down to a module's handler and back up: rate limit, metrics, access     *)
(* token and denylist, tenant, authorisation, response formatter, audit    *)
(* log, error log, and the recovery from a panic, which skips the layers   *)
(* in between.  One action is one layer on the way down or up; between two *)
(* of them other requests run, tokens expire and rights are withdrawn.     *)
(*                                                                         *)
(* The router composes (outermost first) Tracing, RequestID, ErrorHandler, *)
(* SecurityHeaders, CORS, ErrorRecorder, AuditLog, RateLimit, Metrics,     *)
(* Logger and, under /api/v1, ResponseFormatter.  Counting of requests and *)
(* replaying of answers are in RequestGuards, Enforce is in PolicySync.    *)
(***************************************************************************)
EXTENDS Naturals

CONSTANTS
    Request,        \* slots for requests that are being served at once
    User,
    Token,          \* access tokens
    Tenant,
    NoUser,
    NoToken,        \* no Authorization header, or one that does not validate
    NoTenant,
    TenantEnabled,  \* multitenancy.enabled
    TokenDenylist,  \* auth.token_denylist
    Faults          \* TRUE: calls of Redis and the database may fail

Caller == User \cup {NoUser}
Bearer == Token \cup {NoToken}
Scope == Tenant \cup {NoTenant}

ASSUME PipelineConstants ==
    /\ NoUser \notin User
    /\ NoToken \notin Token
    /\ NoTenant \notin Tenant
    /\ TenantEnabled \in BOOLEAN
    /\ TokenDenylist \in BOOLEAN
    /\ Faults \in BOOLEAN

VARIABLES
    req,        \* what each request carries and where it is (see Record)
    holder,     \* user_id of an access token; NoUser: not issued
    claim,      \* tenant_id of an access token
    expired,    \* tokens past their expiry
    listed,     \* tokens under token:blacklist: in Redis
    allowed,    \* users for whom Enforce says yes
    registered  \* metrics the recorder has created

tokenVars == <<holder, claim, expired, listed>>
sharedVars == <<tokenVars, allowed, registered>>
vars == <<req, sharedVars>>

-----------------------------------------------------------------------------
(* A request.                                                              *)

\* web: /health, /ready, unknown paths.  public: /auth/login and its like.
\* session: /auth/me, /auth/logout-all.  module: all that needs a right.
\* garbled: a path that is not UTF-8, wherever it leads.
Route == {"preflight", "garbled", "web", "public", "session", "module"}

Metric == {"active", "total", "duration"}

\* The way down, the way up, and the way of a panic.
Layer == {"idle", "limit", "route", "auth", "tenant", "auth_again", "authorize", "handle",
          "format", "leave", "audit", "record", "unwind", "recover", "done"} \cup Metric

\* 200 stands for all that is neither a refusal nor a failure, 404 among them.
Status == {200, 204, 401, 403, 429, 500, 503}
Unset == 0
Outcome == Status \cup {Unset}

Record == [at : Layer, route : Route, bearer : Bearer,
           caller : Caller,                 \* UserIDKey of the context
           tenant : Scope,                  \* TenantIDKey of the context
           missing : BOOLEAN,               \* the look-up found no such metric
           body : Outcome,                  \* status the formatter holds back
           sent : Outcome,                  \* status the client gets
           audit : Outcome,                 \* status of its row in audit_logs
           errors : 0..2,                   \* its rows in error_logs
           entered : 0..2, left : 0..2,     \* its increments of active, as it came and went
           total : 0..2,                    \* and of the total
           (* History.                                                       *)
           ran : BOOLEAN, panicked : BOOLEAN,
           lost : SUBSET {"audit", "error"},    \* inserts that failed
           welcome : BOOLEAN,   \* the token was good when the request came
           revoked : BOOLEAN,   \* and it was on the denylist
           blind : 0..2,        \* denylist look-ups that failed
           entitled : BOOLEAN]  \* the right was in force at some time since

NoRequest ==
    [at |-> "idle", route |-> "web", bearer |-> NoToken, caller |-> NoUser, tenant |-> NoTenant, missing |-> FALSE,
     body |-> Unset, sent |-> Unset, audit |-> Unset, errors |-> 0,
     entered |-> 0, left |-> 0, total |-> 0, ran |-> FALSE, panicked |-> FALSE,
     lost |-> {}, welcome |-> FALSE, revoked |-> FALSE, blind |-> 0, entitled |-> FALSE]

Init ==
    /\ req = [q \in Request |-> NoRequest]
    /\ holder = [t \in Token |-> NoUser]
    /\ claim = [t \in Token |-> NoTenant]
    /\ expired = {}
    /\ listed = {}
    /\ allowed \in SUBSET User
    /\ registered = {}

Become(q, r) == req' = [req EXCEPT ![q] = r]

\* Text that Prometheus takes for a label and Postgres for a column.
Utf8(r) == r.route # "garbled"

\* ValidateToken: a signature of ours that has not run out.
Validates(b) == b \in Token /\ holder[b] # NoUser /\ b \notin expired

\* The right a request needs is one that its token's user has.
Entitles(b) == b \in Token /\ holder[b] \in allowed

-----------------------------------------------------------------------------
(* Down: arrival, CORS, rate limit.                                        *)

\* ErrorRecorder and AuditLog wrap the writer and read the body of the request.
Arrive(q, k, b) ==
    /\ req[q].at = "idle"
    /\ b \in Token => holder[b] # NoUser
    /\ Become(q, [NoRequest EXCEPT
          !.at = "limit", !.route = k, !.bearer = b,
          !.welcome = Validates(b), !.revoked = b \in listed, !.entitled = Entitles(b)])
    /\ UNCHANGED sharedVars

\* cors.Handler answers a preflight request itself, above both logs.
Preflight(q) ==
    /\ req[q].at = "idle"
    /\ Become(q, [NoRequest EXCEPT !.at = "done", !.route = "preflight",
          !.sent = 204])
    /\ UNCHANGED sharedVars

\* RateLimit lets the request through or answers it.
Limit(q) ==
    /\ req[q].at = "limit"
    /\ \/ Become(q, [req[q] EXCEPT !.at = "active"])
       \/ Become(q, [req[q] EXCEPT !.at = "audit", !.sent = 429])
    /\ UNCHANGED sharedVars

-----------------------------------------------------------------------------
(* Metrics.  A vector is made by the first request that needs it; promauto *)
(* panics when a name is registered twice, WithLabelValues for a path that *)
(* is not UTF-8, with nothing deferred yet.                                *)

\* A panic that nothing below ErrorHandler takes note of.
Thrown(r) == [r EXCEPT !.at = "recover", !.missing = FALSE, !.panicked = TRUE]

\* What is incremented, and the layer that comes next.
Counted(r) ==
    IF ~Utf8(r) THEN Thrown(r)
    ELSE CASE r.at = "active"   -> [r EXCEPT !.at = "route", !.missing = FALSE, !.entered = @ + 1]
           [] r.at = "total"    -> [r EXCEPT !.at = "duration", !.missing = FALSE, !.total = @ + 1]
           [] r.at = "duration" -> [r EXCEPT !.at = "leave", !.missing = FALSE]

\* The look-up under the read lock.
Find(q) ==
    /\ req[q].at \in Metric /\ ~req[q].missing
    /\ Become(q, IF req[q].at \in registered THEN Counted(req[q])
                 ELSE [req[q] EXCEPT !.missing = TRUE])
    /\ UNCHANGED sharedVars

\* Mutant of Create: the second look-up is left out.
CreateUnchecked(q) ==
    /\ req[q].missing
    /\ registered' = registered \cup {req[q].at}
    /\ Become(q, IF req[q].at \in registered
                 THEN Thrown(req[q])
                 ELSE Counted(req[q]))
    /\ UNCHANGED <<tokenVars, allowed>>

\* Under the write lock: a second look-up, and the registration if it fails.
Create(q) ==
    /\ req[q].missing
    /\ registered' = registered \cup {req[q].at}
    /\ Become(q, Counted(req[q]))
    /\ UNCHANGED <<tokenVars, allowed>>

\* The deferred increment: it adds where it should take away.
Leave(q) ==
    /\ req[q].at = "leave"
    /\ Become(q, [req[q] EXCEPT !.at = "audit", !.left = @ + 1])
    /\ UNCHANGED sharedVars

-----------------------------------------------------------------------------
(* Routes, tokens, tenant, rights.                                         *)

\* The handlers outside /api/v1 write to the client directly.
ServeWeb(q) ==
    /\ req[q].at = "route" /\ req[q].route = "web"
    /\ \E s \in {200, 503} : Become(q, [req[q] EXCEPT !.at = "total", !.sent = s])
    /\ UNCHANGED sharedVars

Enter(q) ==
    /\ req[q].at = "route" /\ req[q].route # "web"
    /\ Become(q, [req[q] EXCEPT !.at =
          CASE req[q].route = "public"  -> "handle"
            [] req[q].route = "session" -> "auth_again"
            [] req[q].route = "module"  -> "auth"])
    /\ UNCHANGED sharedVars

\* A response below the formatter: it is held back until the handler returns.
Respond(r, s) == [r EXCEPT !.at = "format", !.body = s]

\* Mutant of Authenticated: the context gets the token for the user.
AuthenticatedToken(r) ==
    [r EXCEPT !.caller = r.bearer, !.at = IF @ = "auth" THEN "tenant" ELSE "handle"]

\* The context gets the user of the token; the router's group checks first, the
\* module's own router once more.
Authenticated(r) ==
    [r EXCEPT !.caller = holder[r.bearer],
              !.at = IF r.at = "auth" THEN "tenant"
                     ELSE IF r.route = "module" THEN "authorize" ELSE "handle"]

\* ValidateToken, then the look-up in Redis, whose failure counts as not listed.
Authenticate(q) ==
    /\ req[q].at \in {"auth", "auth_again"}
    /\ IF ~Validates(req[q].bearer)
       THEN Become(q, Respond(req[q], 401))
       ELSE \/ Become(q, IF TokenDenylist /\ req[q].bearer \in listed
                         THEN Respond(req[q], 401) ELSE Authenticated(req[q]))
            \/ /\ Faults /\ TokenDenylist
               /\ Become(q, [Authenticated(req[q]) EXCEPT !.blind = @ + 1])
    /\ UNCHANGED sharedVars

\* The claim of the token, else what the header or the host says.
ResolveTenant(b, h) == IF claim[b] # NoTenant THEN claim[b] ELSE h

Resolve(q) ==
    /\ req[q].at = "tenant"
    /\ \E h \in Scope :
        Become(q, [req[q] EXCEPT !.at = "auth_again",
            !.tenant = IF TenantEnabled THEN ResolveTenant(req[q].bearer, h) ELSE NoTenant])
    /\ UNCHANGED sharedVars

\* Mutant of Authorize: an error of Enforce does not end the request.
AuthorizeAnyway(q) ==
    /\ req[q].at = "authorize"
    /\ \/ Faults /\ Become(q, [req[q] EXCEPT !.at = "handle"])
       \/ Become(q, IF req[q].caller \in allowed THEN [req[q] EXCEPT !.at = "handle"]
                    ELSE Respond(req[q], 403))
    /\ UNCHANGED sharedVars

Authorize(q) ==
    /\ req[q].at = "authorize"
    /\ \/ Faults /\ Become(q, Respond(req[q], 500))
       \/ Become(q, IF req[q].caller \in allowed THEN [req[q] EXCEPT !.at = "handle"]
                    ELSE Respond(req[q], 403))
    /\ UNCHANGED sharedVars

-----------------------------------------------------------------------------
(* The handler.                                                            *)

Handle(q) ==
    /\ req[q].at = "handle"
    /\ \E s \in {200, 500} : Become(q, Respond([req[q] EXCEPT !.ran = TRUE], s))
    /\ UNCHANGED sharedVars

\* The claims of a new token.
GenerateToken(t, u, c) ==
    /\ holder' = [holder EXCEPT ![t] = u]
    /\ claim' = [claim EXCEPT ![t] = c]

\* Login and refresh make an access token, whose tenant is that of the context;
\* nothing has put one there, for the resolver is not on this route.
Issue(q, t, u) ==
    /\ req[q].at = "handle" /\ req[q].route = "public"
    /\ holder[t] = NoUser
    /\ GenerateToken(t, u, req[q].tenant)
    /\ Become(q, Respond([req[q] EXCEPT !.ran = TRUE], 200))
    /\ UNCHANGED <<expired, listed, allowed, registered>>

\* A handler panics: /users/me does, whose profile provider is never set.
Panic(q) ==
    /\ req[q].at = "handle"
    /\ Become(q, [req[q] EXCEPT !.at = "unwind", !.ran = TRUE, !.panicked = TRUE])
    /\ UNCHANGED sharedVars

-----------------------------------------------------------------------------
(* Up.                                                                     *)

\* ResponseFormatter writes what was held back, in an envelope.
Format(q) ==
    /\ req[q].at = "format"
    /\ Become(q, [req[q] EXCEPT !.at = "total", !.sent = req[q].body])
    /\ UNCHANGED sharedVars

\* Mutant of Audit: the wrapper of the writer does not see WriteHeader.
AuditDefault(q) ==
    /\ req[q].at = "audit"
    /\ Become(q, [req[q] EXCEPT !.at = "record", !.audit = 200])
    /\ UNCHANGED sharedVars

\* AuditLog ignores the error of the insert, which fails with the database, because
\* the client is gone and the context of the request with it, or for the path.
Audit(q) ==
    /\ req[q].at = "audit"
    /\ \/ Utf8(req[q]) /\ Become(q, [req[q] EXCEPT !.at = "record", !.audit = req[q].sent])
       \/ (Faults \/ ~Utf8(req[q])) /\ Become(q, [req[q] EXCEPT !.at = "record", !.lost = @ \cup {"audit"}])
    /\ UNCHANGED sharedVars

\* persistError: one row in error_logs, or a line in the log that there is none.
PersistError(q, r) ==
    \/ Utf8(r) /\ Become(q, [r EXCEPT !.at = "done", !.errors = @ + 1])
    \/ (Faults \/ ~Utf8(r)) /\ Become(q, [r EXCEPT !.at = "done", !.lost = @ \cup {"error"}])

\* ErrorRecorder.
RecordError(q) ==
    /\ req[q].at = "record"
    /\ IF req[q].sent >= 500 THEN PersistError(q, req[q])
       ELSE Become(q, [req[q] EXCEPT !.at = "done"])
    /\ UNCHANGED sharedVars

\* A panic leaves Metrics through its deferred increment; no other layer below
\* ErrorHandler has anything deferred.
Unwind(q) ==
    /\ req[q].at = "unwind"
    /\ Become(q, [req[q] EXCEPT !.at = "recover", !.left = @ + 1])
    /\ UNCHANGED sharedVars

\* Mutant of Recover: ErrorHandler is put below ErrorRecorder.
RecoverBelow(q) ==
    /\ req[q].at = "recover"
    /\ Become(q, [req[q] EXCEPT !.at = "record", !.sent = 500, !.errors = @ + 1])
    /\ UNCHANGED sharedVars

\* ErrorHandler: persistError, then 500 unless the client has a status already.
Recover(q) ==
    /\ req[q].at = "recover"
    /\ PersistError(q, [req[q] EXCEPT !.sent = IF @ = Unset THEN 500 ELSE @])
    /\ UNCHANGED sharedVars

Finish(q) ==
    /\ req[q].at = "done"
    /\ Become(q, NoRequest)
    /\ UNCHANGED sharedVars

-----------------------------------------------------------------------------
(* The environment.                                                        *)

Expire(t) ==
    /\ holder[t] # NoUser
    /\ expired' = expired \cup {t}
    /\ UNCHANGED <<req, holder, claim, listed, allowed, registered>>

\* Somebody writes the key: no code of the repository does.
List(t) ==
    /\ TokenDenylist
    /\ holder[t] # NoUser
    /\ listed' = listed \cup {t}
    /\ UNCHANGED <<req, holder, claim, expired, allowed, registered>>

Allow(u) ==
    /\ allowed' = allowed \cup {u}
    /\ req' = [q \in Request |-> [req[q] EXCEPT !.entitled =
                  @ \/ (req[q].bearer \in Token /\ holder[req[q].bearer] = u)]]
    /\ UNCHANGED <<tokenVars, registered>>

Forbid(u) ==
    /\ allowed' = allowed \ {u}
    /\ UNCHANGED <<req, tokenVars, registered>>

Begin(q) ==
    \/ \E k \in Route \ {"preflight"}, b \in Bearer : Arrive(q, k, b)
    \/ Preflight(q)

Serve(q) ==
    \/ Limit(q) \/ Find(q) \/ Create(q) \/ ServeWeb(q) \/ Enter(q)
    \/ Authenticate(q) \/ Resolve(q) \/ Authorize(q)
    \/ Handle(q) \/ Panic(q)
    \/ \E t \in Token, u \in User : Issue(q, t, u)
    \/ Format(q) \/ Leave(q) \/ Audit(q) \/ RecordError(q)
    \/ Unwind(q) \/ Recover(q)

Next ==
    \/ \E q \in Request : Begin(q) \/ Serve(q) \/ Finish(q)
    \/ \E t \in Token : Expire(t) \/ List(t)
    \/ \E u \in User : Allow(u) \/ Forbid(u)

Spec == Init /\ [][Next]_vars

-----------------------------------------------------------------------------
(* Properties.                                                             *)

\* The tables and the registry hold known values, and every request is a Record.
TypeOK ==
    /\ req \in [Request -> Record]
    /\ holder \in [Token -> Caller]
    /\ claim \in [Token -> Scope]
    /\ expired \subseteq Token
    /\ listed \subseteq Token
    /\ allowed \subseteq User
    /\ registered \subseteq Metric

Done(r) == r.at = "done"

\* An answer of 500 and above leaves one row in error_logs and any other none,
\* whether the handler answered so or panicked, unless the insert failed.
FailuresRecordedOnce ==
    \A q \in Request : Done(req[q]) =>
        req[q].errors = IF req[q].sent >= 500 /\ "error" \notin req[q].lost THEN 1 ELSE 0

\* A row of audit_logs shows the status the client got, whichever layer answered;
\* only a panic, a preflight request and a failed insert leave no row.
AuditTellsAnswer ==
    \A q \in Request : Done(req[q]) =>
        \/ req[q].audit = req[q].sent
        \/ /\ req[q].audit = Unset
           /\ \/ req[q].panicked
              \/ "audit" \in req[q].lost
              \/ req[q].route = "preflight"

\* A module's handler runs only for a token that was good when the request came
\* and a user who had the right at some time since; a token on the denylist gets
\* that far only if Redis failed each time it was asked.
OnlyEntitledRun ==
    \A q \in Request : req[q].ran /\ req[q].route = "module" =>
        /\ req[q].welcome /\ req[q].entitled
        /\ req[q].revoked => req[q].blind = 2

\* Requests that Metrics has counted as active.
Measured(r) == r.route # "preflight" /\ Utf8(r) /\ r.sent # 429

\* The counters tell the same story: whoever was counted as active on the way in is
\* counted once more on the way out, by a handler's panic too, and once in the total
\* if it came back.  Requests that meet a new metric at once do not register it
\* twice: what panics is a handler, or a path that is no label and counted nowhere.
MetricsAgree ==
    \A q \in Request : Done(req[q]) =>
        /\ req[q].panicked => req[q].ran \/ ~Utf8(req[q])
        /\ req[q].entered = IF Measured(req[q]) THEN 1 ELSE 0
        /\ req[q].left = req[q].entered
        /\ req[q].total = IF Measured(req[q]) /\ ~req[q].panicked THEN 1 ELSE 0
=============================================================================
