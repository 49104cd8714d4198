----------------------------- MODULE PolicySync -----------------------------
(***************************************************************************)
(* Keeping casbin in step with the RBAC tables.  Granting and revoking     *)
(* write user_roles or role_permissions; the same request then flattens    *)
(* the tables into (user, right) rules, rewrites casbin_rule in one        *)
(* transaction and reloads the enforcer of its own process.  Permission    *)
(* checks are answered from that enforcer and its decision cache.          *)
(*                                                                         *)
(* A right stands for a (resource, action) pair.  Every statement that     *)
(* another request can get in front of is a step.                          *)
(***************************************************************************)
EXTENDS Naturals

CONSTANTS
    User, Role, Perm, Right,
    Instance,   \* processes (replicas), each with an enforcer of its own
    Request,    \* slots for requests that are being served at once
    At,         \* the instance each slot belongs to
    Batch,      \* numbers that tell apart the rows of casbin_rule (column id)
    Faults,     \* TRUE: a statement may fail and a process may crash
    Traffic     \* the kinds of request that occur (see Kinds)

Kinds == {"roles", "permissions", "delete", "update", "check"}

ASSUME PolicyConstants ==
    /\ At \in [Request -> Instance]
    /\ Batch \subseteq Nat
    /\ Faults \in BOOLEAN
    /\ Traffic \subseteq Kinds

VARIABLES
    userRoles,  \* user_roles
    rolePerms,  \* role_permissions
    deadRoles,  \* roles with deleted_at set
    deadPerms,  \* permissions with deleted_at set
    right,      \* permissions.resource and permissions.action
    rules,      \* casbin_rule: committed rows
    up,         \* instances whose enforcer has been built
    policy,     \* the rules in the enforcer's model, per instance
    allowed,    \* the decision cache, per instance: rules answered with yes,
    denied,     \* and rules answered with no
    pc,         \* the next step of each request
    scope,      \* the users whose rules it rewrites
    link,       \* the user_roles or role_permissions row it will insert
    want,       \* the rules it will insert, or the rule it asks about
    doomed,     \* the rows its DELETE statement saw
    loaded,     \* the rules LoadPolicy read, or the decision of a check
    (* History variables.                                                    *)
    granted,    \* rules the tables have granted at some time
    alone       \* syncs since whose flattening nobody else wrote a table

tableVars    == <<userRoles, rolePerms, deadRoles, deadPerms, right>>
enforcerVars == <<up, policy, allowed, denied>>
requestVars  == <<pc, scope, link, want, doomed, loaded>>
historyVars  == <<granted, alone>>
vars == <<tableVars, rules, enforcerVars, requestVars, historyVars>>

-----------------------------------------------------------------------------

Rule == User \X Right
RuleRow == [rule : Rule, batch : Batch]

\* GetRolesByUserID, GetPermissionsByRoleID: what the API lists.
RolesOf(u) == {r \in Role \ deadRoles : <<u, r>> \in userRoles}
RightsOf(r) == {right[p] : p \in {n \in Perm \ deadPerms : <<r, n>> \in rolePerms}}

\* What RBAC means: a user has the rights of the roles the user has.
Entitled == {x \in Rule : \E r \in RolesOf(x[1]) : x[2] \in RightsOf(r)}

\* Mutant of Flattened: the WHERE clause forgets the user.
FlattenedOfEveryone(us) ==
    {x \in Rule : \E r \in Role \ deadRoles, p \in Perm \ deadPerms :
        <<x[1], r>> \in userRoles /\ <<r, p>> \in rolePerms /\ x[2] = right[p]}

\* Mutant of Flattened: the join forgets roles.deleted_at.
FlattenedWithDeadRoles(us) ==
    {x \in us \X Right : \E r \in Role, p \in Perm \ deadPerms :
        <<x[1], r>> \in userRoles /\ <<r, p>> \in rolePerms /\ x[2] = right[p]}

\* loadUserFlattenedPolicies, loadAllFlattenedPolicies: what the tables grant.
Flattened(us) ==
    {x \in us \X Right : \E r \in Role \ deadRoles, p \in Perm \ deadPerms :
        <<x[1], r>> \in userRoles /\ <<r, p>> \in rolePerms /\ x[2] = right[p]}

\* The rows the DELETE of a sync sees: v0 = $1, or every row.
RulesOf(us) == {row \in rules : row.rule[1] \in us}

\* Nobody's row has this number: the sequence behind the column id.
Unused(b) ==
    /\ \A row \in rules : row.batch # b
    /\ \A q \in Request : \A row \in doomed[q] : row.batch # b

Init ==
    /\ userRoles \in SUBSET (User \X Role)
    /\ rolePerms \in SUBSET (Role \X Perm)
    /\ deadRoles = {} /\ deadPerms = {}
    /\ right \in [Perm -> Right]
    /\ rules = {}
    /\ up = {}
    /\ policy = [i \in Instance |-> {}]
    /\ allowed = [i \in Instance |-> {}]
    /\ denied = [i \in Instance |-> {}]
    /\ pc = [q \in Request |-> "idle"]
    /\ scope = [q \in Request |-> {}]
    /\ link = [q \in Request |-> <<>>]
    /\ want = [q \in Request |-> {}]
    /\ doomed = [q \in Request |-> {}]
    /\ loaded = [q \in Request |-> {}]
    /\ granted = Entitled
    /\ alone = {}

\* A free slot takes a request that touches the rules of us.
Begin(q, l, us, k) ==
    /\ pc[q] = "idle"
    /\ pc' = [pc EXCEPT ![q] = l]
    /\ scope' = [scope EXCEPT ![q] = us]
    /\ link' = [link EXCEPT ![q] = k]
    /\ UNCHANGED <<want, doomed, loaded>>

\* The request passes from step k to step l.
Goto(q, k, l) ==
    /\ pc[q] = k
    /\ pc' = [pc EXCEPT ![q] = l]
    /\ UNCHANGED <<scope, link>>

\* The response is sent.
Finish(q) ==
    /\ pc' = [pc EXCEPT ![q] = "idle"]
    /\ scope' = [scope EXCEPT ![q] = {}]
    /\ link' = [link EXCEPT ![q] = <<>>]
    /\ want' = [want EXCEPT ![q] = {}]
    /\ doomed' = [doomed EXCEPT ![q] = {}]
    /\ loaded' = [loaded EXCEPT ![q] = {}]

\* Some table was written: the other syncs no longer run alone.
Written(mine) ==
    /\ granted' = granted \cup Entitled'
    /\ alone' = alone \cap mine

-----------------------------------------------------------------------------
(* The four commands that sync: the write to the RBAC tables.              *)

\* AssignRoleCommand: GetByID finds the role, then the row is inserted.
AssignRole(q, u, r) ==
    /\ "roles" \in Traffic
    /\ At[q] \in up
    /\ r \notin deadRoles
    /\ Begin(q, "assign_role", {u}, <<u, r>>)
    /\ UNCHANGED <<tableVars, rules, enforcerVars, historyVars>>

AssignRoleWrite(q) ==
    /\ Goto(q, "assign_role", "flatten")
    /\ userRoles' = userRoles \cup {link[q]}
    /\ UNCHANGED <<rolePerms, deadRoles, deadPerms, right>>
    /\ Written({q})
    /\ UNCHANGED <<rules, enforcerVars, want, doomed, loaded>>

UnassignRole(q, u, r) ==
    /\ "roles" \in Traffic
    /\ At[q] \in up
    /\ Begin(q, "flatten", {u}, <<>>)
    /\ userRoles' = userRoles \ {<<u, r>>}
    /\ UNCHANGED <<rolePerms, deadRoles, deadPerms, right>>
    /\ Written({q})
    /\ UNCHANGED <<rules, enforcerVars>>

\* AssignPermissionCommand looks up role and permission; every user is synced.
AssignPermission(q, r, p) ==
    /\ "permissions" \in Traffic
    /\ At[q] \in up
    /\ r \notin deadRoles /\ p \notin deadPerms
    /\ Begin(q, "assign_perm", User, <<r, p>>)
    /\ UNCHANGED <<tableVars, rules, enforcerVars, historyVars>>

AssignPermissionWrite(q) ==
    /\ Goto(q, "assign_perm", "flatten")
    /\ rolePerms' = rolePerms \cup {link[q]}
    /\ UNCHANGED <<userRoles, deadRoles, deadPerms, right>>
    /\ Written({q})
    /\ UNCHANGED <<rules, enforcerVars, want, doomed, loaded>>

UnassignPermission(q, r, p) ==
    /\ "permissions" \in Traffic
    /\ At[q] \in up
    /\ Begin(q, "flatten", User, <<>>)
    /\ rolePerms' = rolePerms \ {<<r, p>>}
    /\ UNCHANGED <<userRoles, deadRoles, deadPerms, right>>
    /\ Written({q})
    /\ UNCHANGED <<rules, enforcerVars>>

-----------------------------------------------------------------------------
(* The commands that write the catalogue and do not sync.                  *)

DeleteRole(r) ==
    /\ "delete" \in Traffic
    /\ deadRoles' = deadRoles \cup {r}
    /\ UNCHANGED <<userRoles, rolePerms, deadPerms, right>>
    /\ Written({})
    /\ UNCHANGED <<rules, enforcerVars, requestVars>>

DeletePermission(p) ==
    /\ "delete" \in Traffic
    /\ deadPerms' = deadPerms \cup {p}
    /\ UNCHANGED <<userRoles, rolePerms, deadRoles, right>>
    /\ Written({})
    /\ UNCHANGED <<rules, enforcerVars, requestVars>>

\* The handler reads the row first, but any pair can be what it writes.
UpdatePermission(p, x) ==
    /\ "update" \in Traffic
    /\ p \notin deadPerms
    /\ right' = [right EXCEPT ![p] = x]
    /\ UNCHANGED <<userRoles, rolePerms, deadRoles, deadPerms>>
    /\ Written({})
    /\ UNCHANGED <<rules, enforcerVars, requestVars>>

-----------------------------------------------------------------------------
(* SyncUserPolicies and SyncAllPolicies.                                   *)

\* A process starts: NewEnforcer syncs everything before requests are served.
\* (The rules casbin loads before that are replaced when the sync ends.)
Boot(q) ==
    /\ At[q] \notin up
    /\ \A o \in Request : At[o] = At[q] => pc[o] = "idle"
    /\ Begin(q, "flatten", User, <<>>)
    /\ UNCHANGED <<tableVars, rules, enforcerVars, historyVars>>

\* The SELECT, outside the transaction that follows.
Flatten(q) ==
    /\ Goto(q, "flatten", "delete")
    /\ want' = [want EXCEPT ![q] = Flattened(scope[q])]
    /\ alone' = alone \cup {q}
    /\ UNCHANGED <<tableVars, rules, enforcerVars, doomed, loaded, granted>>

\* DELETE sees the rows committed when it starts (READ COMMITTED): it waits for
\* a transaction that has deleted one of them, but not for rows being inserted.
Delete(q) ==
    /\ Goto(q, "delete", "commit")
    /\ doomed' = [doomed EXCEPT ![q] = RulesOf(scope[q])]
    /\ UNCHANGED <<tableVars, rules, enforcerVars, want, loaded, historyVars>>

\* Mutant of Commit: the rules go in, the old rows stay.
CommitWithoutDelete(q) ==
    \E b \in {n \in Batch : Unused(n)} :
        /\ \A n \in Batch : Unused(n) => b <= n
        /\ Goto(q, "commit", "load")
        /\ rules' = rules \cup [rule : want[q], batch : {b}]
        /\ doomed' = [doomed EXCEPT ![q] = {}]
        /\ alone' = alone \cap {q}
        /\ UNCHANGED <<tableVars, enforcerVars, want, loaded, granted>>

\* The INSERTs and COMMIT.
Commit(q) ==
    \E b \in {n \in Batch : Unused(n)} :
        /\ \A n \in Batch : Unused(n) => b <= n
        /\ Goto(q, "commit", "load")
        /\ rules' = (rules \ doomed[q]) \cup [rule : want[q], batch : {b}]
        /\ doomed' = [doomed EXCEPT ![q] = {}]
        /\ alone' = alone \cap {q}
        /\ UNCHANGED <<tableVars, enforcerVars, want, loaded, granted>>

\* Mutant of Load: the cache is kept.
LoadKeepingCache(q) ==
    /\ Goto(q, "load", "swap")
    /\ loaded' = [loaded EXCEPT ![q] = {row.rule : row \in rules}]
    /\ UNCHANGED <<tableVars, rules, enforcerVars, want, doomed, historyVars>>

\* CachedEnforcer.LoadPolicy empties the cache and reads casbin_rule into a new
\* model.  (Both in one step: nobody can tell their order.)
Load(q) ==
    /\ Goto(q, "load", "swap")
    /\ loaded' = [loaded EXCEPT ![q] = {row.rule : row \in rules}]
    /\ allowed' = [allowed EXCEPT ![At[q]] = {}]
    /\ denied' = [denied EXCEPT ![At[q]] = {}]
    /\ UNCHANGED <<tableVars, rules, up, policy, want, doomed, historyVars>>

\* Mutant of Swap: the model is kept.
SwapNothing(q) ==
    /\ pc[q] = "swap"
    /\ Finish(q)
    /\ up' = up \cup {At[q]}
    /\ alone' = alone \ {q}
    /\ UNCHANGED <<tableVars, rules, policy, allowed, denied, granted>>

\* The new model takes effect and the request (or the start-up) is done.
Swap(q) ==
    /\ pc[q] = "swap"
    /\ Finish(q)
    /\ policy' = [policy EXCEPT ![At[q]] = loaded[q]]
    /\ up' = up \cup {At[q]}
    /\ alone' = alone \ {q}
    /\ UNCHANGED <<tableVars, rules, allowed, denied, granted>>

-----------------------------------------------------------------------------
(* CachedEnforcer.Enforce.                                                 *)

\* Mutant of Enforce: what the model does not know is let through.
EnforceOpen(q, x) ==
    /\ "check" \in Traffic
    /\ At[q] \in up
    /\ x \notin allowed[At[q]] \cup denied[At[q]]
    /\ pc[q] = "idle"
    /\ pc' = [pc EXCEPT ![q] = "remember"]
    /\ want' = [want EXCEPT ![q] = {x}]
    /\ loaded' = [loaded EXCEPT ![q] = {x}]
    /\ UNCHANGED <<scope, link, doomed>>
    /\ UNCHANGED <<tableVars, rules, enforcerVars, historyVars>>

\* A rule that is not in the cache is looked up in the model.
Enforce(q, x) ==
    /\ "check" \in Traffic
    /\ At[q] \in up
    /\ x \notin allowed[At[q]] \cup denied[At[q]]
    /\ pc[q] = "idle"
    /\ pc' = [pc EXCEPT ![q] = "remember"]
    /\ want' = [want EXCEPT ![q] = {x}]
    /\ loaded' = [loaded EXCEPT ![q] = {x} \cap policy[At[q]]]
    /\ UNCHANGED <<scope, link, doomed>>
    /\ UNCHANGED <<tableVars, rules, enforcerVars, historyVars>>

\* Then the decision goes into the cache, where it stays until the next Clear.
Remember(q) ==
    /\ pc[q] = "remember"
    /\ Finish(q)
    /\ allowed' = [allowed EXCEPT ![At[q]] = (@ \ want[q]) \cup loaded[q]]
    /\ denied' = [denied EXCEPT ![At[q]] = (@ \cup want[q]) \ loaded[q]]
    /\ UNCHANGED <<tableVars, rules, up, policy, historyVars>>

-----------------------------------------------------------------------------
(* Failures.                                                               *)

\* A statement fails or the request is cut off; a transaction rolls back.
Abort(q) ==
    /\ Faults
    /\ pc[q] # "idle"
    /\ Finish(q)
    /\ alone' = alone \ {q}
    /\ UNCHANGED <<tableVars, rules, enforcerVars, granted>>

\* A process dies with its enforcer and its requests.
Crash(i) ==
    /\ Faults
    /\ i \in up
    /\ up' = up \ {i}
    /\ policy' = [policy EXCEPT ![i] = {}]
    /\ allowed' = [allowed EXCEPT ![i] = {}]
    /\ denied' = [denied EXCEPT ![i] = {}]
    /\ pc' = [q \in Request |-> IF At[q] = i THEN "idle" ELSE pc[q]]
    /\ scope' = [q \in Request |-> IF At[q] = i THEN {} ELSE scope[q]]
    /\ link' = [q \in Request |-> IF At[q] = i THEN <<>> ELSE link[q]]
    /\ want' = [q \in Request |-> IF At[q] = i THEN {} ELSE want[q]]
    /\ doomed' = [q \in Request |-> IF At[q] = i THEN {} ELSE doomed[q]]
    /\ loaded' = [q \in Request |-> IF At[q] = i THEN {} ELSE loaded[q]]
    /\ alone' = {q \in alone : At[q] # i}
    /\ UNCHANGED <<tableVars, rules, granted>>

Step(q) ==
    \/ \E u \in User, r \in Role : AssignRole(q, u, r)
    \/ AssignRoleWrite(q)
    \/ \E u \in User, r \in Role : UnassignRole(q, u, r)
    \/ \E r \in Role, p \in Perm : AssignPermission(q, r, p)
    \/ AssignPermissionWrite(q)
    \/ \E r \in Role, p \in Perm : UnassignPermission(q, r, p)
    \/ Boot(q)
    \/ Flatten(q)
    \/ Delete(q)
    \/ Commit(q)
    \/ Load(q)
    \/ Swap(q)
    \/ \E x \in Rule : Enforce(q, x)
    \/ Remember(q)
    \/ Abort(q)

Next ==
    \/ \E q \in Request : Step(q)
    \/ \E r \in Role : DeleteRole(r)
    \/ \E p \in Perm : DeletePermission(p)
    \/ \E p \in Perm, x \in Right : UpdatePermission(p, x)
    \/ \E i \in Instance : Crash(i)

Spec == Init /\ [][Next]_vars

-----------------------------------------------------------------------------
(* Properties.                                                             *)

Steps == {"idle", "assign_role", "assign_perm", "flatten", "delete", "commit",
          "load", "swap", "remember"}

TablesOK ==
    /\ userRoles \subseteq User \X Role
    /\ rolePerms \subseteq Role \X Perm
    /\ deadRoles \subseteq Role
    /\ deadPerms \subseteq Perm
    /\ right \in [Perm -> Right]
    /\ rules \subseteq RuleRow

EnforcersOK ==
    /\ up \subseteq Instance
    /\ policy \in [Instance -> SUBSET Rule]
    /\ allowed \in [Instance -> SUBSET Rule]
    /\ denied \in [Instance -> SUBSET Rule]

RequestsOK ==
    /\ pc \in [Request -> Steps]
    /\ scope \in [Request -> SUBSET User]
    /\ link \in [Request -> {<<>>} \cup (User \X Role) \cup (Role \X Perm)]
    /\ want \in [Request -> SUBSET Rule]
    /\ doomed \in [Request -> SUBSET RuleRow]
    /\ loaded \in [Request -> SUBSET Rule]
    /\ \A q \in Request :
        /\ pc[q] = "assign_role" => link[q] \in User \X Role
        /\ pc[q] = "assign_perm" => link[q] \in Role \X Perm
        /\ pc[q] = "remember" => loaded[q] \subseteq want[q]
        /\ pc[q] \in {"delete", "commit"} => want[q] \subseteq scope[q] \X Right

HistoryOK ==
    /\ granted \subseteq Rule
    /\ alone \subseteq Request

\* Tables, enforcers and requests hold rules of known users and rights, a sync
\* only rewrites rules of the users it is about, and a decision is about its rule.
TypeOK == TablesOK /\ EnforcersOK /\ RequestsOK /\ HistoryOK

Quiet == \A q \in Request : pc[q] = "idle"

\* With one request at a time, an enforcer agrees with the RBAC tables whenever
\* no request is being served.
PolicyMatchesTables ==
    Quiet => \A i \in up : policy[i] = Entitled

\* The spec's sync flow: "Call enforcer.LoadPolicy() to sync in-memory cache".
\* While no sync is under way, a remembered decision is that of the model.
CacheInSync ==
    Quiet => \A i \in up : allowed[i] \subseteq policy[i] /\ denied[i] \cap policy[i] = {}

\* The same of the model: it holds what casbin_rule holds.
MemoryInSync ==
    Quiet => \A i \in up : policy[i] = {row.rule : row \in rules}

\* A sync during which nobody else wrote a table installs exactly what the
\* tables grant to its users, however stale rules, model and duplicates were.
LoneSyncIsExact ==
    \A q \in alone : pc[q] = "swap" =>
        {x \in loaded[q] : x[1] \in scope[q]} = {x \in Entitled : x[1] \in scope[q]}

\* The enforcer, its cache and casbin_rule never hold a right the tables have
\* not granted at some time: syncs can be late, but they do not invent.
NothingInvented ==
    /\ \A row \in rules : row.rule \in granted
    /\ \A i \in Instance : policy[i] \cup allowed[i] \subseteq granted

\* A process that starts while nobody else writes a table comes up with what the
\* tables grant, whatever a crash or a sync that was cut off has left behind.
StartUpRepairs ==
    [][\A q \in alone : pc[q] = "swap" /\ At[q] \in up' \ up => policy'[At[q]] = Entitled]_vars
=============================================================================
