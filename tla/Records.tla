------------------------------ MODULE Records ------------------------------
(***************************************************************************)
(* The record endpoints: create, get, update and delete of roles,          *)
(* permissions, tenants, todos and users, and completion of todos.  A      *)
(* request is a handler, a command or query, a repository call and a SQL   *)
(* statement; nothing holds a transaction or a lock across statements, so  *)
(* requests interleave between the look-up and the write, and for todos    *)
(* between the write and the published event.                              *)
(*                                                                         *)
(* A behaviour is about one table (kind): no request touches two of them.  *)
(***************************************************************************)
EXTENDS RecordRows, Naturals

VARIABLES
    kind,       \* the table, chosen once
    rows,       \* its rows
    pc,         \* where each request is: "idle", "asked" (nothing read yet),
                \* "insert", "write", "remove" (the next statement), "publish"
    ask,        \* the request in each slot
    seen,       \* the entity in memory between look-up and write
    answer,     \* the last status each slot was answered with, 0 for none
    recent,     \* history: versions the addressed row has had since the request
    told        \* history, todos: last write, last event, and whether they crossed

vars == <<kind, rows, pc, ask, seen, answer, recent, told>>

Events == {"none", "create", "update", "complete", "delete"}

Error == {"NotFound", "AlreadyExists", "Conflict", "plain"}

\* Writes and events of two requests crossed, or an event was lost: until a write
\* that meets no other request, nothing is said of the order.
Crossed == [wrote |-> "none", said |-> "none", crossed |-> TRUE]

Init ==
    /\ kind \in Kind
    /\ rows = [i \in Id |-> NoRow]
    /\ pc = [q \in Request |-> "idle"]
    /\ ask = [q \in Request |-> NoAsk]
    /\ seen = [q \in Request |-> NoRow]
    /\ answer = [q \in Request |-> 0]
    /\ recent = [q \in Request |-> {}]
    /\ told = [i \in Id |-> [wrote |-> "none", said |-> "none", crossed |-> FALSE]]

-----------------------------------------------------------------------------
(* The requests the handlers let through.                                  *)

Asked(op, names, texts, flags) ==
    [op : {op}, id : Id, name : names, text : texts, flag : flags]

Maybe(values) == values \cup {None}

HttpCreateRole == Asked("create", Name, Maybe(Text), {"keep"})
HttpGetRole    == Asked("get", {None}, {None}, {"keep"})
HttpUpdateRole == Asked("update", Maybe(Name), Maybe(Text), {"keep"})
HttpDeleteRole == Asked("delete", {None}, {None}, {"keep"})

HttpCreatePermission == Asked("create", Name, Maybe(Text), {"keep"})
HttpGetPermission    == Asked("get", {None}, {None}, {"keep"})
HttpUpdatePermission == Asked("update", Maybe(Name), Maybe(Text), {"keep"})
HttpDeletePermission == Asked("delete", {None}, {None}, {"keep"})

\* The slug of a tenant is not a field of the update.
HttpCreateTenant == Asked("create", Name, Text, {"keep"})
HttpGetTenant    == Asked("get", {None}, {None}, {"keep"})
HttpUpdateTenant == Asked("update", {None}, Maybe(Text), {"keep", "on", "off"})
HttpDeleteTenant == Asked("delete", {None}, {None}, {"keep"})

HttpCreateTodo   == Asked("create", Name, Maybe(Text), {"keep"})
HttpGetTodo      == Asked("get", {None}, {None}, {"keep"})
HttpUpdateTodo   == Asked("update", Maybe(Name), Maybe(Text), {"keep"})
HttpDeleteTodo   == Asked("delete", {None}, {None}, {"keep"})
HttpCompleteTodo == Asked("complete", {None}, {None}, {"on"})

\* is_active left out is false in a create and true in an update.
HttpCreateUser == Asked("create", Name, Maybe(Text), {"on", "off"})
HttpGetUser    == Asked("get", {None}, {None}, {"keep"})
HttpUpdateUser == Asked("update", Maybe(Name), Maybe(Text), {"on", "off"})
HttpDeleteUser == Asked("delete", {None}, {None}, {"keep"})

Http ==
    [role |-> HttpCreateRole \cup HttpGetRole \cup HttpUpdateRole \cup HttpDeleteRole,
     permission |-> HttpCreatePermission \cup HttpGetPermission
                    \cup HttpUpdatePermission \cup HttpDeletePermission,
     tenant |-> HttpCreateTenant \cup HttpGetTenant \cup HttpUpdateTenant \cup HttpDeleteTenant,
     todo |-> HttpCreateTodo \cup HttpGetTodo \cup HttpUpdateTodo \cup HttpDeleteTodo
              \cup HttpCompleteTodo,
     user |-> HttpCreateUser \cup HttpGetUser \cup HttpUpdateUser \cup HttpDeleteUser]

\* The id of a create is a new one: uuid.New.
Accept(q) ==
    /\ pc[q] = "idle"
    /\ \E a \in Http[kind] :
        /\ a.op = "create" =>
              /\ rows[a.id] = NoRow
              /\ \A p \in Request : ask[p].op = "create" => ask[p].id # a.id
        /\ ask' = [ask EXCEPT ![q] = a]
        /\ recent' = [recent EXCEPT ![q] = {rows[a.id]}]
    /\ pc' = [pc EXCEPT ![q] = "asked"]
    /\ answer' = [answer EXCEPT ![q] = 0]
    /\ UNCHANGED <<kind, rows, seen, told>>

RespondBadRequest(q) ==
    /\ pc[q] = "idle"
    /\ answer' = [answer EXCEPT ![q] = 400]
    /\ UNCHANGED <<kind, rows, pc, ask, seen, recent, told>>

-----------------------------------------------------------------------------
(* How a request ends, and what one statement does.                        *)

Reply(q, s) ==
    /\ pc' = [pc EXCEPT ![q] = "idle"]
    /\ ask' = [ask EXCEPT ![q] = NoAsk]
    /\ seen' = [seen EXCEPT ![q] = NoRow]
    /\ answer' = [answer EXCEPT ![q] = s]

Answer(q, s) ==
    /\ Reply(q, s)
    /\ recent' = [recent EXCEPT ![q] = {}]
    /\ UNCHANGED <<kind, rows, told>>

\* Mutant of MapErrorFromRequest: a conflict is its own status.
MapErrorUnknown(e) == IF e = "NotFound" THEN 404 ELSE IF e = "plain" THEN 500 ELSE 422

MapErrorFromRequest(e) ==
    CASE e = "NotFound" -> 404
      [] e \in {"AlreadyExists", "Conflict"} -> 409
      [] e = "plain" -> 500

Refuse(q, e) == Answer(q, MapErrorFromRequest(e))

At(q, k, where, op) == kind = k /\ pc[q] = where /\ ask[q].op = op

Target(q) == rows[ask[q].id]

\* On to the next statement, with entity e in memory.
Proceed(q, where, e) ==
    /\ pc' = [pc EXCEPT ![q] = where]
    /\ seen' = [seen EXCEPT ![q] = e]
    /\ UNCHANGED <<kind, rows, ask, answer, recent, told>>

\* The look-up by id finds no row (error e), or fails (error f).
Missing(q, found, e, f) ==
    \/ found = {} /\ Refuse(q, e)
    \/ q \in Faulty /\ Refuse(q, f)

\* The unique index of the table holds a name as long as a row has it, deleted
\* or not; todos have no such index.
Holders(n) ==
    {i \in Id : kind # "todo" /\ rows[i].state \in {"live", "deleted"} /\ rows[i].name = n}

Publishing(q, i) == pc[q] = "publish" /\ ask[q].id = i

\* The statement commits and the target row is r.  A todo's event is still to be
\* published; else the answer follows, unless the driver loses the result or the
\* process dies.
Commit(q, r) ==
    LET i == ask[q].id IN
    /\ rows' = [rows EXCEPT ![i] = r]
    /\ recent' = [p \in Request |->
          IF p = q THEN {}
          ELSE IF pc[p] \notin {"idle", "publish"} /\ ask[p].id = i THEN recent[p] \cup {r}
          ELSE recent[p]]
    /\ \/ /\ kind = "todo"
          /\ pc' = [pc EXCEPT ![q] = "publish"]
          /\ seen' = [seen EXCEPT ![q] = NoRow]
          /\ told' = [told EXCEPT ![i] =
                IF \E p \in Request : Publishing(p, i) THEN Crossed
                ELSE [wrote |-> ask[q].op, said |-> @.said, crossed |-> FALSE]]
          /\ UNCHANGED <<ask, answer>>
       \/ kind # "todo" /\ Reply(q, Done(ask[q])) /\ UNCHANGED told
       \/ /\ q \in Faulty
          /\ \E s \in {0, 500} : Reply(q, s)
          /\ told' = [told EXCEPT ![i] = IF kind = "todo" THEN Crossed ELSE @]
    /\ UNCHANGED kind

\* INSERT of row r; e is the error of a unique violation.
Insert(q, r, e) ==
    \/ Holders(r.name) = {} /\ Commit(q, r)
    \/ Holders(r.name) # {} /\ Refuse(q, e)
    \/ q \in Faulty /\ Refuse(q, "plain")

\* UPDATE of the target row to r, if the statement finds it; e is the error of
\* no row updated.  A unique violation is a plain error.
Write(q, found, r, e) ==
    \/ found = {} /\ Refuse(q, e)
    \/ found # {} /\ Holders(r.name) \subseteq {ask[q].id} /\ Commit(q, r)
    \/ found # {} /\ ~(Holders(r.name) \subseteq {ask[q].id}) /\ Refuse(q, "plain")
    \/ q \in Faulty /\ Refuse(q, "plain")

\* DELETE, or UPDATE of deleted_at: no row updated is a plain error.
Erase(q, found, r) ==
    \/ found = {} /\ Refuse(q, "plain")
    \/ found # {} /\ Commit(q, r)
    \/ q \in Faulty /\ Refuse(q, "plain")

\* A process dies: the client has no answer, and an event not yet published
\* never is.  A request at "publish" has nothing else left.
Die(q) ==
    /\ q \in Faulty
    /\ pc[q] # "idle"
    /\ Reply(q, 0)
    /\ recent' = [recent EXCEPT ![q] = {}]
    /\ told' = [i \in Id |-> IF Publishing(q, i) THEN Crossed ELSE told[i]]
    /\ UNCHANGED <<kind, rows>>

-----------------------------------------------------------------------------
(* Roles.                                                                  *)

RoleRow(a) == [NoRow EXCEPT !.state = "live", !.name = a.name, !.text = a.text]
GetRoleByID(i) == {r \in {rows[i]} : IsLive(r)}
GetRoleByName(n) == {i \in Id : IsLive(rows[i]) /\ rows[i].name = n}
RoleColumns(r, e) == [r EXCEPT !.name = e.name, !.text = e.text]
RoleDeleted(r) == [r EXCEPT !.state = "deleted"]

NoRole(q) == Missing(q, GetRoleByID(ask[q].id), "plain", "plain")

ChangedRole(e, a) ==
    [e EXCEPT !.name = IF a.name # None THEN a.name ELSE @,
              !.text = IF a.text # None THEN a.text ELSE @]

\* An error of the look-up, not found or other, counts as no such role.
CreateRole(q) ==
    /\ At(q, "role", "asked", "create")
    /\ \/ GetRoleByName(ask[q].name) # {} /\ Refuse(q, "Conflict")
       \/ (GetRoleByName(ask[q].name) = {} \/ q \in Faulty) /\ Proceed(q, "insert", NoRow)

InsertRole(q) ==
    At(q, "role", "insert", "create") /\ Insert(q, RoleRow(ask[q]), "plain")

GetRole(q) ==
    /\ At(q, "role", "asked", "get")
    /\ \/ NoRole(q)
       \/ GetRoleByID(ask[q].id) # {} /\ Answer(q, 200)

UpdateRole(q) ==
    /\ At(q, "role", "asked", "update")
    /\ \/ NoRole(q)
       \/ \E e \in GetRoleByID(ask[q].id) : Proceed(q, "write", ChangedRole(e, ask[q]))

WriteRole(q) ==
    /\ At(q, "role", "write", "update")
    /\ Write(q, GetRoleByID(ask[q].id), RoleColumns(Target(q), seen[q]), "plain")

DeleteRole(q) ==
    /\ At(q, "role", "asked", "delete")
    /\ Erase(q, GetRoleByID(ask[q].id), RoleDeleted(Target(q)))

-----------------------------------------------------------------------------
(* Permissions, in tables and code of their own.                           *)

PermissionRow(a) == [NoRow EXCEPT !.state = "live", !.name = a.name, !.text = a.text]
GetPermissionByID(i) == {r \in {rows[i]} : IsLive(r)}
GetPermissionByName(n) == {i \in Id : IsLive(rows[i]) /\ rows[i].name = n}
PermissionColumns(r, e) == [r EXCEPT !.name = e.name, !.text = e.text]
PermissionDeleted(r) == [r EXCEPT !.state = "deleted"]

NoPermission(q) == Missing(q, GetPermissionByID(ask[q].id), "plain", "plain")

ChangedPermission(e, a) ==
    [e EXCEPT !.name = IF a.name # None THEN a.name ELSE @,
              !.text = IF a.text # None THEN a.text ELSE @]

CreatePermission(q) ==
    /\ At(q, "permission", "asked", "create")
    /\ \/ GetPermissionByName(ask[q].name) # {} /\ Refuse(q, "Conflict")
       \/ /\ GetPermissionByName(ask[q].name) = {} \/ q \in Faulty
          /\ Proceed(q, "insert", NoRow)

InsertPermission(q) ==
    At(q, "permission", "insert", "create") /\ Insert(q, PermissionRow(ask[q]), "plain")

GetPermission(q) ==
    /\ At(q, "permission", "asked", "get")
    /\ \/ NoPermission(q)
       \/ GetPermissionByID(ask[q].id) # {} /\ Answer(q, 200)

UpdatePermission(q) ==
    /\ At(q, "permission", "asked", "update")
    /\ \/ NoPermission(q)
       \/ \E e \in GetPermissionByID(ask[q].id) :
             Proceed(q, "write", ChangedPermission(e, ask[q]))

WritePermission(q) ==
    /\ At(q, "permission", "write", "update")
    /\ Write(q, GetPermissionByID(ask[q].id), PermissionColumns(Target(q), seen[q]), "plain")

DeletePermission(q) ==
    /\ At(q, "permission", "asked", "delete")
    /\ Erase(q, GetPermissionByID(ask[q].id), PermissionDeleted(Target(q)))

-----------------------------------------------------------------------------
(* Tenants: a delete is a DELETE, and any error of a look-up by id is       *)
(* answered as a missing tenant.                                           *)

TenantRow(a) ==
    [NoRow EXCEPT !.state = "live", !.name = a.name, !.text = a.text, !.flag = TRUE]
GetTenantByID(i) == {r \in {rows[i]} : r.state \notin {"none", "gone"}}
GetTenantBySlug(n) == {i \in Id : GetTenantByID(i) # {} /\ rows[i].name = n}
TenantColumns(r, e) == [r EXCEPT !.text = e.text, !.flag = e.flag]
TenantDeleted(r) == [r EXCEPT !.state = "gone"]

NoTenant(q) == Missing(q, GetTenantByID(ask[q].id), "NotFound", "NotFound")

ChangedTenant(e, a) ==
    [e EXCEPT !.text = IF a.text # None THEN a.text ELSE @,
              !.flag = IF a.flag # "keep" THEN a.flag = "on" ELSE @]

CreateTenant(q) ==
    /\ At(q, "tenant", "asked", "create")
    /\ \/ GetTenantBySlug(ask[q].name) # {} /\ Refuse(q, "AlreadyExists")
       \/ (GetTenantBySlug(ask[q].name) = {} \/ q \in Faulty) /\ Proceed(q, "insert", NoRow)

InsertTenant(q) ==
    At(q, "tenant", "insert", "create") /\ Insert(q, TenantRow(ask[q]), "plain")

GetTenant(q) ==
    /\ At(q, "tenant", "asked", "get")
    /\ \/ NoTenant(q)
       \/ GetTenantByID(ask[q].id) # {} /\ Answer(q, 200)

UpdateTenant(q) ==
    /\ At(q, "tenant", "asked", "update")
    /\ \/ NoTenant(q)
       \/ \E e \in GetTenantByID(ask[q].id) : Proceed(q, "write", ChangedTenant(e, ask[q]))

WriteTenant(q) ==
    /\ At(q, "tenant", "write", "update")
    /\ Write(q, GetTenantByID(ask[q].id), TenantColumns(Target(q), seen[q]), "plain")

DeleteTenant(q) ==
    /\ At(q, "tenant", "asked", "delete")
    /\ \/ NoTenant(q)
       \/ GetTenantByID(ask[q].id) # {} /\ Proceed(q, "remove", NoRow)

RemoveTenant(q) ==
    /\ At(q, "tenant", "remove", "delete")
    /\ Erase(q, GetTenantByID(ask[q].id), TenantDeleted(Target(q)))

-----------------------------------------------------------------------------
(* Todos: titles are not unique, a write is followed by an event.          *)

NewTodo(a) == [NoRow EXCEPT !.state = "live", !.name = a.name, !.text = a.text]
GetTodoByID(i) == {r \in {rows[i]} : IsLive(r)}
TodoColumns(r, e) == [r EXCEPT !.name = e.name, !.text = e.text, !.flag = e.flag]
TodoDeleted(r) == [r EXCEPT !.state = "deleted"]

NoTodo(q) == Missing(q, GetTodoByID(ask[q].id), "NotFound", "NotFound")

ChangedTodo(e, a) ==
    [e EXCEPT !.name = IF a.name # None THEN a.name ELSE @,
              !.text = IF a.text # None THEN a.text ELSE @]

CreateTodo(q) ==
    At(q, "todo", "asked", "create") /\ Insert(q, NewTodo(ask[q]), "plain")

GetTodo(q) ==
    /\ At(q, "todo", "asked", "get")
    /\ \/ NoTodo(q)
       \/ GetTodoByID(ask[q].id) # {} /\ Answer(q, 200)

UpdateTodo(q) ==
    /\ At(q, "todo", "asked", "update")
    /\ \/ NoTodo(q)
       \/ \E e \in GetTodoByID(ask[q].id) : Proceed(q, "write", ChangedTodo(e, ask[q]))

CompleteTodo(q) ==
    /\ At(q, "todo", "asked", "complete")
    /\ \/ NoTodo(q)
       \/ \E e \in GetTodoByID(ask[q].id) :
             \/ e.flag /\ Refuse(q, "Conflict")
             \/ ~e.flag /\ Proceed(q, "write", [e EXCEPT !.flag = TRUE])

\* Mutant of WriteTodo: the statement does not look at deleted_at.
WriteTodoAnyway(q) ==
    /\ \E op \in {"update", "complete"} : At(q, "todo", "write", op)
    /\ Write(q, {Target(q)}, [TodoColumns(Target(q), seen[q]) EXCEPT !.state = "live"], "plain")

\* Every column is written back, the ones another request changed meanwhile too.
WriteTodo(q) ==
    /\ \E op \in {"update", "complete"} : At(q, "todo", "write", op)
    /\ Write(q, GetTodoByID(ask[q].id), TodoColumns(Target(q), seen[q]), "plain")

DeleteTodo(q) ==
    /\ At(q, "todo", "asked", "delete")
    /\ \/ NoTodo(q)
       \/ GetTodoByID(ask[q].id) # {} /\ Proceed(q, "remove", NoRow)

RemoveTodo(q) ==
    /\ At(q, "todo", "remove", "delete")
    /\ Erase(q, GetTodoByID(ask[q].id), TodoDeleted(Target(q)))

\* The event is published after the commit, and an error of Publish is ignored.
Publish(q, op) ==
    /\ At(q, "todo", "publish", op)
    /\ Reply(q, Done(ask[q]))
    /\ \/ told' = [told EXCEPT ![ask[q].id].said = IF told[ask[q].id].crossed THEN @ ELSE op]
       \/ q \in Faulty /\ told' = [told EXCEPT ![ask[q].id] = Crossed]
    /\ UNCHANGED <<kind, rows, recent>>

PublishCreated(q) == Publish(q, "create")

\* Mutant of PublishUpdated: nobody is told.
PublishNothing(q) ==
    /\ At(q, "todo", "publish", "update")
    /\ Reply(q, Done(ask[q]))
    /\ UNCHANGED <<kind, rows, recent, told>>

PublishUpdated(q) == Publish(q, "update")
PublishCompleted(q) == Publish(q, "complete")
PublishDeleted(q) == Publish(q, "delete")

-----------------------------------------------------------------------------
(* Users, as the administration endpoints see them.                        *)

UserRow(a) ==
    [NoRow EXCEPT !.state = "live", !.name = a.name, !.text = a.text, !.flag = a.flag = "on"]
GetUserByID(i) == {r \in {rows[i]} : IsLive(r)}
UserColumns(r, e) == [r EXCEPT !.name = e.name, !.text = e.text, !.flag = e.flag]

NoUser(q) == Missing(q, GetUserByID(ask[q].id), "NotFound", "plain")

ChangedUser(e, a) ==
    [e EXCEPT !.name = IF a.name # None THEN a.name ELSE @,
              !.text = IF a.text # None THEN a.text ELSE @,
              !.flag = a.flag = "on"]

CreateUser(q) ==
    At(q, "user", "asked", "create") /\ Insert(q, UserRow(ask[q]), "AlreadyExists")

GetUser(q) ==
    /\ At(q, "user", "asked", "get")
    /\ \/ NoUser(q)
       \/ GetUserByID(ask[q].id) # {} /\ Answer(q, 200)

UpdateUser(q) ==
    /\ At(q, "user", "asked", "update")
    /\ \/ NoUser(q)
       \/ \E e \in GetUserByID(ask[q].id) : Proceed(q, "write", ChangedUser(e, ask[q]))

\* The entity is marked deleted, which is not a column the update writes.
DeleteUser(q) ==
    /\ At(q, "user", "asked", "delete")
    /\ \/ NoUser(q)
       \/ \E e \in GetUserByID(ask[q].id) :
             Proceed(q, "write", [e EXCEPT !.state = "deleted"])

WriteUser(q) ==
    /\ \E op \in {"update", "delete"} : At(q, "user", "write", op)
    /\ Write(q, GetUserByID(ask[q].id), UserColumns(Target(q), seen[q]), "NotFound")

-----------------------------------------------------------------------------

RoleStep(q) ==
    CreateRole(q) \/ InsertRole(q) \/ GetRole(q) \/ UpdateRole(q) \/ WriteRole(q) \/ DeleteRole(q)

PermissionStep(q) ==
    \/ CreatePermission(q) \/ InsertPermission(q) \/ GetPermission(q)
    \/ UpdatePermission(q) \/ WritePermission(q) \/ DeletePermission(q)

TenantStep(q) ==
    \/ CreateTenant(q) \/ InsertTenant(q) \/ GetTenant(q) \/ UpdateTenant(q)
    \/ WriteTenant(q) \/ DeleteTenant(q) \/ RemoveTenant(q)

TodoStep(q) ==
    \/ CreateTodo(q) \/ GetTodo(q) \/ UpdateTodo(q) \/ CompleteTodo(q) \/ WriteTodo(q)
    \/ DeleteTodo(q) \/ RemoveTodo(q)
    \/ PublishCreated(q) \/ PublishUpdated(q) \/ PublishCompleted(q) \/ PublishDeleted(q)

UserStep(q) ==
    CreateUser(q) \/ GetUser(q) \/ UpdateUser(q) \/ DeleteUser(q) \/ WriteUser(q)

Next ==
    \E q \in Request :
        \/ Accept(q) \/ RespondBadRequest(q) \/ Die(q)
        \/ RoleStep(q) \/ PermissionStep(q) \/ TenantStep(q) \/ TodoStep(q) \/ UserStep(q)

Spec == Init /\ [][Next]_vars

-----------------------------------------------------------------------------
(* Properties.                                                             *)

\* The types of the state; a request in its slot is one its endpoint lets through.
TypeOK ==
    /\ kind \in Kind
    /\ rows \in [Id -> Row]
    /\ pc \in [Request -> {"idle", "asked", "insert", "write", "remove", "publish"}]
    /\ ask \in [Request -> Http[kind] \cup {NoAsk}]
    /\ seen \in [Request -> Row]
    /\ answer \in [Request -> {0, 200, 201, 400, 404, 409, 500}]
    /\ recent \in [Request -> SUBSET Row]
    /\ told \in [Id -> [wrote : Events, said : Events, crossed : BOOLEAN]]

\* What a client is promised: look-up, entity in memory and write look like one
\* step that works on a version the row had while the request was served.
Progress(w) == CASE w = "idle" -> "idle" [] w = "publish" -> "stored" [] OTHER -> "asked"

Phase == [q \in Request |-> Progress(pc[q])]

Promised == INSTANCE Catalogue WITH phase <- Phase

\* Every behaviour of the handlers is one the catalogue allows (create_role.go,
\* update_tenant.go, todo_domain_service.go, delete_user.go and their peers).
ImplementsCatalogue == Promised!Spec

\* When no request on a todo is between its write and its event, the last event
\* published about the todo tells the last write, unless writes and events of
\* two requests crossed or an event was lost (create_todo.go 33, delete_todo.go 34).
LastEventIsLastWrite ==
    \A i \in Id :
        told[i].crossed \/ (\E q \in Request : Publishing(q, i)) \/ told[i].said = told[i].wrote

=============================================================================
