--------------------------- MODULE RecordsProofs ---------------------------
(***************************************************************************)
(* Proofs about Records, for any number of requests, ids, names and texts  *)
(* and any set of requests that may fail: the type invariant, the order of *)
(* a todo's events, and that the handlers implement Catalogue.             *)
(*                                                                         *)
(* Every action of the five tables is first shown to be one of four steps: *)
(* an answer that changes nothing, with its reason; a move to the next     *)
(* statement; a commit, with what the new row is built from; an event.     *)
(* The invariant and the refinement are then proved of these four.         *)
(***************************************************************************)
EXTENDS Records, TLAPS

Served(q) == pc[q] \in {"asked", "insert", "write", "remove"}

\* Columns no statement writes after the insert.
Fixed(v, r) ==
    /\ kind = "tenant" => v.name = r.name
    /\ kind \in {"role", "permission"} => v.flag = r.flag

\* Entity e is a live version of the row, changed as the request asks.
Held(q, e) ==
    \E v \in recent[q] :
        /\ IsLive(v)
        /\ ask[q].op = "complete" => ~v.flag
        /\ e.name = Promised!Merged(v, ask[q]).name
        /\ e.text = Promised!Merged(v, ask[q]).text
        /\ e.flag = Promised!Merged(v, ask[q]).flag

Changes(q) == ask[q].op \in {"update", "complete"} \/ (ask[q].op = "delete" /\ kind = "user")

\* What the slot of a request holds, by how far the request is.
SlotInv ==
    \A q \in Request :
        /\ pc[q] = "idle" => ask[q] = NoAsk
        /\ pc[q] # "idle" => ask[q] \in Http[kind]
        /\ pc[q] = "insert" => ask[q].op = "create"
        /\ pc[q] = "write" => Changes(q) /\ Held(q, seen[q])
        /\ pc[q] = "remove" =>
              /\ ask[q].op = "delete" /\ kind # "user"
              /\ \E v \in recent[q] : IsLive(v)
        /\ pc[q] = "publish" => kind = "todo" /\ recent[q] = {}

\* The id of a create is nobody else's until the row is there.
NewInv ==
    \A q \in Request : Served(q) /\ ask[q].op = "create" =>
        /\ rows[ask[q].id] = NoRow
        /\ \A p \in Request \ {q} : Served(p) /\ ask[p].op = "create" => ask[p].id # ask[q].id

\* recent ends with the row as it is, and a row never falls back to not born.
RecentInv ==
    \A q \in Request : Served(q) =>
        /\ Target(q) \in recent[q]
        /\ \A v \in recent[q] : v.state # "none" => Target(q).state # "none" /\ Fixed(v, Target(q))

UniqueInv ==
    kind # "todo" =>
        \A i, j \in Id :
            /\ rows[i].state \in {"live", "deleted"}
            /\ rows[j].state \in {"live", "deleted"}
            /\ rows[i].name = rows[j].name
            => i = j

\* No statement marks a tenant deleted: its row leaves the table.
TenantInv == kind = "tenant" => \A i \in Id : rows[i].state # "deleted"

\* Unless they crossed, one request at most is between write and event.
ToldInv ==
    \A i \in Id : ~told[i].crossed =>
        /\ \A q \in Request : Publishing(q, i) => ask[q].op = told[i].wrote
        /\ \A p, q \in Request : Publishing(p, i) /\ Publishing(q, i) => p = q
        /\ (\A q \in Request : ~Publishing(q, i)) => told[i].said = told[i].wrote

Inv == TypeOK /\ SlotInv /\ NewInv /\ RecentInv /\ UniqueInv /\ TenantInv /\ ToldInv

-----------------------------------------------------------------------------
(* What the endpoints let through.                                         *)

LEMMA AskShape ==
    ASSUME NEW k \in Kind, NEW a \in Http[k]
    PROVE  /\ a \in Ask
           /\ a.op = "create" => a.name \in Name
           /\ a.op = "create" /\ k # "user" => a.flag = "keep"
           /\ a.op = "update" /\ k = "user" => a.flag # "keep"
           /\ k \in {"role", "permission"} => a.flag = "keep"
           /\ k = "tenant" /\ a.op # "create" => a.name = None
           /\ k = "todo" /\ a.op = "update" => a.flag = "keep"
           /\ a.op = "complete" => k = "todo" /\ a.name = None /\ a.text = None /\ a.flag = "on"
           /\ a.op \in {"get", "delete"} => a.name = None /\ a.text = None /\ a.flag = "keep"
<1> USE RowAssumption DEF Asked, Maybe, Ask
<1>1. CASE k = "role"
  <2>1. a \in HttpCreateRole \cup HttpGetRole \cup HttpUpdateRole \cup HttpDeleteRole
    BY <1>1 DEF Http
  <2> QED
    BY <1>1, <2>1 DEF HttpCreateRole, HttpGetRole, HttpUpdateRole, HttpDeleteRole
<1>2. CASE k = "permission"
  <2>1. a \in HttpCreatePermission \cup HttpGetPermission
              \cup HttpUpdatePermission \cup HttpDeletePermission
    BY <1>2 DEF Http
  <2> QED
    BY <1>2, <2>1 DEF HttpCreatePermission, HttpGetPermission, HttpUpdatePermission,
                      HttpDeletePermission
<1>3. CASE k = "tenant"
  <2>1. a \in HttpCreateTenant \cup HttpGetTenant \cup HttpUpdateTenant \cup HttpDeleteTenant
    BY <1>3 DEF Http
  <2> QED
    BY <1>3, <2>1 DEF HttpCreateTenant, HttpGetTenant, HttpUpdateTenant, HttpDeleteTenant
<1>4. CASE k = "todo"
  <2>1. a \in HttpCreateTodo \cup HttpGetTodo \cup HttpUpdateTodo \cup HttpDeleteTodo
              \cup HttpCompleteTodo
    BY <1>4 DEF Http
  <2> QED
    BY <1>4, <2>1 DEF HttpCreateTodo, HttpGetTodo, HttpUpdateTodo, HttpDeleteTodo,
                      HttpCompleteTodo
<1>5. CASE k = "user"
  <2>1. a \in HttpCreateUser \cup HttpGetUser \cup HttpUpdateUser \cup HttpDeleteUser
    BY <1>5 DEF Http
  <2> QED
    BY <1>5, <2>1 DEF HttpCreateUser, HttpGetUser, HttpUpdateUser, HttpDeleteUser
<1> QED
  BY <1>1, <1>2, <1>3, <1>4, <1>5 DEF Kind

LEMMA RowsEqual ==
    ASSUME NEW r \in Row, NEW s \in Row,
           r.state = s.state, r.name = s.name, r.text = s.text, r.flag = s.flag
    PROVE  r = s
BY DEF Row

LEMMA NoRowIsRow == NoRow \in Row /\ NoRow.state = "none"
BY DEF NoRow, Row

LEMMA MergedRow ==
    ASSUME NEW r \in Row, NEW a \in Ask
    PROVE  /\ Promised!Merged(r, a) \in Row
           /\ Promised!Merged(r, a).state = r.state
           /\ Promised!Merged(r, a).name = IF a.name = None THEN r.name ELSE a.name
           /\ Promised!Merged(r, a).text = IF a.text = None THEN r.text ELSE a.text
           /\ Promised!Merged(r, a).flag = IF a.flag = "keep" THEN r.flag ELSE a.flag = "on"
BY DEF Promised!Merged, Row, Ask

-----------------------------------------------------------------------------
(* The four steps.                                                         *)

\* Why a request is answered s without having changed anything.
Reason(q, s) ==
    \/ s = 200 /\ ask[q].op = "get" /\ IsLive(Target(q))
    \/ s = 409 /\ ask[q].op = "create" /\ Holders(ask[q].name) # {}
    \/ s = 409 /\ ask[q].op = "complete" /\ Target(q).flag
    \/ s = 404 /\ ask[q].op # "create" /\ kind \notin {"role", "permission"} /\ ~IsLive(Target(q))
    \/ s = 500 /\ ask[q].op # "create" /\ kind \in {"role", "permission"} /\ ~IsLive(Target(q))
    \/ s = 500 /\ ask[q].op \in {"create", "update"} /\ Holders(ask[q].name) \ {ask[q].id} # {}
    \/ s = 500 /\ \E v \in recent[q] : v # Target(q)
    \/ s \in {404, 500} /\ q \in Faulty

Answered(q) ==
    Served(q) /\ \E s \in {200, 404, 409, 500} : Reason(q, s) /\ Answer(q, s)

Moved(q) ==
    /\ pc[q] = "asked"
    /\ \/ ask[q].op = "create" /\ Proceed(q, "insert", NoRow)
       \/ Changes(q) /\ \E e \in Row : Held(q, e) /\ Proceed(q, "write", e)
       \/ /\ ask[q].op = "delete" /\ kind # "user" /\ IsLive(Target(q))
          /\ Proceed(q, "remove", NoRow)

\* The row a create makes.
Born(a) == [state |-> "live", name |-> a.name, text |-> a.text,
            flag |-> kind = "tenant" \/ a.flag = "on"]

\* What the new row r is made from.
Origin(q, r) ==
    \/ ask[q].op = "create" /\ Holders(ask[q].name) = {} /\ r = Born(ask[q])
    \/ /\ Changes(q)
       /\ IsLive(Target(q))
       /\ Holders(r.name) \subseteq {ask[q].id}
       /\ \E v \in recent[q] :
             IsLive(v) /\ (ask[q].op = "complete" => ~v.flag) /\ r = Promised!Merged(v, ask[q])
    \/ /\ ask[q].op = "delete" /\ kind # "user" /\ IsLive(Target(q))
       /\ r = [Target(q) EXCEPT !.state = IF kind = "tenant" THEN "gone" ELSE "deleted"]

Committed(q) ==
    Served(q) /\ \E r \in Row : Origin(q, r) /\ Commit(q, r)

Published(q) == \E op \in Events : Publish(q, op)

Step(q) == Answered(q) \/ Moved(q) \/ Committed(q) \/ Published(q)

-----------------------------------------------------------------------------
(* The actions of the five tables are such steps.                          *)

\* What the invariant says of a request that is being served.
LEMMA ServedFacts ==
    ASSUME Inv, NEW q \in Request, Served(q)
    PROVE  /\ ask[q] \in Http[kind] /\ ask[q] \in Ask /\ ask[q].id \in Id
           /\ Target(q) \in Row
           /\ Target(q) \in recent[q]
           /\ recent[q] \subseteq Row
           /\ kind \in Kind
           /\ \A v \in recent[q] :
                 v.state # "none" => Target(q).state # "none" /\ Fixed(v, Target(q))
           /\ ask[q].op = "create" => Target(q) = NoRow
<1>1. pc[q] # "idle"
  BY DEF Served
<1>2. kind \in Kind /\ ask[q] \in Http[kind]
  BY <1>1 DEF Inv, TypeOK, SlotInv
<1>3. ask[q] \in Ask /\ ask[q].id \in Id
  BY <1>2, AskShape DEF Ask
<1> QED
  BY <1>2, <1>3 DEF Inv, TypeOK, RecentInv, NewInv, Target

\* A failed look-up.
LEMMA MissingIsAnswered ==
    ASSUME NEW q \in Request, Served(q), NEW found, NEW e \in Error, NEW f \in Error,
           Missing(q, found, e, f),
           found = {} => Reason(q, MapErrorFromRequest(e)),
           f \in {"NotFound", "plain"}
    PROVE  Answered(q)
<1>1. CASE found = {} /\ Refuse(q, e)
  BY <1>1 DEF Refuse, Answered, MapErrorFromRequest, Error
<1>2. CASE q \in Faulty /\ Refuse(q, f)
  BY <1>2 DEF Refuse, Answered, MapErrorFromRequest, Reason
<1> QED
  BY <1>1, <1>2 DEF Missing

LEMMA InsertIsStep ==
    ASSUME Inv, NEW q \in Request, Served(q), ask[q].op = "create", NEW e \in Error,
           Born(ask[q]) \in Row,
           Insert(q, Born(ask[q]), e),
           e = "AlreadyExists" \/ e = "plain"
    PROVE  Step(q)
<1>1. Born(ask[q]).name = ask[q].name
  BY DEF Born
<1>2. CASE Holders(Born(ask[q]).name) = {} /\ Commit(q, Born(ask[q]))
  BY <1>1, <1>2 DEF Step, Committed, Origin
<1>3. CASE Holders(Born(ask[q]).name) # {} /\ Refuse(q, e)
  <2>1. ask[q].id \notin Holders(ask[q].name)
    BY ServedFacts, NoRowIsRow DEF Holders, Target
  <2>2. Reason(q, MapErrorFromRequest(e))
    BY <1>1, <1>3, <2>1 DEF Reason, MapErrorFromRequest
  <2> QED
    BY <1>3, <2>2 DEF Step, Answered, Refuse, MapErrorFromRequest, Error
<1>4. CASE q \in Faulty /\ Refuse(q, "plain")
  BY <1>4 DEF Step, Answered, Refuse, MapErrorFromRequest, Reason
<1> QED
  BY <1>2, <1>3, <1>4 DEF Insert

\* An update of a row to r, where r is what the entity in memory says but for
\* columns that no statement writes.
LEMMA WriteIsStep ==
    ASSUME Inv, NEW q \in Request, pc[q] = "write", NEW r \in Row, NEW e \in Error,
           NEW found, found = {} <=> ~IsLive(Target(q)),
           Write(q, found, r, e),
           e = IF kind = "user" THEN "NotFound" ELSE "plain",
           r.state = Target(q).state,
           r.name = IF kind = "tenant" THEN Target(q).name ELSE seen[q].name,
           r.text = seen[q].text,
           r.flag = IF kind \in {"role", "permission"} THEN Target(q).flag ELSE seen[q].flag
    PROVE  Step(q)
<1>1. Served(q) /\ Changes(q) /\ Held(q, seen[q])
  BY DEF Inv, SlotInv, Served
<1>2. PICK v \in recent[q] :
        /\ IsLive(v)
        /\ ask[q].op = "complete" => ~v.flag
        /\ seen[q].name = Promised!Merged(v, ask[q]).name
        /\ seen[q].text = Promised!Merged(v, ask[q]).text
        /\ seen[q].flag = Promised!Merged(v, ask[q]).flag
  BY <1>1 DEF Held
<1> DEFINE m == Promised!Merged(v, ask[q])
<1>3. v \in Row /\ ask[q] \in Ask /\ Fixed(v, Target(q)) /\ Target(q) \in Row
  BY <1>1, <1>2, ServedFacts DEF IsLive
<1>4. /\ m \in Row /\ m.state = "live"
      /\ m.name = IF ask[q].name = None THEN v.name ELSE ask[q].name
      /\ m.flag = IF ask[q].flag = "keep" THEN v.flag ELSE ask[q].flag = "on"
  BY <1>2, <1>3, MergedRow DEF IsLive
<1> HIDE DEF m
<1>5. /\ kind = "tenant" => ask[q].name = None
      /\ kind \in {"role", "permission"} => ask[q].flag = "keep"
      /\ ask[q].op = "delete" => ask[q].name = None
      /\ ask[q].op = "complete" => kind = "todo"
  BY <1>1, ServedFacts, AskShape DEF Changes
<1>6. IsLive(Target(q)) => r = m
  <2> SUFFICES ASSUME IsLive(Target(q)) PROVE r = m
    OBVIOUS
  <2>1. r.state = m.state
    BY <1>4 DEF IsLive
  <2>2. r.name = m.name
    BY <1>2, <1>3, <1>4, <1>5 DEF Fixed, m
  <2>3. r.text = m.text
    BY <1>2 DEF m
  <2>4. r.flag = m.flag
    BY <1>2, <1>3, <1>4, <1>5 DEF Fixed, m
  <2> QED
    BY <1>4, <2>1, <2>2, <2>3, <2>4, RowsEqual
<1>7. CASE found = {} /\ Refuse(q, e)
  <2>1. v # Target(q)
    BY <1>2, <1>7 DEF IsLive
  <2>2. ask[q].op # "create"
    BY <1>1 DEF Changes
  <2>3. Reason(q, MapErrorFromRequest(e))
    BY <1>2, <1>7, <2>1, <2>2 DEF Reason, MapErrorFromRequest
  <2> QED
    BY <1>1, <1>7, <2>3 DEF Step, Answered, Refuse, MapErrorFromRequest
<1>8. CASE found # {} /\ Holders(r.name) \subseteq {ask[q].id} /\ Commit(q, r)
  <2>1. Origin(q, r)
    BY <1>1, <1>2, <1>6, <1>8 DEF Origin, m
  <2> QED
    BY <1>1, <1>8, <2>1 DEF Step, Committed
<1>9. CASE found # {} /\ ~(Holders(r.name) \subseteq {ask[q].id}) /\ Refuse(q, "plain")
  <2>1. PICK j \in Id : j # ask[q].id /\ j \in Holders(r.name)
    BY <1>9 DEF Holders
  <2>2. r = m
    BY <1>6, <1>9
  <2>3. Reason(q, 500)
    <3>1. CASE ask[q].name # None
      <4>1. r.name = ask[q].name
        BY <3>1, <1>4, <2>2
      <4>2. ask[q].op \in {"create", "update"}
        BY <3>1, <1>1, <1>5, ServedFacts, AskShape DEF Changes
      <4> QED
        BY <2>1, <4>1, <4>2 DEF Reason
    <3>2. CASE ask[q].name = None
      <4>1. r.name = v.name
        BY <3>2, <1>4, <2>2
      <4>2. Target(q).name # v.name
        <5>1. ask[q].id \in Id /\ IsLive(rows[ask[q].id])
          BY <1>1, <1>9, ServedFacts DEF Target
        <5> QED
          BY <2>1, <4>1, <5>1 DEF Inv, UniqueInv, Holders, Target, IsLive
      <4> QED
        BY <1>2, <4>2 DEF Reason
    <3> QED
      BY <3>1, <3>2
  <2> QED
    BY <1>1, <1>9, <2>3 DEF Step, Answered, Refuse, MapErrorFromRequest
<1>10. CASE q \in Faulty /\ Refuse(q, "plain")
  BY <1>1, <1>10 DEF Step, Answered, Refuse, MapErrorFromRequest, Reason
<1> QED
  BY <1>7, <1>8, <1>9, <1>10 DEF Write

\* A delete, by a request that found the row live, or of a role or permission.
LEMMA EraseIsStep ==
    ASSUME Inv, NEW q \in Request, Served(q), ask[q].op = "delete", kind # "user",
           kind \in {"role", "permission"} \/ pc[q] = "remove",
           NEW found, found = {} <=> ~IsLive(Target(q)), NEW r,
           r = [Target(q) EXCEPT !.state = IF kind = "tenant" THEN "gone" ELSE "deleted"],
           Erase(q, found, r)
    PROVE  Step(q)
<1>1. r \in Row
  BY ServedFacts DEF Row
<1>2. CASE found = {} /\ Refuse(q, "plain")
  <2>1. CASE kind \in {"role", "permission"}
    BY <1>2, <2>1 DEF Step, Answered, Refuse, MapErrorFromRequest, Reason
  <2>2. CASE pc[q] = "remove"
    <3>1. \E v \in recent[q] : v # Target(q)
      BY <1>2, <2>2 DEF Inv, SlotInv, IsLive
    <3> QED
      BY <1>2, <3>1 DEF Step, Answered, Refuse, MapErrorFromRequest, Reason
  <2> QED
    BY <2>1, <2>2
<1>3. CASE found # {} /\ Commit(q, r)
  BY <1>1, <1>3 DEF Step, Committed, Origin
<1>4. CASE q \in Faulty /\ Refuse(q, "plain")
  BY <1>4 DEF Step, Answered, Refuse, MapErrorFromRequest, Reason
<1> QED
  BY <1>2, <1>3, <1>4 DEF Erase

LEMMA RoleStepIsStep ==
    ASSUME Inv, NEW q \in Request, kind = "role", RoleStep(q)
    PROVE  Step(q)
<1> USE DEF At, Step
<1>0. Served(q) /\ kind = "role" /\ kind \in Kind
  BY DEF RoleStep, CreateRole, InsertRole, GetRole, UpdateRole, WriteRole, DeleteRole, Served, Kind
<1>1. /\ ask[q] \in Ask /\ ask[q].id \in Id /\ ask[q] \in Http[kind]
      /\ Target(q) \in Row /\ Target(q) \in recent[q] /\ recent[q] \subseteq Row
  BY <1>0, ServedFacts
<1>2. GetRoleByID(ask[q].id) = {} <=> ~IsLive(Target(q))
  BY DEF GetRoleByID, Target
<1>3. \A e \in GetRoleByID(ask[q].id) : e = Target(q) /\ IsLive(e)
  BY DEF GetRoleByID, Target
<1>4. ASSUME ask[q].op # "create", GetRoleByID(ask[q].id) = {}
      PROVE  Reason(q, MapErrorFromRequest("plain"))
  BY <1>0, <1>2, <1>4 DEF Reason, MapErrorFromRequest
<1>5. CASE CreateRole(q)
  <2>1. CASE GetRoleByName(ask[q].name) # {} /\ Refuse(q, "Conflict")
    <3>1. Holders(ask[q].name) # {}
      BY <1>0, <2>1 DEF GetRoleByName, Holders, IsLive
    <3> QED
      BY <1>0, <1>5, <2>1, <3>1 DEF CreateRole, Answered, Refuse, MapErrorFromRequest, Reason
  <2>2. CASE Proceed(q, "insert", NoRow)
    BY <1>5, <2>2 DEF CreateRole, Moved
  <2> QED
    BY <1>5, <2>1, <2>2 DEF CreateRole
<1>6. CASE InsertRole(q)
  <2>1. RoleRow(ask[q]) = Born(ask[q]) /\ Born(ask[q]) \in Row
    <3>1. ask[q].flag = "keep" /\ ask[q].name \in Name /\ ask[q].text \in Text \cup {None}
      BY <1>0, <1>1, <1>6, AskShape DEF InsertRole, Ask
    <3>2. Born(ask[q]) \in Row
      BY <3>1 DEF Born, Row
    <3>3. RoleRow(ask[q]) \in Row
      BY <3>1 DEF RoleRow, NoRow, Row
    <3> QED
      BY <1>0, <3>1, <3>2, <3>3, RowsEqual DEF Born, RoleRow, NoRow
  <2> QED
    BY <1>0, <1>6, <2>1, InsertIsStep DEF InsertRole, Error
<1>7. CASE GetRole(q)
  <2>1. CASE NoRole(q)
    BY <1>0, <1>4, <1>7, <2>1, MissingIsAnswered DEF GetRole, NoRole, Error
  <2>2. CASE GetRoleByID(ask[q].id) # {} /\ Answer(q, 200)
    BY <1>0, <1>2, <1>7, <2>2 DEF GetRole, Answered, Reason
  <2> QED
    BY <1>7, <2>1, <2>2 DEF GetRole
<1>8. CASE UpdateRole(q)
  <2>1. CASE NoRole(q)
    BY <1>0, <1>4, <1>8, <2>1, MissingIsAnswered DEF UpdateRole, NoRole, Error
  <2>2. CASE \E e \in GetRoleByID(ask[q].id) : Proceed(q, "write", ChangedRole(e, ask[q]))
    <3>1. IsLive(Target(q)) /\ Proceed(q, "write", ChangedRole(Target(q), ask[q]))
      BY <1>3, <2>2
    <3>2. ask[q].flag = "keep"
      BY <1>0, <1>1, AskShape
    <3>3. /\ ChangedRole(Target(q), ask[q]) \in Row
          /\ ChangedRole(Target(q), ask[q]).name = Promised!Merged(Target(q), ask[q]).name
          /\ ChangedRole(Target(q), ask[q]).text = Promised!Merged(Target(q), ask[q]).text
          /\ ChangedRole(Target(q), ask[q]).flag = Promised!Merged(Target(q), ask[q]).flag
      BY <1>1, <3>2 DEF ChangedRole, Promised!Merged, Row, Ask
    <3>4. Held(q, ChangedRole(Target(q), ask[q]))
      BY <1>1, <1>8, <3>1, <3>3 DEF Held, UpdateRole
    <3> QED
      BY <1>8, <3>1, <3>3, <3>4 DEF Moved, Changes, UpdateRole
  <2> QED
    BY <1>8, <2>1, <2>2 DEF UpdateRole
<1>9. CASE WriteRole(q)
  <2>1. seen[q] \in Row
    BY DEF Inv, TypeOK
  <2> DEFINE r == RoleColumns(Target(q), seen[q])
  <2>2. /\ r \in Row /\ r.state = Target(q).state /\ r.name = seen[q].name
        /\ r.text = seen[q].text /\ r.flag = Target(q).flag
    BY <1>1, <2>1 DEF RoleColumns, Row
  <2>3. pc[q] = "write" /\ Write(q, GetRoleByID(ask[q].id), r, "plain")
    BY <1>9 DEF WriteRole
  <2> HIDE DEF r
  <2> QED
    BY <1>0, <1>2, <2>2, <2>3, WriteIsStep DEF Error
<1>10. CASE DeleteRole(q)
  BY <1>0, <1>2, <1>10, EraseIsStep DEF DeleteRole, RoleDeleted
<1> QED
  BY <1>5, <1>6, <1>7, <1>8, <1>9, <1>10 DEF RoleStep

LEMMA PermissionStepIsStep ==
    ASSUME Inv, NEW q \in Request, kind = "permission", PermissionStep(q)
    PROVE  Step(q)
<1> USE DEF At, Step
<1>0. Served(q) /\ kind = "permission" /\ kind \in Kind
  BY DEF PermissionStep, CreatePermission, InsertPermission, GetPermission, UpdatePermission, WritePermission, DeletePermission, Served, Kind
<1>1. /\ ask[q] \in Ask /\ ask[q].id \in Id /\ ask[q] \in Http[kind]
      /\ Target(q) \in Row /\ Target(q) \in recent[q] /\ recent[q] \subseteq Row
  BY <1>0, ServedFacts
<1>2. GetPermissionByID(ask[q].id) = {} <=> ~IsLive(Target(q))
  BY DEF GetPermissionByID, Target
<1>3. \A e \in GetPermissionByID(ask[q].id) : e = Target(q) /\ IsLive(e)
  BY DEF GetPermissionByID, Target
<1>4. ASSUME ask[q].op # "create", GetPermissionByID(ask[q].id) = {}
      PROVE  Reason(q, MapErrorFromRequest("plain"))
  BY <1>0, <1>2, <1>4 DEF Reason, MapErrorFromRequest
<1>5. CASE CreatePermission(q)
  <2>1. CASE GetPermissionByName(ask[q].name) # {} /\ Refuse(q, "Conflict")
    <3>1. Holders(ask[q].name) # {}
      BY <1>0, <2>1 DEF GetPermissionByName, Holders, IsLive
    <3> QED
      BY <1>0, <1>5, <2>1, <3>1 DEF CreatePermission, Answered, Refuse, MapErrorFromRequest, Reason
  <2>2. CASE Proceed(q, "insert", NoRow)
    BY <1>5, <2>2 DEF CreatePermission, Moved
  <2> QED
    BY <1>5, <2>1, <2>2 DEF CreatePermission
<1>6. CASE InsertPermission(q)
  <2>1. PermissionRow(ask[q]) = Born(ask[q]) /\ Born(ask[q]) \in Row
    <3>1. ask[q].flag = "keep" /\ ask[q].name \in Name /\ ask[q].text \in Text \cup {None}
      BY <1>0, <1>1, <1>6, AskShape DEF InsertPermission, Ask
    <3>2. Born(ask[q]) \in Row
      BY <3>1 DEF Born, Row
    <3>3. PermissionRow(ask[q]) \in Row
      BY <3>1 DEF PermissionRow, NoRow, Row
    <3> QED
      BY <1>0, <3>1, <3>2, <3>3, RowsEqual DEF Born, PermissionRow, NoRow
  <2> QED
    BY <1>0, <1>6, <2>1, InsertIsStep DEF InsertPermission, Error
<1>7. CASE GetPermission(q)
  <2>1. CASE NoPermission(q)
    BY <1>0, <1>4, <1>7, <2>1, MissingIsAnswered DEF GetPermission, NoPermission, Error
  <2>2. CASE GetPermissionByID(ask[q].id) # {} /\ Answer(q, 200)
    BY <1>0, <1>2, <1>7, <2>2 DEF GetPermission, Answered, Reason
  <2> QED
    BY <1>7, <2>1, <2>2 DEF GetPermission
<1>8. CASE UpdatePermission(q)
  <2>1. CASE NoPermission(q)
    BY <1>0, <1>4, <1>8, <2>1, MissingIsAnswered DEF UpdatePermission, NoPermission, Error
  <2>2. CASE \E e \in GetPermissionByID(ask[q].id) : Proceed(q, "write", ChangedPermission(e, ask[q]))
    <3>1. IsLive(Target(q)) /\ Proceed(q, "write", ChangedPermission(Target(q), ask[q]))
      BY <1>3, <2>2
    <3>2. ask[q].flag = "keep"
      BY <1>0, <1>1, AskShape
    <3>3. /\ ChangedPermission(Target(q), ask[q]) \in Row
          /\ ChangedPermission(Target(q), ask[q]).name = Promised!Merged(Target(q), ask[q]).name
          /\ ChangedPermission(Target(q), ask[q]).text = Promised!Merged(Target(q), ask[q]).text
          /\ ChangedPermission(Target(q), ask[q]).flag = Promised!Merged(Target(q), ask[q]).flag
      BY <1>1, <3>2 DEF ChangedPermission, Promised!Merged, Row, Ask
    <3>4. Held(q, ChangedPermission(Target(q), ask[q]))
      BY <1>1, <1>8, <3>1, <3>3 DEF Held, UpdatePermission
    <3> QED
      BY <1>8, <3>1, <3>3, <3>4 DEF Moved, Changes, UpdatePermission
  <2> QED
    BY <1>8, <2>1, <2>2 DEF UpdatePermission
<1>9. CASE WritePermission(q)
  <2>1. seen[q] \in Row
    BY DEF Inv, TypeOK
  <2> DEFINE r == PermissionColumns(Target(q), seen[q])
  <2>2. /\ r \in Row /\ r.state = Target(q).state /\ r.name = seen[q].name
        /\ r.text = seen[q].text /\ r.flag = Target(q).flag
    BY <1>1, <2>1 DEF PermissionColumns, Row
  <2>3. pc[q] = "write" /\ Write(q, GetPermissionByID(ask[q].id), r, "plain")
    BY <1>9 DEF WritePermission
  <2> HIDE DEF r
  <2> QED
    BY <1>0, <1>2, <2>2, <2>3, WriteIsStep DEF Error
<1>10. CASE DeletePermission(q)
  BY <1>0, <1>2, <1>10, EraseIsStep DEF DeletePermission, PermissionDeleted
<1> QED
  BY <1>5, <1>6, <1>7, <1>8, <1>9, <1>10 DEF PermissionStep

LEMMA TenantStepIsStep ==
    ASSUME Inv, NEW q \in Request, kind = "tenant", TenantStep(q)
    PROVE  Step(q)
<1> USE DEF At, Step
<1>0. \/ Served(q) /\ kind = "tenant" /\ kind \in Kind
      \/ Published(q)
  BY DEF TenantStep, CreateTenant, InsertTenant, GetTenant, UpdateTenant, WriteTenant,
     DeleteTenant, RemoveTenant, Served, Kind
<1> SUFFICES ASSUME Served(q), kind \in Kind, ~Published(q)
             PROVE  Step(q)
  BY <1>0
<1>1. /\ ask[q] \in Ask /\ ask[q].id \in Id /\ ask[q] \in Http[kind]
      /\ Target(q) \in Row /\ Target(q) \in recent[q] /\ recent[q] \subseteq Row
      /\ ask[q].op = "create" => Target(q) = NoRow
  BY ServedFacts
<1>11. rows[ask[q].id].state \notin {"none", "gone"} <=> rows[ask[q].id].state = "live"
  BY <1>1 DEF Inv, TenantInv, TypeOK, Row
<1>2. GetTenantByID(ask[q].id) = {} <=> ~IsLive(Target(q))
  BY <1>11 DEF GetTenantByID, Target, IsLive
<1>3. \A e \in GetTenantByID(ask[q].id) : e = Target(q) /\ IsLive(e)
  BY <1>11 DEF GetTenantByID, Target, IsLive
<1>4. ASSUME ask[q].op # "create", GetTenantByID(ask[q].id) = {}
      PROVE  Reason(q, MapErrorFromRequest("NotFound"))
  BY <1>2, <1>4 DEF Reason, MapErrorFromRequest
<1>5. CASE CreateTenant(q)
  <2>1. CASE GetTenantBySlug(ask[q].name) # {} /\ Refuse(q, "AlreadyExists")
    <3>1. Holders(ask[q].name) # {}
      BY <2>1 DEF GetTenantBySlug, GetTenantByID, Holders, Inv, TypeOK, Row
    <3> QED
      BY <1>5, <2>1, <3>1 DEF CreateTenant, Answered, Refuse, MapErrorFromRequest, Reason
  <2>2. CASE Proceed(q, "insert", NoRow)
    BY <1>5, <2>2 DEF CreateTenant, Moved
  <2> QED
    BY <1>5, <2>1, <2>2 DEF CreateTenant
<1>6. CASE InsertTenant(q)
  <2>1. TenantRow(ask[q]) = Born(ask[q]) /\ Born(ask[q]) \in Row
    <3>1. ask[q].name \in Name /\ ask[q].text \in Text \cup {None}
      BY <1>1, <1>6, AskShape DEF InsertTenant, Ask
    <3>2. Born(ask[q]) \in Row
      BY <3>1 DEF Born, Row
    <3>3. TenantRow(ask[q]) \in Row
      BY <3>1 DEF TenantRow, NoRow, Row
    <3> QED
      BY <3>1, <3>2, <3>3, RowsEqual DEF Born, TenantRow, NoRow
  <2> QED
    BY <1>6, <2>1, InsertIsStep DEF InsertTenant, Error
<1>7. CASE GetTenant(q)
  <2>1. CASE NoTenant(q)
    BY <1>4, <1>7, <2>1, MissingIsAnswered DEF GetTenant, NoTenant, Error
  <2>2. CASE GetTenantByID(ask[q].id) # {} /\ Answer(q, 200)
    BY <1>2, <1>7, <2>2 DEF GetTenant, Answered, Reason
  <2> QED
    BY <1>7, <2>1, <2>2 DEF GetTenant
<1>8. CASE UpdateTenant(q)
  <2>1. CASE NoTenant(q)
    BY <1>4, <1>8, <2>1, MissingIsAnswered DEF UpdateTenant, NoTenant, Error
  <2>2. CASE \E e \in GetTenantByID(ask[q].id) : Proceed(q, "write", ChangedTenant(e, ask[q]))
    <3>1. IsLive(Target(q)) /\ Proceed(q, "write", ChangedTenant(Target(q), ask[q]))
      BY <1>3, <2>2
    <3>2. ask[q].name = None
      BY <1>1, <1>8, AskShape DEF UpdateTenant
    <3>3. /\ ChangedTenant(Target(q), ask[q]) \in Row
          /\ ChangedTenant(Target(q), ask[q]).name = Promised!Merged(Target(q), ask[q]).name
          /\ ChangedTenant(Target(q), ask[q]).text = Promised!Merged(Target(q), ask[q]).text
          /\ ChangedTenant(Target(q), ask[q]).flag = Promised!Merged(Target(q), ask[q]).flag
      BY <1>1, <3>2 DEF ChangedTenant, Promised!Merged, Row, Ask
    <3>4. Held(q, ChangedTenant(Target(q), ask[q]))
      BY <1>1, <1>8, <3>1, <3>3 DEF Held, UpdateTenant
    <3> QED
      BY <1>8, <3>1, <3>3, <3>4 DEF Moved, Changes, UpdateTenant
  <2> QED
    BY <1>8, <2>1, <2>2 DEF UpdateTenant
<1>9. CASE WriteTenant(q)
  <2>1. seen[q] \in Row
    BY DEF Inv, TypeOK
  <2> DEFINE r == TenantColumns(Target(q), seen[q])
  <2>2. /\ r \in Row /\ r.state = Target(q).state /\ r.name = Target(q).name
        /\ r.text = seen[q].text /\ r.flag = seen[q].flag
    BY <1>1, <2>1 DEF TenantColumns, Row
  <2>3. pc[q] = "write" /\ Write(q, GetTenantByID(ask[q].id), r, "plain")
    BY <1>9 DEF WriteTenant
  <2> HIDE DEF r
  <2> QED
    BY <1>2, <2>2, <2>3, WriteIsStep DEF Error
<1>10. CASE DeleteTenant(q)
  <2>1. CASE NoTenant(q)
    BY <1>4, <1>10, <2>1, MissingIsAnswered DEF DeleteTenant, NoTenant, Error
  <2>2. CASE GetTenantByID(ask[q].id) # {} /\ Proceed(q, "remove", NoRow)
    BY <1>2, <1>10, <2>2 DEF DeleteTenant, Moved
  <2> QED
    BY <1>10, <2>1, <2>2 DEF DeleteTenant
<1>12. CASE RemoveTenant(q)
  BY <1>2, <1>12, EraseIsStep DEF RemoveTenant, TenantDeleted
<1> QED
  BY <1>5, <1>6, <1>7, <1>8, <1>9, <1>10, <1>12 DEF TenantStep

LEMMA TodoStepIsStep ==
    ASSUME Inv, NEW q \in Request, kind = "todo", TodoStep(q)
    PROVE  Step(q)
<1> USE DEF At, Step
<1>0. \/ Served(q) /\ kind = "todo" /\ kind \in Kind
      \/ Published(q)
  BY DEF TodoStep, CreateTodo, GetTodo, UpdateTodo, CompleteTodo, WriteTodo, DeleteTodo,
     RemoveTodo, PublishCreated, PublishUpdated, PublishCompleted, PublishDeleted, Published, Events, Served, Kind
<1> SUFFICES ASSUME Served(q), kind \in Kind, ~Published(q)
             PROVE  Step(q)
  BY <1>0
<1>1. /\ ask[q] \in Ask /\ ask[q].id \in Id /\ ask[q] \in Http[kind]
      /\ Target(q) \in Row /\ Target(q) \in recent[q] /\ recent[q] \subseteq Row
      /\ ask[q].op = "create" => Target(q) = NoRow
  BY ServedFacts
<1>2. GetTodoByID(ask[q].id) = {} <=> ~IsLive(Target(q))
  BY DEF GetTodoByID, Target, IsLive
<1>3. \A e \in GetTodoByID(ask[q].id) : e = Target(q) /\ IsLive(e)
  BY DEF GetTodoByID, Target, IsLive
<1>4. ASSUME ask[q].op # "create", GetTodoByID(ask[q].id) = {}
      PROVE  Reason(q, MapErrorFromRequest("NotFound"))
  BY <1>2, <1>4 DEF Reason, MapErrorFromRequest
<1>5. CASE CreateTodo(q)
  <2>1. NewTodo(ask[q]) = Born(ask[q]) /\ Born(ask[q]) \in Row
    <3>1. ask[q].flag = "keep" /\ ask[q].name \in Name /\ ask[q].text \in Text \cup {None}
      BY <1>1, <1>5, AskShape DEF CreateTodo, Ask
    <3>2. Born(ask[q]) \in Row
      BY <3>1 DEF Born, Row
    <3>3. NewTodo(ask[q]) \in Row
      BY <3>1 DEF NewTodo, NoRow, Row
    <3> QED
      BY <3>1, <3>2, <3>3, RowsEqual DEF Born, NewTodo, NoRow
  <2> QED
    BY <1>5, <2>1, InsertIsStep DEF CreateTodo, Error
<1>6. CASE GetTodo(q)
  <2>1. CASE NoTodo(q)
    BY <1>4, <1>6, <2>1, MissingIsAnswered DEF GetTodo, NoTodo, Error
  <2>2. CASE GetTodoByID(ask[q].id) # {} /\ Answer(q, 200)
    BY <1>2, <1>6, <2>2 DEF GetTodo, Answered, Reason
  <2> QED
    BY <1>6, <2>1, <2>2 DEF GetTodo
<1>7. CASE UpdateTodo(q)
  <2>1. CASE NoTodo(q)
    BY <1>4, <1>7, <2>1, MissingIsAnswered DEF UpdateTodo, NoTodo, Error
  <2>2. CASE \E e \in GetTodoByID(ask[q].id) : Proceed(q, "write", ChangedTodo(e, ask[q]))
    <3>1. IsLive(Target(q)) /\ Proceed(q, "write", ChangedTodo(Target(q), ask[q]))
      BY <1>3, <2>2
    <3>2. ask[q].flag = "keep"
      BY <1>1, <1>7, AskShape DEF UpdateTodo
    <3>3. /\ ChangedTodo(Target(q), ask[q]) \in Row
          /\ ChangedTodo(Target(q), ask[q]).name = Promised!Merged(Target(q), ask[q]).name
          /\ ChangedTodo(Target(q), ask[q]).text = Promised!Merged(Target(q), ask[q]).text
          /\ ChangedTodo(Target(q), ask[q]).flag = Promised!Merged(Target(q), ask[q]).flag
      BY <1>1, <3>2 DEF ChangedTodo, Promised!Merged, Row, Ask
    <3>4. Held(q, ChangedTodo(Target(q), ask[q]))
      BY <1>1, <1>7, <3>1, <3>3 DEF Held, UpdateTodo
    <3> QED
      BY <1>7, <3>1, <3>3, <3>4 DEF Moved, Changes, UpdateTodo
  <2> QED
    BY <1>7, <2>1, <2>2 DEF UpdateTodo
<1>8. CASE CompleteTodo(q)
  <2>1. CASE NoTodo(q)
    BY <1>4, <1>8, <2>1, MissingIsAnswered DEF CompleteTodo, NoTodo, Error
  <2>2. CASE Target(q).flag /\ Refuse(q, "Conflict")
    BY <1>8, <2>2 DEF CompleteTodo, Answered, Refuse, MapErrorFromRequest, Reason
  <2>3. CASE \E e \in GetTodoByID(ask[q].id) :
                ~e.flag /\ Proceed(q, "write", [e EXCEPT !.flag = TRUE])
    <3>1. /\ IsLive(Target(q)) /\ ~Target(q).flag
          /\ Proceed(q, "write", [Target(q) EXCEPT !.flag = TRUE])
      BY <1>3, <2>3
    <3>2. ask[q].flag = "on" /\ ask[q].name = None /\ ask[q].text = None
      BY <1>1, <1>8, AskShape DEF CompleteTodo
    <3>3. /\ [Target(q) EXCEPT !.flag = TRUE] \in Row
          /\ [Target(q) EXCEPT !.flag = TRUE].name = Promised!Merged(Target(q), ask[q]).name
          /\ [Target(q) EXCEPT !.flag = TRUE].text = Promised!Merged(Target(q), ask[q]).text
          /\ [Target(q) EXCEPT !.flag = TRUE].flag = Promised!Merged(Target(q), ask[q]).flag
      BY <1>1, <3>2 DEF Promised!Merged, Row, Ask
    <3>4. Held(q, [Target(q) EXCEPT !.flag = TRUE])
      BY <1>1, <1>8, <3>1, <3>3 DEF Held, CompleteTodo
    <3> QED
      BY <1>8, <3>1, <3>3, <3>4 DEF Moved, Changes, CompleteTodo
  <2> QED
    BY <1>3, <1>8, <2>1, <2>2, <2>3 DEF CompleteTodo
<1>9. CASE WriteTodo(q)
  <2>1. seen[q] \in Row
    BY DEF Inv, TypeOK
  <2> DEFINE r == TodoColumns(Target(q), seen[q])
  <2>2. /\ r \in Row /\ r.state = Target(q).state /\ r.name = seen[q].name
        /\ r.text = seen[q].text /\ r.flag = seen[q].flag
    BY <1>1, <2>1 DEF TodoColumns, Row
  <2>3. pc[q] = "write" /\ Write(q, GetTodoByID(ask[q].id), r, "plain")
    BY <1>9 DEF WriteTodo
  <2> HIDE DEF r
  <2> QED
    BY <1>2, <2>2, <2>3, WriteIsStep DEF Error
<1>10. CASE DeleteTodo(q)
  <2>1. CASE NoTodo(q)
    BY <1>4, <1>10, <2>1, MissingIsAnswered DEF DeleteTodo, NoTodo, Error
  <2>2. CASE GetTodoByID(ask[q].id) # {} /\ Proceed(q, "remove", NoRow)
    BY <1>2, <1>10, <2>2 DEF DeleteTodo, Moved
  <2> QED
    BY <1>10, <2>1, <2>2 DEF DeleteTodo
<1>11. CASE RemoveTodo(q)
  BY <1>2, <1>11, EraseIsStep DEF RemoveTodo, TodoDeleted
<1>12. CASE PublishCreated(q) \/ PublishUpdated(q) \/ PublishCompleted(q) \/ PublishDeleted(q)
  BY <1>12 DEF PublishCreated, PublishUpdated, PublishCompleted, PublishDeleted, Published, Events
<1> QED
  BY <1>5, <1>6, <1>7, <1>8, <1>9, <1>10, <1>11, <1>12 DEF TodoStep

LEMMA UserStepIsStep ==
    ASSUME Inv, NEW q \in Request, kind = "user", UserStep(q)
    PROVE  Step(q)
<1> USE DEF At, Step
<1>0. \/ Served(q) /\ kind = "user" /\ kind \in Kind
      \/ Published(q)
  BY DEF UserStep, CreateUser, GetUser, UpdateUser, DeleteUser, WriteUser, Served, Kind
<1> SUFFICES ASSUME Served(q), kind \in Kind, ~Published(q)
             PROVE  Step(q)
  BY <1>0
<1>1. /\ ask[q] \in Ask /\ ask[q].id \in Id /\ ask[q] \in Http[kind]
      /\ Target(q) \in Row /\ Target(q) \in recent[q] /\ recent[q] \subseteq Row
      /\ ask[q].op = "create" => Target(q) = NoRow
  BY ServedFacts
<1>2. GetUserByID(ask[q].id) = {} <=> ~IsLive(Target(q))
  BY DEF GetUserByID, Target, IsLive
<1>3. \A e \in GetUserByID(ask[q].id) : e = Target(q) /\ IsLive(e)
  BY DEF GetUserByID, Target, IsLive
<1>4. ASSUME ask[q].op # "create", GetUserByID(ask[q].id) = {}
      PROVE  Reason(q, MapErrorFromRequest("NotFound"))
  BY <1>2, <1>4 DEF Reason, MapErrorFromRequest
<1>5. CASE CreateUser(q)
  <2>1. UserRow(ask[q]) = Born(ask[q]) /\ Born(ask[q]) \in Row
    <3>1. ask[q].name \in Name /\ ask[q].text \in Text \cup {None}
      BY <1>1, <1>5, AskShape DEF CreateUser, Ask
    <3>2. Born(ask[q]) \in Row
      BY <3>1 DEF Born, Row
    <3>3. UserRow(ask[q]) \in Row
      BY <3>1 DEF UserRow, NoRow, Row
    <3> QED
      BY <3>1, <3>2, <3>3, RowsEqual DEF Born, UserRow, NoRow
  <2> QED
    BY <1>5, <2>1, InsertIsStep DEF CreateUser, Error
<1>6. CASE GetUser(q)
  <2>1. CASE NoUser(q)
    BY <1>4, <1>6, <2>1, MissingIsAnswered DEF GetUser, NoUser, Error
  <2>2. CASE GetUserByID(ask[q].id) # {} /\ Answer(q, 200)
    BY <1>2, <1>6, <2>2 DEF GetUser, Answered, Reason
  <2> QED
    BY <1>6, <2>1, <2>2 DEF GetUser
<1>7. CASE UpdateUser(q)
  <2>1. CASE NoUser(q)
    BY <1>4, <1>7, <2>1, MissingIsAnswered DEF UpdateUser, NoUser, Error
  <2>2. CASE \E e \in GetUserByID(ask[q].id) : Proceed(q, "write", ChangedUser(e, ask[q]))
    <3>1. IsLive(Target(q)) /\ Proceed(q, "write", ChangedUser(Target(q), ask[q]))
      BY <1>3, <2>2
    <3>2. ask[q].flag # "keep"
      BY <1>1, <1>7, AskShape DEF UpdateUser
    <3>3. /\ ChangedUser(Target(q), ask[q]) \in Row
          /\ ChangedUser(Target(q), ask[q]).name = Promised!Merged(Target(q), ask[q]).name
          /\ ChangedUser(Target(q), ask[q]).text = Promised!Merged(Target(q), ask[q]).text
          /\ ChangedUser(Target(q), ask[q]).flag = Promised!Merged(Target(q), ask[q]).flag
      BY <1>1, <3>2 DEF ChangedUser, Promised!Merged, Row, Ask
    <3>4. Held(q, ChangedUser(Target(q), ask[q]))
      BY <1>1, <1>7, <3>1, <3>3 DEF Held, UpdateUser
    <3> QED
      BY <1>7, <3>1, <3>3, <3>4 DEF Moved, Changes, UpdateUser
  <2> QED
    BY <1>7, <2>1, <2>2 DEF UpdateUser
<1>8. CASE DeleteUser(q)
  <2>1. CASE NoUser(q)
    BY <1>4, <1>8, <2>1, MissingIsAnswered DEF DeleteUser, NoUser, Error
  <2>2. CASE \E e \in GetUserByID(ask[q].id) : Proceed(q, "write", [e EXCEPT !.state = "deleted"])
    <3>1. IsLive(Target(q)) /\ Proceed(q, "write", [Target(q) EXCEPT !.state = "deleted"])
      BY <1>3, <2>2
    <3>2. ask[q].name = None /\ ask[q].text = None /\ ask[q].flag = "keep"
      BY <1>1, <1>8, AskShape DEF DeleteUser
    <3>3. /\ [Target(q) EXCEPT !.state = "deleted"] \in Row
          /\ [Target(q) EXCEPT !.state = "deleted"].name = Promised!Merged(Target(q), ask[q]).name
          /\ [Target(q) EXCEPT !.state = "deleted"].text = Promised!Merged(Target(q), ask[q]).text
          /\ [Target(q) EXCEPT !.state = "deleted"].flag = Promised!Merged(Target(q), ask[q]).flag
      BY <1>1, <3>2 DEF Promised!Merged, Row, Ask
    <3>4. Held(q, [Target(q) EXCEPT !.state = "deleted"])
      BY <1>1, <1>8, <3>1, <3>3 DEF Held, DeleteUser
    <3> QED
      BY <1>8, <3>1, <3>3, <3>4 DEF Moved, Changes, DeleteUser
  <2> QED
    BY <1>8, <2>1, <2>2 DEF DeleteUser
<1>9. CASE WriteUser(q)
  <2>1. seen[q] \in Row
    BY DEF Inv, TypeOK
  <2> DEFINE r == UserColumns(Target(q), seen[q])
  <2>2. /\ r \in Row /\ r.state = Target(q).state /\ r.name = seen[q].name
        /\ r.text = seen[q].text /\ r.flag = seen[q].flag
    BY <1>1, <2>1 DEF UserColumns, Row
  <2>3. pc[q] = "write" /\ Write(q, GetUserByID(ask[q].id), r, "NotFound")
    BY <1>9 DEF WriteUser
  <2> HIDE DEF r
  <2> QED
    BY <1>2, <2>2, <2>3, WriteIsStep DEF Error
<1> QED
  BY <1>5, <1>6, <1>7, <1>8, <1>9 DEF UserStep

-----------------------------------------------------------------------------
(* The invariant is inductive.                                             *)

LEMMA InitInv == Init => Inv
<1> SUFFICES ASSUME Init PROVE Inv
  OBVIOUS
<1> USE DEF Init
<1>1. TypeOK
  BY NoRowIsRow DEF TypeOK, Events
<1>2. SlotInv /\ NewInv /\ RecentInv
  BY DEF SlotInv, NewInv, RecentInv, Served
<1>3. UniqueInv /\ TenantInv
  BY NoRowIsRow DEF UniqueInv, TenantInv
<1>4. ToldInv
  BY DEF ToldInv, Publishing
<1> QED
  BY <1>1, <1>2, <1>3, <1>4 DEF Inv

LEMMA AcceptInv ==
    ASSUME Inv, NEW q \in Request, Accept(q)
    PROVE  Inv'
<1>1. PICK a \in Http[kind] :
        /\ a.op = "create" => rows[a.id] = NoRow
                              /\ \A p \in Request : ask[p].op = "create" => ask[p].id # a.id
        /\ ask' = [ask EXCEPT ![q] = a]
        /\ recent' = [recent EXCEPT ![q] = {rows[a.id]}]
  BY DEF Accept
<1>2. /\ pc[q] = "idle" /\ pc' = [pc EXCEPT ![q] = "asked"]
      /\ UNCHANGED <<kind, rows, seen, told>>
      /\ answer' = [answer EXCEPT ![q] = 0]
  BY DEF Accept
<1>3. a \in Ask /\ a.id \in Id /\ rows[a.id] \in Row /\ kind \in Kind
  BY AskShape DEF Inv, TypeOK, Ask
<1>4. TypeOK'
  BY <1>1, <1>2, <1>3 DEF Inv, TypeOK
<1>5. SlotInv'
  BY <1>1, <1>2 DEF Inv, TypeOK, SlotInv, Held, Changes
<1>6. NewInv'
  BY <1>1, <1>2 DEF Inv, TypeOK, NewInv, Served
<1>7. RecentInv'
  BY <1>1, <1>2 DEF Inv, TypeOK, RecentInv, Served, Target, Fixed
<1>8. UniqueInv' /\ TenantInv'
  BY <1>2 DEF Inv, UniqueInv, TenantInv
<1>9. ToldInv'
  BY <1>1, <1>2 DEF Inv, TypeOK, ToldInv, Publishing
<1> QED
  BY <1>4, <1>5, <1>6, <1>7, <1>8, <1>9 DEF Inv

\* A slot that is answered: the rows and the other slots are as before.
LEMMA AnswerInv ==
    ASSUME Inv, NEW q \in Request, Served(q), NEW s \in {0, 200, 404, 409, 500},
           Answer(q, s)
    PROVE  Inv'
<1> USE DEF Answer, Reply
<1>4. TypeOK'
  BY NoRowIsRow DEF Inv, TypeOK
<1>5. SlotInv'
  BY DEF Inv, TypeOK, SlotInv, Held, Changes
<1>6. NewInv'
  BY DEF Inv, TypeOK, NewInv, Served
<1>7. RecentInv'
  BY DEF Inv, TypeOK, RecentInv, Served, Target, Fixed
<1>8. UniqueInv' /\ TenantInv'
  BY DEF Inv, UniqueInv, TenantInv
<1>9. ToldInv'
  BY DEF Inv, TypeOK, ToldInv, Publishing, Served
<1> QED
  BY <1>4, <1>5, <1>6, <1>7, <1>8, <1>9 DEF Inv

LEMMA MovedInv ==
    ASSUME Inv, NEW q \in Request, Moved(q)
    PROVE  Inv'
<1>1. PICK where \in {"insert", "write", "remove"}, e \in Row :
        /\ pc[q] = "asked"
        /\ Proceed(q, where, e)
        /\ where = "insert" => ask[q].op = "create"
        /\ where = "write" => Changes(q) /\ Held(q, e)
        /\ where = "remove" => ask[q].op = "delete" /\ kind # "user" /\ IsLive(Target(q))
  BY NoRowIsRow DEF Moved
<1> USE <1>1 DEF Proceed
<1>2. Target(q) \in recent[q]
  BY ServedFacts DEF Served
<1>4. TypeOK'
  BY DEF Inv, TypeOK
<1>5. SlotInv'
  BY <1>2 DEF Inv, TypeOK, SlotInv, Held, Changes
<1>6. NewInv'
  BY DEF Inv, TypeOK, NewInv, Served
<1>7. RecentInv'
  BY DEF Inv, TypeOK, RecentInv, Served, Target, Fixed
<1>8. UniqueInv' /\ TenantInv'
  BY DEF Inv, UniqueInv, TenantInv
<1>9. ToldInv'
  BY DEF Inv, TypeOK, ToldInv, Publishing
<1> QED
  BY <1>4, <1>5, <1>6, <1>7, <1>8, <1>9 DEF Inv

\* What the new row of a commit has in common with the old one.
LEMMA OriginFacts ==
    ASSUME Inv, NEW q \in Request, Served(q), NEW r \in Row, Origin(q, r)
    PROVE  /\ r.state \in {"live", "deleted", "gone"}
           /\ kind = "tenant" => r.state # "deleted"
           /\ Target(q).state # "none" => Fixed(Target(q), r)
           /\ ask[q].op # "create" => IsLive(Target(q))
           /\ kind # "todo" /\ r.state \in {"live", "deleted"} =>
                 \A j \in Id : /\ rows[j].state \in {"live", "deleted"}
                               /\ rows[j].name = r.name
                               => j = ask[q].id
<1>1. /\ ask[q] \in Http[kind] /\ ask[q] \in Ask /\ ask[q].id \in Id
      /\ Target(q) \in Row /\ kind \in Kind
      /\ \A v \in recent[q] : v \in Row
      /\ \A v \in recent[q] : v.state # "none" => Fixed(v, Target(q))
      /\ ask[q].op = "create" => Target(q) = NoRow
  BY ServedFacts
<1>2. CASE ask[q].op = "create" /\ Holders(ask[q].name) = {} /\ r = Born(ask[q])
  BY <1>1, <1>2, NoRowIsRow DEF Born, Holders
<1>3. CASE /\ Changes(q) /\ IsLive(Target(q)) /\ Holders(r.name) \subseteq {ask[q].id}
           /\ \E v \in recent[q] : IsLive(v) /\ r = Promised!Merged(v, ask[q])
  <2>1. PICK v \in recent[q] : IsLive(v) /\ r = Promised!Merged(v, ask[q])
    BY <1>3
  <2>2. /\ r.state = "live"
        /\ r.name = IF ask[q].name = None THEN v.name ELSE ask[q].name
        /\ r.flag = IF ask[q].flag = "keep" THEN v.flag ELSE ask[q].flag = "on"
    BY <1>1, <2>1, MergedRow DEF IsLive
  <2>3. Fixed(v, Target(q))
    BY <1>1, <2>1 DEF IsLive
  <2>4. /\ kind = "tenant" => ask[q].name = None
        /\ kind \in {"role", "permission"} => ask[q].flag = "keep"
    BY <1>1, <1>3, AskShape DEF Changes
  <2>5. Fixed(Target(q), r)
    BY <2>2, <2>3, <2>4 DEF Fixed
  <2>6. ask[q].op # "create"
    BY <1>3 DEF Changes
  <2>7. \A j \in Id : j \in Holders(r.name) => j = ask[q].id
    BY <1>3
  <2> QED
    BY <1>3, <2>2, <2>5, <2>6, <2>7 DEF Holders
<1>4. CASE /\ ask[q].op = "delete" /\ IsLive(Target(q))
           /\ r = [Target(q) EXCEPT !.state = IF kind = "tenant" THEN "gone" ELSE "deleted"]
  <2>1. /\ r.state = IF kind = "tenant" THEN "gone" ELSE "deleted"
        /\ r.name = Target(q).name /\ r.flag = Target(q).flag
    BY <1>1, <1>4 DEF Row
  <2>2. Fixed(Target(q), r)
    BY <2>1 DEF Fixed
  <2>3. kind # "todo" => \A j \in Id : /\ rows[j].state \in {"live", "deleted"}
                                       /\ rows[j].name = r.name
                                       => j = ask[q].id
    BY <1>1, <1>4, <2>1 DEF Inv, UniqueInv, Target, IsLive
  <2> QED
    BY <1>4, <2>1, <2>2, <2>3
<1> QED
  BY <1>2, <1>3, <1>4 DEF Origin

LEMMA CommittedInv ==
    ASSUME Inv, NEW q \in Request, Committed(q)
    PROVE  Inv'
<1> DEFINE i == ask[q].id
<1>1. PICK r \in Row : Origin(q, r) /\ Commit(q, r)
  BY DEF Committed
<1>2. /\ Served(q) /\ i \in Id /\ Target(q) = rows[i] /\ Target(q) \in Row
      /\ ask[q] \in Ask
  BY ServedFacts DEF Committed, Target
<1>3. /\ r.state \in {"live", "deleted", "gone"}
      /\ kind = "tenant" => r.state # "deleted"
      /\ rows[i].state # "none" => Fixed(rows[i], r)
      /\ ask[q].op # "create" => IsLive(rows[i])
      /\ kind # "todo" /\ r.state \in {"live", "deleted"} =>
            \A j \in Id : rows[j].state \in {"live", "deleted"} /\ rows[j].name = r.name => j = i
  BY <1>1, <1>2, OriginFacts
<1>4. /\ kind' = kind
      /\ rows' = [rows EXCEPT ![i] = r]
      /\ recent' = [p \in Request |->
            IF p = q THEN {}
            ELSE IF pc[p] \notin {"idle", "publish"} /\ ask[p].id = i THEN recent[p] \cup {r}
            ELSE recent[p]]
      /\ seen' = [seen EXCEPT ![q] = NoRow]
  BY <1>1 DEF Commit, Reply
<1>5. \/ /\ kind = "todo"
         /\ pc' = [pc EXCEPT ![q] = "publish"]
         /\ told' = [told EXCEPT ![i] =
                IF \E p \in Request : Publishing(p, i) THEN Crossed
                ELSE [wrote |-> ask[q].op, said |-> @.said, crossed |-> FALSE]]
         /\ UNCHANGED <<ask, answer>>
      \/ /\ pc' = [pc EXCEPT ![q] = "idle"]
         /\ ask' = [ask EXCEPT ![q] = NoAsk]
         /\ \E s \in {0, 200, 201, 500} : answer' = [answer EXCEPT ![q] = s]
         /\ \/ kind # "todo" /\ UNCHANGED told
            \/ told' = [told EXCEPT ![i] = IF kind = "todo" THEN Crossed ELSE @]
  BY <1>1 DEF Commit, Reply, Done
<1> HIDE DEF i
<1>6. TypeOK'
  <2>1. ask[q].op \in Events
    <3>1. ask[q].op # "get"
      BY <1>1 DEF Origin, Changes
    <3> QED
      BY <1>2, <3>1 DEF Ask, Events
  <2>2. /\ kind' \in Kind /\ rows' \in [Id -> Row] /\ seen' \in [Request -> Row]
        /\ recent' \in [Request -> SUBSET Row]
    BY <1>2, <1>4, NoRowIsRow DEF Inv, TypeOK
  <2>3. /\ pc' \in [Request -> {"idle", "asked", "insert", "write", "remove", "publish"}]
        /\ ask' \in [Request -> Http[kind] \cup {NoAsk}]
        /\ answer' \in [Request -> {0, 200, 201, 400, 404, 409, 500}]
    BY <1>5 DEF Inv, TypeOK
  <2>4. told' \in [Id -> [wrote : Events, said : Events, crossed : BOOLEAN]]
    <3>1. Crossed \in [wrote : Events, said : Events, crossed : BOOLEAN]
      BY DEF Crossed, Events
    <3>2. [wrote |-> ask[q].op, said |-> told[i].said, crossed |-> FALSE]
             \in [wrote : Events, said : Events, crossed : BOOLEAN]
      BY <1>2, <2>1 DEF Inv, TypeOK
    <3> DEFINE History == [wrote : Events, said : Events, crossed : BOOLEAN]
    <3>3. told \in [Id -> History] /\ told[i] \in History
      BY <1>2 DEF Inv, TypeOK
    <3>4. \/ told' = [told EXCEPT ![i] = Crossed]
          \/ told' = [told EXCEPT ![i] =
                [wrote |-> ask[q].op, said |-> told[i].said, crossed |-> FALSE]]
          \/ told' = [told EXCEPT ![i] = told[i]]
          \/ told' = told
      BY <1>2, <1>5 DEF Inv, TypeOK
    <3> HIDE DEF History
    <3>5. Crossed \in History
          /\ [wrote |-> ask[q].op, said |-> told[i].said, crossed |-> FALSE] \in History
      BY <3>1, <3>2 DEF History
    <3>6. told' \in [Id -> History]
      BY <1>2, <3>3, <3>4, <3>5
    <3> QED
      BY <3>6 DEF History
  <2> QED
    BY <1>4, <2>2, <2>3, <2>4 DEF TypeOK
<1>7. SlotInv'
  <2> SUFFICES ASSUME NEW p \in Request
               PROVE  (/\ pc[p] = "idle" => ask[p] = NoAsk
                       /\ pc[p] # "idle" => ask[p] \in Http[kind]
                       /\ pc[p] = "insert" => ask[p].op = "create"
                       /\ pc[p] = "write" => Changes(p) /\ Held(p, seen[p])
                       /\ pc[p] = "remove" =>
                             /\ ask[p].op = "delete" /\ kind # "user"
                             /\ \E v \in recent[p] : IsLive(v)
                       /\ pc[p] = "publish" => kind = "todo" /\ recent[p] = {})'
    BY DEF SlotInv
  <2>1. CASE p = q
    BY <1>2, <1>4, <1>5, <2>1 DEF Inv, TypeOK, SlotInv, Served
  <2>2. CASE p # q
    <3>1. pc'[p] = pc[p] /\ ask'[p] = ask[p] /\ seen'[p] = seen[p] /\ recent[p] \subseteq recent'[p]
      BY <1>4, <1>5, <2>2 DEF Inv, TypeOK
    <3>2. pc[p] = "publish" => recent'[p] = recent[p]
      BY <1>4, <2>2
    <3> QED
      BY <1>4, <3>1, <3>2 DEF Inv, SlotInv, Held, Changes
  <2> QED
    BY <2>1, <2>2
<1>8. NewInv'
  <2> SUFFICES ASSUME NEW p \in Request, Served(p)', (ask[p].op = "create")'
               PROVE  (/\ rows[ask[p].id] = NoRow
                       /\ \A z \in Request \ {p} :
                             Served(z) /\ ask[z].op = "create" => ask[z].id # ask[p].id)'
    BY DEF NewInv
  <2>1. p # q
    BY <1>5 DEF Inv, TypeOK, Served
  <2>2. Served(p) /\ ask'[p] = ask[p]
    BY <1>5, <2>1 DEF Inv, TypeOK, Served
  <2>3. ask[p].id # i
    BY <1>2, <1>3, <2>1, <2>2, NoRowIsRow DEF Inv, NewInv, IsLive, i
  <2>4. \A z \in Request : z # q /\ Served(z)' => Served(z) /\ ask'[z] = ask[z]
    BY <1>5 DEF Inv, TypeOK, Served
  <2>5. ~Served(q)'
    BY <1>5 DEF Inv, TypeOK, Served
  <2>6. ask[p].id \in Id
    BY <2>2, ServedFacts
  <2> QED
    BY <1>4, <2>2, <2>3, <2>4, <2>5, <2>6 DEF Inv, TypeOK, NewInv
<1>9. RecentInv'
  <2> SUFFICES ASSUME NEW p \in Request, Served(p)'
               PROVE  (/\ Target(p) \in recent[p]
                       /\ \A v \in recent[p] :
                             v.state # "none" => Target(p).state # "none" /\ Fixed(v, Target(p)))'
    BY DEF RecentInv
  <2>1. p # q /\ Served(p) /\ ask'[p] = ask[p] /\ pc[p] \notin {"idle", "publish"}
    BY <1>5 DEF Inv, TypeOK, Served
  <2>2. /\ ask[p].id \in Id /\ rows[ask[p].id] \in recent[p] /\ recent[p] \subseteq Row
        /\ \A v \in recent[p] :
              v.state # "none" => rows[ask[p].id].state # "none" /\ Fixed(v, rows[ask[p].id])
    BY <2>1, ServedFacts DEF Target
  <2>3. CASE ask[p].id = i
    <3>1. recent'[p] = recent[p] \cup {r} /\ Target(p)' = r
      BY <1>2, <1>4, <2>1, <2>3 DEF Inv, TypeOK, Target
    <3>2. \A v \in recent[p] : v.state # "none" => Fixed(v, r)
      BY <1>3, <2>2, <2>3 DEF Fixed
    <3>3. \A v, w : Fixed(v, w)' <=> Fixed(v, w)
      BY <1>4 DEF Fixed
    <3>4. Fixed(r, r)
      BY DEF Fixed
    <3> QED
      BY <1>3, <3>1, <3>2, <3>3, <3>4
  <2>4. CASE ask[p].id # i
    <3>1. recent'[p] = recent[p] /\ Target(p)' = rows[ask[p].id]
      BY <1>4, <2>1, <2>2, <2>4 DEF Inv, TypeOK, Target
    <3>2. \A v, w : Fixed(v, w)' <=> Fixed(v, w)
      BY <1>4 DEF Fixed
    <3> QED
      BY <2>2, <3>1, <3>2
  <2> QED
    BY <2>3, <2>4
<1>10. UniqueInv'
  <2> SUFFICES ASSUME kind # "todo", NEW j \in Id, NEW k \in Id,
                      (rows[j].state \in {"live", "deleted"})',
                      (rows[k].state \in {"live", "deleted"})',
                      (rows[j].name = rows[k].name)'
               PROVE  j = k
    BY <1>4 DEF UniqueInv
  <2>1. \A x \in Id : rows'[x] = IF x = i THEN r ELSE rows[x]
    BY <1>2, <1>4 DEF Inv, TypeOK
  <2> QED
    BY <1>3, <2>1 DEF Inv, UniqueInv
<1>11. TenantInv'
  BY <1>2, <1>3, <1>4 DEF Inv, TypeOK, TenantInv
<1>12. ToldInv'
  <2> SUFFICES ASSUME NEW j \in Id, (~told[j].crossed)'
               PROVE  (/\ \A p \in Request : Publishing(p, j) => ask[p].op = told[j].wrote
                       /\ \A p, z \in Request : Publishing(p, j) /\ Publishing(z, j) => p = z
                       /\ (\A p \in Request : ~Publishing(p, j)) => told[j].said = told[j].wrote)'
    BY DEF ToldInv
  <2>1. \A p \in Request : p # q => (Publishing(p, j)' <=> Publishing(p, j)) /\ ask'[p] = ask[p]
    BY <1>5 DEF Inv, TypeOK, Publishing
  <2>2. ~Publishing(q, j)
    BY <1>2 DEF Publishing, Served
  <2>3. CASE kind = "todo" /\ j = i
    <3>1. /\ pc' = [pc EXCEPT ![q] = "publish"] /\ UNCHANGED ask
          /\ \A p \in Request : ~Publishing(p, i)
          /\ told'[i].wrote = ask[q].op
      BY <1>2, <1>5, <2>3 DEF Inv, TypeOK, Crossed
    <3>2. Publishing(q, j)'
      BY <2>3, <3>1 DEF Inv, TypeOK, Publishing, i
    <3>3. \A p \in Request : Publishing(p, j)' => p = q
      BY <2>1, <2>3, <3>1
    <3> QED
      BY <2>3, <3>1, <3>2, <3>3
  <2>4. CASE kind # "todo" \/ j # i
    <3>1. told'[j] = told[j]
      BY <1>2, <1>5, <2>4 DEF Inv, TypeOK
    <3>2. ~Publishing(q, j)'
      BY <1>5, <2>4 DEF Inv, TypeOK, Publishing, i
    <3> QED
      BY <2>1, <2>2, <3>1, <3>2 DEF Inv, ToldInv
  <2> QED
    BY <2>3, <2>4
<1> QED
  BY <1>6, <1>7, <1>8, <1>9, <1>10, <1>11, <1>12 DEF Inv

\* A request at "publish" ends, with its event or without.
LEMMA PublishedInv ==
    ASSUME Inv, NEW q \in Request, pc[q] = "publish", NEW i \in Id, i = ask[q].id,
           NEW s \in {0, 200, 201}, Reply(q, s),
           \/ told' = [told EXCEPT ![i].said = IF told[i].crossed THEN @ ELSE ask[q].op]
           \/ told' = [told EXCEPT ![i] = Crossed],
           UNCHANGED <<kind, rows, recent>>
    PROVE  Inv'
<1> USE DEF Reply
<1>1. kind = "todo" /\ recent[q] = {} /\ ask[q] \in Http[kind] /\ ask[q] # NoAsk
  BY RowAssumption DEF Inv, SlotInv, NoAsk
<1>2. TypeOK'
  <2>1. Crossed \in [wrote : Events, said : Events, crossed : BOOLEAN]
    BY DEF Crossed, Events
  <2>2. ~told[i].crossed => ask[q].op \in Events
    BY DEF Inv, TypeOK, ToldInv, Publishing
  <2>3. told' \in [Id -> [wrote : Events, said : Events, crossed : BOOLEAN]]
    BY <2>1, <2>2 DEF Inv, TypeOK
  <2> QED
    BY <2>3, NoRowIsRow DEF Inv, TypeOK
<1>3. SlotInv'
  BY DEF Inv, TypeOK, SlotInv, Held, Changes
<1>4. NewInv'
  BY DEF Inv, TypeOK, NewInv, Served
<1>5. RecentInv'
  BY DEF Inv, TypeOK, RecentInv, Served, Target, Fixed
<1>6. UniqueInv' /\ TenantInv'
  BY DEF Inv, UniqueInv, TenantInv
<1>7. ToldInv'
  <2> SUFFICES ASSUME NEW j \in Id, (~told[j].crossed)'
               PROVE  (/\ \A p \in Request : Publishing(p, j) => ask[p].op = told[j].wrote
                       /\ \A p, z \in Request : Publishing(p, j) /\ Publishing(z, j) => p = z
                       /\ (\A p \in Request : ~Publishing(p, j)) => told[j].said = told[j].wrote)'
    BY DEF ToldInv
  <2>1. /\ ~Publishing(q, j)'
        /\ \A p \in Request : p # q => (Publishing(p, j)' <=> Publishing(p, j)) /\ ask'[p] = ask[p]
    BY DEF Inv, TypeOK, Publishing
  <2>2. CASE j = i
    <3>1. /\ ~told[i].crossed /\ told'[i].said = ask[q].op /\ told'[i].wrote = told[i].wrote
      BY <2>2 DEF Inv, TypeOK, Crossed
    <3>2. Publishing(q, i)
      BY DEF Publishing
    <3> QED
      BY <2>1, <2>2, <3>1, <3>2 DEF Inv, ToldInv
  <2>3. CASE j # i
    <3>1. told'[j] = told[j] /\ ~Publishing(q, j)
      BY <2>3 DEF Inv, TypeOK, Publishing
    <3> QED
      BY <2>1, <3>1 DEF Inv, ToldInv
  <2> QED
    BY <2>2, <2>3
<1> QED
  BY <1>2, <1>3, <1>4, <1>5, <1>6, <1>7 DEF Inv

\* Every step of a request is one of the four.
LEMMA NextIsStep ==
    ASSUME Inv, NEW q \in Request,
           \/ RoleStep(q) \/ PermissionStep(q) \/ TenantStep(q) \/ TodoStep(q) \/ UserStep(q)
    PROVE  Step(q)
<1>1. RoleStep(q) => kind = "role"
  BY DEF RoleStep, CreateRole, InsertRole, GetRole, UpdateRole, WriteRole, DeleteRole, At
<1>2. PermissionStep(q) => kind = "permission"
  BY DEF PermissionStep, CreatePermission, InsertPermission, GetPermission, UpdatePermission,
         WritePermission, DeletePermission, At
<1>3. TenantStep(q) => kind = "tenant"
  BY DEF TenantStep, CreateTenant, InsertTenant, GetTenant, UpdateTenant, WriteTenant,
         DeleteTenant, RemoveTenant, At
<1>4. TodoStep(q) => kind = "todo"
  BY DEF TodoStep, CreateTodo, GetTodo, UpdateTodo, CompleteTodo, WriteTodo, DeleteTodo,
         RemoveTodo, PublishCreated, PublishUpdated, PublishCompleted, PublishDeleted, Publish, At
<1>5. UserStep(q) => kind = "user"
  BY DEF UserStep, CreateUser, GetUser, UpdateUser, DeleteUser, WriteUser, At
<1> QED
  BY <1>1, <1>2, <1>3, <1>4, <1>5, RoleStepIsStep, PermissionStepIsStep, TenantStepIsStep,
     TodoStepIsStep, UserStepIsStep

LEMMA DieInv ==
    ASSUME Inv, NEW q \in Request, Die(q)
    PROVE  Inv'
<1>1. CASE pc[q] = "publish"
  <2>1. ask[q].id \in Id
    BY <1>1, AskShape DEF Inv, TypeOK, SlotInv, Ask
  <2>2. told' = [told EXCEPT ![ask[q].id] = Crossed]
    BY <1>1, <2>1 DEF Inv, TypeOK, Die, Publishing
  <2>3. recent' = recent
    BY <1>1 DEF Inv, TypeOK, SlotInv, Die
  <2> QED
    BY <1>1, <2>1, <2>2, <2>3, PublishedInv DEF Die
<1>2. CASE pc[q] # "publish"
  <2>1. Served(q)
    BY <1>2 DEF Inv, TypeOK, Die, Served
  <2>2. told' = told
    BY <1>2 DEF Inv, TypeOK, Die, Publishing
  <2>3. Answer(q, 0)
    BY <2>2 DEF Die, Answer
  <2> QED
    BY <2>1, <2>3, AnswerInv
<1> QED
  BY <1>1, <1>2

LEMMA NextInv ==
    ASSUME Inv, [Next]_vars
    PROVE  Inv'
<1>1. ASSUME NEW q \in Request, Accept(q) PROVE Inv'
  BY <1>1, AcceptInv
<1>2. ASSUME NEW q \in Request, RespondBadRequest(q) PROVE Inv'
  <2> USE <1>2 DEF RespondBadRequest
  <2>1. TypeOK'
    BY DEF Inv, TypeOK
  <2>2. SlotInv' /\ NewInv' /\ RecentInv'
    BY DEF Inv, SlotInv, NewInv, RecentInv, Held, Changes, Served, Target, Fixed
  <2>3. UniqueInv' /\ TenantInv' /\ ToldInv'
    BY DEF Inv, UniqueInv, TenantInv, ToldInv, Publishing
  <2> QED
    BY <2>1, <2>2, <2>3 DEF Inv
<1>3. ASSUME NEW q \in Request, Die(q) PROVE Inv'
  BY <1>3, DieInv
<1>4. ASSUME NEW q \in Request, Step(q) PROVE Inv'
  <2>1. CASE Answered(q)
    BY <2>1, AnswerInv DEF Answered
  <2>2. CASE Moved(q)
    BY <2>2, MovedInv
  <2>3. CASE Committed(q)
    BY <2>3, CommittedInv
  <2>4. CASE Published(q)
    <3>1. ask[q].id \in Id
      BY <2>4, AskShape DEF Inv, TypeOK, SlotInv, Ask, Published, Publish, At
    <3>2. Done(ask[q]) \in {0, 200, 201}
      BY DEF Done
    <3> QED
      BY <2>4, <3>1, <3>2, PublishedInv DEF Published, Publish, At
  <2> QED
    BY <1>4, <2>1, <2>2, <2>3, <2>4 DEF Step
<1>5. CASE UNCHANGED vars
  <2> USE <1>5 DEF vars
  <2>1. TypeOK'
    BY DEF Inv, TypeOK
  <2>2. SlotInv' /\ NewInv' /\ RecentInv'
    BY DEF Inv, SlotInv, NewInv, RecentInv, Held, Changes, Served, Target, Fixed
  <2>3. UniqueInv' /\ TenantInv' /\ ToldInv'
    BY DEF Inv, UniqueInv, TenantInv, ToldInv, Publishing
  <2> QED
    BY <2>1, <2>2, <2>3 DEF Inv
<1> QED
  BY <1>1, <1>2, <1>3, <1>4, <1>5, NextIsStep DEF Next

LEMMA Invariance == Spec => []Inv
<1>1. Inv /\ [Next]_vars => Inv'
  BY NextInv
<1> QED
  BY InitInv, <1>1, PTL DEF Spec

-----------------------------------------------------------------------------
(* Theorems.                                                               *)

\* Slots, rows and answers keep their types (handlers.go and the repositories).
THEOREM TypeCorrect == Spec => []TypeOK
<1>1. Inv => TypeOK
  BY DEF Inv
<1> QED
  BY <1>1, Invariance, PTL

\* When no request on a todo is between write and event, the last event tells the
\* last write, unless the two crossed or an event was lost (create_todo.go 33).
THEOREM EventOrder == Spec => []LastEventIsLastWrite
<1>1. Inv => LastEventIsLastWrite
  BY DEF Inv, ToldInv, LastEventIsLastWrite
<1> QED
  BY <1>1, Invariance, PTL

-----------------------------------------------------------------------------
(* The refinement.                                                         *)

\* The data of the two specifications are the same.
LEMMA SameData ==
    /\ Promised!NoRow = NoRow /\ Promised!NoAsk = NoAsk
    /\ Promised!Kind = Kind /\ Promised!Ask = Ask
    /\ \A r : Promised!IsLive(r) <=> IsLive(r)
    /\ \A a : Promised!Done(a) = Done(a)
BY DEF Promised!NoRow, NoRow, Promised!NoAsk, NoAsk, Promised!Kind, Kind, Promised!Ask, Ask,
       Promised!IsLive, IsLive, Promised!Done, Done

LEMMA PhaseOf ==
    ASSUME NEW q \in Request
    PROVE  /\ pc[q] = "idle" => Phase[q] = "idle"
           /\ pc[q] = "publish" => Phase[q] = "stored"
           /\ pc[q] \notin {"idle", "publish"} => Phase[q] = "asked"
BY DEF Phase, Progress

\* One slot moves; what the others are in is as before.
LEMMA PhaseStep ==
    ASSUME Inv, NEW q \in Request, NEW w, pc' = [pc EXCEPT ![q] = w]
    PROVE  /\ Phase' = [Phase EXCEPT ![q] = Progress(w)]
           /\ Progress(w) = Phase[q] => Phase' = Phase
<1>1. \A p \in Request : Phase'[p] = IF p = q THEN Progress(w) ELSE Phase[p]
  BY DEF Inv, TypeOK, Phase
<1>2. Phase = [p \in Request |-> Phase[p]] /\ Phase' = [p \in Request |-> Phase'[p]]
  BY DEF Phase
<1> QED
  BY <1>1, <1>2

LEMMA InitImplements == Init => Promised!Init
<1> SUFFICES ASSUME Init PROVE Promised!Init
  OBVIOUS
<1>1. Phase = [q \in Request |-> "idle"]
  BY DEF Init, Phase, Progress
<1> QED
  BY <1>1, SameData DEF Init, Promised!Init

LEMMA CloseImplements ==
    ASSUME Inv, NEW q \in Request, NEW s, Reply(q, s)
    PROVE  Promised!Close(q, s)
<1>1. Phase' = [Phase EXCEPT ![q] = "idle"]
  BY PhaseStep DEF Reply, Progress
<1> QED
  BY <1>1, SameData DEF Promised!Close, Reply

LEMMA AnsweredImplements ==
    ASSUME Inv, NEW q \in Request, Answered(q)
    PROVE  Promised!Next
<1>1. PICK s \in {200, 404, 409, 500} : Reason(q, s) /\ Answer(q, s)
  BY DEF Answered
<1>2. Served(q) /\ Phase[q] = "asked" /\ Target(q) = rows[ask[q].id]
  BY PhaseOf DEF Answered, Target, Served
<1>3. Promised!Unchanging(q, s)
  BY <1>1, CloseImplements DEF Promised!Unchanging, Answer
<1>4. \A n : Promised!Holders(n) = Holders(n)
  BY DEF Promised!Holders, Holders
<1>5. \/ Promised!Report(q) \/ Promised!Conflict(q) \/ Promised!NotFound(q)
      \/ Promised!Blunder(q) \/ Promised!Fail(q)
  BY <1>1, <1>2, <1>3, <1>4, SameData
     DEF Reason, Promised!Report, Promised!Conflict, Promised!NotFound, Promised!Blunder,
         Promised!Fail
<1> QED
  BY <1>5 DEF Promised!Next

LEMMA CommittedImplements ==
    ASSUME Inv, NEW q \in Request, Committed(q)
    PROVE  Promised!Next
<1>1. PICK r \in Row : Origin(q, r) /\ Commit(q, r)
  BY DEF Committed
<1>2. /\ Phase[q] = "asked" /\ Served(q) /\ Target(q) = rows[ask[q].id]
      /\ ask[q].op = "create" => Target(q) = NoRow
  BY PhaseOf, ServedFacts DEF Committed, Target, Served
<1>3. \A p \in Request : Phase[p] = "asked" <=> pc[p] \notin {"idle", "publish"}
  BY PhaseOf
<1>4. Promised!Take(q, r)
  <2>1. /\ rows' = [rows EXCEPT ![ask[q].id] = r]
        /\ UNCHANGED kind
        /\ recent' = [p \in Request |->
              IF p = q THEN {}
              ELSE IF Phase[p] = "asked" /\ ask[p].id = ask[q].id THEN recent[p] \cup {r}
              ELSE recent[p]]
    BY <1>1, <1>3 DEF Commit
  <2>2. \/ Promised!Close(q, Done(ask[q]))
        \/ /\ kind = "todo" /\ Phase' = [Phase EXCEPT ![q] = "stored"]
           /\ UNCHANGED <<ask, answer>>
        \/ q \in Faulty /\ \E s \in {0, 500} : Promised!Close(q, s)
    <3>1. pc' = [pc EXCEPT ![q] = "publish"] => Phase' = [Phase EXCEPT ![q] = "stored"]
      BY PhaseStep DEF Progress
    <3> QED
      BY <1>1, <3>1, CloseImplements DEF Commit
  <2> QED
    BY <1>2, <2>1, <2>2, SameData DEF Promised!Take
<1>5. \A n : Promised!Holders(n) = Holders(n)
  BY DEF Promised!Holders, Holders
<1>6. CASE ask[q].op = "create" /\ Holders(ask[q].name) = {} /\ r = Born(ask[q])
  <2>1. Promised!Create(q)
    BY <1>2, <1>4, <1>5, <1>6, SameData DEF Promised!Create, Born
  <2> QED
    BY <2>1 DEF Promised!Next
<1>7. CASE /\ Changes(q)
           /\ IsLive(Target(q))
           /\ Holders(r.name) \subseteq {ask[q].id}
           /\ \E v \in recent[q] :
                 IsLive(v) /\ (ask[q].op = "complete" => ~v.flag) /\ r = Promised!Merged(v, ask[q])
  <2>1. Promised!Change(q)
    BY <1>2, <1>4, <1>5, <1>7, SameData DEF Promised!Change, Changes
  <2> QED
    BY <2>1 DEF Promised!Next
<1>8. CASE /\ ask[q].op = "delete" /\ kind # "user" /\ IsLive(Target(q))
           /\ r = [Target(q) EXCEPT !.state = IF kind = "tenant" THEN "gone" ELSE "deleted"]
  <2>1. Promised!Remove(q)
    BY <1>2, <1>4, <1>8, SameData DEF Promised!Remove
  <2> QED
    BY <2>1 DEF Promised!Next
<1> QED
  BY <1>1, <1>6, <1>7, <1>8 DEF Origin

LEMMA StepImplements ==
    ASSUME Inv, [Next]_vars
    PROVE  [Promised!Next]_(Promised!vars)
<1>1. ASSUME NEW q \in Request, Accept(q) PROVE Promised!Next
  <2>1. PICK a \in Http[kind] :
        /\ a.op = "create" => rows[a.id] = NoRow
        /\ ask' = [ask EXCEPT ![q] = a]
        /\ recent' = [recent EXCEPT ![q] = {rows[a.id]}]
    BY <1>1 DEF Accept
  <2>2. a \in Ask
    BY AskShape DEF Inv, TypeOK
  <2>3. Phase[q] = "idle" /\ Phase' = [Phase EXCEPT ![q] = "asked"]
    BY <1>1, PhaseOf, PhaseStep DEF Accept, Progress
  <2>4. Promised!Accept(q)
    BY <1>1, <2>1, <2>2, <2>3, SameData DEF Promised!Accept, Accept
  <2> QED
    BY <2>4 DEF Promised!Next
<1>2. ASSUME NEW q \in Request, RespondBadRequest(q) PROVE Promised!Next
  <2>1. Phase[q] = "idle" /\ Phase' = Phase
    BY <1>2, PhaseOf DEF RespondBadRequest, Phase
  <2>2. Promised!Decline(q)
    BY <1>2, <2>1 DEF Promised!Decline, RespondBadRequest
  <2> QED
    BY <2>2 DEF Promised!Next
<1>3. ASSUME NEW q \in Request, Die(q) PROVE Promised!Next
  <2>1. Promised!Close(q, 0) /\ q \in Faulty /\ UNCHANGED <<kind, rows>>
    BY <1>3, CloseImplements DEF Die
  <2>2. CASE pc[q] = "publish"
    <3>1. recent' = recent /\ Phase[q] = "stored"
      BY <1>3, <2>2, PhaseOf DEF Die, Inv, TypeOK, SlotInv
    <3>2. Promised!Acknowledge(q)
      BY <2>1, <3>1 DEF Promised!Acknowledge
    <3> QED
      BY <3>2 DEF Promised!Next
  <2>3. CASE pc[q] # "publish"
    <3>1. Phase[q] = "asked"
      BY <1>3, <2>3, PhaseOf DEF Die
    <3>2. Promised!Unchanging(q, 0)
      BY <1>3, <2>1 DEF Promised!Unchanging, Die
    <3>3. Promised!Fail(q)
      BY <2>1, <3>1, <3>2 DEF Promised!Fail
    <3> QED
      BY <3>3 DEF Promised!Next
  <2> QED
    BY <2>2, <2>3
<1>4. ASSUME NEW q \in Request, Step(q) PROVE [Promised!Next]_(Promised!vars)
  <2>1. CASE Answered(q)
    BY <2>1, AnsweredImplements
  <2>2. CASE Moved(q)
    <3>1. PICK where \in {"insert", "write", "remove"}, e \in Row : Proceed(q, where, e)
      BY <2>2, NoRowIsRow DEF Moved
    <3>2. Phase' = Phase
      BY <2>2, <3>1, PhaseStep, PhaseOf DEF Proceed, Moved, Progress
    <3> QED
      BY <3>1, <3>2 DEF Promised!vars, Proceed
  <2>3. CASE Committed(q)
    BY <2>3, CommittedImplements
  <2>4. CASE Published(q)
    <3>1. Phase[q] = "stored" /\ Reply(q, Done(ask[q])) /\ UNCHANGED <<kind, rows, recent>>
      BY <2>4, PhaseOf DEF Published, Publish, At
    <3>2. Promised!Acknowledge(q)
      BY <3>1, CloseImplements, SameData DEF Promised!Acknowledge
    <3> QED
      BY <3>2 DEF Promised!Next
  <2> QED
    BY <1>4, <2>1, <2>2, <2>3, <2>4 DEF Step
<1>5. CASE UNCHANGED vars
  BY <1>5 DEF vars, Promised!vars, Phase
<1> QED
  BY <1>1, <1>2, <1>3, <1>4, <1>5, NextIsStep DEF Next

\* The handlers, with look-up, entity in memory and separate statements, do what
\* the catalogue promises in single steps.
THEOREM Implementation == Spec => ImplementsCatalogue
<1>1. Inv /\ [Next]_vars => [Promised!Next]_(Promised!vars)
  BY StepImplements
<1> QED
  BY InitImplements, <1>1, Invariance, PTL DEF Spec, ImplementsCatalogue, Promised!Spec
=============================================================================
