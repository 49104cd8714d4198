------------------------------- MODULE Paging -------------------------------
(***************************************************************************)
(* Cursor paging of the list endpoints.  A client walks a table page by    *)
(* page and may ask for another page size each time: every page is a query *)
(* of its own for the rows of the request's tenant that are older than the *)
(* cursor, newest first, and in between other requests insert and delete   *)
(* rows, or edit them so that a search finds them or finds them no more.   *)
(* The server keeps nothing of a walk; the cursor is all there is.         *)
(***************************************************************************)
EXTENDS Integers, FiniteSets

CONSTANTS
    Time,           \* values of created_at, which the application stamps
    Id,             \* row ids, in the order Postgres compares uuids
    Asked,          \* page sizes that clients ask for; 0 where they ask for none
    DefaultLimit,   \* the page size when the one asked for is refused
    MaxLimit,       \* the largest page size
    Tenant,
    NoTenant,       \* tenant_id '', and a request without a tenant
    TenantOf,       \* tenant_id of every row: no statement changes it
    NoRow,          \* a key that is free, or whose row has been deleted
    NoCursor

Key == Time \X Id

\* Whether a search for the walk's term finds the row: what its text is good for.
Row == BOOLEAN

List == {"todos", "search", "users", "roles", "permissions", "tenants"}

ASSUME PagingConstants ==
    /\ Time \subseteq Int
    /\ Id \subseteq Int
    /\ Asked \subseteq Int
    /\ DefaultLimit \in Nat \ {0}
    /\ MaxLimit \in Nat
    /\ NoTenant \notin Tenant
    /\ TenantOf \in [Key -> Tenant \cup {NoTenant}]
    /\ NoRow \notin Row
    /\ NoCursor \notin Key

VARIABLES
    table,      \* the rows of the table that the walk is about
    walk,       \* which list the client walks, and under which tenant
    phase,      \* of the walk: "start", "walking" or "done" (has_next was false)
    cursor,     \* next_cursor of the last page that had rows
    got,        \* rows the walk has returned
    (* History variables.                                                    *)
    steady,     \* rows that were visible all the time since the first page
    repeated    \* rows that were returned by two pages

vars == <<table, walk, phase, cursor, got, steady, repeated>>

-----------------------------------------------------------------------------

\* tenants: deleted rows are gone, and there is no tenant to filter by.
Live == {k \in Key : table[k] # NoRow}

\* AND tenant_id = $1, if the filter is on and the request has a tenant.
OfTenant(k) == walk.tenant = NoTenant \/ TenantOf[k] = walk.tenant

\* WHERE deleted_at IS NULL, and the tenant.
Listed == {k \in Live : OfTenant(k)}

\* AND (title ILIKE $1 OR description ILIKE $1).
Found == {k \in Listed : table[k]}

\* The rows that the WHERE clause accepts, cursor aside.
visible ==
    IF walk.list = "tenants" THEN Live ELSE IF walk.list = "search" THEN Found ELSE Listed

\* ?limit: what is out of range, or no number, is as if it were not there.
PageSize(asked) == IF asked \in 1..MaxLimit THEN asked ELSE DefaultLimit

\* (created_at, id) < ($1, $2): row values compare like words.
Older(k, l) == k[1] < l[1] \/ (k[1] = l[1] /\ k[2] < l[2])

Newer(k, S) == {r \in S : Older(k, r)}

\* Mutant of Beyond: the row of the cursor is served again.
BeyondOrAt(c, S) == IF c = NoCursor THEN S ELSE {r \in S : Older(r, c) \/ r = c}

\* Mutant of Beyond: rows of the same moment are taken for seen.
BeyondTime(c, S) == IF c = NoCursor THEN S ELSE {r \in S : r[1] < c[1]}

\* Mutant of Beyond: rows of the same moment are kept, seen or not.
BeyondSince(c, S) == IF c = NoCursor THEN S ELSE {r \in S : r[1] <= c[1]}

\* The rows that the WHERE clause leaves for a page.
Beyond(c, S) == IF c = NoCursor THEN S ELSE {r \in S : Older(r, c)}

\* ORDER BY created_at DESC, id DESC LIMIT n.
Top(S, n) == {r \in S : Cardinality(Newer(r, S)) < n}

\* The last row of a page.
IsLast(k, S) == k \in S /\ \A r \in S : r = k \/ Older(k, r)

\* A client may start to walk any table.
Init ==
    /\ table \in [Key -> Row \cup {NoRow}]
    /\ IsFiniteSet(Live)
    /\ walk \in [list : List, tenant : Tenant \cup {NoTenant}]
    /\ phase = "start"
    /\ cursor = NoCursor
    /\ got = {}
    /\ steady = {}
    /\ repeated = {}

\* Mutant of Page: the query asks for no row more than the page shows.
PageOfLimit(c, n) ==
    LET found == Top(Beyond(c, visible), n) IN
    /\ got' = got \cup found
    /\ repeated' = repeated \cup (got \cap found)
    /\ phase' = IF Cardinality(found) > n THEN "walking" ELSE "done"
    /\ \/ \E k \in found : IsLast(k, found) /\ cursor' = k
       \/ found = {} /\ UNCHANGED cursor

\* Mutant of Page: next_cursor is set where it is not needed, and only there.
PageWithoutCursor(c, n) ==
    LET found == Top(Beyond(c, visible), n + 1)
        shown == Top(Beyond(c, visible), n) IN
    /\ got' = got \cup shown
    /\ repeated' = repeated \cup (got \cap shown)
    /\ phase' = IF Cardinality(found) > n THEN "walking" ELSE "done"
    /\ \/ \E k \in shown : IsLast(k, shown) /\ cursor' = k /\ phase' = "done"
       \/ phase' = "walking" /\ UNCHANGED cursor
       \/ shown = {} /\ UNCHANGED cursor

\* The repositories' GetAll, List and Search: one row more than the page shows
\* tells whether there is a next page.
Page(c, n) ==
    LET found == Top(Beyond(c, visible), n + 1)
        shown == Top(Beyond(c, visible), n) IN
    /\ got' = got \cup shown
    /\ repeated' = repeated \cup (got \cap shown)
    /\ phase' = IF Cardinality(found) > n THEN "walking" ELSE "done"
    /\ \/ \E k \in shown : IsLast(k, shown) /\ cursor' = k
       \/ shown = {} /\ UNCHANGED cursor

\* ?cursor: the first request has none, the others send what the last one got.
Request(list, asked) ==
    /\ walk.list = list
    /\ phase # "done"
    /\ Page(cursor, PageSize(asked))
    /\ steady' = IF phase = "start" THEN visible ELSE steady
    /\ UNCHANGED <<table, walk>>

ListTodos(asked) == Request("todos", asked)
SearchTodos(asked) == Request("search", asked)
ListUsers(asked) == Request("users", asked)
ListRoles(asked) == Request("roles", asked)
ListPermissions(asked) == Request("permissions", asked)
ListTenants(asked) == Request("tenants", asked)

\* What another request does to a row.
Change(k, row) ==
    /\ table' = [table EXCEPT ![k] = row]
    /\ UNCHANGED <<walk, phase, cursor, got, repeated>>
    /\ steady' = steady \cap visible'

\* A row is inserted, at any place in the order: the clock is the application's,
\* the insert comes later.  No INSERT names tenant_id.
Insert(k, hit) == table[k] = NoRow /\ TenantOf[k] = NoTenant /\ Change(k, hit)

\* An edit makes a search find the row, or find it no more.
Edit(k, hit) == table[k] # NoRow /\ Change(k, hit)

\* deleted_at is set, or the row of a tenant is gone.
Delete(k) == table[k] # NoRow /\ Change(k, NoRow)

Ask ==
    \E asked \in Asked :
        \/ ListTodos(asked) \/ SearchTodos(asked) \/ ListUsers(asked)
        \/ ListRoles(asked) \/ ListPermissions(asked) \/ ListTenants(asked)

Next ==
    \/ Ask
    \/ \E k \in Key : Delete(k) \/ \E hit \in Row : Insert(k, hit) \/ Edit(k, hit)

Spec == Init /\ [][Next]_vars

\* The client goes on asking.
FairSpec == Spec /\ WF_vars(Ask)

-----------------------------------------------------------------------------
(* Properties.                                                             *)

\* Rows and cursor have their types, and the walk has a cursor for its next page.
TypeOK ==
    /\ table \in [Key -> Row \cup {NoRow}] /\ IsFiniteSet(Live)
    /\ walk \in [list : List, tenant : Tenant \cup {NoTenant}]
    /\ phase \in {"start", "walking", "done"}
    /\ cursor \in Key \cup {NoCursor}
    /\ got \subseteq Key
    /\ steady \subseteq visible
    /\ repeated \subseteq Key
    /\ phase = "walking" => cursor # NoCursor

\* No row is returned by two pages of a walk, whatever is inserted, deleted or
\* edited between them (the repositories' keyset comparison).
NoRowTwice == repeated = {}

\* A row that was there all the time is returned by the time has_next is false.
NothingSkipped == phase = "done" => steady \subseteq got

\* Each page goes on where the last one stopped: rows that were there all the
\* time are behind the cursor exactly if they have been returned.
WalkIsInOrder ==
    cursor # NoCursor =>
        /\ \A r \in got : ~Older(r, cursor)
        /\ \A r \in steady : r \in got \/ Older(r, cursor)

\* A walk comes to its end however busy the table is.
WalkEnds == <>(phase = "done")
=============================================================================
