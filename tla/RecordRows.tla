----------------------------- MODULE RecordRows -----------------------------
(***************************************************************************)
(* The data of the record endpoints, shared by what a client is promised   *)
(* (Catalogue) and what the code does (Records): the rows of one table and *)
(* the requests that address them.                                         *)
(*                                                                         *)
(*   kind          name     text                             flag          *)
(*   role          name     description                      -             *)
(*   permission    name     description, resource, action    -             *)
(*   tenant        slug     name, domain, settings           is_active     *)
(*   todo          title    description                      completed     *)
(*   user          email    name                             is_active     *)
(***************************************************************************)
CONSTANTS
    Request,    \* slots for requests that are being served at once
    Id,         \* row ids
    Name,       \* values of the column that names a row
    Text,       \* values of the other columns
    None,       \* a column or a field that is empty
    Faulty      \* slots whose requests may meet a failing call or die

ASSUME RowAssumption ==
    /\ None \notin Id \cup Name \cup Text
    /\ Faulty \subseteq Request

Kind == {"role", "permission", "tenant", "todo", "user"}

\* "deleted": deleted_at is set; "gone": the row left the table.
Row == [state : {"none", "live", "deleted", "gone"},
        name : Name \cup {None}, text : Text \cup {None}, flag : BOOLEAN]

NoRow == [state |-> "none", name |-> None, text |-> None, flag |-> FALSE]

IsLive(r) == r.state = "live"

\* A field None, or a flag "keep", is a field the body does not have.
Ask == [op : {"get", "create", "update", "delete", "complete"}, id : Id,
        name : Name \cup {None}, text : Text \cup {None}, flag : {"keep", "on", "off"}]

NoAsk == [op |-> "none", id |-> None, name |-> None, text |-> None, flag |-> "keep"]

\* A change is acknowledged with 201 if it made a row.
Done(a) == IF a.op = "create" THEN 201 ELSE 200
=============================================================================
