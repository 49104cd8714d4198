----------------------------- MODULE Catalogue -----------------------------
(***************************************************************************)
(* What a client of the record endpoints (roles, permissions, tenants,     *)
(* todos, users) may rely on: a request takes effect in one step or not at *)
(* all, builds on a version its row had while the request was served, and  *)
(* is refused only for a reason that held in that time.  There is no       *)
(* look-up, no entity in memory and no error value here; Records, which    *)
(* has them, implements this specification.                                *)
(***************************************************************************)
EXTENDS RecordRows, Naturals

VARIABLES
    kind,       \* the table this behaviour is about
    rows,       \* the table
    phase,      \* "idle", "asked", or "stored": done, but not yet answered
    ask,        \* the request of each slot
    answer,     \* the last status each slot was answered with, 0 for none
    recent      \* the versions the addressed row has had since the request

vars == <<kind, rows, phase, ask, answer, recent>>

Init ==
    /\ kind \in Kind
    /\ rows = [i \in Id |-> NoRow]
    /\ phase = [q \in Request |-> "idle"]
    /\ ask = [q \in Request |-> NoAsk]
    /\ answer = [q \in Request |-> 0]
    /\ recent = [q \in Request |-> {}]

\* Rows that keep a name from being used: a soft-deleted row does, for ever.
Holders(n) ==
    {i \in Id : kind # "todo" /\ rows[i].state \in {"live", "deleted"} /\ rows[i].name = n}

\* Fields that were sent replace the old ones.
Merged(r, a) ==
    [r EXCEPT !.name = IF a.name = None THEN @ ELSE a.name,
              !.text = IF a.text = None THEN @ ELSE a.text,
              !.flag = IF a.flag = "keep" THEN @ ELSE a.flag = "on"]

-----------------------------------------------------------------------------

Accept(q) ==
    /\ phase[q] = "idle"
    /\ \E a \in Ask :
        /\ a.op = "create" => rows[a.id] = NoRow
        /\ ask' = [ask EXCEPT ![q] = a]
        /\ recent' = [recent EXCEPT ![q] = {rows[a.id]}]
    /\ phase' = [phase EXCEPT ![q] = "asked"]
    /\ answer' = [answer EXCEPT ![q] = 0]
    /\ UNCHANGED <<kind, rows>>

\* A request that does not parse is answered at once.
Decline(q) ==
    /\ phase[q] = "idle"
    /\ answer' = [answer EXCEPT ![q] = 400]
    /\ UNCHANGED <<kind, rows, phase, ask, recent>>

\* The slot is answered s and free again.
Close(q, s) ==
    /\ phase' = [phase EXCEPT ![q] = "idle"]
    /\ ask' = [ask EXCEPT ![q] = NoAsk]
    /\ answer' = [answer EXCEPT ![q] = s]

\* The addressed row becomes r, and every other request on it may see that.
\* Only a request that may fail can leave its client without the true answer.
Take(q, r) ==
    /\ phase[q] = "asked"
    /\ rows' = [rows EXCEPT ![ask[q].id] = r]
    /\ recent' = [p \in Request |->
          IF p = q THEN {}
          ELSE IF phase[p] = "asked" /\ ask[p].id = ask[q].id THEN recent[p] \cup {r}
          ELSE recent[p]]
    /\ \/ Close(q, Done(ask[q]))
       \/ kind = "todo" /\ phase' = [phase EXCEPT ![q] = "stored"] /\ UNCHANGED <<ask, answer>>
       \/ q \in Faulty /\ \E s \in {0, 500} : Close(q, s)
    /\ UNCHANGED kind

\* A new row with what was sent, under a name no row holds.
Create(q) ==
    /\ ask[q].op = "create"
    /\ rows[ask[q].id] = NoRow
    /\ Holders(ask[q].name) = {}
    /\ Take(q, [state |-> "live", name |-> ask[q].name, text |-> ask[q].text,
                flag |-> kind = "tenant" \/ ask[q].flag = "on"])

\* A live row stays live and gets what was sent; the rest is that of a version
\* the row has had since the request.  Completing is done of a todo once.
Change(q) ==
    /\ ask[q].op \in {"update", "complete"} \/ (ask[q].op = "delete" /\ kind = "user")
    /\ IsLive(rows[ask[q].id])
    /\ \E v \in recent[q] :
        /\ IsLive(v)
        /\ ask[q].op = "complete" => ~v.flag
        /\ Holders(Merged(v, ask[q]).name) \subseteq {ask[q].id}
        /\ Take(q, Merged(v, ask[q]))

\* One request alone takes a row from live to deleted.
Remove(q) ==
    /\ ask[q].op = "delete" /\ kind # "user"
    /\ IsLive(rows[ask[q].id])
    /\ Take(q, [rows[ask[q].id] EXCEPT !.state = IF kind = "tenant" THEN "gone" ELSE "deleted"])

\* The stored change is acknowledged, unless the process died.
Acknowledge(q) ==
    /\ phase[q] = "stored"
    /\ Close(q, Done(ask[q])) \/ (q \in Faulty /\ Close(q, 0))
    /\ UNCHANGED <<kind, rows, recent>>

Unchanging(q, s) ==
    /\ Close(q, s)
    /\ recent' = [recent EXCEPT ![q] = {}]
    /\ UNCHANGED <<kind, rows>>

Report(q) ==
    /\ phase[q] = "asked"
    /\ ask[q].op = "get"
    /\ IsLive(rows[ask[q].id])
    /\ Unchanging(q, 200)

\* 409 is said of a name that is taken and of a todo that is completed.
Conflict(q) ==
    /\ phase[q] = "asked"
    /\ \/ ask[q].op = "create" /\ Holders(ask[q].name) # {}
       \/ ask[q].op = "complete" /\ rows[ask[q].id].flag
    /\ Unchanging(q, 409)

\* 404 is said of a missing row, though never of a role or a permission.
NotFound(q) ==
    /\ phase[q] = "asked"
    /\ ask[q].op # "create"
    /\ kind \notin {"role", "permission"}
    /\ ~IsLive(rows[ask[q].id])
    /\ Unchanging(q, 404)

\* 500 without a failing call: a missing role or permission, a name another row
\* holds, or a row that changed while the request was served.
Blunder(q) ==
    /\ phase[q] = "asked"
    /\ \/ kind \in {"role", "permission"} /\ ask[q].op # "create" /\ ~IsLive(rows[ask[q].id])
       \/ ask[q].op \in {"create", "update"} /\ Holders(ask[q].name) \ {ask[q].id} # {}
       \/ \E v \in recent[q] : v # rows[ask[q].id]
    /\ Unchanging(q, 500)

\* A failing call may pass for an absent row; the client of a process that dies
\* gets no answer.
Fail(q) ==
    /\ q \in Faulty /\ phase[q] = "asked"
    /\ \E s \in {0, 404, 500} : Unchanging(q, s)

Next ==
    \E q \in Request :
        \/ Accept(q) \/ Decline(q) \/ Create(q) \/ Change(q) \/ Remove(q) \/ Acknowledge(q)
        \/ Report(q) \/ Conflict(q) \/ NotFound(q) \/ Blunder(q) \/ Fail(q)

Spec == Init /\ [][Next]_vars
=============================================================================
