---------------------------- MODULE AtomicAccount ----------------------------
(***************************************************************************)
(* What the owner of an account may rely on: a request takes effect in one *)
(* step or not at all, and in that step it is judged by the account as it  *)
(* is and changes what it is about alone.  There is no entity in memory    *)
(* here.  Account, where a request reads the row, changes the entity and   *)
(* writes it back, implements this specification but for the writes of     *)
(* requests that another has overtaken.                                    *)
(***************************************************************************)
EXTENDS Naturals

CONSTANTS Code, MaxLoginAttempts, MaxHash, MaxLock

VARIABLES
    row,        \* the account
    codes,      \* what each mail token is good for, "none" if it is not out
    passed      \* locks up to this one have run out

vars == <<row, codes, passed>>

Absent == [exists |-> FALSE, email |-> "first", active |-> FALSE, verified |-> FALSE,
           hash |-> 0, attempts |-> 0, lock |-> 0]

Opened == [Absent EXCEPT !.exists = TRUE, !.active = TRUE, !.hash = 1]

Init ==
    /\ row \in {Absent, Opened, [Opened EXCEPT !.verified = TRUE]}
    /\ codes = [c \in Code |-> "none"]
    /\ passed = 0

Change(r) == row' = r /\ UNCHANGED <<codes, passed>>

Register == ~row.exists /\ Change(Opened)

\* The administration opens an account nobody has a password for.
Add(b) == ~row.exists /\ Change([Absent EXCEPT !.exists = TRUE, !.active = b])

\* Who may try a password: nobody while a lock is in force.
MayTry == row.exists /\ row.active /\ row.verified /\ row.lock <= passed

LogIn == MayTry /\ Change([row EXCEPT !.attempts = 0, !.lock = 0])

Mistake ==
    /\ MayTry
    /\ row.attempts + 1 < MaxLoginAttempts
    /\ Change([row EXCEPT !.attempts = @ + 1])

\* The last mistake counts twice and begins a lock that was never there before.
LockOut ==
    /\ MayTry
    /\ row.attempts + 1 >= MaxLoginAttempts
    /\ \E n \in 1..MaxLock :
        n > row.lock /\ Change([row EXCEPT !.attempts = @ + 2, !.lock = n])

\* A new mail token changes nothing else.
Issue(c, k) ==
    /\ row.exists
    /\ codes[c] = "none"
    /\ k = "verify" => ~row.verified
    /\ codes' = [codes EXCEPT ![c] = k]
    /\ UNCHANGED <<row, passed>>

Verify(c) ==
    /\ row.exists
    /\ codes[c] = "verify"
    /\ Change([row EXCEPT !.verified = TRUE])

\* The new password is not the old one.
Reset(c) ==
    /\ row.exists
    /\ codes[c] = "reset"
    /\ \E h \in 1..MaxHash : h > row.hash /\ Change([row EXCEPT !.hash = h])

Administer(b, e) == row.exists /\ Change([row EXCEPT !.active = b, !.email = e])

LockRunsOut ==
    /\ passed' = passed + 1
    /\ UNCHANGED <<row, codes>>

Next ==
    \/ Register
    \/ LogIn
    \/ Mistake
    \/ LockOut
    \/ \E c \in Code, k \in {"verify", "reset"} : Issue(c, k)
    \/ \E c \in Code : Verify(c) \/ Reset(c)
    \/ \E b \in BOOLEAN : Add(b) \/ (\E e \in {"first", "second"} : Administer(b, e))
    \/ LockRunsOut

Spec == Init /\ [][Next]_vars
=============================================================================
