------------------------------ MODULE Account ------------------------------
(***************************************************************************)
(* One account of the authentication module: its rows in users,            *)
(* user_credentials, user_security and user_tokens, and the requests that  *)
(* read an entity, change it in memory and write it back.  Every repository *)
(* call is a step; userRepo.Update writes all columns from the entity, so   *)
(* what another request wrote since the read is overwritten.  The user     *)
(* module writes users.email and users.is_active; other accounts matter    *)
(* only by holding the address the account began with, which is unique.    *)
(***************************************************************************)
EXTENDS Naturals

CONSTANTS
    Request,          \* slots for requests that are being served at once
    Code,             \* mail tokens; generateToken picks an unused one
    NoCode,
    MaxLoginAttempts, \* 5 in the code
    MaxHash,          \* bound: the first password and those set by resets
    MaxLock,          \* bound: calls of User.Lock
    Faults,           \* TRUE: a repository call may fail, a request may die
    Traffic           \* the kinds of request and event that occur

Kinds == {"register", "login", "forgot", "resend", "verify", "reset", "admin", "time"}

ASSUME AccountConstants ==
    /\ NoCode \notin Code
    /\ MaxLoginAttempts \in Nat \ {0}
    /\ MaxHash \in Nat \ {0}
    /\ MaxLock \in Nat
    /\ Faults \in BOOLEAN
    /\ Traffic \subseteq Kinds

VARIABLES
    row,        \* the account's columns
    taken,      \* another row of users holds the address
    codes,      \* user_tokens: the kind each code was issued for, or "none"
    lapsed,     \* codes whose expires_at has passed
    locks,      \* User.Lock calls so far; a lock is named by its number
    passed,     \* locks up to this one have run out
    pc,         \* the next repository call of each request
    seen,       \* the entity as the request has changed it in memory
    code,       \* the mail token the request was called with
    (* History variables.                                                    *)
    fresh,      \* requests whose entity was read from the row as it is now
    promised,   \* what the last request to set it has set: the address verified, the
                \* password, is_active, email; after an overtaken write what that left
    fails,      \* wrong passwords answered since the last login, lock, overtaken
                \* write or write that failed silently, up to MaxLoginAttempts
    uses,       \* successful resets per code, up to two
    sighted,    \* registrations that found the address free, not taken by anyone since
    blundered   \* one of them was answered with 500

requestVars == <<pc, seen, code>>
historyVars == <<fresh, promised, fails, uses, sighted, blundered>>
vars == <<row, taken, codes, lapsed, locks, passed, requestVars, historyVars>>

-----------------------------------------------------------------------------

SmallerOf(m, n) == IF m <= n THEN m ELSE n

Email == {"first", "second"}   \* the address the module is about, and another

\* Hash 0 is the empty one, which no password matches.
Row == [exists : BOOLEAN, email : Email, active : BOOLEAN, verified : BOOLEAN,
        hash : 0..MaxHash, attempts : Nat, lock : 0..MaxLock]

NoRow == [exists |-> FALSE, email |-> "first", active |-> FALSE, verified |-> FALSE,
          hash |-> 0, attempts |-> 0, lock |-> 0]

\* entity.NewUser.
NewUser == [NoRow EXCEPT !.exists = TRUE, !.active = TRUE, !.hash = 1]

\* The columns somebody is promised something about.
Promise == [email : Email, active : BOOLEAN, verified : BOOLEAN, hash : 0..MaxHash]

Told(r) == [email |-> r.email, active |-> r.active, verified |-> r.verified,
            hash |-> r.hash]

\* The row the user module inserts: no credentials.
AddedUser(b) == [NoRow EXCEPT !.exists = TRUE, !.active = b]

\* users.email is unique: some row holds the address.
Held == taken \/ (row.exists /\ row.email = "first")

\* entity.User.IsLocked.
IsLocked(r) == r.lock > passed

\* Mutant of Unlock: one attempt is forgiven instead of all.
UnlockOne(r) == [r EXCEPT !.attempts = @ - 1, !.lock = 0]

\* entity.User.Unlock.
Unlock(r) == [r EXCEPT !.attempts = 0, !.lock = 0]

\* entity.User.Lock counts one more attempt.
Lock(r) == [r EXCEPT !.attempts = @ + 1, !.lock = locks + 1]

\* FailedLoginAttempts++ in the login handler.
CountFailure(r) == [r EXCEPT !.attempts = @ + 1]

Init ==
    /\ row \in {NoRow, NewUser, [NewUser EXCEPT !.verified = TRUE]}
    /\ taken = FALSE
    /\ codes = [c \in Code |-> "none"]
    /\ lapsed = {}
    /\ locks = 0 /\ passed = 0
    /\ pc = [q \in Request |-> "idle"]
    /\ seen = [q \in Request |-> NoRow]
    /\ code = [q \in Request |-> NoCode]
    /\ fresh = {}
    /\ promised = Told(row)
    /\ fails = 0
    /\ uses = [c \in Code |-> 0]
    /\ sighted = {}
    /\ blundered = FALSE

\* A request reads the account and goes on to step l with the entity r.
Read(q, l, r, c) ==
    /\ pc[q] = "idle"
    /\ row.exists
    /\ pc' = [pc EXCEPT ![q] = l]
    /\ seen' = [seen EXCEPT ![q] = r]
    /\ code' = [code EXCEPT ![q] = c]
    /\ fresh' = fresh \cup {q}
    /\ UNCHANGED <<row, taken, codes, lapsed, passed>>
    /\ UNCHANGED <<promised, fails, uses, sighted, blundered>>

\* The response is sent.
Finish(q) ==
    /\ pc' = [pc EXCEPT ![q] = "idle"]
    /\ seen' = [seen EXCEPT ![q] = NoRow]
    /\ code' = [code EXCEPT ![q] = NoCode]

\* The entity's e-mail violates the unique constraint.
Clash(q) == seen[q].email = "first" /\ taken

\* The row's e-mail becomes e: if the address was free it is taken.
Moves(e) == sighted' = IF ~Held /\ e = "first" THEN {} ELSE sighted

\* userRepository.Update, and the end of the request, which has set what t says and
\* makes n wrong passwords.
Update(q, t, n) ==
    /\ ~Clash(q)
    /\ Finish(q)
    /\ row' = seen[q]
    /\ fresh' = {}
    /\ promised' = IF q \in fresh THEN t ELSE Told(seen[q])
    /\ fails' = IF q \in fresh THEN n ELSE 0
    /\ Moves(seen[q].email)
    /\ UNCHANGED taken

\* The same, with an insert into user_tokens in the transaction.
UpdateWithCode(q, kind) ==
    /\ Update(q, promised, fails)
    /\ \E c \in {n \in Code : codes[n] = "none"} : codes' = [codes EXCEPT ![c] = kind]

-----------------------------------------------------------------------------
(* POST /auth/register.                                                    *)

\* Mutant of RegisterRead: what was found is not looked at.
RegisterUnasked(q) ==
    /\ "register" \in Traffic
    /\ pc[q] = "idle"
    /\ pc' = [pc EXCEPT ![q] = "create"]
    /\ sighted' = sighted \cup {q}
    /\ UNCHANGED <<row, taken, codes, lapsed, locks, passed, seen, code>>
    /\ UNCHANGED <<fresh, promised, fails, uses, blundered>>

\* An address that GetByEmail finds is answered with 409 and nothing changes.  The
\* error of GetByEmail is dropped: a look-up that fails finds nothing.
RegisterRead(q) ==
    /\ "register" \in Traffic
    /\ pc[q] = "idle"
    /\ \/ ~Held /\ sighted' = sighted \cup {q}
       \/ Faults /\ UNCHANGED sighted
    /\ pc' = [pc EXCEPT ![q] = "create"]
    /\ UNCHANGED <<row, taken, codes, lapsed, locks, passed, seen, code>>
    /\ UNCHANGED <<fresh, promised, fails, uses, blundered>>

\* Create inserts the account.
RegisterCreate(q) ==
    /\ pc[q] = "create"
    /\ ~Held /\ ~row.exists
    /\ row' = NewUser
    /\ pc' = [pc EXCEPT ![q] = "register_write"]
    /\ seen' = [seen EXCEPT ![q] = NewUser]
    /\ fresh' = {q}
    /\ promised' = Told(NewUser)
    /\ sighted' = {}
    /\ UNCHANGED <<taken, codes, lapsed, locks, passed, code, fails, uses, blundered>>

\* The account has moved to another e-mail: what registers is another account, and
\* the rest of the request is about that.
RegisterAnother(q) ==
    /\ pc[q] = "create"
    /\ ~Held /\ row.exists
    /\ taken' = TRUE
    /\ Finish(q)
    /\ sighted' = {}
    /\ UNCHANGED <<row, codes, lapsed, locks, passed, fresh, promised, fails, uses, blundered>>

\* A unique violation is answered with 500.
RegisterClash(q) ==
    /\ pc[q] = "create"
    /\ Held
    /\ Finish(q)
    /\ sighted' = sighted \ {q}
    /\ blundered' = (blundered \/ q \in sighted)
    /\ UNCHANGED <<row, taken, codes, lapsed, locks, passed, fresh, promised, fails, uses>>

\* The Update that stores the verification token, in a transaction of its own.
RegisterWrite(q) ==
    /\ pc[q] = "register_write"
    /\ UpdateWithCode(q, "verify")
    /\ UNCHANGED <<lapsed, locks, passed, uses, blundered>>

-----------------------------------------------------------------------------
(* POST /auth/login: LoginQuery.                                           *)

\* Mutant of MayTry: a lock does not stop a login.
MayTryLocked(r) == r.active /\ r.verified

MayTry(r) == r.active /\ ~IsLocked(r) /\ r.verified

\* g stands for the password sent: it matches the hash it equals, if there is one.
Matches(g) == g = row.hash /\ g # 0

LoginRight(q, g) ==
    /\ "login" \in Traffic
    /\ MayTry(row)
    /\ Matches(g)
    /\ Read(q, "login_right", Unlock(row), NoCode)
    /\ UNCHANGED locks

LoginWrong(q, g) ==
    /\ "login" \in Traffic
    /\ MayTry(row)
    /\ ~Matches(g)
    /\ row.attempts + 1 < MaxLoginAttempts
    /\ Read(q, "login_wrong", CountFailure(row), NoCode)
    /\ UNCHANGED locks

\* The attempt that locks the account.
LoginLock(q, g) ==
    /\ "login" \in Traffic
    /\ MayTry(row)
    /\ ~Matches(g)
    /\ row.attempts + 1 >= MaxLoginAttempts
    /\ locks < MaxLock
    /\ Read(q, "login_lock", Lock(CountFailure(row)), NoCode)
    /\ locks' = locks + 1

LoginSteps == {"login_right", "login_wrong", "login_lock"}

\* The handler answers the same whether Update succeeds or not.
LoginWrite(q) ==
    /\ pc[q] \in LoginSteps
    /\ \/ Update(q, promised, IF pc[q] = "login_wrong"
                             THEN SmallerOf(fails + 1, MaxLoginAttempts) ELSE 0)
       \/ /\ Faults \/ Clash(q)
          /\ Finish(q)
          /\ fresh' = fresh \ {q}
          /\ fails' = 0
          /\ UNCHANGED <<row, taken, promised, sighted>>
    /\ UNCHANGED <<codes, lapsed, locks, passed, uses, blundered>>

-----------------------------------------------------------------------------
(* The requests around mail tokens.                                        *)

ForgotRead(q) ==
    /\ "forgot" \in Traffic
    /\ Read(q, "forgot_write", row, NoCode)
    /\ UNCHANGED locks

ForgotWrite(q) ==
    /\ pc[q] = "forgot_write"
    /\ UpdateWithCode(q, "reset")
    /\ UNCHANGED <<lapsed, locks, passed, uses, blundered>>

\* An address that is verified already gets no new code.
ResendRead(q) ==
    /\ "resend" \in Traffic
    /\ ~row.verified
    /\ Read(q, "resend_write", row, NoCode)
    /\ UNCHANGED locks

ResendWrite(q) ==
    /\ pc[q] = "resend_write"
    /\ UpdateWithCode(q, "verify")
    /\ UNCHANGED <<lapsed, locks, passed, uses, blundered>>

\* Mutant of VerifyRead: the flag is not set.
VerifyNothing(q, c) ==
    /\ "verify" \in Traffic
    /\ codes[c] = "verify" /\ c \notin lapsed
    /\ Read(q, "verify_write", row, c)
    /\ UNCHANGED locks

\* GetByVerifyToken: not consumed, not expired.
VerifyRead(q, c) ==
    /\ "verify" \in Traffic
    /\ codes[c] = "verify" /\ c \notin lapsed
    /\ Read(q, "verify_write", [row EXCEPT !.verified = TRUE], c)
    /\ UNCHANGED locks

\* Nothing marks the code as consumed.
VerifyWrite(q) ==
    /\ pc[q] = "verify_write"
    /\ Update(q, [promised EXCEPT !.verified = TRUE], fails)
    /\ UNCHANGED <<codes, lapsed, locks, passed, uses, blundered>>

\* GetByResetToken; bcrypt makes a hash nobody has seen.
ResetRead(q, c) ==
    /\ "reset" \in Traffic
    /\ codes[c] = "reset" /\ c \notin lapsed
    /\ \E h \in 1..MaxHash :
        /\ \A o \in Request : seen[o].hash < h
        /\ row.hash < h
        /\ Read(q, "reset_write", [row EXCEPT !.hash = h], c)
    /\ UNCHANGED locks

ResetWrite(q) ==
    /\ pc[q] = "reset_write"
    /\ Update(q, [promised EXCEPT !.hash = seen[q].hash], fails)
    /\ uses' = [uses EXCEPT ![code[q]] = SmallerOf(@ + 1, 2)]
    /\ UNCHANGED <<codes, lapsed, locks, passed, blundered>>

-----------------------------------------------------------------------------
(* Administration, time and failures.                                      *)

\* POST /users, in one statement; an address that is held is a conflict.
CreateUser(q, b) ==
    /\ "admin" \in Traffic
    /\ pc[q] = "idle"
    /\ ~Held /\ ~row.exists
    /\ row' = AddedUser(b)
    /\ promised' = Told(AddedUser(b))
    /\ Moves("first")
    /\ UNCHANGED <<taken, codes, lapsed, locks, passed, requestVars>>
    /\ UNCHANGED <<fresh, fails, uses, blundered>>

\* PUT /users/{id} reads the account and sets is_active and, if one was sent, email.
UpdateUser(q, b, e) ==
    /\ "admin" \in Traffic
    /\ Read(q, "update_user", [row EXCEPT !.active = b, !.email = e], NoCode)
    /\ UNCHANGED locks

\* DELETE /users/{id} reads the account; the deletion it notes is never stored.
DeleteUser(q) ==
    /\ "admin" \in Traffic
    /\ Read(q, "delete_user", row, NoCode)
    /\ UNCHANGED locks

\* The user module's Update writes email and is_active alone.  From an outdated
\* entity it may put either back.
WriteUser(q) ==
    /\ pc[q] \in {"update_user", "delete_user"}
    /\ ~Clash(q)
    /\ Finish(q)
    /\ row' = [row EXCEPT !.email = seen[q].email, !.active = seen[q].active]
    /\ fresh' = {}
    /\ promised' = IF pc[q] = "delete_user" /\ q \in fresh THEN promised
                   ELSE [promised EXCEPT !.email = seen[q].email, !.active = seen[q].active]
    /\ Moves(seen[q].email)
    /\ UNCHANGED <<taken, codes, lapsed, locks, passed, fails, uses, blundered>>

\* Another account comes to the address or leaves it, by any writer of users.email.
OthersMove ==
    /\ "admin" \in Traffic
    /\ \/ ~Held /\ taken' = TRUE /\ Moves("first")
       \/ taken /\ taken' = FALSE /\ UNCHANGED sighted
    /\ UNCHANGED <<row, codes, lapsed, locks, passed, requestVars>>
    /\ UNCHANGED <<fresh, promised, fails, uses, blundered>>

\* Locks were set one after the other and run out in that order.
LockRunsOut ==
    /\ "time" \in Traffic
    /\ passed < locks
    /\ passed' = passed + 1
    /\ UNCHANGED <<row, taken, codes, lapsed, locks, requestVars, historyVars>>

CodeLapses(c) ==
    /\ "time" \in Traffic
    /\ codes[c] # "none"
    /\ lapsed' = lapsed \cup {c}
    /\ UNCHANGED <<row, taken, codes, locks, passed, requestVars, historyVars>>

\* The request fails, times out or dies with its process; or its Update violates the
\* unique constraint, which all but a login are told of.
Abort(q) ==
    /\ pc[q] # "idle"
    /\ Faults \/ (pc[q] \notin LoginSteps \cup {"create"} /\ Clash(q))
    /\ Finish(q)
    /\ fresh' = fresh \ {q}
    /\ sighted' = sighted \ {q}
    /\ UNCHANGED <<row, taken, codes, lapsed, locks, passed, promised, fails, uses, blundered>>

Step(q) ==
    \/ RegisterRead(q)
    \/ RegisterCreate(q)
    \/ RegisterAnother(q)
    \/ RegisterClash(q)
    \/ RegisterWrite(q)
    \/ \E g \in 0..MaxHash : LoginRight(q, g) \/ LoginWrong(q, g) \/ LoginLock(q, g)
    \/ LoginWrite(q)
    \/ ForgotRead(q)
    \/ ForgotWrite(q)
    \/ ResendRead(q)
    \/ ResendWrite(q)
    \/ \E c \in Code : VerifyRead(q, c) \/ ResetRead(q, c)
    \/ VerifyWrite(q)
    \/ ResetWrite(q)
    \/ \E b \in BOOLEAN : CreateUser(q, b) \/ (\E e \in Email : UpdateUser(q, b, e))
    \/ DeleteUser(q)
    \/ WriteUser(q)
    \/ Abort(q)

Next ==
    \/ \E q \in Request : Step(q)
    \/ OthersMove
    \/ LockRunsOut
    \/ \E c \in Code : CodeLapses(c)

Spec == Init /\ [][Next]_vars

-----------------------------------------------------------------------------
(* Properties.                                                             *)

Steps == {"idle", "create", "register_write", "login_right", "login_wrong",
          "login_lock", "forgot_write", "resend_write", "verify_write", "reset_write",
          "update_user", "delete_user"}

DatabaseOK ==
    /\ row \in Row
    /\ taken \in BOOLEAN
    /\ codes \in [Code -> {"none", "verify", "reset"}]
    /\ lapsed \subseteq Code
    /\ locks \in 0..MaxLock
    /\ passed \in 0..locks

RequestsOK ==
    /\ pc \in [Request -> Steps]
    /\ seen \in [Request -> Row]
    /\ code \in [Request -> Code \cup {NoCode}]
    /\ \A q \in Request :
        /\ pc[q] \notin {"idle", "create"} => seen[q].exists /\ row.exists
        /\ pc[q] = "reset_write" => code[q] \in Code
    /\ fresh \subseteq Request

HistoryOK ==
    /\ promised \in Promise
    /\ fails \in 0..MaxLoginAttempts
    /\ uses \in [Code -> 0..2]
    /\ sighted \subseteq Request
    /\ blundered \in BOOLEAN

\* Columns, codes and requests have their types; a request past its read holds
\* an entity of an existing account, and a reset knows its code.
TypeOK == DatabaseOK /\ RequestsOK /\ HistoryOK

\* A verified address stays verified ("Set email_verified=true", email design).
EmailStaysVerified == promised.verified => row.verified

\* The password is the one stored by the last reset that succeeded ("Hash new
\* password, update user", email design).
PasswordIsLatest == row.exists => row.hash = promised.hash

\* An account is active exactly if the administration says so: no request of the
\* user's own brings a disabled account back.
DisabledStaysDisabled == row.exists => row.active = promised.active

\* The account has the e-mail the administration last gave it.
EmailIsLatest == row.exists => row.email = promised.email

\* "After MaxLoginAttempts (default 5) failures" the account is locked (security
\* middleware design): fewer wrong passwords than that go unlocked.
LockoutHolds == fails < MaxLoginAttempts

\* All five promises hold whatever requests come: only a write made from an entity that
\* another request has overtaken breaks one, and then what it left is kept in turn.
NothingLostUnlessOvertaken ==
    EmailStaysVerified /\ PasswordIsLatest /\ DisabledStaysDisabled /\ EmailIsLatest
    /\ LockoutHolds

\* A reset code works once ("clear reset token fields", email design).
ResetCodeSingleUse == \A c \in Code : uses[c] <= 1

\* "409 CONFLICT" answers a second registration (API.md); a 500 is left for a
\* registration whose look-up failed, or during which the address was taken: by
\* another registration, POST or PUT /users, or a stale write of an e-mail.
DuplicateIsConflictUnlessTaken == ~blundered

Owner == INSTANCE AtomicAccount

\* The write of an entity whose row has been written since it was read.
OvertakenWrite ==
    \E q \in Request \ fresh :
        /\ pc[q] \notin {"idle", "create", "update_user", "delete_user"}
        /\ Update(q, promised, fails)
        /\ passed' = passed
        /\ \A c \in Code : codes[c] \in {"none", codes'[c]}

\* A lock ends by running out: no request removes or shortens it before, unless it
\* writes an entity that another request has overtaken.
LockIsKeptUnlessOvertaken ==
    [][IsLocked(row) => row'.lock >= row.lock \/ OvertakenWrite]_vars

\* Every step takes the account on as one whole request would, judged by the row
\* as it is at the write, and changes no column but its own: alone an overtaken
\* write does not.
AtomicUnlessOvertaken ==
    Owner!Init /\ [][Owner!Next \/ OvertakenWrite]_(Owner!vars)
=============================================================================
