------------------------------ MODULE Sessions ------------------------------
(***************************************************************************)
(* Refresh-token sessions of the authentication module: the table          *)
(* refresh_tokens, the part of the user row that decides whether a session *)
(* may be opened or renewed, and the HTTP requests that read and write     *)
(* them.  Every database call of a handler is one step, because each runs  *)
(* in a transaction of its own and other requests run in between.          *)
(*                                                                         *)
(* The user row is projected on is_active, email_verified_at and           *)
(* password_hash; userRepo.Update writes all of them from the entity the   *)
(* handler read earlier, so a handler's write can put old values back.     *)
(***************************************************************************)
EXTENDS Naturals

CONSTANTS
    User,       \* user ids
    Token,      \* refresh-token strings; minting picks an unused one
    Request,    \* slots for HTTP requests that are being served at once
    NoUser,
    NoToken,
    MaxReset,   \* bound: password resets per user
    MaxPurge,   \* bound: RevokeAllByUserID calls per user
    Faults,     \* TRUE: a database call may fail and a process may crash
    Traffic     \* the kinds of request and event that occur (see Kinds)

Kinds == {"login", "refresh", "logout", "logout_all", "reset", "account", "admin",
          "expiry"}

ASSUME SessionConstants ==
    /\ NoUser \notin User
    /\ NoToken \notin Token
    /\ MaxReset \in Nat
    /\ MaxPurge \in Nat
    /\ Faults \in BOOLEAN
    /\ Traffic \subseteq Kinds

VARIABLES
    row,        \* users / user_credentials: what the handlers check
    owner,      \* refresh_tokens.user_id; NoUser where no row was inserted
    revoked,    \* tokens with revoked_at set
    expired,    \* tokens whose expires_at has passed
    pc,         \* the next database call of each request
    who,        \* the user a request works for
    tok,        \* the token a refresh was called with; NoToken for a login
    seen,       \* the user entity a request holds in memory
    (* History variables: they record the past for the properties and no     *)
    (* action's guard reads them, except for the bounds.                     *)
    parent,     \* the token a token was exchanged for; NoToken after a login
    credential, \* the password hash the session of a token was opened with
    purges,     \* RevokeAllByUserID calls so far
    resets,     \* password resets so far
    opened,     \* purges[owner] when the session of a token was opened
    shared,     \* tokens that two refreshes held at once
    mixed,      \* users purged while a refresh of theirs was under way
    crossed     \* users of whom a reset ran beside another request, or without
                \* revoking

tokenVars   == <<owner, revoked, expired>>
requestVars == <<pc, who, tok, seen>>
historyVars == <<parent, credential, opened, shared, mixed>>
vars == <<row, tokenVars, requestVars, historyVars, purges, resets, crossed>>

-----------------------------------------------------------------------------
(* The tables.                                                             *)

Row == [active : BOOLEAN, verified : BOOLEAN, hash : 0..MaxReset]

Issued == {t \in Token : owner[t] # NoUser}

\* Mutant of Usable: IsRevoked is not asked.
UsableIfUnexpired(t) == t \in Issued /\ t \notin expired

\* entity.RefreshToken.IsExpired, IsRevoked: a token the refresh handler accepts.
Usable(t) == t \in Issued /\ t \notin expired /\ t \notin revoked

\* Mutant of Unrevoked: the WHERE clause forgets the user.
UnrevokedOfAnyone(u) == {t \in Token : t \notin revoked}

\* Tokens that revocation has not reached, expired or not.
Unrevoked(u) == {t \in Token : owner[t] = u /\ t \notin revoked}

\* The checks of login and refresh on the user entity.
MayHoldSession(r) == r.active /\ r.verified

\* A refresh keeps its token in memory from the first read to the insert.
Holds(q, t) == tok[q] = t /\ pc[q] \in {"refresh_user", "refresh_revoke", "mint"}

NoRow == [active |-> FALSE, verified |-> FALSE, hash |-> 0]

Init ==
    /\ row \in [User -> {r \in Row : r.hash = 0}]
    /\ owner = [t \in Token |-> NoUser]
    /\ revoked = {}
    /\ expired = {}
    /\ pc = [q \in Request |-> "idle"]
    /\ who = [q \in Request |-> NoUser]
    /\ tok = [q \in Request |-> NoToken]
    /\ seen = [q \in Request |-> NoRow]
    /\ parent = [t \in Token |-> NoToken]
    /\ credential = [t \in Token |-> 0]
    /\ purges = [u \in User |-> 0]
    /\ resets = [u \in User |-> 0]
    /\ opened = [t \in Token |-> 0]
    /\ shared = {}
    /\ mixed = {}
    /\ crossed = {}

InReset(q) == pc[q] \in {"reset_purge", "reset_write"}

\* A free slot takes a request: user u, token t, the entity r, next step l.
Begin(q, l, u, t, r) ==
    /\ pc[q] = "idle"
    /\ pc' = [pc EXCEPT ![q] = l]
    /\ who' = [who EXCEPT ![q] = u]
    /\ tok' = [tok EXCEPT ![q] = t]
    /\ seen' = [seen EXCEPT ![q] = r]
    /\ crossed' = IF \E o \in Request : /\ pc[o] # "idle" /\ who[o] = u
                                        /\ l = "reset_purge" \/ InReset(o)
                  THEN crossed \cup {u} ELSE crossed

\* Request q passes from step k to step l.
Goto(q, k, l) ==
    /\ pc[q] = k
    /\ pc' = [pc EXCEPT ![q] = l]
    /\ UNCHANGED <<who, tok, seen>>

\* The response is sent and what the request had in memory is gone.
Finish(q) ==
    /\ pc' = [pc EXCEPT ![q] = "idle"]
    /\ who' = [who EXCEPT ![q] = NoUser]
    /\ tok' = [tok EXCEPT ![q] = NoToken]
    /\ seen' = [seen EXCEPT ![q] = NoRow]

\* userRepository.Update: one transaction that writes every column.
Update(u, r) == row' = [row EXCEPT ![u] = r]

\* refreshTokenRepository.RevokeAllByUserID, one UPDATE statement.
RevokeAllByUserID(u) ==
    /\ purges[u] < MaxPurge
    /\ purges' = [purges EXCEPT ![u] = @ + 1]
    /\ revoked' = revoked \cup Unrevoked(u)
    /\ mixed' = IF \E q \in Request, t \in Token : who[q] = u /\ Holds(q, t)
                THEN mixed \cup {u} ELSE mixed
    /\ UNCHANGED <<owner, expired, parent, credential, opened, shared>>

-----------------------------------------------------------------------------
(* POST /auth/login: LoginQuery, then GenerateTokensCommand.               *)

\* GetByEmail and the checks.  g stands for the password sent: it matches the
\* hash it equals.  A rejected request ends here and changes nothing.
LoginRead(q, u, g) ==
    /\ "login" \in Traffic
    /\ MayHoldSession(row[u])
    /\ Begin(q, IF g = row[u].hash THEN "login_write" ELSE "touch_write",
             u, NoToken, row[u])
    /\ UNCHANGED <<row, tokenVars, historyVars, purges, resets>>

\* The Update after Unlock(); the handler ignores its error.
LoginWrite(q) ==
    /\ Goto(q, "login_write", "mint")
    /\ \/ Update(who[q], seen[q])
       \/ Faults /\ UNCHANGED row
    /\ UNCHANGED <<tokenVars, historyVars, purges, resets, crossed>>

\* GenerateTokensHandler: inserts a token nobody has.
Mint(q) ==
    /\ pc[q] = "mint"
    /\ Finish(q)
    /\ \E t \in Token \ Issued :
        /\ owner' = [owner EXCEPT ![t] = who[q]]
        /\ parent' = [parent EXCEPT ![t] = tok[q]]
        /\ credential' = [credential EXCEPT ![t] =
              IF tok[q] = NoToken THEN seen[q].hash ELSE credential[tok[q]]]
        /\ opened' = [opened EXCEPT ![t] =
              IF tok[q] = NoToken THEN purges[who[q]] ELSE opened[tok[q]]]
    /\ UNCHANGED <<row, revoked, expired, shared, mixed, purges, resets, crossed>>

-----------------------------------------------------------------------------
(* POST /auth/refresh.                                                     *)

RefreshRead(q, t) ==
    /\ "refresh" \in Traffic
    /\ Usable(t)
    /\ Begin(q, "refresh_user", owner[t], t, NoRow)
    /\ shared' = IF \E o \in Request : Holds(o, t) THEN shared \cup {t} ELSE shared
    /\ UNCHANGED <<row, tokenVars, parent, credential, opened, mixed, purges, resets>>

\* GetByID and the checks on the user, whose lock is not looked at.
RefreshUser(q) ==
    /\ pc[q] = "refresh_user"
    /\ IF MayHoldSession(row[who[q]])
       THEN Goto(q, "refresh_user", "refresh_revoke")
       ELSE Finish(q)
    /\ UNCHANGED <<row, tokenVars, historyVars, purges, resets, crossed>>

\* Mutant of RefreshRevoke: the old token is left alone.
RefreshKeep(q) ==
    /\ Goto(q, "refresh_revoke", "mint")
    /\ UNCHANGED <<row, tokenVars, historyVars, purges, resets, crossed>>

\* Revoke: succeeds as well when another request has revoked the token.
RefreshRevoke(q) ==
    /\ Goto(q, "refresh_revoke", "mint")
    /\ revoked' = revoked \cup {tok[q]}
    /\ UNCHANGED <<row, owner, expired, historyVars, purges, resets, crossed>>

-----------------------------------------------------------------------------
(* Logout, logout-all, password reset.                                     *)

\* One statement each, in a free slot.
Logout(q, t) ==
    /\ "logout" \in Traffic
    /\ pc[q] = "idle"
    /\ t \in Issued
    /\ revoked' = revoked \cup {t}
    /\ UNCHANGED <<row, owner, expired, requestVars, historyVars, purges, resets, crossed>>

LogoutAll(q, u) ==
    /\ "logout_all" \in Traffic
    /\ pc[q] = "idle"
    /\ RevokeAllByUserID(u)
    /\ UNCHANGED <<row, requestVars, resets, crossed>>

\* GetByResetToken with a token that is still good.
ResetRead(q, u) ==
    /\ "reset" \in Traffic
    /\ Begin(q, "reset_purge", u, NoToken, row[u])
    /\ UNCHANGED <<row, tokenVars, historyVars, purges, resets>>

\* Mutant of ResetPurge: the sessions are left alone.
ResetKeep(q) ==
    /\ Goto(q, "reset_purge", "reset_write")
    /\ UNCHANGED <<row, tokenVars, historyVars, purges, resets, crossed>>

\* RevokeAllByUserID comes before the password is stored; its error is dropped.
ResetPurge(q) ==
    /\ Goto(q, "reset_purge", "reset_write")
    /\ \/ RevokeAllByUserID(who[q]) /\ UNCHANGED crossed
       \/ /\ Faults
          /\ crossed' = crossed \cup {who[q]}
          /\ UNCHANGED <<tokenVars, historyVars, purges>>
    /\ UNCHANGED <<row, resets>>

\* The Update that stores the new hash (bcrypt salts it, so it is a new one).
ResetWrite(q) ==
    /\ pc[q] = "reset_write"
    /\ resets[who[q]] < MaxReset
    /\ Finish(q)
    /\ resets' = [resets EXCEPT ![who[q]] = @ + 1]
    /\ Update(who[q], [seen[q] EXCEPT !.hash = resets[who[q]] + 1])
    /\ UNCHANGED <<tokenVars, historyVars, purges, crossed>>

-----------------------------------------------------------------------------
(* The other writers of the user row.                                      *)

\* forgot-password and resend-verification read the user and write it back
\* with a new mail token ("touch"); verify-email writes it back as verified.
AccountRead(q, u, l) ==
    /\ "account" \in Traffic
    /\ Begin(q, l, u, NoToken, row[u])
    /\ UNCHANGED <<row, tokenVars, historyVars, purges, resets>>

\* Also the end of a login with a wrong password.
TouchWrite(q) ==
    /\ pc[q] = "touch_write"
    /\ Finish(q)
    /\ Update(who[q], seen[q])
    /\ UNCHANGED <<tokenVars, historyVars, purges, resets, crossed>>

VerifyWrite(q) ==
    /\ pc[q] = "verify_write"
    /\ Finish(q)
    /\ Update(who[q], [seen[q] EXCEPT !.verified = TRUE])
    /\ UNCHANGED <<tokenVars, historyVars, purges, resets, crossed>>

\* The user administration writes is_active alone.
SetActive(u, b) ==
    /\ "admin" \in Traffic
    /\ row' = [row EXCEPT ![u].active = b]
    /\ UNCHANGED <<tokenVars, requestVars, historyVars, purges, resets, crossed>>

-----------------------------------------------------------------------------
(* The environment.                                                        *)

Expire(t) ==
    /\ "expiry" \in Traffic
    /\ t \in Issued
    /\ expired' = expired \cup {t}
    /\ UNCHANGED <<row, owner, revoked, requestVars, historyVars, purges, resets, crossed>>

\* A database error, a request timeout or a crash: the request ends where it is.
Abort(q) ==
    /\ Faults
    /\ pc[q] # "idle"
    /\ Finish(q)
    /\ UNCHANGED <<row, tokenVars, historyVars, purges, resets, crossed>>

Step(q) ==
    \/ \E u \in User, g \in 0..MaxReset : LoginRead(q, u, g)
    \/ LoginWrite(q)
    \/ Mint(q)
    \/ \E t \in Token : RefreshRead(q, t)
    \/ RefreshUser(q)
    \/ RefreshRevoke(q)
    \/ \E t \in Token : Logout(q, t)
    \/ \E u \in User : LogoutAll(q, u)
    \/ \E u \in User : ResetRead(q, u)
    \/ ResetPurge(q)
    \/ ResetWrite(q)
    \/ \E u \in User, l \in {"touch_write", "verify_write"} : AccountRead(q, u, l)
    \/ TouchWrite(q)
    \/ VerifyWrite(q)
    \/ Abort(q)

Next ==
    \/ \E q \in Request : Step(q)
    \/ \E u \in User, b \in BOOLEAN : SetActive(u, b)
    \/ \E t \in Token : Expire(t)

Spec == Init /\ [][Next]_vars

-----------------------------------------------------------------------------
(* Properties.                                                             *)

Steps == {"idle", "login_write", "mint", "refresh_user", "refresh_revoke",
          "reset_purge", "reset_write", "touch_write", "verify_write"}

TablesOK ==
    /\ row \in [User -> Row]
    /\ owner \in [Token -> User \cup {NoUser}]
    /\ revoked \subseteq Issued
    /\ expired \subseteq Issued

RequestsOK ==
    /\ pc \in [Request -> Steps]
    /\ who \in [Request -> User \cup {NoUser}]
    /\ tok \in [Request -> Token \cup {NoToken}]
    /\ seen \in [Request -> Row]
    /\ \A q \in Request :
        /\ pc[q] # "idle" => who[q] \in User
        /\ pc[q] \in {"refresh_user", "refresh_revoke"} => tok[q] \in Issued
        /\ pc[q] = "login_write" => tok[q] = NoToken

HistoryOK ==
    /\ parent \in [Token -> Token \cup {NoToken}]
    /\ credential \in [Token -> 0..MaxReset]
    /\ purges \in [User -> 0..MaxPurge]
    /\ resets \in [User -> 0..MaxReset]
    /\ opened \in [Token -> 0..MaxPurge]
    /\ shared \subseteq Token
    /\ mixed \subseteq User
    /\ crossed \subseteq User

\* The tables hold rows of known users, only inserted tokens are revoked or
\* expired, and every request has the user and token its next call needs.
TypeOK == TablesOK /\ RequestsOK /\ HistoryOK

\* A refresh token buys at most one successor ("Refresh tokens are single-use",
\* docs/API.md): what the refresh handler owes its callers.
SingleUse ==
    \A c, d \in Token : parent[c] = parent[d] /\ parent[c] # NoToken => c = d

\* What the handler gives: two successors only if two refreshes held the token
\* between their first read and their insert at the same time.
SingleUseUnlessShared ==
    \A c, d \in Token :
        parent[c] = parent[d] /\ parent[c] \in Token \ shared => c = d

\* After RevokeAllByUserID no token of a session that was open then is usable
\* ("Revokes all refresh tokens for the authenticated user", docs/API.md).
LogoutAllEndsSessions ==
    \A t \in Issued \ revoked : opened[t] = purges[owner[t]]

\* What the code gives: a session outlives a logout-all only through a refresh
\* that was under way while the tokens were revoked.
LogoutAllEndsSessionsUnlessMixed ==
    \A t \in Issued \ revoked : owner[t] \notin mixed => opened[t] = purges[owner[t]]

\* Every session opened with a replaced password is over once the reset is done
\* ("Revoke all refresh tokens (force re-login)" in the email-service design).
ResetForcesRelogin ==
    \A t \in Issued \ revoked : credential[t] = resets[owner[t]]

\* What the code gives: a session opened with a replaced password outlives the reset
\* only if the reset ran beside another request of the user, or could not revoke.
ResetForcesReloginUnlessCrossed ==
    \A t \in Issued \ revoked : owner[t] \notin crossed => credential[t] = resets[owner[t]]

\* Rotation kills before it creates: no token is usable beside its successor,
\* whatever fails in between, and a successor serves the same user.
SpentTokensStayDead ==
    \A c \in Token : parent[c] # NoToken =>
        parent[c] \in revoked /\ owner[c] = owner[parent[c]]

RevocationKept ==
    \A t \in revoked :
        /\ t \in revoked'
        /\ \A q \in Request : Holds(q, t)' => Holds(q, t)

\* Revocation is final: the mark is never removed and no refresh starts from a
\* token that carries it.
RevocationIsFinal == [][RevocationKept]_vars
=============================================================================
