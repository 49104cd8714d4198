--------------------------- MODULE SessionsProofs ---------------------------
(***************************************************************************)
(* Theorems about Sessions, for any sets of users, tokens and requests and *)
(* with every kind of traffic and fault.                                   *)
(***************************************************************************)
EXTENDS Sessions, TLAPS

USE SessionConstants

-----------------------------------------------------------------------------
(* Type correctness.                                                       *)

\* Changing one column of a row gives a row.
LEMMA ExceptRow ==
  ASSUME NEW r \in Row
  PROVE  /\ \A n \in 0..MaxReset : [r EXCEPT !.hash = n] \in Row
         /\ [r EXCEPT !.verified = TRUE] \in Row
         /\ \A b \in BOOLEAN : [r EXCEPT !.active = b] \in Row
  BY DEF Row

LEMMA NoRowType == NoRow \in Row
  BY DEF NoRow, Row

LEMMA InitType == Init => TypeOK
  BY NoRowType DEF Init, TypeOK, TablesOK, RequestsOK, HistoryOK, Row, Issued, Steps

\* How a request moves: it takes a slot, passes to its next call, or ends.
LEMMA BeginType ==
  ASSUME RequestsOK, NEW q \in Request, NEW l \in Steps, NEW u \in User,
         NEW t \in Token \cup {NoToken}, NEW r \in Row,
         l \in {"refresh_user", "refresh_revoke"} => t \in Issued,
         l = "login_write" => t = NoToken,
         Begin(q, l, u, t, r), owner' = owner
  PROVE  RequestsOK'
  BY DEF RequestsOK, Begin, Issued

LEMMA GotoType ==
  ASSUME RequestsOK, NEW q \in Request, NEW k \in Steps \ {"idle"}, NEW l \in Steps,
         l = "refresh_revoke" => k = "refresh_user",
         l \notin {"refresh_user", "login_write"},
         Goto(q, k, l), owner' = owner
  PROVE  RequestsOK'
  BY DEF RequestsOK, Goto, Issued

LEMMA FinishType ==
  ASSUME RequestsOK, NEW q \in Request, Finish(q), Issued \subseteq Issued'
  PROVE  RequestsOK'
  BY NoRowType DEF RequestsOK, Finish, Steps

LEMMA SameRequestsType ==
  ASSUME RequestsOK, UNCHANGED <<requestVars, owner>>
  PROVE  RequestsOK'
  BY DEF RequestsOK, requestVars, Issued

LEMMA SameHistoryType ==
  ASSUME HistoryOK, UNCHANGED <<historyVars, purges, resets>>, crossed' \subseteq User
  PROVE  HistoryOK'
  BY DEF HistoryOK, historyVars

LEMMA SameTablesType ==
  ASSUME TablesOK, UNCHANGED <<row, tokenVars>>
  PROVE  TablesOK'
  BY DEF TablesOK, tokenVars, Issued

LEMMA UpdateType ==
  ASSUME TablesOK, NEW u \in User, NEW r \in Row, Update(u, r), UNCHANGED tokenVars
  PROVE  TablesOK'
  BY DEF TablesOK, tokenVars, Update, Issued

LEMMA RevokeType ==
  ASSUME TablesOK, NEW t \in Issued, revoked' = revoked \cup {t},
         UNCHANGED <<row, owner, expired>>
  PROVE  TablesOK'
  BY DEF TablesOK, Issued

LEMMA RevokeAllType ==
  ASSUME TablesOK, HistoryOK, NEW u \in User, RevokeAllByUserID(u),
         UNCHANGED <<row, resets>>, crossed' \subseteq User
  PROVE  TablesOK' /\ HistoryOK'
<1>1. Unrevoked(u) \subseteq Issued
  BY DEF Unrevoked, Issued
<1>2. TablesOK'
  BY <1>1 DEF TablesOK, RevokeAllByUserID, Issued
<1>3. purges' \in [User -> 0..MaxPurge]
  BY DEF HistoryOK, RevokeAllByUserID
<1>4. mixed' \subseteq User
  BY DEF HistoryOK, RevokeAllByUserID
<1> QED
  BY <1>2, <1>3, <1>4 DEF HistoryOK, RevokeAllByUserID

\* Only users get crossed.
LEMMA CrossedType ==
  ASSUME TypeOK, NEW q \in Request, Step(q)
  PROVE  crossed' \subseteq User
<1>1. crossed \subseteq User
  BY DEF TypeOK, HistoryOK
<1>2. \A l, t, r : \A u \in User : Begin(q, l, u, t, r) => crossed' \subseteq User
  BY <1>1 DEF Begin
<1>3. \A t \in Token : RefreshRead(q, t) => crossed' \subseteq User
  <2> SUFFICES ASSUME NEW t \in Token, RefreshRead(q, t) PROVE crossed' \subseteq User
    OBVIOUS
  <2>1. owner[t] \in User
    BY DEF RefreshRead, Usable, Issued, TypeOK, TablesOK
  <2> QED BY <1>2, <2>1 DEF RefreshRead
<1>4. ResetPurge(q) => crossed' \subseteq User
  BY <1>1 DEF ResetPurge, Goto, TypeOK, RequestsOK
<1> QED
  BY <1>1, <1>2, <1>3, <1>4 DEF Step, LoginRead, LoginWrite, Mint, RefreshUser,
     RefreshRevoke, Logout, LogoutAll, ResetRead, ResetWrite, AccountRead, TouchWrite,
     VerifyWrite, Abort

LEMMA StepType ==
  ASSUME TypeOK, NEW q \in Request, Step(q)
  PROVE  TypeOK'
<1>0. crossed' \subseteq User
  BY CrossedType
<1> USE <1>0 DEF TypeOK
<1>1. ASSUME NEW u \in User, NEW g \in 0..MaxReset, LoginRead(q, u, g) PROVE TypeOK'
  <2>1. row[u] \in Row
    BY DEF TablesOK
  <2>2. RequestsOK'
    BY <1>1, <2>1, BeginType DEF LoginRead, Steps, tokenVars
  <2> QED
    BY <1>1, <2>2, SameTablesType, SameHistoryType DEF LoginRead
<1>2. CASE LoginWrite(q)
  <2>1. RequestsOK'
    BY <1>2, GotoType DEF LoginWrite, Steps, tokenVars
  <2>2. who[q] \in User /\ seen[q] \in Row
    BY <1>2 DEF LoginWrite, Goto, RequestsOK
  <2>3. TablesOK'
    BY <1>2, <2>2, UpdateType, SameTablesType DEF LoginWrite
  <2> QED
    BY <1>2, <2>1, <2>3, SameHistoryType DEF LoginWrite
<1>3. CASE Mint(q)
  <2>1. PICK t \in Token \ Issued :
          /\ owner' = [owner EXCEPT ![t] = who[q]]
          /\ parent' = [parent EXCEPT ![t] = tok[q]]
          /\ credential' = [credential EXCEPT ![t] =
                IF tok[q] = NoToken THEN seen[q].hash ELSE credential[tok[q]]]
          /\ opened' = [opened EXCEPT ![t] =
                IF tok[q] = NoToken THEN purges[who[q]] ELSE opened[tok[q]]]
    BY <1>3 DEF Mint
  <2>2. who[q] \in User /\ tok[q] \in Token \cup {NoToken} /\ seen[q].hash \in 0..MaxReset
    BY <1>3 DEF Mint, RequestsOK, Row
  <2>3. TablesOK' /\ Issued \subseteq Issued'
    BY <1>3, <2>1, <2>2 DEF Mint, TablesOK, Issued
  <2>4. RequestsOK'
    BY <1>3, <2>3, FinishType DEF Mint
  <2>5. HistoryOK'
    BY <1>3, <2>1, <2>2 DEF Mint, HistoryOK
  <2> QED
    BY <2>3, <2>4, <2>5
<1>4. ASSUME NEW t \in Token, RefreshRead(q, t) PROVE TypeOK'
  <2>1. t \in Issued /\ owner[t] \in User
    BY <1>4 DEF RefreshRead, Usable, Issued, TablesOK
  <2>2. RequestsOK'
    BY <1>4, <2>1, NoRowType, BeginType DEF RefreshRead, Steps, tokenVars
  <2>3. HistoryOK'
    BY <1>4 DEF RefreshRead, HistoryOK
  <2> QED
    BY <1>4, <2>2, <2>3, SameTablesType DEF RefreshRead
<1>5. CASE RefreshUser(q)
  <2>1. RequestsOK'
    BY <1>5, GotoType, FinishType DEF RefreshUser, Steps, tokenVars, Issued
  <2> QED
    BY <1>5, <2>1, SameTablesType, SameHistoryType DEF RefreshUser
<1>6. CASE RefreshRevoke(q)
  <2>1. tok[q] \in Issued
    BY <1>6 DEF RefreshRevoke, Goto, RequestsOK
  <2>2. RequestsOK'
    BY <1>6, GotoType DEF RefreshRevoke, Steps
  <2> QED
    BY <1>6, <2>1, <2>2, RevokeType, SameHistoryType DEF RefreshRevoke
<1>7. ASSUME NEW t \in Token, Logout(q, t) PROVE TypeOK'
  BY <1>7, RevokeType, SameRequestsType, SameHistoryType DEF Logout
<1>8. ASSUME NEW u \in User, LogoutAll(q, u) PROVE TypeOK'
  BY <1>8, RevokeAllType, SameRequestsType DEF LogoutAll, RevokeAllByUserID
<1>9. ASSUME NEW u \in User, ResetRead(q, u) PROVE TypeOK'
  <2>1. row[u] \in Row
    BY DEF TablesOK
  <2>2. RequestsOK'
    BY <1>9, <2>1, BeginType DEF ResetRead, Steps, tokenVars
  <2> QED
    BY <1>9, <2>2, SameTablesType, SameHistoryType DEF ResetRead
<1>10. CASE ResetPurge(q)
  <2>1. owner' = owner
    BY <1>10 DEF ResetPurge, RevokeAllByUserID, tokenVars
  <2>2. RequestsOK'
    BY <1>10, <2>1, GotoType DEF ResetPurge, Steps
  <2>3. who[q] \in User
    BY <1>10 DEF ResetPurge, Goto, RequestsOK
  <2>4. TablesOK' /\ HistoryOK'
    BY <1>10, <2>3, RevokeAllType, SameTablesType, SameHistoryType DEF ResetPurge
  <2> QED
    BY <2>2, <2>4
<1>11. CASE ResetWrite(q)
  <2> DEFINE n == resets[who[q]] + 1
  <2>1. who[q] \in User /\ seen[q] \in Row
    BY <1>11 DEF ResetWrite, RequestsOK
  <2>2. n \in 0..MaxReset
    BY <1>11, <2>1 DEF ResetWrite, HistoryOK
  <2>3. [seen[q] EXCEPT !.hash = n] \in Row
    BY <2>1, <2>2, ExceptRow
  <2>4. TablesOK'
    BY <1>11, <2>1, <2>3, UpdateType DEF ResetWrite
  <2>5. RequestsOK'
    BY <1>11, FinishType DEF ResetWrite, tokenVars, Issued
  <2>6. HistoryOK'
    BY <1>11, <2>2 DEF ResetWrite, HistoryOK, historyVars
  <2> QED
    BY <2>4, <2>5, <2>6
<1>12. ASSUME NEW u \in User, NEW l \in {"touch_write", "verify_write"},
              AccountRead(q, u, l)
       PROVE TypeOK'
  <2>1. row[u] \in Row
    BY DEF TablesOK
  <2>2. RequestsOK'
    BY <1>12, <2>1, BeginType DEF AccountRead, Steps, tokenVars
  <2> QED
    BY <1>12, <2>2, SameTablesType, SameHistoryType DEF AccountRead
<1>13. CASE TouchWrite(q)
  <2>1. who[q] \in User /\ seen[q] \in Row
    BY <1>13 DEF TouchWrite, RequestsOK
  <2>2. TablesOK' /\ HistoryOK'
    BY <1>13, <2>1, UpdateType, SameHistoryType DEF TouchWrite
  <2> QED
    BY <1>13, <2>2, FinishType DEF TouchWrite, tokenVars, Issued
<1>14. CASE VerifyWrite(q)
  <2>1. who[q] \in User /\ [seen[q] EXCEPT !.verified = TRUE] \in Row
    BY <1>14, ExceptRow DEF VerifyWrite, RequestsOK
  <2>2. TablesOK' /\ HistoryOK'
    BY <1>14, <2>1, UpdateType, SameHistoryType DEF VerifyWrite
  <2> QED
    BY <1>14, <2>2, FinishType DEF VerifyWrite, tokenVars, Issued
<1>15. CASE Abort(q)
  BY <1>15, FinishType, SameTablesType, SameHistoryType DEF Abort, tokenVars, Issued
<1> QED
  BY <1>1, <1>2, <1>3, <1>4, <1>5, <1>6, <1>7, <1>8, <1>9, <1>10, <1>11, <1>12,
     <1>13, <1>14, <1>15 DEF Step

\* The steps of the environment leave requests and history alone.
LEMMA EnvironmentType ==
  ASSUME TypeOK,
         \/ \E u \in User, b \in BOOLEAN : SetActive(u, b)
         \/ \E t \in Token : Expire(t)
  PROVE  TypeOK'
<1>0. crossed' \subseteq User
  BY DEF SetActive, Expire, TypeOK, HistoryOK
<1>1. ASSUME NEW u \in User, NEW b \in BOOLEAN, SetActive(u, b) PROVE TypeOK'
  <2>1. [row[u] EXCEPT !.active = b] \in Row
    BY ExceptRow DEF TypeOK, TablesOK
  <2>2. row' = [row EXCEPT ![u] = [row[u] EXCEPT !.active = b]]
    BY <1>1 DEF SetActive
  <2>3. TablesOK'
    BY <1>1, <2>1, <2>2 DEF SetActive, TypeOK, TablesOK, tokenVars, Issued
  <2> QED
    BY <1>0, <1>1, <2>3, SameRequestsType, SameHistoryType DEF SetActive, TypeOK, tokenVars
<1>2. ASSUME NEW t \in Token, Expire(t) PROVE TypeOK'
  <2>1. TablesOK'
    BY <1>2 DEF Expire, TypeOK, TablesOK, Issued
  <2> QED
    BY <1>0, <1>2, <2>1, SameRequestsType, SameHistoryType DEF Expire, TypeOK
<1> QED
  BY <1>1, <1>2

\* The tables and the requests always have the shape the handlers rely on.
THEOREM TypeCorrect == Spec => []TypeOK
<1>1. TypeOK /\ [Next]_vars => TypeOK'
  <2>1. CASE UNCHANGED vars
    BY <2>1, SameTablesType, SameRequestsType, SameHistoryType
       DEF vars, tokenVars, TypeOK, HistoryOK
  <2> QED
    BY <2>1, StepType, EnvironmentType DEF Next
<1> QED
  BY InitType, <1>1, PTL DEF Spec

-----------------------------------------------------------------------------
(* Rotation and revocation.  The properties speak of what was inserted; to *)
(* carry them over a step the invariant also has to say what requests hold *)
(* in memory: which tokens, with which owner, and that two holders of one  *)
(* token, or a holder of a token that already has a successor, were seen.  *)

HeldTokens ==
    \A q \in Request, t \in Token : Holds(q, t) =>
        /\ t \in Issued
        /\ owner[t] = who[q]
        /\ pc[q] = "mint" => t \in revoked

Successors ==
    \A c \in Token : parent[c] # NoToken => c \in Issued

TwoHolders ==
    \A q, o \in Request, t \in Token :
        q # o /\ Holds(q, t) /\ Holds(o, t) => t \in shared

LateHolders ==
    \A q \in Request, c \in Token : Holds(q, parent[c]) /\ parent[c] # NoToken
        => parent[c] \in shared

HeldSessions ==
    \A q \in Request, t \in Token : Holds(q, t) /\ who[q] \notin mixed
        => opened[t] = purges[who[q]]

IInv ==
    /\ SpentTokensStayDead
    /\ SingleUseUnlessShared
    /\ LogoutAllEndsSessionsUnlessMixed
    /\ HeldTokens
    /\ Successors
    /\ TwoHolders
    /\ LateHolders
    /\ HeldSessions

\* Most steps only take requests forward: nothing is inserted, no refresh
\* starts and nobody's tokens are purged.
LEMMA QuietStep ==
  ASSUME TypeOK, IInv,
         UNCHANGED <<owner, parent, opened, purges, shared, mixed>>,
         revoked \subseteq revoked',
         \A q \in Request, t \in Token : Holds(q, t)' =>
             Holds(q, t) /\ who'[q] = who[q] /\ (pc'[q] = "mint" => t \in revoked')
  PROVE  IInv'
<1>1. Issued' = Issued
  BY DEF Issued
<1>2. SpentTokensStayDead' /\ SingleUseUnlessShared' /\ Successors'
  BY <1>1 DEF IInv, SpentTokensStayDead, SingleUseUnlessShared, Successors
<1>3. LogoutAllEndsSessionsUnlessMixed'
  BY <1>1 DEF IInv, LogoutAllEndsSessionsUnlessMixed
<1>4. HeldTokens' /\ HeldSessions'
  BY <1>1 DEF IInv, HeldTokens, HeldSessions
<1>5. TwoHolders'
  BY DEF IInv, TwoHolders
<1>6. LateHolders'
  BY DEF IInv, LateHolders, TypeOK, HistoryOK
<1> QED
  BY <1>2, <1>3, <1>4, <1>5, <1>6 DEF IInv

\* A refresh that starts makes a new holder of a token nobody has spent.
LEMMA RefreshReadInv ==
  ASSUME TypeOK, IInv, NEW q \in Request, NEW t \in Token, RefreshRead(q, t)
  PROVE  IInv'
<1>1. /\ t \in Issued \ revoked
      /\ UNCHANGED <<owner, revoked, parent, opened, purges, mixed>>
      /\ shared' = IF \E o \in Request : Holds(o, t) THEN shared \cup {t} ELSE shared
  BY DEF RefreshRead, Usable, tokenVars
<1>2. \A o \in Request, s \in Token : Holds(o, s)' =>
         \/ o # q /\ Holds(o, s) /\ who'[o] = who[o] /\ pc'[o] = pc[o]
         \/ o = q /\ s = t /\ who'[o] = owner[t] /\ pc'[o] = "refresh_user"
  BY DEF RefreshRead, Begin, Holds, TypeOK, RequestsOK
<1>3. Issued' = Issued
  BY <1>1 DEF Issued
<1>4. SpentTokensStayDead' /\ SingleUseUnlessShared' /\ Successors'
  BY <1>1, <1>3 DEF IInv, SpentTokensStayDead, SingleUseUnlessShared, Successors
<1>5. LogoutAllEndsSessionsUnlessMixed'
  BY <1>1, <1>3 DEF IInv, LogoutAllEndsSessionsUnlessMixed
<1>6. HeldTokens'
  BY <1>1, <1>2, <1>3 DEF IInv, HeldTokens
<1>7. HeldSessions'
  BY <1>1, <1>2 DEF IInv, HeldSessions, LogoutAllEndsSessionsUnlessMixed
<1>8. TwoHolders'
  BY <1>1, <1>2 DEF IInv, TwoHolders
<1>9. LateHolders'
  BY <1>1, <1>2 DEF IInv, LateHolders, SpentTokensStayDead, TypeOK, HistoryOK
<1> QED
  BY <1>4, <1>5, <1>6, <1>7, <1>8, <1>9 DEF IInv

\* Inserting the successor of a held token, or the first token of a session.
LEMMA MintInv ==
  ASSUME TypeOK, IInv, NEW q \in Request, Mint(q)
  PROVE  IInv'
<1>1. PICK n \in Token \ Issued :
        /\ owner' = [owner EXCEPT ![n] = who[q]]
        /\ parent' = [parent EXCEPT ![n] = tok[q]]
        /\ opened' = [opened EXCEPT ![n] =
              IF tok[q] = NoToken THEN purges[who[q]] ELSE opened[tok[q]]]
  BY DEF Mint
<1>2. UNCHANGED <<revoked, purges, shared, mixed>>
  BY DEF Mint
<1>3. who[q] \in User /\ tok[q] \in Token \cup {NoToken} /\ owner[n] = NoUser
  BY DEF Mint, TypeOK, RequestsOK, Issued
<1>4. \A o \in Request, s \in Token : Holds(o, s)' =>
         o # q /\ Holds(o, s) /\ who'[o] = who[o] /\ pc'[o] = pc[o]
  BY DEF Mint, Finish, Holds, TypeOK, RequestsOK
<1>5. tok[q] # NoToken =>
         Holds(q, tok[q]) /\ tok[q] \in Issued \cap revoked /\ owner[tok[q]] = who[q]
  BY <1>3 DEF Mint, Holds, IInv, HeldTokens
<1>6. Issued' = Issued \cup {n} /\ n \notin revoked
  BY <1>1, <1>3 DEF TypeOK, TablesOK, Issued
<1>7. \A c \in Token : parent[c] # n
  BY <1>6 DEF IInv, SpentTokensStayDead, TypeOK, HistoryOK
<1>8. \A c \in Token : parent'[c] = IF c = n THEN tok[q] ELSE parent[c]
  BY <1>1 DEF TypeOK, HistoryOK
<1>9. \A c \in Token : owner'[c] = IF c = n THEN who[q] ELSE owner[c]
  BY <1>1 DEF TypeOK, TablesOK
<1>10. parent[n] = NoToken
  BY DEF IInv, Successors
<1>11. SpentTokensStayDead' /\ Successors'
  <2>1. Successors'
    BY <1>6, <1>8 DEF IInv, Successors
  <2>2. SUFFICES ASSUME NEW c \in Token, parent'[c] # NoToken
                 PROVE  parent'[c] \in revoked /\ owner'[c] = owner'[parent'[c]]
    BY <1>2, <2>1 DEF SpentTokensStayDead
  <2>3. CASE c = n
    BY <1>5, <1>6, <1>8, <1>9, <2>2, <2>3 DEF Issued
  <2>4. CASE c # n
    <3>1. parent[c] \in revoked /\ owner[c] = owner[parent[c]] /\ parent[c] \in Token
      BY <1>8, <2>2, <2>4 DEF IInv, SpentTokensStayDead, TypeOK, HistoryOK
    <3> QED
      BY <1>7, <1>8, <1>9, <2>4, <3>1
  <2> QED
    BY <2>3, <2>4
<1>12. SingleUseUnlessShared'
  <2> SUFFICES ASSUME NEW c \in Token, NEW d \in Token, parent'[c] = parent'[d],
                      parent'[c] \in Token \ shared, c # d
               PROVE  FALSE
    BY <1>2 DEF SingleUseUnlessShared
  <2>1. CASE c # n /\ d # n
    BY <1>8, <2>1 DEF IInv, SingleUseUnlessShared
  <2>2. CASE c = n \/ d = n
    <3>1. PICK s \in Token : parent[s] = tok[q] /\ tok[q] \in Token \ shared
      BY <1>8, <2>2
    <3> QED
      BY <1>5, <3>1, SessionConstants DEF IInv, LateHolders
  <2> QED
    BY <2>1, <2>2
<1>13. LogoutAllEndsSessionsUnlessMixed'
  <2> SUFFICES ASSUME NEW s \in Issued' \ revoked, owner'[s] \notin mixed
               PROVE  opened'[s] = purges[owner'[s]]
    BY <1>2 DEF LogoutAllEndsSessionsUnlessMixed
  <2>1. CASE s # n
    BY <1>1, <1>6, <1>9, <2>1
       DEF IInv, LogoutAllEndsSessionsUnlessMixed, Issued, TypeOK, HistoryOK
  <2>2. CASE s = n
    <3>1. opened'[n] = IF tok[q] = NoToken THEN purges[who[q]] ELSE opened[tok[q]]
      BY <1>1 DEF TypeOK, HistoryOK
    <3> QED
      BY <1>3, <1>5, <1>9, <2>2, <3>1 DEF IInv, HeldSessions
  <2> QED
    BY <2>1, <2>2
<1>14. HeldTokens'
  BY <1>2, <1>4, <1>6, <1>9 DEF IInv, HeldTokens
<1>15. HeldSessions'
  <2> SUFFICES ASSUME NEW o \in Request, NEW s \in Token, Holds(o, s)', who'[o] \notin mixed
               PROVE  opened'[s] = purges[who'[o]]
    BY <1>2 DEF HeldSessions
  <2>1. s # n
    BY <1>4 DEF IInv, HeldTokens
  <2> QED
    BY <1>1, <1>4, <2>1 DEF IInv, HeldSessions, TypeOK, HistoryOK
<1>16. TwoHolders'
  BY <1>2, <1>4 DEF IInv, TwoHolders
<1>17. LateHolders'
  <2> SUFFICES ASSUME NEW o \in Request, NEW c \in Token, NEW s \in Token,
                      s = parent'[c], Holds(o, s)'
               PROVE  s \in shared
    BY <1>2, <1>3, <1>8 DEF LateHolders, TypeOK, HistoryOK, Holds
  <2>1. o # q /\ Holds(o, s)
    BY <1>4
  <2>2. CASE c = n
    BY <1>5, <1>8, <2>1, <2>2, SessionConstants DEF IInv, TwoHolders
  <2>3. CASE c # n
    BY <1>8, <2>1, <2>3, SessionConstants DEF IInv, LateHolders
  <2> QED
    BY <2>2, <2>3
<1> QED
  BY <1>11, <1>12, <1>13, <1>14, <1>15, <1>16, <1>17 DEF IInv

\* Revoking all tokens of a user, while no refresh starts.
LEMMA RevokeAllInv ==
  ASSUME TypeOK, IInv, NEW u \in User, RevokeAllByUserID(u),
         \A q \in Request, t \in Token : Holds(q, t)' =>
             Holds(q, t) /\ who'[q] = who[q] /\ (pc'[q] = "mint" => pc[q] = "mint")
  PROVE  IInv'
<1>1. /\ UNCHANGED <<owner, parent, opened, shared>>
      /\ revoked' = revoked \cup Unrevoked(u)
      /\ \A v \in User : v # u => purges'[v] = purges[v]
      /\ mixed \subseteq mixed'
      /\ (\E q \in Request, t \in Token : who[q] = u /\ Holds(q, t)) => u \in mixed'
  BY DEF RevokeAllByUserID, TypeOK, HistoryOK
<1>2. Issued' = Issued
  BY <1>1 DEF Issued
<1>3. SpentTokensStayDead' /\ SingleUseUnlessShared' /\ Successors'
  BY <1>1, <1>2 DEF IInv, SpentTokensStayDead, SingleUseUnlessShared, Successors
<1>4. LogoutAllEndsSessionsUnlessMixed'
  <2> SUFFICES ASSUME NEW t \in Issued \ revoked', owner[t] \notin mixed'
               PROVE  opened[t] = purges'[owner[t]]
    BY <1>1, <1>2 DEF LogoutAllEndsSessionsUnlessMixed
  <2>1. t \in Token /\ owner[t] \in User /\ owner[t] # u
    BY <1>1 DEF Unrevoked, Issued, TypeOK, TablesOK
  <2> QED
    BY <1>1, <2>1 DEF IInv, LogoutAllEndsSessionsUnlessMixed
<1>5. HeldTokens'
  BY <1>1, <1>2 DEF IInv, HeldTokens
<1>6. HeldSessions'
  <2> SUFFICES ASSUME NEW q \in Request, NEW t \in Token, Holds(q, t)',
                      who'[q] \notin mixed'
               PROVE  opened[t] = purges'[who[q]]
    BY <1>1 DEF HeldSessions
  <2>1. Holds(q, t) /\ who'[q] = who[q] /\ who[q] # u /\ who[q] \in User
    BY <1>1 DEF Holds, TypeOK, RequestsOK
  <2> QED
    BY <1>1, <2>1 DEF IInv, HeldSessions
<1>7. TwoHolders'
  BY <1>1 DEF IInv, TwoHolders
<1>8. LateHolders'
  BY <1>1 DEF IInv, LateHolders, TypeOK, HistoryOK
<1> QED
  BY <1>3, <1>4, <1>5, <1>6, <1>7, <1>8 DEF IInv

LEMMA StepInv ==
  ASSUME TypeOK, IInv, NEW q \in Request, Step(q)
  PROVE  IInv'
<1> DEFINE Forward ==
      \A o \in Request, t \in Token : Holds(o, t)' =>
          Holds(o, t) /\ who'[o] = who[o] /\ (pc'[o] = "mint" => t \in revoked')
<1> USE DEF tokenVars, historyVars, TypeOK, RequestsOK
<1>1. ASSUME NEW u \in User, NEW g \in 0..MaxReset, LoginRead(q, u, g) PROVE IInv'
  <2>1. Forward
    BY <1>1 DEF LoginRead, Begin, Holds, IInv, HeldTokens
  <2> QED
    BY <1>1, <2>1, QuietStep DEF LoginRead
<1>2. CASE LoginWrite(q)
  <2>1. Forward
    BY <1>2 DEF LoginWrite, Goto, Holds, IInv, HeldTokens
  <2> QED
    BY <1>2, <2>1, QuietStep DEF LoginWrite
<1>3. CASE Mint(q)
  BY <1>3, MintInv
<1>4. ASSUME NEW t \in Token, RefreshRead(q, t) PROVE IInv'
  BY <1>4, RefreshReadInv
<1>5. CASE RefreshUser(q)
  <2>1. Forward
    BY <1>5 DEF RefreshUser, Goto, Finish, Holds, IInv, HeldTokens
  <2> QED
    BY <1>5, <2>1, QuietStep DEF RefreshUser
<1>6. CASE RefreshRevoke(q)
  <2>1. Forward
    BY <1>6 DEF RefreshRevoke, Goto, Holds, IInv, HeldTokens
  <2> QED
    BY <1>6, <2>1, QuietStep DEF RefreshRevoke
<1>7. ASSUME NEW t \in Token, Logout(q, t) PROVE IInv'
  <2>1. Forward
    BY <1>7 DEF Logout, requestVars, Holds, IInv, HeldTokens
  <2> QED
    BY <1>7, <2>1, QuietStep DEF Logout
<1>8. ASSUME NEW u \in User, LogoutAll(q, u) PROVE IInv'
  BY <1>8, RevokeAllInv DEF LogoutAll, requestVars, Holds
<1>9. ASSUME NEW u \in User, ResetRead(q, u) PROVE IInv'
  <2>1. Forward
    BY <1>9 DEF ResetRead, Begin, Holds, IInv, HeldTokens
  <2> QED
    BY <1>9, <2>1, QuietStep DEF ResetRead
<1>10. CASE ResetPurge(q)
  <2>1. who[q] \in User
    BY <1>10 DEF ResetPurge, Goto
  <2>2. CASE RevokeAllByUserID(who[q])
    <3>1. \A o \in Request, t \in Token : Holds(o, t)' =>
             Holds(o, t) /\ who'[o] = who[o] /\ (pc'[o] = "mint" => pc[o] = "mint")
      BY <1>10 DEF ResetPurge, Goto, Holds, TypeOK, RequestsOK
    <3> QED
      BY <2>1, <2>2, <3>1, RevokeAllInv
  <2>3. CASE UNCHANGED <<tokenVars, historyVars, purges>>
    <3>1. Forward
      BY <1>10, <2>3 DEF ResetPurge, Goto, Holds, IInv, HeldTokens
    <3> QED
      BY <2>3, <3>1, QuietStep
  <2> QED
    BY <1>10, <2>2, <2>3 DEF ResetPurge
<1>11. CASE ResetWrite(q)
  <2>1. Forward
    BY <1>11 DEF ResetWrite, Finish, Holds, IInv, HeldTokens
  <2> QED
    BY <1>11, <2>1, QuietStep DEF ResetWrite
<1>12. ASSUME NEW u \in User, NEW l \in {"touch_write", "verify_write"},
              AccountRead(q, u, l)
       PROVE IInv'
  <2>1. Forward
    BY <1>12 DEF AccountRead, Begin, Holds, IInv, HeldTokens
  <2> QED
    BY <1>12, <2>1, QuietStep DEF AccountRead
<1>13. CASE TouchWrite(q)
  <2>1. Forward
    BY <1>13 DEF TouchWrite, Finish, Holds, IInv, HeldTokens
  <2> QED
    BY <1>13, <2>1, QuietStep DEF TouchWrite
<1>14. CASE VerifyWrite(q)
  <2>1. Forward
    BY <1>14 DEF VerifyWrite, Finish, Holds, IInv, HeldTokens
  <2> QED
    BY <1>14, <2>1, QuietStep DEF VerifyWrite
<1>15. CASE Abort(q)
  <2>1. Forward
    BY <1>15 DEF Abort, Finish, Holds, IInv, HeldTokens
  <2> QED
    BY <1>15, <2>1, QuietStep DEF Abort
<1> QED
  BY <1>1, <1>2, <1>3, <1>4, <1>5, <1>6, <1>7, <1>8, <1>9, <1>10, <1>11, <1>12,
     <1>13, <1>14, <1>15 DEF Step

LEMMA OtherStepInv ==
  ASSUME TypeOK, IInv,
         \/ \E u \in User, b \in BOOLEAN : SetActive(u, b)
         \/ \E t \in Token : Expire(t)
         \/ UNCHANGED vars
  PROVE  IInv'
<1>1. /\ UNCHANGED <<owner, parent, opened, purges, shared, mixed, revoked>>
      /\ UNCHANGED requestVars
  BY DEF SetActive, Expire, vars, tokenVars, historyVars
<1>2. \A q \in Request, t \in Token : Holds(q, t)' =>
         Holds(q, t) /\ who'[q] = who[q] /\ (pc'[q] = "mint" => t \in revoked')
  BY <1>1 DEF requestVars, Holds, IInv, HeldTokens
<1> QED
  BY <1>1, <1>2, QuietStep

LEMMA InitInv == Init => IInv
<1> SUFFICES ASSUME Init PROVE IInv
  OBVIOUS
<1>1. Issued = {} /\ \A q \in Request, t \in Token : ~Holds(q, t)
  BY DEF Init, Issued, Holds
<1>2. \A c \in Token : parent[c] = NoToken
  BY DEF Init
<1>3. \A q \in Request : pc[q] = "idle"
  BY DEF Init
<1> QED
  BY <1>1, <1>2, <1>3 DEF IInv, SpentTokensStayDead, SingleUseUnlessShared,
     LogoutAllEndsSessionsUnlessMixed, HeldTokens, Successors, TwoHolders,
     LateHolders, HeldSessions, Holds

\* The inductive invariant behind the session theorems.
THEOREM SessionInvariant == Spec => [](TypeOK /\ IInv)
<1>1. TypeOK /\ IInv /\ [Next]_vars => IInv'
  BY StepInv, OtherStepInv DEF Next
<1> QED
  BY TypeCorrect, InitInv, <1>1, PTL DEF Spec

\* Two successors of one token exist only if two refreshes of it overlapped.
THEOREM SingleUseTheorem == Spec => []SingleUseUnlessShared
  BY SessionInvariant, PTL DEF IInv

\* A refresh handler that stops anywhere leaves no token beside its successor.
THEOREM RotationTheorem == Spec => []SpentTokensStayDead
  BY SessionInvariant, PTL DEF IInv

\* A session survives logout-all only through a refresh that was under way.
THEOREM LogoutAllTheorem == Spec => []LogoutAllEndsSessionsUnlessMixed
  BY SessionInvariant, PTL DEF IInv

-----------------------------------------------------------------------------
(* Revocation is final.                                                    *)

\* A step that takes no mark away, in which a request that holds a revoked token
\* afterwards held it before.
LEMMA FinalRequest ==
    ASSUME TypeOK, NEW q \in Request, revoked \subseteq revoked',
           \A o \in Request \ {q} : UNCHANGED <<pc[o], tok[o]>>,
           \A t \in revoked : Holds(q, t)' => Holds(q, t)
    PROVE  RevocationKept
  BY DEF RevocationKept, Holds

LEMMA FinalStep ==
    ASSUME TypeOK, NEW q \in Request, Step(q)
    PROVE  RevocationKept
<1> USE DEF TypeOK
<1>1. \A t \in revoked : t \in Issued /\ t \in Token /\ t # NoToken
  BY SessionConstants DEF SessionConstants, TablesOK, Issued
<1>2. \A l, u, t, r : Begin(q, l, u, t, r) =>
          /\ pc'[q] = l /\ tok'[q] = t
          /\ \A o \in Request \ {q} : UNCHANGED <<pc[o], tok[o]>>
  BY DEF Begin, RequestsOK
<1>3. \A k, l : Goto(q, k, l) =>
          /\ pc'[q] = l /\ tok'[q] = tok[q]
          /\ \A o \in Request \ {q} : UNCHANGED <<pc[o], tok[o]>>
  BY DEF Goto, RequestsOK
<1>4. Finish(q) =>
          /\ pc'[q] = "idle"
          /\ \A o \in Request \ {q} : UNCHANGED <<pc[o], tok[o]>>
  BY DEF Finish, RequestsOK
<1>5. ASSUME NEW u \in User, NEW g \in 0..MaxReset, LoginRead(q, u, g) PROVE RevocationKept
  BY <1>1, <1>2, <1>5, FinalRequest DEF LoginRead, tokenVars, Holds
<1>6. CASE LoginWrite(q)
  <2>1. tok[q] = NoToken
    BY <1>6 DEF LoginWrite, Goto, RequestsOK
  <2> QED BY <1>1, <1>3, <1>6, <2>1, FinalRequest DEF LoginWrite, tokenVars, Holds
<1>7. CASE Mint(q)
  BY <1>4, <1>7, FinalRequest DEF Mint, Holds
<1>8. ASSUME NEW t \in Token, RefreshRead(q, t) PROVE RevocationKept
  BY <1>1, <1>2, <1>8, FinalRequest DEF RefreshRead, Usable, tokenVars, Holds
<1>9. CASE RefreshUser(q)
  BY <1>3, <1>4, <1>9, FinalRequest DEF RefreshUser, tokenVars, Goto, Holds
<1>10. CASE RefreshRevoke(q)
  BY <1>3, <1>10, FinalRequest DEF RefreshRevoke, Goto, Holds
<1>11. ASSUME NEW t \in Token, Logout(q, t) PROVE RevocationKept
  BY <1>11 DEF Logout, requestVars, RevocationKept, Holds
<1>12. ASSUME NEW u \in User, LogoutAll(q, u) PROVE RevocationKept
  BY <1>12 DEF LogoutAll, RevokeAllByUserID, requestVars, RevocationKept, Holds
<1>13. ASSUME NEW u \in User, ResetRead(q, u) PROVE RevocationKept
  BY <1>1, <1>2, <1>13, FinalRequest DEF ResetRead, tokenVars, Holds
<1>14. CASE ResetPurge(q)
  <2>1. revoked \subseteq revoked'
    BY <1>14 DEF ResetPurge, RevokeAllByUserID, tokenVars
  <2> QED BY <1>3, <1>14, <2>1, FinalRequest DEF ResetPurge, Holds
<1>15. CASE ResetWrite(q) \/ TouchWrite(q) \/ VerifyWrite(q) \/ Abort(q)
  <2>1. Finish(q) /\ revoked' = revoked
    BY <1>15 DEF ResetWrite, TouchWrite, VerifyWrite, Abort, tokenVars
  <2>2. \A t \in revoked : ~Holds(q, t)'
    BY <1>4, <2>1 DEF Holds
  <2>3. \A o \in Request \ {q} : UNCHANGED <<pc[o], tok[o]>>
    BY <1>4, <2>1
  <2> QED BY <2>1, <2>2, <2>3, FinalRequest
<1>16. ASSUME NEW u \in User, NEW l \in {"touch_write", "verify_write"}, AccountRead(q, u, l)
       PROVE  RevocationKept
  BY <1>1, <1>2, <1>16, FinalRequest DEF AccountRead, tokenVars, Holds
<1> QED BY <1>5, <1>6, <1>7, <1>8, <1>9, <1>10, <1>11, <1>12, <1>13, <1>14, <1>15, <1>16
        DEF Step

\* A revoked token stays revoked, and no refresh starts from it
\* (RevocationIsFinal): what logout, rotation and logout-all did is not undone.
THEOREM RevocationTheorem == Spec => RevocationIsFinal
<1>1. TypeOK /\ [Next]_vars => RevocationKept
  <2> SUFFICES ASSUME TypeOK, [Next]_vars PROVE RevocationKept
    OBVIOUS
  <2>1. CASE \E u \in User, b \in BOOLEAN : SetActive(u, b)
    BY <2>1 DEF SetActive, tokenVars, requestVars, RevocationKept, Holds
  <2>2. CASE \E t \in Token : Expire(t)
    BY <2>2 DEF Expire, requestVars, RevocationKept, Holds
  <2>3. CASE UNCHANGED vars
    BY <2>3 DEF vars, tokenVars, requestVars, RevocationKept, Holds
  <2> QED BY <2>1, <2>2, <2>3, FinalStep DEF Next
<1> QED BY <1>1, TypeCorrect, PTL DEF Spec, RevocationIsFinal

-----------------------------------------------------------------------------
(* Password resets.  A user is crossed when a reset ran beside another     *)
(* request of that user, or could not revoke.  For everybody else row,     *)
(* sessions and the memory of the requests follow the resets.              *)

AloneInReset ==
    \A q, o \in Request :
        InReset(q) /\ who[q] \notin crossed /\ o # q /\ pc[o] # "idle" => who[o] # who[q]

WritesBack == {"login_write", "touch_write", "verify_write", "reset_purge", "reset_write"}

\* The entity q will write back or mint from carries the current password, the
\* token it exchanges is of a session opened with it, and once a reset has
\* purged there is no session left.
UpToDate(q) ==
    /\ pc[q] \in WritesBack \/ (pc[q] = "mint" /\ tok[q] = NoToken) =>
          seen[q].hash = resets[who[q]]
    /\ Holds(q, tok[q]) /\ tok[q] # NoToken => credential[tok[q]] = resets[who[q]]
    /\ pc[q] = "reset_write" => Unrevoked(who[q]) = {}

ResetInv ==
    /\ AloneInReset
    /\ ResetForcesReloginUnlessCrossed
    /\ \A u \in User \ crossed : row[u].hash = resets[u]
    /\ \A q \in Request : who[q] \notin crossed => UpToDate(q)

LEMMA ResetInit == Init => ResetInv
<1>1. Init => Issued = {}
  BY DEF Init, Issued
<1>2. Init => \A u \in User : row[u].hash = resets[u]
  BY DEF Init, Row
<1>3. Init => AloneInReset /\ \A q \in Request : UpToDate(q)
  BY DEF Init, AloneInReset, InReset, UpToDate, WritesBack, Holds
<1> QED BY <1>1, <1>2, <1>3 DEF ResetInv, ResetForcesReloginUnlessCrossed

\* A request that begins crosses the user if one of the two is a reset.
LEMMA AloneBegin ==
    ASSUME TypeOK, AloneInReset, NEW q \in Request, NEW l, l # "reset_write",
           NEW u, NEW t, NEW r, Begin(q, l, u, t, r)
    PROVE  AloneInReset' /\ crossed \subseteq crossed'
<1>1. /\ pc'[q] = l /\ who'[q] = u /\ pc[q] = "idle"
      /\ \A o \in Request \ {q} : UNCHANGED <<pc[o], who[o]>>
  BY DEF Begin, TypeOK, RequestsOK
<1>2. /\ crossed \subseteq crossed'
      /\ \A o \in Request : pc[o] # "idle" /\ who[o] = u /\ (l = "reset_purge" \/ InReset(o))
            => u \in crossed'
  BY DEF Begin
<1>3. SUFFICES ASSUME NEW a \in Request, NEW o \in Request, InReset(a)',
                      who'[a] \notin crossed', o # a, pc'[o] # "idle"
               PROVE  who'[o] # who'[a]
  BY <1>2 DEF AloneInReset
<1>4. CASE a = q
  BY <1>1, <1>2, <1>3, <1>4 DEF InReset
<1>5. CASE o = q
  BY <1>1, <1>2, <1>3, <1>5 DEF InReset
<1>6. CASE a # q /\ o # q
  BY <1>1, <1>2, <1>3, <1>6 DEF InReset, AloneInReset
<1> QED BY <1>4, <1>5, <1>6

LEMMA AloneOnward ==
    ASSUME AloneInReset, crossed \subseteq crossed',
           \A o \in Request : pc'[o] # "idle" =>
               pc[o] # "idle" /\ who'[o] = who[o] /\ (InReset(o)' => InReset(o))
    PROVE  AloneInReset'
  BY DEF AloneInReset, InReset

\* A step of q that inserts nothing and stores no new password.
LEMMA CalmStep ==
    ASSUME TypeOK, ResetInv, NEW q \in Request, AloneInReset',
           UNCHANGED <<owner, credential, resets>>,
           revoked \subseteq revoked', crossed \subseteq crossed',
           \A u \in User \ crossed' : row'[u].hash = row[u].hash,
           \A o \in Request \ {q} : UNCHANGED <<pc[o], who[o], tok[o], seen[o]>>,
           who'[q] \notin crossed' => UpToDate(q)'
    PROVE  ResetInv'
<1>1. ResetForcesReloginUnlessCrossed'
  BY DEF ResetInv, ResetForcesReloginUnlessCrossed, Issued
<1>2. \A u \in User \ crossed' : row'[u].hash = resets'[u]
  BY DEF ResetInv
<1>3. ASSUME NEW o \in Request \ {q}, who'[o] \notin crossed' PROVE UpToDate(o)'
  <2>1. UpToDate(o)
    BY <1>3 DEF ResetInv
  <2>2. Unrevoked(who[o]) = {} => Unrevoked(who[o])' = {}
    BY DEF Unrevoked
  <2>3. UNCHANGED <<pc[o], who[o], tok[o], seen[o]>>
    OBVIOUS
  <2> QED BY <2>1, <2>2, <2>3 DEF UpToDate, Holds, Unrevoked
<1> QED BY <1>1, <1>2, <1>3 DEF ResetInv

\* Taking a request, with the row of the user or nothing in memory.
LEMMA ResetBegin ==
    ASSUME TypeOK, ResetInv, NEW q \in Request, NEW u \in User,
           NEW l \in {"login_write", "touch_write", "verify_write", "reset_purge"},
           Begin(q, l, u, NoToken, row[u]),
           UNCHANGED <<row, tokenVars, historyVars, purges, resets>>
    PROVE  ResetInv'
<1>1. AloneInReset' /\ crossed \subseteq crossed'
  BY AloneBegin DEF ResetInv
<1>2. /\ pc'[q] = l /\ who'[q] = u /\ tok'[q] = NoToken /\ seen'[q] = row[u]
      /\ \A o \in Request \ {q} : UNCHANGED <<pc[o], who[o], tok[o], seen[o]>>
  BY DEF Begin, TypeOK, RequestsOK
<1>3. who'[q] \notin crossed' => UpToDate(q)'
  BY <1>1, <1>2 DEF ResetInv, UpToDate, Holds
<1> QED BY <1>1, <1>2, <1>3, CalmStep DEF tokenVars, historyVars

LEMMA ResetRefreshRead ==
    ASSUME TypeOK, ResetInv, NEW q \in Request, NEW t \in Token, RefreshRead(q, t)
    PROVE  ResetInv'
<1>1. AloneInReset' /\ crossed \subseteq crossed'
  BY AloneBegin DEF RefreshRead, ResetInv
<1>2. /\ pc'[q] = "refresh_user" /\ who'[q] = owner[t] /\ tok'[q] = t
      /\ \A o \in Request \ {q} : UNCHANGED <<pc[o], who[o], tok[o], seen[o]>>
  BY DEF RefreshRead, Begin, TypeOK, RequestsOK
<1>3. /\ t \in Issued \ revoked
      /\ UNCHANGED <<row, owner, revoked, credential, resets>>
  BY DEF RefreshRead, Usable, tokenVars
<1>4. who'[q] \notin crossed' => UpToDate(q)'
  BY <1>1, <1>2, <1>3
     DEF ResetInv, ResetForcesReloginUnlessCrossed, UpToDate, WritesBack
<1> QED BY <1>1, <1>2, <1>3, <1>4, CalmStep

\* The end of a request that may write its user's row, with the password it read.
LEMMA ResetFinish ==
    ASSUME TypeOK, ResetInv, NEW q \in Request, Finish(q),
           UNCHANGED <<tokenVars, historyVars, purges, resets, crossed>>,
           \A u \in User \ crossed : row'[u].hash = row[u].hash
    PROVE  ResetInv'
<1>1. /\ pc'[q] = "idle"
      /\ \A o \in Request \ {q} : UNCHANGED <<pc[o], who[o], tok[o], seen[o]>>
  BY DEF Finish, TypeOK, RequestsOK
<1>2. AloneInReset'
  BY <1>1, AloneOnward DEF ResetInv, InReset
<1>3. UpToDate(q)'
  BY <1>1 DEF UpToDate, WritesBack, Holds
<1> QED BY <1>1, <1>2, <1>3, CalmStep DEF tokenVars, historyVars

\* A write of the entity in memory leaves the password of the row as it is.
LEMMA SameHash ==
    ASSUME TypeOK, ResetInv, NEW q \in Request, pc[q] \in WritesBack,
           NEW r \in Row, r.hash = seen[q].hash, Update(who[q], r),
           NEW u \in User \ crossed
    PROVE  row'[u].hash = row[u].hash
<1>1. row'[u] = IF u = who[q] THEN r ELSE row[u]
  BY DEF Update, TypeOK, TablesOK
<1>2. CASE u = who[q]
  <2>1. UpToDate(q) /\ row[u].hash = resets[u]
    BY <1>2 DEF ResetInv
  <2>2. seen[q].hash = resets[u]
    BY <1>2, <2>1 DEF UpToDate
  <2> QED BY <1>1, <1>2, <2>1, <2>2
<1> QED BY <1>1, <1>2

\* The new token is of a session opened with the current password.
LEMMA ResetMint ==
    ASSUME TypeOK, HeldTokens, ResetInv, NEW q \in Request, Mint(q)
    PROVE  ResetInv'
<1>1. PICK n \in Token \ Issued :
        /\ owner' = [owner EXCEPT ![n] = who[q]]
        /\ credential' = [credential EXCEPT ![n] =
              IF tok[q] = NoToken THEN seen[q].hash ELSE credential[tok[q]]]
  BY DEF Mint
<1>2. /\ UNCHANGED <<row, revoked, resets, crossed>>
      /\ pc[q] = "mint" /\ who[q] \in User /\ tok[q] \in Token \cup {NoToken}
  BY DEF Mint, TypeOK, RequestsOK
<1>3. /\ pc'[q] = "idle"
      /\ \A o \in Request \ {q} : UNCHANGED <<pc[o], who[o], tok[o], seen[o]>>
  BY DEF Mint, Finish, TypeOK, RequestsOK
<1>4. AloneInReset'
  BY <1>2, <1>3, AloneOnward DEF ResetInv, InReset
<1>5. /\ \A t \in Token : owner'[t] = IF t = n THEN who[q] ELSE owner[t]
      /\ \A t \in Token \ {n} : credential'[t] = credential[t]
  BY <1>1 DEF TypeOK, TablesOK, HistoryOK
<1>6. ResetForcesReloginUnlessCrossed'
  <2> SUFFICES ASSUME NEW t \in Issued' \ revoked', owner'[t] \notin crossed'
               PROVE  credential'[t] = resets'[owner'[t]]
    BY DEF ResetForcesReloginUnlessCrossed
  <2>1. t \in Token
    BY DEF Issued
  <2>2. CASE t = n
    <3>1. UpToDate(q) /\ owner'[t] = who[q]
      BY <1>2, <1>5, <2>1, <2>2 DEF ResetInv
    <3>2. credential'[t] = IF tok[q] = NoToken THEN seen[q].hash ELSE credential[tok[q]]
      BY <1>1, <2>1, <2>2 DEF TypeOK, HistoryOK
    <3> QED BY <1>2, <3>1, <3>2 DEF UpToDate, Holds
  <2>3. CASE t # n
    BY <1>2, <1>5, <2>1, <2>3 DEF ResetInv, ResetForcesReloginUnlessCrossed, Issued
  <2> QED BY <2>2, <2>3
<1>7. ASSUME NEW o \in Request, who'[o] \notin crossed' PROVE UpToDate(o)'
  <2>1. CASE o = q
    BY <1>3, <2>1 DEF UpToDate, WritesBack, Holds
  <2>2. CASE o # q
    <3>1. UNCHANGED <<pc[o], who[o], tok[o], seen[o], resets, revoked>>
      BY <1>2, <1>3, <2>2
    <3>2. UpToDate(o) /\ who[o] \notin crossed
      BY <1>2, <1>7, <3>1 DEF ResetInv
    <3>3. Holds(o, tok[o]) /\ tok[o] # NoToken => credential'[tok[o]] = credential[tok[o]]
      <4>1. tok[o] \in Token \cup {NoToken}
        BY DEF TypeOK, RequestsOK
      <4>2. Holds(o, tok[o]) /\ tok[o] # NoToken => tok[o] \in Token \ {n}
        BY <4>1 DEF HeldTokens
      <4> QED BY <1>5, <4>2
    <3>4. pc[o] = "reset_write" => Unrevoked(who[o])' \subseteq Unrevoked(who[o])
      <4>1. pc[o] = "reset_write" => who[q] # who[o]
        BY <1>2, <2>2, <3>2 DEF ResetInv, AloneInReset, InReset
      <4> QED BY <1>5, <3>1, <4>1 DEF Unrevoked
    <3>5. pc[o] = "reset_write" => Unrevoked(who[o])' = {}
      BY <3>2, <3>4 DEF UpToDate
    <3> QED BY <3>1, <3>2, <3>3, <3>5 DEF UpToDate, Holds, Unrevoked
  <2> QED BY <2>1, <2>2
<1> QED BY <1>2, <1>4, <1>6, <1>7 DEF ResetInv

\* The new password is stored: of a user who is not crossed there is neither a
\* session nor another request.
LEMMA ResetWriteInv ==
    ASSUME TypeOK, ResetInv, NEW q \in Request, ResetWrite(q)
    PROVE  ResetInv'
<1> DEFINE u == who[q]
<1>1. /\ UNCHANGED <<owner, revoked, credential, crossed>>
      /\ pc[q] = "reset_write" /\ u \in User /\ resets[u] \in Nat
  BY DEF ResetWrite, tokenVars, historyVars, TypeOK, RequestsOK, HistoryOK
<1>2. /\ pc'[q] = "idle"
      /\ \A o \in Request \ {q} : UNCHANGED <<pc[o], who[o], tok[o], seen[o]>>
  BY DEF ResetWrite, Finish, TypeOK, RequestsOK
<1>3. AloneInReset'
  BY <1>1, <1>2, AloneOnward DEF ResetInv, InReset
<1>4. /\ resets'[u] = resets[u] + 1
      /\ \A v \in User \ {u} : resets'[v] = resets[v] /\ row'[v] = row[v]
  BY <1>1 DEF ResetWrite, Update, TypeOK, TablesOK, HistoryOK
<1>5. row'[u].hash = resets[u] + 1
  <2>1. [seen[q] EXCEPT !.hash = resets[u] + 1].hash = resets[u] + 1
    BY DEF TypeOK, RequestsOK, Row
  <2>2. row'[u] = [seen[q] EXCEPT !.hash = resets[u] + 1]
    BY <1>1 DEF ResetWrite, Update, TypeOK, TablesOK
  <2> QED BY <2>1, <2>2
<1>6. \A v \in User \ crossed' : row'[v].hash = resets'[v]
  BY <1>1, <1>4, <1>5 DEF ResetInv
<1>7. u \notin crossed => Unrevoked(u) = {}
  BY <1>1 DEF ResetInv, UpToDate
<1>8. ResetForcesReloginUnlessCrossed'
  <2> SUFFICES ASSUME NEW t \in Issued' \ revoked', owner'[t] \notin crossed'
               PROVE  credential'[t] = resets'[owner'[t]]
    BY DEF ResetForcesReloginUnlessCrossed
  <2>1. t \in Issued \ revoked /\ owner[t] \notin crossed /\ owner[t] \in User /\ t \in Token
    BY <1>1 DEF Issued, TypeOK, TablesOK
  <2>2. owner[t] # u
    BY <1>7, <2>1 DEF Unrevoked
  <2> QED BY <1>1, <1>4, <2>1, <2>2 DEF ResetInv, ResetForcesReloginUnlessCrossed
<1>9. ASSUME NEW o \in Request, who'[o] \notin crossed' PROVE UpToDate(o)'
  <2>1. CASE pc'[o] = "idle"
    BY <2>1 DEF UpToDate, WritesBack, Holds
  <2>2. CASE pc'[o] # "idle"
    <3>1. o # q /\ UNCHANGED <<pc[o], who[o], tok[o], seen[o]>> /\ pc[o] # "idle"
      BY <1>2, <2>2
    <3>2. UpToDate(o) /\ who[o] \notin crossed /\ who[o] \in User
      BY <1>1, <1>9, <3>1 DEF ResetInv, TypeOK, RequestsOK
    <3>3. who[o] # u
      BY <1>1, <3>1, <3>2 DEF ResetInv, AloneInReset, InReset
    <3>4. resets'[who[o]] = resets[who[o]] /\ Unrevoked(who[o])' = Unrevoked(who[o])
      BY <1>1, <1>4, <3>1, <3>2, <3>3 DEF Unrevoked
    <3> QED BY <1>1, <3>1, <3>2, <3>4 DEF UpToDate, Holds
  <2> QED BY <2>1, <2>2
<1> QED BY <1>1, <1>3, <1>6, <1>8, <1>9 DEF ResetInv

\* A purge leaves its user without a session, or crosses the user.
LEMMA ResetPurgeInv ==
    ASSUME TypeOK, ResetInv, NEW q \in Request, ResetPurge(q)
    PROVE  ResetInv'
<1>1. /\ pc[q] = "reset_purge" /\ pc'[q] = "reset_write"
      /\ UNCHANGED <<who, tok, seen, row, resets, owner, credential>>
      /\ \A o \in Request \ {q} : UNCHANGED pc[o]
      /\ revoked \subseteq revoked' /\ crossed \subseteq crossed'
  BY DEF ResetPurge, Goto, RevokeAllByUserID, tokenVars, historyVars, TypeOK, RequestsOK
<1>2. AloneInReset'
  <2>1. \A o \in Request : pc'[o] # "idle" =>
           pc[o] # "idle" /\ who'[o] = who[o] /\ (InReset(o)' => InReset(o))
    BY <1>1 DEF InReset
  <2> QED BY <1>1, <2>1, AloneOnward DEF ResetInv
<1>3. who'[q] \notin crossed' => UpToDate(q)'
  <2>1. SUFFICES ASSUME who[q] \notin crossed' PROVE UpToDate(q)'
    BY <1>1
  <2>2. RevokeAllByUserID(who[q])
    BY <2>1 DEF ResetPurge
  <2>3. Unrevoked(who[q])' = {}
    BY <1>1, <2>2 DEF RevokeAllByUserID, Unrevoked
  <2>4. seen[q].hash = resets[who[q]]
    BY <1>1, <2>1 DEF ResetInv, UpToDate, WritesBack
  <2> QED BY <1>1, <2>3, <2>4 DEF UpToDate, Holds
<1> QED BY <1>1, <1>2, <1>3, CalmStep

\* The steps of a refresh, and a login that goes on to mint.
LEMMA ResetForward ==
    ASSUME TypeOK, ResetInv, NEW q \in Request,
           LoginWrite(q) \/ RefreshUser(q) \/ RefreshRevoke(q)
    PROVE  ResetInv'
<1>1. CASE LoginWrite(q)
  <2>1. /\ pc[q] = "login_write" /\ pc'[q] = "mint" /\ tok[q] = NoToken
        /\ UNCHANGED <<who, tok, seen, crossed>>
        /\ \A o \in Request \ {q} : UNCHANGED pc[o]
        /\ seen[q] \in Row
    BY <1>1 DEF LoginWrite, Goto, TypeOK, RequestsOK
  <2>2. \A v \in User \ crossed : row'[v].hash = row[v].hash
    BY <1>1, <2>1, SameHash DEF LoginWrite, WritesBack
  <2>3. AloneInReset'
    BY <2>1, AloneOnward DEF ResetInv, InReset
  <2>4. UNCHANGED <<resets, owner, revoked, credential>>
    BY <1>1 DEF LoginWrite, tokenVars, historyVars
  <2>5. who'[q] \notin crossed' => UpToDate(q)'
    BY <2>1, <2>4 DEF ResetInv, UpToDate, WritesBack
  <2> QED BY <2>1, <2>2, <2>3, <2>4, <2>5, CalmStep
<1>2. CASE RefreshUser(q)
  <2>1. CASE Finish(q)
    BY <1>2, <2>1, ResetFinish DEF RefreshUser
  <2>2. CASE Goto(q, "refresh_user", "refresh_revoke")
    <3>1. /\ pc[q] = "refresh_user" /\ pc'[q] = "refresh_revoke"
          /\ UNCHANGED <<who, tok, seen, crossed, row, resets, owner, revoked, credential>>
          /\ \A o \in Request \ {q} : UNCHANGED pc[o]
      BY <1>2, <2>2 DEF RefreshUser, Goto, tokenVars, historyVars, TypeOK, RequestsOK
    <3>2. AloneInReset'
      BY <3>1, AloneOnward DEF ResetInv, InReset
    <3>3. who'[q] \notin crossed' => UpToDate(q)'
      BY <3>1 DEF ResetInv, UpToDate, WritesBack, Holds
    <3> QED BY <3>1, <3>2, <3>3, CalmStep
  <2> QED BY <1>2, <2>1, <2>2 DEF RefreshUser
<1>3. CASE RefreshRevoke(q)
  <2>1. /\ pc[q] = "refresh_revoke" /\ pc'[q] = "mint" /\ tok[q] # NoToken
        /\ UNCHANGED <<who, tok, seen, crossed, row, resets, owner, credential>>
        /\ \A o \in Request \ {q} : UNCHANGED pc[o]
        /\ revoked \subseteq revoked'
    BY <1>3, SessionConstants
       DEF SessionConstants, RefreshRevoke, Goto, historyVars, TypeOK, RequestsOK, Issued
  <2>2. AloneInReset'
    BY <2>1, AloneOnward DEF ResetInv, InReset
  <2>3. who'[q] \notin crossed' => UpToDate(q)'
    BY <2>1 DEF ResetInv, UpToDate, WritesBack, Holds
  <2> QED BY <2>1, <2>2, <2>3, CalmStep
<1> QED BY <1>1, <1>2, <1>3

\* Steps that only revoke or expire tokens, or change whether a user is active.
LEMMA ResetIdle ==
    ASSUME TypeOK, ResetInv, UNCHANGED <<requestVars, crossed, resets, owner, credential>>,
           revoked \subseteq revoked', \A u \in User : row'[u].hash = row[u].hash
    PROVE  ResetInv'
<1>1. AloneInReset'
  BY DEF ResetInv, AloneInReset, InReset, requestVars
<1>2. ResetForcesReloginUnlessCrossed'
  BY DEF ResetInv, ResetForcesReloginUnlessCrossed, Issued
<1>3. ASSUME NEW q \in Request, who'[q] \notin crossed' PROVE UpToDate(q)'
  <2>1. UpToDate(q)
    BY <1>3 DEF ResetInv, requestVars
  <2> QED BY <2>1 DEF UpToDate, Holds, Unrevoked, requestVars
<1> QED BY <1>1, <1>2, <1>3 DEF ResetInv

LEMMA ResetStep ==
    ASSUME TypeOK, HeldTokens, ResetInv, [Next]_vars
    PROVE  ResetInv'
<1>1. ASSUME NEW q \in Request, Step(q) PROVE ResetInv'
  <2>1. CASE \E u \in User, g \in 0..MaxReset : LoginRead(q, u, g)
    BY <2>1, ResetBegin DEF LoginRead
  <2>2. CASE LoginWrite(q) \/ RefreshUser(q) \/ RefreshRevoke(q)
    BY <2>2, ResetForward
  <2>3. CASE Mint(q)
    BY <2>3, ResetMint
  <2>4. CASE \E t \in Token : RefreshRead(q, t)
    BY <2>4, ResetRefreshRead
  <2>5. CASE (\E t \in Token : Logout(q, t)) \/ (\E u \in User : LogoutAll(q, u))
    <3>1. /\ UNCHANGED <<requestVars, crossed, resets, owner, credential, row>>
          /\ revoked \subseteq revoked'
      BY <2>5 DEF Logout, LogoutAll, RevokeAllByUserID, historyVars
    <3> QED BY <3>1, ResetIdle
  <2>6. CASE \E u \in User : ResetRead(q, u)
    BY <2>6, ResetBegin DEF ResetRead
  <2>7. CASE ResetPurge(q)
    BY <2>7, ResetPurgeInv
  <2>8. CASE ResetWrite(q)
    BY <2>8, ResetWriteInv
  <2>9. CASE \E u \in User, l \in {"touch_write", "verify_write"} : AccountRead(q, u, l)
    BY <2>9, ResetBegin DEF AccountRead
  <2>10. CASE TouchWrite(q) \/ VerifyWrite(q)
    <3>1. /\ Finish(q) /\ pc[q] \in WritesBack
          /\ UNCHANGED <<tokenVars, historyVars, purges, resets, crossed>>
      BY <2>10 DEF TouchWrite, VerifyWrite, WritesBack
    <3>2. seen[q] \in Row
      BY DEF TypeOK, RequestsOK
    <3>3. \E r \in Row : r.hash = seen[q].hash /\ Update(who[q], r)
      <4>1. [seen[q] EXCEPT !.verified = TRUE] \in Row
            /\ [seen[q] EXCEPT !.verified = TRUE].hash = seen[q].hash
        BY <3>2 DEF Row
      <4> QED BY <2>10, <3>2, <4>1 DEF TouchWrite, VerifyWrite
    <3>4. \A u \in User \ crossed : row'[u].hash = row[u].hash
      BY <3>1, <3>3, SameHash
    <3> QED BY <3>1, <3>4, ResetFinish
  <2>11. CASE Abort(q)
    BY <2>11, ResetFinish DEF Abort
  <2> QED BY <1>1, <2>1, <2>2, <2>3, <2>4, <2>5, <2>6, <2>7, <2>8, <2>9, <2>10, <2>11
          DEF Step
<1>2. ASSUME NEW u \in User, NEW b \in BOOLEAN, SetActive(u, b) PROVE ResetInv'
  <2>1. \A v \in User : row'[v].hash = row[v].hash
    BY <1>2 DEF SetActive, TypeOK, TablesOK, Row
  <2> QED BY <1>2, <2>1, ResetIdle DEF SetActive, tokenVars, historyVars
<1>3. ASSUME NEW t \in Token, Expire(t) PROVE ResetInv'
  BY <1>3, ResetIdle DEF Expire, historyVars
<1>4. CASE UNCHANGED vars
  BY <1>4, ResetIdle DEF vars, tokenVars, historyVars
<1> QED BY <1>1, <1>2, <1>3, <1>4 DEF Next

\* A session opened with a replaced password outlives the reset only if the reset
\* ran beside another request of the user, or failed to revoke: the order of
\* the two writes in reset_password.go is safe without such company.
THEOREM ResetTheorem == Spec => []ResetForcesReloginUnlessCrossed
<1>1. TypeOK /\ IInv /\ ResetInv /\ [Next]_vars => ResetInv'
  BY ResetStep DEF IInv
<1>2. ResetInv => ResetForcesReloginUnlessCrossed
  BY DEF ResetInv
<1> QED BY <1>1, <1>2, ResetInit, SessionInvariant, PTL DEF Spec

-----------------------------------------------------------------------------
(* One request at a time.                                                  *)

Undisturbed == shared = {} /\ mixed = {} /\ crossed = {}

LEMMA LoneStep ==
    ASSUME NEW q \in Request, Request = {q}, ~Faults, Undisturbed, [Next]_vars
    PROVE  Undisturbed'
<1>1. \A l, u, t, r : Begin(q, l, u, t, r) => crossed' = crossed
  BY DEF Begin
<1>2. \A u : pc[q] \in {"idle", "reset_purge"} /\ RevokeAllByUserID(u) =>
          UNCHANGED <<shared, mixed>>
  BY DEF RevokeAllByUserID, Holds
<1>3. ASSUME NEW t \in Token, RefreshRead(q, t) PROVE Undisturbed'
  BY <1>1, <1>3 DEF RefreshRead, Begin, Holds, Undisturbed
<1>4. CASE (\E u \in User : LogoutAll(q, u)) \/ ResetPurge(q)
  BY <1>2, <1>4 DEF LogoutAll, ResetPurge, Goto, Undisturbed
<1>5. CASE \/ \E u \in User, g \in 0..MaxReset : LoginRead(q, u, g)
           \/ \E u \in User : ResetRead(q, u)
           \/ \E u \in User, l \in {"touch_write", "verify_write"} : AccountRead(q, u, l)
  BY <1>1, <1>5 DEF LoginRead, ResetRead, AccountRead, historyVars, Undisturbed
<1>6. CASE \/ LoginWrite(q) \/ Mint(q) \/ RefreshUser(q) \/ RefreshRevoke(q)
           \/ (\E t \in Token : Logout(q, t)) \/ ResetWrite(q)
           \/ TouchWrite(q) \/ VerifyWrite(q) \/ Abort(q)
           \/ (\E u \in User, b \in BOOLEAN : SetActive(u, b))
           \/ (\E t \in Token : Expire(t)) \/ UNCHANGED vars
  BY <1>6 DEF LoginWrite, Mint, RefreshUser, RefreshRevoke, Logout, ResetWrite,
     TouchWrite, VerifyWrite, Abort, SetActive, Expire, vars, historyVars, Undisturbed
<1> QED BY <1>3, <1>4, <1>5, <1>6 DEF Next, Step

\* Served one at a time and without failing calls, requests keep the documents'
\* promises: a refresh token buys one successor, logout-all ends every session,
\* and a reset ends every session opened with the old password.
THEOREM LoneRequestsKeepPromises ==
    ASSUME NEW q \in Request, Request = {q}, ~Faults
    PROVE  Spec => [](SingleUse /\ LogoutAllEndsSessions /\ ResetForcesRelogin)
<1>1. Init => Undisturbed
  BY DEF Init, Undisturbed
<1>2. Undisturbed /\ [Next]_vars => Undisturbed'
  BY LoneStep
<1>3. TypeOK /\ IInv /\ ResetForcesReloginUnlessCrossed /\ Undisturbed =>
          SingleUse /\ LogoutAllEndsSessions /\ ResetForcesRelogin
  <2> SUFFICES ASSUME TypeOK, IInv, ResetForcesReloginUnlessCrossed, Undisturbed
               PROVE  SingleUse /\ LogoutAllEndsSessions /\ ResetForcesRelogin
    OBVIOUS
  <2>1. SingleUse
    BY DEF TypeOK, HistoryOK, IInv, Undisturbed, SingleUseUnlessShared, SingleUse
  <2>2. LogoutAllEndsSessions
    BY DEF IInv, Undisturbed, LogoutAllEndsSessionsUnlessMixed, LogoutAllEndsSessions
  <2>3. ResetForcesRelogin
    BY DEF Undisturbed, ResetForcesReloginUnlessCrossed, ResetForcesRelogin
  <2> QED BY <2>1, <2>2, <2>3
<1> QED BY <1>1, <1>2, <1>3, ResetTheorem, SessionInvariant, PTL DEF Spec

=============================================================================
