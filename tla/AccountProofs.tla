--------------------------- MODULE AccountProofs ---------------------------
(***************************************************************************)
(* Theorems about Account, for every number of requests and codes, every    *)
(* attempt limit and every bound: its types, that nothing is lost before a  *)
(* write from an outdated entity, when a second registration is answered    *)
(* with 500, and that every other step is one whole request of              *)
(* AtomicAccount.                                                           *)
(***************************************************************************)
EXTENDS Account, TLAPS

\* A new row is a row.
LEMMA NewRows ==
    /\ NoRow \in Row
    /\ NewUser \in Row /\ NewUser.exists
    /\ \A b \in BOOLEAN : AddedUser(b) \in Row /\ AddedUser(b).exists
<1>1. NoRow \in Row
  BY AccountConstants DEF AccountConstants, NoRow, Row, Email
<1>2. \A b \in BOOLEAN : [NoRow EXCEPT !.exists = TRUE, !.active = b] \in Row
  BY <1>1 DEF Row
<1>3. NewUser \in Row
  <2>1. NewUser = [AddedUser(TRUE) EXCEPT !.hash = 1]
    BY <1>1 DEF NewUser, AddedUser, NoRow
  <2>2. \A r \in Row, h \in 0..MaxHash : [r EXCEPT !.hash = h] \in Row
    BY DEF Row
  <2>3. 1 \in 0..MaxHash
    BY AccountConstants DEF AccountConstants
  <2>4. AddedUser(TRUE) \in Row
    BY <1>2 DEF AddedUser
  <2> QED BY <2>1, <2>2, <2>3, <2>4
<1>4. NewUser.exists
  BY <1>1 DEF NewUser, NoRow
<1>5. ASSUME NEW b \in BOOLEAN PROVE AddedUser(b) \in Row /\ AddedUser(b).exists
  BY <1>1, <1>2 DEF AddedUser, NoRow
<1> QED BY <1>1, <1>3, <1>4, <1>5

\* The columns of a row that are promised have their types.
LEMMA ToldTyped == ASSUME NEW r \in Row PROVE Told(r) \in Promise
  BY DEF Told, Promise, Row

\* What the login handler makes of an entity is an entity of the same account.
LEMMA Entities ==
    ASSUME NEW r \in Row, locks \in 0..MaxLock
    PROVE  /\ Unlock(r) \in Row /\ Unlock(r).exists = r.exists
           /\ CountFailure(r) \in Row /\ CountFailure(r).exists = r.exists
           /\ locks < MaxLock => Lock(CountFailure(r)) \in Row
           /\ Lock(CountFailure(r)).exists = r.exists
<1>1. \A s \in Row : \A n \in 0..MaxLock : [s EXCEPT !.attempts = 0, !.lock = n] \in Row
  BY DEF Row
<1>2. 0 \in 0..MaxLock
  BY AccountConstants DEF AccountConstants
<1>3. Unlock(r) \in Row
  BY <1>1, <1>2, Zenon DEF Unlock
<1>4. \A s \in Row : s.attempts + 1 \in Nat
  BY DEF Row
<1>5. CountFailure(r) \in Row
  BY <1>4 DEF CountFailure, Row
<1>6. ASSUME NEW s \in Row, locks < MaxLock PROVE Lock(s) \in Row
  <2>1. locks + 1 \in 0..MaxLock
    BY <1>6, AccountConstants DEF AccountConstants
  <2>2. s.attempts + 1 \in Nat
    BY <1>4
  <2> QED BY <2>1, <2>2 DEF Lock, Row
<1>7. \A s \in Row : /\ Unlock(s).exists = s.exists
                     /\ CountFailure(s).exists = s.exists
                     /\ Lock(s).exists = s.exists
  BY DEF Unlock, CountFailure, Lock, Row
<1> QED BY <1>3, <1>5, <1>6, <1>7

\* Read keeps the types if it is given an entity of the account.
LEMMA ReadTyped ==
    ASSUME TypeOK, NEW q \in Request, NEW l \in Steps \ {"idle", "create"},
           NEW r \in Row, r.exists, NEW c \in Code \cup {NoCode},
           l = "reset_write" => c \in Code,
           Read(q, l, r, c), locks' \in locks..MaxLock
    PROVE  TypeOK'
<1>1. RequestsOK'
  <2>1. pc' \in [Request -> Steps] /\ seen' \in [Request -> Row]
        /\ code' \in [Request -> Code \cup {NoCode}] /\ fresh' \subseteq Request
    BY DEF TypeOK, RequestsOK, Read
  <2>2. ASSUME NEW o \in Request
        PROVE  /\ pc'[o] \notin {"idle", "create"} => seen'[o].exists /\ row'.exists
               /\ pc'[o] = "reset_write" => code'[o] \in Code
    <3>1. CASE o = q
      BY <3>1 DEF TypeOK, RequestsOK, Read
    <3>2. CASE o # q
      BY <3>2 DEF TypeOK, RequestsOK, Read
    <3> QED BY <3>1, <3>2
  <2> QED BY <2>1, <2>2 DEF RequestsOK
<1>2. DatabaseOK'
  BY DEF TypeOK, Read, DatabaseOK
<1>3. HistoryOK'
  BY DEF TypeOK, Read, HistoryOK
<1> QED BY <1>1, <1>2, <1>3 DEF TypeOK

\* The end of a request keeps the requests' types whatever row of the account
\* it leaves behind.
LEMMA FinishTyped ==
    ASSUME TypeOK, NEW q \in Request, Finish(q), row.exists => row'.exists,
           fresh' \subseteq fresh
    PROVE  RequestsOK'
<1>1. pc' \in [Request -> Steps] /\ seen' \in [Request -> Row]
      /\ code' \in [Request -> Code \cup {NoCode}] /\ fresh' \subseteq Request
  BY NewRows DEF TypeOK, RequestsOK, Finish, Steps
<1>2. ASSUME NEW o \in Request
      PROVE  /\ pc'[o] \notin {"idle", "create"} => seen'[o].exists /\ row'.exists
             /\ pc'[o] = "reset_write" => code'[o] \in Code
  <2>1. CASE o = q
    BY <2>1 DEF TypeOK, RequestsOK, Finish
  <2>2. CASE o # q
    BY <2>2 DEF TypeOK, RequestsOK, Finish
  <2> QED BY <2>1, <2>2
<1> QED BY <1>1, <1>2 DEF RequestsOK

\* What a write of an entity may change has its types after it.
Written ==
    /\ RequestsOK'
    /\ row' \in Row /\ taken' \in BOOLEAN
    /\ promised' \in Promise
    /\ fails' \in 0..MaxLoginAttempts
    /\ sighted' \subseteq Request

\* Update writes an entity of the account.
LEMMA UpdateTyped ==
    ASSUME TypeOK, NEW q \in Request, NEW t \in Promise, NEW n \in 0..MaxLoginAttempts,
           Update(q, t, n), pc[q] \notin {"idle", "create"}
    PROVE  Written
<1>1. row' \in Row /\ row'.exists /\ taken' \in BOOLEAN /\ fresh' \subseteq fresh
  BY DEF TypeOK, RequestsOK, DatabaseOK, Update
<1>2. promised' \in Promise
  BY ToldTyped DEF TypeOK, RequestsOK, Update
<1>3. fails' \in 0..MaxLoginAttempts
  BY AccountConstants DEF AccountConstants, Update
<1>4. sighted' \subseteq Request
  BY DEF TypeOK, HistoryOK, Update, Moves
<1>5. Finish(q)
  BY DEF Update
<1> QED BY <1>1, <1>2, <1>3, <1>4, <1>5, FinishTyped DEF Written

LEMMA UpdateWithCodeTyped ==
    ASSUME TypeOK, NEW q \in Request, NEW k \in {"verify", "reset"}, UpdateWithCode(q, k),
           pc[q] \notin {"idle", "create"}
    PROVE  Written /\ codes' \in [Code -> {"none", "verify", "reset"}]
<1>1. codes' \in [Code -> {"none", "verify", "reset"}]
  BY DEF UpdateWithCode, TypeOK, DatabaseOK
<1>2. Update(q, promised, fails)
  BY DEF UpdateWithCode
<1>3. promised \in Promise /\ fails \in 0..MaxLoginAttempts
  BY DEF TypeOK, HistoryOK
<1> QED BY <1>1, <1>2, <1>3, UpdateTyped

LEMMA InitTyped == Init => TypeOK
<1> SUFFICES ASSUME Init PROVE TypeOK
  OBVIOUS
<1>1. row \in Row
  <2>1. \A r \in Row : [r EXCEPT !.verified = TRUE] \in Row
    BY DEF Row
  <2> QED BY <2>1, NewRows DEF Init
<1>2. DatabaseOK
  <2>1. taken \in BOOLEAN
    BY DEF Init
  <2>2. codes \in [Code -> {"none", "verify", "reset"}] /\ lapsed \subseteq Code
    BY DEF Init
  <2>3. locks \in 0..MaxLock /\ passed \in 0..locks
    BY AccountConstants DEF AccountConstants, Init
  <2> QED BY <1>1, <2>1, <2>2, <2>3 DEF DatabaseOK
<1>3. RequestsOK
  BY NewRows DEF Init, RequestsOK, Steps
<1>4. HistoryOK
  <2>1. fails \in 0..MaxLoginAttempts /\ uses \in [Code -> 0..2]
    BY AccountConstants DEF AccountConstants, Init
  <2>2. promised \in Promise
    BY <1>1, ToldTyped DEF Init
  <2>3. sighted \subseteq Request /\ blundered \in BOOLEAN
    BY DEF Init
  <2> QED BY <2>1, <2>2, <2>3 DEF HistoryOK
<1> QED BY <1>2, <1>3, <1>4 DEF TypeOK

\* Nothing happens.
LEMMA StutterTyped == TypeOK /\ UNCHANGED vars => TypeOK'
  BY DEF TypeOK, DatabaseOK, RequestsOK, HistoryOK, vars, requestVars, historyVars

LEMMA RegisterTyped ==
    ASSUME TypeOK, NEW q \in Request,
           \/ RegisterRead(q) \/ RegisterCreate(q) \/ RegisterAnother(q)
           \/ RegisterClash(q) \/ RegisterWrite(q)
    PROVE  TypeOK'
<1>1. CASE RegisterRead(q)
  <2>1. RequestsOK'
    BY <1>1 DEF RegisterRead, TypeOK, RequestsOK, Steps
  <2>2. HistoryOK'
    BY <1>1 DEF RegisterRead, TypeOK, HistoryOK
  <2> QED BY <1>1, <2>1, <2>2 DEF RegisterRead, TypeOK, DatabaseOK
<1>2. CASE RegisterAnother(q) \/ RegisterClash(q)
  <2>1. RequestsOK'
    BY <1>2, FinishTyped DEF RegisterAnother, RegisterClash
  <2> QED BY <1>2, <2>1 DEF RegisterAnother, RegisterClash, TypeOK, DatabaseOK, HistoryOK
<1>3. CASE RegisterCreate(q)
  <2>1. row' \in Row /\ row'.exists
    BY <1>3, NewRows DEF RegisterCreate
  <2>2. RequestsOK'
    BY <1>3, <2>1, NewRows DEF RegisterCreate, TypeOK, RequestsOK, Steps
  <2>3. promised' \in Promise
    BY <1>3, NewRows, ToldTyped DEF RegisterCreate
  <2> QED BY <1>3, <2>1, <2>2, <2>3 DEF RegisterCreate, TypeOK, DatabaseOK, HistoryOK
<1>4. CASE RegisterWrite(q)
  BY <1>4, UpdateWithCodeTyped DEF RegisterWrite, Written, TypeOK, DatabaseOK, HistoryOK
<1> QED BY <1>1, <1>2, <1>3, <1>4

LEMMA LoginTyped ==
    ASSUME TypeOK, NEW q \in Request,
           \/ \E g \in 0..MaxHash : LoginRight(q, g) \/ LoginWrong(q, g) \/ LoginLock(q, g)
           \/ LoginWrite(q)
    PROVE  TypeOK'
<1>1. row \in Row /\ locks \in 0..MaxLock /\ locks + 1 \in locks..(locks + 1)
      /\ locks \in locks..MaxLock /\ NoCode \in Code \cup {NoCode}
  BY AccountConstants DEF AccountConstants, TypeOK, DatabaseOK
<1>2. ASSUME NEW g \in 0..MaxHash, LoginRight(q, g) PROVE TypeOK'
  <2>1. row.exists
    BY <1>2 DEF LoginRight, Read
  <2>2. Unlock(row) \in Row /\ Unlock(row).exists
    BY <1>1, <2>1, Entities
  <2> QED BY <1>1, <1>2, <2>2, ReadTyped DEF LoginRight, Steps
<1>3. ASSUME NEW g \in 0..MaxHash, LoginWrong(q, g) PROVE TypeOK'
  <2>1. row.exists
    BY <1>3 DEF LoginWrong, Read
  <2>2. CountFailure(row) \in Row /\ CountFailure(row).exists
    BY <1>1, <2>1, Entities
  <2> QED BY <1>1, <1>3, <2>2, ReadTyped DEF LoginWrong, Steps
<1>4. ASSUME NEW g \in 0..MaxHash, LoginLock(q, g) PROVE TypeOK'
  <2>1. row.exists /\ locks < MaxLock
    BY <1>4 DEF LoginLock, Read
  <2>2. Lock(CountFailure(row)) \in Row /\ Lock(CountFailure(row)).exists
    BY <1>1, <2>1, Entities
  <2>3. locks' \in locks..MaxLock
    BY <1>1, <1>4, <2>1, AccountConstants DEF AccountConstants, LoginLock
  <2> QED BY <1>1, <1>4, <2>2, <2>3, ReadTyped DEF LoginLock, Steps
<1>5. CASE LoginWrite(q)
  <2> DEFINE n == IF pc[q] = "login_wrong"
                  THEN SmallerOf(fails + 1, MaxLoginAttempts) ELSE 0
  <2>1. n \in 0..MaxLoginAttempts
    BY AccountConstants DEF AccountConstants, SmallerOf, TypeOK, HistoryOK
  <2>2. pc[q] \notin {"idle", "create"}
    BY <1>5 DEF LoginWrite, LoginSteps
  <2>3. Written
    <3>1. CASE Update(q, promised, n)
      BY <2>1, <2>2, <3>1, UpdateTyped DEF TypeOK, HistoryOK
    <3>2. CASE ~Update(q, promised, n)
      <4>1. RequestsOK'
        BY <1>5, <3>2, FinishTyped DEF LoginWrite
      <4> QED BY <1>5, <3>2, <4>1, AccountConstants
              DEF AccountConstants, LoginWrite, Written, TypeOK, DatabaseOK, HistoryOK
    <3> QED BY <3>1, <3>2
  <2> QED BY <1>5, <2>3 DEF LoginWrite, Written, TypeOK, DatabaseOK, HistoryOK
<1> QED BY <1>2, <1>3, <1>4, <1>5

LEMMA MailTyped ==
    ASSUME TypeOK, NEW q \in Request,
           \/ ForgotRead(q) \/ ForgotWrite(q) \/ ResendRead(q) \/ ResendWrite(q)
           \/ VerifyWrite(q) \/ ResetWrite(q)
           \/ \E c \in Code : VerifyRead(q, c) \/ ResetRead(q, c)
    PROVE  TypeOK'
<1>1. row \in Row /\ locks \in locks..MaxLock /\ NoCode \in Code \cup {NoCode}
  BY AccountConstants DEF AccountConstants, TypeOK, DatabaseOK
<1>2. CASE ForgotRead(q) \/ ResendRead(q)
  <2>1. row.exists
    BY <1>2 DEF ForgotRead, ResendRead, Read
  <2> QED BY <1>1, <1>2, <2>1, ReadTyped DEF ForgotRead, ResendRead, Steps
<1>3. ASSUME NEW c \in Code, VerifyRead(q, c) PROVE TypeOK'
  <2>1. row.exists
    BY <1>3 DEF VerifyRead, Read
  <2>2. [row EXCEPT !.verified = TRUE] \in Row /\ [row EXCEPT !.verified = TRUE].exists
    BY <1>1, <2>1 DEF Row
  <2> QED BY <1>1, <1>3, <2>2, ReadTyped DEF VerifyRead, Steps
<1>4. ASSUME NEW c \in Code, ResetRead(q, c) PROVE TypeOK'
  <2>1. row.exists
    BY <1>4 DEF ResetRead, Read
  <2>2. PICK h \in 1..MaxHash : Read(q, "reset_write", [row EXCEPT !.hash = h], c)
    BY <1>4 DEF ResetRead
  <2>3. h \in 0..MaxHash
    BY AccountConstants DEF AccountConstants
  <2>4. [row EXCEPT !.hash = h] \in Row /\ [row EXCEPT !.hash = h].exists
    BY <1>1, <2>1, <2>3 DEF Row
  <2> QED BY <1>1, <1>4, <2>2, <2>4, ReadTyped DEF ResetRead, Steps
<1>5. CASE ForgotWrite(q) \/ ResendWrite(q)
  BY <1>5, UpdateWithCodeTyped
     DEF ForgotWrite, ResendWrite, Written, TypeOK, DatabaseOK, HistoryOK
<1>6. CASE VerifyWrite(q)
  <2>1. [promised EXCEPT !.verified = TRUE] \in Promise /\ fails \in 0..MaxLoginAttempts
    BY DEF TypeOK, HistoryOK, Promise
  <2>2. Written
    BY <1>6, <2>1, UpdateTyped DEF VerifyWrite
  <2> QED BY <1>6, <2>2 DEF VerifyWrite, Written, TypeOK, DatabaseOK, HistoryOK
<1>7. CASE ResetWrite(q)
  <2>1. seen[q].hash \in 0..MaxHash /\ code[q] \in Code
    BY <1>7 DEF ResetWrite, TypeOK, RequestsOK, Row
  <2>2. [promised EXCEPT !.hash = seen[q].hash] \in Promise /\ fails \in 0..MaxLoginAttempts
    BY <2>1 DEF TypeOK, HistoryOK, Promise
  <2>3. Written
    BY <1>7, <2>2, UpdateTyped DEF ResetWrite
  <2>4. uses' \in [Code -> 0..2]
    BY <1>7, <2>1 DEF ResetWrite, SmallerOf, TypeOK, HistoryOK
  <2> QED BY <1>7, <2>3, <2>4 DEF ResetWrite, Written, TypeOK, DatabaseOK, HistoryOK
<1> QED BY <1>2, <1>3, <1>4, <1>5, <1>6, <1>7

LEMMA AdminTyped ==
    ASSUME TypeOK, NEW q \in Request,
           \/ \E b \in BOOLEAN : CreateUser(q, b) \/ (\E e \in Email : UpdateUser(q, b, e))
           \/ DeleteUser(q)
           \/ WriteUser(q)
    PROVE  TypeOK'
<1>1. row \in Row /\ locks \in locks..MaxLock /\ NoCode \in Code \cup {NoCode}
  BY AccountConstants DEF AccountConstants, TypeOK, DatabaseOK
<1>2. ASSUME NEW b \in BOOLEAN, CreateUser(q, b) PROVE TypeOK'
  <2>1. row' \in Row /\ row'.exists /\ promised' \in Promise
    BY <1>2, NewRows, ToldTyped DEF CreateUser
  <2>2. sighted' \subseteq Request
    BY <1>2 DEF CreateUser, Moves, TypeOK, HistoryOK
  <2> QED BY <1>2, <2>1, <2>2
          DEF CreateUser, requestVars, TypeOK, DatabaseOK, RequestsOK, HistoryOK
<1>3. ASSUME NEW b \in BOOLEAN, NEW e \in Email, UpdateUser(q, b, e) PROVE TypeOK'
  <2>1. row.exists
    BY <1>3 DEF UpdateUser, Read
  <2> DEFINE r == [row EXCEPT !.active = b, !.email = e]
  <2>2. r \in Row /\ r.exists
    BY <1>1, <2>1 DEF Row
  <2> QED BY <1>1, <1>3, <2>2, ReadTyped DEF UpdateUser, Steps
<1>4. CASE DeleteUser(q)
  <2>1. row.exists
    BY <1>4 DEF DeleteUser, Read
  <2> QED BY <1>1, <1>4, <2>1, ReadTyped DEF DeleteUser, Steps
<1>5. CASE WriteUser(q)
  <2>1. seen[q].email \in Email /\ seen[q].active \in BOOLEAN
    BY DEF TypeOK, RequestsOK, Row
  <2>2. row' \in Row /\ row'.exists = row.exists
    BY <1>1, <1>5, <2>1 DEF WriteUser, Row
  <2>3. promised' \in Promise
    BY <1>5, <2>1 DEF WriteUser, Promise, TypeOK, HistoryOK
  <2>4. sighted' \subseteq Request
    BY <1>5 DEF WriteUser, Moves, TypeOK, HistoryOK
  <2>5. RequestsOK'
    BY <1>5, <2>2, FinishTyped DEF WriteUser
  <2> QED BY <1>5, <2>2, <2>3, <2>4, <2>5 DEF WriteUser, TypeOK, DatabaseOK, HistoryOK
<1> QED BY <1>2, <1>3, <1>4, <1>5

LEMMA OtherTyped ==
    ASSUME TypeOK,
           \/ \E q \in Request : Abort(q)
           \/ OthersMove
           \/ LockRunsOut
           \/ \E c \in Code : CodeLapses(c)
    PROVE  TypeOK'
<1>1. CASE OthersMove
  <2>1. taken' \in BOOLEAN /\ sighted' \subseteq Request
    BY <1>1 DEF OthersMove, Moves, TypeOK, HistoryOK
  <2> QED BY <1>1, <2>1
          DEF OthersMove, requestVars, TypeOK, DatabaseOK, RequestsOK, HistoryOK
<1>2. ASSUME NEW q \in Request, Abort(q) PROVE TypeOK'
  <2>1. RequestsOK'
    BY <1>2, FinishTyped DEF Abort
  <2> QED BY <1>2, <2>1 DEF Abort, TypeOK, DatabaseOK, HistoryOK
<1>3. CASE LockRunsOut
  <2>1. passed' \in 0..locks'
    BY <1>3, AccountConstants DEF AccountConstants, LockRunsOut, TypeOK, DatabaseOK
  <2> QED BY <1>3, <2>1 DEF LockRunsOut, requestVars, historyVars, TypeOK, DatabaseOK,
                            RequestsOK, HistoryOK
<1>4. ASSUME NEW c \in Code, CodeLapses(c) PROVE TypeOK'
  BY <1>4 DEF CodeLapses, requestVars, historyVars, TypeOK, DatabaseOK, RequestsOK, HistoryOK
<1> QED BY <1>1, <1>2, <1>3, <1>4

\* Columns, requests and history keep their types (TypeOK).
THEOREM TypeCorrect == Spec => []TypeOK
<1>1. TypeOK /\ [Next]_vars => TypeOK'
  <2> SUFFICES ASSUME TypeOK, [Next]_vars PROVE TypeOK'
    OBVIOUS
  <2>1. ASSUME NEW q \in Request, Step(q) PROVE TypeOK'
    BY <2>1, RegisterTyped, LoginTyped, MailTyped, AdminTyped, OtherTyped DEF Step
  <2>2. CASE OthersMove \/ LockRunsOut \/ \E c \in Code : CodeLapses(c)
    BY <2>2, OtherTyped
  <2>3. CASE UNCHANGED vars
    BY <2>3, StutterTyped
  <2> QED BY <2>1, <2>2, <2>3 DEF Next
<1> QED BY InitTyped, <1>1, PTL DEF Spec

-----------------------------------------------------------------------------
(* Nothing is lost.                                                        *)

\* What a request at step l with the entity r will have set once it has written.
Outcome(l, r) ==
    IF l = "verify_write" THEN [promised EXCEPT !.verified = TRUE]
    ELSE IF l = "reset_write" THEN [promised EXCEPT !.hash = r.hash]
    ELSE promised

\* What NothingLostUnlessOvertaken rests on: an entity read from the row as it is
\* now holds the promises and what its own request is about to set, and wrong
\* passwords are in the column.
Kept(q) ==
    /\ pc[q] \notin {"idle", "create"}
    /\ pc[q] # "update_user" => Told(seen[q]) = Outcome(pc[q], seen[q])
    /\ pc[q] \notin {"login_right", "login_lock"} => seen[q].attempts >= row.attempts
    /\ pc[q] = "login_wrong" =>
            seen[q].attempts = row.attempts + 1 /\ seen[q].attempts < MaxLoginAttempts

NothingLost ==
    /\ promised = Told(row)
    /\ fails <= row.attempts /\ LockoutHolds
    /\ ~row.exists => fails = 0
    /\ \A q \in fresh : Kept(q)

\* Promises with the same columns are the same, and what becomes of a row's when a
\* column is set.
LEMMA SamePromise ==
    ASSUME NEW x \in Promise, NEW y \in Promise, x.email = y.email, x.active = y.active,
           x.hash = y.hash, x.verified = y.verified
    PROVE  x = y
  BY DEF Promise

LEMMA SetPromise ==
    ASSUME NEW x \in Promise, NEW y \in Promise
    PROVE  /\ y.email = x.email /\ y.active = x.active /\ y.hash = x.hash /\ y.verified = TRUE
                => y = [x EXCEPT !.verified = TRUE]
           /\ y.email = x.email /\ y.active = x.active /\ y.verified = x.verified
                => y = [x EXCEPT !.hash = y.hash]
           /\ y.hash = x.hash /\ y.verified = x.verified
                => y = [x EXCEPT !.email = y.email, !.active = y.active]
<1>1. ASSUME y.email = x.email, y.active = x.active, y.hash = x.hash, y.verified = TRUE
      PROVE  y = [x EXCEPT !.verified = TRUE]
  <2> DEFINE t == [x EXCEPT !.verified = TRUE]
  <2>1. /\ t \in Promise /\ t.email = x.email /\ t.active = x.active
        /\ t.hash = x.hash /\ t.verified = TRUE
    BY DEF Promise
  <2> HIDE DEF t
  <2>2. y = t
    BY <1>1, <2>1, SamePromise
  <2> QED BY <2>2 DEF t
<1>2. ASSUME y.email = x.email, y.active = x.active, y.verified = x.verified
      PROVE  y = [x EXCEPT !.hash = y.hash]
  <2> DEFINE t == [x EXCEPT !.hash = y.hash]
  <2>1. /\ t \in Promise /\ t.email = x.email /\ t.active = x.active
        /\ t.hash = y.hash /\ t.verified = x.verified
    BY DEF Promise
  <2> HIDE DEF t
  <2>2. y = t
    BY <1>2, <2>1, SamePromise
  <2> QED BY <2>2 DEF t
<1>3. ASSUME y.hash = x.hash, y.verified = x.verified
      PROVE  y = [x EXCEPT !.email = y.email, !.active = y.active]
  <2> DEFINE t == [x EXCEPT !.email = y.email, !.active = y.active]
  <2>1. /\ t \in Promise /\ t.email = y.email /\ t.active = y.active
        /\ t.hash = x.hash /\ t.verified = x.verified
    BY DEF Promise
  <2> HIDE DEF t
  <2>2. y = t
    BY <1>3, <2>1, SamePromise
  <2> QED BY <2>2 DEF t
<1> QED BY <1>1, <1>2, <1>3

LEMMA InitKept == Init => NothingLost
<1> SUFFICES ASSUME Init PROVE NothingLost
  OBVIOUS
<1>1. row \in Row /\ promised = Told(row) /\ fails = 0 /\ fresh = {}
  BY InitTyped DEF Init, TypeOK, DatabaseOK
<1>2. row.attempts >= 0
  BY <1>1 DEF Row
<1>3. LockoutHolds
  BY <1>1, AccountConstants DEF AccountConstants, LockoutHolds
<1> QED BY <1>1, <1>2, <1>3 DEF NothingLost

\* A step that leaves the row and the promises alone and adds only entities that
\* are Kept to fresh.
LEMMA SameKept ==
    ASSUME TypeOK, NothingLost, UNCHANGED <<row, promised>>, fails' \in {0, fails},
           \A q \in fresh' : (q \in fresh /\ UNCHANGED <<pc[q], seen[q]>>) \/ Kept(q)'
    PROVE  NothingLost'
<1>1. ASSUME NEW q \in fresh' PROVE Kept(q)'
  BY <1>1 DEF NothingLost, Kept, Outcome
<1>2. fails' <= row'.attempts /\ LockoutHolds'
  <2>1. row.attempts \in Nat
    BY DEF TypeOK, DatabaseOK, Row
  <2> QED BY <2>1, AccountConstants DEF AccountConstants, NothingLost, LockoutHolds
<1>3. promised' = Told(row')
  BY DEF NothingLost
<1> QED BY <1>1, <1>2, <1>3 DEF NothingLost

\* Read, given an entity that is Kept.
LEMMA ReadKept ==
    ASSUME TypeOK, NothingLost, NEW q \in Request, NEW l, NEW r, NEW c, Read(q, l, r, c),
           l \in Steps \ {"idle", "create"},
           l # "update_user" => Told(r) = Outcome(l, r),
           l \notin {"login_right", "login_lock"} => r.attempts >= row.attempts,
           l = "login_wrong" => r.attempts = row.attempts + 1 /\ r.attempts < MaxLoginAttempts
    PROVE  NothingLost'
<1>1. ASSUME NEW o \in fresh' PROVE (o \in fresh /\ UNCHANGED <<pc[o], seen[o]>>) \/ Kept(o)'
  <2>1. CASE o = q
    <3>1. pc'[o] = l /\ seen'[o] = r /\ row' = row /\ promised' = promised
      BY <2>1 DEF Read, TypeOK, RequestsOK
    <3> QED BY <3>1 DEF Kept, Outcome
  <2>2. CASE o # q
    BY <1>1, <2>2 DEF Read, TypeOK, RequestsOK
  <2> QED BY <2>1, <2>2
<1>2. UNCHANGED <<row, promised>> /\ fails' \in {0, fails}
  BY DEF Read
<1> QED BY <1>1, <1>2, SameKept

\* Finish, of a request that is no longer fresh.
LEMMA FinishKept ==
    ASSUME TypeOK, NothingLost, NEW q \in Request, Finish(q), fresh' = fresh \ {q},
           UNCHANGED <<row, promised>>, fails' \in {0, fails}
    PROVE  NothingLost'
<1>1. ASSUME NEW o \in fresh' PROVE o \in fresh /\ UNCHANGED <<pc[o], seen[o]>>
  BY <1>1 DEF Finish, TypeOK, RequestsOK
<1> QED BY <1>1, SameKept

\* Update, told what its request has set.
LEMMA UpdateKept ==
    ASSUME TypeOK, NothingLost, NEW q \in Request, NEW t, NEW n, Update(q, t, n),
           pc[q] \notin {"idle", "create", "update_user"},
           q \in fresh => t = Outcome(pc[q], seen[q]),
           \/ n = 0
           \/ n = fails /\ pc[q] \notin {"login_right", "login_lock"}
           \/ n = fails + 1 /\ pc[q] = "login_wrong"
    PROVE  NothingLost'
<1>1. row' = seen[q] /\ row'.exists /\ fresh' = {} /\ row' \in Row
  BY DEF Update, TypeOK, RequestsOK
<1>2. promised' = Told(row')
  BY <1>1 DEF Update, NothingLost, Kept
<1>3. row.attempts \in Nat /\ row'.attempts \in Nat /\ fails \in Nat
  BY <1>1, AccountConstants DEF AccountConstants, TypeOK, DatabaseOK, HistoryOK, Row
<1>4. fails' <= row'.attempts /\ LockoutHolds'
  <2>1. CASE fails' = 0
    BY <1>3, <2>1, AccountConstants DEF AccountConstants, LockoutHolds
  <2>2. CASE q \in fresh /\ fails' = fails /\ pc[q] \notin {"login_right", "login_lock"}
    BY <1>1, <1>3, <2>2, AccountConstants DEF AccountConstants, NothingLost, Kept, LockoutHolds
  <2>3. CASE q \in fresh /\ fails' = fails + 1 /\ pc[q] = "login_wrong"
    BY <1>1, <1>3, <2>3, AccountConstants DEF AccountConstants, NothingLost, Kept, LockoutHolds
  <2> QED BY <2>1, <2>2, <2>3 DEF Update
<1> QED BY <1>1, <1>2, <1>4 DEF NothingLost

LEMMA UpdateWithCodeKept ==
    ASSUME TypeOK, NothingLost, NEW q \in Request, NEW k, UpdateWithCode(q, k),
           pc[q] \in {"register_write", "forgot_write", "resend_write"}
    PROVE  NothingLost'
<1>1. promised = Outcome(pc[q], seen[q])
  BY DEF Outcome
<1> QED BY <1>1, UpdateKept DEF UpdateWithCode

LEMMA RegisterKept ==
    ASSUME TypeOK, NothingLost, NEW q \in Request,
           \/ RegisterRead(q) \/ RegisterCreate(q) \/ RegisterAnother(q)
           \/ RegisterClash(q) \/ RegisterWrite(q)
    PROVE  NothingLost'
<1>1. CASE RegisterRead(q)
  <2>1. ASSUME NEW o \in fresh PROVE o # q
    BY <1>1, <2>1 DEF NothingLost, Kept, RegisterRead
  <2> QED BY <1>1, <2>1, SameKept DEF RegisterRead, TypeOK, RequestsOK
<1>2. CASE RegisterAnother(q) \/ RegisterClash(q)
  <2>1. q \notin fresh
    BY <1>2 DEF NothingLost, Kept, RegisterAnother, RegisterClash
  <2>2. fresh' = fresh \ {q} /\ UNCHANGED <<row, promised>> /\ fails' \in {0, fails}
    BY <1>2, <2>1 DEF RegisterAnother, RegisterClash
  <2> QED BY <1>2, <2>2, FinishKept DEF RegisterAnother, RegisterClash
<1>3. CASE RegisterCreate(q)
  <2>1. /\ row' = NewUser /\ seen'[q] = NewUser /\ pc'[q] = "register_write"
        /\ fresh' = {q} /\ promised' = Told(NewUser) /\ fails' = fails
    BY <1>3 DEF RegisterCreate, TypeOK, RequestsOK
  <2>2. NewUser.exists /\ NewUser.attempts = 0 /\ fails = 0
    BY <1>3 DEF NewUser, NoRow, NothingLost, RegisterCreate
  <2>3. Kept(q)'
    BY <2>1, <2>2 DEF Kept, Outcome
  <2>4. LockoutHolds'
    BY <2>1, <2>2, AccountConstants DEF AccountConstants, LockoutHolds
  <2> QED BY <2>1, <2>2, <2>3, <2>4 DEF NothingLost
<1>4. CASE RegisterWrite(q)
  BY <1>4, UpdateWithCodeKept DEF RegisterWrite
<1> QED BY <1>1, <1>2, <1>3, <1>4

LEMMA LoginKept ==
    ASSUME TypeOK, NothingLost, NEW q \in Request,
           \/ \E g \in 0..MaxHash : LoginRight(q, g) \/ LoginWrong(q, g) \/ LoginLock(q, g)
           \/ LoginWrite(q)
    PROVE  NothingLost'
<1>1. row \in Row /\ promised = Told(row)
  BY DEF TypeOK, DatabaseOK, NothingLost
<1>2. ASSUME NEW g \in 0..MaxHash, LoginRight(q, g) PROVE NothingLost'
  <2>1. Told(Unlock(row)) = Told(row)
    BY <1>1 DEF Unlock, Told, Row
  <2> QED BY <1>1, <1>2, <2>1, ReadKept DEF LoginRight, Steps, Outcome
<1>3. ASSUME NEW g \in 0..MaxHash, LoginWrong(q, g) PROVE NothingLost'
  <2>1. /\ Told(CountFailure(row)) = Told(row)
        /\ CountFailure(row).attempts = row.attempts + 1 /\ row.attempts \in Nat
    BY <1>1 DEF CountFailure, Told, Row
  <2>2. row.attempts + 1 < MaxLoginAttempts
    BY <1>3 DEF LoginWrong
  <2>3. CountFailure(row).attempts >= row.attempts
    BY <2>1
  <2> QED BY <1>1, <1>3, <2>1, <2>2, <2>3, ReadKept DEF LoginWrong, Steps, Outcome
<1>4. ASSUME NEW g \in 0..MaxHash, LoginLock(q, g) PROVE NothingLost'
  <2>1. Told(Lock(CountFailure(row))) = Told(row)
    BY <1>1 DEF Lock, CountFailure, Told, Row
  <2> QED BY <1>1, <1>4, <2>1, ReadKept DEF LoginLock, Steps, Outcome
<1>5. CASE LoginWrite(q)
  <2> DEFINE n == IF pc[q] = "login_wrong"
                  THEN SmallerOf(fails + 1, MaxLoginAttempts) ELSE 0
  <2>1. n = 0 \/ (n = fails + 1 /\ pc[q] = "login_wrong")
    BY AccountConstants
       DEF AccountConstants, NothingLost, LockoutHolds, TypeOK, HistoryOK, SmallerOf
  <2>2. pc[q] \in LoginSteps /\ promised = Outcome(pc[q], seen[q])
    BY <1>5 DEF LoginWrite, LoginSteps, Outcome
  <2>3. CASE Update(q, promised, n)
    BY <2>1, <2>2, <2>3, UpdateKept DEF LoginSteps
  <2>4. CASE ~Update(q, promised, n)
    BY <1>5, <2>4, FinishKept DEF LoginWrite
  <2> QED BY <2>3, <2>4
<1> QED BY <1>2, <1>3, <1>4, <1>5

LEMMA MailKept ==
    ASSUME TypeOK, NothingLost, NEW q \in Request,
           \/ ForgotRead(q) \/ ForgotWrite(q) \/ ResendRead(q) \/ ResendWrite(q)
           \/ VerifyWrite(q) \/ ResetWrite(q)
           \/ \E c \in Code : VerifyRead(q, c) \/ ResetRead(q, c)
    PROVE  NothingLost'
<1>1. row \in Row /\ row.attempts \in Nat /\ promised = Told(row)
  BY DEF TypeOK, DatabaseOK, Row, NothingLost
<1>2. CASE ForgotRead(q) \/ ResendRead(q)
  BY <1>1, <1>2, ReadKept DEF ForgotRead, ResendRead, Steps, Outcome
<1>3. ASSUME NEW c \in Code, VerifyRead(q, c) PROVE NothingLost'
  <2>1. PICK r : r = [row EXCEPT !.verified = TRUE]
    OBVIOUS
  <2>2. /\ r.attempts = row.attempts
        /\ r.email = row.email /\ r.active = row.active /\ r.hash = row.hash
        /\ r.verified = TRUE
    BY <1>1, <2>1 DEF Row
  <2>5. r \in Row
    BY <1>1, <2>1 DEF Row
  <2>3. Read(q, "verify_write", r, c) /\ "verify_write" \in Steps \ {"idle", "create"}
    BY <1>3, <2>1 DEF VerifyRead, Steps
  <2>4. Told(r) = Outcome("verify_write", r)
    <3>1. /\ Told(r).email = Told(row).email /\ Told(r).active = Told(row).active
          /\ Told(r).hash = Told(row).hash /\ Told(r).verified = TRUE
      BY <2>2 DEF Told
    <3>2. Told(r) \in Promise /\ Told(row) \in Promise
      BY <1>1, <2>5, ToldTyped
    <3> QED BY <1>1, <3>1, <3>2, SetPromise DEF Outcome
  <2> QED BY <1>1, <2>2, <2>3, <2>4, ReadKept
<1>4. ASSUME NEW c \in Code, ResetRead(q, c) PROVE NothingLost'
  <2>1. PICK h \in 1..MaxHash : Read(q, "reset_write", [row EXCEPT !.hash = h], c)
    BY <1>4 DEF ResetRead
  <2>2. PICK r : r = [row EXCEPT !.hash = h]
    OBVIOUS
  <2>3. Told(r) = [Told(row) EXCEPT !.hash = r.hash] /\ r.attempts >= row.attempts
    <3>1. /\ r.email = row.email /\ r.active = row.active /\ r.verified = row.verified
          /\ r.attempts = row.attempts
      BY <1>1, <2>2 DEF Row
    <3>2. r \in Row
      BY <1>1, <2>2, AccountConstants DEF AccountConstants, Row
    <3>3. /\ Told(r).email = Told(row).email /\ Told(r).active = Told(row).active
          /\ Told(r).hash = r.hash /\ Told(r).verified = Told(row).verified
      BY <3>1 DEF Told
    <3>4. Told(r) \in Promise /\ Told(row) \in Promise
      BY <1>1, <3>2, ToldTyped
    <3>5. Told(r) = [Told(row) EXCEPT !.hash = Told(r).hash]
      BY <3>3, <3>4, SetPromise
    <3> QED BY <1>1, <3>1, <3>3, <3>5
  <2>4. Read(q, "reset_write", r, c) /\ "reset_write" \in Steps \ {"idle", "create"}
    BY <2>1, <2>2 DEF Steps
  <2>5. Told(r) = Outcome("reset_write", r)
    BY <1>1, <2>3 DEF Outcome
  <2> QED BY <2>3, <2>4, <2>5, ReadKept
<1>5. CASE ForgotWrite(q) \/ ResendWrite(q)
  BY <1>5, UpdateWithCodeKept DEF ForgotWrite, ResendWrite
<1>6. CASE VerifyWrite(q)
  BY <1>6, UpdateKept DEF VerifyWrite, Outcome
<1>7. CASE ResetWrite(q)
  BY <1>7, UpdateKept DEF ResetWrite, Outcome
<1> QED BY <1>2, <1>3, <1>4, <1>5, <1>6, <1>7

LEMMA AdminKept ==
    ASSUME TypeOK, NothingLost, NEW q \in Request,
           \/ \E b \in BOOLEAN : CreateUser(q, b) \/ (\E e \in Email : UpdateUser(q, b, e))
           \/ DeleteUser(q)
           \/ WriteUser(q)
    PROVE  NothingLost'
<1>1. row \in Row /\ row.attempts \in Nat /\ promised = Told(row)
  BY DEF TypeOK, DatabaseOK, Row, NothingLost
<1>2. ASSUME NEW b \in BOOLEAN, CreateUser(q, b) PROVE NothingLost'
  <2>1. fresh = {}
    BY <1>2 DEF CreateUser, NothingLost, Kept, TypeOK, RequestsOK
  <2>2. /\ row' = AddedUser(b) /\ promised' = Told(row') /\ fails' = fails /\ fresh' = {}
        /\ fails = 0
    BY <1>2, <2>1 DEF CreateUser, NothingLost
  <2>3. AddedUser(b).attempts = 0
    BY DEF AddedUser, NoRow
  <2>4. LockoutHolds'
    BY <2>2, AccountConstants DEF AccountConstants, LockoutHolds
  <2> QED BY <2>2, <2>3, <2>4 DEF NothingLost
<1>3. ASSUME NEW b \in BOOLEAN, NEW e \in Email, UpdateUser(q, b, e) PROVE NothingLost'
  <2> DEFINE r == [row EXCEPT !.active = b, !.email = e]
  <2>1. r.attempts >= row.attempts
    BY <1>1 DEF Row
  <2> QED BY <1>3, <2>1, ReadKept DEF UpdateUser, Steps
<1>4. CASE DeleteUser(q)
  BY <1>1, <1>4, ReadKept DEF DeleteUser, Steps, Outcome
<1>5. CASE WriteUser(q)
  <2> DEFINE t == [promised EXCEPT !.email = seen[q].email, !.active = seen[q].active]
  <2>1. row'.attempts = row.attempts /\ row'.exists = row.exists /\ fresh' = {}
        /\ fails' = fails
    BY <1>1, <1>5 DEF WriteUser, Row
  <2>2. Told(row') = t
    <3>1. /\ row'.email = seen[q].email /\ row'.active = seen[q].active
          /\ row'.verified = row.verified /\ row'.hash = row.hash
      BY <1>1, <1>5 DEF WriteUser, Row
    <3>2. row' \in Row
      BY <1>5, AdminTyped DEF TypeOK, DatabaseOK
    <3>3. /\ Told(row').email = seen[q].email /\ Told(row').active = seen[q].active
          /\ Told(row').hash = Told(row).hash /\ Told(row').verified = Told(row).verified
      BY <3>1 DEF Told
    <3>4. Told(row') \in Promise /\ Told(row) \in Promise
      BY <1>1, <3>2, ToldTyped
    <3> QED BY <1>1, <3>3, <3>4, SetPromise
  <2>3. CASE pc[q] = "delete_user" /\ q \in fresh
    <3>1. Told(seen[q]) = promised
      BY <2>3 DEF NothingLost, Kept, Outcome
    <3>2. t = promised
      <4>1. promised.email = seen[q].email /\ promised.active = seen[q].active
        BY <3>1 DEF Told
      <4> QED BY <4>1 DEF TypeOK, HistoryOK, Promise
    <3> QED BY <1>5, <2>1, <2>2, <2>3, <3>2 DEF WriteUser, NothingLost, LockoutHolds
  <2>4. CASE ~(pc[q] = "delete_user" /\ q \in fresh)
    BY <1>5, <2>1, <2>2, <2>4 DEF WriteUser, NothingLost, LockoutHolds
  <2> QED BY <2>3, <2>4
<1> QED BY <1>2, <1>3, <1>4, <1>5

LEMMA OtherKept ==
    ASSUME TypeOK, NothingLost,
           \/ \E q \in Request : Abort(q)
           \/ OthersMove
           \/ LockRunsOut
           \/ \E c \in Code : CodeLapses(c)
           \/ UNCHANGED vars
    PROVE  NothingLost'
<1>1. CASE OthersMove
  BY <1>1, SameKept DEF OthersMove, requestVars
<1>2. ASSUME NEW q \in Request, Abort(q) PROVE NothingLost'
  BY <1>2, FinishKept DEF Abort
<1>3. CASE LockRunsOut
  BY <1>3, SameKept DEF LockRunsOut, requestVars, historyVars
<1>4. ASSUME NEW c \in Code, CodeLapses(c) PROVE NothingLost'
  BY <1>4, SameKept DEF CodeLapses, requestVars, historyVars
<1>5. CASE UNCHANGED vars
  BY <1>5, SameKept DEF vars, requestVars, historyVars
<1> QED BY <1>1, <1>2, <1>3, <1>4, <1>5

\* A verification, a reset, what the administration set and the count of wrong
\* passwords are undone only by a write from an outdated entity, or lost with a
\* write that failed silently (NothingLostUnlessOvertaken).
THEOREM NothingLostTheorem == Spec => []NothingLostUnlessOvertaken
<1>1. TypeOK /\ NothingLost /\ [Next]_vars => NothingLost'
  <2> SUFFICES ASSUME TypeOK, NothingLost, [Next]_vars PROVE NothingLost'
    OBVIOUS
  <2>1. ASSUME NEW q \in Request, Step(q) PROVE NothingLost'
    BY <2>1, RegisterKept, LoginKept, MailKept, AdminKept, OtherKept DEF Step
  <2> QED BY <2>1, OtherKept DEF Next
<1>2. NothingLost => NothingLostUnlessOvertaken
  BY DEF NothingLost, NothingLostUnlessOvertaken, EmailStaysVerified, PasswordIsLatest,
         DisabledStaysDisabled, EmailIsLatest, Told
<1> QED BY InitKept, <1>1, <1>2, TypeCorrect, PTL DEF Spec

-----------------------------------------------------------------------------
(* A lock is kept.                                                         *)

\* What LockIsKeptUnlessOvertaken rests on: an entity read from the row as it is
\* now has the row's lock, a later one, or was read when no lock was in force.
HoldsLock(q) ==
    /\ pc[q] \notin {"idle", "create"}
    /\ row.lock <= passed \/ seen[q].lock >= row.lock

LockHeld ==
    /\ ~row.exists => row.lock = 0
    /\ \A q \in fresh : HoldsLock(q)

\* What one step may do to a lock.
LockStep == IsLocked(row) => row'.lock >= row.lock \/ OvertakenWrite

LEMMA InitHeld == Init => LockHeld
<1>1. NoRow.lock = 0 /\ NewUser.lock = 0 /\ [NewUser EXCEPT !.verified = TRUE].lock = 0
  BY DEF NewUser, NoRow
<1> QED BY <1>1 DEF Init, LockHeld

\* A step that leaves the row alone and adds only entities that hold its lock.
LEMMA SameHeld ==
    ASSUME TypeOK, LockHeld, UNCHANGED row, passed' \in passed..locks',
           \A q \in fresh' : (q \in fresh /\ UNCHANGED <<pc[q], seen[q]>>) \/ HoldsLock(q)'
    PROVE  LockHeld' /\ LockStep
<1>1. row.lock \in Nat /\ passed \in Nat /\ passed' \in Nat /\ passed <= passed'
  BY AccountConstants DEF AccountConstants, TypeOK, DatabaseOK, Row
<1>2. ASSUME NEW q \in fresh' PROVE HoldsLock(q)'
  BY <1>1, <1>2 DEF LockHeld, HoldsLock
<1> QED BY <1>1, <1>2 DEF LockHeld, LockStep

\* Read, given an entity that holds the lock.
LEMMA ReadHeld ==
    ASSUME TypeOK, TypeOK', LockHeld, NEW q \in Request, NEW l, NEW r, NEW c,
           Read(q, l, r, c), l \in Steps \ {"idle", "create"},
           row.lock <= passed \/ r.lock >= row.lock
    PROVE  LockHeld' /\ LockStep
<1>1. passed' \in passed..locks'
  BY AccountConstants DEF AccountConstants, Read, TypeOK, DatabaseOK
<1>2. ASSUME NEW o \in fresh'
      PROVE  (o \in fresh /\ UNCHANGED <<pc[o], seen[o]>>) \/ HoldsLock(o)'
  <2>1. CASE o = q
    <3>1. pc'[o] = l /\ seen'[o] = r /\ row' = row /\ passed' = passed
      BY <2>1 DEF Read, TypeOK, RequestsOK
    <3> QED BY <3>1 DEF HoldsLock
  <2>2. CASE o # q
    BY <1>2, <2>2 DEF Read, TypeOK, RequestsOK
  <2> QED BY <2>1, <2>2
<1> QED BY <1>1, <1>2, SameHeld DEF Read

\* An update from an outdated entity forgets what its request was told.
LEMMA OvertakenUpdate ==
    ASSUME NEW q, NEW t, NEW n, Update(q, t, n), q \notin fresh
    PROVE  Update(q, promised, fails)
  BY DEF Update

\* What an update does to the codes: one is issued at most.
CodesStay == \A c \in Code : codes[c] \in {"none", codes'[c]}

LEMMA IssueStays ==
    ASSUME TypeOK, NEW q \in Request, NEW k, UpdateWithCode(q, k)
    PROVE  CodesStay
  BY DEF UpdateWithCode, CodesStay, TypeOK, DatabaseOK

\* Update from an entity that holds the lock, or that another request has overtaken.
LEMMA UpdateHeld ==
    ASSUME TypeOK, LockHeld, NEW q \in Request, NEW t, NEW n, Update(q, t, n),
           pc[q] \notin {"idle", "create", "update_user", "delete_user"},
           passed' = passed, CodesStay
    PROVE  LockHeld' /\ LockStep
<1>1. row' = seen[q] /\ row'.exists /\ fresh' = {}
  BY DEF Update, TypeOK, RequestsOK
<1>2. CASE q \notin fresh
  <2>1. OvertakenWrite
    BY <1>2, OvertakenUpdate DEF OvertakenWrite, CodesStay
  <2> QED BY <1>1, <2>1 DEF LockHeld, LockStep
<1>3. CASE q \in fresh
  <2>1. row.lock <= passed \/ row'.lock >= row.lock
    BY <1>1, <1>3 DEF LockHeld, HoldsLock
  <2>2. row.lock \in Nat /\ passed \in Nat
    BY AccountConstants DEF AccountConstants, TypeOK, DatabaseOK, Row
  <2> QED BY <1>1, <2>1, <2>2 DEF LockHeld, LockStep, IsLocked
<1> QED BY <1>2, <1>3

LEMMA RegisterHeld ==
    ASSUME TypeOK, LockHeld, NEW q \in Request,
           \/ RegisterRead(q) \/ RegisterCreate(q) \/ RegisterAnother(q)
           \/ RegisterClash(q) \/ RegisterWrite(q)
    PROVE  LockHeld' /\ LockStep
<1>1. row.lock \in Nat /\ passed \in Nat /\ passed \in passed..locks
  BY AccountConstants DEF AccountConstants, TypeOK, DatabaseOK, Row
<1>2. CASE RegisterRead(q)
  <2>1. q \notin fresh
    BY <1>2 DEF LockHeld, HoldsLock, RegisterRead
  <2> QED BY <1>1, <1>2, <2>1, SameHeld DEF RegisterRead, TypeOK, RequestsOK
<1>3. CASE RegisterAnother(q) \/ RegisterClash(q)
  <2>1. q \notin fresh
    BY <1>3 DEF LockHeld, HoldsLock, RegisterAnother, RegisterClash
  <2> QED BY <1>1, <1>3, <2>1, SameHeld
          DEF RegisterAnother, RegisterClash, Finish, TypeOK, RequestsOK
<1>4. CASE RegisterCreate(q)
  <2>1. NewUser.exists /\ NewUser.lock = 0
    BY DEF NewUser, NoRow
  <2>2. /\ row' = NewUser /\ seen'[q] = NewUser /\ pc'[q] = "register_write"
        /\ fresh' = {q} /\ passed' = passed /\ ~row.exists
    BY <1>4 DEF RegisterCreate, TypeOK, RequestsOK
  <2>3. HoldsLock(q)'
    BY <2>1, <2>2 DEF HoldsLock
  <2> QED BY <1>1, <2>1, <2>2, <2>3 DEF LockHeld, LockStep, IsLocked
<1>5. CASE RegisterWrite(q)
  BY <1>5, UpdateHeld, IssueStays DEF RegisterWrite, UpdateWithCode
<1> QED BY <1>2, <1>3, <1>4, <1>5

LEMMA LoginHeld ==
    ASSUME TypeOK, TypeOK', LockHeld, NEW q \in Request,
           \/ \E g \in 0..MaxHash : LoginRight(q, g) \/ LoginWrong(q, g) \/ LoginLock(q, g)
           \/ LoginWrite(q)
    PROVE  LockHeld' /\ LockStep
<1>1. /\ row.lock \in Nat /\ passed \in Nat /\ locks \in Nat /\ passed \in passed..locks
      /\ row \in Row
  BY AccountConstants DEF AccountConstants, TypeOK, DatabaseOK, Row
<1>2. MayTry(row) => row.lock <= passed
  BY <1>1 DEF MayTry, IsLocked
<1>3. ASSUME NEW g \in 0..MaxHash, LoginRight(q, g) PROVE LockHeld' /\ LockStep
  BY <1>2, <1>3, ReadHeld DEF LoginRight, Steps
<1>4. ASSUME NEW g \in 0..MaxHash, LoginWrong(q, g) PROVE LockHeld' /\ LockStep
  BY <1>2, <1>4, ReadHeld DEF LoginWrong, Steps
<1>5. ASSUME NEW g \in 0..MaxHash, LoginLock(q, g) PROVE LockHeld' /\ LockStep
  BY <1>2, <1>5, ReadHeld DEF LoginLock, Steps
<1>6. CASE LoginWrite(q)
  <2> DEFINE n == IF pc[q] = "login_wrong"
                  THEN SmallerOf(fails + 1, MaxLoginAttempts) ELSE 0
  <2>1. /\ CodesStay /\ passed' = passed
        /\ pc[q] \notin {"idle", "create", "update_user", "delete_user"}
    BY <1>6 DEF LoginWrite, LoginSteps, CodesStay, TypeOK, DatabaseOK
  <2>2. CASE Update(q, promised, n)
    BY <2>1, <2>2, UpdateHeld
  <2>3. CASE ~Update(q, promised, n)
    <3>1. ASSUME NEW o \in fresh' PROVE o \in fresh /\ UNCHANGED <<pc[o], seen[o]>>
      BY <1>6, <2>3, <3>1 DEF LoginWrite, Finish, TypeOK, RequestsOK
    <3>2. UNCHANGED row /\ passed' \in passed..locks'
      BY <1>1, <1>6, <2>3 DEF LoginWrite
    <3> QED BY <3>1, <3>2, SameHeld
  <2> QED BY <2>2, <2>3
<1> QED BY <1>3, <1>4, <1>5, <1>6

LEMMA MailHeld ==
    ASSUME TypeOK, TypeOK', LockHeld, NEW q \in Request,
           \/ ForgotRead(q) \/ ForgotWrite(q) \/ ResendRead(q) \/ ResendWrite(q)
           \/ VerifyWrite(q) \/ ResetWrite(q)
           \/ \E c \in Code : VerifyRead(q, c) \/ ResetRead(q, c)
    PROVE  LockHeld' /\ LockStep
<1>1. row \in Row /\ row.lock \in Nat /\ row.lock >= row.lock
  BY AccountConstants DEF AccountConstants, TypeOK, DatabaseOK, Row
<1>2. CASE ForgotRead(q) \/ ResendRead(q)
  BY <1>1, <1>2, ReadHeld DEF ForgotRead, ResendRead, Steps
<1>3. ASSUME NEW c \in Code, VerifyRead(q, c) PROVE LockHeld' /\ LockStep
  <2>1. PICK r : r = [row EXCEPT !.verified = TRUE]
    OBVIOUS
  <2>2. r.lock = row.lock
    BY <1>1, <2>1 DEF Row
  <2>3. Read(q, "verify_write", r, c) /\ "verify_write" \in Steps \ {"idle", "create"}
    BY <1>3, <2>1 DEF VerifyRead, Steps
  <2> QED BY <1>1, <2>2, <2>3, ReadHeld
<1>4. ASSUME NEW c \in Code, ResetRead(q, c) PROVE LockHeld' /\ LockStep
  <2>1. PICK h \in 1..MaxHash : Read(q, "reset_write", [row EXCEPT !.hash = h], c)
    BY <1>4 DEF ResetRead
  <2>2. PICK r : r = [row EXCEPT !.hash = h]
    OBVIOUS
  <2>3. r.lock = row.lock
    BY <1>1, <2>2 DEF Row
  <2>4. Read(q, "reset_write", r, c) /\ "reset_write" \in Steps \ {"idle", "create"}
    BY <2>1, <2>2 DEF Steps
  <2> QED BY <1>1, <2>3, <2>4, ReadHeld
<1>5. CASE ForgotWrite(q) \/ ResendWrite(q)
  BY <1>5, UpdateHeld, IssueStays DEF ForgotWrite, ResendWrite, UpdateWithCode
<1>6. CASE VerifyWrite(q) \/ ResetWrite(q)
  <2>1. CodesStay
    BY <1>6 DEF VerifyWrite, ResetWrite, CodesStay, TypeOK, DatabaseOK
  <2> QED BY <1>6, <2>1, UpdateHeld DEF VerifyWrite, ResetWrite
<1> QED BY <1>2, <1>3, <1>4, <1>5, <1>6

LEMMA AdminHeld ==
    ASSUME TypeOK, TypeOK', LockHeld, NEW q \in Request,
           \/ \E b \in BOOLEAN : CreateUser(q, b) \/ (\E e \in Email : UpdateUser(q, b, e))
           \/ DeleteUser(q)
           \/ WriteUser(q)
    PROVE  LockHeld' /\ LockStep
<1>1. /\ row \in Row /\ row.lock \in Nat /\ row.lock >= row.lock
      /\ passed \in Nat
  BY AccountConstants DEF AccountConstants, TypeOK, DatabaseOK, Row
<1>2. ASSUME NEW b \in BOOLEAN, CreateUser(q, b) PROVE LockHeld' /\ LockStep
  <2>1. row'.lock = 0 /\ row'.exists /\ row.lock = 0
    BY <1>2 DEF CreateUser, AddedUser, NoRow, LockHeld
  <2>2. UNCHANGED <<passed, pc, fresh>>
    BY <1>2 DEF CreateUser, requestVars
  <2> QED BY <1>1, <2>1, <2>2 DEF LockHeld, HoldsLock, LockStep, IsLocked
<1>3. ASSUME NEW b \in BOOLEAN, NEW e \in Email, UpdateUser(q, b, e)
      PROVE  LockHeld' /\ LockStep
  <2>1. PICK r : r = [row EXCEPT !.active = b, !.email = e]
    OBVIOUS
  <2>2. r.lock = row.lock
    BY <1>1, <2>1 DEF Row
  <2>3. Read(q, "update_user", r, NoCode) /\ "update_user" \in Steps \ {"idle", "create"}
    BY <1>3, <2>1 DEF UpdateUser, Steps
  <2> QED BY <1>1, <2>2, <2>3, ReadHeld
<1>4. CASE DeleteUser(q)
  BY <1>1, <1>4, ReadHeld DEF DeleteUser, Steps
<1>5. CASE WriteUser(q)
  <2>1. row'.lock = row.lock /\ row'.exists = row.exists /\ fresh' = {}
    BY <1>1, <1>5 DEF WriteUser, Row
  <2> QED BY <1>1, <2>1 DEF LockHeld, LockStep
<1> QED BY <1>2, <1>3, <1>4, <1>5

LEMMA OtherHeld ==
    ASSUME TypeOK, LockHeld,
           \/ \E q \in Request : Abort(q)
           \/ OthersMove
           \/ LockRunsOut
           \/ \E c \in Code : CodeLapses(c)
           \/ UNCHANGED vars
    PROVE  LockHeld' /\ LockStep
<1>1. /\ row \in Row /\ row.lock \in Nat /\ passed \in Nat /\ locks \in Nat
      /\ passed \in passed..locks
  BY AccountConstants DEF AccountConstants, TypeOK, DatabaseOK, Row
<1>2. CASE OthersMove
  BY <1>1, <1>2, SameHeld DEF OthersMove, requestVars
<1>3. ASSUME NEW q \in Request, Abort(q) PROVE LockHeld' /\ LockStep
  <2>1. ASSUME NEW o \in fresh' PROVE o \in fresh /\ UNCHANGED <<pc[o], seen[o]>>
    BY <1>3, <2>1 DEF Abort, Finish, TypeOK, RequestsOK
  <2> QED BY <1>1, <1>3, <2>1, SameHeld DEF Abort
<1>4. CASE LockRunsOut
  <2>1. passed' \in passed..locks'
    BY <1>1, <1>4 DEF LockRunsOut
  <2> QED BY <1>4, <2>1, SameHeld DEF LockRunsOut, requestVars, historyVars
<1>5. ASSUME NEW c \in Code, CodeLapses(c) PROVE LockHeld' /\ LockStep
  BY <1>1, <1>5, SameHeld DEF CodeLapses, requestVars, historyVars
<1>6. CASE UNCHANGED vars
  BY <1>1, <1>6, SameHeld DEF vars, requestVars, historyVars
<1> QED BY <1>2, <1>3, <1>4, <1>5, <1>6

\* A lock ends by running out, unless an outdated entity is written
\* (LockIsKeptUnlessOvertaken): a right password, a reset, a verification or a
\* mail never lift it.
THEOREM LockIsKeptTheorem == Spec => LockIsKeptUnlessOvertaken
<1>1. TypeOK /\ TypeOK' /\ LockHeld /\ [Next]_vars => LockHeld' /\ LockStep
  <2> SUFFICES ASSUME TypeOK, TypeOK', LockHeld, [Next]_vars PROVE LockHeld' /\ LockStep
    OBVIOUS
  <2>1. ASSUME NEW q \in Request, Step(q) PROVE LockHeld' /\ LockStep
    BY <2>1, RegisterHeld, LoginHeld, MailHeld, AdminHeld, OtherHeld DEF Step
  <2> QED BY <2>1, OtherHeld DEF Next
<1>2. LockStep <=> (IsLocked(row) => row'.lock >= row.lock \/ OvertakenWrite)
  BY DEF LockStep
<1> QED BY InitHeld, <1>1, <1>2, TypeCorrect, PTL DEF Spec, LockIsKeptUnlessOvertaken

-----------------------------------------------------------------------------
(* One request at a time.                                                  *)

\* A request under way works on the row as it is.
Lone == \A q \in Request : pc[q] \notin {"idle", "create"} => q \in fresh

LEMMA LoneRequests ==
    ASSUME NEW q \in Request, Request = {q}
    PROVE  Spec => []Lone
<1>1. Init => Lone
  BY DEF Init, Lone
<1>2. TypeOK /\ Lone /\ [Next]_vars => Lone'
  <2> SUFFICES ASSUME TypeOK, Lone, [Next]_vars PROVE Lone'
    OBVIOUS
  <2>1. \A l, r, c : Read(q, l, r, c) => Lone'
    BY DEF Read, Lone, TypeOK, RequestsOK
  <2>2. Finish(q) => Lone'
    BY DEF Finish, Lone, TypeOK, RequestsOK
  <2>3. CASE RegisterRead(q)
    BY <2>3 DEF RegisterRead, Lone, TypeOK, RequestsOK
  <2>4. CASE RegisterCreate(q)
    BY <2>4 DEF RegisterCreate, Lone, TypeOK, RequestsOK
  <2>5. CASE RegisterAnother(q) \/ RegisterClash(q) \/ WriteUser(q) \/ Abort(q)
    BY <2>2, <2>5 DEF RegisterAnother, RegisterClash, WriteUser, Abort
  <2>6. CASE RegisterWrite(q) \/ ForgotWrite(q) \/ ResendWrite(q) \/ VerifyWrite(q)
             \/ ResetWrite(q) \/ LoginWrite(q)
    BY <2>2, <2>6 DEF RegisterWrite, ForgotWrite, ResendWrite, VerifyWrite, ResetWrite,
                      LoginWrite, UpdateWithCode, Update
  <2>7. CASE \E g \in 0..MaxHash : LoginRight(q, g) \/ LoginWrong(q, g) \/ LoginLock(q, g)
    BY <2>1, <2>7 DEF LoginRight, LoginWrong, LoginLock
  <2>8. CASE ForgotRead(q) \/ ResendRead(q) \/ \E c \in Code : VerifyRead(q, c) \/ ResetRead(q, c)
    BY <2>1, <2>8 DEF ForgotRead, ResendRead, VerifyRead, ResetRead
  <2>9. CASE \E b \in BOOLEAN : CreateUser(q, b)
    BY <2>9 DEF CreateUser, requestVars, Lone
  <2>10. CASE DeleteUser(q) \/ \E b \in BOOLEAN, e \in Email : UpdateUser(q, b, e)
    BY <2>1, <2>10 DEF DeleteUser, UpdateUser
  <2>11. CASE OthersMove \/ LockRunsOut \/ \E c \in Code : CodeLapses(c)
    BY <2>11 DEF OthersMove, LockRunsOut, CodeLapses, requestVars, historyVars, Lone
  <2>12. CASE UNCHANGED vars
    BY <2>12 DEF vars, requestVars, historyVars, Lone
  <2> QED BY <2>3, <2>4, <2>5, <2>6, <2>7, <2>8, <2>9, <2>10, <2>11, <2>12 DEF Next, Step
<1> QED BY <1>1, <1>2, TypeCorrect, PTL DEF Spec

\* Served one at a time, no request is ever overtaken, so the promises are those the
\* requests made, and a lock that is in force is never lifted or shortened: what the
\* handlers lose, they lose to each other or to a login's write that failed.
THEOREM LoneRequestsKeepPromises ==
    ASSUME NEW q \in Request, Request = {q}
    PROVE  Spec => []Lone /\ [][IsLocked(row) => row'.lock >= row.lock]_vars
<1>1. Spec => []Lone
  BY LoneRequests
<1>2. Lone /\ (IsLocked(row) => row'.lock >= row.lock \/ OvertakenWrite)
      => (IsLocked(row) => row'.lock >= row.lock)
  BY DEF Lone, OvertakenWrite
<1> QED BY <1>1, <1>2, LockIsKeptTheorem, PTL DEF LockIsKeptUnlessOvertaken

-----------------------------------------------------------------------------
(* The answer to a second registration.                                    *)

\* Nobody holds the address while a registration that found it free, and that nobody
\* has forestalled, is on its way to the insert.
Sighted ==
    /\ ~blundered
    /\ \A q \in sighted : pc[q] = "create" /\ ~Held

\* A step after which none is sighted.
LEMMA NoneSighted == ASSUME Sighted, sighted' = {}, blundered' = blundered PROVE Sighted'
  BY DEF Sighted

\* A step that takes the address from none who found it free.
LEMMA SameSighted ==
    ASSUME Sighted, sighted' \subseteq sighted, blundered' = blundered,
           Held' => Held \/ sighted' = {},
           \A o \in sighted' : pc'[o] = pc[o]
    PROVE  Sighted'
  BY DEF Sighted

\* A write of e-mail e, by a request that is not a registration on its way.
LEMMA MoveSighted ==
    ASSUME TypeOK, Sighted, NEW e, Moves(e), blundered' = blundered,
           UNCHANGED taken, row'.email = e,
           \A o \in sighted : pc'[o] = pc[o]
    PROVE  Sighted'
<1>1. CASE ~Held /\ e = "first"
  BY <1>1, NoneSighted DEF Moves
<1>2. CASE Held \/ e # "first"
  <2>1. sighted' = sighted
    BY <1>2 DEF Moves
  <2>2. Held' => Held
    BY <1>2 DEF Held
  <2> QED BY <2>1, <2>2, SameSighted
<1> QED BY <1>1, <1>2

\* A request that ends and was not a registration on its way to the insert.
LEMMA FinishSighted ==
    ASSUME TypeOK, Sighted, NEW q \in Request, Finish(q), pc[q] # "create"
    PROVE  \A o \in sighted : pc'[o] = pc[o]
  BY DEF Finish, Sighted, TypeOK, RequestsOK, HistoryOK

LEMMA UpdateSighted ==
    ASSUME TypeOK, Sighted, NEW q \in Request, NEW t, NEW n, Update(q, t, n),
           pc[q] # "create", blundered' = blundered
    PROVE  Sighted'
<1>1. \A o \in sighted : pc'[o] = pc[o]
  BY FinishSighted DEF Update
<1> QED BY <1>1, MoveSighted DEF Update

LEMMA RegisterSighted ==
    ASSUME TypeOK, Sighted, NEW q \in Request,
           \/ RegisterRead(q) \/ RegisterCreate(q) \/ RegisterAnother(q)
           \/ RegisterClash(q) \/ RegisterWrite(q)
    PROVE  Sighted'
<1>1. CASE RegisterRead(q)
  <2>1. UNCHANGED <<blundered, row, taken>> /\ pc'[q] = "create"
    BY <1>1 DEF RegisterRead, TypeOK, RequestsOK
  <2>2. ASSUME NEW o \in sighted' PROVE pc'[o] = "create" /\ ~Held
    BY <1>1, <2>1, <2>2 DEF RegisterRead, Sighted, TypeOK, RequestsOK, HistoryOK
  <2> QED BY <2>1, <2>2 DEF Sighted, Held
<1>2. CASE RegisterCreate(q) \/ RegisterAnother(q)
  BY <1>2, NoneSighted DEF RegisterCreate, RegisterAnother
<1>3. CASE RegisterClash(q)
  <2>1. q \notin sighted /\ UNCHANGED <<row, taken>>
    BY <1>3 DEF RegisterClash, Sighted
  <2>2. blundered' = blundered
    BY <1>3, <2>1 DEF RegisterClash, Sighted, TypeOK, HistoryOK
  <2>3. ASSUME NEW o \in sighted' PROVE pc'[o] = pc[o]
    BY <1>3, <2>3 DEF RegisterClash, Finish, TypeOK, RequestsOK, HistoryOK
  <2> QED BY <1>3, <2>1, <2>2, <2>3, SameSighted DEF RegisterClash, Held
<1>4. CASE RegisterWrite(q)
  BY <1>4, UpdateSighted DEF RegisterWrite, UpdateWithCode
<1> QED BY <1>1, <1>2, <1>3, <1>4

\* Every other step of a request.
LEMMA RequestSighted ==
    ASSUME TypeOK, Sighted, NEW q \in Request, Step(q)
    PROVE  Sighted'
<1>1. ASSUME NEW l, NEW r, NEW c, Read(q, l, r, c) PROVE Sighted'
  <2>1. \A o \in sighted' : pc'[o] = pc[o]
    BY <1>1 DEF Read, Sighted, TypeOK, RequestsOK, HistoryOK
  <2> QED BY <1>1, <2>1, SameSighted DEF Read, Held
<1>2. ASSUME Finish(q), sighted' \in {sighted, sighted \ {q}}, pc[q] # "create" \/ q \notin sighted',
             UNCHANGED <<row, taken, blundered>>
      PROVE  Sighted'
  <2>1. \A o \in sighted' : pc'[o] = pc[o]
    BY <1>2 DEF Finish, Sighted, TypeOK, RequestsOK, HistoryOK
  <2> QED BY <1>2, <2>1, SameSighted DEF Held
<1>3. CASE RegisterRead(q) \/ RegisterCreate(q) \/ RegisterAnother(q)
           \/ RegisterClash(q) \/ RegisterWrite(q)
  BY <1>3, RegisterSighted
<1>4. CASE ForgotWrite(q) \/ ResendWrite(q)
  BY <1>4, UpdateSighted DEF ForgotWrite, ResendWrite, UpdateWithCode
<1>5. CASE VerifyWrite(q) \/ ResetWrite(q)
  BY <1>5, UpdateSighted DEF VerifyWrite, ResetWrite
<1>6. CASE LoginWrite(q)
  <2> DEFINE n == IF pc[q] = "login_wrong"
                  THEN SmallerOf(fails + 1, MaxLoginAttempts) ELSE 0
  <2>1. pc[q] # "create" /\ blundered' = blundered
    BY <1>6 DEF LoginWrite, LoginSteps
  <2>2. CASE Update(q, promised, n)
    BY <2>1, <2>2, UpdateSighted
  <2>3. CASE ~Update(q, promised, n)
    BY <1>2, <1>6, <2>1, <2>3 DEF LoginWrite
  <2> QED BY <2>2, <2>3
<1>7. CASE \E g \in 0..MaxHash : LoginRight(q, g) \/ LoginWrong(q, g) \/ LoginLock(q, g)
  BY <1>1, <1>7 DEF LoginRight, LoginWrong, LoginLock
<1>8. CASE ForgotRead(q) \/ ResendRead(q)
  BY <1>1, <1>8 DEF ForgotRead, ResendRead
<1>9. CASE \E c \in Code : VerifyRead(q, c) \/ ResetRead(q, c)
  BY <1>1, <1>9 DEF VerifyRead, ResetRead
<1>10. CASE DeleteUser(q) \/ \E b \in BOOLEAN, e \in Email : UpdateUser(q, b, e)
  BY <1>1, <1>10 DEF DeleteUser, UpdateUser
<1>11. ASSUME NEW b \in BOOLEAN, CreateUser(q, b) PROVE Sighted'
  <2>1. row'.email = "first" /\ UNCHANGED <<pc, taken, blundered>> /\ Moves("first")
    BY <1>11 DEF CreateUser, AddedUser, NoRow, requestVars
  <2> QED BY <2>1, MoveSighted
<1>12. CASE WriteUser(q)
  <2>1. row'.email = seen[q].email
    BY <1>12 DEF WriteUser, TypeOK, DatabaseOK, Row
  <2>2. \A o \in sighted : pc'[o] = pc[o]
    BY <1>12, FinishSighted DEF WriteUser
  <2> QED BY <1>12, <2>1, <2>2, MoveSighted DEF WriteUser
<1>13. CASE Abort(q)
  BY <1>2, <1>13 DEF Abort
<1> QED BY <1>3, <1>4, <1>5, <1>6, <1>7, <1>8, <1>9, <1>10, <1>11, <1>12, <1>13 DEF Step

\* A registration whose look-up succeeded, and during which nobody took the address,
\* is never answered with 500: a taken address is a conflict, whatever registrations,
\* administration and stale writes of an e-mail go on (DuplicateIsConflictUnlessTaken).
THEOREM DuplicateTheorem == Spec => []DuplicateIsConflictUnlessTaken
<1>1. Init => Sighted
  <2>1. blundered = FALSE => ~blundered
    OBVIOUS
  <2> QED BY <2>1 DEF Init, Sighted
<1>2. TypeOK /\ Sighted /\ [Next]_vars => Sighted'
  <2> SUFFICES ASSUME TypeOK, Sighted, [Next]_vars PROVE Sighted'
    OBVIOUS
  <2>1. ASSUME NEW q \in Request, Step(q) PROVE Sighted'
    BY <2>1, RequestSighted
  <2>2. CASE OthersMove
    <3>1. CASE taken' = TRUE
      BY <2>2, <3>1, NoneSighted, SameSighted DEF OthersMove, Moves, requestVars, Held
    <3>2. CASE taken' = FALSE
      BY <2>2, <3>2, SameSighted DEF OthersMove, Moves, requestVars, Held
    <3> QED BY <2>2, <3>1, <3>2 DEF OthersMove
  <2>3. CASE LockRunsOut \/ \E c \in Code : CodeLapses(c)
    BY <2>3, SameSighted DEF LockRunsOut, CodeLapses, requestVars, historyVars, Held
  <2>4. CASE UNCHANGED vars
    BY <2>4, SameSighted DEF vars, requestVars, historyVars, Held
  <2> QED BY <2>1, <2>2, <2>3, <2>4 DEF Next
<1>3. Sighted => DuplicateIsConflictUnlessTaken
  BY DEF Sighted, DuplicateIsConflictUnlessTaken
<1> QED BY <1>1, <1>2, <1>3, TypeCorrect, PTL DEF Spec

-----------------------------------------------------------------------------
(* Requests are atomic.                                                    *)

\* The entity of a login that begins lock n.
LockedOut(r, n) == [r EXCEPT !.attempts = @ + 2, !.lock = n]

\* What the row becomes through a request: by its mail, its login, its wrong
\* password, its verification and its reset.  What the administration writes does
\* not depend on the rest of its entity.
MeansMail(q) ==
    /\ pc[q] \in {"register_write", "resend_write", "forgot_write"}
    /\ seen[q] = row
    /\ pc[q] # "forgot_write" => ~row.verified

MeansLogin(q) ==
    /\ pc[q] = "login_right" /\ MayTry(row)
    /\ seen[q] = Unlock(row)

MeansMistake(q) ==
    /\ pc[q] = "login_wrong" /\ MayTry(row) /\ row.attempts + 1 < MaxLoginAttempts
    /\ seen[q] = CountFailure(row)

MeansLock(q) ==
    /\ pc[q] = "login_lock" /\ MayTry(row) /\ row.attempts + 1 >= MaxLoginAttempts
    /\ \E n \in 1..MaxLock : n > row.lock /\ seen[q] = LockedOut(row, n)

MeansVerify(q) == pc[q] = "verify_write" /\ seen[q] = [row EXCEPT !.verified = TRUE]

MeansReset(q) ==
    /\ pc[q] = "reset_write"
    /\ \E h \in 1..MaxHash : h > row.hash /\ seen[q] = [row EXCEPT !.hash = h]

MeansAdmin(q) == pc[q] \in {"update_user", "delete_user"}

\* An entity read from the row as it is now is that row after the whole request:
\* what the request was let through for still holds.
Meant(q) ==
    \/ MeansMail(q) \/ MeansLogin(q) \/ MeansMistake(q) \/ MeansLock(q)
    \/ MeansVerify(q) \/ MeansReset(q) \/ MeansAdmin(q)

\* A request keeps the code that it was let through with.
CodeKept(q) ==
    /\ pc[q] = "verify_write" => code[q] \in Code /\ codes[code[q]] = "verify"
    /\ pc[q] = "reset_write" => code[q] \in Code /\ codes[code[q]] = "reset"

Atomic ==
    /\ row.lock <= locks
    /\ \A q \in Request : seen[q].lock <= locks /\ CodeKept(q)
    /\ \A q \in fresh : Meant(q)

\* What one step may do to the account.
AtomicStep == Owner!Next \/ OvertakenWrite \/ UNCHANGED Owner!vars

\* What the login handler makes of the attempts and the lock.
LEMMA LoginEntities ==
    ASSUME NEW r \in Row, locks \in 0..MaxLock, locks < MaxLock
    PROVE  /\ Unlock(r).lock = 0
           /\ CountFailure(r).lock = r.lock
           /\ Lock(CountFailure(r)) = LockedOut(r, locks + 1)
           /\ Lock(CountFailure(r)).lock = locks + 1
<1>1. Unlock(r).lock = 0 /\ CountFailure(r).lock = r.lock
  BY DEF Unlock, CountFailure, Row
<1> DEFINE c == CountFailure(r)
<1>2. c \in Row /\ locks + 1 \in 0..MaxLock
  BY Entities, AccountConstants DEF AccountConstants
<1>3. /\ c.exists = r.exists /\ c.email = r.email /\ c.active = r.active
      /\ c.verified = r.verified /\ c.hash = r.hash /\ c.attempts = r.attempts + 1
  BY DEF CountFailure, Row
<1>4. ASSUME NEW s \in Row
      PROVE  /\ Lock(s).exists = s.exists /\ Lock(s).email = s.email
             /\ Lock(s).active = s.active /\ Lock(s).verified = s.verified
             /\ Lock(s).hash = s.hash /\ Lock(s).attempts = s.attempts + 1
             /\ Lock(s).lock = locks + 1
  BY DEF Lock, Row
<1>5. \A n :
             /\ LockedOut(r, n).exists = r.exists /\ LockedOut(r, n).email = r.email
             /\ LockedOut(r, n).active = r.active /\ LockedOut(r, n).verified = r.verified
             /\ LockedOut(r, n).hash = r.hash
             /\ LockedOut(r, n).attempts = r.attempts + 2 /\ LockedOut(r, n).lock = n
  BY DEF LockedOut, Row
<1>6. Lock(c) \in Row
  BY <1>2, Entities
<1>7. LockedOut(r, locks + 1) \in Row
  <2>1. r.attempts + 2 \in Nat
    BY DEF Row
  <2> QED BY <1>2, <2>1 DEF LockedOut, Row
<1>8. ASSUME NEW a \in Row, NEW b \in Row, a.exists = b.exists, a.email = b.email,
             a.active = b.active, a.verified = b.verified, a.hash = b.hash, a.attempts = b.attempts, a.lock = b.lock
      PROVE a = b
  BY <1>8 DEF Row
<1>9. r.attempts + 1 + 1 = r.attempts + 2
  BY DEF Row
<1> QED BY <1>1, <1>2, <1>3, <1>4, <1>5, <1>6, <1>7, <1>8, <1>9

\* Only a request past its read means anything, and one thing.
LEMMA MeantStep ==
    ASSUME NEW q, Meant(q)
    PROVE  /\ pc[q] \notin {"idle", "create"}
           /\ pc[q] \in {"register_write", "resend_write", "forgot_write"} => MeansMail(q)
           /\ pc[q] = "login_right" => MeansLogin(q)
           /\ pc[q] = "login_wrong" => MeansMistake(q)
           /\ pc[q] = "login_lock" => MeansLock(q)
           /\ pc[q] = "verify_write" => MeansVerify(q)
           /\ pc[q] = "reset_write" => MeansReset(q)
<1>4. MeansAdmin(q) => pc[q] \in {"update_user", "delete_user"}
  BY DEF MeansAdmin
<1>1. MeansMail(q) => pc[q] \in {"register_write", "resend_write", "forgot_write"}
  BY DEF MeansMail
<1>2. /\ MeansLogin(q) => pc[q] = "login_right"
      /\ MeansMistake(q) => pc[q] = "login_wrong"
      /\ MeansLock(q) => pc[q] = "login_lock"
  BY DEF MeansLogin, MeansMistake, MeansLock
<1>3. /\ MeansVerify(q) => pc[q] = "verify_write"
      /\ MeansReset(q) => pc[q] = "reset_write"
  BY DEF MeansVerify, MeansReset
<1> QED BY <1>1, <1>2, <1>3, <1>4 DEF Meant

\* What a request means does not change with anything but the row.
LEMMA MeantStays ==
    ASSUME NEW q, Meant(q), UNCHANGED <<row, pc[q], seen[q]>>, MayTry(row) => MayTry(row)'
    PROVE  Meant(q)'
<1>1. MeansMail(q) => MeansMail(q)'
  BY DEF MeansMail
<1>2. MeansLogin(q) => MeansLogin(q)'
  BY DEF MeansLogin
<1>3. MeansMistake(q) => MeansMistake(q)'
  BY DEF MeansMistake
<1>4. MeansLock(q) => MeansLock(q)'
  BY DEF MeansLock
<1>5. MeansVerify(q) => MeansVerify(q)'
  BY DEF MeansVerify
<1>6. MeansReset(q) => MeansReset(q)'
  BY DEF MeansReset
<1>7. MeansAdmin(q) => MeansAdmin(q)'
  BY DEF MeansAdmin
<1> QED BY <1>1, <1>2, <1>3, <1>4, <1>5, <1>6, <1>7 DEF Meant

LEMMA InitAtomic == Init => Owner!Init /\ Atomic
<1> SUFFICES ASSUME Init PROVE Owner!Init /\ Atomic
  OBVIOUS
<1>1. NoRow = Owner!Absent /\ NewUser = Owner!Opened
  BY DEF NoRow, NewUser, Owner!Absent, Owner!Opened
<1>2. NoRow.lock = 0 /\ NewUser.lock = 0 /\ [NewUser EXCEPT !.verified = TRUE].lock = 0
  BY DEF NoRow, NewUser
<1>3. Owner!Init
  BY <1>1 DEF Init, Owner!Init
<1>4. row.lock = 0 /\ locks = 0 /\ fresh = {}
  BY <1>2 DEF Init
<1>5. ASSUME NEW q \in Request PROVE seen[q].lock = 0 /\ CodeKept(q)
  <2>1. pc = [o \in Request |-> "idle"] /\ seen = [o \in Request |-> NoRow]
    BY DEF Init
  <2>2. pc[q] = "idle" /\ seen[q] = NoRow
    BY <2>1, Zenon
  <2>3. CodeKept(q)
    BY <2>2 DEF CodeKept
  <2> QED BY <1>2, <2>2, <2>3, Zenon
<1>6. Atomic
  BY <1>4, <1>5 DEF Atomic
<1> QED BY <1>3, <1>6

\* A step that leaves the row alone and adds only requests that are Meant.
LEMMA SameAtomic ==
    ASSUME TypeOK, TypeOK', Atomic, UNCHANGED <<row, codes>>,
           passed <= passed', locks <= locks',
           \A q \in Request : UNCHANGED <<pc[q], seen[q], code[q]>>
                              \/ (seen'[q].lock <= locks' /\ CodeKept(q)'),
           \A q \in fresh' : (q \in fresh /\ UNCHANGED <<pc[q], seen[q]>>) \/ Meant(q)'
    PROVE  Atomic'
<1>1. /\ locks \in Nat /\ locks' \in Nat /\ passed \in Nat /\ passed' \in Nat
      /\ row.lock \in Nat
      /\ \A q \in Request : seen[q].lock \in Nat
  BY AccountConstants DEF AccountConstants, TypeOK, DatabaseOK, RequestsOK, Row
<1>2. row'.lock <= locks'
  BY <1>1 DEF Atomic
<1>3. ASSUME NEW q \in Request PROVE seen'[q].lock <= locks' /\ CodeKept(q)'
  <2>1. seen[q].lock <= locks /\ CodeKept(q)
    BY DEF Atomic
  <2> QED BY <1>1, <2>1 DEF CodeKept
<1>4. MayTry(row) => MayTry(row)'
  BY <1>1 DEF MayTry, IsLocked
<1>5. ASSUME NEW q \in fresh' PROVE Meant(q)'
  <2>1. CASE Meant(q)'
    BY <2>1
  <2>2. CASE q \in fresh /\ UNCHANGED <<pc[q], seen[q]>>
    BY <1>4, <2>2, MeantStays DEF Atomic
  <2> QED BY <2>1, <2>2
<1> QED BY <1>2, <1>3, <1>5 DEF Atomic

\* Read, given an entity that is the row after the whole request.
LEMMA ReadAtomic ==
    ASSUME TypeOK, TypeOK', Atomic, NEW q \in Request, NEW l, NEW r, NEW c,
           Read(q, l, r, c), locks <= locks', r.lock <= locks',
           l = "verify_write" => c \in Code /\ codes[c] = "verify",
           l = "reset_write" => c \in Code /\ codes[c] = "reset",
           Meant(q)'
    PROVE  Atomic' /\ AtomicStep
<1>1. /\ pc'[q] = l /\ seen'[q] = r /\ code'[q] = c
      /\ UNCHANGED <<row, codes, passed>> /\ fresh' = fresh \cup {q}
      /\ \A o \in Request \ {q} : UNCHANGED <<pc[o], seen[o], code[o]>>
  BY DEF Read, TypeOK, RequestsOK
<1>2. CodeKept(q)'
  BY <1>1 DEF CodeKept
<1>3. passed <= passed'
  BY <1>1, AccountConstants DEF AccountConstants, TypeOK, DatabaseOK
<1>4. fresh \subseteq Request
  BY DEF TypeOK, RequestsOK
<1>5. \A o \in fresh' : (o \in fresh /\ UNCHANGED <<pc[o], seen[o]>>) \/ Meant(o)'
  BY <1>1, <1>4
<1>6. \A o \in Request : UNCHANGED <<pc[o], seen[o], code[o]>>
                         \/ (seen'[o].lock <= locks' /\ CodeKept(o)')
  BY <1>1, <1>2
<1>7. Atomic'
  BY <1>1, <1>3, <1>5, <1>6, SameAtomic
<1>8. UNCHANGED Owner!vars
  BY <1>1 DEF Owner!vars
<1> QED BY <1>7, <1>8 DEF AtomicStep

\* Update writes what was meant, or what was overtaken.
LEMMA UpdateAtomic ==
    ASSUME TypeOK, Atomic, NEW q \in Request, NEW t, NEW n, Update(q, t, n),
           pc[q] \notin {"idle", "create", "update_user", "delete_user"},
           UNCHANGED <<locks, passed>>, CodesStay
    PROVE  Atomic' /\ (OvertakenWrite \/ (Meant(q) /\ row' = seen[q]))
<1>1. /\ row' = seen[q] /\ fresh' = {} /\ pc'[q] = "idle" /\ seen'[q] = NoRow
      /\ \A o \in Request \ {q} : UNCHANGED <<pc[o], seen[o], code[o]>>
  BY DEF Update, Finish, TypeOK, RequestsOK
<1>2. NoRow.lock = 0 /\ 0 <= locks
  BY AccountConstants DEF AccountConstants, NoRow, TypeOK, DatabaseOK
<1>3. \A o \in Request : seen'[o].lock <= locks'
  BY <1>1, <1>2 DEF Atomic
<1>4. ASSUME NEW o \in Request PROVE CodeKept(o)'
  <2>1. CASE o = q
    BY <1>1, <2>1 DEF CodeKept
  <2>2. CASE o # q
    <3>1. CodeKept(o) /\ UNCHANGED <<pc[o], code[o]>>
      BY <1>1, <2>2 DEF Atomic
    <3> QED BY <3>1 DEF CodeKept, CodesStay
  <2> QED BY <2>1, <2>2
<1>5. Atomic'
  BY <1>1, <1>3, <1>4 DEF Atomic
<1>6. CASE q \in fresh
  BY <1>1, <1>5, <1>6 DEF Atomic
<1>7. CASE q \notin fresh
  BY <1>5, <1>7, OvertakenUpdate DEF OvertakenWrite, CodesStay
<1> QED BY <1>6, <1>7

\* The same with a new code.
LEMMA UpdateWithCodeAtomic ==
    ASSUME TypeOK, Atomic, NEW q \in Request, NEW k \in {"verify", "reset"},
           UpdateWithCode(q, k), UNCHANGED <<locks, passed>>,
           pc[q] \in {"register_write", "resend_write", "forgot_write"},
           pc[q] = "forgot_write" => k = "reset"
    PROVE  Atomic' /\ AtomicStep
<1>1. PICK c \in Code : codes[c] = "none" /\ codes' = [codes EXCEPT ![c] = k]
  BY DEF UpdateWithCode
<1>2. Update(q, promised, fails) /\ CodesStay
  BY IssueStays DEF UpdateWithCode
<1>3. Atomic' /\ (OvertakenWrite \/ (Meant(q) /\ row' = seen[q]))
  BY <1>2, UpdateAtomic
<1>4. CASE Meant(q) /\ row' = seen[q]
  <2>1. row' = row /\ (k = "verify" => ~row.verified)
    BY <1>4, MeantStep DEF MeansMail
  <2>2. row.exists
    BY DEF TypeOK, RequestsOK
  <2>3. Owner!Issue(c, k)
    BY <1>1, <2>1, <2>2 DEF Owner!Issue
  <2> QED BY <1>3, <2>3 DEF AtomicStep, Owner!Next
<1> QED BY <1>3, <1>4 DEF AtomicStep

LEMMA RegisterAtomic ==
    ASSUME TypeOK, TypeOK', Atomic, NEW q \in Request,
           \/ RegisterRead(q) \/ RegisterCreate(q) \/ RegisterAnother(q)
           \/ RegisterClash(q) \/ RegisterWrite(q)
    PROVE  Atomic' /\ AtomicStep
<1>1. locks \in Nat /\ passed \in Nat /\ locks <= locks /\ passed <= passed
      /\ NoRow.lock = 0 /\ NewUser.lock = 0 /\ ~NewUser.verified
  BY AccountConstants DEF AccountConstants, TypeOK, DatabaseOK, NoRow, NewUser
<1>2. CASE RegisterRead(q)
  <2>1. \A o \in Request : pc[o] = pc'[o] \/ (pc[o] = "idle" /\ pc'[o] = "create")
    BY <1>2 DEF RegisterRead, TypeOK, RequestsOK
  <2>2. UNCHANGED <<row, codes, locks, passed, seen, code, fresh>>
    BY <1>2 DEF RegisterRead
  <2>3. ASSUME NEW o \in Request PROVE seen'[o].lock <= locks' /\ CodeKept(o)'
    BY <2>1, <2>2, <2>3 DEF Atomic, CodeKept
  <2>4. ASSUME NEW o \in fresh' PROVE o \in fresh /\ UNCHANGED <<pc[o], seen[o]>>
    BY <2>1, <2>2, <2>4, MeantStep DEF Atomic, TypeOK, RequestsOK
  <2>5. Atomic'
    BY <1>1, <2>2, <2>3, <2>4, SameAtomic
  <2> QED BY <2>2, <2>5 DEF AtomicStep, Owner!vars
<1>3. CASE RegisterAnother(q) \/ RegisterClash(q)
  <2>1. /\ UNCHANGED <<row, codes, locks, passed, fresh>> /\ Finish(q) /\ pc[q] = "create"
    BY <1>3 DEF RegisterAnother, RegisterClash
  <2>2. /\ pc'[q] = "idle" /\ seen'[q] = NoRow
        /\ \A o \in Request \ {q} : UNCHANGED <<pc[o], seen[o], code[o]>>
    BY <2>1 DEF Finish, TypeOK, RequestsOK
  <2>3. ASSUME NEW o \in Request PROVE seen'[o].lock <= locks' /\ CodeKept(o)'
    BY <1>1, <2>1, <2>2, <2>3 DEF Atomic, CodeKept
  <2>4. ASSUME NEW o \in fresh' PROVE o \in fresh /\ UNCHANGED <<pc[o], seen[o]>>
    BY <2>1, <2>2, <2>4, MeantStep DEF Atomic, TypeOK, RequestsOK
  <2>5. Atomic'
    BY <1>1, <2>1, <2>3, <2>4, SameAtomic
  <2> QED BY <2>1, <2>5 DEF AtomicStep, Owner!vars
<1>4. CASE RegisterCreate(q)
  <2>1. /\ row' = NewUser /\ UNCHANGED <<codes, locks, passed, code>> /\ fresh' = {q}
        /\ pc'[q] = "register_write" /\ seen'[q] = NewUser
        /\ \A o \in Request \ {q} : UNCHANGED <<pc[o], seen[o]>>
    BY <1>4 DEF RegisterCreate, TypeOK, RequestsOK
  <2>2. Meant(q)'
    BY <1>1, <2>1 DEF Meant, MeansMail
  <2>3. ASSUME NEW o \in Request PROVE seen'[o].lock <= locks' /\ CodeKept(o)'
    BY <1>1, <2>1, <2>3 DEF Atomic, CodeKept
  <2>4. Atomic'
    BY <1>1, <2>1, <2>2, <2>3 DEF Atomic
  <2>5. NewUser = Owner!Opened
    BY DEF NewUser, NoRow, Owner!Opened, Owner!Absent
  <2>6. Owner!Register
    BY <1>4, <2>1, <2>5 DEF RegisterCreate, Owner!Register, Owner!Change
  <2> QED BY <2>4, <2>6 DEF AtomicStep, Owner!Next
<1>5. CASE RegisterWrite(q)
  BY <1>5, UpdateWithCodeAtomic DEF RegisterWrite
<1> QED BY <1>2, <1>3, <1>4, <1>5

\* A request that ends without a write.
LEMMA EndAtomic ==
    ASSUME TypeOK, TypeOK', Atomic, NEW q \in Request, Finish(q), fresh' = fresh \ {q},
           UNCHANGED <<row, codes, locks, passed>>
    PROVE  Atomic' /\ AtomicStep
<1>1. /\ locks \in Nat /\ passed \in Nat /\ locks <= locks /\ passed <= passed /\ 0 <= locks
      /\ NoRow.lock = 0
  BY AccountConstants DEF AccountConstants, TypeOK, DatabaseOK, NoRow
<1>2. /\ pc'[q] = "idle" /\ seen'[q] = NoRow
      /\ \A o \in Request \ {q} : UNCHANGED <<pc[o], seen[o], code[o]>>
  BY DEF Finish, TypeOK, RequestsOK
<1>3. ASSUME NEW o \in Request PROVE seen'[o].lock <= locks' /\ CodeKept(o)'
  BY <1>1, <1>2, <1>3 DEF Atomic, CodeKept
<1>4. ASSUME NEW o \in fresh' PROVE o \in fresh /\ UNCHANGED <<pc[o], seen[o]>>
  BY <1>2, <1>4 DEF TypeOK, RequestsOK
<1>5. Atomic'
  BY <1>1, <1>3, <1>4, SameAtomic
<1> QED BY <1>5 DEF AtomicStep, Owner!vars

\* An attempt to log in, up to the write.
LEMMA AttemptAtomic ==
    ASSUME TypeOK, TypeOK', Atomic, NEW q \in Request, NEW g \in 0..MaxHash,
           LoginRight(q, g) \/ LoginWrong(q, g) \/ LoginLock(q, g)
    PROVE  Atomic' /\ AtomicStep
<1>1. /\ row \in Row /\ row.lock \in Nat /\ row.attempts \in Nat /\ locks \in 0..MaxLock
      /\ locks \in Nat /\ passed \in Nat /\ row.lock <= locks
  BY AccountConstants DEF AccountConstants, TypeOK, DatabaseOK, Row, Atomic
<1>2. ASSUME NEW l \in Steps, NEW r, Read(q, l, r, NoCode)
      PROVE  /\ pc'[q] = l /\ seen'[q] = r /\ UNCHANGED <<row, passed>>
             /\ MayTry(row) => MayTry(row)'
  BY <1>2 DEF Read, MayTry, IsLocked, TypeOK, RequestsOK
<1>3. CASE LoginRight(q, g)
  <2>1. Read(q, "login_right", Unlock(row), NoCode) /\ MayTry(row) /\ UNCHANGED locks
    BY <1>3 DEF LoginRight
  <2>2. Unlock(row).lock <= locks'
    BY <1>1, <2>1 DEF Unlock, Row
  <2>3. pc'[q] = "login_right" /\ seen'[q] = Unlock(row) /\ row' = row /\ MayTry(row)'
    BY <1>2, <2>1 DEF Steps
  <2>4. Meant(q)'
    BY <2>3 DEF Meant, MeansLogin
  <2> QED BY <1>1, <2>1, <2>2, <2>4, ReadAtomic
<1>4. CASE LoginWrong(q, g)
  <2>1. /\ Read(q, "login_wrong", CountFailure(row), NoCode) /\ MayTry(row)
        /\ UNCHANGED locks /\ row.attempts + 1 < MaxLoginAttempts
    BY <1>4 DEF LoginWrong
  <2>2. CountFailure(row).lock <= locks'
    BY <1>1, <2>1 DEF CountFailure, Row
  <2>3. pc'[q] = "login_wrong" /\ seen'[q] = CountFailure(row) /\ row' = row /\ MayTry(row)'
    BY <1>2, <2>1 DEF Steps
  <2>4. Meant(q)'
    BY <2>1, <2>3 DEF Meant, MeansMistake
  <2> QED BY <1>1, <2>1, <2>2, <2>4, ReadAtomic
<1>5. CASE LoginLock(q, g)
  <2> DEFINE n == locks + 1
  <2>1. /\ Read(q, "login_lock", Lock(CountFailure(row)), NoCode) /\ MayTry(row)
        /\ locks' = n /\ row.attempts + 1 >= MaxLoginAttempts /\ locks < MaxLock
    BY <1>5 DEF LoginLock
  <2>2. Lock(CountFailure(row)) = LockedOut(row, n) /\ Lock(CountFailure(row)).lock = n
    BY <1>1, <2>1, LoginEntities
  <2>3. n \in 1..MaxLock /\ n > row.lock /\ locks <= locks' /\ n <= locks'
    BY <1>1, <2>1, AccountConstants DEF AccountConstants
  <2>4. pc'[q] = "login_lock" /\ seen'[q] = LockedOut(row, n) /\ row' = row /\ MayTry(row)'
    BY <1>2, <2>1, <2>2 DEF Steps
  <2>5. Meant(q)'
    BY <2>1, <2>3, <2>4 DEF Meant, MeansLock
  <2> QED BY <2>1, <2>2, <2>3, <2>5, ReadAtomic
<1> QED BY <1>3, <1>4, <1>5

LEMMA LoginWriteAtomic ==
    ASSUME TypeOK, TypeOK', Atomic, NEW q \in Request, LoginWrite(q)
    PROVE  Atomic' /\ AtomicStep
<1> DEFINE k == IF pc[q] = "login_wrong"
                THEN SmallerOf(fails + 1, MaxLoginAttempts) ELSE 0
<1>1. /\ pc[q] \in {"login_right", "login_wrong", "login_lock"}
      /\ UNCHANGED <<codes, locks, passed>>
  BY DEF LoginWrite, LoginSteps
<1>2. CASE Update(q, promised, k)
  <2>1. CodesStay
    BY <1>1 DEF CodesStay, TypeOK, DatabaseOK
  <2>2. Atomic' /\ (OvertakenWrite \/ (Meant(q) /\ row' = seen[q]))
    BY <1>1, <1>2, <2>1, UpdateAtomic
  <2>3. CASE Meant(q) /\ row' = seen[q]
    <3>1. row.exists
      BY <1>1 DEF TypeOK, RequestsOK
    <3>2. MayTry(row) => Owner!MayTry
      BY <3>1, AccountConstants
         DEF AccountConstants, MayTry, IsLocked, Owner!MayTry, TypeOK, DatabaseOK, Row
    <3>3. CASE pc[q] = "login_right"
      <4>1. Owner!LogIn
        BY <1>1, <2>3, <3>2, <3>3, MeantStep DEF MeansLogin, Unlock, Owner!LogIn, Owner!Change
      <4> QED BY <2>2, <4>1 DEF AtomicStep, Owner!Next
    <3>4. CASE pc[q] = "login_wrong"
      <4>1. Owner!Mistake
        BY <1>1, <2>3, <3>2, <3>4, MeantStep DEF MeansMistake, CountFailure, Owner!Mistake, Owner!Change
      <4> QED BY <2>2, <4>1 DEF AtomicStep, Owner!Next
    <3>5. CASE pc[q] = "login_lock"
      <4>1. PICK n \in 1..MaxLock : n > row.lock /\ row' = LockedOut(row, n)
        BY <2>3, <3>5, MeantStep DEF MeansLock
      <4>2. MayTry(row) /\ row.attempts + 1 >= MaxLoginAttempts
        BY <2>3, <3>5, MeantStep DEF MeansLock
      <4>3. Owner!Change([row EXCEPT !.attempts = @ + 2, !.lock = n])
        BY <1>1, <4>1 DEF LockedOut, Owner!Change
      <4>4. Owner!LockOut
        BY <3>2, <4>1, <4>2, <4>3, Zenon DEF Owner!LockOut
      <4> QED BY <2>2, <4>4 DEF AtomicStep, Owner!Next
    <3> QED BY <1>1, <2>2, <3>3, <3>4, <3>5
  <2> QED BY <2>2, <2>3 DEF AtomicStep
<1>3. CASE ~Update(q, promised, k)
  <2>1. Finish(q) /\ fresh' = fresh \ {q} /\ UNCHANGED row
    BY <1>3 DEF LoginWrite
  <2> QED BY <1>1, <2>1, EndAtomic
<1> QED BY <1>2, <1>3

LEMMA MailAtomic ==
    ASSUME TypeOK, TypeOK', Atomic, NEW q \in Request,
           \/ ForgotRead(q) \/ ForgotWrite(q) \/ ResendRead(q) \/ ResendWrite(q)
           \/ VerifyWrite(q) \/ ResetWrite(q)
           \/ \E c \in Code : VerifyRead(q, c) \/ ResetRead(q, c)
    PROVE  Atomic' /\ AtomicStep
<1>1. /\ row \in Row /\ locks \in Nat /\ locks <= locks /\ row.lock <= locks
  BY AccountConstants DEF AccountConstants, TypeOK, DatabaseOK, Atomic
<1>2. ASSUME NEW l \in Steps, NEW r, NEW c, Read(q, l, r, c)
      PROVE  pc'[q] = l /\ seen'[q] = r /\ row' = row
  BY <1>2 DEF Read, TypeOK, RequestsOK
<1>3. CASE ForgotRead(q)
  <2>1. Read(q, "forgot_write", row, NoCode) /\ UNCHANGED locks
    BY <1>3 DEF ForgotRead
  <2>2. Meant(q)'
    BY <1>2, <2>1 DEF Meant, MeansMail, Steps
  <2> QED BY <1>1, <2>1, <2>2, ReadAtomic
<1>4. CASE ResendRead(q)
  <2>1. Read(q, "resend_write", row, NoCode) /\ UNCHANGED locks /\ ~row.verified
    BY <1>4 DEF ResendRead
  <2>2. Meant(q)'
    BY <1>2, <2>1 DEF Meant, MeansMail, Steps
  <2> QED BY <1>1, <2>1, <2>2, ReadAtomic
<1>5. ASSUME NEW c \in Code, VerifyRead(q, c) PROVE Atomic' /\ AtomicStep
  <2> DEFINE r == [row EXCEPT !.verified = TRUE]
  <2>1. r.lock = row.lock
    BY <1>1 DEF Row
  <2>2. Read(q, "verify_write", r, c) /\ UNCHANGED locks /\ codes[c] = "verify"
    BY <1>5 DEF VerifyRead
  <2>3. Meant(q)'
    BY <1>2, <2>2 DEF Meant, MeansVerify, Steps
  <2> QED BY <1>1, <2>1, <2>2, <2>3, ReadAtomic
<1>6. ASSUME NEW c \in Code, ResetRead(q, c) PROVE Atomic' /\ AtomicStep
  <2>1. PICK h \in 1..MaxHash :
            row.hash < h /\ Read(q, "reset_write", [row EXCEPT !.hash = h], c)
    BY <1>6 DEF ResetRead
  <2> DEFINE r == [row EXCEPT !.hash = h]
  <2>2. r.lock = row.lock
    BY <1>1 DEF Row
  <2>3. UNCHANGED locks /\ codes[c] = "reset"
    BY <1>6 DEF ResetRead
  <2>4. pc'[q] = "reset_write" /\ seen'[q] = r /\ row' = row
    BY <1>2, <2>1 DEF Steps
  <2>5. h > row.hash
    BY <1>1, <2>1 DEF Row
  <2>6. Meant(q)'
    BY <2>4, <2>5 DEF Meant, MeansReset
  <2> QED BY <1>1, <2>1, <2>2, <2>3, <2>6, ReadAtomic
<1>7. CASE ForgotWrite(q) \/ ResendWrite(q)
  BY <1>7, UpdateWithCodeAtomic DEF ForgotWrite, ResendWrite
<1>8. CASE VerifyWrite(q) \/ ResetWrite(q)
  <2>1. PICK t : Update(q, t, fails)
    BY <1>8 DEF VerifyWrite, ResetWrite
  <2>2. /\ pc[q] \in {"verify_write", "reset_write"} /\ CodesStay
        /\ UNCHANGED <<codes, locks, passed>>
    BY <1>8 DEF VerifyWrite, ResetWrite, CodesStay, TypeOK, DatabaseOK
  <2>3. Atomic' /\ (OvertakenWrite \/ (Meant(q) /\ row' = seen[q]))
    BY <2>1, <2>2, UpdateAtomic
  <2>4. CASE Meant(q) /\ row' = seen[q]
    <3>1. row.exists /\ CodeKept(q)
      BY <2>2 DEF TypeOK, RequestsOK, Atomic
    <3>2. CASE pc[q] = "verify_write"
      <4>1. Owner!Verify(code[q]) /\ code[q] \in Code
        BY <2>2, <2>4, <3>1, <3>2, MeantStep DEF MeansVerify, CodeKept, Owner!Verify, Owner!Change
      <4> QED BY <2>3, <4>1 DEF AtomicStep, Owner!Next
    <3>3. CASE pc[q] = "reset_write"
      <4>1. Owner!Reset(code[q]) /\ code[q] \in Code
        BY <2>2, <2>4, <3>1, <3>3, MeantStep DEF MeansReset, CodeKept, Owner!Reset, Owner!Change
      <4> QED BY <2>3, <4>1 DEF AtomicStep, Owner!Next
    <3> QED BY <2>2, <3>2, <3>3
  <2> QED BY <2>3, <2>4 DEF AtomicStep
<1> QED BY <1>3, <1>4, <1>5, <1>6, <1>7, <1>8

LEMMA AdminAtomic ==
    ASSUME TypeOK, TypeOK', Atomic, NEW q \in Request,
           \/ \E b \in BOOLEAN : CreateUser(q, b) \/ (\E e \in Email : UpdateUser(q, b, e))
           \/ DeleteUser(q)
           \/ WriteUser(q)
    PROVE  Atomic' /\ AtomicStep
<1>1. /\ row \in Row /\ locks \in Nat /\ locks <= locks /\ row.lock <= locks /\ 0 <= locks
      /\ NoRow.lock = 0
  BY AccountConstants DEF AccountConstants, TypeOK, DatabaseOK, Atomic, NoRow
<1>2. ASSUME NEW l \in Steps, NEW r, NEW c, Read(q, l, r, c)
      PROVE  pc'[q] = l
  BY <1>2 DEF Read, TypeOK, RequestsOK
<1>3. ASSUME NEW b \in BOOLEAN, CreateUser(q, b) PROVE Atomic' /\ AtomicStep
  <2>1. /\ row' = AddedUser(b) /\ ~row.exists
        /\ UNCHANGED <<codes, passed, locks, pc, seen, code, fresh>>
    BY <1>3 DEF CreateUser, requestVars
  <2>2. fresh = {}
    BY <2>1, MeantStep DEF Atomic, TypeOK, RequestsOK
  <2>3. row'.lock = 0
    BY <2>1 DEF AddedUser, NoRow
  <2>4. ASSUME NEW o \in Request PROVE seen'[o].lock <= locks' /\ CodeKept(o)'
    BY <2>1 DEF Atomic, CodeKept
  <2>5. Atomic'
    BY <1>1, <2>1, <2>2, <2>3, <2>4 DEF Atomic
  <2>6. Owner!Add(b)
    <3>1. NoRow = Owner!Absent
      BY DEF NoRow, Owner!Absent
    <3> QED BY <2>1, <3>1 DEF Owner!Add, Owner!Change, AddedUser
  <2> QED BY <2>5, <2>6 DEF AtomicStep, Owner!Next
<1>4. ASSUME NEW b \in BOOLEAN, NEW e \in Email, UpdateUser(q, b, e)
      PROVE  Atomic' /\ AtomicStep
  <2> DEFINE r == [row EXCEPT !.active = b, !.email = e]
  <2>1. r.lock = row.lock
    BY <1>1 DEF Row
  <2>2. Read(q, "update_user", r, NoCode) /\ UNCHANGED locks
    BY <1>4 DEF UpdateUser
  <2>3. Meant(q)'
    BY <1>2, <2>2 DEF Meant, MeansAdmin, Steps
  <2> QED BY <1>1, <2>1, <2>2, <2>3, ReadAtomic
<1>5. CASE DeleteUser(q)
  <2>1. Read(q, "delete_user", row, NoCode) /\ UNCHANGED locks
    BY <1>5 DEF DeleteUser
  <2>2. Meant(q)'
    BY <1>2, <2>1 DEF Meant, MeansAdmin, Steps
  <2> QED BY <1>1, <2>1, <2>2, ReadAtomic
<1>6. CASE WriteUser(q)
  <2>1. /\ row' = [row EXCEPT !.email = seen[q].email, !.active = seen[q].active]
        /\ Finish(q) /\ fresh' = {} /\ UNCHANGED <<codes, passed, locks>>
        /\ pc[q] \in {"update_user", "delete_user"}
    BY <1>6 DEF WriteUser
  <2>2. /\ pc'[q] = "idle" /\ seen'[q] = NoRow
        /\ \A o \in Request \ {q} : UNCHANGED <<pc[o], seen[o], code[o]>>
    BY <2>1 DEF Finish, TypeOK, RequestsOK
  <2>3. row'.lock = row.lock
    BY <1>1, <2>1 DEF Row
  <2>4. ASSUME NEW o \in Request PROVE seen'[o].lock <= locks' /\ CodeKept(o)'
    BY <1>1, <2>1, <2>2, <2>4 DEF Atomic, CodeKept
  <2>5. Atomic'
    BY <2>1, <2>3, <2>4 DEF Atomic
  <2>6. /\ row.exists /\ seen[q].active \in BOOLEAN /\ seen[q].email \in {"first", "second"}
    BY <2>1 DEF TypeOK, RequestsOK, Row, Email
  <2>7. [row EXCEPT !.active = seen[q].active, !.email = seen[q].email] = row'
    BY <1>1, <2>1, <2>6 DEF Row
  <2>8. Owner!Administer(seen[q].active, seen[q].email)
    BY <2>1, <2>6, <2>7 DEF Owner!Administer, Owner!Change
  <2> QED BY <2>5, <2>6, <2>8 DEF AtomicStep, Owner!Next
<1> QED BY <1>3, <1>4, <1>5, <1>6

LEMMA OtherAtomic ==
    ASSUME TypeOK, TypeOK', Atomic,
           \/ \E q \in Request : Abort(q)
           \/ OthersMove
           \/ LockRunsOut
           \/ \E c \in Code : CodeLapses(c)
           \/ UNCHANGED vars
    PROVE  Atomic' /\ AtomicStep
<1>1. locks \in Nat /\ passed \in Nat /\ locks <= locks /\ passed <= passed /\ row \in Row
  BY AccountConstants DEF AccountConstants, TypeOK, DatabaseOK
<1>3. ASSUME NEW q \in Request, Abort(q) PROVE Atomic' /\ AtomicStep
  BY <1>3, EndAtomic DEF Abort
<1>4. CASE LockRunsOut
  <2>1. UNCHANGED <<row, codes, locks, pc, seen, code, fresh>> /\ passed' = passed + 1
    BY <1>4 DEF LockRunsOut, requestVars, historyVars
  <2>2. passed <= passed'
    BY <1>1, <2>1
  <2>3. Atomic'
    BY <1>1, <2>1, <2>2, SameAtomic
  <2>4. Owner!LockRunsOut
    BY <2>1 DEF Owner!LockRunsOut
  <2> QED BY <2>3, <2>4 DEF AtomicStep, Owner!Next
<1>5. CASE OthersMove \/ UNCHANGED vars \/ \E c \in Code : CodeLapses(c)
  <2>1. UNCHANGED <<row, codes, locks, passed, pc, seen, code, fresh>>
    BY <1>5 DEF vars, OthersMove, CodeLapses, requestVars, historyVars
  <2>2. Atomic'
    BY <1>1, <2>1, SameAtomic
  <2> QED BY <2>1, <2>2 DEF AtomicStep, Owner!vars
<1> QED BY <1>3, <1>4, <1>5

LEMMA NextAtomic == TypeOK /\ TypeOK' /\ Atomic /\ [Next]_vars => Atomic' /\ AtomicStep
<1> SUFFICES ASSUME TypeOK, TypeOK', Atomic, [Next]_vars PROVE Atomic' /\ AtomicStep
  OBVIOUS
<1>1. ASSUME NEW q \in Request, Step(q) PROVE Atomic' /\ AtomicStep
  BY <1>1, RegisterAtomic, AttemptAtomic, LoginWriteAtomic, MailAtomic, AdminAtomic,
         OtherAtomic DEF Step
<1> QED BY <1>1, OtherAtomic DEF Next

\* Every step is one whole request on the account as it is, or the write of a
\* request that another has overtaken (AtomicUnlessOvertaken): reading first and
\* writing later loses nothing else, for any number of requests, with failing
\* calls and after any number of overtaken writes.
THEOREM AtomicTheorem == Spec => AtomicUnlessOvertaken
<1>1. AtomicStep <=> [Owner!Next \/ OvertakenWrite]_(Owner!vars)
  BY DEF AtomicStep
<1> QED BY InitAtomic, NextAtomic, <1>1, TypeCorrect, PTL DEF Spec, AtomicUnlessOvertaken

\* Served one at a time, requests are atomic: with failing calls and crashes too,
\* Account implements AtomicAccount.
THEOREM LoneRequestsAreAtomic ==
    ASSUME NEW q \in Request, Request = {q}
    PROVE  Spec => Owner!Spec
<1>1. Spec => []Lone
  BY LoneRequests
<1>2. Lone => ~OvertakenWrite
  BY DEF Lone, OvertakenWrite
<1>3. Lone /\ AtomicStep => [Owner!Next]_(Owner!vars)
  BY <1>2 DEF AtomicStep
<1> QED BY InitAtomic, NextAtomic, <1>1, <1>3, TypeCorrect, PTL DEF Spec, Owner!Spec
=============================================================================
