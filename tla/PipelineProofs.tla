--------------------------- MODULE PipelineProofs ---------------------------
(***************************************************************************)
(* Theorems about Pipeline, for any requests, users, tokens and tenants.   *)
(* Every request keeps to a course of its own (Fine), which relates what   *)
(* the layers behind it have written to the layer it is at; what others do *)
(* reaches it only through tokens and rights, which Fine compares with     *)
(* what they were when the request came.                                   *)
(***************************************************************************)
EXTENDS Pipeline, TLAPS

Above == {"limit", "active"}
Inside == {"route", "auth", "tenant", "auth_again", "authorize", "handle", "format"}
InFlight == Layer \ {"idle", "done"}

\* The increments of the counters.
CountFine(r) ==
    /\ r.missing => r.at \in Metric
    /\ r.at \in InFlight => r.route # "preflight"
    /\ ~Utf8(r) => r.at \in Above \cup {"idle", "recover", "audit", "record", "done"}
    /\ r.at \in Above => r.entered = 0 /\ r.left = 0 /\ r.total = 0
    /\ r.at \in Inside \cup {"total", "unwind"} => r.entered = 1 /\ r.left = 0 /\ r.total = 0
    /\ r.at \in {"duration", "leave"} => r.entered = 1 /\ r.left = 0 /\ r.total = 1
    /\ r.at = "recover" =>
        /\ r.entered = IF Utf8(r) THEN 1 ELSE 0
        /\ r.left = r.entered /\ r.total = 0
    /\ r.at \in {"audit", "record"} =>
        /\ ~Utf8(r) => r.sent = 429
        /\ r.entered = IF r.sent = 429 THEN 0 ELSE 1
        /\ r.left = r.entered /\ r.total = r.entered
    /\ r.at = "done" =>
        /\ r.entered = IF Measured(r) THEN 1 ELSE 0
        /\ r.left = r.entered
        /\ r.total = IF Measured(r) /\ ~r.panicked THEN 1 ELSE 0

\* The answer and the rows of the two logs.
AnswerFine(r) ==
    /\ r.at \in Above \cup Inside \cup {"unwind", "recover"} => r.sent = Unset
    /\ r.at \notin {"record", "done"} => r.audit = Unset
    /\ r.at = "format" => r.body \in Status \ {429}
    /\ r.at \in {"total", "duration", "leave"} => r.sent \in Status \ {429}
    /\ r.at \in {"audit", "record"} => r.sent \in Status
    /\ r.at = "record" => r.audit = r.sent \/ (r.audit = Unset /\ "audit" \in r.lost)
    /\ r.at # "done" => r.errors = 0 /\ "error" \notin r.lost
    /\ r.at \in {"unwind", "recover"} => r.panicked
    /\ r.at \notin {"unwind", "recover", "done"} => ~r.panicked
    /\ r.panicked => r.ran \/ ~Utf8(r)
    /\ r.at = "done" =>
        /\ r.errors = IF r.sent >= 500 /\ "error" \notin r.lost THEN 1 ELSE 0
        /\ \/ r.audit = r.sent
           \/ r.audit = Unset /\ (r.panicked \/ "audit" \in r.lost \/ r.route = "preflight")

\* A token is never better later than it was when the request came.
TokenFine(r) ==
    r.at \in InFlight /\ r.bearer \in Token =>
        /\ holder[r.bearer] # NoUser
        /\ r.bearer \notin expired => r.welcome
        /\ r.revoked => r.bearer \in listed
        /\ holder[r.bearer] \in allowed => r.entitled

\* What has been checked so far on the way to a module's handler.
RightFine(r) ==
    /\ r.at \in {"limit", "active", "route", "auth"} => r.blind = 0
    /\ r.at \in {"auth", "tenant", "authorize"} => r.route = "module"
    /\ r.at = "auth_again" => r.route \in {"module", "session"}
    /\ r.at = "auth_again" /\ r.route = "session" => r.blind = 0
    /\ r.at \in {"limit", "active", "route", "auth", "tenant", "auth_again", "authorize"} => ~r.ran
    /\ r.at \in {"tenant", "auth_again"} /\ r.route = "module" =>
        /\ r.bearer \in Token /\ r.welcome /\ r.blind \in 0..1
        /\ r.revoked => r.blind = 1
    /\ r.at = "authorize" =>
        /\ r.bearer \in Token /\ r.welcome /\ r.caller = holder[r.bearer]
        /\ r.revoked => r.blind = 2
    /\ r.route = "module" /\ (r.at = "handle" \/ r.ran) =>
        /\ r.welcome /\ r.entitled
        /\ r.revoked => r.blind = 2

Fine(r) == CountFine(r) /\ AnswerFine(r) /\ TokenFine(r) /\ RightFine(r)

Inv ==
    /\ TypeOK
    /\ ~TokenDenylist => listed = {}
    /\ \A q \in Request : Fine(req[q])

LEMMA NoRequestFine == NoRequest \in Record /\ (NoRequest.at = "idle" => Fine(NoRequest))
<1>1. NoRequest \in Record
  BY DEF NoRequest, Record, Layer, Metric, Route, Bearer, Caller, Scope, Outcome, Status, Unset
<1>2. CountFine(NoRequest) /\ AnswerFine(NoRequest)
  BY DEF CountFine, AnswerFine, NoRequest, Layer, Metric, Above, Inside, InFlight, Unset, Utf8
<1>3. TokenFine(NoRequest) /\ RightFine(NoRequest)
  BY DEF TokenFine, RightFine, NoRequest, InFlight
<1> QED BY <1>1, <1>2, <1>3 DEF Fine

LEMMA InitInv == Init => Inv
<1> SUFFICES ASSUME Init PROVE Inv
  OBVIOUS
<1>1. TypeOK
  BY NoRequestFine DEF Init, TypeOK, Caller, Scope
<1>2. \A q \in Request : Fine(req[q])
  BY NoRequestFine DEF Init, NoRequest
<1> QED BY <1>1, <1>2 DEF Init, Inv

\* A layer that leaves the shared tables alone owes a good record.
LEMMA BecomeFine ==
    ASSUME Inv, NEW q \in Request, NEW r \in Record, Become(q, r), UNCHANGED sharedVars,
           Fine(r)
    PROVE  Inv'
<1>1. TypeOK' /\ (~TokenDenylist => listed' = {})
  BY DEF Inv, TypeOK, Become, sharedVars, tokenVars
<1>2. ASSUME NEW o \in Request PROVE Fine(req[o])'
  <2>1. req'[o] = IF o = q THEN r ELSE req[o]
    BY DEF Become, Inv, TypeOK
  <2>2. Fine(req[o])
    BY DEF Inv
  <2>3. CASE o = q
    BY <2>1, <2>3 DEF Fine, CountFine, AnswerFine, TokenFine, RightFine, sharedVars, tokenVars
  <2>4. CASE o # q
    BY <2>1, <2>2, <2>4 DEF Fine, CountFine, AnswerFine, TokenFine, RightFine, sharedVars, tokenVars
  <2> QED BY <2>3, <2>4
<1> QED BY <1>1, <1>2 DEF Inv

-----------------------------------------------------------------------------
(* One layer after the other.                                              *)

LEMMA BeginInv ==
    ASSUME Inv, NEW q \in Request, Begin(q)
    PROVE  Inv'
<1> USE DEF Layer, Metric, Above, Inside, InFlight, Unset, Utf8
<1>1. ASSUME NEW k \in Route \ {"preflight"}, NEW b \in Bearer, Arrive(q, k, b) PROVE Inv'
  <2> DEFINE r == [NoRequest EXCEPT
          !.at = "limit", !.route = k, !.bearer = b,
          !.welcome = Validates(b), !.revoked = b \in listed, !.entitled = Entitles(b)]
  <2>1. Validates(b) \in BOOLEAN /\ Entitles(b) \in BOOLEAN /\ (b \in listed) \in BOOLEAN
    BY DEF Validates, Entitles
  <2>2. r \in Record
    <3>1. ASSUME NEW w \in BOOLEAN, NEW l \in BOOLEAN, NEW e \in BOOLEAN
          PROVE  [NoRequest EXCEPT !.at = "limit", !.route = k, !.bearer = b,
                     !.welcome = w, !.revoked = l, !.entitled = e] \in Record
      BY NoRequestFine DEF Record
    <3> QED BY <2>1, <3>1
  <2>3. CountFine(r) /\ AnswerFine(r)
    BY DEF CountFine, AnswerFine, NoRequest
  <2>4. TokenFine(r)
    BY <1>1 DEF Arrive, TokenFine, Validates, Entitles, NoRequest
  <2>5. RightFine(r)
    BY DEF RightFine, NoRequest
  <2> QED BY <1>1, <2>2, <2>3, <2>4, <2>5, BecomeFine DEF Arrive, Fine
<1>2. CASE Preflight(q)
  <2> DEFINE r == [NoRequest EXCEPT !.at = "done", !.route = "preflight", !.sent = 204]
  <2>1. r \in Record
    <3>1. 204 \in Outcome /\ "preflight" \in Route /\ "done" \in Layer
      BY DEF Outcome, Status, Route
    <3> QED BY <3>1, NoRequestFine DEF Record
  <2>2. CountFine(r) /\ AnswerFine(r)
    BY DEF CountFine, AnswerFine, NoRequest, Measured
  <2>3. TokenFine(r) /\ RightFine(r)
    BY DEF TokenFine, RightFine, NoRequest
  <2> QED BY <1>2, <2>1, <2>2, <2>3, BecomeFine DEF Preflight, Fine
<1> QED BY <1>1, <1>2 DEF Begin

\* What the metrics layers make of a record.
LEMMA CountedFine ==
    ASSUME Inv, NEW q \in Request, req[q].at \in Metric
    PROVE  LET r == Counted(req[q])
           IN  r \in Record /\ Fine(r) /\ ~r.missing
<1> DEFINE r == req[q]
<1> USE DEF Layer, Metric, Above, Inside, InFlight, Unset, Utf8
<1>1. r \in Record /\ Fine(r)
  BY DEF Inv, TypeOK
<1>a. CASE ~Utf8(r)
  <2> DEFINE n == [r EXCEPT !.at = "recover", !.missing = FALSE, !.panicked = TRUE]
  <2>1. Counted(r) = n /\ r.at = "active"
    BY <1>1, <1>a DEF Counted, Thrown, Fine, CountFine
  <2>2. n \in Record
    BY <1>1 DEF Record
  <2>3. CountFine(n) /\ AnswerFine(n)
    BY <1>1, <1>a, <2>1 DEF Record, Fine, CountFine, AnswerFine
  <2>4. TokenFine(n) /\ RightFine(n)
    BY <1>1, <1>a, <2>1 DEF Record, Fine, TokenFine, RightFine
  <2> QED BY <2>1, <2>2, <2>3, <2>4 DEF Fine, Record
<1>2. CASE Utf8(r) /\ r.at = "active"
  <2> DEFINE n == [r EXCEPT !.at = "route", !.missing = FALSE, !.entered = @ + 1]
  <2>1. Counted(r) = n
    BY <1>2 DEF Counted
  <2>2. n \in Record
    <3>1. r.entered + 1 \in 0..2 /\ r.total + 1 \in 0..2
      BY <1>1, <1>2 DEF Record, Fine, CountFine
    <3> QED BY <1>1, <3>1 DEF Record
  <2>3. CountFine(n) /\ AnswerFine(n)
    BY <1>1, <1>2 DEF Record, Fine, CountFine, AnswerFine
  <2>4. TokenFine(n) /\ RightFine(n)
    BY <1>1, <1>2 DEF Record, Fine, TokenFine, RightFine
  <2> QED BY <2>1, <2>2, <2>3, <2>4 DEF Fine, Record
<1>3. CASE Utf8(r) /\ r.at = "total"
  <2> DEFINE n == [r EXCEPT !.at = "duration", !.missing = FALSE, !.total = @ + 1]
  <2>1. Counted(r) = n
    BY <1>3 DEF Counted
  <2>2. n \in Record
    <3>1. r.entered + 1 \in 0..2 /\ r.total + 1 \in 0..2
      BY <1>1, <1>3 DEF Record, Fine, CountFine
    <3> QED BY <1>1, <3>1 DEF Record
  <2>3. CountFine(n) /\ AnswerFine(n)
    BY <1>1, <1>3 DEF Record, Fine, CountFine, AnswerFine
  <2>4. TokenFine(n) /\ RightFine(n)
    BY <1>1, <1>3 DEF Record, Fine, TokenFine, RightFine
  <2> QED BY <2>1, <2>2, <2>3, <2>4 DEF Fine, Record
<1>4. CASE Utf8(r) /\ r.at = "duration"
  <2> DEFINE n == [r EXCEPT !.at = "leave", !.missing = FALSE]
  <2>1. Counted(r) = n
    BY <1>4 DEF Counted
  <2>2. n \in Record
    BY <1>1, <1>4 DEF Record
  <2>3. CountFine(n) /\ AnswerFine(n)
    BY <1>1, <1>4 DEF Record, Fine, CountFine, AnswerFine
  <2>4. TokenFine(n) /\ RightFine(n)
    BY <1>1, <1>4 DEF Record, Fine, TokenFine, RightFine
  <2> QED BY <2>1, <2>2, <2>3, <2>4 DEF Fine, Record
<1> QED BY <1>a, <1>2, <1>3, <1>4

LEMMA MetricsInv ==
    ASSUME Inv, NEW q \in Request, Find(q) \/ Create(q)
    PROVE  Inv'
<1> DEFINE r == req[q]
<1> USE DEF Layer, Metric, Above, Inside, InFlight, Unset, Utf8
<1>1. r \in Record /\ Fine(r) /\ r.at \in Metric
  BY DEF Inv, TypeOK, Find, Create, Fine, CountFine
<1>2. CASE Find(q)
  <2> DEFINE n == [r EXCEPT !.missing = TRUE]
  <2>1. n \in Record
    BY <1>1 DEF Record
  <2>2. CountFine(n) /\ AnswerFine(n)
    BY <1>1 DEF Record, Fine, CountFine, AnswerFine
  <2>3. TokenFine(n) /\ RightFine(n)
    BY <1>1 DEF Record, Fine, TokenFine, RightFine
  <2> QED BY <1>1, <1>2, <2>1, <2>2, <2>3, CountedFine, BecomeFine DEF Find, Fine
<1>3. CASE Create(q)
  <2>1. Counted(r) \in Record /\ Fine(Counted(r))
    BY <1>1, CountedFine
  <2>2. TypeOK' /\ (~TokenDenylist => listed' = {})
    BY <1>1, <1>3, <2>1 DEF Create, Inv, TypeOK, Become, tokenVars
  <2>3. ASSUME NEW o \in Request PROVE Fine(req[o])'
    <3>1. req'[o] = IF o = q THEN Counted(r) ELSE req[o]
      BY <1>3 DEF Create, Become, Inv, TypeOK
    <3>2. Fine(req'[o])
      BY <2>1, <3>1 DEF Inv
    <3> QED BY <1>3, <3>2 DEF Create, tokenVars, Fine, CountFine, AnswerFine, TokenFine, RightFine
  <2> QED BY <2>2, <2>3 DEF Inv
<1> QED BY <1>2, <1>3

\* A layer that writes the status to the client keeps the record well formed.
LEMMA AnsweredRecord ==
    ASSUME NEW r \in Record, NEW l \in Layer, NEW s \in Outcome
    PROVE  [r EXCEPT !.at = l, !.sent = s] \in Record
BY DEF Record

LEMMA SentRecord ==
    ASSUME NEW r \in Record, NEW s \in Outcome
    PROVE  [r EXCEPT !.sent = s] \in Record
BY DEF Record

\* A layer that hands the formatter a status to hold back.
LEMMA HeldRecord ==
    ASSUME NEW r \in Record, NEW l \in Layer, NEW s \in Outcome
    PROVE  [r EXCEPT !.at = l, !.body = s] \in Record
BY DEF Record

\* A layer that only passes on or answers.
LEMMA PassInv ==
    ASSUME Inv, NEW q \in Request, Limit(q) \/ ServeWeb(q) \/ Enter(q) \/ Format(q) \/ Leave(q)
    PROVE  Inv'
<1> DEFINE r == req[q]
<1> USE DEF Layer, Metric, Above, Inside, InFlight, Unset, Utf8
<1>1. r \in Record /\ Fine(r)
  BY DEF Inv, TypeOK
<1>2. 200 \in Status \ {429} /\ 503 \in Status \ {429} /\ 429 \in Status
  BY DEF Status
<1>3. CASE Limit(q)
  <2> DEFINE n == [r EXCEPT !.at = "active"]
             m == [r EXCEPT !.at = "audit", !.sent = 429]
  <2>1. r.at = "limit"
    BY <1>3 DEF Limit
  <2>2. n \in Record /\ m \in Record
    <3>1. n \in Record
      BY <1>1 DEF Record
    <3>2. "audit" \in Layer
      OBVIOUS
    <3>3. 429 \in Outcome
      BY <1>2 DEF Outcome
    <3> HIDE DEF Layer, Unset
    <3>4. m \in Record
      BY <1>1, <3>2, <3>3, AnsweredRecord
    <3> QED BY <3>1, <3>4
  <2>3. CountFine(n) /\ AnswerFine(n)
    BY <1>1, <2>1 DEF Record, Fine, CountFine, AnswerFine
  <2>4. CountFine(m) /\ AnswerFine(m)
    BY <1>1, <1>2, <2>1 DEF Record, Fine, CountFine, AnswerFine
  <2>5. TokenFine(n) /\ RightFine(n) /\ TokenFine(m) /\ RightFine(m)
    BY <1>1, <2>1 DEF Record, Fine, TokenFine, RightFine
  <2> QED BY <1>3, <2>2, <2>3, <2>4, <2>5, BecomeFine DEF Limit, Fine
<1>4. CASE ServeWeb(q)
  <2>1. PICK s \in {200, 503} : Become(q, [r EXCEPT !.at = "total", !.sent = s])
    BY <1>4 DEF ServeWeb
  <2> DEFINE n == [r EXCEPT !.at = "total", !.sent = s]
  <2>2. r.at = "route" /\ r.route = "web" /\ s \in Status /\ s # 429
    BY <1>2, <1>4 DEF ServeWeb
  <2>3. n \in Record
    <3>1. "total" \in Layer
      OBVIOUS
    <3>2. s \in Outcome
      BY <2>2 DEF Outcome
    <3> HIDE DEF Layer, Metric, Above, Inside, InFlight, Unset, r
    <3> QED BY <1>1, <3>1, <3>2, AnsweredRecord
  <2>4. CountFine(n) /\ AnswerFine(n)
    BY <1>1, <2>2 DEF Record, Fine, CountFine, AnswerFine
  <2>5. TokenFine(n) /\ RightFine(n)
    BY <1>1, <2>2 DEF Record, Fine, TokenFine, RightFine
  <2> QED BY <1>4, <2>1, <2>3, <2>4, <2>5, BecomeFine DEF ServeWeb, Fine
<1>5. CASE Enter(q)
  <2>1. ASSUME NEW l \in {"handle", "auth_again", "auth"},
               l = "auth_again" => r.route = "session",
               l = "auth" => r.route = "module",
               l = "handle" => r.route = "public"
        PROVE  LET n == [r EXCEPT !.at = l] IN n \in Record /\ Fine(n)
    <3> DEFINE n == [r EXCEPT !.at = l]
    <3>1. r.at = "route"
      BY <1>5 DEF Enter
    <3>2. n \in Record
      BY <1>1 DEF Record
    <3>3. CountFine(n) /\ AnswerFine(n)
      BY <1>1, <3>1 DEF Record, Fine, CountFine, AnswerFine
    <3>4. TokenFine(n) /\ RightFine(n)
      BY <1>1, <2>1, <3>1 DEF Record, Fine, TokenFine, RightFine
    <3> QED BY <3>2, <3>3, <3>4 DEF Fine
  <2>2. r.route \in {"public", "session", "module"}
    BY <1>1, <1>5 DEF Enter, Record, Route, Fine, CountFine
  <2> QED BY <1>5, <2>1, <2>2, BecomeFine DEF Enter
<1>6. CASE Format(q)
  <2> DEFINE n == [r EXCEPT !.at = "total", !.sent = r.body]
  <2>1. r.at = "format"
    BY <1>6 DEF Format
  <2>2. n \in Record
    BY <1>1 DEF Record
  <2>3. CountFine(n) /\ AnswerFine(n)
    BY <1>1, <2>1 DEF Record, Fine, CountFine, AnswerFine
  <2>4. TokenFine(n) /\ RightFine(n)
    BY <1>1, <2>1 DEF Record, Fine, TokenFine, RightFine
  <2> QED BY <1>6, <2>2, <2>3, <2>4, BecomeFine DEF Format, Fine
<1>7. CASE Leave(q)
  <2> DEFINE n == [r EXCEPT !.at = "audit", !.left = @ + 1]
  <2>1. r.at = "leave" /\ r.left = 0
    BY <1>1, <1>7 DEF Leave, Fine, CountFine
  <2>2. n \in Record
    <3>1. r.left + 1 \in 0..2
      BY <2>1
    <3> QED BY <1>1, <3>1 DEF Record
  <2>3. CountFine(n) /\ AnswerFine(n)
    BY <1>1, <2>1 DEF Record, Fine, CountFine, AnswerFine
  <2>4. TokenFine(n) /\ RightFine(n)
    BY <1>1, <2>1 DEF Record, Fine, TokenFine, RightFine
  <2> QED BY <1>7, <2>2, <2>3, <2>4, BecomeFine DEF Leave, Fine
<1> QED BY <1>3, <1>4, <1>5, <1>6, <1>7

\* An answer below the formatter.
LEMMA RespondFine ==
    ASSUME NEW r \in Record, Fine(r), NEW s \in Status \ {429}, r.at \in Inside \ {"format"}
    PROVE  Respond(r, s) \in Record /\ Fine(Respond(r, s))
<1> DEFINE n == [r EXCEPT !.at = "format", !.body = s]
<1>1. n \in Record
  <2>1. "format" \in Layer /\ s \in Outcome
    BY DEF Layer, Above, Inside, Outcome
  <2> QED BY <2>1, HeldRecord
<1> USE DEF Layer, Metric, Above, Inside, InFlight, Unset, Utf8
<1>2. CountFine(n) /\ AnswerFine(n)
  BY DEF Record, Fine, CountFine, AnswerFine
<1>3. TokenFine(n) /\ RightFine(n)
  BY DEF Record, Fine, TokenFine, RightFine
<1> QED BY <1>1, <1>2, <1>3 DEF Respond, Fine

LEMMA AuthenticateInv ==
    ASSUME Inv, NEW q \in Request, Authenticate(q)
    PROVE  Inv'
<1> DEFINE r == req[q]
<1> USE DEF Layer, Metric, Above, Inside, InFlight, Unset, Utf8
<1>1. r \in Record /\ Fine(r) /\ r.at \in {"auth", "auth_again"}
  BY DEF Inv, TypeOK, Authenticate
<1>2. Respond(r, 401) \in Record /\ Fine(Respond(r, 401))
  <2>1. 401 \in Status \ {429}
    BY DEF Status
  <2> QED BY <1>1, <2>1, RespondFine
<1>3. ASSUME NEW b \in {r.blind, r.blind + 1}, Validates(r.bearer),
             b = r.blind => ~(TokenDenylist /\ r.bearer \in listed)
      PROVE  LET n == [Authenticated(r) EXCEPT !.blind = b] IN n \in Record /\ Fine(n)
  <2> DEFINE l == IF r.at = "auth" THEN "tenant"
                  ELSE IF r.route = "module" THEN "authorize" ELSE "handle"
             n == [r EXCEPT !.caller = holder[r.bearer], !.at = l, !.blind = b]
  <2>1. r.bearer \in Token /\ holder[r.bearer] \in User /\ r.welcome
    BY <1>1, <1>3 DEF Validates, Fine, TokenFine, Inv, TypeOK, Caller
  <2>2. r.revoked => b = r.blind + 1
    BY <1>1, <1>3, <2>1 DEF Fine, TokenFine, Inv
  <2>3. \/ r.at = "auth" /\ r.route = "module" /\ l = "tenant" /\ r.blind = 0
        \/ r.at = "auth_again" /\ r.route = "module" /\ l = "authorize" /\ r.blind \in 0..1
        \/ r.at = "auth_again" /\ r.route = "session" /\ l = "handle" /\ r.blind = 0
    <3>1. \/ r.at = "auth" /\ r.route = "module" /\ r.blind = 0
          \/ r.at = "auth_again" /\ r.route = "module" /\ r.blind \in 0..1
          \/ r.at = "auth_again" /\ r.route = "session" /\ r.blind = 0
      BY <1>1 DEF Fine, RightFine
    <3> QED BY <3>1
  <2> HIDE DEF l
  <2>4. l \in {"tenant", "authorize", "handle"} /\ b \in 0..2
    BY <2>3
  <2>5. n \in Record
    BY <1>1, <2>1, <2>4 DEF Record, Caller
  <2>6. CountFine(n) /\ AnswerFine(n)
    BY <1>1, <2>4 DEF Record, Fine, CountFine, AnswerFine
  <2>7. TokenFine(n)
    BY <1>1, <2>4 DEF Record, Fine, TokenFine
  <2>8. RightFine(n)
    <3>1. n.at = l /\ n.blind = b /\ n.route = r.route /\ n.bearer = r.bearer /\ n.ran = r.ran
          /\ n.caller = holder[r.bearer] /\ n.welcome = r.welcome /\ n.revoked = r.revoked
      BY <1>1 DEF Record
    <3>2. ~r.ran /\ (r.at = "auth_again" /\ r.route = "module" /\ r.revoked => r.blind = 1)
      BY <1>1 DEF Fine, RightFine
    <3> HIDE DEF n, l
    <3> QED BY <2>1, <2>2, <2>3, <3>1, <3>2 DEF RightFine
  <2>9. [Authenticated(r) EXCEPT !.blind = b] = n
    <3>1. Authenticated(r) = [r EXCEPT !.caller = holder[r.bearer], !.at = l]
      BY <1>1 DEF Authenticated, l
    <3> QED BY <1>1, <3>1 DEF Record
  <2> QED BY <2>5, <2>6, <2>7, <2>8, <2>9 DEF Fine
<1>4. [Authenticated(r) EXCEPT !.blind = r.blind] = Authenticated(r)
  BY <1>1 DEF Authenticated, Record
<1>5. [Authenticated(r) EXCEPT !.blind = @ + 1] = [Authenticated(r) EXCEPT !.blind = r.blind + 1]
  BY <1>1 DEF Authenticated, Record
<1>6. CASE ~Validates(r.bearer)
  BY <1>2, <1>6, BecomeFine DEF Authenticate
<1>7. CASE Validates(r.bearer)
  <2>1. \/ Become(q, Respond(r, 401))
        \/ ~(TokenDenylist /\ r.bearer \in listed) /\ Become(q, Authenticated(r))
        \/ Become(q, [Authenticated(r) EXCEPT !.blind = @ + 1])
    BY <1>7 DEF Authenticate
  <2>2. UNCHANGED sharedVars
    BY DEF Authenticate
  <2>3. r.blind # r.blind + 1
    BY <1>1 DEF Record
  <2>4. CASE ~(TokenDenylist /\ r.bearer \in listed) /\ Become(q, Authenticated(r))
    BY <1>3, <1>4, <1>7, <2>2, <2>4, BecomeFine
  <2>5. CASE Become(q, [Authenticated(r) EXCEPT !.blind = @ + 1])
    BY <1>3, <1>5, <1>7, <2>2, <2>3, <2>5, BecomeFine
  <2> QED BY <1>2, <2>1, <2>2, <2>4, <2>5, BecomeFine
<1> QED BY <1>6, <1>7

LEMMA ResolveInv ==
    ASSUME Inv, NEW q \in Request, Resolve(q)
    PROVE  Inv'
<1> DEFINE r == req[q]
<1> USE DEF Layer, Metric, Above, Inside, InFlight, Unset, Utf8
<1>1. r \in Record /\ Fine(r) /\ r.at = "tenant"
  BY DEF Inv, TypeOK, Resolve
<1>2. ASSUME NEW c \in Scope
      PROVE  LET n == [r EXCEPT !.at = "auth_again", !.tenant = c] IN n \in Record /\ Fine(n)
  <2> DEFINE n == [r EXCEPT !.at = "auth_again", !.tenant = c]
  <2>1. n \in Record
    BY <1>1 DEF Record
  <2>2. CountFine(n) /\ AnswerFine(n)
    BY <1>1 DEF Record, Fine, CountFine, AnswerFine
  <2>3. TokenFine(n) /\ RightFine(n)
    BY <1>1 DEF Record, Fine, TokenFine, RightFine
  <2> QED BY <2>1, <2>2, <2>3 DEF Fine
<1>3. r.bearer \in Token
  BY <1>1 DEF Fine, RightFine
<1>4. PICK h \in Scope :
        Become(q, [r EXCEPT !.at = "auth_again",
            !.tenant = IF TenantEnabled THEN ResolveTenant(r.bearer, h) ELSE NoTenant])
  BY DEF Resolve
<1>5. (IF TenantEnabled THEN ResolveTenant(r.bearer, h) ELSE NoTenant) \in Scope
  BY <1>3 DEF ResolveTenant, Scope, Inv, TypeOK
<1>6. UNCHANGED sharedVars
  BY DEF Resolve
<1> QED BY <1>2, <1>4, <1>5, <1>6, BecomeFine

LEMMA AuthorizeInv ==
    ASSUME Inv, NEW q \in Request, Authorize(q)
    PROVE  Inv'
<1> DEFINE r == req[q]
<1> USE DEF Layer, Metric, Above, Inside, InFlight, Unset, Utf8
<1>1. r \in Record /\ Fine(r) /\ r.at = "authorize"
  BY DEF Inv, TypeOK, Authorize
<1>2. ASSUME NEW s \in {403, 500} PROVE Respond(r, s) \in Record /\ Fine(Respond(r, s))
  <2>1. s \in Status \ {429}
    BY DEF Status
  <2> QED BY <1>1, <2>1, RespondFine
<1>3. ASSUME r.caller \in allowed
      PROVE  LET n == [r EXCEPT !.at = "handle"] IN n \in Record /\ Fine(n)
  <2> DEFINE n == [r EXCEPT !.at = "handle"]
  <2>1. n \in Record
    BY <1>1 DEF Record
  <2>2. CountFine(n) /\ AnswerFine(n)
    BY <1>1 DEF Record, Fine, CountFine, AnswerFine
  <2>3. TokenFine(n)
    BY <1>1 DEF Record, Fine, TokenFine
  <2>4. r.entitled
    BY <1>1, <1>3 DEF Fine, TokenFine, RightFine
  <2>5. RightFine(n)
    BY <1>1, <2>4 DEF Record, Fine, RightFine
  <2> QED BY <2>1, <2>2, <2>3, <2>5 DEF Fine
<1>4. /\ \/ Become(q, Respond(r, 500))
         \/ Become(q, Respond(r, 403))
         \/ r.caller \in allowed /\ Become(q, [r EXCEPT !.at = "handle"])
      /\ UNCHANGED sharedVars
  BY DEF Authorize
<1> QED BY <1>2, <1>3, <1>4, BecomeFine

\* The handler's answer: what it did before is the same as above.
LEMMA RanFine ==
    ASSUME NEW r \in Record, Fine(r), r.at = "handle"
    PROVE  LET n == [r EXCEPT !.ran = TRUE] IN n \in Record /\ Fine(n) /\ n.at = "handle"
<1> DEFINE n == [r EXCEPT !.ran = TRUE]
<1> USE DEF Layer, Metric, Above, Inside, InFlight, Unset, Utf8
<1>1. n \in Record /\ n.at = "handle"
  BY DEF Record
<1>2. CountFine(n) /\ AnswerFine(n)
  BY DEF Record, Fine, CountFine, AnswerFine
<1>3. TokenFine(n) /\ RightFine(n)
  BY DEF Record, Fine, TokenFine, RightFine
<1> QED BY <1>1, <1>2, <1>3 DEF Fine

LEMMA HandleInv ==
    ASSUME Inv, NEW q \in Request, Handle(q) \/ Panic(q)
    PROVE  Inv'
<1> DEFINE r == req[q]
           n == [r EXCEPT !.ran = TRUE]
<1> USE DEF Layer, Metric, Above, Inside, InFlight, Unset, Utf8
<1>1. r \in Record /\ Fine(r) /\ r.at = "handle"
  BY DEF Inv, TypeOK, Handle, Panic
<1>2. CASE Handle(q)
  <2>1. PICK s \in {200, 500} : Become(q, Respond(n, s))
    BY <1>2 DEF Handle
  <2>2. s \in Status \ {429}
    BY DEF Status
  <2>3. n \in Record /\ Fine(n) /\ n.at = "handle"
    BY <1>1, RanFine
  <2> HIDE DEF n
  <2>4. Respond(n, s) \in Record /\ Fine(Respond(n, s))
    BY <2>2, <2>3, RespondFine
  <2> QED BY <1>2, <2>1, <2>4, BecomeFine DEF Handle
<1>3. CASE Panic(q)
  <2> DEFINE m == [r EXCEPT !.at = "unwind", !.ran = TRUE, !.panicked = TRUE]
  <2>1. m \in Record
    BY <1>1 DEF Record
  <2>2. CountFine(m) /\ AnswerFine(m)
    BY <1>1 DEF Record, Fine, CountFine, AnswerFine
  <2>3. TokenFine(m) /\ RightFine(m)
    BY <1>1 DEF Record, Fine, TokenFine, RightFine
  <2> QED BY <1>3, <2>1, <2>2, <2>3, BecomeFine DEF Panic, Fine
<1> QED BY <1>2, <1>3

\* Issue gives a token that no request carries yet a user.
LEMMA IssueInv ==
    ASSUME Inv, NEW q \in Request, NEW t \in Token, NEW u \in User, Issue(q, t, u)
    PROVE  Inv'
<1> DEFINE r == req[q]
           n == [r EXCEPT !.ran = TRUE]
<1> USE DEF Layer, Metric, Above, Inside, InFlight, Unset, Utf8
<1>1. r \in Record /\ Fine(r) /\ r.at = "handle"
  BY DEF Inv, TypeOK, Issue
<1>2. 200 \in Status \ {429}
  BY DEF Status
<1>3. Respond(n, 200) \in Record /\ Fine(Respond(n, 200))
  <2>1. n \in Record /\ Fine(n) /\ n.at = "handle"
    BY <1>1, RanFine
  <2> HIDE DEF n
  <2> QED BY <1>2, <2>1, RespondFine
<1>4. /\ holder' = [holder EXCEPT ![t] = u] /\ holder[t] = NoUser
      /\ claim' = [claim EXCEPT ![t] = r.tenant]
      /\ req' = [req EXCEPT ![q] = Respond(n, 200)]
      /\ UNCHANGED <<expired, listed, allowed, registered>>
  BY DEF Issue, GenerateToken, Become
<1>5. TypeOK'
  <2>1. r.tenant \in Scope /\ u \in Caller
    BY <1>1 DEF Record, Caller
  <2> QED BY <1>3, <1>4, <2>1 DEF Inv, TypeOK
<1>6. ASSUME NEW o \in Request PROVE Fine(req[o])'
  <2>1. Fine(req'[o])
    BY <1>3, <1>4 DEF Inv, TypeOK
  <2>2. req'[o].at \in InFlight /\ req'[o].bearer \in Token =>
           holder'[req'[o].bearer] = holder[req'[o].bearer]
    BY <1>4, <2>1 DEF Inv, TypeOK, Fine, TokenFine
  <2>3. CountFine(req[o])' /\ AnswerFine(req[o])'
    BY <2>1 DEF Fine, CountFine, AnswerFine
  <2>4. TokenFine(req[o])'
    BY <1>4, <2>1, <2>2 DEF Fine, TokenFine
  <2>5. RightFine(req[o])'
    BY <2>1, <2>2 DEF Fine, RightFine
  <2> QED BY <2>3, <2>4, <2>5 DEF Fine
<1> QED BY <1>4, <1>5, <1>6 DEF Inv

-----------------------------------------------------------------------------
(* The logs, and the way of a panic.                                       *)

LEMMA AuditInv ==
    ASSUME Inv, NEW q \in Request, Audit(q)
    PROVE  Inv'
<1> DEFINE r == req[q]
           n == [r EXCEPT !.at = "record", !.audit = r.sent]
           m == [r EXCEPT !.at = "record", !.lost = @ \cup {"audit"}]
<1> USE DEF Layer, Metric, Above, Inside, InFlight, Unset, Utf8
<1>1. r \in Record /\ Fine(r) /\ r.at = "audit"
  BY DEF Inv, TypeOK, Audit
<1>2. n \in Record /\ m \in Record
  <2>1. n \in Record
    BY <1>1 DEF Record
  <2>2. m \in Record
    BY <1>1 DEF Record
  <2> QED BY <2>1, <2>2
<1>3. CountFine(n) /\ AnswerFine(n)
  BY <1>1 DEF Record, Fine, CountFine, AnswerFine
<1>4. CountFine(m) /\ AnswerFine(m)
  BY <1>1 DEF Record, Fine, CountFine, AnswerFine
<1>5. TokenFine(n) /\ RightFine(n) /\ TokenFine(m) /\ RightFine(m)
  BY <1>1 DEF Record, Fine, TokenFine, RightFine
<1> QED BY <1>2, <1>3, <1>4, <1>5, BecomeFine DEF Audit, Fine

LEMMA ErrorRecord ==
    ASSUME NEW r \in Record, NEW e \in 0..2
    PROVE  [r EXCEPT !.at = "done", !.errors = e] \in Record
<1>1. "done" \in Layer
  BY DEF Layer
<1> QED BY <1>1 DEF Record

LEMMA LostRecord ==
    ASSUME NEW r \in Record, NEW l \in SUBSET {"audit", "error"}
    PROVE  [r EXCEPT !.at = "done", !.lost = l] \in Record
<1>1. "done" \in Layer
  BY DEF Layer
<1> QED BY <1>1 DEF Record

\* What persistError is called with, and what is left of it.
LEMMA PersistFine ==
    ASSUME Inv, NEW q \in Request, NEW r \in Record, PersistError(q, r), UNCHANGED sharedVars,
           r.errors = 0, "error" \notin r.lost, r.sent \in Status, r.sent >= 500, ~r.missing,
           r.panicked => r.ran \/ ~Utf8(r), ~Utf8(r) => r.panicked,
           r.entered = IF Utf8(r) THEN 1 ELSE 0,
           r.left = r.entered /\ r.total = IF r.panicked THEN 0 ELSE 1,
           r.route # "preflight",
           r.audit = r.sent \/ (r.audit = Unset /\ (r.panicked \/ "audit" \in r.lost)),
           r.route = "module" /\ r.ran => r.welcome /\ r.entitled /\ (r.revoked => r.blind = 2)
    PROVE  Inv'
<1> DEFINE n == [r EXCEPT !.at = "done", !.errors = @ + 1]
           m == [r EXCEPT !.at = "done", !.lost = @ \cup {"error"}]
<1> USE DEF Layer, Metric, Above, Inside, InFlight, Unset, Utf8
<1>1. n \in Record
  <2>1. r.errors + 1 \in 0..2
    OBVIOUS
  <2>2. n = [r EXCEPT !.at = "done", !.errors = r.errors + 1]
    OBVIOUS
  <2> QED BY <2>1, <2>2, ErrorRecord
<1>2. m \in Record
  <2>1. r.lost \cup {"error"} \in SUBSET {"audit", "error"}
    BY DEF Record
  <2> QED BY <2>1, LostRecord
<1>3. r.sent # 429
  OBVIOUS
<1>4. CountFine(n) /\ CountFine(m)
  BY <1>3 DEF Record, CountFine, Measured
<1>5. AnswerFine(n) /\ AnswerFine(m)
  BY DEF Record, AnswerFine
<1>6. TokenFine(n) /\ RightFine(n) /\ TokenFine(m) /\ RightFine(m)
  BY DEF Record, TokenFine, RightFine
<1> QED BY <1>1, <1>2, <1>4, <1>5, <1>6, BecomeFine DEF PersistError, Fine

LEMMA RecordErrorInv ==
    ASSUME Inv, NEW q \in Request, RecordError(q)
    PROVE  Inv'
<1> DEFINE r == req[q]
<1> USE DEF Layer, Metric, Above, Inside, InFlight, Unset, Utf8
<1>1. r \in Record /\ Fine(r) /\ r.at = "record"
  BY DEF Inv, TypeOK, RecordError
<1>2. r.sent \in Status /\ r.sent \in Nat
  BY <1>1 DEF Fine, AnswerFine, Status
<1>3. CASE r.sent >= 500
  <2>1. PersistError(q, r) /\ UNCHANGED sharedVars
    BY <1>3 DEF RecordError
  <2>2. r.sent # 429
    BY <1>2, <1>3
  <2>3. ~r.missing /\ r.entered = 1 /\ r.left = 1 /\ r.total = 1 /\ r.route # "preflight" /\ Utf8(r)
    BY <1>1, <2>2 DEF Record, Fine, CountFine
  <2>4. /\ ~r.panicked /\ r.errors = 0 /\ "error" \notin r.lost
        /\ r.audit = r.sent \/ (r.audit = Unset /\ "audit" \in r.lost)
    BY <1>1 DEF Record, Fine, AnswerFine
  <2>5. r.route = "module" /\ r.ran => r.welcome /\ r.entitled /\ (r.revoked => r.blind = 2)
    BY <1>1 DEF Fine, RightFine
  <2> QED BY <1>1, <1>2, <1>3, <2>1, <2>3, <2>4, <2>5, PersistFine
<1>4. CASE ~(r.sent >= 500)
  <2> DEFINE n == [r EXCEPT !.at = "done"]
  <2>1. n \in Record
    BY <1>1 DEF Record
  <2>2. CountFine(n)
    BY <1>1 DEF Record, Fine, CountFine, AnswerFine, Measured
  <2>3. AnswerFine(n)
    BY <1>1, <1>4 DEF Record, Fine, AnswerFine
  <2>4. TokenFine(n) /\ RightFine(n)
    BY <1>1 DEF Record, Fine, TokenFine, RightFine
  <2> QED BY <1>4, <2>1, <2>2, <2>3, <2>4, BecomeFine DEF RecordError, Fine
<1> QED BY <1>3, <1>4

LEMMA RecoverInv ==
    ASSUME Inv, NEW q \in Request, Unwind(q) \/ Recover(q)
    PROVE  Inv'
<1> DEFINE r == req[q]
<1> USE DEF Layer, Metric, Above, Inside, InFlight, Unset, Utf8
<1>1. r \in Record /\ Fine(r)
  BY DEF Inv, TypeOK
<1>2. CASE Unwind(q)
  <2> DEFINE n == [r EXCEPT !.at = "recover", !.left = @ + 1]
  <2>1. r.at = "unwind" /\ r.left = 0
    BY <1>1, <1>2 DEF Unwind, Fine, CountFine
  <2>2. n \in Record
    <3>1. r.left + 1 \in 0..2
      BY <2>1
    <3> QED BY <1>1, <3>1 DEF Record
  <2>3. CountFine(n) /\ AnswerFine(n)
    BY <1>1, <2>1 DEF Record, Fine, CountFine, AnswerFine
  <2>4. TokenFine(n) /\ RightFine(n)
    BY <1>1, <2>1 DEF Record, Fine, TokenFine, RightFine
  <2> QED BY <1>2, <2>2, <2>3, <2>4, BecomeFine DEF Unwind, Fine
<1>3. CASE Recover(q)
  <2> DEFINE n == [r EXCEPT !.sent = IF @ = Unset THEN 500 ELSE @]
             m == [r EXCEPT !.sent = 500]
  <2>1. r.at = "recover" /\ r.sent = Unset
    BY <1>1, <1>3 DEF Recover, Fine, AnswerFine
  <2>2. n = m
    BY <2>1
  <2>3. 500 \in Status /\ 500 \in Outcome
    BY DEF Outcome, Status
  <2>4. m \in Record
    BY <1>1, <2>3, SentRecord
  <2>5. PersistError(q, m) /\ UNCHANGED sharedVars
    BY <1>3, <2>2 DEF Recover
  <2>6. /\ ~r.missing /\ r.entered = (IF Utf8(r) THEN 1 ELSE 0) /\ r.left = r.entered
        /\ r.total = 0 /\ r.route # "preflight"
        /\ r.panicked /\ (r.ran \/ ~Utf8(r))
        /\ r.errors = 0 /\ "error" \notin r.lost /\ r.audit = Unset
    BY <1>1, <2>1 DEF Record, Fine, CountFine, AnswerFine
  <2>7. r.route = "module" /\ r.ran => r.welcome /\ r.entitled /\ (r.revoked => r.blind = 2)
    BY <1>1, <2>6 DEF Fine, RightFine
  <2>8. /\ m.errors = r.errors /\ m.lost = r.lost /\ m.sent = 500 /\ m.missing = r.missing
        /\ m.panicked = r.panicked /\ m.ran = r.ran /\ m.entered = r.entered /\ m.left = r.left
        /\ m.total = r.total
        /\ m.route = r.route /\ m.audit = r.audit /\ m.welcome = r.welcome
        /\ m.entitled = r.entitled /\ m.revoked = r.revoked /\ m.blind = r.blind
    BY <1>1 DEF Record
  <2> HIDE DEF m
  <2>9. /\ m.errors = 0 /\ "error" \notin m.lost /\ m.sent \in Status /\ m.sent >= 500
        /\ ~m.missing /\ (m.panicked => m.ran \/ ~Utf8(m)) /\ (~Utf8(m) => m.panicked)
        /\ m.entered = (IF Utf8(m) THEN 1 ELSE 0)
        /\ m.left = m.entered /\ m.total = IF m.panicked THEN 0 ELSE 1
    BY <2>3, <2>6, <2>8
  <2>10. /\ m.route # "preflight"
         /\ m.audit = m.sent \/ (m.audit = Unset /\ (m.panicked \/ "audit" \in m.lost))
         /\ m.route = "module" /\ m.ran => m.welcome /\ m.entitled /\ (m.revoked => m.blind = 2)
    BY <2>6, <2>7, <2>8
  <2> QED BY <2>4, <2>5, <2>9, <2>10, PersistFine
<1> QED BY <1>2, <1>3

LEMMA FinishInv ==
    ASSUME Inv, NEW q \in Request, Finish(q)
    PROVE  Inv'
<1>1. NoRequest.at = "idle"
  BY DEF NoRequest
<1> QED BY <1>1, NoRequestFine, BecomeFine DEF Finish

-----------------------------------------------------------------------------
(* The environment.                                                        *)

LEMMA TokensInv ==
    ASSUME Inv, NEW t \in Token, Expire(t) \/ List(t)
    PROVE  Inv'
<1>1. TypeOK' /\ (~TokenDenylist => listed' = {})
  BY DEF Expire, List, Inv, TypeOK
<1>2. ASSUME NEW o \in Request PROVE Fine(req[o])'
  <2>1. Fine(req[o]) /\ req'[o] = req[o] /\ holder' = holder /\ allowed' = allowed
        /\ expired \subseteq expired' /\ listed \subseteq listed'
    BY DEF Inv, Expire, List
  <2> QED BY <2>1 DEF Fine, CountFine, AnswerFine, TokenFine, RightFine
<1> QED BY <1>1, <1>2 DEF Inv

LEMMA AllowInv ==
    ASSUME Inv, NEW u \in User, Allow(u) \/ Forbid(u)
    PROVE  Inv'
<1>1. CASE Forbid(u)
  <2>1. TypeOK' /\ (~TokenDenylist => listed' = {})
    BY <1>1 DEF Forbid, Inv, TypeOK, tokenVars
  <2>2. ASSUME NEW o \in Request PROVE Fine(req[o])'
    <3>1. Fine(req[o]) /\ req'[o] = req[o] /\ UNCHANGED tokenVars /\ allowed' \subseteq allowed
      BY <1>1 DEF Inv, Forbid
    <3> QED BY <3>1 DEF Fine, CountFine, AnswerFine, TokenFine, RightFine, tokenVars
  <2> QED BY <2>1, <2>2 DEF Inv
<1>2. CASE Allow(u)
  <2> DEFINE Now(o) == req[o].entitled \/ (req[o].bearer \in Token /\ holder[req[o].bearer] = u)
  <2>1. ASSUME NEW o \in Request
        PROVE  /\ req'[o] = [req[o] EXCEPT !.entitled = Now(o)]
               /\ req'[o] \in Record
               /\ Fine(req[o])'
    <3> DEFINE r == req[o]
               n == [r EXCEPT !.entitled = Now(o)]
    <3>1. r \in Record /\ Fine(r)
      BY DEF Inv, TypeOK
    <3>2. req'[o] = n
      BY <1>2 DEF Allow
    <3>3. Now(o) \in BOOLEAN
      BY <3>1 DEF Record
    <3>4. r.entitled => Now(o)
      OBVIOUS
    <3>5. r.bearer \in Token /\ holder[r.bearer] = u => Now(o)
      OBVIOUS
    <3> HIDE DEF Now
    <3>6. n \in Record
      BY <3>1, <3>3 DEF Record
    <3>7. Fine(n)
      <4>1. CountFine(n) /\ AnswerFine(n)
        <5>1. /\ n.at = r.at /\ n.route = r.route /\ n.missing = r.missing /\ n.body = r.body
              /\ n.sent = r.sent /\ n.audit = r.audit /\ n.errors = r.errors /\ n.lost = r.lost
              /\ n.entered = r.entered /\ n.left = r.left
              /\ n.total = r.total /\ n.ran = r.ran
              /\ n.panicked = r.panicked
          BY <3>1 DEF Record
        <5> HIDE DEF n
        <5> QED BY <3>1, <5>1 DEF Fine, CountFine, AnswerFine, Measured, Utf8
      <4>2. RightFine(n)
        BY <3>1, <3>3, <3>4 DEF Record, Fine, RightFine
      <4>3. TokenFine(n)
        BY <3>1, <3>3, <3>4 DEF Record, Fine, TokenFine
      <4> QED BY <4>1, <4>2, <4>3 DEF Fine
    <3>8. req'[o].bearer \in Token /\ holder[req'[o].bearer] = u => req'[o].entitled
      BY <3>1, <3>2, <3>3, <3>5 DEF Record
    <3> HIDE DEF n
    <3>9. CountFine(req[o])' /\ AnswerFine(req[o])'
      BY <3>2, <3>7 DEF Fine, CountFine, AnswerFine
    <3>10. RightFine(req[o])'
      BY <1>2, <3>2, <3>7 DEF Allow, tokenVars, Fine, RightFine
    <3>11. TokenFine(req[o])'
      BY <1>2, <3>2, <3>7, <3>8 DEF Allow, tokenVars, Fine, TokenFine
    <3> QED BY <3>2, <3>6, <3>9, <3>10, <3>11 DEF Fine, n
  <2>2. TypeOK' /\ (~TokenDenylist => listed' = {})
    <3>1. req' \in [Request -> Record]
      BY <1>2, <2>1 DEF Allow
    <3> QED BY <1>2, <3>1 DEF Allow, Inv, TypeOK, tokenVars
  <2> QED BY <2>1, <2>2 DEF Inv
<1> QED BY <1>1, <1>2

-----------------------------------------------------------------------------
(* The theorems.                                                           *)

\* Inv holds at the start and every layer and every change around it keeps it.
THEOREM PipelineInvariant == Spec => []Inv
<1>1. Inv /\ [Next]_vars => Inv'
  <2> SUFFICES ASSUME Inv, [Next]_vars PROVE Inv'
    OBVIOUS
  <2>1. CASE \E q \in Request : Begin(q) \/ Serve(q) \/ Finish(q)
    <3>1. PICK q \in Request : Begin(q) \/ Serve(q) \/ Finish(q)
      BY <2>1
    <3>2. CASE Serve(q)
      BY <3>2, PassInv, MetricsInv, AuthenticateInv, ResolveInv, AuthorizeInv, HandleInv,
         IssueInv, AuditInv, RecordErrorInv, RecoverInv DEF Serve
    <3> QED BY <3>1, <3>2, BeginInv, FinishInv
  <2>2. CASE \E t \in Token : Expire(t) \/ List(t)
    BY <2>2, TokensInv
  <2>3. CASE \E u \in User : Allow(u) \/ Forbid(u)
    BY <2>3, AllowInv
  <2>4. CASE UNCHANGED vars
    BY <2>4 DEF vars, sharedVars, tokenVars, Inv, TypeOK, Fine, CountFine, AnswerFine,
       TokenFine, RightFine
  <2> QED BY <2>1, <2>2, <2>3, <2>4 DEF Next
<1> QED BY InitInv, <1>1, PTL DEF Spec

\* The type invariant, with any number of requests, users, tokens and tenants.
THEOREM TypeCorrect == Spec => []TypeOK
<1>1. Inv => TypeOK
  BY DEF Inv
<1> QED BY <1>1, PipelineInvariant, PTL

\* One row in error_logs for an answer of 500 and above, from ErrorHandler or from
\* ErrorRecorder and never from both.
THEOREM FailuresTheorem == Spec => []FailuresRecordedOnce
<1>1. Inv => FailuresRecordedOnce
  BY DEF Inv, Fine, AnswerFine, FailuresRecordedOnce, Done
<1> QED BY <1>1, PipelineInvariant, PTL

\* The row in audit_logs shows the status the client got.
THEOREM AuditTheorem == Spec => []AuditTellsAnswer
<1>1. Inv => AuditTellsAnswer
  BY DEF Inv, Fine, AnswerFine, AuditTellsAnswer, Done
<1> QED BY <1>1, PipelineInvariant, PTL

\* The double check of the token and the check of the right keep a module's handler
\* from requests that were never entitled to it, whatever changes meanwhile.
THEOREM EntitledTheorem == Spec => []OnlyEntitledRun
<1>1. Inv => OnlyEntitledRun
  BY DEF Inv, Fine, RightFine, OnlyEntitledRun
<1> QED BY <1>1, PipelineInvariant, PTL

\* However many requests meet a new metric at once, each is counted as active once as
\* it comes and once as it goes, a handler's panic included, and in the total exactly
\* if it came back; one with a path that is no label is counted nowhere.
THEOREM MetricsTheorem == Spec => []MetricsAgree
<1>1. Inv => MetricsAgree
  BY DEF Inv, Fine, CountFine, AnswerFine, MetricsAgree, Done
<1> QED BY <1>1, PipelineInvariant, PTL
=============================================================================
