---------------------------- MODULE RequestGuards ----------------------------
(***************************************************************************)
(* The two guards in front of the /auth routes that keep their state in    *)
(* Redis: the rate limit (INCR, then EXPIRE if the count is one) and, for  *)
(* a POST with an Idempotency-Key, the replay of an earlier response (GET, *)
(* then the handler, then SET).  No two Redis calls of a request are       *)
(* atomic, and any replica may serve any request.                          *)
(***************************************************************************)
EXTENDS Integers, FiniteSets

CONSTANTS
    Request,    \* each is sent once; a retry is another request
    Client,     \* addresses the limit counts by
    Key,        \* values of Idempotency-Key
    NoKey,      \* no header, or not a POST
    NoRequest,
    ClientOf,
    KeyOf,
    Limit,      \* requests per window
    Faults      \* "redis": a call fails or is lost; "crash"; "ttl": records expire

ASSUME GuardConstants ==
    /\ ClientOf \in [Request -> Client]
    /\ KeyOf \in [Request -> Key \cup {NoKey}]
    /\ NoKey \notin Key
    /\ NoRequest \notin Request
    /\ Limit \in Nat \ {0}
    /\ Faults \subseteq {"redis", "crash", "ttl"}

VARIABLES
    count,      \* ratelimit:<client>
    ttl,        \* has that key an expiry?
    record,     \* idempotency:<key>, the request whose response it holds
    stage,      \* where each request is
    seen,       \* the count INCR returned to it; 0 if it returned none
    replay,     \* the request whose response it was answered with
    (* History variables.                                                    *)
    window,     \* per client, requests counted since the key was created
    lost,       \* clients whose counter missed its EXPIRE
    succeeded,  \* requests whose handler answered 2xx
    before,     \* what had been answered with success when a request came
    blind,      \* requests whose GET failed
    lapsed      \* requests whose response is not, or no more, kept

limitVars == <<count, ttl, seen, window, lost>>
replayVars == <<record, replay, succeeded, blind, lapsed>>
vars == <<limitVars, replayVars, stage, before>>

InFlight == {"first", "lookup", "run", "save"}
Stage == {"new", "refused", "done", "failed", "dead"} \cup InFlight

\* Requests that their client knows to have succeeded.
Served == {r \in Request : stage[r] = "done"}

Init ==
    /\ count = [c \in Client |-> 0]
    /\ ttl = [c \in Client |-> FALSE]
    /\ record = [k \in Key |-> NoRequest]
    /\ stage = [r \in Request |-> "new"]
    /\ seen = [r \in Request |-> 0]
    /\ replay = [r \in Request |-> NoRequest]
    /\ window = [c \in Client |-> {}]
    /\ lost = {}
    /\ succeeded = {}
    /\ before = [r \in Request |-> {}]
    /\ blind = {}
    /\ lapsed = {}

Goto(r, s) == stage' = [stage EXCEPT ![r] = s]

-----------------------------------------------------------------------------
(* Rate limit.                                                             *)

\* Behind the limit: without a key the idempotency middleware does nothing.
Through(r) == IF KeyOf[r] = NoKey THEN "run" ELSE "lookup"

\* Mutant of Admission: one request too many.
AdmissionOffByOne(r, n) == IF n > Limit + 1 THEN "refused" ELSE Through(r)

Admission(r, n) == IF n > Limit THEN "refused" ELSE Through(r)

Enter(r) ==
    /\ stage[r] = "new"
    /\ before' = [before EXCEPT ![r] = Served]

\* INCR, sent `tries` times by the client library, returns the last count.
Incr(r, tries) ==
    LET c == ClientOf[r] IN
    /\ count' = [count EXCEPT ![c] = @ + tries]
    /\ seen' = [seen EXCEPT ![r] = count[c] + tries]
    /\ window' = [window EXCEPT ![c] = @ \cup {r}]

\* Mutant of Arrive: the count is compared with zero after INCR.
ArriveComparesZero(r) ==
    /\ Enter(r)
    /\ Incr(r, 1)
    /\ Goto(r, Admission(r, count[ClientOf[r]] + 1))
    /\ UNCHANGED <<ttl, lost, replayVars>>

Arrive(r) ==
    LET n == count[ClientOf[r]] + 1 IN
    /\ Enter(r)
    /\ Incr(r, 1)
    /\ Goto(r, IF n = 1 THEN "first" ELSE Admission(r, n))
    /\ UNCHANGED <<ttl, lost, replayVars>>

\* The reply to INCR is lost and the library sends it again: the count goes up
\* by two, and of a new key nobody sees the one.
IncrRetried(r) ==
    LET c == ClientOf[r] IN
    /\ "redis" \in Faults
    /\ Enter(r)
    /\ Incr(r, 2)
    /\ Goto(r, Admission(r, count[c] + 2))
    /\ lost' = IF count[c] = 0 THEN lost \cup {c} ELSE lost
    /\ UNCHANGED <<ttl, replayVars>>

\* INCR fails, whether or not Redis executed it: the request goes through.
IncrFails(r) ==
    LET c == ClientOf[r] IN
    /\ "redis" \in Faults
    /\ Enter(r)
    /\ Goto(r, Through(r))
    /\ \/ UNCHANGED <<count, lost>>
       \/ /\ count' = [count EXCEPT ![c] = @ + 1]
          /\ lost' = IF count[c] = 0 THEN lost \cup {c} ELSE lost
    /\ UNCHANGED <<ttl, seen, window, replayVars>>

\* Mutant of SetExpire: the window is passed on as no time at all.
SetExpireToNever(r) ==
    /\ stage[r] = "first"
    /\ Goto(r, Admission(r, seen[r]))
    /\ UNCHANGED <<count, ttl, seen, window, lost, replayVars, before>>

SetExpire(r) ==
    /\ stage[r] = "first"
    /\ ttl' = [ttl EXCEPT ![ClientOf[r]] = TRUE]
    /\ Goto(r, Admission(r, seen[r]))
    /\ UNCHANGED <<count, seen, window, lost, replayVars, before>>

\* The error of EXPIRE is dropped.
ExpireFails(r) ==
    /\ "redis" \in Faults
    /\ stage[r] = "first"
    /\ lost' = lost \cup {ClientOf[r]}
    /\ Goto(r, Admission(r, seen[r]))
    /\ UNCHANGED <<count, ttl, seen, window, replayVars, before>>

\* Redis deletes a counter whose time is up.
WindowPasses(c) ==
    /\ ttl[c]
    /\ count' = [count EXCEPT ![c] = 0]
    /\ ttl' = [ttl EXCEPT ![c] = FALSE]
    /\ window' = [window EXCEPT ![c] = {}]
    /\ UNCHANGED <<seen, lost, replayVars, stage, before>>

-----------------------------------------------------------------------------
(* Idempotency.                                                            *)

\* Mutant of Lookup: an empty answer of Redis is replayed too.
LookupUnchecked(r) ==
    /\ stage[r] = "lookup"
    /\ replay' = [replay EXCEPT ![r] = record[KeyOf[r]]]
    /\ Goto(r, "done")
    /\ UNCHANGED <<limitVars, record, succeeded, blind, lapsed, before>>

Lookup(r) ==
    /\ stage[r] = "lookup"
    /\ \/ /\ record[KeyOf[r]] # NoRequest
          /\ replay' = [replay EXCEPT ![r] = record[KeyOf[r]]]
          /\ Goto(r, "done")
       \/ /\ record[KeyOf[r]] = NoRequest
          /\ Goto(r, "run")
          /\ UNCHANGED replay
    /\ UNCHANGED <<limitVars, record, succeeded, blind, lapsed, before>>

LookupFails(r) ==
    /\ "redis" \in Faults
    /\ stage[r] = "lookup"
    /\ blind' = blind \cup {r}
    /\ Goto(r, "run")
    /\ UNCHANGED <<limitVars, record, replay, succeeded, lapsed, before>>

\* Mutant of Succeed: only 200 is kept, not every 2xx.
SucceedUnkept(r) ==
    /\ stage[r] = "run"
    /\ succeeded' = succeeded \cup {r}
    /\ Goto(r, "done")
    /\ UNCHANGED <<limitVars, record, replay, blind, lapsed, before>>

\* The handler answers 2xx.
Succeed(r) ==
    /\ stage[r] = "run"
    /\ succeeded' = succeeded \cup {r}
    /\ Goto(r, IF KeyOf[r] = NoKey THEN "done" ELSE "save")
    /\ UNCHANGED <<limitVars, record, replay, blind, lapsed, before>>

\* Mutant of Fail: the response is kept whatever its status.
FailKept(r) ==
    /\ stage[r] = "run"
    /\ Goto(r, IF KeyOf[r] = NoKey THEN "failed" ELSE "save")
    /\ UNCHANGED <<limitVars, replayVars, before>>

\* The handler answers anything else.
Fail(r) ==
    /\ stage[r] = "run"
    /\ Goto(r, "failed")
    /\ UNCHANGED <<limitVars, replayVars, before>>

Save(r) ==
    /\ stage[r] = "save"
    /\ record' = [record EXCEPT ![KeyOf[r]] = r]
    /\ Goto(r, "done")
    /\ UNCHANGED <<limitVars, replay, succeeded, blind, lapsed, before>>

\* The error of SET is dropped; it also fails when the caller has hung up.
SaveFails(r) ==
    /\ "redis" \in Faults
    /\ stage[r] = "save"
    /\ lapsed' = lapsed \cup {r}
    /\ Goto(r, "done")
    /\ UNCHANGED <<limitVars, record, replay, succeeded, blind, before>>

RecordExpires(k) ==
    /\ "ttl" \in Faults
    /\ record[k] # NoRequest
    /\ record' = [record EXCEPT ![k] = NoRequest]
    /\ lapsed' = lapsed \cup {r \in Served : KeyOf[r] = k}
    /\ UNCHANGED <<limitVars, replay, succeeded, blind, stage, before>>

\* The process dies with the request; its handler may have done its work.
Crash(r) ==
    /\ "crash" \in Faults
    /\ stage[r] \in InFlight
    /\ Goto(r, "dead")
    /\ lost' = IF stage[r] = "first" THEN lost \cup {ClientOf[r]} ELSE lost
    /\ \/ UNCHANGED succeeded
       \/ stage[r] = "run" /\ succeeded' = succeeded \cup {r}
    /\ UNCHANGED <<count, ttl, seen, window, record, replay, blind, lapsed, before>>

-----------------------------------------------------------------------------

LimitStep(r) ==
    Arrive(r) \/ IncrRetried(r) \/ IncrFails(r) \/ SetExpire(r) \/ ExpireFails(r)

ReplayStep(r) ==
    Lookup(r) \/ LookupFails(r) \/ Succeed(r) \/ Fail(r) \/ Save(r) \/ SaveFails(r)

Next ==
    \/ \E r \in Request : LimitStep(r) \/ ReplayStep(r) \/ Crash(r)
    \/ \E c \in Client : WindowPasses(c)
    \/ \E k \in Key : RecordExpires(k)

Spec == Init /\ [][Next]_vars

\* A request that is in the middle of the limit goes on; time passes.
FairSpec ==
    /\ Spec
    /\ WF_vars(\E r \in Request : SetExpire(r))
    /\ \A c \in Client : WF_vars(WindowPasses(c))

-----------------------------------------------------------------------------
(* Properties.                                                             *)

\* Variables have their types; a count is there exactly as long as its key; and
\* a request that is done has a response, its own or a replayed one.
TypeOK ==
    /\ count \in [Client -> Nat]
    /\ ttl \in [Client -> BOOLEAN]
    /\ record \in [Key -> Request \cup {NoRequest}]
    /\ stage \in [Request -> Stage]
    /\ seen \in [Request -> Nat]
    /\ replay \in [Request -> Request \cup {NoRequest}]
    /\ window \in [Client -> SUBSET Request]
    /\ lost \subseteq Client
    /\ before \in [Request -> SUBSET Request]
    /\ succeeded \subseteq Request /\ blind \subseteq Request /\ lapsed \subseteq Request
    /\ \A r \in Request :
        /\ stage[r] \in {"lookup", "save"} => KeyOf[r] # NoKey
        /\ stage[r] = "save" => r \in succeeded
        /\ stage[r] = "done" => r \in succeeded \/ replay[r] # NoRequest

\* Of the requests of a client that were counted in the same window, no more than
\* Limit get past RateLimit, however their Redis calls interleave.
LimitHolds ==
    \A c \in Client :
        Cardinality({r \in window[c] : stage[r] \notin {"first", "refused"}}) <= Limit

\* Every counter has an end, or the request that will give it one is at work, or
\* the EXPIRE of that very counter was lost: nothing else leaves one without.
WindowCloses ==
    \A c \in Client \ lost :
        count[c] > 0 =>
            ttl[c] \/ \E r \in window[c] : stage[r] = "first"

\* A client that is over the limit is let in again, unless its counter lost its
\* EXPIRE (RateLimit sets it for the count of one only).
RefusalEnds ==
    \A c \in Client :
        (count[c] > Limit) ~> (count[c] = 0 \/ c \in lost)

\* A retry that is sent after the client has seen its request succeed does not
\* execute again, unless Redis did not keep the response or could not be read.
\* (Two requests of which neither waited for the other both execute.)
SafeRetry ==
    \A r \in Request : \A e \in before[r] :
        /\ stage[r] \in {"run", "save"} \/ r \in succeeded
        /\ KeyOf[r] = KeyOf[e] /\ KeyOf[r] # NoKey
        => e \in lapsed \/ r \in blind

\* What Idempotency replays, and what it keeps to replay, is the response of a
\* request with the same key whose handler succeeded.
ReplayIsReal ==
    /\ \A k \in Key : record[k] # NoRequest =>
            record[k] \in succeeded /\ KeyOf[record[k]] = k
    /\ \A r \in Request : replay[r] # NoRequest =>
            replay[r] \in succeeded /\ KeyOf[replay[r]] = KeyOf[r]
=============================================================================
