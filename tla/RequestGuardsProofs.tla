------------------------- MODULE RequestGuardsProofs -------------------------
(***************************************************************************)
(* Theorems about RequestGuards, for any requests, clients, keys, limit    *)
(* and faults.                                                             *)
(***************************************************************************)
EXTENDS RequestGuards, FiniteSetTheorems, TLAPS

LEMMA Constants ==
    ASSUME NEW r \in Request
    PROVE  /\ ClientOf[r] \in Client
           /\ KeyOf[r] \in Key \cup {NoKey}
           /\ KeyOf[r] # NoKey => KeyOf[r] \in Key
           /\ NoRequest \notin Request
           /\ Limit \in Nat \ {0}
  BY GuardConstants DEF GuardConstants

\* Where a request can go from the limit.
LEMMA Admitted ==
    ASSUME NEW r \in Request, NEW n \in Nat
    PROVE  /\ Through(r) \in {"run", "lookup"}
           /\ Through(r) = "lookup" => KeyOf[r] # NoKey
           /\ Through(r) = "run" => KeyOf[r] = NoKey
           /\ Admission(r, n) \in {"refused", Through(r)}
           /\ Admission(r, n) # "refused" => n <= Limit
<1>1. Limit \in Nat
  BY Constants
<1> QED BY <1>1 DEF Through, Admission

-----------------------------------------------------------------------------

LEMMA InitTyped == Init => TypeOK
  BY GuardConstants DEF GuardConstants, Init, TypeOK, Stage, InFlight

LEMMA LimitTyped ==
    ASSUME TypeOK, NEW r \in Request, LimitStep(r)
    PROVE  TypeOK'
<1> DEFINE c == ClientOf[r]
<1>0. c \in Client /\ count[c] \in Nat /\ seen[r] \in Nat
  BY Constants DEF TypeOK
<1>1. ASSUME NEW tries \in {1, 2}, Incr(r, tries)
      PROVE  /\ count' \in [Client -> Nat] /\ seen' \in [Request -> Nat]
             /\ window' \in [Client -> SUBSET Request]
  BY <1>0, <1>1 DEF Incr, TypeOK
<1>2. ASSUME NEW s \in {"first", "refused", "lookup", "run"}, Goto(r, s),
             s = "lookup" => KeyOf[r] # NoKey
      PROVE  /\ stage' \in [Request -> Stage]
             /\ \A q \in Request :
                  /\ stage'[q] \in {"lookup", "save"} => KeyOf[q] # NoKey
                  /\ stage'[q] \in {"done", "save"} => stage'[q] = stage[q]
  BY <1>2 DEF Goto, TypeOK, Stage, InFlight
<1>3. ASSUME Enter(r) PROVE before' \in [Request -> SUBSET Request]
  BY <1>3 DEF Enter, Served, TypeOK
<1>4. ASSUME UNCHANGED replayVars,
             /\ stage' \in [Request -> Stage]
             /\ \A q \in Request :
                  /\ stage'[q] \in {"lookup", "save"} => KeyOf[q] # NoKey
                  /\ stage'[q] \in {"done", "save"} => stage'[q] = stage[q],
             /\ count' \in [Client -> Nat] /\ seen' \in [Request -> Nat]
             /\ window' \in [Client -> SUBSET Request],
             ttl' \in [Client -> BOOLEAN], lost' \subseteq Client,
             before' \in [Request -> SUBSET Request]
      PROVE  TypeOK'
  BY <1>4 DEF TypeOK, replayVars
<1>5. ASSUME NEW n \in Nat, Goto(r, Admission(r, n))
      PROVE  /\ stage' \in [Request -> Stage]
             /\ \A q \in Request :
                  /\ stage'[q] \in {"lookup", "save"} => KeyOf[q] # NoKey
                  /\ stage'[q] \in {"done", "save"} => stage'[q] = stage[q]
  <2>1. /\ Admission(r, n) \in {"first", "refused", "lookup", "run"}
        /\ Admission(r, n) = "lookup" => KeyOf[r] # NoKey
    BY Admitted
  <2> QED BY <1>2, <1>5, <2>1
<1>6. CASE Arrive(r)
  <2>1. CASE Goto(r, "first")
    BY <1>1, <1>2, <1>3, <1>4, <1>6, <2>1 DEF Arrive, TypeOK
  <2>2. CASE Goto(r, Admission(r, count[c] + 1))
    <3>1. count[c] + 1 \in Nat
      BY <1>0
    <3> QED BY <1>1, <1>3, <1>4, <1>5, <1>6, <2>2, <3>1 DEF Arrive, TypeOK
  <2> QED BY <1>6, <2>1, <2>2 DEF Arrive
<1>7. CASE IncrRetried(r)
  <2>1. count[c] + 2 \in Nat /\ lost' \subseteq Client
    BY <1>0, <1>7 DEF IncrRetried, TypeOK
  <2> QED BY <1>1, <1>3, <1>4, <1>5, <1>7, <2>1 DEF IncrRetried, TypeOK
<1>8. CASE IncrFails(r)
  <2>1. /\ count' \in [Client -> Nat] /\ lost' \subseteq Client
        /\ ttl' = ttl /\ seen' = seen /\ window' = window
    BY <1>0, <1>8 DEF IncrFails, TypeOK
  <2>2. Goto(r, Through(r)) /\ Through(r) \in {"first", "refused", "lookup", "run"}
        /\ (Through(r) = "lookup" => KeyOf[r] # NoKey)
    <3>1. 0 \in Nat
      OBVIOUS
    <3> QED BY <1>8, <3>1, Admitted DEF IncrFails
  <2> QED BY <1>2, <1>3, <1>4, <1>8, <2>1, <2>2 DEF IncrFails, TypeOK
<1>9. CASE SetExpire(r)
  BY <1>0, <1>4, <1>5, <1>9 DEF SetExpire, TypeOK
<1>10. CASE ExpireFails(r)
  BY <1>0, <1>4, <1>5, <1>10 DEF ExpireFails, TypeOK
<1> QED BY <1>6, <1>7, <1>8, <1>9, <1>10 DEF LimitStep

LEMMA ReplayTyped ==
    ASSUME TypeOK, NEW r \in Request, ReplayStep(r) \/ Crash(r)
    PROVE  TypeOK'
<1> USE DEF TypeOK, limitVars, Goto, Stage, InFlight
<1>1. CASE Lookup(r)
  BY <1>1, Constants DEF Lookup
<1>2. CASE LookupFails(r)
  BY <1>2, Constants DEF LookupFails
<1>3. CASE Succeed(r)
  BY <1>3, Constants DEF Succeed
<1>4. CASE Fail(r)
  BY <1>4, Constants DEF Fail, replayVars
<1>5. CASE Save(r)
  <2>1. KeyOf[r] \in Key /\ record' = [record EXCEPT ![KeyOf[r]] = r]
    BY <1>5, Constants DEF Save
  <2>2. record' \in [Key -> Request \cup {NoRequest}]
    BY <2>1
  <2> QED BY <1>5, <2>2 DEF Save
<1>6. CASE SaveFails(r)
  BY <1>6, Constants DEF SaveFails
<1>7. CASE Crash(r)
  <2>1. lost' \subseteq Client /\ succeeded' \subseteq Request /\ succeeded \subseteq succeeded'
    BY <1>7, Constants DEF Crash
  <2> QED BY <1>7, <2>1 DEF Crash
<1> QED BY <1>1, <1>2, <1>3, <1>4, <1>5, <1>6, <1>7 DEF ReplayStep

LEMMA NextTyped == TypeOK /\ [Next]_vars => TypeOK'
<1> SUFFICES ASSUME TypeOK, [Next]_vars PROVE TypeOK'
  OBVIOUS
<1>1. CASE \E r \in Request : LimitStep(r) \/ ReplayStep(r) \/ Crash(r)
  BY <1>1, LimitTyped, ReplayTyped
<1>2. CASE \E c \in Client : WindowPasses(c)
  BY <1>2 DEF WindowPasses, TypeOK, replayVars
<1>3. CASE \E k \in Key : RecordExpires(k)
  BY <1>3 DEF RecordExpires, Served, TypeOK, limitVars
<1>4. CASE UNCHANGED vars
  BY <1>4 DEF vars, limitVars, replayVars, TypeOK
<1> QED BY <1>1, <1>2, <1>3, <1>4 DEF Next

\* RequestGuards keeps its types (the middlewares of ratelimit.go, idempotency.go).
THEOREM TypeCorrect == Spec => []TypeOK
<1> QED BY InitTyped, NextTyped, PTL DEF Spec

-----------------------------------------------------------------------------

\* What is kept is what succeeded.  It is inductive with TypeOK, by which a
\* request that saves has succeeded.
LEMMA RealKept ==
    ASSUME TypeOK, ReplayIsReal, [Next]_vars
    PROVE  ReplayIsReal'
<1>1. ASSUME NEW r \in Request, LimitStep(r)
      PROVE  ReplayIsReal'
  <2>1. UNCHANGED replayVars
    BY <1>1 DEF LimitStep, Arrive, IncrRetried, IncrFails, SetExpire, ExpireFails
  <2> QED BY <2>1 DEF ReplayIsReal, replayVars
<1>2. ASSUME NEW r \in Request, Lookup(r)
      PROVE  ReplayIsReal'
  <2>1. KeyOf[r] \in Key
    BY <1>2, Constants DEF Lookup, TypeOK
  <2> QED BY <1>2, <2>1 DEF Lookup, ReplayIsReal, TypeOK
<1>3. ASSUME NEW r \in Request, LookupFails(r) \/ Succeed(r) \/ Fail(r) \/ SaveFails(r) \/ Crash(r)
      PROVE  ReplayIsReal'
  <2>1. UNCHANGED <<record, replay>> /\ succeeded \subseteq succeeded'
    BY <1>3 DEF LookupFails, Succeed, Fail, SaveFails, Crash, replayVars
  <2> QED BY <2>1 DEF ReplayIsReal
<1>4. ASSUME NEW r \in Request, Save(r)
      PROVE  ReplayIsReal'
  <2>1. r \in succeeded /\ record' = [record EXCEPT ![KeyOf[r]] = r]
        /\ UNCHANGED <<replay, succeeded>>
    BY <1>4 DEF Save, TypeOK
  <2>2. \A k \in Key : record'[k] # NoRequest => record'[k] \in succeeded /\ KeyOf[record'[k]] = k
    BY <2>1 DEF ReplayIsReal, TypeOK
  <2> QED BY <2>1, <2>2 DEF ReplayIsReal
<1>5. ASSUME NEW c \in Client, WindowPasses(c)
      PROVE  ReplayIsReal'
  BY <1>5 DEF WindowPasses, replayVars, ReplayIsReal
<1>6. ASSUME NEW k \in Key, RecordExpires(k)
      PROVE  ReplayIsReal'
  BY <1>6 DEF RecordExpires, ReplayIsReal, TypeOK
<1>7. CASE UNCHANGED vars
  BY <1>7 DEF vars, replayVars, ReplayIsReal
<1> QED BY <1>1, <1>2, <1>3, <1>4, <1>5, <1>6, <1>7 DEF Next, ReplayStep

\* Idempotency replays, and keeps, only responses of requests with the same key
\* whose handler succeeded.
THEOREM ReplayIsRealTheorem == Spec => []ReplayIsReal
<1>1. Init => ReplayIsReal
  BY Constants DEF Init, ReplayIsReal
<1>2. TypeOK /\ ReplayIsReal /\ [Next]_vars => ReplayIsReal'
  BY RealKept
<1> QED BY <1>1, <1>2, TypeCorrect, PTL DEF Spec

-----------------------------------------------------------------------------

\* What a client has seen succeed is in Redis, or has lapsed; a request came
\* after what was served when it came; success comes late.
Retained ==
    /\ \A e \in Served : KeyOf[e] \in Key =>
            e \in lapsed \/ record[KeyOf[e]] # NoRequest
    /\ \A r \in Request : before[r] \subseteq Served
    /\ \A r \in succeeded : stage[r] \in {"save", "done", "dead"}

RetryInv == Retained /\ SafeRetry

LEMMA RetryLimit ==
    ASSUME TypeOK, RetryInv, NEW r \in Request, LimitStep(r)
    PROVE  RetryInv'
<1>1. UNCHANGED replayVars /\ \E s \in {"first", "refused", "lookup", "run"} :
          /\ stage' = [stage EXCEPT ![r] = s]
          /\ s = "run" => KeyOf[r] = NoKey
  <2>1. seen[r] \in Nat /\ count[ClientOf[r]] + 1 \in Nat /\ count[ClientOf[r]] + 2 \in Nat
    BY Constants DEF TypeOK
  <2> QED BY <2>1, Admitted DEF LimitStep, Arrive, IncrRetried, IncrFails, SetExpire, ExpireFails, Goto
<1>2. stage[r] \in {"new", "first"}
  BY DEF LimitStep, Arrive, IncrRetried, IncrFails, SetExpire, ExpireFails, Enter
<1>3. Served' = Served
  BY <1>1, <1>2 DEF Served, TypeOK
<1>4. before' = before \/ before' = [before EXCEPT ![r] = Served]
  BY DEF LimitStep, Arrive, IncrRetried, IncrFails, SetExpire, ExpireFails, Enter
<1>5. \A q \in Request \ {r} : stage'[q] = stage[q] /\ before'[q] = before[q]
  BY <1>1, <1>4 DEF TypeOK
<1>6. r \notin succeeded
  BY <1>2 DEF RetryInv, Retained
<1>7. Retained'
  <2>1. \A q \in Request : before'[q] \subseteq Served'
    BY <1>3, <1>4 DEF RetryInv, Retained, TypeOK
  <2>2. \A q \in succeeded' : stage'[q] \in {"save", "done", "dead"}
    BY <1>1, <1>5, <1>6 DEF RetryInv, Retained, TypeOK, replayVars
  <2>3. \A e \in Served' : KeyOf[e] \in Key => e \in lapsed' \/ record'[KeyOf[e]] # NoRequest
    BY <1>1, <1>3 DEF RetryInv, Retained, replayVars
  <2> QED BY <2>1, <2>2, <2>3 DEF Retained
<1>8. SafeRetry'
  <2> SUFFICES ASSUME NEW q \in Request, NEW e \in before'[q],
                      stage'[q] \in {"run", "save"} \/ q \in succeeded',
                      KeyOf[q] = KeyOf[e], KeyOf[q] # NoKey
               PROVE  e \in lapsed' \/ q \in blind'
    BY DEF SafeRetry
  <2>1. q # r
    BY <1>1, <1>6 DEF TypeOK, replayVars
  <2> QED BY <1>1, <1>5, <2>1 DEF RetryInv, SafeRetry, replayVars
<1> QED BY <1>7, <1>8 DEF RetryInv

LEMMA RetryLookup ==
    ASSUME TypeOK, RetryInv, NEW r \in Request, Lookup(r) \/ LookupFails(r)
    PROVE  RetryInv'
<1>1. UNCHANGED <<record, succeeded, lapsed, before>> /\ blind \subseteq blind'
  BY DEF Lookup, LookupFails
<1>2. stage[r] = "lookup" /\ KeyOf[r] \in Key /\ r \notin succeeded
  BY Constants DEF Lookup, LookupFails, TypeOK, RetryInv, Retained
<1>3. \A q \in Request \ {r} : stage'[q] = stage[q]
  BY DEF Lookup, LookupFails, Goto, TypeOK
<1>4. \/ stage'[r] = "done" /\ record[KeyOf[r]] # NoRequest
      \/ stage'[r] = "run" /\ (record[KeyOf[r]] = NoRequest \/ r \in blind')
  BY DEF Lookup, LookupFails, Goto, TypeOK
<1>5. Served \subseteq Served' /\ Served' \subseteq Served \cup {r}
  BY <1>2, <1>3 DEF Served
<1>6. ASSUME NEW e \in Served', KeyOf[e] \in Key
      PROVE  e \in lapsed' \/ record'[KeyOf[e]] # NoRequest
  <2>1. CASE e = r
    <3>1. stage'[r] = "done"
      BY <1>6, <2>1 DEF Served
    <3> QED BY <1>1, <1>4, <2>1, <3>1
  <2>2. CASE e # r
    BY <1>1, <1>5, <1>6, <2>2 DEF RetryInv, Retained
  <2> QED BY <2>1, <2>2
<1>7. Retained'
  <2>1. \A q \in Request : before'[q] \subseteq Served'
    BY <1>1, <1>5 DEF RetryInv, Retained
  <2>2. \A q \in succeeded' : stage'[q] \in {"save", "done", "dead"}
    BY <1>1, <1>2, <1>3 DEF RetryInv, Retained, TypeOK
  <2> QED BY <1>6, <2>1, <2>2 DEF Retained
<1>8. SafeRetry'
  <2> SUFFICES ASSUME NEW q \in Request, NEW e \in before'[q],
                      stage'[q] \in {"run", "save"} \/ q \in succeeded',
                      KeyOf[q] = KeyOf[e], KeyOf[q] # NoKey
               PROVE  e \in lapsed' \/ q \in blind'
    BY DEF SafeRetry
  <2>1. CASE q = r
    <3>1. stage'[r] = "run" /\ e \in Served /\ KeyOf[e] \in Key
      BY <1>1, <1>2, <1>4, <2>1 DEF RetryInv, Retained
    <3> QED BY <1>1, <1>4, <2>1, <3>1 DEF RetryInv, Retained
  <2>2. CASE q # r
    BY <1>1, <1>3, <2>2 DEF RetryInv, SafeRetry
  <2> QED BY <2>1, <2>2
<1> QED BY <1>7, <1>8 DEF RetryInv

\* From the handler on: r has passed the look-up, and what it came after does not change.
LEMMA RetryRun ==
    ASSUME TypeOK, RetryInv, NEW r \in Request,
           Succeed(r) \/ Fail(r) \/ Save(r) \/ SaveFails(r) \/ Crash(r)
    PROVE  RetryInv'
<1>1. UNCHANGED <<before, blind>> /\ lapsed \subseteq lapsed'
  BY DEF Succeed, Fail, Save, SaveFails, Crash, replayVars
<1>2. /\ \A q \in Request \ {r} : stage'[q] = stage[q]
      /\ stage'[r] \in {"done", "save", "failed", "dead"}
      /\ stage[r] \in {"first", "lookup", "run", "save"}
  BY DEF Succeed, Fail, Save, SaveFails, Crash, Goto, TypeOK, InFlight
<1>3. \/ succeeded' = succeeded
      \/ /\ succeeded' = succeeded \cup {r} /\ stage[r] = "run"
         /\ stage'[r] \in {"save", "done", "dead"}
  BY DEF Succeed, Fail, Save, SaveFails, Crash, Goto, TypeOK, replayVars
<1>4. \/ stage'[r] # "done" /\ record' = record
      \/ KeyOf[r] = NoKey /\ record' = record
      \/ record' = record /\ r \in lapsed'
      \/ record' = [record EXCEPT ![KeyOf[r]] = r]
  BY DEF Succeed, Fail, Save, SaveFails, Crash, Goto, TypeOK, replayVars
<1>5. Served \subseteq Served' /\ Served' \subseteq Served \cup {r}
  BY <1>2 DEF Served
<1>6. ASSUME NEW e \in Served', KeyOf[e] \in Key
      PROVE  e \in lapsed' \/ record'[KeyOf[e]] # NoRequest
  <2>0. NoKey \notin Key /\ r # NoRequest
    BY GuardConstants DEF GuardConstants
  <2>1. CASE record' = [record EXCEPT ![KeyOf[r]] = r]
    <3>1. CASE KeyOf[e] = KeyOf[r]
      BY <1>6, <2>0, <2>1, <3>1 DEF TypeOK
    <3>2. CASE KeyOf[e] # KeyOf[r]
      <4>1. e \in Served /\ record'[KeyOf[e]] = record[KeyOf[e]]
        BY <1>5, <1>6, <2>1, <3>2 DEF TypeOK
      <4> QED BY <1>1, <1>6, <4>1 DEF RetryInv, Retained
    <3> QED BY <3>1, <3>2
  <2>2. CASE record' = record
    <3>1. CASE e \in Served
      BY <1>1, <1>6, <2>2, <3>1 DEF RetryInv, Retained
    <3>2. CASE e \notin Served
      <4>1. e = r /\ stage'[r] = "done"
        BY <1>5, <1>6, <3>2 DEF Served
      <4> QED BY <1>4, <1>6, <2>0, <2>1, <4>1
    <3> QED BY <3>1, <3>2
  <2> QED BY <1>4, <2>1, <2>2
<1>7. \A q \in succeeded' : stage'[q] \in {"save", "done", "dead"}
  <2> SUFFICES ASSUME NEW q \in succeeded' PROVE stage'[q] \in {"save", "done", "dead"}
    OBVIOUS
  <2>1. CASE q # r
    BY <1>2, <1>3, <2>1 DEF RetryInv, Retained, TypeOK
  <2>2. CASE q = r /\ succeeded' = succeeded
    <3>1. stage[r] = "save"
      BY <1>2, <2>2 DEF RetryInv, Retained
    <3>2. stage'[r] \in {"done", "dead"}
      BY <3>1 DEF Succeed, Fail, Save, SaveFails, Crash, Goto, TypeOK
    <3> QED BY <2>2, <3>2
  <2> QED BY <1>3, <2>1, <2>2
<1>8. SafeRetry'
  <2> SUFFICES ASSUME NEW q \in Request, NEW e \in before'[q],
                      stage'[q] \in {"run", "save"} \/ q \in succeeded',
                      KeyOf[q] = KeyOf[e], KeyOf[q] # NoKey
               PROVE  e \in lapsed' \/ q \in blind'
    BY DEF SafeRetry
  <2>1. stage[q] \in {"run", "save"} \/ q \in succeeded
    <3>1. CASE q # r
      BY <1>2, <1>3, <3>1
    <3>2. CASE q = r
      <4>1. stage'[r] = "save" => stage[r] = "run"
        BY DEF Succeed, Fail, Save, SaveFails, Crash, Goto, TypeOK
      <4> QED BY <1>2, <1>3, <3>2, <4>1
    <3> QED BY <3>1, <3>2
  <2> QED BY <1>1, <2>1 DEF RetryInv, SafeRetry
<1> QED BY <1>1, <1>5, <1>6, <1>7, <1>8 DEF RetryInv, Retained

LEMMA RetryKept == TypeOK /\ RetryInv /\ [Next]_vars => RetryInv'
<1> SUFFICES ASSUME TypeOK, RetryInv, [Next]_vars PROVE RetryInv'
  OBVIOUS
<1>1. ASSUME NEW r \in Request, LimitStep(r) \/ ReplayStep(r) \/ Crash(r)
      PROVE  RetryInv'
  BY <1>1, RetryLimit, RetryLookup, RetryRun DEF ReplayStep
<1>2. ASSUME NEW c \in Client, WindowPasses(c)
      PROVE  RetryInv'
  BY <1>2 DEF WindowPasses, replayVars, RetryInv, Retained, SafeRetry, Served
<1>3. ASSUME NEW k \in Key, RecordExpires(k)
      PROVE  RetryInv'
  <2>1. UNCHANGED <<stage, before, blind, succeeded>> /\ Served' = Served /\ lapsed \subseteq lapsed'
    BY <1>3 DEF RecordExpires, Served
  <2>2. ASSUME NEW e \in Served', KeyOf[e] \in Key
        PROVE  e \in lapsed' \/ record'[KeyOf[e]] # NoRequest
    <3>1. CASE KeyOf[e] = k
      BY <1>3, <2>1, <2>2, <3>1 DEF RecordExpires
    <3>2. CASE KeyOf[e] # k
      BY <1>3, <2>1, <2>2, <3>2 DEF RecordExpires, RetryInv, Retained, TypeOK
    <3> QED BY <3>1, <3>2
  <2> QED BY <2>1, <2>2 DEF RetryInv, Retained, SafeRetry
<1>4. CASE UNCHANGED vars
  BY <1>4 DEF vars, replayVars, RetryInv, Retained, SafeRetry, Served
<1> QED BY <1>1, <1>2, <1>3, <1>4 DEF Next

\* A retry after a success that the client has seen does not execute again, as
\* long as Redis has kept the response and can be read (Idempotency).
THEOREM SafeRetryTheorem == Spec => []SafeRetry
<1>1. Init => RetryInv
  BY DEF Init, RetryInv, Retained, SafeRetry, Served
<1>2. RetryInv => SafeRetry
  BY DEF RetryInv
<1> QED BY <1>1, <1>2, RetryKept, TypeCorrect, PTL DEF Spec

-----------------------------------------------------------------------------

\* The numbers that INCR has given to the requests of a window.
Numbered ==
    /\ \A r \in Request : stage[r] = "first" => seen[r] = 1
    /\ \A c \in Client : \A r \in window[c] :
        /\ ClientOf[r] = c
        /\ stage[r] # "new"
        /\ seen[r] \in 1..count[c]
        /\ stage[r] # "refused" => seen[r] <= Limit
        /\ \A q \in window[c] : seen[q] = seen[r] => q = r

LimitInv == Numbered /\ WindowCloses

\* A request that INCR has counted.
LEMMA LimitCounted ==
    ASSUME TypeOK, LimitInv, NEW r \in Request, NEW tries \in {1, 2},
           stage[r] = "new", Incr(r, tries),
           NEW s \in Stage, Goto(r, s),
           s = "first" => count[ClientOf[r]] + tries = 1,
           s \notin {"new", "refused"} => count[ClientOf[r]] + tries <= Limit,
           s # "new",
           lost \subseteq lost', UNCHANGED ttl,
           count[ClientOf[r]] = 0 => s = "first" \/ ClientOf[r] \in lost'
    PROVE  LimitInv'
<1> DEFINE c == ClientOf[r]
           n == count[c] + tries
<1>0. c \in Client /\ count[c] \in Nat /\ n \in Nat /\ n > count[c] /\ n >= 1
      /\ Limit \in Nat
  BY Constants DEF TypeOK
<1>1. /\ count' = [count EXCEPT ![c] = n] /\ seen' = [seen EXCEPT ![r] = n]
      /\ window' = [window EXCEPT ![c] = @ \cup {r}]
      /\ stage' = [stage EXCEPT ![r] = s]
  BY <1>0 DEF Incr, Goto, TypeOK
<1>2. /\ count'[c] = n /\ seen'[r] = n /\ stage'[r] = s
      /\ window'[c] = window[c] \cup {r}
      /\ \A d \in Client \ {c} : count'[d] = count[d] /\ window'[d] = window[d]
      /\ \A q \in Request \ {r} : seen'[q] = seen[q] /\ stage'[q] = stage[q]
  BY <1>0, <1>1 DEF TypeOK
<1>3. \A d \in Client : r \notin window[d] /\ window[d] \subseteq Request
  BY DEF LimitInv, Numbered, TypeOK
<1>4. \A q \in Request : stage'[q] = "first" => seen'[q] = 1
  BY <1>2 DEF LimitInv, Numbered
<1>5. ASSUME NEW d \in Client, NEW q \in window'[d]
      PROVE  /\ ClientOf[q] = d /\ stage'[q] # "new" /\ seen'[q] \in 1..count'[d]
             /\ stage'[q] # "refused" => seen'[q] <= Limit
             /\ \A p \in window'[d] : seen'[p] = seen'[q] => p = q
  <2> HIDE DEF n, c
  <2>1. CASE d # c
    <3>1. q \in window[d] /\ q # r /\ window'[d] = window[d] /\ q \in Request
          /\ count'[d] = count[d] /\ seen'[q] = seen[q] /\ stage'[q] = stage[q]
      BY <1>2, <1>3, <1>5, <2>1
    <3>2. \A p \in window[d] : seen'[p] = seen[p]
      BY <1>2, <1>3
    <3> QED BY <3>1, <3>2 DEF LimitInv, Numbered
  <2>2. CASE d = c
    <3>1. \A p \in window[c] : seen'[p] = seen[p] /\ stage'[p] = stage[p] /\ p # r
                               /\ seen[p] \in 1..count[c] /\ seen[p] # n
      BY <1>0, <1>2, <1>3 DEF LimitInv, Numbered
    <3>2. CASE q = r
      <4>1. ClientOf[q] = d
        BY <2>2, <3>2 DEF c
      <4>2. s # "refused" => n <= Limit
        BY DEF n, c
      <4>3. n \in 1..n
        BY <1>0
      <4> QED BY <1>2, <2>2, <3>1, <3>2, <4>1, <4>2, <4>3
    <3>3. CASE q # r
      <4>1. q \in window[c]
        BY <1>2, <1>5, <2>2, <3>3
      <4>2. seen[q] \in 1..count[c] /\ ClientOf[q] = c /\ stage[q] # "new"
            /\ (stage[q] # "refused" => seen[q] <= Limit)
            /\ \A p \in window[c] : seen[p] = seen[q] => p = q
        BY <1>0, <4>1 DEF LimitInv, Numbered
      <4>3. seen[q] \in 1..n
        BY <1>0, <4>2
      <4> QED BY <1>2, <2>2, <3>1, <4>1, <4>2, <4>3
    <3> QED BY <3>2, <3>3
  <2> QED BY <2>1, <2>2
<1>6. ASSUME NEW d \in Client \ lost', count'[d] > 0
      PROVE  ttl'[d] \/ \E q \in window'[d] : stage'[q] = "first"
  <2>1. CASE d = c /\ count[c] = 0
    <3>1. s = "first"
      BY <1>6, <2>1
    <3> QED BY <1>2, <2>1, <3>1
  <2>2. CASE ~(d = c /\ count[c] = 0)
    <3>1. count[d] > 0 /\ d \notin lost
      BY <1>0, <1>2, <1>6, <2>2
    <3>2. ttl[d] \/ \E q \in window[d] : stage[q] = "first"
      BY <3>1 DEF LimitInv, WindowCloses
    <3>3. \A q \in window[d] : stage'[q] = stage[q] /\ q \in window'[d]
      BY <1>2, <1>3
    <3> QED BY <3>2, <3>3
  <2> QED BY <2>1, <2>2
<1>7. Numbered'
  BY <1>4, <1>5 DEF Numbered
<1>8. WindowCloses'
  BY <1>6 DEF WindowCloses
<1> QED BY <1>7, <1>8 DEF LimitInv

\* A request whose INCR failed is in no window; its count may be.
LEMMA LimitUncounted ==
    ASSUME TypeOK, LimitInv, NEW r \in Request, IncrFails(r)
    PROVE  LimitInv'
<1> DEFINE c == ClientOf[r]
<1>0. c \in Client /\ count[c] \in Nat
  BY Constants DEF TypeOK
<1>1. UNCHANGED <<ttl, seen, window>> /\ lost \subseteq lost' /\ stage[r] = "new"
  BY DEF IncrFails, Enter
<1>2. /\ \A q \in Request \ {r} : stage'[q] = stage[q]
      /\ stage'[r] \in {"run", "lookup"}
  <2>1. Through(r) \in {"run", "lookup"}
    BY DEF Through
  <2> QED BY <2>1 DEF IncrFails, Goto, TypeOK
<1>3. \A d \in Client : count'[d] \in Nat /\ count'[d] >= count[d]
      /\ (count'[d] > 0 => count[d] > 0 \/ d \in lost')
  BY <1>0 DEF IncrFails, TypeOK
<1>4. \A d \in Client : r \notin window[d] /\ window[d] \subseteq Request
  BY <1>1 DEF LimitInv, Numbered, TypeOK
<1>5. \A d \in Client : \A q \in window[d] : stage'[q] = stage[q]
  BY <1>2, <1>4
<1>6. \A d \in Client : \A q \in window[d] : seen[q] \in 1..count'[d]
  <2> SUFFICES ASSUME NEW d \in Client, NEW q \in window[d] PROVE seen[q] \in 1..count'[d]
    OBVIOUS
  <2>1. seen[q] \in 1..count[d] /\ count[d] \in Nat
    BY DEF LimitInv, Numbered, TypeOK
  <2> QED BY <1>3, <2>1
<1>7. Numbered'
  <2>1. \A q \in Request : stage'[q] = "first" => seen'[q] = 1
    BY <1>1, <1>2 DEF LimitInv, Numbered
  <2> QED BY <1>1, <1>5, <1>6, <2>1 DEF LimitInv, Numbered
<1>8. WindowCloses'
  BY <1>1, <1>3, <1>5 DEF LimitInv, WindowCloses
<1> QED BY <1>7, <1>8 DEF LimitInv

\* A request that has been counted goes on.
LEMMA LimitPassed ==
    ASSUME TypeOK, LimitInv, NEW r \in Request, NEW s \in Stage \ {"new", "first"},
           stage[r] \in InFlight, Goto(r, s),
           UNCHANGED <<count, seen, window>>, lost \subseteq lost',
           \A d \in Client : ttl[d] => ttl'[d],
           stage[r] = "first" => ttl'[ClientOf[r]] \/ ClientOf[r] \in lost'
    PROVE  LimitInv'
<1>1. stage'[r] = s /\ \A q \in Request \ {r} : stage'[q] = stage[q]
  BY DEF Goto, TypeOK
<1>2. \A d \in Client : window[d] \subseteq Request
  BY DEF TypeOK
<1>3. Numbered'
  <2>1. \A q \in Request : stage'[q] = "first" => seen'[q] = 1
    BY <1>1 DEF LimitInv, Numbered
  <2>2. ASSUME NEW d \in Client, NEW q \in window'[d]
        PROVE  /\ ClientOf[q] = d /\ stage'[q] # "new" /\ seen'[q] \in 1..count'[d]
               /\ stage'[q] # "refused" => seen'[q] <= Limit
               /\ \A p \in window'[d] : seen'[p] = seen'[q] => p = q
    <3>1. /\ q \in window[d] /\ seen[q] \in 1..count[d] /\ ClientOf[q] = d
          /\ stage[q] # "new" /\ (stage[q] # "refused" => seen[q] <= Limit)
          /\ \A p \in window[d] : seen[p] = seen[q] => p = q
      BY <2>2 DEF LimitInv, Numbered
    <3>2. stage'[q] # "new" /\ (stage'[q] # "refused" => stage[q] # "refused")
      BY <1>1, <1>2, <3>1 DEF InFlight
    <3> QED BY <3>1, <3>2
  <2> QED BY <2>1, <2>2 DEF Numbered
<1>4. WindowCloses'
  <2> SUFFICES ASSUME NEW d \in Client \ lost', count[d] > 0
               PROVE  ttl'[d] \/ \E q \in window[d] : stage'[q] = "first"
    BY DEF WindowCloses
  <2>1. ttl[d] \/ \E q \in window[d] : stage[q] = "first"
    BY DEF LimitInv, WindowCloses
  <2>2. CASE \E q \in window[d] : stage[q] = "first"
    <3>1. PICK q \in window[d] : stage[q] = "first"
      BY <2>2
    <3>2. CASE q = r
      <4>1. ClientOf[r] = d
        BY <3>1, <3>2 DEF LimitInv, Numbered
      <4> QED BY <3>1, <3>2, <4>1
    <3>3. CASE q # r
      BY <1>1, <1>2, <3>1, <3>3
    <3> QED BY <3>2, <3>3
  <2> QED BY <2>1, <2>2
<1> QED BY <1>3, <1>4 DEF LimitInv

LEMMA LimitKept == TypeOK /\ LimitInv /\ [Next]_vars => LimitInv'
<1> SUFFICES ASSUME TypeOK, LimitInv, [Next]_vars PROVE LimitInv'
  OBVIOUS
<1>0. \A r \in Request : ClientOf[r] \in Client /\ count[ClientOf[r]] \in Nat /\ seen[r] \in Nat
  BY Constants DEF TypeOK
<1>1. ASSUME NEW r \in Request, Arrive(r) \/ IncrRetried(r)
      PROVE  LimitInv'
  <2> DEFINE c == ClientOf[r]
  <2>1. PICK tries \in {1, 2} :
            /\ stage[r] = "new" /\ Incr(r, tries) /\ UNCHANGED ttl /\ lost \subseteq lost'
            /\ \/ /\ Goto(r, "first") /\ count[c] + tries = 1
               \/ /\ Goto(r, Admission(r, count[c] + tries))
                  /\ count[c] = 0 => c \in lost'
    BY <1>0, <1>1 DEF Arrive, IncrRetried, Enter
  <2>2. CASE Goto(r, "first") /\ count[c] + tries = 1
    <3>1. 1 <= Limit /\ "first" \in Stage
      BY Constants DEF Stage, InFlight
    <3> QED BY <2>1, <2>2, <3>1, LimitCounted
  <2>3. CASE Goto(r, Admission(r, count[c] + tries)) /\ (count[c] = 0 => c \in lost')
    <3> DEFINE s == Admission(r, count[c] + tries)
    <3>1. count[c] + tries \in Nat
      BY <1>0
    <3>2. s \in {"refused", "run", "lookup"} /\ (s # "refused" => count[c] + tries <= Limit)
      BY <3>1, Admitted
    <3>3. s \in Stage /\ s # "first" /\ s # "new"
      BY <3>2 DEF Stage, InFlight
    <3> HIDE DEF s
    <3>4. Goto(r, s)
      BY <2>3 DEF s
    <3> QED BY <2>1, <2>3, <3>2, <3>3, <3>4, LimitCounted
  <2> QED BY <2>1, <2>2, <2>3
<1>2. ASSUME NEW r \in Request, SetExpire(r) \/ ExpireFails(r)
      PROVE  LimitInv'
  <2> DEFINE s == Admission(r, seen[r])
  <2>1. s \in Stage \ {"new", "first"} /\ Goto(r, s)
    <3>1. s \in {"refused", "run", "lookup"}
      BY <1>0, Admitted
    <3> QED BY <1>2, <3>1 DEF SetExpire, ExpireFails, Stage, InFlight
  <2>2. /\ stage[r] \in InFlight /\ UNCHANGED <<count, seen, window>> /\ lost \subseteq lost'
        /\ \A d \in Client : ttl[d] => ttl'[d]
        /\ ttl'[ClientOf[r]] \/ ClientOf[r] \in lost'
    BY <1>0, <1>2 DEF SetExpire, ExpireFails, InFlight, TypeOK
  <2> HIDE DEF s
  <2> QED BY <2>1, <2>2, LimitPassed
<1>3. ASSUME NEW r \in Request, ReplayStep(r) \/ Crash(r)
      PROVE  LimitInv'
  <2>1. PICK s \in {"run", "save", "done", "failed", "dead"} : Goto(r, s)
    BY <1>3 DEF ReplayStep, Lookup, LookupFails, Succeed, Fail, Save, SaveFails, Crash
  <2>2. /\ stage[r] \in InFlight /\ UNCHANGED <<count, ttl, seen, window>> /\ lost \subseteq lost'
        /\ stage[r] = "first" => ClientOf[r] \in lost'
    BY <1>3 DEF ReplayStep, Lookup, LookupFails, Succeed, Fail, Save, SaveFails, Crash,
                InFlight, limitVars
  <2>3. s \in Stage \ {"new", "first"}
    BY <2>1 DEF Stage, InFlight
  <2> QED BY <2>1, <2>2, <2>3, LimitPassed
<1>4. ASSUME NEW c \in Client, WindowPasses(c)
      PROVE  LimitInv'
  <2>1. /\ UNCHANGED <<seen, lost, stage>>
        /\ count'[c] = 0 /\ window'[c] = {}
        /\ \A d \in Client \ {c} : count'[d] = count[d] /\ window'[d] = window[d] /\ ttl'[d] = ttl[d]
    BY <1>4 DEF WindowPasses, TypeOK
  <2>2. Numbered'
    BY <2>1 DEF LimitInv, Numbered
  <2>3. WindowCloses'
    BY <2>1 DEF LimitInv, WindowCloses
  <2> QED BY <2>2, <2>3 DEF LimitInv
<1>5. CASE (\E k \in Key : RecordExpires(k)) \/ UNCHANGED vars
  <2>1. UNCHANGED <<limitVars, stage>>
    BY <1>5 DEF RecordExpires, vars
  <2> QED BY <2>1 DEF limitVars, LimitInv, Numbered, WindowCloses
<1> QED BY <1>1, <1>2, <1>3, <1>4, <1>5, LimitUncounted DEF Next, LimitStep

LEMMA LimitInit == Init => LimitInv
<1> SUFFICES ASSUME Init PROVE LimitInv
  OBVIOUS
<1>1. Numbered
  BY DEF Init, Numbered
<1>2. WindowCloses
  BY DEF Init, WindowCloses
<1> QED BY <1>1, <1>2 DEF LimitInv

\* RateLimit leaves no counter without an end, except where an EXPIRE was lost.
THEOREM WindowClosesTheorem == Spec => []WindowCloses
<1>1. LimitInv => WindowCloses
  BY DEF LimitInv
<1> QED BY <1>1, LimitInit, LimitKept, TypeCorrect, PTL DEF Spec

\* The numbers of the requests that got past the limit are different numbers
\* up to Limit, so there are no more of them.
LEMMA NumberedHolds == TypeOK /\ LimitInv => LimitHolds
<1> SUFFICES ASSUME TypeOK, LimitInv, NEW c \in Client
             PROVE  Cardinality({r \in window[c] : stage[r] \notin {"first", "refused"}}) <= Limit
  BY DEF LimitHolds
<1> DEFINE S == {r \in window[c] : stage[r] \notin {"first", "refused"}}
           f == [r \in S |-> seen[r]]
<1>1. Limit \in Nat /\ IsFiniteSet(1..Limit) /\ Cardinality(1..Limit) = Limit
  <2>1. Limit \in Nat
    BY GuardConstants DEF GuardConstants
  <2> QED BY <2>1, FS_Interval
<1>2. f \in Injection(S, 1..Limit)
  <2>1. \A r \in S : seen[r] \in 1..Limit
    <3> SUFFICES ASSUME NEW r \in S PROVE seen[r] \in 1..Limit
      OBVIOUS
    <3>1. seen[r] \in 1..count[c] /\ seen[r] <= Limit /\ count[c] \in Nat
      BY DEF LimitInv, Numbered, TypeOK
    <3> QED BY <1>1, <3>1
  <2>2. \A r, q \in S : f[r] = f[q] => r = q
    BY DEF LimitInv, Numbered
  <2>3. f \in [S -> 1..Limit]
    BY <2>1
  <2> QED BY <2>2, <2>3 DEF Injection, IsInjective
<1> HIDE DEF f, S
<1>3. IsFiniteSet(S) /\ Cardinality(S) <= Cardinality(1..Limit)
  BY <1>1, <1>2, FS_Injection
<1> QED BY <1>1, <1>3 DEF S

\* No more than Limit requests of a window get past RateLimit.
THEOREM LimitHoldsTheorem == Spec => []LimitHolds
<1> QED BY LimitInit, LimitKept, NumberedHolds, TypeCorrect, PTL DEF Spec
=============================================================================
