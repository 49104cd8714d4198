---------------------------- MODULE EventsProofs ----------------------------
(***************************************************************************)
(* Theorems about Events, for any processes, event types, handlers and     *)
(* events, either driver and every fault; and about the ring of the debug  *)
(* buffer, for any capacity and any log.                                   *)
(***************************************************************************)
EXTENDS Events, DebugBuffer, FiniteSetTheorems, TLAPS

\* The number of handlers of a type, and a handler by its place.
LEMMA Handlers ==
    ASSUME NEW t \in Topic
    PROVE  /\ Width(t) \in Nat \ {0}
           /\ \A i \in 1..Width(t) : HandlersOf[t][i] \in Handler
<1>1. HandlersOf[t] \in Seq(Handler) /\ HandlersOf[t] # <<>>
  BY EventsConstants DEF EventsConstants
<1> QED BY <1>1 DEF Width

LEMMA Topics == ASSUME NEW e \in Event PROVE TopicOf[e] \in Topic
  BY EventsConstants DEF EventsConstants

LEMMA CountedType ==
    ASSUME NEW n \in 0..MaxSeen
    PROVE  Counted(n) \in 0..MaxSeen /\ Counted(n) > 0 /\ Counted(n) >= n
  BY EventsConstants DEF EventsConstants, Counted

LEMMA InitTyped == Init => TypeOK
<1>1. \A t \in Topic : 0 <= Width(t)
  BY Handlers
<1>2. \A e \in Event : TopicOf[e] \in Topic
  BY Topics
<1>3. 0 \in 0..MaxSeen
  BY EventsConstants DEF EventsConstants
<1> QED BY <1>1, <1>2, <1>3 DEF Init, TypeOK

LEMMA WiringTyped ==
    ASSUME TypeOK, NEW p \in Process, NEW t \in Topic, Register(p, t) \/ Subscribe(p, t)
    PROVE  TypeOK'
<1>1. CASE Register(p, t)
  BY <1>1 DEF Register, TypeOK, deliveryVars
<1>2. CASE Subscribe(p, t)
  <2>1. wired' = [wired EXCEPT ![p][t] = @ + 1] /\ wired[p][t] < Width(t)
    BY <1>2 DEF Subscribe
  <2>2. wired' \in [Process -> [Topic -> Nat]]
    BY <2>1 DEF TypeOK
  <2>3. ASSUME NEW q \in Process, NEW s \in Topic
        PROVE  /\ wired'[q][s] <= Width(s) /\ wired'[q][s] >= wired[q][s]
               /\ wired[q][s] \in Nat
    <3>1. wired[q][s] \in Nat /\ wired[q][s] <= Width(s) /\ Width(s) \in Nat
      BY Handlers DEF TypeOK
    <3>2. CASE q = p /\ s = t
      <4>1. wired'[q][s] = wired[q][s] + 1 /\ wired[q][s] < Width(s)
        BY <2>1, <3>2 DEF TypeOK
      <4> QED BY <3>1, <4>1
    <3>3. CASE ~(q = p /\ s = t)
      <4>1. wired'[q][s] = wired[q][s]
        BY <2>1, <3>3 DEF TypeOK
      <4> QED BY <3>1, <4>1
    <3> QED BY <3>2, <3>3
  <2>4. /\ live' \in [Process -> SUBSET Topic] /\ durable' \subseteq Topic
        /\ \A q, s \in durable' : q = s
    <3>1. CASE live' = [live EXCEPT ![p] = @ \cup {t}] /\ durable' = {t}
      BY <3>1 DEF TypeOK
    <3>2. CASE UNCHANGED <<live, durable>>
      BY <3>2 DEF TypeOK
    <3> QED BY <1>2, <3>1, <3>2 DEF Subscribe
  <2>5. ASSUME NEW q \in Process, NEW e \in Event
        PROVE  last'[q][e] <= wired'[q][TopicOf[e]] /\ next'[q][e] <= last'[q][e] + 1
    <3>1. last' = last /\ next' = next
      BY <1>2 DEF Subscribe, deliveryVars
    <3>2. /\ last[q][e] \in Nat /\ last[q][e] <= wired[q][TopicOf[e]]
          /\ next[q][e] <= last[q][e] + 1
      BY DEF TypeOK
    <3>3. /\ wired[q][TopicOf[e]] \in Nat /\ wired'[q][TopicOf[e]] \in Nat
          /\ wired'[q][TopicOf[e]] >= wired[q][TopicOf[e]]
      BY <2>2, <2>3, Topics DEF TypeOK
    <3>4. last[q][e] <= wired'[q][TopicOf[e]]
      BY <3>2, <3>3
    <3> QED BY <3>1, <3>2, <3>4
  <2> QED BY <1>2, <2>2, <2>3, <2>4, <2>5 DEF Subscribe, deliveryVars, TypeOK
<1> QED BY <1>1, <1>2

LEMMA PublishTyped ==
    ASSUME TypeOK, NEW e \in Event,
           Commit(e) \/ Publish(e) \/ PublishFails(e) \/ AckWaitPasses(e)
    PROVE  TypeOK'
<1>1. CASE Commit(e) \/ PublishFails(e) \/ AckWaitPasses(e)
  BY <1>1 DEF Commit, PublishFails, AckWaitPasses, wiringVars, deliveryVars, TypeOK
<1>2. ASSUME NEW p \in Process, PublishInMemory(p, e) PROVE TypeOK'
  <2>1. wired[p][TopicOf[e]] \in Nat
    BY Topics DEF TypeOK
  <2>2. /\ next' \in [Process -> [Event -> Nat]] /\ last' \in [Process -> [Event -> Nat]]
        /\ \A q \in Process, f \in Event :
            last'[q][f] <= wired[q][TopicOf[f]] /\ next'[q][f] <= last'[q][f] + 1
    BY <1>2, <2>1, Topics DEF PublishInMemory, TypeOK
  <2> QED BY <1>2, <2>2 DEF PublishInMemory, wiringVars, TypeOK
<1>3. ASSUME NEW p \in Process, PublishToStream(p, e) PROVE TypeOK'
  BY <1>3 DEF PublishToStream, wiringVars, deliveryVars, TypeOK
<1> QED BY <1>1, <1>2, <1>3 DEF Publish

\* The end of a delivery.
LEMMA StopTyped ==
    ASSUME TypeOK, NEW p \in Process, NEW e \in Event, Stop(p, e), UNCHANGED wired
    PROVE  /\ next' \in [Process -> [Event -> Nat]] /\ last' \in [Process -> [Event -> Nat]]
           /\ \A q \in Process, f \in Event :
                last'[q][f] <= wired'[q][TopicOf[f]] /\ next'[q][f] <= last'[q][f] + 1
  BY Topics DEF Stop, TypeOK

LEMMA DeliveryTyped ==
    ASSUME TypeOK, NEW p \in Process, NEW e \in Event,
           \/ Deliver(p, e) \/ DeliverUnknown(p, e)
           \/ \E i \in 1..Width(TopicOf[e]) : Handle(p, e, i)
           \/ HandlerFails(p, e) \/ Finish(p, e) \/ AckLost(p, e)
    PROVE  TypeOK'
<1>1. CASE Deliver(p, e)
  <2>1. wired[p][TopicOf[e]] \in Nat
    BY Topics DEF TypeOK
  <2>2. /\ next' \in [Process -> [Event -> Nat]] /\ last' \in [Process -> [Event -> Nat]]
        /\ \A q \in Process, f \in Event :
            last'[q][f] <= wired[q][TopicOf[f]] /\ next'[q][f] <= last'[q][f] + 1
    BY <1>1, <2>1, Topics DEF Deliver, TypeOK
  <2> QED BY <1>1, <2>2 DEF Deliver, wiringVars, TypeOK
<1>2. CASE DeliverUnknown(p, e)
  BY <1>2 DEF DeliverUnknown, wiringVars, deliveryVars, TypeOK
<1>3. ASSUME NEW i \in 1..Width(TopicOf[e]), Handle(p, e, i) PROVE TypeOK'
  <2>1. HandlersOf[TopicOf[e]][i] \in Handler
    BY Handlers, Topics
  <2>2. done' \in [Event -> [Handler -> 0..MaxSeen]]
    BY <1>3, <2>1, CountedType DEF Handle, TypeOK
  <2>3. /\ next' \in [Process -> [Event -> Nat]]
        /\ \A q \in Process, f \in Event : next'[q][f] <= last[q][f] + 1
    BY <1>3 DEF Handle, TypeOK
  <2> QED BY <1>3, <2>2, <2>3 DEF Handle, wiringVars, TypeOK
<1>4. CASE HandlerFails(p, e) \/ AckLost(p, e)
  BY <1>4, StopTyped DEF HandlerFails, AckLost, wiringVars, TypeOK
<1>5. CASE Finish(p, e)
  <2>1. last[p][e] <= Width(TopicOf[e]) /\ last[p][e] \in Nat
    BY Topics, Handlers DEF TypeOK
  <2>2. served' \in [Event -> Nat] /\ \A f \in Event : served'[f] <= Width(TopicOf[f])
    BY <1>5, <2>1 DEF Finish, TypeOK
  <2> QED BY <1>5, <2>2, StopTyped DEF Finish, wiringVars, TypeOK
<1> QED BY <1>1, <1>2, <1>3, <1>4, <1>5

LEMMA CrashTyped == ASSUME TypeOK, NEW p \in Process, Crash(p) PROVE TypeOK'
<1>1. \A t \in Topic : 0 <= Width(t)
  BY Handlers
<1> QED BY <1>1, Topics DEF Crash, TypeOK

\* TypeOK holds in every state.
THEOREM TypeCorrect == Spec => []TypeOK
<1>1. TypeOK /\ [Next]_vars => TypeOK'
  <2> SUFFICES ASSUME TypeOK, [Next]_vars PROVE TypeOK'
    OBVIOUS
  <2>1. CASE Next
    BY <2>1, WiringTyped, PublishTyped, DeliveryTyped, CrashTyped DEF Next
  <2>2. CASE UNCHANGED vars
    BY <2>2 DEF vars, wiringVars, deliveryVars, TypeOK
  <2> QED BY <2>1, <2>2
<1> QED BY InitTyped, <1>1, PTL DEF Spec

-----------------------------------------------------------------------------
(* An acknowledged message has been served.                                *)

\* A delivery has been through the handlers before the next one.
Progress(p, e) == Handles(p, e) => Handled(e, next[p][e] - 1)

Served(e) == Handled(e, served[e])

AllServed ==
    /\ \A e \in Event : Served(e)
    /\ \A p \in Process, e \in Event : Progress(p, e)

\* No step takes a completion back.
Grows == \A e \in Event, h \in Handler : done'[e][h] >= done[e][h]

\* The driver is configuration.
LEMMA DriverStays == ASSUME [Next]_vars PROVE driver' = driver
  BY DEF Next, Register, Subscribe, Commit, Publish, PublishInMemory, PublishToStream,
         PublishFails, AckWaitPasses, Deliver, DeliverUnknown, Handle, HandlerFails,
         Finish, AckLost, Crash, wiringVars, vars

\* What has been handled stays so.
LEMMA HandledStays ==
    ASSUME TypeOK, TypeOK', [Next]_vars, Grows, NEW e \in Event, NEW n \in Nat, n <= Width(TopicOf[e]),
           Handled(e, n)
    PROVE  Handled(e, n)'
<1> SUFFICES ASSUME NEW i \in 1..n PROVE done'[e][HandlersOf[TopicOf[e]][i]] > 0
  BY DEF Handled
<1> DEFINE h == HandlersOf[TopicOf[e]][i]
<1>1. h \in Handler
  BY Handlers, Topics
<1>2. done[e][h] > 0
  BY DEF Handled
<1>3. done[e][h] \in Nat /\ done'[e][h] \in Nat /\ done'[e][h] >= done[e][h]
  BY <1>1, EventsConstants DEF EventsConstants, TypeOK, Grows
<1> QED BY <1>2, <1>3

LEMMA InitServed == Init => AllServed
  BY DEF Init, AllServed, Served, Progress, Handles, Handled

LEMMA ServedStays ==
    ASSUME TypeOK, TypeOK', [Next]_vars, Grows, NEW e \in Event, Served(e), served'[e] = served[e]
    PROVE  Served(e)'
<1>1. PICK n \in Nat : n = served[e] /\ n <= Width(TopicOf[e])
  BY DEF TypeOK
<1>2. Handled(e, n)'
  BY <1>1, HandledStays DEF Served
<1>3. n = served'[e]
  BY <1>1
<1> QED BY <1>2, <1>3 DEF Served

LEMMA ProgressStays ==
    ASSUME TypeOK, TypeOK', [Next]_vars, Grows, NEW p \in Process, NEW e \in Event, Progress(p, e),
           next'[p][e] \in {0, 1, next[p][e]}
    PROVE  Progress(p, e)'
<1>1. CASE next'[p][e] = 0
  BY <1>1 DEF Progress, Handles
<1>2. CASE next'[p][e] = 1
  BY <1>2 DEF Progress, Handled
<1>3. CASE next'[p][e] = next[p][e] /\ next[p][e] > 0
  <2>1. PICK n \in Nat : n = next[p][e] - 1 /\ n <= Width(TopicOf[e])
    <3>1. next[p][e] - 1 <= last[p][e] /\ next[p][e] - 1 \in Nat
      BY <1>3 DEF TypeOK
    <3>2. last[p][e] <= wired[p][TopicOf[e]] /\ wired[p][TopicOf[e]] <= Width(TopicOf[e])
      BY Topics DEF TypeOK
    <3> QED BY <3>1, <3>2, Topics, Handlers DEF TypeOK
  <2>2. Handled(e, n)'
    BY <1>3, <2>1, HandledStays DEF Progress, Handles
  <2>3. n = next'[p][e] - 1
    BY <1>3, <2>1
  <2> QED BY <2>2, <2>3 DEF Progress
<1> QED BY <1>1, <1>2, <1>3 DEF TypeOK

\* Every action keeps it.
LEMMA StepServed == ASSUME TypeOK, TypeOK', AllServed, [Next]_vars PROVE AllServed'
<1>1. \A e \in Event, h \in Handler : done[e][h] \in 0..MaxSeen
  BY DEF TypeOK
<1>2. ASSUME Grows, UNCHANGED served,
             \A p \in Process, e \in Event : next'[p][e] \in {0, 1, next[p][e]}
      PROVE  AllServed'
  BY <1>2, ServedStays, ProgressStays DEF AllServed
<1>3. ASSUME UNCHANGED done PROVE Grows
  BY <1>1, <1>3, EventsConstants DEF EventsConstants, Grows
<1>4. ASSUME NEW p \in Process, NEW t \in Topic, Register(p, t) \/ Subscribe(p, t)
      PROVE  AllServed'
  BY <1>2, <1>3, <1>4 DEF Register, Subscribe, deliveryVars
<1>5. ASSUME NEW e \in Event, Commit(e) \/ PublishFails(e) \/ AckWaitPasses(e)
      PROVE  AllServed'
  BY <1>2, <1>3, <1>5 DEF Commit, PublishFails, AckWaitPasses, deliveryVars
<1>6. ASSUME NEW p \in Process, NEW e \in Event, PublishInMemory(p, e) \/ Deliver(p, e)
      PROVE  AllServed'
  <2>1. next' = [next EXCEPT ![p][e] = 1] /\ UNCHANGED <<done, served>>
    BY <1>6 DEF PublishInMemory, Deliver
  <2>2. \A q \in Process, f \in Event : next'[q][f] \in {0, 1, next[q][f]}
    BY <2>1 DEF TypeOK
  <2> QED BY <1>2, <1>3, <2>1, <2>2
<1>7. ASSUME NEW p \in Process, NEW e \in Event, PublishToStream(p, e) \/ DeliverUnknown(p, e)
      PROVE  AllServed'
  BY <1>2, <1>3, <1>7 DEF PublishToStream, DeliverUnknown, deliveryVars
<1>8. ASSUME NEW p \in Process, NEW e \in Event, NEW i \in 1..Width(TopicOf[e]),
             Handle(p, e, i)
      PROVE  AllServed'
  <2> DEFINE h == HandlersOf[TopicOf[e]][i]
  <2>1. h \in Handler /\ i \in Nat
    BY Handlers, Topics
  <2>2. Grows
    <3> SUFFICES ASSUME NEW f \in Event, NEW k \in Handler PROVE done'[f][k] >= done[f][k]
      BY DEF Grows
    <3>1. done' = [done EXCEPT ![e][h] = Counted(@)]
      BY <1>8 DEF Handle
    <3>2. CASE f = e /\ k = h
      <4>1. done'[f][k] = Counted(done[f][k])
        BY <2>1, <3>1, <3>2 DEF TypeOK
      <4> QED BY <1>1, <4>1, CountedType
    <3>3. CASE ~(f = e /\ k = h)
      <4>1. done'[f][k] = done[f][k] /\ done[f][k] \in Nat
        BY <1>1, <2>1, <3>1, <3>3, EventsConstants DEF EventsConstants, TypeOK
      <4> QED BY <4>1
    <3> QED BY <3>2, <3>3
  <2>3. ASSUME NEW f \in Event PROVE Served(f)'
    BY <1>8, <2>2, ServedStays DEF Handle, AllServed
  <2>4. ASSUME NEW q \in Process, NEW f \in Event PROVE Progress(q, f)'
    <3>1. CASE q # p \/ f # e
      BY <1>8, <2>2, <3>1, ProgressStays DEF Handle, AllServed, TypeOK
    <3>2. CASE q = p /\ f = e
      <4>1. next[p][e] = i /\ next'[p][e] = i + 1 /\ i - 1 \in Nat /\ i - 1 <= Width(TopicOf[e])
        BY <1>8, Handlers, Topics DEF Handle, TypeOK
      <4>2. Handled(e, i - 1)
        BY <4>1 DEF AllServed, Progress, Handles
      <4>3. Handled(e, i - 1)'
        BY <2>2, <4>1, <4>2, HandledStays
      <4>4. done'[e][h] > 0
        BY <1>8, <2>1, CountedType DEF Handle, TypeOK
      <4>5. Handled(e, i)'
        BY <4>1, <4>3, <4>4 DEF Handled
      <4>6. i = next'[p][e] - 1
        BY <4>1
      <4> QED BY <3>2, <4>5, <4>6 DEF Progress
    <3> QED BY <3>1, <3>2
  <2> QED BY <2>3, <2>4 DEF AllServed
<1>9. ASSUME NEW p \in Process, NEW e \in Event, HandlerFails(p, e) \/ AckLost(p, e)
      PROVE  AllServed'
  <2>1. next' = [next EXCEPT ![p][e] = 0] /\ UNCHANGED <<done, served>>
    BY <1>9 DEF HandlerFails, AckLost, Stop
  <2>2. \A q \in Process, f \in Event : next'[q][f] \in {0, 1, next[q][f]}
    BY <2>1 DEF TypeOK
  <2> QED BY <1>2, <1>3, <2>1, <2>2
<1>10. ASSUME NEW p \in Process, NEW e \in Event, Finish(p, e) PROVE AllServed'
  <2>1. Grows
    BY <1>3, <1>10 DEF Finish
  <2>2. ASSUME NEW q \in Process, NEW f \in Event PROVE Progress(q, f)'
    BY <1>10, <2>1, ProgressStays DEF Finish, Stop, AllServed, TypeOK
  <2>3. ASSUME NEW f \in Event PROVE Served(f)'
    <3>1. CASE served'[f] = served[f]
      BY <2>1, <3>1, ServedStays DEF AllServed
    <3>2. CASE f = e /\ served'[e] = last[p][e]
      <4> DEFINE t == TopicOf[e]
      <4>a. last[p][e] \in Nat /\ last[p][e] <= wired[p][t] /\ wired[p][t] <= Width(t)
        BY Topics DEF TypeOK
      <4>b. wired[p][t] \in Nat /\ Width(t) \in Nat
        BY Topics, Handlers DEF TypeOK
      <4>1. PICK n \in Nat : n = last[p][e] /\ n <= Width(TopicOf[e])
        BY <4>a, <4>b
      <4>2. next[p][e] - 1 = n /\ Handles(p, e)
        BY <1>10, <4>1 DEF Finish, Handles, TypeOK
      <4>3. Handled(e, n)
        BY <4>2 DEF AllServed, Progress
      <4>4. Handled(e, n)'
        BY <2>1, <4>1, <4>3, HandledStays
      <4>5. n = served'[f]
        BY <3>2, <4>1
      <4> QED BY <3>2, <4>4, <4>5 DEF Served
    <3>3. CASE f # e
      BY <1>10, <2>1, <3>3, ServedStays DEF Finish, AllServed, TypeOK
    <3> QED BY <1>10, <3>1, <3>2, <3>3 DEF Finish, TypeOK
  <2> QED BY <2>2, <2>3 DEF AllServed
<1>11. ASSUME NEW p \in Process, Crash(p) PROVE AllServed'
  BY <1>2, <1>3, <1>11 DEF Crash, TypeOK
<1>12. CASE UNCHANGED vars
  BY <1>2, <1>3, <1>12 DEF vars, deliveryVars
<1> QED BY <1>4, <1>5, <1>6, <1>7, <1>8, <1>9, <1>10, <1>11, <1>12 DEF Next, Publish

\* An acknowledged message has been through every handler its delivery found
\* (AckedMeansServed).
THEOREM AckedMeansServedTheorem == Spec => []AckedMeansServed
<1>1. AllServed => AckedMeansServed
  BY DEF AllServed, Served, AckedMeansServed
<1> QED BY InitServed, StepServed, TypeCorrect, <1>1, PTL DEF Spec

-----------------------------------------------------------------------------
(* One worker at a time.                                                   *)

\* Who handles an event has it from the stream, which waits, or from its publisher,
\* which is past that.
Sole ==
    /\ OneWorkerPerMessage
    /\ \A p \in Process, e \in Event :
        Handles(p, e) => /\ driver = "nats" => out[e]
                         /\ driver = "memory" => pub[e] = "published"
    /\ driver = "memory" => \A e \in Event : msg[e] = "none"

\* Every action keeps it, as long as AckWait outlasts a worker.
LEMMA StepSole ==
    ASSUME "slow" \notin Faults, TypeOK, Sole, [Next]_vars
    PROVE  Sole'
<1> USE DEF Sole, OneWorkerPerMessage, Handles
<1>0. driver \in {"memory", "nats"} /\ driver' = driver
  BY DriverStays, EventsConstants DEF EventsConstants, TypeOK
<1>1. ASSUME UNCHANGED <<next, out, pub, msg>> PROVE Sole'
  BY <1>0, <1>1
<1>2. ASSUME NEW p \in Process, NEW t \in Topic, Register(p, t) \/ Subscribe(p, t) PROVE Sole'
  BY <1>1, <1>2 DEF Register, Subscribe, deliveryVars
<1>3. ASSUME NEW e \in Event, Commit(e) \/ PublishFails(e) PROVE Sole'
  BY <1>0, <1>3 DEF Commit, PublishFails, deliveryVars, TypeOK
<1>4. ASSUME NEW e \in Event, AckWaitPasses(e) PROVE Sole'
  BY <1>0, <1>4 DEF AckWaitPasses, deliveryVars, TypeOK
<1>5. ASSUME NEW p \in Process, NEW e \in Event, PublishInMemory(p, e) PROVE Sole'
  <2>1. ASSUME NEW q \in Process PROVE next[q][e] = 0
    <3>1. driver = "memory" /\ pub[e] # "published"
      BY <1>5 DEF PublishInMemory
    <3>2. ~Handles(q, e)
      BY <3>1
    <3>3. next[q][e] \in Nat
      BY DEF TypeOK
    <3> QED BY <3>2, <3>3
  <2> QED BY <1>0, <1>5, <2>1 DEF PublishInMemory, TypeOK
<1>6. ASSUME NEW p \in Process, NEW e \in Event, PublishToStream(p, e) PROVE Sole'
  BY <1>0, <1>6 DEF PublishToStream, deliveryVars, TypeOK
<1>7. ASSUME NEW p \in Process, NEW e \in Event, Deliver(p, e) PROVE Sole'
  <2>1. driver = "nats" /\ \A q \in Process : next[q][e] = 0
    BY <1>0, <1>7 DEF Deliver, Deliverable, TypeOK
  <2> QED BY <1>0, <1>7, <2>1 DEF Deliver, TypeOK
<1>8. ASSUME NEW p \in Process, NEW e \in Event, DeliverUnknown(p, e) PROVE Sole'
  <2>1. driver = "nats"
    BY <1>0, <1>8 DEF DeliverUnknown, Deliverable
  <2> QED BY <1>0, <1>8, <2>1 DEF DeliverUnknown, deliveryVars
<1>9. ASSUME NEW p \in Process, NEW e \in Event, NEW i \in 1..Width(TopicOf[e]), Handle(p, e, i)
      PROVE  Sole'
  <2>1. /\ next[p][e] > 0 /\ UNCHANGED <<out, pub, msg>>
        /\ next' = [next EXCEPT ![p][e] = i + 1]
    BY <1>9 DEF Handle
  <2>2. \A q \in Process, f \in Event : next'[q][f] > 0 => next[q][f] > 0
    BY <2>1 DEF TypeOK
  <2> QED BY <1>0, <2>1, <2>2
<1>10. ASSUME NEW p \in Process, NEW e \in Event, HandlerFails(p, e) \/ Finish(p, e) \/ AckLost(p, e)
       PROVE  Sole'
  <2>1. next' = [next EXCEPT ![p][e] = 0] /\ next[p][e] > 0 /\ pub' = pub
    BY <1>10 DEF HandlerFails, Finish, AckLost, Stop
  <2>2. \A q \in Process, f \in Event : next'[q][f] > 0 => next[q][f] > 0 /\ f # e
    BY <2>1 DEF TypeOK
  <2>3. /\ \A f \in Event : f # e => out'[f] = out[f]
        /\ driver = "memory" => msg' = msg
    BY <1>10 DEF HandlerFails, Finish, AckLost, TypeOK
  <2> QED BY <1>0, <2>1, <2>2, <2>3
<1>11. ASSUME NEW p \in Process, Crash(p) PROVE Sole'
  <2>1. \A q \in Process, f \in Event : next'[q][f] > 0 => next[q][f] > 0
    BY <1>11 DEF Crash, TypeOK
  <2> QED BY <1>0, <1>11, <2>1 DEF Crash
<1>12. CASE UNCHANGED vars
  BY <1>1, <1>12 DEF vars, deliveryVars
<1> QED
  BY <1>2, <1>3, <1>4, <1>5, <1>6, <1>7, <1>8, <1>9, <1>10, <1>11, <1>12 DEF Next, Publish

\* While no handler takes longer than AckWait, a message is with one worker
\* (OneWorkerPerMessage): nak, crash and a lost acknowledgement do not double it.
THEOREM OneWorkerTheorem ==
  ASSUME "slow" \notin Faults
  PROVE  Spec => []OneWorkerPerMessage
<1>1. Init => Sole
  BY DEF Init, Sole, OneWorkerPerMessage, Handles
<1>2. TypeOK /\ Sole /\ [Next]_vars => Sole'
  BY StepSole
<1>3. Sole => OneWorkerPerMessage
  BY DEF Sole
<1> QED BY <1>1, <1>2, <1>3, TypeCorrect, PTL DEF Spec

-----------------------------------------------------------------------------
(* Every handler, not only those a delivery found.                          *)

\* A process that takes deliveries of a type has its only handler.
Whole ==
    /\ \A p \in Process, t \in Topic : t \in live[p] => wired[p][t] > 0
    /\ \A p \in Process, e \in Event : Handles(p, e) => last[p][e] = Width(TopicOf[e])
    /\ \A e \in Event : msg[e] = "acked" => served[e] = Width(TopicOf[e])

LEMMA StepWhole ==
    ASSUME \A t \in Topic : Width(t) = 1, TypeOK, Whole, [Next]_vars
    PROVE  Whole'
<1> USE DEF Whole, Handles
<1>0. \A e \in Event : TopicOf[e] \in Topic
  BY Topics
<1>1. ASSUME NEW p \in Process, NEW t \in Topic, Register(p, t) PROVE Whole'
  BY <1>1 DEF Register, deliveryVars, TypeOK
<1>2. ASSUME NEW p \in Process, NEW t \in Topic, Subscribe(p, t) PROVE Whole'
  <2>1. /\ wired' = [wired EXCEPT ![p][t] = @ + 1] /\ wired[p][t] \in Nat
        /\ UNCHANGED <<msg, next, last, served>>
    BY <1>2 DEF Subscribe, deliveryVars, TypeOK
  <2>2. \A q \in Process, s \in Topic : s \in live'[q] => s \in live[q] \/ (q = p /\ s = t)
    BY <1>2 DEF Subscribe, TypeOK
  <2>3. \A q \in Process, s \in Topic :
          wired'[q][s] = IF q = p /\ s = t THEN wired[q][s] + 1 ELSE wired[q][s]
    BY <2>1 DEF TypeOK
  <2> QED BY <2>1, <2>2, <2>3
<1>3. ASSUME NEW e \in Event, Commit(e) \/ PublishFails(e) \/ AckWaitPasses(e) PROVE Whole'
  BY <1>3 DEF Commit, PublishFails, AckWaitPasses, wiringVars, deliveryVars
<1>4. ASSUME NEW p \in Process, NEW e \in Event, PublishInMemory(p, e) \/ Deliver(p, e)
      PROVE  Whole'
  <2>1. /\ next' = [next EXCEPT ![p][e] = 1]
        /\ last' = [last EXCEPT ![p][e] = wired[p][TopicOf[e]]]
        /\ UNCHANGED <<wired, live, msg, served>>
    BY <1>4 DEF PublishInMemory, Deliver, wiringVars
  <2>2. wired[p][TopicOf[e]] = Width(TopicOf[e])
    <3>1. CASE PublishInMemory(p, e)
      BY <1>0, <3>1 DEF PublishInMemory, Ready
    <3>2. CASE Deliver(p, e)
      <4>1. wired[p][TopicOf[e]] > 0
        BY <1>0, <3>2 DEF Deliver, Deliverable
      <4>2. wired[p][TopicOf[e]] \in Nat /\ wired[p][TopicOf[e]] <= 1 /\ Width(TopicOf[e]) = 1
        BY <1>0 DEF TypeOK
      <4> QED BY <4>1, <4>2
    <3> QED BY <1>4, <3>1, <3>2
  <2>3. \A q \in Process, f \in Event : next'[q][f] > 0 => last'[q][f] = Width(TopicOf[f])
    BY <2>1, <2>2 DEF TypeOK
  <2> QED BY <2>1, <2>3
<1>5. ASSUME NEW p \in Process, NEW e \in Event, PublishToStream(p, e) PROVE Whole'
  BY <1>5 DEF PublishToStream, wiringVars, deliveryVars, TypeOK
<1>6. ASSUME NEW p \in Process, NEW e \in Event, DeliverUnknown(p, e) PROVE Whole'
  BY <1>6 DEF DeliverUnknown, wiringVars, deliveryVars, TypeOK
<1>7. ASSUME NEW p \in Process, NEW e \in Event, NEW i \in 1..Width(TopicOf[e]), Handle(p, e, i)
      PROVE  Whole'
  <2>1. /\ next[p][e] > 0 /\ next' = [next EXCEPT ![p][e] = i + 1]
        /\ UNCHANGED <<wired, live, msg, last, served>>
    BY <1>7 DEF Handle, wiringVars
  <2>2. \A q \in Process, f \in Event : next'[q][f] > 0 => next[q][f] > 0
    BY <2>1 DEF TypeOK
  <2> QED BY <2>1, <2>2
<1>8. ASSUME NEW p \in Process, NEW e \in Event, HandlerFails(p, e) \/ Finish(p, e) \/ AckLost(p, e)
      PROVE  Whole'
  <2>1. /\ next' = [next EXCEPT ![p][e] = 0] /\ last' = [last EXCEPT ![p][e] = 0]
        /\ UNCHANGED <<wired, live>> /\ last[p][e] = Width(TopicOf[e])
    BY <1>8 DEF HandlerFails, Finish, AckLost, Stop, wiringVars
  <2>2. \A q \in Process, f \in Event :
          next'[q][f] > 0 => next[q][f] > 0 /\ last'[q][f] = last[q][f]
    BY <2>1 DEF TypeOK
  <2>3. \A f \in Event : msg'[f] = "acked" => served'[f] = Width(TopicOf[f])
    BY <1>8, <2>1 DEF HandlerFails, Finish, AckLost, TypeOK
  <2> QED BY <2>1, <2>2, <2>3
<1>9. ASSUME NEW p \in Process, Crash(p) PROVE Whole'
  <2>1. \A q \in Process, f \in Event :
          next'[q][f] > 0 => next[q][f] > 0 /\ last'[q][f] = last[q][f]
    BY <1>9 DEF Crash, TypeOK
  <2>2. \A q \in Process, t \in Topic : t \in live'[q] => wired'[q][t] > 0
    BY <1>9 DEF Crash, TypeOK
  <2> QED BY <1>9, <2>1, <2>2 DEF Crash
<1>10. CASE UNCHANGED vars
  BY <1>10 DEF vars, wiringVars, deliveryVars
<1> QED BY <1>1, <1>2, <1>3, <1>4, <1>5, <1>6, <1>7, <1>8, <1>9, <1>10 DEF Next, Publish

\* Where a type has one handler, as in the program, an acknowledged event has been
\* handled (AckedMeansHandledUnlessUnread), whatever crashes, fails or is slow; a
\* second handler misses what is delivered before it subscribes.
THEOREM AckedMeansHandledTheorem ==
  ASSUME \A t \in Topic : Width(t) = 1
  PROVE  Spec => []AckedMeansHandledUnlessUnread
<1>1. Init => Whole
  BY DEF Init, Whole, Handles
<1>2. TypeOK /\ Whole /\ [Next]_vars => Whole'
  BY StepWhole
<1>3. Whole /\ AckedMeansServed => AckedMeansHandledUnlessUnread
  BY DEF Whole, AckedMeansServed, AckedMeansHandledUnlessUnread
<1> QED BY <1>1, <1>2, <1>3, TypeCorrect, AckedMeansServedTheorem, PTL DEF Spec

-----------------------------------------------------------------------------
(* What the stream keeps, and what it drops.                               *)

\* Of the type that has the consumer the stream keeps what is published until its
\* handler has returned nil, or until a starting process has read it too early; it
\* drops the events of every other type.
PublishedIsKept ==
    \A e \in Event : driver = "nats" /\ pub[e] = "published" =>
        IF TopicOf[e] \in durable
        THEN msg[e] \in {"stored", "unread"} \/ Handled(e, Width(TopicOf[e]))
        ELSE msg[e] = "dropped"

\* Once a process has subscribed there is a consumer, which keeps its subject; only
\* its messages are kept and delivered.
Taken ==
    driver = "nats" =>
        /\ \A p \in Process, t \in Topic : wired[p][t] > 0 => durable # {}
        /\ \A p \in Process, e \in Event :
              Handles(p, e) \/ msg[e] = "stored" => TopicOf[e] \in durable
        /\ \A e \in Event : pub[e] = "published" =>
            /\ durable # {}
            /\ IF TopicOf[e] \in durable THEN msg[e] \in {"stored", "acked", "unread"}
               ELSE msg[e] = "dropped"

\* A process at work on a delivery.
Delivers(p, e) ==
    \/ Deliver(p, e) \/ DeliverUnknown(p, e)
    \/ \E i \in 1..Width(TopicOf[e]) : Handle(p, e, i)
    \/ HandlerFails(p, e) \/ Finish(p, e) \/ AckLost(p, e)

LEMMA DeliveryTakes ==
    ASSUME TypeOK, NEW p \in Process, NEW e \in Event, Delivers(p, e)
    PROVE  /\ UNCHANGED <<driver, wired, durable, pub>>
           /\ msg' = msg \/ msg' = [msg EXCEPT ![e] = "acked"] \/ msg' = [msg EXCEPT ![e] = "unread"]
           /\ msg[e] = "stored" \/ Handles(p, e)
           /\ \A q \in Process, f \in Event : next'[q][f] > 0 => next[q][f] > 0 \/ f = e
<1>1. /\ UNCHANGED <<driver, wired, durable, pub>>
      /\ msg' = msg \/ msg' = [msg EXCEPT ![e] = "acked"] \/ msg' = [msg EXCEPT ![e] = "unread"]
  BY DEF Delivers, Deliver, DeliverUnknown, Handle, HandlerFails, Finish, AckLost, wiringVars
<1>2. msg[e] = "stored" \/ Handles(p, e)
  BY DEF Delivers, Deliver, DeliverUnknown, Deliverable, Handle, HandlerFails, Finish, AckLost,
         Handles
<1>3. \/ next' = next \/ next' = [next EXCEPT ![p][e] = 0] \/ next' = [next EXCEPT ![p][e] = 1]
      \/ \E i \in Nat : next' = [next EXCEPT ![p][e] = i + 1]
  BY DEF Delivers, Deliver, DeliverUnknown, Handle, HandlerFails, Finish, AckLost, Stop,
         deliveryVars
<1>4. ASSUME NEW q \in Process, NEW f \in Event, f # e PROVE next'[q][f] = next[q][f]
  <2>1. ASSUME NEW i, next' = [next EXCEPT ![p][e] = i] PROVE next'[q][f] = next[q][f]
    BY <1>4, <2>1 DEF TypeOK
  <2> QED BY <1>3, <2>1
<1> QED BY <1>1, <1>2, <1>4

LEMMA StepTaken ==
    ASSUME "subscribe" \notin Faults, TypeOK, Taken, [Next]_vars
    PROVE  Taken'
<1> SUFFICES ASSUME driver = "nats" PROVE Taken'
  BY DriverStays DEF Taken
<1> USE DEF Taken, Handles
<1>0. /\ \A t \in Topic : Width(t) \in Nat /\ Width(t) > 0
      /\ \A e \in Event : TopicOf[e] \in Topic
      /\ driver' = driver
  BY Handlers, Topics, DriverStays
<1>1. ASSUME UNCHANGED <<wired, durable, next, pub, msg>> PROVE Taken'
  BY <1>0, <1>1
<1>2. ASSUME NEW p \in Process, NEW t \in Topic, Register(p, t) PROVE Taken'
  BY <1>1, <1>2 DEF Register, deliveryVars
<1>3. ASSUME NEW p \in Process, NEW t \in Topic, Subscribe(p, t) PROVE Taken'
  <2>1. /\ wired' = [wired EXCEPT ![p][t] = @ + 1] /\ wired[p][t] \in Nat
        /\ UNCHANGED <<driver, pub, msg, next>>
    BY <1>3 DEF Subscribe, deliveryVars, TypeOK
  <2>2. durable' # {} /\ (durable # {} => durable' = durable)
    <3>1. CASE wired[p][t] = 0 /\ durable \subseteq {t}
      <4>1. durable' = {t}
        BY <1>3, <3>1 DEF Subscribe, Joins
      <4> QED BY <3>1, <4>1
    <3>2. CASE ~(wired[p][t] = 0 /\ durable \subseteq {t})
      <4>1. UNCHANGED durable
        BY <1>3, <3>2 DEF Subscribe, Joins
      <4>2. wired[p][t] > 0 \/ durable # {}
        BY <2>1, <3>2
      <4> QED BY <4>1, <4>2
    <3> QED BY <3>1, <3>2
  <2> QED BY <1>0, <2>1, <2>2
<1>4. ASSUME NEW e \in Event, Commit(e) \/ PublishFails(e) PROVE Taken'
  <2>1. /\ \A f \in Event : pub'[f] = "published" => pub[f] = "published"
        /\ UNCHANGED <<wired, durable, next, msg>>
    BY <1>4 DEF Commit, PublishFails, wiringVars, deliveryVars, TypeOK
  <2> QED BY <1>0, <2>1
<1>5. ASSUME NEW e \in Event, NEW p \in Process, PublishInMemory(p, e) PROVE Taken'
  BY <1>5 DEF PublishInMemory
<1>6. ASSUME NEW e \in Event, NEW p \in Process, PublishToStream(p, e) PROVE Taken'
  <2>1. wired[p][TopicOf[e]] > 0
    BY <1>0, <1>6 DEF PublishToStream, Ready
  <2>2. durable # {}
    BY <1>0, <2>1
  <2>3. /\ \A f \in Event :
            /\ pub'[f] = IF f = e THEN "published" ELSE pub[f]
            /\ msg'[f] = IF f = e THEN IF TopicOf[e] \in durable THEN "stored" ELSE "dropped"
                         ELSE msg[f]
        /\ UNCHANGED <<wired, durable, next>>
    BY <1>6 DEF PublishToStream, wiringVars, deliveryVars, TypeOK
  <2> QED BY <1>0, <2>2, <2>3
<1>7. ASSUME NEW e \in Event, AckWaitPasses(e) PROVE Taken'
  BY <1>1, <1>7 DEF AckWaitPasses, wiringVars, deliveryVars
<1>8. ASSUME NEW p \in Process, NEW e \in Event, Delivers(p, e) PROVE Taken'
  <2>1. /\ UNCHANGED <<wired, durable, pub>>
        /\ msg' = msg \/ msg' = [msg EXCEPT ![e] = "acked"] \/ msg' = [msg EXCEPT ![e] = "unread"]
    BY <1>8, DeliveryTakes
  <2>2. TopicOf[e] \in durable
    BY <1>8, DeliveryTakes
  <2>3. \A q \in Process, f \in Event : next'[q][f] > 0 => next[q][f] > 0 \/ f = e
    BY <1>8, DeliveryTakes
  <2> QED BY <1>0, <2>1, <2>2, <2>3 DEF TypeOK
<1>9. ASSUME NEW p \in Process, Crash(p) PROVE Taken'
  <2>1. /\ UNCHANGED <<durable, pub, msg>>
        /\ wired' = [wired EXCEPT ![p] = [t \in Topic |-> 0]]
        /\ next' = [next EXCEPT ![p] = [e \in Event |-> 0]]
    BY <1>9 DEF Crash
  <2>2. /\ \A q \in Process, s \in Topic : wired'[q][s] = 0 \/ wired'[q][s] = wired[q][s]
        /\ \A q \in Process, f \in Event : next'[q][f] = 0 \/ next'[q][f] = next[q][f]
    BY <2>1 DEF TypeOK
  <2> QED BY <1>0, <2>1, <2>2
<1>10. CASE UNCHANGED vars
  BY <1>1, <1>10 DEF vars, wiringVars, deliveryVars
<1> QED
  BY <1>2, <1>3, <1>4, <1>5, <1>6, <1>7, <1>8, <1>9, <1>10 DEF Next, Publish, Delivers

LEMMA TakenAlways ==
  ASSUME "subscribe" \notin Faults
  PROVE  Spec => []Taken
<1>1. Init => Taken
  BY DEF Init, Taken, Handles
<1>2. TypeOK /\ Taken /\ [Next]_vars => Taken'
  BY StepTaken
<1> QED BY <1>1, <1>2, TypeCorrect, PTL DEF Spec

\* Where JetStream does not fail a subscription and a type has one handler, the
\* stream keeps what is published of the type that holds the consumer until it is
\* handled, whatever crashes, is refused or gets lost; all else it drops at once.
THEOREM PublishedIsKeptTheorem ==
  ASSUME \A t \in Topic : Width(t) = 1, "subscribe" \notin Faults
  PROVE  Spec => []PublishedIsKept
<1>1. Taken /\ AckedMeansHandledUnlessUnread => PublishedIsKept
  BY DEF Taken, AckedMeansHandledUnlessUnread, PublishedIsKept
<1> QED BY <1>1, TakenAlways, AckedMeansHandledTheorem, PTL

\* A type whose handlers subscribe after another's has no consumer, ever.
Shut(t) == t \notin durable

LEMMA StepShut ==
    ASSUME "subscribe" \notin Faults, NEW t \in Topic, NEW s \in Earlier[t], s # t,
           TypeOK, Taken, Shut(t), [Next]_vars
    PROVE  Shut(t)'
<1>1. s \in Topic /\ Width(s) > 0
  BY Handlers, EventsConstants DEF EventsConstants
<1>2. ASSUME NEW p \in Process, NEW u \in Topic, Subscribe(p, u), durable' # durable
      PROVE  u # t
  <2>1. /\ wired[p][u] = 0 /\ driver = "nats" /\ durable \subseteq {u}
        /\ \A v \in Earlier[u] : wired[p][v] = Width(v)
    BY <1>2 DEF Subscribe, Joins
  <2>2. ASSUME u = t PROVE FALSE
    <3>1. wired[p][s] > 0
      BY <1>1, <2>1, <2>2
    <3>2. durable # {}
      BY <1>1, <2>1, <3>1 DEF Taken
    <3> QED BY <2>1, <2>2, <3>2 DEF Shut
  <2> QED BY <2>2
<1>3. ASSUME NEW p \in Process, NEW u \in Topic, Subscribe(p, u) PROVE Shut(t)'
  BY <1>2, <1>3 DEF Subscribe, Shut
<1>4. ASSUME NEW p \in Process, NEW u \in Topic, Register(p, u) PROVE Shut(t)'
  BY <1>4 DEF Register, Shut
<1>5. ASSUME NEW e \in Event, Commit(e) \/ Publish(e) \/ PublishFails(e) \/ AckWaitPasses(e)
      PROVE  Shut(t)'
  BY <1>5 DEF Commit, Publish, PublishInMemory, PublishToStream, PublishFails, AckWaitPasses,
         wiringVars, Shut
<1>6. ASSUME NEW p \in Process, NEW e \in Event, Delivers(p, e) PROVE Shut(t)'
  BY <1>6, DeliveryTakes DEF Shut
<1>7. ASSUME NEW p \in Process, Crash(p) PROVE Shut(t)'
  BY <1>7 DEF Crash, Shut
<1>8. CASE UNCHANGED vars
  BY <1>8 DEF vars, wiringVars, Shut
<1> QED BY <1>3, <1>4, <1>5, <1>6, <1>7, <1>8 DEF Next, Delivers

\* The e-mail events under the nats driver: where another type subscribes first, as
\* todo.created does, no event of the type is ever delivered or even kept, although
\* nothing fails.
THEOREM LaterTypesAreDropped ==
  ASSUME "subscribe" \notin Faults, NEW t \in Topic, NEW s \in Earlier[t], s # t
  PROVE  Spec => [](\A e \in Event :
                      TopicOf[e] = t /\ driver = "nats" /\ pub[e] = "published" => msg[e] = "dropped")
<1>1. Init => Shut(t)
  BY DEF Init, Shut
<1>2. TypeOK /\ Taken /\ Shut(t) /\ [Next]_vars => Shut(t)'
  BY StepShut
<1>3. Taken /\ Shut(t) =>
        \A e \in Event :
            TopicOf[e] = t /\ driver = "nats" /\ pub[e] = "published" => msg[e] = "dropped"
  BY DEF Taken, Shut
<1> QED BY <1>1, <1>2, <1>3, TypeCorrect, TakenAlways, PTL DEF Spec

-----------------------------------------------------------------------------
(* The order and the number of effects.                                     *)

\* No handler subscribes twice to one type.
Distinct ==
    \A t \in Topic : \A i, j \in 1..Width(t) : HandlersOf[t][i] = HandlersOf[t][j] => i = j

\* Only a handler that returns nil is counted and brings a delivery on.
LEMMA Moves ==
    ASSUME TypeOK, [Next]_vars
    PROVE  \/ /\ UNCHANGED done
              /\ \A p \in Process, e \in Event : next'[p][e] \in {0, 1, next[p][e]}
           \/ \E p \in Process, e \in Event : \E i \in 1..Width(TopicOf[e]) : Handle(p, e, i)
<1> DEFINE Rests == /\ UNCHANGED done
                    /\ \A p \in Process, e \in Event : next'[p][e] \in {0, 1, next[p][e]}
<1>1. ASSUME NEW p \in Process, NEW t \in Topic, Register(p, t) \/ Subscribe(p, t) PROVE Rests
  BY <1>1 DEF Register, Subscribe, deliveryVars
<1>2. ASSUME NEW e \in Event, Commit(e) \/ PublishFails(e) \/ AckWaitPasses(e) PROVE Rests
  BY <1>2 DEF Commit, PublishFails, AckWaitPasses, deliveryVars
<1>3. ASSUME NEW p \in Process, NEW e \in Event, PublishInMemory(p, e) \/ Deliver(p, e)
      PROVE  Rests
  <2>1. next' = [next EXCEPT ![p][e] = 1] /\ UNCHANGED done
    BY <1>3 DEF PublishInMemory, Deliver
  <2> QED BY <2>1 DEF TypeOK
<1>4. ASSUME NEW p \in Process, NEW e \in Event, PublishToStream(p, e) \/ DeliverUnknown(p, e)
      PROVE  Rests
  BY <1>4 DEF PublishToStream, DeliverUnknown, deliveryVars
<1>5. ASSUME NEW p \in Process, NEW e \in Event, HandlerFails(p, e) \/ Finish(p, e) \/ AckLost(p, e)
      PROVE  Rests
  <2>1. next' = [next EXCEPT ![p][e] = 0] /\ UNCHANGED done
    BY <1>5 DEF HandlerFails, Finish, AckLost, Stop
  <2> QED BY <2>1 DEF TypeOK
<1>6. ASSUME NEW p \in Process, Crash(p) PROVE Rests
  BY <1>6 DEF Crash, TypeOK
<1>7. CASE UNCHANGED vars
  BY <1>7 DEF vars, deliveryVars
<1> QED BY <1>1, <1>2, <1>3, <1>4, <1>5, <1>6, <1>7 DEF Next, Publish

\* What the i-th handler does to the counts.
LEMMA HandleCounts ==
    ASSUME TypeOK, Distinct, NEW p \in Process, NEW e \in Event,
           NEW i \in 1..Width(TopicOf[e]), Handle(p, e, i)
    PROVE  /\ next[p][e] = i /\ next' = [next EXCEPT ![p][e] = i + 1]
           /\ \A f \in Event : f # e => done'[f] = done[f]
           /\ \A h \in Handler : h # HandlersOf[TopicOf[e]][i] => done'[e][h] = done[e][h]
           /\ \A j \in 1..Width(TopicOf[e]) :
                j # i => done'[e][HandlersOf[TopicOf[e]][j]] = done[e][HandlersOf[TopicOf[e]][j]]
           /\ LET h == HandlersOf[TopicOf[e]][i] IN done'[e][h] = Counted(done[e][h])
<1> DEFINE h == HandlersOf[TopicOf[e]][i]
<1>1. h \in Handler /\ \A j \in 1..Width(TopicOf[e]) : HandlersOf[TopicOf[e]][j] \in Handler
  BY Handlers, Topics
<1>2. \A j \in 1..Width(TopicOf[e]) : j # i => HandlersOf[TopicOf[e]][j] # h
  BY Topics DEF Distinct
<1>3. done' = [done EXCEPT ![e][h] = Counted(@)]
  BY DEF Handle
<1>4. \A f \in Event, k \in Handler :
        done'[f][k] = IF f = e /\ k = h THEN Counted(done[f][k]) ELSE done[f][k]
  BY <1>1, <1>3 DEF TypeOK
<1>5. \A f \in Event : f # e => done'[f] = done[f]
  BY <1>3 DEF TypeOK
<1> QED BY <1>1, <1>2, <1>4, <1>5 DEF Handle

\* Deliveries that have passed the i-th handler and not the j-th.
Between(e, i, j) == {p \in Process : i < next[p][e] /\ next[p][e] <= j}

\* The count of an earlier handler is ahead by the deliveries on their way to the
\* later one, until it has reached its bound.
Ahead(e, i, j) ==
    LET H == HandlersOf[TopicOf[e]] IN
    i < j =>
        done[e][H[i]] = MaxSeen \/ done[e][H[i]] >= done[e][H[j]] + Cardinality(Between(e, i, j))

InOrder == \A e \in Event : \A i, j \in 1..Width(TopicOf[e]) : Ahead(e, i, j)

LEMMA StepInOrder ==
    ASSUME IsFiniteSet(Process), Distinct, TypeOK, TypeOK', InOrder, [Next]_vars
    PROVE  InOrder'
<1> SUFFICES ASSUME NEW f \in Event, NEW i \in 1..Width(TopicOf[f]), NEW j \in 1..Width(TopicOf[f]),
                    i < j
             PROVE  LET H == HandlersOf[TopicOf[f]] IN
                    \/ done'[f][H[i]] = MaxSeen
                    \/ done'[f][H[i]] >= done'[f][H[j]] + Cardinality(Between(f, i, j)')
  BY DEF InOrder, Ahead
<1> DEFINE hi == HandlersOf[TopicOf[f]][i]
           hj == HandlersOf[TopicOf[f]][j]
           B == Between(f, i, j)
           C == Between(f, i, j)'
<1>0. /\ hi \in Handler /\ hj \in Handler /\ i \in Nat /\ j \in Nat
      /\ MaxSeen \in Nat /\ MaxSeen > 0
      /\ done[f][hi] \in 0..MaxSeen /\ done[f][hj] \in 0..MaxSeen
      /\ done'[f][hi] \in 0..MaxSeen /\ done'[f][hj] \in 0..MaxSeen
      /\ \A p \in Process : next[p][f] \in Nat /\ next'[p][f] \in Nat
  BY Handlers, Topics, EventsConstants DEF EventsConstants, TypeOK
<1>1. done[f][hi] = MaxSeen \/ done[f][hi] >= done[f][hj] + Cardinality(B)
  BY DEF InOrder, Ahead
<1>2. IsFiniteSet(B) /\ IsFiniteSet(C)
  BY FS_Subset DEF Between
<1>3. Cardinality(B) \in Nat /\ Cardinality(C) \in Nat
  BY <1>2, FS_CardinalityType
<1>4. ASSUME C \subseteq B PROVE Cardinality(C) <= Cardinality(B)
  BY <1>2, <1>4, FS_Subset
<1>5. CASE /\ UNCHANGED done
           /\ \A p \in Process, e \in Event : next'[p][e] \in {0, 1, next[p][e]}
  <2>1. C \subseteq B
    BY <1>0, <1>5 DEF Between
  <2> QED BY <1>0, <1>1, <1>3, <1>4, <1>5, <2>1
<1>6. ASSUME NEW p \in Process, NEW e \in Event, NEW k \in 1..Width(TopicOf[e]), Handle(p, e, k)
      PROVE  done'[f][hi] = MaxSeen \/ done'[f][hi] >= done'[f][hj] + Cardinality(C)
  <2>1. next[p][e] = k /\ next' = [next EXCEPT ![p][e] = k + 1] /\ k \in Nat
    BY <1>6, HandleCounts
  <2>2. \A q \in Process : next'[q][f] = IF q = p /\ f = e THEN k + 1 ELSE next[q][f]
    BY <2>1 DEF TypeOK
  <2>3. CASE f # e
    <3>1. C = B /\ done'[f] = done[f]
      BY <1>6, <2>2, <2>3, HandleCounts DEF Between
    <3> QED BY <1>1, <3>1
  <2>4. CASE f = e /\ k = i
    <3>1. done'[f][hi] = Counted(done[f][hi]) /\ done'[f][hj] = done[f][hj]
      BY <1>6, <2>4, HandleCounts
    <3>2. C \subseteq B \cup {p} /\ p \notin B
      BY <1>0, <2>1, <2>2, <2>4 DEF Between
    <3>3. /\ IsFiniteSet(B \cup {p}) /\ Cardinality(B \cup {p}) = Cardinality(B) + 1
      BY <1>2, <3>2, FS_AddElement
    <3>4. Cardinality(C) <= Cardinality(B) + 1
      BY <3>2, <3>3, FS_Subset
    <3> QED BY <1>0, <1>1, <1>3, <3>1, <3>4 DEF Counted
  <2>5. CASE f = e /\ k = j
    <3>1. /\ done'[f][hi] = done[f][hi]
          /\ done'[f][hj] = Counted(done[f][hj])
      BY <1>6, <2>5, HandleCounts
    <3>2. C \subseteq B \ {p} /\ p \in B
      BY <1>0, <2>1, <2>2, <2>5 DEF Between
    <3>3. /\ IsFiniteSet(B \ {p}) /\ Cardinality(B \ {p}) = Cardinality(B) - 1
      BY <1>2, <3>2, FS_RemoveElement
    <3>4. Cardinality(C) <= Cardinality(B) - 1
      BY <3>2, <3>3, FS_Subset
    <3> QED BY <1>0, <1>1, <1>3, <3>1, <3>4 DEF Counted
  <2>6. CASE f = e /\ k # i /\ k # j
    <3>1. done'[f][hi] = done[f][hi] /\ done'[f][hj] = done[f][hj]
      BY <1>6, <2>6, HandleCounts
    <3>2. C \subseteq B
      BY <1>0, <2>1, <2>2, <2>6 DEF Between
    <3> QED BY <1>0, <1>1, <1>3, <1>4, <3>1, <3>2
  <2> QED BY <2>3, <2>4, <2>5, <2>6
<1> QED BY <1>5, <1>6, Moves

\* With any number of processes at work on one event, a handler never completes
\* more often than one that subscribed before it (EffectsInOrder).
THEOREM OrderTheorem ==
  ASSUME IsFiniteSet(Process), Distinct
  PROVE  Spec => []EffectsInOrder
<1>1. Init => InOrder
  <2> SUFFICES ASSUME Init, NEW e \in Event, NEW i \in 1..Width(TopicOf[e]),
                      NEW j \in 1..Width(TopicOf[e])
               PROVE  Ahead(e, i, j)
    BY DEF InOrder
  <2>1. HandlersOf[TopicOf[e]][i] \in Handler /\ HandlersOf[TopicOf[e]][j] \in Handler /\ i \in Nat
    BY Handlers, Topics
  <2>2. Between(e, i, j) = {}
    BY <2>1 DEF Init, Between
  <2>3. Cardinality(Between(e, i, j)) = 0
    BY <2>2, FS_EmptySet
  <2> QED BY <2>1, <2>3 DEF Init, Ahead
<1>2. TypeOK /\ TypeOK' /\ InOrder /\ [Next]_vars => InOrder'
  BY StepInOrder
<1>3. TypeOK /\ InOrder => EffectsInOrder
  <2> SUFFICES ASSUME TypeOK, InOrder, NEW e \in Event, NEW i \in 1..Width(TopicOf[e]),
                      NEW j \in 1..Width(TopicOf[e]), i < j
               PROVE  done[e][HandlersOf[TopicOf[e]][i]] >= done[e][HandlersOf[TopicOf[e]][j]]
    BY DEF EffectsInOrder
  <2> DEFINE x == done[e][HandlersOf[TopicOf[e]][i]]
             y == done[e][HandlersOf[TopicOf[e]][j]]
  <2>1. x \in 0..MaxSeen /\ y \in 0..MaxSeen /\ MaxSeen \in Nat
    BY Handlers, Topics, EventsConstants DEF EventsConstants, TypeOK
  <2>2. Cardinality(Between(e, i, j)) \in Nat
    BY FS_Subset, FS_CardinalityType DEF Between
  <2>3. x = MaxSeen \/ x >= y + Cardinality(Between(e, i, j))
    BY DEF InOrder, Ahead
  <2> QED BY <2>1, <2>2, <2>3
<1> QED BY <1>1, <1>2, <1>3, TypeCorrect, PTL DEF Spec

\* In memory, an event is handed over once: before that no handler has completed,
\* and while it is handled none of the handlers to come.
Once ==
    driver = "memory" =>
        /\ \A e \in Event :
            /\ msg[e] = "none"
            /\ pub[e] # "published" => \A h \in Handler : done[e][h] = 0
            /\ \A h \in Handler : done[e][h] <= 1
        /\ \A p \in Process, e \in Event : Handles(p, e) =>
            /\ pub[e] = "published"
            /\ \A q \in Process : Handles(q, e) => q = p
            /\ \A j \in 1..Width(TopicOf[e]) :
                  j >= next[p][e] => done[e][HandlersOf[TopicOf[e]][j]] = 0

LEMMA StepOnce ==
    ASSUME Distinct, TypeOK, TypeOK', Once, [Next]_vars
    PROVE  Once'
<1> SUFFICES ASSUME driver = "memory" PROVE Once'
  BY DriverStays DEF Once
<1> USE DEF Once, Handles
<1>0. driver' = driver
  BY DriverStays
<1>a. \A e \in Event : \A j \in 1..Width(TopicOf[e]) : HandlersOf[TopicOf[e]][j] \in Handler
  BY Handlers, Topics
<1>b. \A p \in Process, e \in Event : next[p][e] \in Nat /\ next'[p][e] \in Nat
  BY DEF TypeOK
<1>1. ASSUME UNCHANGED <<msg, pub, done>>,
             \A p \in Process, e \in Event : next'[p][e] \in {0, next[p][e]}
      PROVE  Once'
  BY <1>0, <1>b, <1>1
<1>2. ASSUME NEW p \in Process, NEW t \in Topic, Register(p, t) \/ Subscribe(p, t) PROVE Once'
  BY <1>1, <1>2 DEF Register, Subscribe, deliveryVars
<1>3. ASSUME NEW e \in Event, Commit(e) \/ PublishFails(e) PROVE Once'
  <2>1. UNCHANGED <<msg, done, next>> /\ pub[e] # "published"
    BY <1>3 DEF Commit, PublishFails, deliveryVars
  <2>2. \A f \in Event : f # e => pub'[f] = pub[f]
    BY <1>3 DEF Commit, PublishFails, TypeOK
  <2>3. \A p \in Process : ~Handles(p, e)
    BY <2>1
  <2> QED BY <1>0, <2>1, <2>2, <2>3
<1>4. ASSUME NEW e \in Event, AckWaitPasses(e) PROVE Once'
  BY <1>1, <1>4 DEF AckWaitPasses, deliveryVars
<1>5. ASSUME NEW p \in Process, NEW e \in Event, PublishInMemory(p, e) PROVE Once'
  <2>1. /\ pub[e] = "committed" /\ pub' = [pub EXCEPT ![e] = "published"]
        /\ next' = [next EXCEPT ![p][e] = 1] /\ UNCHANGED <<msg, done>>
    BY <1>5 DEF PublishInMemory
  <2>2. \A q \in Process : ~Handles(q, e)
    BY <2>1
  <2>3. \A h \in Handler : done[e][h] = 0
    BY <2>1
  <2>4. \A q \in Process, f \in Event :
          next'[q][f] = IF q = p /\ f = e THEN 1 ELSE next[q][f]
    BY <2>1 DEF TypeOK
  <2>5. \A f \in Event : pub'[f] = IF f = e THEN "published" ELSE pub[f]
    BY <2>1 DEF TypeOK
  <2> QED BY <1>0, <1>a, <2>1, <2>2, <2>3, <2>4, <2>5
<1>6. ASSUME NEW p \in Process, NEW e \in Event,
             PublishToStream(p, e) \/ Deliver(p, e) \/ DeliverUnknown(p, e)
      PROVE  FALSE
  BY <1>6 DEF PublishToStream, Deliver, DeliverUnknown, Deliverable
<1>7. ASSUME NEW p \in Process, NEW e \in Event, NEW i \in 1..Width(TopicOf[e]), Handle(p, e, i)
      PROVE  Once'
  <2> DEFINE h == HandlersOf[TopicOf[e]][i]
  <2>1. /\ next[p][e] = i /\ next' = [next EXCEPT ![p][e] = i + 1] /\ i \in Nat
        /\ UNCHANGED <<msg, pub>>
    BY <1>7, HandleCounts DEF Handle
  <2>2. \A q \in Process, f \in Event :
          next'[q][f] = IF q = p /\ f = e THEN i + 1 ELSE next[q][f]
    BY <2>1 DEF TypeOK
  <2>3. done[e][h] = 0 /\ h \in Handler /\ pub[e] = "published"
    BY <1>a, <2>1
  <2>4. Counted(0) = 1
    BY EventsConstants DEF EventsConstants, Counted
  <2>5. done'[e][h] <= 1
    BY <1>7, <2>3, <2>4, HandleCounts
  <2>6. /\ \A f \in Event : f # e => done'[f] = done[f]
        /\ \A k \in Handler : k # h => done'[e][k] = done[e][k]
        /\ \A j \in 1..Width(TopicOf[e]) :
              j # i => done'[e][HandlersOf[TopicOf[e]][j]] = done[e][HandlersOf[TopicOf[e]][j]]
    BY <1>7, HandleCounts
  <2>7. ASSUME NEW f \in Event
        PROVE  /\ msg'[f] = "none"
               /\ pub'[f] # "published" => \A k \in Handler : done'[f][k] = 0
               /\ \A k \in Handler : done'[f][k] <= 1
    BY <2>1, <2>3, <2>5, <2>6
  <2>8. ASSUME NEW q \in Process, NEW f \in Event, next'[q][f] > 0
        PROVE  /\ pub'[f] = "published"
               /\ \A r \in Process : next'[r][f] > 0 => r = q
               /\ \A j \in 1..Width(TopicOf[f]) :
                    j >= next'[q][f] => done'[f][HandlersOf[TopicOf[f]][j]] = 0
    <3>1. \A r \in Process : next'[r][f] > 0 => next[r][f] > 0
      BY <2>1, <2>2
    <3>2. pub[f] = "published" /\ \A r \in Process : next[r][f] > 0 => r = q
      BY <2>8, <3>1
    <3>3. CASE f # e
      <4>1. next'[q][f] = next[q][f] /\ done'[f] = done[f] /\ next[q][f] > 0
        BY <2>2, <2>6, <2>8, <3>3
      <4>2. \A j \in 1..Width(TopicOf[f]) :
              j >= next[q][f] => done[f][HandlersOf[TopicOf[f]][j]] = 0
        BY <4>1
      <4> QED BY <2>1, <3>1, <3>2, <4>1, <4>2
    <3>4. CASE f = e
      <4>1. q = p
        BY <2>1, <3>2, <3>4
      <4> QED BY <2>1, <2>2, <2>6, <3>4, <4>1
    <3> QED BY <2>1, <3>1, <3>2, <3>3, <3>4
  <2> QED BY <2>7, <2>8
<1>8. ASSUME NEW p \in Process, NEW e \in Event, HandlerFails(p, e) \/ Finish(p, e) \/ AckLost(p, e)
      PROVE  Once'
  <2>1. next' = [next EXCEPT ![p][e] = 0] /\ UNCHANGED <<msg, pub, done>>
    BY <1>8 DEF HandlerFails, Finish, AckLost, Stop
  <2>2. \A q \in Process, f \in Event : next'[q][f] \in {0, next[q][f]}
    BY <2>1 DEF TypeOK
  <2> QED BY <1>1, <2>1, <2>2
<1>9. ASSUME NEW p \in Process, Crash(p) PROVE Once'
  <2>1. \A q \in Process, f \in Event : next'[q][f] \in {0, next[q][f]}
    BY <1>9 DEF Crash, TypeOK
  <2> QED BY <1>1, <1>9, <2>1 DEF Crash
<1>10. CASE UNCHANGED vars
  BY <1>1, <1>10 DEF vars, deliveryVars
<1> QED
  BY <1>2, <1>3, <1>4, <1>5, <1>6, <1>7, <1>8, <1>9, <1>10 DEF Next, Publish

\* With the memory driver no handler completes twice for an event, whatever fails
\* or dies (AtMostOnce).
THEOREM AtMostOnceTheorem ==
  ASSUME Distinct
  PROVE  Spec => []AtMostOnce
<1>1. Init => Once
  BY Handlers, Topics DEF Init, Once, Handles
<1>2. TypeOK /\ TypeOK' /\ Once /\ [Next]_vars => Once'
  BY StepOnce
<1>3. Once => AtMostOnce
  BY DEF Once, AtMostOnce
<1> QED BY <1>1, <1>2, <1>3, TypeCorrect, PTL DEF Spec

-----------------------------------------------------------------------------
(* The debug buffer.                                                       *)

\* One step past the end of the ring leads to its beginning.
LEMMA Modulo ==
    ASSUME NEW n \in Nat \ {0}, NEW a \in Nat, a < n + n
    PROVE  a % n = IF a < n THEN a ELSE a - n
  OBVIOUS

\* A new ring holds the empty log.
THEOREM NewIsHeld ==
    ASSUME NEW M, NEW n \in Nat \ {0}, NEW zero \in M
    PROVE  NewBuffer(n, zero) \in Buffer(n, M) /\ Holds(NewBuffer(n, zero), <<>>)
<1>1. NewBuffer(n, zero) \in Buffer(n, M)
  BY DEF NewBuffer, Buffer
<1>2. Len(<<>>) = 0 /\ ~(0 >= n) /\ Shown(<<>>, n) = 0
  BY DEF Shown
<1> QED BY <1>1, <1>2 DEF NewBuffer, Holds

\* The ring that held a log holds, after append, the log with the new message: it
\* wraps at its capacity and overwrites the oldest entry.
THEOREM AppendIsHeld ==
    ASSUME NEW M, NEW n \in Nat \ {0}, NEW b \in Buffer(n, M), NEW s \in Seq(M), NEW e \in M,
           Holds(b, s)
    PROVE  Appended(b, e) \in Buffer(n, M) /\ Holds(Appended(b, e), Append(s, e))
<1> DEFINE place == (b.next + 1) % b.cap
           c == Appended(b, e)
           t == Append(s, e)
<1>1. /\ b.cap = n /\ b.buf \in [0..(n - 1) -> M] /\ b.next \in 0..(n - 1) /\ b.full \in BOOLEAN
      /\ b = [cap |-> n, buf |-> b.buf, next |-> b.next, full |-> b.full]
  BY DEF Buffer
<1>2. place = IF b.next + 1 < n THEN b.next + 1 ELSE 0
  BY <1>1, Modulo
<1>3. place \in 0..(n - 1)
  BY <1>1, <1>2
<1>4. /\ c.cap = n /\ c.buf = [b.buf EXCEPT ![b.next] = e]
      /\ c.next = place /\ c.full = (b.full \/ place = 0)
  BY <1>1 DEF Appended
<1> HIDE DEF place
<1>5. c \in Buffer(n, M)
  BY <1>1, <1>3 DEF Appended, Buffer, place
<1> HIDE DEF c
<1>6. Len(t) = Len(s) + 1 /\ t[Len(s) + 1] = e /\ \A i \in 1..Len(s) : t[i] = s[i]
  OBVIOUS
<1>7. Len(s) \in Nat /\ (b.full <=> Len(s) >= n) /\ (~b.full => b.next = Len(s))
  BY <1>1 DEF Holds
<1>8. (c.full <=> Len(t) >= n) /\ (~c.full => c.next = Len(t))
  <2>1. c.full <=> b.full \/ place = 0
    BY <1>4
  <2>2. b.full \/ place = 0 <=> Len(s) + 1 >= n
    BY <1>1, <1>2, <1>7
  <2>3. ~(b.full \/ place = 0) => place = Len(s) + 1
    BY <1>1, <1>2, <1>7
  <2> QED BY <1>4, <1>6, <2>1, <2>2, <2>3
<1>9. ASSUME NEW k \in 1..Shown(t, n) PROVE c.buf[Place(c, k)] = t[Len(t) + 1 - k]
  <2>1. CASE k = 1
    <3>1. Place(c, k) = b.next
      BY <1>1, <1>2, <1>4, <2>1 DEF Place
    <3> QED BY <1>1, <1>4, <1>6, <2>1, <3>1
  <2>2. CASE k # 1
    <3>1. k \in Nat /\ k > 1 /\ k <= n /\ k <= Len(s) + 1
      BY <1>6, <1>7, <2>2 DEF Shown
    <3>2. k - 1 \in 1..Shown(s, n)
      BY <1>7, <3>1 DEF Shown
    <3>3. b.buf[Place(b, k - 1)] = s[Len(s) + 1 - (k - 1)]
      BY <1>1, <3>2 DEF Holds
    <3>4. Place(c, k) = Place(b, k - 1)
      BY <1>1, <1>2, <1>4, <3>1 DEF Place
    <3>5. Place(b, k - 1) \in 0..(n - 1) /\ Place(b, k - 1) # b.next
      BY <1>1, <1>7, <3>1 DEF Place
    <3>6. c.buf[Place(c, k)] = b.buf[Place(b, k - 1)]
      BY <1>1, <1>4, <3>4, <3>5
    <3>7. Len(s) + 1 - (k - 1) \in 1..Len(s) /\ Len(t) + 1 - k = Len(s) + 1 - (k - 1)
      BY <1>6, <1>7, <3>1
    <3> QED BY <1>6, <3>3, <3>6, <3>7
  <2> QED BY <2>1, <2>2
<1>10. Holds(c, t)
  BY <1>4, <1>8, <1>9 DEF Holds
<1> QED BY <1>5, <1>10 DEF c

\* /debug/nats shows the last messages of the log, as many as there is room for,
\* newest first.
THEOREM ReadShowsLatest ==
    ASSUME NEW M, NEW n \in Nat \ {0}, NEW b \in Buffer(n, M), NEW s \in Seq(M), Holds(b, s)
    PROVE  Entries(b) = Latest(s, n)
<1>1. b.cap = n /\ b.buf \in [0..(n - 1) -> M] /\ b.next \in 0..(n - 1) /\ b.full \in BOOLEAN
  BY DEF Buffer
<1>2. Len(s) \in Nat /\ (b.full <=> Len(s) >= n) /\ (~b.full => b.next = Len(s))
  BY <1>1 DEF Holds
<1>3. Count(b) = Shown(s, n) /\ Count(b) \in 0..n
  BY <1>1, <1>2 DEF Count, Shown
<1>4. Len(Copied(b)) = Count(b)
  BY <1>3 DEF Copied
<1>5. ASSUME NEW k \in 1..Count(b) PROVE Copied(b)[Count(b) + 1 - k] = s[Len(s) + 1 - k]
  <2> DEFINE a == Start(b) + (Count(b) + 1 - k) - 1
  <2>1. a \in Nat /\ a < n + n
    BY <1>1, <1>2, <1>3 DEF Start, Count
  <2>2. a % n = Place(b, k)
    <3>1. a % n = IF a < n THEN a ELSE a - n
      BY <2>1, Modulo
    <3> QED BY <1>1, <1>2, <1>3, <3>1 DEF Start, Count, Place
  <2>3. Count(b) + 1 - k \in 1..Count(b)
    BY <1>3
  <2>4. Copied(b)[Count(b) + 1 - k] = b.buf[a % n]
    BY <1>1, <2>3 DEF Copied
  <2>5. b.buf[Place(b, k)] = s[Len(s) + 1 - k]
    BY <1>1, <1>3 DEF Holds
  <2> QED BY <2>2, <2>4, <2>5
<1> QED BY <1>3, <1>4, <1>5 DEF Entries, Turned, Latest
=============================================================================
