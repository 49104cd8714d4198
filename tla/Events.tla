------------------------------- MODULE Events -------------------------------
(***************************************************************************)
(* The event bus with both drivers: publishing after the write has         *)
(* committed, subscribing at start-up, and the delivery of an event to the *)
(* handlers of its type, one handler call at a time.  The memory driver    *)
(* runs the handlers inside Publish; the nats driver stores a message that *)
(* the stream delivers to one of the processes until it is acknowledged.   *)
(* Every type asks for the one consumer "event-bus", which has one subject. *)
(***************************************************************************)
EXTENDS Naturals, Sequences

CONSTANTS
    Drivers,      \* the drivers that may be configured
    Process,
    Topic,        \* event types
    Event,
    Handler,
    TopicOf,      \* the type of each event
    HandlersOf,   \* the handlers of each type, in the order they subscribe
    Strict,       \* handlers that reject a payload that is not a struct value
    Lenient,      \* handlers that ignore a payload that is not a struct value
    TypesFirst,   \* types whose payload is registered before the handlers
    Earlier,      \* the types whose handlers subscribe before those of a type
    MaxSeen,      \* bound: effects of a handler are counted up to this
    Faults        \* what may go wrong

FaultKinds == {"crash", "handler", "publish", "ack", "subscribe", "slow"}

ASSUME EventsConstants ==
    /\ Drivers \subseteq {"memory", "nats"}
    /\ TopicOf \in [Event -> Topic]
    /\ HandlersOf \in [Topic -> Seq(Handler)]
    /\ \A t \in Topic : HandlersOf[t] # <<>>
    /\ Strict \subseteq Handler /\ Lenient \subseteq Handler
    /\ TypesFirst \subseteq Topic
    /\ Earlier \in [Topic -> SUBSET Topic]
    /\ MaxSeen \in Nat \ {0}
    /\ Faults \subseteq FaultKinds

VARIABLES
    driver,   \* EVENT_BUS_DRIVER: "memory" or "nats", the same in every process
    known,    \* registry: the types each process can create a payload for
    wired,    \* how many handlers of each type have subscribed, per process
    live,     \* the types each process has a subscription with the stream for
    durable,  \* the type whose subject the consumer has, once there is one: {} or {t}
    pub,      \* how far the publisher of each event is
    msg,      \* each event's message in the stream
    out,      \* the message is with a worker, and AckWait has not passed
    next,     \* the handler each process is to call next for an event, or 0
    last,     \* the number of handlers it read when the delivery began
    done,     \* how often each handler has returned nil for an event
    served    \* history: handlers called by the delivery that was acknowledged

wiringVars == <<driver, known, wired, live, durable>>
deliveryVars == <<next, last>>
vars == <<wiringVars, pub, msg, out, deliveryVars, done, served>>

-----------------------------------------------------------------------------

Width(t) == Len(HandlersOf[t])

\* The memory driver hands over the struct itself, the nats driver the pointer
\* CreatePayload returned; the handlers assert the struct.
Rejects(h) == driver = "nats" /\ h \in Strict
Ignores(h) == driver = "nats" /\ h \in Lenient

Handles(p, e) == next[p][e] > 0

Ready(p) == \A t \in Topic : t \in known[p] /\ wired[p][t] = Width(t)

Init ==
    /\ driver \in Drivers
    /\ known = [p \in Process |-> {}]
    /\ wired = [p \in Process |-> [t \in Topic |-> 0]]
    /\ live = [p \in Process |-> {}]
    /\ durable = {}
    /\ pub = [e \in Event |-> "idle"]
    /\ msg = [e \in Event |-> "none"]
    /\ out = [e \in Event |-> FALSE]
    /\ next = [p \in Process |-> [e \in Event |-> 0]]
    /\ last = [p \in Process |-> [e \in Event |-> 0]]
    /\ done = [e \in Event |-> [h \in Handler |-> 0]]
    /\ served = [e \in Event |-> 0]

-----------------------------------------------------------------------------
(* Start-up.                                                               *)

\* events.Register: before the handlers of authentication, after those of todo.
Register(p, t) ==
    /\ t \notin known[p]
    /\ t \in TypesFirst \/ wired[p][t] = Width(t)
    /\ known' = [known EXCEPT ![p] = @ \cup {t}]
    /\ UNCHANGED <<driver, wired, live, durable, pub, msg, out, deliveryVars, done, served>>

\* QueueSubscribe creates the consumer "event-bus", or joins it if it has the subject.
Joins(t) == driver = "nats" /\ durable \subseteq {t}

\* Subscribe; the first handler of a type opens the subscription.  An error it ends
\* with, because of the subject or because JetStream fails, is ignored.
Subscribe(p, t) ==
    /\ wired[p][t] < Width(t)
    /\ \A s \in Earlier[t] : wired[p][s] = Width(s)
    /\ t \in TypesFirst => t \in known[p]
    /\ wired' = [wired EXCEPT ![p][t] = @ + 1]
    /\ LET opens == wired[p][t] = 0 /\ Joins(t) IN
       \/ opens /\ live' = [live EXCEPT ![p] = @ \cup {t}] /\ durable' = {t}
       \/ (~opens \/ "subscribe" \in Faults) /\ UNCHANGED <<live, durable>>
    /\ UNCHANGED <<driver, known, pub, msg, out, deliveryVars, done, served>>

-----------------------------------------------------------------------------
(* Publishing.                                                             *)

\* The write that the event reports commits.
Commit(e) ==
    /\ pub[e] = "idle"
    /\ pub' = [pub EXCEPT ![e] = "committed"]
    /\ UNCHANGED <<wiringVars, msg, out, deliveryVars, done, served>>

\* InMemoryEventBus.Publish: the handlers run in the caller.
PublishInMemory(p, e) ==
    /\ driver = "memory"
    /\ pub[e] = "committed" /\ Ready(p)
    /\ pub' = [pub EXCEPT ![e] = "published"]
    /\ next' = [next EXCEPT ![p][e] = 1]
    /\ last' = [last EXCEPT ![p][e] = wired[p][TopicOf[e]]]
    /\ UNCHANGED <<wiringVars, msg, out, done, served>>

\* NATSEventBus.Publish; the stream keeps a message only if a consumer has its subject.
PublishToStream(p, e) ==
    /\ driver = "nats"
    /\ pub[e] = "committed" /\ Ready(p)
    /\ pub' = [pub EXCEPT ![e] = "published"]
    /\ msg' = [msg EXCEPT ![e] = IF TopicOf[e] \in durable THEN "stored" ELSE "dropped"]
    /\ UNCHANGED <<wiringVars, out, deliveryVars, done, served>>

\* The stream refuses or the process dies; the command handler ignores it.
PublishFails(e) ==
    /\ "publish" \in Faults
    /\ pub[e] = "committed"
    /\ pub' = [pub EXCEPT ![e] = "lost"]
    /\ UNCHANGED <<wiringVars, msg, out, deliveryVars, done, served>>

-----------------------------------------------------------------------------
(* Delivery.                                                               *)

\* Mutant of Deliverable: a message goes to every subscription.
DeliverableToAll(p, e) ==
    /\ msg[e] = "stored"
    /\ TopicOf[e] \in live[p]
    /\ \A f \in Event : TopicOf[f] = TopicOf[e] => ~Handles(p, f)

Deliverable(p, e) ==
    /\ msg[e] = "stored" /\ ~out[e]
    /\ TopicOf[e] \in live[p]
    /\ \A f \in Event : TopicOf[f] = TopicOf[e] => ~Handles(p, f)

\* The callback reads the handlers.
Deliver(p, e) ==
    /\ Deliverable(p, e)
    /\ TopicOf[e] \in known[p]
    /\ out' = [out EXCEPT ![e] = TRUE]
    /\ next' = [next EXCEPT ![p][e] = 1]
    /\ last' = [last EXCEPT ![p][e] = wired[p][TopicOf[e]]]
    /\ UNCHANGED <<wiringVars, pub, msg, done, served>>

\* CreatePayload knows nothing of the type: the message is acknowledged unread.
DeliverUnknown(p, e) ==
    /\ Deliverable(p, e)
    /\ TopicOf[e] \notin known[p]
    /\ msg' = [msg EXCEPT ![e] = "unread"]
    /\ UNCHANGED <<wiringVars, pub, out, deliveryVars, done, served>>

Counted(n) == IF n < MaxSeen THEN n + 1 ELSE n

Stop(p, e) ==
    /\ next' = [next EXCEPT ![p][e] = 0]
    /\ last' = [last EXCEPT ![p][e] = 0]

\* The i-th handler returns nil.
Handle(p, e, i) ==
    LET h == HandlersOf[TopicOf[e]][i] IN
    /\ next[p][e] = i /\ i <= last[p][e]
    /\ ~Rejects(h)
    /\ next' = [next EXCEPT ![p][e] = i + 1]
    /\ done' = [done EXCEPT ![e][h] = Counted(@)]
    /\ UNCHANGED <<wiringVars, pub, msg, out, last, served>>

\* Mutant of HandlerFails: the remaining handlers are tried all the same.
HandlerFailsOn(p, e) ==
    /\ Handles(p, e) /\ next[p][e] <= last[p][e]
    /\ "handler" \in Faults \/ Rejects(HandlersOf[TopicOf[e]][next[p][e]])
    /\ next' = [next EXCEPT ![p][e] = @ + 1]
    /\ UNCHANGED <<wiringVars, pub, msg, out, last, done, served>>

\* Mutant of HandlerFails: the message is acknowledged.
HandlerFailsAcked(p, e) ==
    /\ Handles(p, e) /\ next[p][e] <= last[p][e]
    /\ "handler" \in Faults \/ Rejects(HandlersOf[TopicOf[e]][next[p][e]])
    /\ Stop(p, e)
    /\ out' = [out EXCEPT ![e] = FALSE]
    /\ msg' = IF driver = "nats" THEN [msg EXCEPT ![e] = "acked"] ELSE msg
    /\ UNCHANGED <<wiringVars, pub, done, served>>

\* A handler returns an error: Publish returns it, or the message is Nak'ed.
HandlerFails(p, e) ==
    /\ Handles(p, e) /\ next[p][e] <= last[p][e]
    /\ "handler" \in Faults \/ Rejects(HandlersOf[TopicOf[e]][next[p][e]])
    /\ Stop(p, e)
    /\ out' = [out EXCEPT ![e] = FALSE]
    /\ UNCHANGED <<wiringVars, pub, msg, done, served>>

\* All handlers have returned; the message is acknowledged.
Finish(p, e) ==
    /\ Handles(p, e) /\ next[p][e] > last[p][e]
    /\ Stop(p, e)
    /\ IF driver = "nats"
       THEN /\ msg' = [msg EXCEPT ![e] = "acked"]
            /\ out' = [out EXCEPT ![e] = FALSE]
            /\ served' = [served EXCEPT ![e] = last[p][e]]
       ELSE UNCHANGED <<msg, out, served>>
    /\ UNCHANGED <<wiringVars, pub, done>>

\* The acknowledgement does not arrive; the callback ignores the error.
AckLost(p, e) ==
    /\ "ack" \in Faults /\ driver = "nats"
    /\ Handles(p, e) /\ next[p][e] > last[p][e]
    /\ Stop(p, e)
    /\ UNCHANGED <<wiringVars, pub, msg, out, done, served>>

\* Mutant of AckWaitPasses: a message is delivered once.
AckWaitIsForever(e) == FALSE /\ UNCHANGED vars

\* AckWait passes: the worker is gone, or it is slow.
AckWaitPasses(e) ==
    /\ msg[e] = "stored" /\ out[e]
    /\ "slow" \in Faults \/ \A p \in Process : ~Handles(p, e)
    /\ out' = [out EXCEPT ![e] = FALSE]
    /\ UNCHANGED <<wiringVars, pub, msg, deliveryVars, done, served>>

\* Mutant of Crash: its deliveries go on.
CrashHalf(p) ==
    /\ "crash" \in Faults
    /\ known' = [known EXCEPT ![p] = {}]
    /\ wired' = [wired EXCEPT ![p] = [t \in Topic |-> 0]]
    /\ live' = [live EXCEPT ![p] = {}]
    /\ UNCHANGED <<driver, durable, pub, msg, out, deliveryVars, done, served>>

Crash(p) ==
    /\ "crash" \in Faults
    /\ known' = [known EXCEPT ![p] = {}]
    /\ wired' = [wired EXCEPT ![p] = [t \in Topic |-> 0]]
    /\ live' = [live EXCEPT ![p] = {}]
    /\ next' = [next EXCEPT ![p] = [e \in Event |-> 0]]
    /\ last' = [last EXCEPT ![p] = [e \in Event |-> 0]]
    /\ UNCHANGED <<driver, durable, pub, msg, out, done, served>>

Publish(e) == \E p \in Process : PublishInMemory(p, e) \/ PublishToStream(p, e)

Next ==
    \/ \E p \in Process, t \in Topic : Register(p, t) \/ Subscribe(p, t)
    \/ \E e \in Event : Commit(e) \/ Publish(e) \/ PublishFails(e) \/ AckWaitPasses(e)
    \/ \E p \in Process, e \in Event :
        \/ Deliver(p, e) \/ DeliverUnknown(p, e)
        \/ \E i \in 1..Width(TopicOf[e]) : Handle(p, e, i)
        \/ HandlerFails(p, e) \/ Finish(p, e) \/ AckLost(p, e)
    \/ \E p \in Process : Crash(p)

Spec == Init /\ [][Next]_vars

\* Processes start and publish, the stream goes on delivering, and a handler and
\* an acknowledgement that are tried again and again succeed at last.
Fairness ==
    /\ \A t \in Topic :
        /\ SF_vars(\E p \in Process : Register(p, t))
        /\ SF_vars(\E p \in Process : Subscribe(p, t))
    /\ \A e \in Event :
        /\ SF_vars(Publish(e))
        /\ SF_vars(\E p \in Process : Deliver(p, e))
        /\ \A i \in 1..Width(TopicOf[e]) : SF_vars(\E p \in Process : Handle(p, e, i))
        /\ SF_vars(\E p \in Process : Finish(p, e))
        /\ WF_vars(AckWaitPasses(e))
        /\ WF_vars(\E p \in Process : HandlerFails(p, e))

FairSpec == Spec /\ Fairness

-----------------------------------------------------------------------------
(* Properties.                                                             *)

\* Registry, subscriptions, messages and deliveries have their types; a process
\* delivers only to handlers that are subscribed, and one event of a type at a
\* time from the stream.
TypeOK ==
    /\ driver \in Drivers
    /\ known \in [Process -> SUBSET Topic]
    /\ wired \in [Process -> [Topic -> Nat]]
    /\ live \in [Process -> SUBSET Topic]
    /\ durable \subseteq Topic /\ \A s, t \in durable : s = t
    /\ pub \in [Event -> {"idle", "committed", "published", "lost"}]
    /\ msg \in [Event -> {"none", "stored", "acked", "unread", "dropped"}]
    /\ out \in [Event -> BOOLEAN]
    /\ next \in [Process -> [Event -> Nat]]
    /\ last \in [Process -> [Event -> Nat]]
    /\ done \in [Event -> [Handler -> 0..MaxSeen]]
    /\ served \in [Event -> Nat]
    /\ \A p \in Process, t \in Topic : wired[p][t] <= Width(t)
    /\ \A p \in Process, e \in Event :
        /\ last[p][e] <= wired[p][TopicOf[e]]
        /\ next[p][e] <= last[p][e] + 1
    /\ \A e \in Event : served[e] <= Width(TopicOf[e])

\* The first n handlers of an event have returned nil.
Handled(e, n) == \A i \in 1..n : done[e][HandlersOf[TopicOf[e]][i]] > 0

\* A message is acknowledged only after every handler that its delivery found
\* has returned without error ("If all handlers succeed -> Ack()", NATS design).
AckedMeansServed == \A e \in Event : msg[e] = "acked" => Handled(e, served[e])

\* At-least-once: a message is acknowledged only after every handler of its type
\* has returned nil, but for one that a starting process did not know the type of.
AckedMeansHandledUnlessUnread ==
    \A e \in Event : msg[e] = "acked" => Handled(e, Width(TopicOf[e]))

\* A handler never completes more often than one before it in the order of
\* subscription, whatever fails and however often a message comes again.
EffectsInOrder ==
    \A e \in Event : \A i, j \in 1..Width(TopicOf[e]) :
        LET H == HandlersOf[TopicOf[e]] IN
        i < j => done[e][H[i]] >= done[e][H[j]]

\* At-most-once, the memory driver's guarantee (docs/README): whatever fails or
\* dies, no handler completes twice.
AtMostOnce == driver = "memory" => \A e \in Event : \A h \in Handler : done[e][h] <= 1

\* "Only one worker receives each message" (NATS design).
OneWorkerPerMessage ==
    \A e \in Event : \A p, q \in Process : Handles(p, e) /\ Handles(q, e) => p = q

\* What the stream has kept is acknowledged sooner or later, whatever crashes, is
\* refused or gets lost on the way ("Message redelivered to another worker", NATS design).
KeptIsAcknowledged == \A e \in Event : msg[e] = "stored" ~> msg[e] \in {"acked", "unread"}

\* An event that was published takes effect with every handler of its type sooner
\* or later ("transparent to all existing handlers", NATS design).
EveryEventTakesEffect ==
    \A e \in Event : (driver = "nats" /\ pub[e] = "published") ~>
        (\A i \in 1..Width(TopicOf[e]) :
            LET h == HandlersOf[TopicOf[e]][i] IN done[e][h] > 0 /\ ~Ignores(h))
=============================================================================
