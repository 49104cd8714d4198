SPECIFICATION Spec
CONSTANTS
    p1 = p1
    p2 = p2
    e1 = e1
    e2 = e2
    mail = mail
    todo = todo
    mailer = mailer
    logger = logger
    auditor = auditor
    Process <- TwoProcesses
    Topic <- TodoOnly
    Event <- TwoEvents
    Handler <- AllHandlers
    TopicOf <- AllTodo
    HandlersOf <- Double
    Strict <- None
    Lenient <- None
    TypesFirst <- None
    Earlier <- TodoFirst
    Drivers <- Either
    MaxSeen = 2
    Faults = {"crash", "handler", "publish", "ack", "subscribe", "slow"}
\* When every event has been dealt with nothing is left to do.
CHECK_DEADLOCK FALSE
INVARIANT TypeOK
INVARIANT AckedMeansServed
INVARIANT EffectsInOrder
