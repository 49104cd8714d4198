SPECIFICATION FairSpec
CONSTANTS
    p1 = p1
    p2 = p2
    e1 = e1
    e2 = e2
    mail = mail
    todo = todo
    mailer = mailer
    logger = logger
    auditor = auditor
    Process <- TwoProcesses
    Topic <- Both
    Event <- TwoEvents
    Handler <- AllHandlers
    TopicOf <- MailAndTodo
    HandlersOf <- Single
    Strict <- StrictMailer
    Lenient <- LenientLogger
    TypesFirst <- MailOnly
    Earlier <- TodoFirst
    Drivers <- Stream
    MaxSeen = 1
    Faults = {"crash", "handler", "publish", "ack"}
\* When every event has been dealt with nothing is left to do.
CHECK_DEADLOCK FALSE
INVARIANT AckedMeansHandledUnlessUnread
INVARIANT OneWorkerPerMessage
PROPERTY KeptIsAcknowledged
