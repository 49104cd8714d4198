SPECIFICATION FairSpec
CONSTANTS
    p1 = p1
    p2 = p2
    e1 = e1
    e2 = e2
    mail = mail
    todo = todo
    mailer = mailer
    logger = logger
    auditor = auditor
    Process <- OneProcess
    Topic <- Both
    Event <- OneEvent
    Handler <- AllHandlers
    TopicOf <- AllMail
    HandlersOf <- Single
    Strict <- StrictMailer
    Lenient <- LenientLogger
    TypesFirst <- MailOnly
    Earlier <- TodoFirst
    Drivers <- Stream
    MaxSeen = 1
    Faults = {}
\* When every event has been dealt with nothing is left to do.
CHECK_DEADLOCK FALSE
PROPERTY EveryEventTakesEffect
