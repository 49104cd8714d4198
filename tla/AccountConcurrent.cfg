SPECIFICATION Spec
CONSTANTS
    q1 = q1
    q2 = q2
    c1 = c1
    c2 = c2
    noCode = noCode
    NoCode <- noCode
    Request <- TwoRequests
    Code <- Codes1
    MaxLoginAttempts = 2
    MaxHash = 2
    MaxLock = 2
    Faults = TRUE
    Traffic = {"register", "login", "forgot", "resend", "verify", "reset", "admin", "time"}
\* Past the bounds on locks and codes the account can come to rest.
CHECK_DEADLOCK FALSE
SYMMETRY AccountSymmetry
INVARIANT TypeOK
INVARIANT NothingLostUnlessOvertaken
INVARIANT DuplicateIsConflictUnlessTaken
PROPERTY AtomicUnlessOvertaken
