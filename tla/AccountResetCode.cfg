SPECIFICATION Spec
CONSTANTS
    q1 = q1
    q2 = q2
    c1 = c1
    c2 = c2
    noCode = noCode
    NoCode <- noCode
    Request <- OneRequest
    Code <- Codes1
    MaxLoginAttempts = 2
    MaxHash = 3
    MaxLock = 1
    Faults = FALSE
    Traffic = {"forgot", "reset"}
\* Past the bounds on locks and codes the account can come to rest.
CHECK_DEADLOCK FALSE
SYMMETRY AccountSymmetry
INVARIANT ResetCodeSingleUse
