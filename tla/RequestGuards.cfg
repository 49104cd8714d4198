SPECIFICATION FairSpec
CONSTANTS
    r1 = r1
    r2 = r2
    r3 = r3
    c1 = c1
    c2 = c2
    k1 = k1
    noKey = noKey
    noRequest = noRequest
    Request <- MCRequest
    Client <- MCClient
    Key <- MCKey
    NoKey <- noKey
    NoRequest <- noRequest
    ClientOf <- MCClientOf
    KeyOf <- MCKeyOf
    Limit = 1
    Faults <- MCFaults
\* every request is sent once: the system may run out of work
CHECK_DEADLOCK FALSE
INVARIANT TypeOK
INVARIANT LimitHolds
INVARIANT WindowCloses
INVARIANT SafeRetry
INVARIANT ReplayIsReal
PROPERTY RefusalEnds
