SPECIFICATION Spec
CONSTANTS
    u1 = u1
    t1 = t1
    t2 = t2
    t3 = t3
    q1 = q1
    q2 = q2
    noUser = noUser
    noToken = noToken
    User <- Users1
    Token <- Tokens3
    Request <- Requests2
    NoUser <- noUser
    NoToken <- noToken
    MaxReset = 1
    MaxPurge = 1
    Faults = TRUE
    Traffic = {"login", "refresh", "logout", "logout_all", "reset", "account", "admin", "expiry"}
\* An account that is never verified can do nothing.
CHECK_DEADLOCK FALSE
CONSTRAINT Bounds
SYMMETRY SessionSymmetry
INVARIANT TypeOK
INVARIANT SingleUseUnlessShared
INVARIANT LogoutAllEndsSessionsUnlessMixed
INVARIANT SpentTokensStayDead
INVARIANT ResetForcesReloginUnlessCrossed
