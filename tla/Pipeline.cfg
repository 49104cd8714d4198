SPECIFICATION Spec
CONSTANTS
    q1 = q1
    q2 = q2
    u1 = u1
    t1 = t1
    a1 = a1
    noUser = noUser
    noToken = noToken
    noTenant = noTenant
    Request <- Requests2
    User <- Users1
    Token <- Tokens1
    Tenant <- Tenants1
    NoUser <- noUser
    NoToken <- noToken
    NoTenant <- noTenant
    TenantEnabled = TRUE
    TokenDenylist = TRUE
    Faults = TRUE
SYMMETRY PipelineSymmetry
INVARIANT TypeOK
INVARIANT FailuresRecordedOnce
INVARIANT AuditTellsAnswer
INVARIANT OnlyEntitledRun
INVARIANT MetricsAgree
