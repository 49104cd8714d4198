SPECIFICATION FairSpec
CONSTANTS
    noCursor = noCursor
    noRow = noRow
    acme = acme
    nobody = nobody
    NoCursor <- noCursor
    NoRow <- noRow
    NoTenant <- nobody
    Tenant <- Tenants
    TenantOf <- Owner
    Time <- Times
    Id <- Ids
    Asked <- Sizes
    DefaultLimit = 2
    MaxLimit = 2
INVARIANT TypeOK
INVARIANT NoRowTwice
INVARIANT NothingSkipped
INVARIANT WalkIsInOrder
PROPERTY WalkEnds
