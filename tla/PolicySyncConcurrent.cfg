SPECIFICATION Spec
CONSTANTS
    u1 = u1
    u2 = u2
    r1 = r1
    r2 = r2
    p1 = p1
    p2 = p2
    x1 = x1
    x2 = x2
    i1 = i1
    i2 = i2
    q1 = q1
    q2 = q2
    User <- OneUser
    Role <- OneRole
    Perm <- OnePerm
    Right <- OneRight
    Instance <- OneInstance
    Request <- TwoRequests
    At <- Together
    Batch = {1, 2, 3, 4}
    Faults = TRUE
    Traffic = {"roles", "permissions", "delete", "update", "check"}
SYMMETRY CatalogueAndSlots
INVARIANT LoneSyncIsExact
INVARIANT NothingInvented
