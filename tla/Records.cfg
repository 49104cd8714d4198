SPECIFICATION Spec
CONSTANTS
    q1 = q1
    q2 = q2
    i1 = i1
    i2 = i2
    n1 = n1
    n2 = n2
    t1 = t1
    None = None
    Request <- MCRequest
    Faulty <- MCFaulty
    Id <- MCId
    Name <- MCName
    Text <- MCText
CONSTRAINT Bounds
SYMMETRY Symmetry
INVARIANTS
    TypeOK
    LastEventIsLastWrite
PROPERTY
    ImplementsCatalogue
