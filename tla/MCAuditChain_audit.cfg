SPECIFICATION Spec
CONSTANTS
    p1 = p1
    p2 = p2
    p3 = p3
    e1 = e1
    e2 = e2
    e3 = e3
    Processes = {p1, p2, p3}
    Events = {e1, e2, e3}
    MaxFailures = 3
    None = None
INVARIANTS
    TypeOK
    ChainVerifies
    DamageIsFound
PROPERTY ImplementsLog
CHECK_DEADLOCK FALSE
