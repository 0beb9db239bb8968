\* Two questions of one user and a reader without admission, one connection.
CONSTANTS
    a1 = a1
    a2 = a2
    p1 = p1
    Requests = {a1, a2, p1}
    Threads = {a1, a2, p1}
    Admitted = {a1, a2}
    Scoped = {a1, a2}
    Tenant <- MCTenant
    User <- MCUser
    GlobalLimit = 2
    TenantLimit = 2
    UserLimit = 1
    TenantRate = 3
    UserRate = 2
    Lease = 3
    Window = 1
    Conns = {c1}
    NoConn = NoConn
    MinConn = 1
    MaxConn = 1
    Selections = {s1}
    Deadline = 1
    Grace = 1
    MaxRetries = 2
SPECIFICATION Spec
SYMMETRY AskerSymmetry
INVARIANTS
    TypeOK
    SlotsConserved
    CancelsOwnCall
    RunningWithinLimits
    OneBuild
PROPERTIES
    SlotsByAdmission
