\* One question and one reader without admission share one connection.
CONSTANTS
    a1 = a1
    a2 = a2
    p1 = p1
    Requests = {a1, p1}
    Threads = {a1, p1}
    Admitted = {a1}
    Scoped = {a1}
    Tenant <- MCTenant
    User <- MCUser
    GlobalLimit = 1
    TenantLimit = 1
    UserLimit = 1
    TenantRate = 2
    UserRate = 2
    Lease = 3
    Window = 2
    Conns = {c1}
    NoConn = NoConn
    MinConn = 1
    MaxConn = 1
    Selections = {s1}
    Deadline = 1
    Grace = 1
    MaxRetries = 2
SPECIFICATION FairSpec
PROPERTIES
    RequestsEnd
