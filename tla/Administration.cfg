\* Three accounts of two emails, handled two at a time; a table of two chunks; two
\* uploads beside a reader of lists; two workers and the trace of a job.
CONSTANTS
    Calls = {h1, h2}
    Emails = {e1, e2}
    Addresses = {a1}
    Gateways = {g1}
    NoGateway = NoGateway
    EnvGateway = EnvGateway
    Operators = {1}
    MaxHits = 1
    Window = 0
    Fresh = 1
    MaxUsers = 3
    MaxTokens = 3
    Chunks = {e1, e2}
    Profiles = {p1, p2}
    NoProfile = NoProfile
    Processes = {w1, w2}
    Names = {h1, h2}
    Principals <- MCPrincipals
    Callers <- MCCallers
    PlatformTenant = "t2"
    Uploads <- MCUploads
    Requests = {h1, h2}
    Stock <- MCStock
    MaxSize = 2
    MaxLimit = 2
    Limits = {0, 9}
    MaxDocuments = 4
    MaxWrites = 3
    Omitted = Omitted
    NoDocument = NoDocument
    Workers = {h1, h2}
    Stages = 2
    MaxAttempts = 2
    NoWorker = NoWorker
SPECIFICATION Spec
SYMMETRY AdministrationSymmetry
INVARIANTS
    TypeOK
    AccountsSound
    IndexConsistent
    ShownTruthful
CHECK_DEADLOCK FALSE
