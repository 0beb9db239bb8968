\* Two requests of one owner, two documents, three jobs.
CONSTANTS
    Documents = {d1, d2}
    Contents = {k1, k2}
    Users = {u1}
    Clients = {c1, c2}
    Scopes = {"tenant"}
    NumJobs = 3
    EpochModulus = 2
    NoDocument = NoDocument
SPECIFICATION Spec
SYMMETRY Symmetric
CHECK_DEADLOCK FALSE
INVARIANTS
    TypeOK
    HistoryComplete
    OwnerContentUnique
    DeletionComplete
