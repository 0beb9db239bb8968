\* One document, three jobs: a run that was superseded twice over.
CONSTANTS
    Documents = {d1}
    Contents = {k1, k2}
    Users = {u1}
    Clients = {c1, c2}
    Scopes = {"tenant", "global"}
    NumJobs = 3
    EpochModulus = 2
    NoDocument = NoDocument
SPECIFICATION Spec
SYMMETRY Symmetric
CHECK_DEADLOCK FALSE
INVARIANTS
    ActiveGenerationWhole
    SettledServesCurrent
    OneActiveJob
PROPERTIES
    NoRollback
    EpochCoversRetrieval
