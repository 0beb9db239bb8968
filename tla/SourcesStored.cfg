\* A deletion races an upload of the same bytes.
CONSTANTS
    Documents = {d1, d2}
    Contents = {k1}
    Users = {u1, u2}
    Clients = {c1, c2}
    Scopes = {"tenant"}
    NumJobs = 2
    EpochModulus = 2
    NoDocument = NoDocument
SPECIFICATION Spec
CHECK_DEADLOCK FALSE
INVARIANT SourcesStored
