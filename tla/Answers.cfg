\* Two requests of a user, at once or one after the other, two passages, a corpus that
\* changes once, and two questions the cache confuses.
CONSTANTS
    Chunks = {k1, k2}
    Users = {u1}
    Questions = {q1, q2}
    Clients = {c1, c2}
    MaxEpoch = 1
    NoEntry = NoEntry
SPECIFICATION Spec
SYMMETRY Symmetric
CONSTRAINT Bounded
CHECK_DEADLOCK FALSE
INVARIANTS
    TypeOK
    CurrentEntriesComplete
    ServedIsCurrent
