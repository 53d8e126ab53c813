SPECIFICATION Spec
CHECK_DEADLOCK FALSE
CONSTANTS
    Albums = {a1}
    Photos = {p1, p2}
    Deletes = {}
    Puts = {u1, u2}
    MaxAttempts = 1
    BodySeqs = {0}
    Failures = FALSE
    StaleReads = FALSE
INVARIANTS
    NoDuplicateSeq
