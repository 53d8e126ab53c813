SPECIFICATION WorkerSpec
CHECK_DEADLOCK FALSE
CONSTANTS
    Albums = {a1, a2}
    Photos = {p1, p2}
    Deletes = {d1, d2}
    Puts = {u1}
    MaxAttempts = 2
    BodySeqs = {0}
    Failures = TRUE
    StaleReads = TRUE
    Announced = {p1}
    MaxReceives = 2
CONSTRAINT PutsBeforeDeletes
SYMMETRY Symmetry
INVARIANTS
    SeqUnique
    CompletedHasObject
    AcceptedHasRow
    DeletedStaysDeleted
    OrphansExplained
