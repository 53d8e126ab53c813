SPECIFICATION ProxiedFairSpec
CONSTANTS
    Clients = {c1, c2, c3}
    FailureThreshold = 3
    SuccessThreshold = 2
    MaxFailures = 4
    CrashThreshold = 3
INVARIANTS
    ClosedCountsRun
PROPERTIES
    ClosesOnSuccessesOnly
    OpenSparesBackend
    Recovers
    CrashIsShielded
