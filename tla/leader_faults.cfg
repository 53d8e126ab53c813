SPECIFICATION LoadSpec
CHECK_DEADLOCK FALSE
CONSTANTS
    Leader = leader
    NoValue = none
    Followers = {f1, f2}
    Keys = {k1}
    Values = {v1, v2}
    W = 2
    R = 2
    Writes = {w1, w2}
    Reads = {r1, r2}
    Unreliable = {f1, f2}
    Restartable = {leader, f1}
    MaxRestarts = 1
CONSTRAINT ReadsBound
SYMMETRY Symmetry
INVARIANTS
    TypeOK
    OneValuePerVersion
    LeaderIsNewest
    AckedOnQuorum
    RefusedOnlyWithoutQuorum
    LeaderReadsMonotone
    CountedRightly
    DeliveredMeansConverged
PROPERTIES
    CopiesOnlyAdvance
