SPECIFICATION LoadSpec
CHECK_DEADLOCK FALSE
CONSTANTS
    NoValue = none
    Nodes = {n1, n2, n3}
    Keys = {k1}
    Values = {v1, v2}
    Writes = {w1, w2}
    Reads = {r1}
    Unreliable = {n2}
    Restartable = {n1, n2}
    MaxRestarts = 1
SYMMETRY Symmetry
INVARIANTS
    AckedVersionEverywhere
    CoordinatorReadsOwnWrite
    EveryReadSeesAcked
    DeliveredMeansConverged
    FreshSeesRecorded
