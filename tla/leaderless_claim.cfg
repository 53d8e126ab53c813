SPECIFICATION Spec
CHECK_DEADLOCK FALSE
CONSTANTS
    n1 = n1
    n2 = n2
    n3 = n3
    w1 = w1
    w2 = w2
    r1 = r1
    v1 = v1
    v2 = v2
    NoValue = none
    Nodes = {n1, n2, n3}
    Keys = {k1}
    Values = {v1, v2}
    Writes = {w1, w2}
    Reads = {}
    Unreliable = {}
    Restartable = {}
    MaxRestarts = 0
SYMMETRY Symmetry
INVARIANTS
    AckedWriteEverywhere
