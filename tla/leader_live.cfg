SPECIFICATION FairSpec
CHECK_DEADLOCK FALSE
CONSTANTS
    f1 = f1
    f2 = f2
    w1 = w1
    w2 = w2
    r1 = r1
    v1 = v1
    v2 = v2
    Leader = leader
    NoValue = none
    Followers = {f1, f2}
    Keys = {k1}
    Values = {v1, v2}
    W = 3
    R = 3
    Writes = {w1, w2}
    Reads = {r1}
    Unreliable = {f1}
    Restartable = {f1}
    MaxRestarts = 1
INVARIANTS
    EveryReadSeesAcked
PROPERTIES
    Answered
    WriteReachesFollowers
    Implements
