SPECIFICATION FairSpec
CONSTANTS
    s1 = s1
    s2 = s2
    p1 = p1
    p2 = p2
    w1 = w1
    w2 = w2
    Pods = {w1, w2}
    Partitions = {p1, p2}
    Sessions = {s1, s2}
    Cap = 2
    Environments <- MCShards
INVARIANTS
    StartTogether
    
PROPERTIES
    Settles
