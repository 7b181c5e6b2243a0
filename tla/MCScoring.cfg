SPECIFICATION Spec
CONSTANTS
    s1 = s1
    s2 = s2
    g1 = g1
    v1 = v1
    v2 = v2
    w1 = w1
    w2 = w2
    c1 = c1
    Validators = {v1, v2}
    Workers = {w1, w2}
    ReadyCap = 1
    Viewers = {c1}
    ChannelCap = 1
    Environments <- MCEnvironments
INVARIANTS
    AnnouncedIsStored
    ScoredOnce
    
PROPERTIES
    EventuallyScored
CHECK_DEADLOCK FALSE
