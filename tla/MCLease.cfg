SPECIFICATION FairSpec
CONSTANTS
    p1 = p1
    p2 = p2
    p3 = p3
    s1 = s1
    s2 = s2
    s3 = s3
    s4 = s4
    Partitions <- MCPartitions
    Sessions <- MCSessions
    Counts <- MCCounts
INVARIANTS
    NoIdleCapacity
PROPERTIES
    NoOvertaking
    ImplementsExclusiveLease
    WaiterServed
