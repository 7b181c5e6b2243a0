SPECIFICATION FairSpec
CONSTANTS
    s1 = s1
    s2 = s2
    s3 = s3
    p1 = p1
    p2 = p2
    p3 = p3
    b1 = b1
    b2 = b2
    NoSession = NoSession
    NoBand = NoBand
    Bands <- MCBands
    Jobs <- MCJobs
    Partitions <- MCPartition1
    Sessions <- MCSessions2
    Environments <- MCLiveness
PROPERTIES
    RunTerminates
CHECK_DEADLOCK FALSE
