SPECIFICATION Spec
CONSTANTS
    Assignments <- MCAssignments
    Environments <- MCEnvironments
    ReplayEnvironments <- MCReplayEnvironments
    Prices <- MCPrices
    NoSMP = NoSMP
    s1 = s1
    f1 = f1
    f2 = f2
    ShortedCapacity = 1
    TieToleranceNs = 1
    GapTaintPercent = 40
    Flows = {1, 2, 3}
    SeqSpace = 16
    T7Window = 1
    CrossFlowWindow = 1
    T7AnomalyCap = 20
    JitterBits = 6
    LateTaintPercent = 1
    JoinWindow = 4
    ReorderWindow = 1
    BotTimeout = 5
INVARIANTS
    VerdictExact
    MirrorsReference
    JoinComplete
    ReplayedInOrder
    FlagsExact
PROPERTIES
    PriceTimePriority
