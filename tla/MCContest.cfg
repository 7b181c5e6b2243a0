SPECIFICATION Spec
CONSTANTS
    RpsPer <- MCRpsPer
    WaveCount = 3
    Cadence = 2
    Word = 65536
    DefaultMaxTasksPerWorker = 8
    DefaultScoring <- MCDefaultScoring
    MaxWaves = 5
    MaxU64 = 1000
    MaxLeaderboardRows = 2
    DefaultLeaderboardRows = 2
    MaxLeaderboardOffset = 2
    Environments <- MCEnvironments
    Unset = Unset
INVARIANTS
    AcceptedIsServed
    SessionsApart
    FasterRanksNoLower
    NoneSkipped
CHECK_DEADLOCK FALSE
