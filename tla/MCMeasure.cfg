SPECIFICATION Spec
CONSTANTS
  Environments <- MCEnv
  SeqSpace = 16
  MaxHold = 3
  StallLimit = 2
  MaxBuffered = 4
  IdleTime = 3
  MaxInflight = 4
  Timeout = 2
  FirstIdle = 2
  TimedOutIdle = 3
  WindowIdle = 5
  WaveLength = 2
  RollupLag = 1
  Lookback = 3
INVARIANTS
  TimesExact
  
  
  RolledUp
CHECK_DEADLOCK FALSE
