SPECIFICATION ChattySpec
CONSTANTS
  Cap = 2
  Rate = 1
  Burst = 2
  CmdCap = 2
  MaxPushed = 5
  MaxTicks = 3
  MaxSessions = 3
CHECK_DEADLOCK FALSE
INVARIANT RateLimited
PROPERTY Drains
PROPERTY ImplementsFifo
