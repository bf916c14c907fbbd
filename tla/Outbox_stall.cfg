SPECIFICATION FairSpec
CONSTANTS
  Cap = 2
  Rate = 1
  Burst = 2
  CmdCap = 2
  MaxPushed = 4
  MaxTicks = 0
  MaxSessions = 1
CHECK_DEADLOCK FALSE
PROPERTY Drains
