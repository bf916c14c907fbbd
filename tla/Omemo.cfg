SPECIFICATION Spec
CONSTANTS
  Devices = {d1, d2}
  None = None
  PreKeys = 1
  LowWatermark = 1
  BatchSize = 1
  MaxSessions = 2
  MaxMoves = 4
CHECK_DEADLOCK FALSE
INVARIANT OnlyVouched
INVARIANT Announced
PROPERTY DecisionIsKept
PROPERTY ImplementsKeyring
