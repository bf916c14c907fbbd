SPECIFICATION Spec
CONSTANTS
  Msgs <- CachedMsgs
  Limit = 2
  Page = 2
  MaxSessions = 1
  MaxJoins = 2
CHECK_DEADLOCK FALSE
INVARIANT NothingSwallowed
INVARIANT IdentifiedIsStored
