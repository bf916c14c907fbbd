SPECIFICATION Spec
CONSTANTS
  Msgs <- Chats
  Limit = 3
  Page = 2
  MaxSessions = 1
  MaxJoins = 0
CHECK_DEADLOCK FALSE
INVARIANT NoDuplicates
