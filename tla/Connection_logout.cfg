SPECIFICATION Spec
CONSTANTS
  None = None
  Cfgs = {right, wrong, broken}
  Good = {right}
  Invalid = {broken}
  Panels = {"Settings", "AccountSwitcher"}
  MaxDepth = 1
  CmdCap = 1
  EvtCap = 3
  MaxMoves = 3
  MaxFaults = 1
CHECK_DEADLOCK FALSE
INVARIANT LogoutEndsSession
