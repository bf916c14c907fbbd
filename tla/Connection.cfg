SPECIFICATION FairSpec
CONSTANTS
  None = None
  Cfgs = {right, wrong, broken}
  Good = {right}
  Invalid = {broken}
  Panels <- PanelNames
  MaxDepth = 1
  CmdCap = 2
  EvtCap = 3
  MaxMoves = 3
  MaxFaults = 2
CHECK_DEADLOCK FALSE
INVARIANT OnlineIsShown
INVARIANT ChatIsBacked
PROPERTY NoRetryWithBadCreds
PROPERTY Settles
