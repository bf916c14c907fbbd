SPECIFICATION AllSpec
CONSTANTS
  Parts = {"stream", "archive", "composer"}
  None = None
  alice = alice
  bob = bob
  Convs = {alice, bob}
  Server = "server"
  Stored <- FourStored
  Blocked <- OneBlocked
  Cursors <- TheirCursors
  PageMax = 2
  MaxSessions = 2
  MaxSyncs = 2
  MaxTexts = 1
  MaxLinks = 1
  MaxPresses = 1
  MaxStaged = 1
  MaxThreads = 1
  MaxTasks = 1
  Modulus = 3
  Every = 4
  MaxStanzas = 4
  MaxInbound = 2
CHECK_DEADLOCK FALSE
INVARIANT AllTypesOK
INVARIANT KeptUntilAcked
INVARIANT CaughtUp
INVARIANT CompleteMeansFetched
INVARIANT CaptureBound
INVARIANT ShownIsSent
PROPERTY SyncCompletes
PROPERTY VoiceEnds
