SPECIFICATION AllSpec
CONSTANTS
  Parts = {"upload", "settings", "blocking", "accounts", "profile", "queries", "avatars",
           "registration", "disco", "dial", "vault"}
  Ghost = Ghost
  None = None
  Files = {a, b, c}
  MaxBatch = 2
  MaxSessions = 3
  MaxSettingsEdits = 4
  MaxLinks = 3
  MaxPrefs = 1
  MaxRuns = 1
  MaxCopies = 2
  Peers = {"p1", "p2"}
  MaxAsked = 2
  MaxSent = 1
  MaxUps = 2
  Users = {"u1", "u2"}
  MaxDeeds = 5
  MaxBinds = 2
  MaxMail = 1
  Mates = {"m1"}
  Resources = {"phone"}
  Texts = {"new"}
  MaxProfileEdits = 2
  MaxRosters = 2
  MaxProfileSessions = 2
  Services = {"s1", "s2"}
  MucService = "muc"
  Nodes = {"c1"}
  NodesOf <- Offers
  MaxMoves = 5
  MaxStreams = 1
  Friends = {"a", "b"}
  Pictures <- Portraits
  Width = 20
  Height = 10
  MaxShots = 2
  MaxFetches = 2
  MaxBreaks = 1
  MaxTries = 3
  MaxReplies = 1
  Identities <- OneIdentity
  Features <- TwoFeatures
  Contacts = {"a", "b"}
  MaxPresences = 2
  MaxRequests = 3
  MaxDiscoStreams = 2
  MaxDialEdits = 3
  MaxLogins = 2
  MaxDials = 4
  Halls = {"r1"}
  Trolls = {"t1", "t2"}
  WithPush = TRUE
  MaxOrders = 3
  MaxVaultSessions = 2
CHECK_DEADLOCK FALSE
INVARIANT AllTypesOK
INVARIANT GuardIsReleased
INVARIANT ChoiceKept
INVARIANT BlockedAgrees
INVARIANT ActiveIsRegistered
INVARIANT AvatarsAgree
INVARIANT RegistrationEnds
 
INVARIANT ServerIsRight
INVARIANT DialsAsTold
