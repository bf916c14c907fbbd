SPECIFICATION AllSpec
CONSTANTS
  Parts = {"presence", "history", "mutations", "muting", "rooms", "timeline", "sidebar",
           "shell", "forms", "styling"}
  None = None
  IdleAfter = 1
  XaAfter = 2
  MaxPending = 2
  Convs = {"c1", "c2"}
  Msgs = {1, 2}
  ConvOf <- ConversationOf
  Nobody = "nobody"
  MaxArrivals = 2
  MaxConnects = 2
  MaxActs = 2
  MaxJobs = 2
  Sent = {"m1", "m2"}
  Emojis = {"e1", "e2"}
  MaxMutationsClicks = 2
  MaxPeer = 2
  MaxToggles = 3
  MaxMutingStarts = 2
  Halls = {"r1", "r2"}
  Public = {"r1"}
  Marked = {"r1"}
  Nicks = {"me", "bob"}
  Me = "me"
  NoHall = "no hall"
  MaxUser = 2
  MaxServer = 1
  MaxLogins = 2
  Self = "me"
  Others = {"bob"}
  Kept <- OneGreeting
  OmemoOn = TRUE
  MaxLines = 3
  MaxClock = 2
  MaxTimelinePresses = 4
  Jids = {"a", "b"}
  Roster = {"a"}
  Cached = {"a", "b"}
  NoJid = "none"
  SeveralAccounts = TRUE
  MaxClicks = 4
  MaxNews = 1
  MaxStarts = 1
  Palette <- Labelled
  Queries = {"", "spam", "open", "zzz"}
  Score <- Scores
  Capacity = 1
  MaxKeys = 4
  MaxToasts = 2
  MaxStanzas = 2
  MaxDepth = 3
  Venues = {"r1", "r2", "r3"}
  Unnamed = {"r3"}
  InWords = {"r2"}
  Sheets <- Papers
  MaxAsked = 2
  MaxFormsPresses = 4
  MaxSheets = 2
  Alphabet = {"a", " ", "*", "_", ")", "(", ">", "http", "n"}
  MaxLength = 5
CHECK_DEADLOCK FALSE
INVARIANT AllTypesOK
INVARIANT ShownIsEffective
INVARIANT HistoryIsTrue
INVARIANT PanelAgrees
INVARIANT ScreensAgree
INVARIANT FrameKeepsUp
INVARIANT FormsKeepApart
INVARIANT BodiesKept
PROPERTY NothingComesBack
