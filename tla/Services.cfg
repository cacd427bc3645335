CONSTANTS
  None = None
  Turn = {t1, t2}
  MaxItems = 3
  MaxTurns = 2
  MinAudio = 1
  MaxAudio = 1
  MaxWire = 2
  MaxWords = 2
  MaxDelegations = 2
  MaxTyped = 1
  MaxInterrupts = 1
  MaxChunks = 1
  MaxRequests = 2
  Key = {k1, k2}
  Report = {"ringing", "connected", "completed"}
  MaxFragments = 2
  MaxDelegated = 3
  MaxTurnsPerCall = 2
  MaxStarts = 2
  MaxLines = 2
  MaxCloses = 2
  MaxDialled = 1
  Sessions = 2
  MaxDeliveries = 3
  MaxToolUsers = 2
  MaxToolTasks = 3
  ToolsPerCall = 2
  ToolSlots = 1
  MaxToolRounds = 2
  MaxToolCalls = 5
  MaxClientInputs = 2
  MaxReplies = 4
  MaxKept = 4
  MaxInput = 2
  MaxForgets = 1
  MaxFaceRequests = 4
  Subject = {a, b}
  MaxSaves = 3
  Enrollee = {a, b}
  MaxStoreRequests = 3
  ScenarioId = {a, b}
  Demo = {a, b}
  Settings = 2
  MaxSettingRequests = 3
  Passkey = {k1}
  MaxChallenges = 3
  MaxFinishes = 3
  MaxCount = 3
  MaxDirect = 1
  Legs = 1
  MaxAnnouncements = 4
SPECIFICATION Spec
INVARIANTS TypesOK FinalsStayAttached OneOwner WordsOnce SessionEndsClean CallsAreSingle ToolsBounded HistoryIsWhole FacesAreKept BootstrapsAgree OneUsePerChallenge
PROPERTIES OnlyCurrentSpeaks ClaimIsReleased SignCountGrows
CHECK_DEADLOCK FALSE
