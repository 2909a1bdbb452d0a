\* Each service alone: three crews and two slots; arenas of nine and of seventeen units with
\* up to all of it gone; a budget of three and requests of up to two; three facts of
\* which two are looked at; three writes, two days and one restart.
SPECIFICATION ServicesSpec
CONSTANTS
  Crews = {"a", "b", "c"}
  Offers <- MCOffers
  MaxNodes = 2
  MaxCapabilities = 1
  StaleAfter = 1
  MaxNow = 2
  MaxWire = 1
  MaxDispatches = 1
  A2ARoom = 9
  MaxPeers = 2
  MaxAgents = 3
  MaxAsks = 2
  ArenaUnits = 17
  MaxTaskLen = 2
  MaxOutputLen = 3
  NoticeMax = 3
  Lengths = {0, 1, 3, 4}
  MaxTasks = 2
  Findings <- MCFindings
  MaxMatches = 2
  MarkerUnits = 2
  Budget = 3
  MaxTokens = 2
  Backlog = 2
  MaxCalls = 3
  MaxStarts = 2
  Contents = {"name", "rust", "tea"}
  WordsOf <- MCWordsOf
  Questions <- MCQuestions
  Categories = {"user", "fact"}
  Labels <- MCLabels
  Decay <- MCDecay
  MaxCandidates = 2
  ToolFacts = 1
  ListFacts = 2
  PromptFacts = 3
  PromptLines = 2
  ZeroLines = 1
  MaxMishaps = 1
  Losable <- MCLosable
  MaxDay = 1
  MaxFacts = 3
  MemoryRoom = 2
  RecentRoom = 2
  MaxWrites = 2
  MaxRestarts = 1
  TextSizes = {1, 3}
  TextMax = 2
  NoteOf <- MCNoteOf
  MaxDays = 2
  MaxSpent = 2
  Remote = {"openai", "anthropic"}
  FirstProvider = "openai"
  MaxFallbacks = 4
  ConfigFiles <- MCConfigFiles
  Payees = {"x", "y", "z"}
  MaxPayees = 2
  UsageDays = 2
  MaxUsageDate = 3
  MaxRequests = 3
  MaxLives = 3
  SkillNames = {"n", "p"}
  Triggers = {"/t"}
  SkillFiles <- MCSkillFiles
  MaxSkills = 2
  LargestFile = 4
  SkillRoom = 4
  BodyMax = 4096
  Inputs = {0, 9}
  PromptRoom = 4168
  MaxFiles = 3
  MaxChanges = 2
  Strings = {"k"}
  Scalars = {"1"}
  MaxNesting = 2
  FirstCap = 1
  JsonRoom = 5
  MaxElements = 2
INVARIANTS
  MeshTruthful
  A2ATruthful
  DeliveredIsFit
  ProxyHolds
  FactsKept
  BestFirst
  MemoryKept
  SoulWhileRoom
  UsageAddsUp
  WellStarted
  SkillsAsFiled
  JsonIsRead
CHECK_DEADLOCK FALSE
