\* Turns: two, each of whose calls may cost two thirds of the session's cap, and one
\* failure.  The bounds of the parts of MCParts come next, then those of MCWorlds; what the
\* patterns, the templates and the verdicts are about is in MCPipeline.
CONSTANTS
  MaxTurns = 2
  Cap = 3
  WarnAt = 2
  TurnCap = 2
  MaxCost = 2
  Retries = 1
  FailOpen = TRUE
  MaxFaults = 1
  A = a
  B = b
  C = c
  None = None
  Calls = {a, b}
  Requests = {a, b, c}
  Games = {1, 2, 3}
  Providers <- TwoProviders
  Tries = 2
  CallRetries = 1
  RequestLimit = 1
  Window = 1
  PatternConfig <- ShortAndLong
  Longest = 2
  MaxTime = 1
  MaxGames = 1
  AnonGames = 1
  MaxStarts = 1
  Keys = {a}
  Seeds = {a, b}
  NewChains <- FourChains
  ShortTerm = 1
  DormantAfter = 2
  MaxChains = 1
  Late = 1
  MaxTurn = 3
  MaxCreated = 2
  People = {"npc"}
  Stranger = "nowhere known"
  Feeding = {a, b}
  Axes = {"trust", "fear"}
  Fearful = "fear"
  AxisLimit = 3
  AxisStep = 2
  Familiar = 1
  ClampAt = 2
  MaxDeltas = 1
  MaxApplied = 3
  Runs = {a, b}
  MinTurns = 2
  MaxTimeouts = 2
  Parallel = 2
  PlayedTurns = 3
  Locations = {a, b}
  Entrance = a
  Connections <- TwoWays
  Items = {"item", "relic"}
  Home <- FirstHome
  Post <- FirstPost
  Tellers <- OneOrTwoTurns
  BatchSize <- TwoChangesOrOne
  Extracts <- WhatTurnsExtract
  Cast <- TwoCharacters
  Standing <- OneIsKey
  Schedule <- TwoSchedules
  Routine <- TwoRoutines
  Idling = "idle"
  Boundaries <- PartsOfDays
  Dawn = "dawn"
  Day = 60
  MinutesPerTick = 7
  TicksPerTurn = 1
  MaxSkip = 3
  MaxRequest = 4
  MaxTicks = 18
  MaxDepth = 3
  Surroundings = {a}
  Factions = {c}
  Talkers = {a, b, c}
  Episodes = {"theft", "feast"}
  MaxHops = 2
  Decrement = 2
  Floor = 2
  Edges <- FourEdges
  WorkingTurns = 1
  CompressAt = 1
  Lengths = {1, 2}
  SummaryLength = 1
  Lifetimes <- NeverOrOne
  MaxRecords = 3
  Servers = {a, b}
  Hyphened = TRUE
  Deployments = 2
  Graphs <- FourGraphs
  MaxVersions = 2
SPECIFICATION MCSpec
INVARIANTS
  BlockedTextLeavesNoTrace
  StoredIsTold
  OvershootIsOneCall
  GivesUpLast
  LimitsHold
  WorldIsWhole
  MemoryIsKept
  GenesisIsSound
  ClientsReportTruly
  PromptsAreLive
  RulesAreSound
PROPERTIES
  WhatIsSettledStays
CHECK_DEADLOCK FALSE
