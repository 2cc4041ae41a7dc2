SPECIFICATION Spec
CONSTANTS
  Starters = {s1, s2}
  Specs = {x1, x2}
  NoSpec = NoSpec
  NoAddr = NoAddr
  InstanceLimits <- InstanceEventLimits
  Preparations = {r1, r2}
  Images = {"i1", "i2", "i3"}
  NoImage = NoImage
  Commits = {"c1", "c2"}
  BuiltFrom <- ImageOf
  Heavy = {"i3"}
  MaxMoves = 2
  Names = {"dim", "diM"}
  EnvName <- SmallEnvName
  SecretNames = {"API_KEY"}
  Schemas <- SmallSchemas
  Requests <- SmallRequests
  Durations = {"30s"}
  Exponential = 20
  MaxUpgrades = 1
  Asks <- SmallAsks
  HalfWord = 32768
  MaxCount = 1024
  MinMemory = 64
  MaxMemory = 256
  Ceiling = 128
  Types = {"llm", "vector-index"}
  PythonTypes = {"vector-index"}
  Ports = {0, 80, 8080}
  DefaultPort = 8080
  MinPort = 1024
  Ids = {e1, e2, e3}
  NoId = NoId
  MaxCalls = 6
  EventBuffer = 2
  MaxBatch = 2
  MaxEvents = 3
  MaxTroubles = 1
  Clients = {a, b}
  RateLimit = 2
  Window = 2
  SweepAbove = 1
  Horizon = 3
  Callers = {g1, g2}
  GeminiAttempts = 3
  OpenAIAttempts = 2
  LastDay = 1
  GivenLimit = 0
  QuotaLimit = 2
  PublicIds = {"a", "b", "c", "d"}
  Points = {0, 1, 2}
  Misfit = 9
  Rebuilds <- SmallRebuilds
  MaxNumber = 4
  Updaters = {u1, u2, u3}
  MaxAttempts = 2
  MaxLostReplies = 1
  MaxEntries = 5
  PageLimit = 2
  MaxPages = 2
SYMMETRY Symmetry
INVARIANTS
  PartsTypeOK
  InstanceKept
  PinnedIsVetted
  
  
  PoliciesMatchReference
  PolicyKeepsUp
  UpdatesAreKept
  LimitedFairly
  FallbackAndTally
  FoundAreStored
  ListedWhole
PROPERTIES
  PartsMeetContracts
CHECK_DEADLOCK FALSE
