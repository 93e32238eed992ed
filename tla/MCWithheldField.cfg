SPECIFICATION DocumentsSpec
CONSTANTS
  k1 = k1
  k2 = k2
  m1 = m1
  m2 = m2
  r1 = r1
  r2 = r2
  s1 = s1
  v1 = v1
  u1 = u1
  u2 = u2
  MaxRotationChain = 2
  Document <- MCDocument
  VerifierPolicy <- MCPolicy
  MaxTime = 3
  Prepared <- MCPrepared
  AskedPolicy <- MCAskedPolicy
  MaxPrepared = 2
  Posture <- MCPosture
  HeldPolicy <- MCHeldPolicy
  GatePolicy <- MCGatePolicy
  Intent <- MCIntent
  MaxDecisions = 2
  MaxPublished = 2
  IntHalf = 16
  StatusIndex = {0, 7, 8, 16, 32}
  FirstSize = 8
  GroupOrder = 31
  DefaultRangeBits = 2
  HiddenValue = {1, 5, 7, 9}
  WiderBits = {0, 3}
  Predicate <- MCPredicate
  MaxAttached = 2
  LevelCall = {v1}
  Credential <- MCCredential
  LiveScore <- MCLiveScore
  HumanThreshold = 2
  MaxProviderWrites = 2
  Agent = {k1, k2}
  NextKey = r1
  Model = {m1, m2}
  MaxIssued = 4
  RequestHash = {u1, u2}
  ScoredVerdict <- MCScoredVerdict
  ScoreOverride <- MCScoreOverride
  Consumer = {v1}
  MaxAttestations = 2
  MaxResponses = 2
  Request = {r1, r2}
  Posted <- MCPosted
  ServicePolicy <- MCPolicy
  Search = {s1}
  Url = {u1, u2}
  MaxCanonicalizeDepth = 1
  Served <- MCServed
  MaxServiceTime = 2
  MaxMoves = 2
  CommandLine <- MCCommandLine
  CliKey <- MCCliKey
  Path <- MCPath
  Edits <- MCEdits
  TokenTime <- MCTokenTime
  DefaultPolicy <- MCDefaultPolicy
  Hosted <- MCHosted
  CliNow = 1
INVARIANTS
  SufficientViewReachesVerdict
CHECK_DEADLOCK FALSE
