SPECIFICATION FairSpec
CONSTANTS
  a1 = a1
  s1 = s1
  s2 = s2
  k1 = k1
  k2 = k2
  Agent = {a1}
  Key = {k1}
  Session = {s1}
  Payee <- OnePayee
  OwnKey <- SameKey
  Profile <- Upgraded
  Drift <- Ahead
  PayPolicy <- MCPayPolicy
  LiveHandshake = TRUE
  Skew = 2
  Window = 1
  MaxAnswers = 1
  MaxRevoked = 1
  MaxAge = 1
  MaxRotationChain = 2
  MaxTime = 1
INVARIANTS
  KnownRevocationHolds
PROPERTIES
  EveryCallEnds
CHECK_DEADLOCK FALSE
