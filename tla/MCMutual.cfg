SPECIFICATION MutualFairSpec
CONSTANTS
  a1 = a1
  a2 = a2
  s1 = s1
  s2 = s2
  k1 = k1
  k2 = k2
  x1 = x1
  Agent = {a1, a2}
  Key = {k1, k2}
  Session = {s1, s2}
  Exchange = {x1}
  Leg <- MCLeg
  Payee <- MCPayee
  OwnKey <- MCOwnKey
  Profile <- MCProfile
  Drift <- NoDrift
  PayPolicy <- MCPolicy
  LiveHandshake = TRUE
  Skew = 1
  Window = 1
  MaxAnswers = 1
  MaxRevoked = 0
  MaxAge = 1
  MaxRotationChain = 2
  MaxTime = 1
INVARIANTS
  NeverOneSided
PROPERTIES
  ImplementsMutualConsent
  EveryExchangeEnds
CHECK_DEADLOCK FALSE
