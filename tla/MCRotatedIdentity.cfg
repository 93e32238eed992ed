SPECIFICATION Spec
CONSTANTS
  a1 = a1
  s1 = s1
  s2 = s2
  k1 = k1
  k2 = k2
  Agent = {a1}
  Key = {k1, k2}
  Session = {s1, s2}
  Payee <- OnePayee
  OwnKey <- NewKeys
  Profile <- Plain
  Drift <- Ahead
  PayPolicy <- MCPayPolicy
  LiveHandshake = TRUE
  Skew = 2
  Window = 1
  MaxAnswers = 2
  MaxRevoked = 0
  MaxAge = 1
  MaxRotationChain = 2
  MaxTime = 2
PROPERTIES
  IdentitySurvivesRotation
CHECK_DEADLOCK FALSE
