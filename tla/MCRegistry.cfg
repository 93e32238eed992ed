SPECIFICATION FairSpec
CONSTANTS
  c1 = c1
  c2 = c2
  t1 = t1
  t2 = t2
  k1 = k1
  k2 = k2
  w1 = w1
  Token = {t1, t2}
  Wallet = {w1}
  Key = {k1, k2}
  Check = {c1, c2}
  Binding <- MCBinding
  MaxWrites = 3
  MaxRotationChain = 2
INVARIANTS
  ConfirmedByBothSides
  StandingBindingNotRefused
PROPERTIES
  EveryCheckEnds
CHECK_DEADLOCK FALSE
