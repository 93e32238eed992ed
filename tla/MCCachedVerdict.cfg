SPECIFICATION Spec
CONSTANTS
  k1 = k1
  k2 = k2
  Document <- MCDocument
  VerifierPolicy <- MCPolicy
  MaxRotationChain = 2
  MaxTime = 4
INVARIANTS
  CachedVerdictIsSound
CHECK_DEADLOCK FALSE
