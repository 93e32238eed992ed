SPECIFICATION Spec
CONSTANTS
  p1 = p1
  p2 = p2
  w1 = w1
  w2 = w2
  t1 = t1
  n1 = n1
  c1 = c1
  c2 = c2
  Party = {p1, p2}
  Rules <- MCRules
  Call = {c1, c2}
  Nonce = {n1}
  Wallet = {w1, w2}
  Token = {t1}
  RedactableField = {"constitution", "capital"}
  SignInOptions <- MCSignInOptions
  TapOptions <- MCTapOptions
  CardOptions <- MCCardOptions
  PresentOptions <- MCPresentOptions
  MaxClock = 1
  MaxSent = 2
  MaxKinds = 1
  MaxRotationChain = 1
INVARIANTS
  SignInWasMeant
  TapRequestWasMeant
  PresentationWasMeant
  BoundCardWasSigned
  HonestRequestAccepted
CHECK_DEADLOCK FALSE
