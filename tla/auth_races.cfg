SPECIFICATION Spec
CONSTANTS
  p1 = p1  p2 = p2  r1 = r1  r2 = r2  c1 = c1  c2 = c2  w1 = w1  w2 = w2
  site = site  elsewhere = elsewhere  public = public  testnet = testnet
  None = None
  Proc = {p1, p2}
  Req = {r1, r2}
  Challenge = {c1, c2}
  Wallet = {w1, w2}
  Origin = {site}
  Allowed = {site}
  Network = {public}
  Faults = {"throw", "restart"}
  Lifetime = 1
  MaxNow = 1
SYMMETRY Symmetry
INVARIANTS TypeOK IInv OneSessionPerChallenge ConsumedIffSession SessionSigned
PROPERTY ImplementsSignIn
