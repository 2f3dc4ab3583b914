SPECIFICATION FairSpec
CONSTANTS
  p1 = p1  p2 = p2  r1 = r1  r2 = r2  c1 = c1  c2 = c2  w1 = w1  w2 = w2
  site = site  elsewhere = elsewhere  public = public  testnet = testnet
  None = None
  Proc = {p1, p2}
  Req = {r1, r2}
  Challenge = {c1}
  Wallet = {w1, w2}
  Origin = {site, elsewhere}
  Allowed = {site}
  Network = {public, testnet}
  Faults = {}
  Lifetime = 1
  MaxNow = 1
INVARIANT OneMessage
PROPERTY AcceptedOpensSession
