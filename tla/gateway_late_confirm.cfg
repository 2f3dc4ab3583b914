SPECIFICATION Spec
CONSTANTS
  p1 = p1  p2 = p2  r1 = r1  r2 = r2  c1 = c1  c2 = c2  t1 = t1  t2 = t2
  text = text  docs = docs  h1 = h1  h2 = h2  public = public  testnet = testnet
  treasury = treasury  other = other  xlm = xlm  usdc = usdc  None = None
  Proc = {p1}
  Req = {r1}
  Challenge = {c1}
  Tx = {t1}
  Api = {text}
  Hash = {h1}
  Network = {public}
  Recipient = {treasury}
  Asset = {xlm}
  Listings <- OneListing
  Payments <- OnePayment
  Configs <- OneConfig
  Faults = {}
  Lifetime = 1
  MaxNow = 1
INVARIANT NotConfirmedAfterExpiry
