SPECIFICATION Spec
CONSTANTS
  p1 = p1  p2 = p2  r1 = r1  r2 = r2  c1 = c1  c2 = c2  t1 = t1  t2 = t2
  text = text  docs = docs  h1 = h1  h2 = h2  public = public  testnet = testnet
  treasury = treasury  other = other  xlm = xlm  usdc = usdc  None = None
  Proc = {p1, p2}
  Req = {r1, r2}
  Challenge = {c1}
  Tx = {t1}
  Api = {text}
  Hash = {h1}
  Network = {public, testnet}
  Recipient = {treasury, other}
  Asset = {xlm, usdc}
  Listings <- Repriced
  Payments <- ManyPayments
  Configs <- TwoConfigs
  Faults = {"throw", "restart"}
  Lifetime = 1
  MaxNow = 2
SYMMETRY Symmetry
INVARIANTS TypeOK IInv ReceiptPaysQuote UsedTransactionsPaid EveryProcessHonoursQuote
