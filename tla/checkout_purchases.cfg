SPECIFICATION FairCheckout
CONSTANTS
  p1 = p1  f1 = f1  f2 = f2  c1 = c1  c2 = c2  text = text  page = page
  public = public  testnet = testnet  treasury = treasury  xlm = xlm  alice = alice  None = None
  Proc = {p1}
  Req = {f1, f2}
  Challenge = {c1, c2}
  Tx = {0, 1, 2, 3}
  Content <- Contents
  Api = {text}
  Hash = {page}
  Network = {public, testnet}
  Recipient = {treasury}
  Asset = {xlm}
  Listings <- Offer
  Payments <- Settling
  Configs <- Either
  Faults = {"throw", "restart"}
  Lifetime = 1
  MaxNow = 1
  Agent = {f2}
  Account = {alice}
  AgentAccount = alice
  ConsoleHash = page
  Native = xlm
  BuildNetwork = public
  Unit = 2
  TimeBound = 1
INVARIANTS CheckoutTypeOK PaymentsPayQuotes LossHasCause
PROPERTIES ImplementsPurchases PaidFlowsServed FlowsEnd
