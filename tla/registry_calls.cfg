SPECIFICATION Spec
CHECK_DEADLOCK FALSE
CONSTANTS
  a1 = a1  a2 = a2  a3 = a3  i1 = i1  i2 = i2  h1 = h1  h2 = h2
  xlm = xlm  usdc = usdc  Original = Original  None = None
  Address = {a1, a2}
  ApiId = {i1}
  Hash = {h1, h2}
  Asset = {xlm}
  MaxPrice = 2
  Prices <- EdgePrices
  Threshold = 0
  ExtendTo = 1
  MinLife = 1
  MaxLedger = 2
  MaxEvents = 4
SYMMETRY Symmetry
INVARIANTS TypeOK ApisSound EventsTell
PROPERTIES NothingReassigned ChangesAuthorised PauseFreezes WritesOutlive
