SPECIFICATION FairStorefront
CONSTANTS
  text = text  rental = rental  other = other  request = request  credit = credit
  labs = labs  guest = guest  xlm = xlm  usdc = usdc  None = None
  mainHost = mainHost  testHost = testHost  stray = stray
  Base = 10
  Places = 2
  Slug = {text, rental, other}
  Catalogue <- Seeds
  Name = {request, credit}
  PerRequest = request
  Provider = {labs, guest}
  Labs = labs
  Asset = {xlm, usdc}
  Native = xlm
  Host = {mainHost, testHost, stray}
  Horizon <- Hosts
  Offers <- Written
  Moment = {1, 2, 3, 4}
  Histories <- Past
  Take = 2
  MaxMounts = 2
  MaxEvents = 2
CHECK_DEADLOCK FALSE
INVARIANTS StorefrontTypeOK PageShowsItsUrl PriceShownIsPriceAsked ActivityOnOneLedger
PROPERTIES SeedSpares PageSettles
