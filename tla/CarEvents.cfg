SPECIFICATION CarFairSpec
CONSTANTS
  a1 = a1
  a2 = a2
  ann = ann
  bob = bob
  volvo = volvo
  AuctionId = {a1, a2}
  User = {ann, bob}
  None = None
  Listing <- MCListing
  Seeded = {a2}
  SeedItem <- MCSeedItem
  SeedStatus <- MCSeedStatus
  Make = make
  Field = {make}
  Saab = saab
  Volvo = volvo
  Value = {saab, volvo}
  Request = {r1, r2}
  Consumer = {c1}
  Handler = {h1}
  BidPlaced = {}
  AuctionFinished = {}
  MaxEvents = 2
  MaxDeliveries <- HighestAndSale
  MaxTakes = 2
  MaxReceived = 1
  MaxRestarts = 1
CHECK_DEADLOCK FALSE
INVARIANT SearchMirrors
PROPERTY CreatedIsShown
