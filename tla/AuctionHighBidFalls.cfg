SPECIFICATION Spec
CONSTANTS
  a1 = a1
  ann = ann
  bob = bob
  volvo = volvo
  AuctionId = {a1}
  User = {ann, bob}
  None = None
  Listing <- MCListing
  Seeded = {}
  SeedItem <- MCSeedItem
  SeedStatus <- MCSeedStatus
  Field = {make}
  Value = {saab, volvo}
  Request = {r1}
  Consumer = {c1, c2}
  BidPlaced <- ThreeBids
  AuctionFinished <- OneSale
  MaxEvents = 3
  MaxDeliveries <- SaleTwice
CHECK_DEADLOCK FALSE
PROPERTY HighBidNeverFalls
