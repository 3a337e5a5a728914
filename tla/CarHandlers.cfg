SPECIFICATION CarSpec
CONSTANTS
  a1 = a1
  a2 = a2
  ann = ann
  bob = bob
  volvo = volvo
  AuctionId = {a1}
  User = {ann, bob}
  None = None
  Listing <- MCListing
  Seeded = {}
  SeedItem <- MCSeedItem
  SeedStatus <- MCSeedStatus
  Make = make
  Field = {make}
  Saab = saab
  Volvo = volvo
  Value = {saab, volvo}
  Request = {r1}
  Consumer = {c1}
  Handler = {h1, h2}
  BidPlaced <- TwoBids
  AuctionFinished <- OneSale
  MaxEvents = 2
  MaxDeliveries <- HighestAndSale
  MaxTakes = 1
  MaxReceived = 1
  MaxRestarts = 0
SYMMETRY Symmetry
CHECK_DEADLOCK FALSE
INVARIANTS
  SearchTypeOK
  ShowsWhatWasAnnounced
PROPERTIES
  NothingIsTakenBack
  DeletedStaysDeleted
