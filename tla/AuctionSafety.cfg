SPECIFICATION MCSpec
CONSTANTS
  a1 = a1
  ann = ann
  bob = bob
  cat = cat
  make = make
  saab = saab
  volvo = volvo
  AuctionId = {a1, a2}
  User = {ann, bob, cat}
  None = None
  Listing <- MCListing
  AuctionEnd <- MCEnd
  Bid <- TwoBids
  Seeded = {a2}
  SeedItem <- MCSeedItem
  SeedStatus <- MCSeedStatus
  Field = {make, color}
  Value = {saab, volvo}
  Request = {r1, r2}
  Consumer = {c1, c2}
  BidPlaced <- MCPlaced
  AuctionFinished <- MCFinished
  MaxEvents = 4
  MaxDeliveries <- SalesTwice
  MaxOutcomes = 2
SYMMETRY Symmetry
CHECK_DEADLOCK FALSE
INVARIANTS
  RowIffAnnounced
  EventsFormALife
  ItemWasAnnounced
  TypeOK
  SaleWasAnnounced
  HighBidCoversSale
PROPERTIES
  SaleIsKept
  HighBidFallsOnlyWhenOvertaken
