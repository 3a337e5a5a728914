SPECIFICATION FairSpec
CONSTANTS
  sold = sold
  other = other
  seeded = seeded
  ann = ann
  bob = bob
  AuctionId = {sold, other, seeded}
  User = {ann, bob}
  Request = {r1}
  Amount = {2}
  None = None
  Listing <- ThreeListings
  Seeded = {seeded}
  Second = 2
  MaxTime = 2
  MaxDeliveries = 1
  MaxCrashes = 1
PROPERTIES
  EndedAuctionCloses
  KnownAuctionIsAnnounced
  BidAnswered
