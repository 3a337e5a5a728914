SPECIFICATION Spec
CONSTANTS
  sold = sold
  other = other
  seeded = seeded
  ann = ann
  bob = bob
  AuctionId = {sold}
  User = {ann, bob}
  Request = {r1, r2}
  Amount = {1, 2, 3}
  None = None
  Listing <- OneListing
  Seeded = {}
  Second = 2
  MaxTime = 2
  MaxDeliveries = 2
  MaxCrashes = 1
SYMMETRY Symmetry
INVARIANTS
  TypeOK
  AtMostOneResultPerDelivery
  ResultsImprove
  EligibleWinner
  TooLowIsOutbid
  AcceptedBeatsEarlier
  NotTurnedAwayEarly
  PublishedAreStored
PROPERTY ImplementsAuctionHouse
