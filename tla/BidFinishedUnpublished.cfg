SPECIFICATION FairSpec
CONSTANTS
  sold = sold
  other = other
  seeded = seeded
  ann = ann
  bob = bob
  AuctionId = {sold}
  User = {ann, bob}
  Request = {r1}
  Amount = {2}
  None = None
  Listing <- OneListing
  Seeded = {}
  Second = 2
  MaxTime = 2
  MaxDeliveries = 1
  MaxCrashes = 1
PROPERTY FinishedIsPublished
