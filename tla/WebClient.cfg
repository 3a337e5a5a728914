SPECIFICATION Spec
CONSTANTS
  a1 = a1  a2 = a2  a3 = a3  a4 = a4
  u1 = u1  u2 = u2
  f1 = f1  f2 = f2  v1 = v1  v2 = v2
  None = None  Error = Error  Rejected = Rejected  Done = Done
  AuctionId = {a1, a2, a3, a4}
  User = {u1, u2}
  Field = {f1, f2}
  Value = {v1, v2}
  Listing <- MCListing
  AuctionEnd <- MCAuctionEnd
  ReservePrice <- MCReservePrice
  Soon = 1
  Order <- MCOrder
  Found <- MCFound
  Activity <- MCActivity
  FilterButtons = {"live", "endingSoon", "finished"}
  OrderButtons = {"new"}
  PageSizeButtons = {1, 2}
  SearchText = {"", "text"}
  DefaultPageSize = 1
  Offer = {1, 2}
  NewItem <- MCNewItem
  Budgets <- MCBudgets
  Sessions <- MCSessions
INVARIANTS
  WebTypeOK
  ListIsOfTheseParams
  PageExists
  PriceWasOffered
  NotedBidsStay
  NoDuplicateBids
  HighBidIsHighest
PROPERTIES
  SuccessMeansDone
  UpdateIsShown
  UpdateKeepsTheRest
  ClosesAtEnd
  BidsLoadingEnds
CHECK_DEADLOCK FALSE
