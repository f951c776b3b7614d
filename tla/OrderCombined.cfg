\* One checkout at two shops, one rider each, two calls in flight.
SPECIFICATION Spec
CONSTANTS
  o1 = o1
  o2 = o2
  p1 = p1
  r1 = r1
  r2 = r2
  s1 = s1
  s2 = s2
  Orders = {o1, o2}
  Parents = {p1}
  Riders = {r1, r2}
  ParentOf <- CombinedParentOf
  ShopOf <- CombinedShopOf
  NoParent = NoParent
  NoRider = NoRider
  NoOrder = NoOrder
  MaxRevisions = 0
  MaxInFlight = 2
INVARIANTS ParentFollowsChildren CashFollowsGoods StockReturnedOnce
PROPERTIES KeepsPromise
CHECK_DEADLOCK FALSE
