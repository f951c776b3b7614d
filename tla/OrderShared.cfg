\* Two checkouts at one shop competing for its two riders, a proposal to one,
\* two calls in flight.
SPECIFICATION Spec
CONSTANTS
  o1 = o1
  o2 = o2
  p1 = p1
  r1 = r1
  r2 = r2
  s1 = s1
  s2 = s2
  Orders = {o1, o2}
  Parents = {}
  Riders = {r1, r2}
  ParentOf <- SharedParentOf
  ShopOf <- SharedShopOf
  NoParent = NoParent
  NoRider = NoRider
  NoOrder = NoOrder
  MaxRevisions = 1
  MaxInFlight = 2
SYMMETRY Interchangeable
INVARIANTS RiderBinding NoStrandedOrder
PROPERTIES StatusMovesForward OnlyItsRiderDelivers RevisionFreezesOrder
CHECK_DEADLOCK FALSE
