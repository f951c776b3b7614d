\* A phone that two customers share, or a browser with two tabs; two guest
\* sessions, one listing that may sell out or close.
SPECIFICATION Spec
SYMMETRY Interchangeable
CONSTANTS
  None = None
  Customers = {ca, cb}
  Sessions = {s1, s2}
  MayLapse = {s1, s2}
  Listings = {l1}
  Calls = {n1, n2}
  Tabs = {t1, t2}
  Narrow = TRUE
  Offers <- Scarce
INVARIANTS EachUnitOnce ShownGoodsStay
PROPERTIES OrderTakesGuestItems
