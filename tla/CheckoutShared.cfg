\* A basket and the counter, with the same request id or not; or two buyers and
\* one coupon, two baskets each.
SPECIFICATION MCSpec
CONSTANTS
  b1 = b1
  b2 = b2
  c1 = c1
  Customers = {c1}
  Clerks = {k1}
  Baskets = {b1}
  OwnerOf <- OneCustomer
  NoBasket = NoBasket
  Listings = {l1}
  Prices = {1, 2}
  Requests = {r1, r2}
  Attempts = {a1, a2}
  NoCall = NoCall
  NoOrder = NoOrder
  MaxStock = 1
  MaxQuantity = 1
  None = None
  Buyers = {ca, cb}
  Codes = {eid}
  MaxBaskets = 2
SYMMETRY Calls
INVARIANTS StockAddsUp AnswerIsOwn OneOrderPerBasket ApprovedTerms CouponsWithinLimits
PROPERTIES FailedSaleLeftNothing CurrentTerms
