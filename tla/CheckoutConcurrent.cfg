\* Two concurrent calls with one reference: does each of them answer with the order?
SPECIFICATION Spec
CONSTANTS
  b1 = b1
  b2 = b2
  c1 = c1
  Customers = {c1}
  Clerks = {}
  Baskets = {b1}
  OwnerOf <- OneCustomer
  NoBasket = NoBasket
  Listings = {l1}
  Prices = {1, 2}
  Requests = {r1}
  Attempts = {a1, a2}
  NoCall = NoCall
  NoOrder = NoOrder
  MaxStock = 1
  MaxQuantity = 1
PROPERTIES FailedCheckoutLeftNothing
