\* The phone or the browser: two views of one customer's checkout, or two
\* customers who share one; two orders, two calls on their way.
SPECIFICATION Spec
SYMMETRY Interchangeable
CONSTANTS
  None = None
  Accounts = {ca, cb}
  Requests = {r1, r2}
  Offers = {o1}
  Calls = {n1, n2}
  Views = {v1, v2}
  Narrow = TRUE
INVARIANTS PlacedIsKnown OneCheckoutAtATime
