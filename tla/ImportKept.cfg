\* A sheet with a product of the catalogue and a new one, two requests, two
\* calls at work at a time.
SPECIFICATION Spec
SYMMETRY Ids
CONSTANTS
  None = None
  Listed = {1}
  New = {2}
  Requests = {q1, q2}
  Calls = {n1, n2}
  Stocks = {0, 1}
  MaxStamp = 1
  MaxItems = 2
  Sheets <- AnySheet
INVARIANTS RowOnce
PROPERTIES NothingUnseenReplaced
CHECK_DEADLOCK FALSE
