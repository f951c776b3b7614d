\* One order, a revision sweep two ticks late: the window the comment promises.
SPECIFICATION Spec
CONSTANTS
  Orders = {o1}
  Sweepers = {w1}
  Timeout = 2
  Configured = 2
  MaxApproval = 1
  Batch = 2
  MaxLag = 2
  MaxProposals = 1
PROPERTIES FreshWindow
