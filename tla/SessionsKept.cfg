\* A phone or a browser with two tabs, two people, three sign-ins or renewals.
SPECIFICATION Spec
SYMMETRY Symmetry
CONSTANTS
  None = None
  Users = {a, b}
  Devices = {p}
  Browser = p
  Tabs = {t1, t2}
  MaxSession = 3
  MaxCalls = 2
  MaxSends = 1
  MaxRequests = 1
  MayFail = TRUE
INVARIANTS AcknowledgedKeepsAlerts
PROPERTIES NewerSessionKeepsDevice SignedOutOnlyWhenOver NoOldOwnerReturns
CHECK_DEADLOCK FALSE
