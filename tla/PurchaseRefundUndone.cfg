SPECIFICATION Spec
CONSTANTS
  alice = alice
  bob = bob
  o1 = o1
  o2 = o2
  Orders <- MCOneOrder
  Pairs <- MCOneUser
  PairOf <- MCOne
  WithCoupon = {}
  Slots = {1}
  MaxCalls = 1
  MaxCrashes = 0
  Rejections = FALSE
  Mismatches = FALSE
  Copies = {1}
  ManualOps = {}
  DbErrors = FALSE
  MaxRestarts = 0
INVARIANTS
  SettledRefundsAreClosed
CHECK_DEADLOCK FALSE
