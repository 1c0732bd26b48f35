SPECIFICATION Spec
CONSTANTS
  alice = alice
  bob = bob
  o1 = o1
  o2 = o2
  Orders <- MCTwoOrders
  Pairs <- MCOneUser
  PairOf <- MCBothHers
  WithCoupon = {}
  Slots = {1}
  MaxCalls = 1
  MaxCrashes = 1
  Rejections = FALSE
  Mismatches = FALSE
  Copies = {1}
  ManualOps = {"revoke"}
  DbErrors = FALSE
  MaxRestarts = 0
INVARIANTS
  AccessIsPaidFor
  RefundRevocationsAreReal
  SettledPurchasesAreOpen
PROPERTIES
  SalesAreHonest
CHECK_DEADLOCK FALSE
