SPECIFICATION FairSpec
CONSTANTS
  alice = alice
  bob = bob
  o1 = o1
  o2 = o2
  Orders <- MCOneOrder
  Pairs <- MCOneUser
  PairOf <- MCOne
  WithCoupon = {}
  Slots = {1}
  MaxCalls = 1
  MaxCrashes = 1
  Rejections = FALSE
  Mismatches = FALSE
  Copies = {1}
  ManualOps = {}
  DbErrors = FALSE
  MaxRestarts = 0
PROPERTIES
  PaidMeansEnrolled
CHECK_DEADLOCK FALSE
