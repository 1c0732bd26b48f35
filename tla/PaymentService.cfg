SPECIFICATION PaymentSpec
CONSTANTS
  alice = alice
  bob = bob
  o1 = o1
  o2 = o2
  s1 = s1
  s2 = s2
  Orders <- MCOneOrder
  Pairs <- MCOneUser
  PairOf <- MCOnePairOf
  WithCoupon <- MCOneOrder
  Slots = {s1, s2}
  MaxCalls = 2
  MaxCrashes = 1
  Rejections = TRUE
  Mismatches = TRUE
INVARIANTS
  PaymentTypeOK
  RowsFollowTheMoney
  EventsFollowTheMoney
  HandlersFollowTheMoney
  CommitsAreAnnounced
  AnsweredWebhooksReachedTheRow
  RedemptionsFollowAnnouncements
CHECK_DEADLOCK FALSE
SYMMETRY SlotSymmetry
