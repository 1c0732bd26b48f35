SPECIFICATION FairSpec
CONSTANTS
  alice = alice
  bob = bob
  o1 = o1
  o2 = o2
  Orders <- MCOrders
  Pairs <- MCTwoUsers
  PairOf <- MCOneOrderEach
  Copies = {1, 2}
  ManualOps = {"enrollFree", "grant", "revoke"}
  DbErrors = TRUE
  MaxRestarts = 1
  MaxEvents = 2
INVARIANTS
  EnrollmentTypeOK
  RowsComeFromEvents
PROPERTIES
  AppliesExactlyOnce
  EveryEventSettles
