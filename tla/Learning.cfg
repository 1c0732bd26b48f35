SPECIFICATION FairSpec
CONSTANTS
  m1 = m1
  m2 = m2
  l1 = l1
  l2 = l2
  l3 = l3
  x = x
  Lessons <- MCLessons
  Others <- MCOthers
  Modules <- MCModules
  ModuleOf <- MCModuleOf
  InitialRows <- MCInitialRows
  InitialOrder <- MCInitialOrder
  Previews <- MCPreviews
  GivenOrders = {2}
  MaxDeliveries = 2
  MaxCalls = 3
  MaxMishaps = 1
INVARIANTS
  LearnTypeOK
  ReordersTakeEffect
  CertificatesAreEarned
  CompletionsAreAnnounced
  PercentIsFresh
  CountersFollowTheLessons
PROPERTIES
  ShutStaysShut
  DiplomasAreHonest
  FinishersAreCertified
CHECK_DEADLOCK FALSE
