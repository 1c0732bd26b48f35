SPECIFICATION FairLabSpec
CONSTANTS
  lab1 = lab1
  lab2 = lab2
  lab3 = lab3
  Sessions <- MCOneLab
  Drivers = {"KUBERNETES", "LOCAL_DOCKER"}
  PsPrintsNames = TRUE
  MaxPerUser = 1
  MaxStarts = 1
  Slots = {1}
  Timed <- MCOneLab
  MaxCalls = 2
  MaxFailures = 1
  MaxCrashes = 1
INVARIANTS
  LabTypeOK
  RunningLabsExist
PROPERTIES
  ExpiredSessionsGoDown
  ContainersAreReclaimed
  LabsAreReclaimedUnlessDisturbed
CHECK_DEADLOCK FALSE
