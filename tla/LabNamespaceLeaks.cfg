SPECIFICATION FairLabSpec
CONSTANTS
  lab1 = lab1
  lab2 = lab2
  lab3 = lab3
  Sessions <- MCOneLab
  Drivers = {"KUBERNETES"}
  PsPrintsNames = TRUE
  MaxPerUser = 1
  MaxStarts = 2
  Slots = {1}
  Timed <- MCOneLab
  MaxCalls = 1
  MaxFailures = 0
  MaxCrashes = 1
PROPERTIES
  OrphansAreReclaimed
CHECK_DEADLOCK FALSE
