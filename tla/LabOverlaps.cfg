SPECIFICATION LabSpec
CONSTANTS
  lab1 = lab1
  lab2 = lab2
  lab3 = lab3
  Sessions <- MCThreeLabs
  Drivers = {"KUBERNETES"}
  PsPrintsNames = TRUE
  MaxPerUser = 1
  MaxStarts = 2
  Slots = {1, 2}
  Timed = {}
  MaxCalls = 4
  MaxFailures = 0
  MaxCrashes = 1
SYMMETRY MCSymmetry
INVARIANTS
  LiveSessionsAreBounded
PROPERTIES
  SpentTicketsOpenNothing
CHECK_DEADLOCK FALSE
