SPECIFICATION Spec
CONSTANTS
  Commands = {a, b}
  Policy = "EveryCommand"
  N = 1
  MaxCommands = 4
  Failures = {"power"}
  WriteFaults = {}
  TailDamage = {}
  RepairTail = TRUE
  RestartBehindSnapshot = TRUE
  InheritedTailAtRisk = FALSE
SYMMETRY Symmetry
CHECK_DEADLOCK FALSE
PROPERTIES
  NothingAcknowledgedIsLost
