SPECIFICATION Spec
CONSTANTS
  Commands = {a, b}
  Policy = "EveryN"
  N = 3
  MaxCommands = 5
  Failures = {"power", "process"}
  WriteFaults = {}
  TailDamage = {"torn"}
  RepairTail = TRUE
  RestartBehindSnapshot = FALSE
  InheritedTailAtRisk = FALSE
SYMMETRY Symmetry
CHECK_DEADLOCK FALSE
INVARIANTS
  CoreInv
  HistoryCovered
  StoppedIsRecoverable
PROPERTIES
  ImplementsDurableHistory
