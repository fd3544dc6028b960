SPECIFICATION AsyncSpec
CONSTANTS
  Commands = {a, b}
  Policy = "EveryCommand"
  N = 1
  MaxCommands = 3
  Failures = {"power"}
  WriteFaults = {}
  TailDamage = {"torn"}
  RepairTail = TRUE
  RestartBehindSnapshot = FALSE
  InheritedTailAtRisk = FALSE
  RingSize = 2
  Fragile = {b}
  Deadly = {}
  FinalSyncFails = TRUE
CHECK_DEADLOCK FALSE
INVARIANTS
  AsyncInv
  SnapshotsMatchTheirNumber
  AcceptedIsRecoverable
  
PROPERTIES
  AsyncImplementsDurableHistory
  ShutdownEnds
  AcceptedIsExecuted
  PoisonIsCured
