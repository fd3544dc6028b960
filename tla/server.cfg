SPECIFICATION Spec
CONSTANTS
  Clients = {1, 2}
  MaxTx = 2
  MaxRequests <- Budget
  MaxDeaths = 1
  MaxLoss = 1
CHECK_DEADLOCK FALSE
INVARIANTS
  
  
  
  StopTurnsNobodyAway
PROPERTIES
  
  EveryRequestEnds
  SigtermEnds
