SPECIFICATION Spec
CONSTANTS
  Users = {u}
  OrderIds = {1, 2, 3, 4, 5}
  Prices = {1, 2}
  Reserves = {2}
  Sizes = {1, 2}
  NaiveTypes = {"Gtc", "Ioc", "FokBudget"}
  AdvancedTypes = {"Gtc", "Ioc", "Fok", "PostOnly", "Iceberg", "StopLimit"}
  VisibleSizes = {1}
  MaxStops = 2
VIEW Seen
CONSTRAINT FewLots
CHECK_DEADLOCK FALSE
INVARIANTS
  LevelsAddUp
  RestingIsFound
PROPERTIES
  Agree
  AllOrNothing
  
