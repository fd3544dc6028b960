SPECIFICATION Spec
CONSTANTS
  Users = {u, v}
  OrderIds = {x, y, z}
  Prices = {1, 2}
  Reserves = {2}
  Sizes = {1, 2}
  Types = {"Gtc", "Ioc", "FokBudget"}
  Specs <- AllSymbols
VIEW Seen
CONSTRAINT FewLots
SYMMETRY Symmetry
CHECK_DEADLOCK FALSE
PROPERTIES
  ImplementsLimitOrderBook
