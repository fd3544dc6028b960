SPECIFICATION Spec
CONSTANTS
  Users = {u, v}
  OrderIds = {w, x, y, z}
  Prices = {1, 2}
  Reserves = {2}
  Sizes = {1}
  Types = {"Gtc"}
  Specs <- SelfTradeSymbols
VIEW Seen
CONSTRAINT ThinBook
SYMMETRY Symmetry
CHECK_DEADLOCK FALSE
PROPERTIES
  ImplementsLimitOrderBook
