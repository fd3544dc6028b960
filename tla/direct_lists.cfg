SPECIFICATION Spec
CONSTANTS
  Users = {u}
  OrderIds = {x, y, z}
  Prices = {1, 2, 3}
  Reserves = {3}
  Sizes = {1, 2}
  Types = {"Gtc"}
  Specs <- PlainSymbol
VIEW Seen
CONSTRAINT ThinBook
SYMMETRY Symmetry
CHECK_DEADLOCK FALSE
INVARIANTS
  AssertInvariants
  LinksMatch
PROPERTIES
  ImplementsLimitOrderBook
