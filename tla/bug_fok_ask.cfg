SPECIFICATION FundedSpec
CONSTANTS
  Users = {u, v}
  ShardOf <- OneShard
  OrderIds = {x, y, z}
  Prices = {2, 3, 4}
  Sizes = {1, 2}
  Types = {"Gtc", "FokBudget"}
  MaxTx = 2
  MaxInt = 1000
  Adjustments = {}
  Specs <- PlainSymbol
VIEW state
SYMMETRY Symmetry
CHECK_DEADLOCK FALSE
INVARIANTS
  Conserved
