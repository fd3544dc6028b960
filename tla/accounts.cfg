SPECIFICATION Spec
CONSTANTS
  Users = {u, v}
  ShardOf <- OwnShard
  OrderIds = {x, y}
  Prices = {0, 2}
  Sizes <- SizesOrNot
  Types = {"Gtc", "FokBudget", "Iceberg"}
  MaxTx = 3
  MaxInt = 17
  Adjustments <- Deposits
  Specs <- PlainSymbol
VIEW state
CONSTRAINT MoneyFits
SYMMETRY Symmetry
CHECK_DEADLOCK FALSE
INVARIANTS
  Conserved
PROPERTIES
  FailureChangesNothing
