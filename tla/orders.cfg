SPECIFICATION FundedSpec
CONSTANTS
  Users = {u, v}
  ShardOf <- OwnShard
  OrderIds = {x, y, z}
  Prices = {2, 3}
  Sizes = {1, 2}
  Types = {"Gtc", "Ioc"}
  Adjustments = {}
  MaxTx = 2
  MaxInt = 1000
  Specs <- SpotSymbols
VIEW state
CONSTRAINT FeesUpTo5
SYMMETRY Symmetry
CHECK_DEADLOCK FALSE
INVARIANTS
  ExchangeInv
  Conserved
  NeverOverdrawn
  NotCrossed
PROPERTIES
  NoSelfTrade
  TradesWithinHold
  PriorityHonoured
