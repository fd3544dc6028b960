------------------------------ MODULE MCExchange ------------------------------
(***************************************************************************)
(* Small instances of Exchange for TLC.                                      *)
(***************************************************************************)
EXTENDS Exchange

Symmetry == Permutations(Users) \cup Permutations(OrderIds)

STP == {"None", "CancelTaker", "CancelMaker", "CancelBoth", "Skip"}

Symbol(stp, spot) ==
  [stp |-> stp, spot |-> spot, takerFee |-> 2, makerFee |-> 1,
   baseScale |-> 1, quoteScale |-> 1]

SpotSymbols == {Symbol(stp, TRUE) : stp \in STP}
PlainSymbol == {Symbol("None", TRUE)}
FuturesSymbol == {Symbol("None", FALSE)}

\* One risk engine, or one for each user.
OneShard == [u \in Users |-> 0]
OwnShard == [u \in Users |-> u]

\* A start with every user registered and funded: AddUser and a deposit of each
\* currency for each of them, in whatever order, lead here.
Funded(base, quote) ==
  /\ spec \in Specs
  /\ engines = [s \in Shards |->
       LET users == {u \in Users : Mine(s, u)} IN
       [accounts |-> [u \in users |-> [base |-> base, quote |-> quote]],
        lastTx |-> [u \in users |-> 2], fees |-> 0]]
  /\ book = EmptyBook
  /\ deposited = [base |-> base * Cardinality(Users), quote |-> quote * Cardinality(Users)]
  /\ earlier = {}
  /\ reply = [uid |-> 0, code |-> "New", events |-> <<>>]

FundedSpec == Funded(2, 8) /\ [][Next]_vars

\* Bound: behaviours are not continued once this much has been collected in fees.
FeesUpTo5 == TotalFees(engines) <= 5

Deposits ==
  {[currency |-> "base", amount |-> 1], [currency |-> "quote", amount |-> 8],
   [currency |-> "quote", amount |-> -5]}

SizesOrNot == {-1, 1, 2, 5}
=============================================================================
