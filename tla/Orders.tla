-------------------------------- MODULE Orders --------------------------------
(***************************************************************************)
(* The vocabulary of the order books: orders, the events of matching, and   *)
(* the conditions under which orders trade.                                  *)
(***************************************************************************)
EXTENDS Integers

Actions == {"Ask", "Bid"}
Opposite(action) == IF action = "Ask" THEN "Bid" ELSE "Ask"

Remaining(o) == o.size - o.filled

SameLevel(o, p) == o.action = p.action /\ o.price = p.price

\* p comes before q on the side of `action`.
Ahead(action, p, q) == IF action = "Ask" THEN p < q ELSE p > q

\* Faulty variant: an order at exactly the limit does not trade.
StrictlyWithin(taker, price) ==
  IF taker.action = "Bid" THEN price < taker.price ELSE price > taker.price

\* A taker trades at any price that is not worse than its limit.
WithinLimit(taker, price) ==
  IF taker.action = "Bid" THEN price <= taker.price ELSE price >= taker.price

-----------------------------------------------------------------------------
(* Events.  `hold` is the price at which the bidder's funds are held. *)

Trade(taker, maker, size) ==
  [type |-> "Trade", size |-> size, price |-> maker.price, uid |-> maker.uid,
   id |-> maker.id,
   hold |-> IF taker.action = "Bid" THEN taker.reserve ELSE maker.reserve]

Reject(size, hold) == [type |-> "Reject", size |-> size, hold |-> hold]

\* Self-trade prevention cancelled a resting order.
RejectMaker(maker) ==
  [type |-> "RejectMaker", size |-> Remaining(maker), hold |-> maker.reserve,
   uid |-> maker.uid, id |-> maker.id]

-----------------------------------------------------------------------------
(* Conditions *)

\* Faulty variant: Skip treats the taker's own orders like anyone else's.
OwnUnlessSkipped(taker, maker, stp) ==
  maker.uid = taker.uid /\ stp \notin {"None", "Skip"}

\* Is this maker subject to self-trade prevention?
Own(taker, maker, stp) == maker.uid = taker.uid /\ stp # "None"

\* is_budget_satisfied
BudgetSatisfied(action, cost, limit) ==
  cost # -1 /\ (cost = limit \/ ((action = "Bid") # (cost > limit)))

\* Faulty variant: the whole order is matched again.
RetakerWhole(o, price) == [o EXCEPT !.price = price, !.filled = 0]

\* A moved order takes with what is left of it.
Retaker(o, price) ==
  [o EXCEPT !.price = price, !.size = Remaining(o), !.filled = 0]

\* Faulty variant: the reserve price is not looked at.
MoveAllowedAnyway(o, price, spec) == TRUE

\* On a spot market a bid may not be moved above the price its funds are held at.
MoveAllowed(o, price, spec) ==
  ~(spec.spot /\ o.action = "Bid" /\ price > o.reserve)
=============================================================================
