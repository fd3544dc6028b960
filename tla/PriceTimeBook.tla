---------------------------- MODULE PriceTimeBook ----------------------------
(***************************************************************************)
(* One limit order book with price-time priority: what the operations of     *)
(* DirectOrderBook (src/src/core/orderbook/direct.rs) make of a book, with   *)
(* its linked list of slab slots abstracted to the sequence of orders met    *)
(* when walking it from the best order.                                      *)
(*                                                                          *)
(* A book is [Ask |-> orders, Bid |-> orders].  Every operation takes a book,*)
(* an order or its id, and the symbol specification `spec`, and returns the  *)
(* book it leaves, the events it emits, the result code, and the action the  *)
(* command carries afterwards.                                              *)
(***************************************************************************)
EXTENDS Orders, Sequences, SequencesExt

EmptyBook == [action \in Actions |-> <<>>]

RestingOrders(book) == ToSet(book["Ask"]) \cup ToSet(book["Bid"])
Knows(book, id) == \E o \in RestingOrders(book) : o.id = id
OrderOf(book, id) == CHOOSE o \in RestingOrders(book) : o.id = id

-----------------------------------------------------------------------------
(* The sides of the book *)

\* Faulty variant: a newcomer goes to the front of its price level.
InsertFirst(side, o) ==
  LET ahead == {i \in 1..Len(side) : Ahead(o.action, side[i].price, o.price)}
  IN  InsertAt(side, Cardinality(ahead) + 1, o)

\* insert_order: behind every order whose price is not worse.
Insert(side, o) ==
  LET ahead == {i \in 1..Len(side) : ~Ahead(o.action, o.price, side[i].price)}
  IN  InsertAt(side, Cardinality(ahead) + 1, o)

\* remove_order
Without(side, id) == RemoveAt(side, CHOOSE i \in 1..Len(side) : side[i].id = id)

-----------------------------------------------------------------------------
(* Matching *)

\* The orders of a side from position i on.
From(side, i) == SubSeq(side, i, Len(side))

\* The walk ends with `left` of the taker unfilled.
Stop(taker, left, kept, events, aborted) ==
  [side |-> kept, events |-> events, filled |-> taker.size - left, aborted |-> aborted]

Keep(maker, after) == [after EXCEPT !.side = <<maker>> \o @]
Emit(event, after) == [after EXCEPT !.events = <<event>> \o @]

\* The walk from the order at position i on, `left` of the taker being unfilled there.
\* deeper[l] is the walk from the next order on, with l unfilled.
Visit(side, taker, stp, i, left, deeper) ==
  IF i > Len(side) \/ left = 0 THEN Stop(taker, left, From(side, i), <<>>, FALSE)
  ELSE LET maker == side[i] IN
    IF ~WithinLimit(taker, maker.price)
    THEN Stop(taker, left, From(side, i), <<>>, FALSE)
    ELSE IF Own(taker, maker, stp)
    THEN CASE stp = "Skip" -> Keep(maker, deeper[left])
           [] stp = "CancelMaker" -> Emit(RejectMaker(maker), deeper[left])
           [] stp = "CancelTaker" -> Stop(taker, left, From(side, i), <<>>, TRUE)
           [] stp = "CancelBoth" ->
                Stop(taker, left, From(side, i + 1), <<RejectMaker(maker)>>, TRUE)
    ELSE IF left < Remaining(maker)
    THEN Stop(taker, 0, <<[maker EXCEPT !.filled = @ + left]>> \o From(side, i + 1),
              <<Trade(taker, maker, left)>>, FALSE)
    ELSE Emit(Trade(taker, maker, Remaining(maker)), deeper[left - Remaining(maker)])

Visits(side, taker, stp) ==
  LET At[i \in 1..Len(side) + 1] ==
        [left \in 0..taker.size |-> Visit(side, taker, stp, i, left, At[i + 1])]
  IN  At

\* try_match: visit the opposite side from its best order on.  The result is that
\* side afterwards, the events, the size filled, and whether self-trade prevention
\* cancels the taker.
TryMatch(side, taker, stp) == Visits(side, taker, stp)[1][taker.size]

\* `left` is still to be filled from position i on; deeper[l] is the cost of l from
\* the next position on.
Cost(side, i, left, deeper) ==
  IF i > Len(side) THEN -1
  ELSE IF left <= Remaining(side[i]) THEN left * side[i].price
  ELSE LET rest == deeper[left - Remaining(side[i])]
       IN  IF rest = -1 THEN -1 ELSE Remaining(side[i]) * side[i].price + rest

Costs(side, size) ==
  LET At[i \in 1..Len(side) + 1] ==
        [left \in 0..size |-> Cost(side, i, left, At[i + 1])]
  IN  At

\* check_budget_to_fill: the cost of `size` taken from the whole depth of a side,
\* own orders and all, or -1 when there is not that much.
BudgetToFill(side, size) ==
  Costs(side, size)[1][size]

-----------------------------------------------------------------------------
(* Operations *)

Refused(book, cmd, code) ==
  [book |-> book, events |-> <<>>, code |-> code, action |-> cmd.action]

Done(book, events, action) ==
  [book |-> book, events |-> events, code |-> "Success", action |-> action]

\* The book after `taker` has matched, and its own side set to `own`.
Matched(taker, m, own) ==
  [action \in Actions |-> IF action = taker.action THEN own ELSE m.side]

\* place_gtc: what is left rests in the book, unless the taker was cancelled.
PlaceGtc(book, taker, spec) ==
  LET m == TryMatch(book[Opposite(taker.action)], taker, spec.stp)
      left == taker.size - m.filled
      own == book[taker.action]
      resting == [taker EXCEPT !.filled = m.filled]
  IN  IF m.aborted
      THEN Done(Matched(taker, m, own),
                m.events \o IF left > 0 THEN <<Reject(left, taker.reserve)>> ELSE <<>>,
                taker.action)
      ELSE Done(Matched(taker, m, IF left > 0 THEN Insert(own, resting) ELSE own),
                m.events, taker.action)

\* place_ioc: what is left is rejected.
PlaceIoc(book, taker, spec) ==
  LET m == TryMatch(book[Opposite(taker.action)], taker, spec.stp)
      left == taker.size - m.filled
  IN  Done(Matched(taker, m, book[taker.action]),
           m.events \o IF left > 0 THEN <<Reject(left, taker.reserve)>> ELSE <<>>,
           taker.action)

\* place_fok_budget: the price is the budget for the whole order, and then also the
\* limit of try_match; what is left is rejected only if the taker was cancelled.
PlaceFokBudget(book, taker, spec) ==
  LET opposite == book[Opposite(taker.action)]
      m == TryMatch(opposite, taker, spec.stp)
      left == taker.size - m.filled
  IN  IF BudgetSatisfied(taker.action, BudgetToFill(opposite, taker.size), taker.price)
      THEN Done(Matched(taker, m, book[taker.action]),
                m.events \o IF m.aborted /\ left > 0
                            THEN <<Reject(left, taker.reserve)>> ELSE <<>>,
                taker.action)
      ELSE Done(book, <<Reject(taker.size, taker.reserve)>>, taker.action)

\* Faulty variant: the order id is not looked up.
NewOrderUnchecked(book, taker, type, spec) ==
  CASE type = "Gtc"       -> PlaceGtc(book, taker, spec)
    [] type = "Ioc"       -> PlaceIoc(book, taker, spec)
    [] type = "FokBudget" -> PlaceFokBudget(book, taker, spec)
    [] OTHER              -> Refused(book, taker, "MatchingUnsupportedCommand")

\* new_order
NewOrder(book, taker, type, spec) ==
  CASE Knows(book, taker.id) -> Refused(book, taker, "MatchingDuplicateOrderId")
    [] ~Knows(book, taker.id) /\ type = "Gtc"       -> PlaceGtc(book, taker, spec)
    [] ~Knows(book, taker.id) /\ type = "Ioc"       -> PlaceIoc(book, taker, spec)
    [] ~Knows(book, taker.id) /\ type = "FokBudget" -> PlaceFokBudget(book, taker, spec)
    [] OTHER -> Refused(book, taker, "MatchingUnsupportedCommand")

\* May this user touch that order?
Owns(book, cmd) == Knows(book, cmd.id) /\ OrderOf(book, cmd.id).uid = cmd.uid

\* cancel_order
CancelOrder(book, cmd) ==
  LET o == OrderOf(book, cmd.id)
  IN  IF ~Owns(book, cmd) THEN Refused(book, cmd, "MatchingUnknownOrderId")
      ELSE Done([book EXCEPT ![o.action] = Without(@, o.id)],
                <<Reject(Remaining(o), o.reserve)>>, o.action)

\* move_order: out of the book, matched at the new price, and back in at the tail
\* of its new level.
MoveOrder(book, cmd, spec) ==
  LET o == OrderOf(book, cmd.id)
      m == TryMatch(book[Opposite(o.action)], Retaker(o, cmd.price), spec.stp)
      moved == [o EXCEPT !.price = cmd.price, !.filled = @ + m.filled]
      own == Without(book[o.action], o.id)
  IN  IF ~Knows(book, cmd.id) THEN Refused(book, cmd, "MatchingUnknownOrderId")
      ELSE IF cmd.price <= 0 THEN Refused(book, cmd, "RiskInvalidOrderParams")
      ELSE IF ~Owns(book, cmd) THEN Refused(book, cmd, "MatchingUnknownOrderId")
      ELSE IF ~MoveAllowed(o, cmd.price, spec)
      THEN Refused(book, cmd, "RiskInvalidReserveBidPrice")
      ELSE IF m.aborted /\ Remaining(moved) > 0
      THEN Done(Matched(o, m, own),
                Append(m.events, Reject(Remaining(moved), o.reserve)), o.action)
      ELSE Done(Matched(o, m, IF Remaining(moved) > 0 THEN Insert(own, moved) ELSE own),
                m.events, o.action)

\* reduce_order
ReduceOrder(book, cmd) ==
  LET o == OrderOf(book, cmd.id)
      by == IF Remaining(o) < cmd.size THEN Remaining(o) ELSE cmd.size
      Shrunk(x) == IF x.id = o.id THEN [x EXCEPT !.size = @ - by] ELSE x
      side == book[o.action]
  IN  IF ~Knows(book, cmd.id) THEN Refused(book, cmd, "MatchingUnknownOrderId")
      ELSE IF cmd.size <= 0 THEN Refused(book, cmd, "MatchingInvalidOrderSize")
      ELSE IF ~Owns(book, cmd) THEN Refused(book, cmd, "MatchingUnknownOrderId")
      ELSE Done([book EXCEPT ![o.action] =
                   IF by = Remaining(o) THEN Without(@, o.id)
                   ELSE [i \in 1..Len(side) |-> Shrunk(side[i])]],
                <<Reject(by, o.reserve)>>, o.action)

-----------------------------------------------------------------------------
(* The shape of a book: orders rest on their own side, unfilled in part, under *)
(* distinct ids, best price first.                                             *)

OrdersOf(users, ids) ==
  [id : ids, uid : users, action : Actions, price : Int, size : Int, filled : Int,
   reserve : Int]

SideOK(side, action, users, ids) ==
  /\ side \in Seq(OrdersOf(users, ids))
  /\ \A i \in 1..Len(side) :
       side[i].action = action /\ 0 <= side[i].filled /\ side[i].filled < side[i].size
  /\ \A i, j \in 1..Len(side) : i < j =>
       side[i].id # side[j].id /\ ~Ahead(action, side[j].price, side[i].price)

BookOK(book, users, ids) ==
  /\ DOMAIN book = Actions
  /\ \A action \in Actions : SideOK(book[action], action, users, ids)
  /\ \A i \in 1..Len(book["Ask"]), j \in 1..Len(book["Bid"]) :
       book["Ask"][i].id # book["Bid"][j].id
=============================================================================
