---------------------------- MODULE MCOtherBooks ----------------------------
(***************************************************************************)
(* Small instances of OtherBooks for TLC.                                    *)
(***************************************************************************)
EXTENDS OtherBooks

\* Bound: behaviours are not continued once more than 2 lots rest in the book, 3 in a
\* naive one, or more than 2 wait in the pool of stop orders.
FewLots ==
  LET Lots(orders) == FoldLeft(LAMBDA sum, o : sum + Remaining(o), 0, orders)
      resting == Lots(Levels!SideOf(book, "Ask") \o Levels!SideOf(book, "Bid"))
  IN  IF kind = "naive" THEN resting <= 3 ELSE resting <= 2 /\ Lots(book.stops) <= 2

\* The answers given so far say nothing about what follows; nor does the type of an
\* order in the book, what it would show of lots it no longer has, where an order that
\* is gone once was, the price of a trade whose stop orders have been dealt with, or
\* which id an order has, as long as the index is in order.
\* (The comparison at the end makes TLC evaluate the whole state.)
SeenOrder(o) ==
  IF kind = "naive" THEN [o EXCEPT !.id = 0]
  ELSE <<o.uid, Remaining(o), Advanced!Visible(o), o.reserve>>

Seen ==
  <<kind, book.best, Cardinality(DOMAIN book.known), RestingIsFound,
    [action \in Actions |->
       LET side == book.levels[action] IN
       [p \in DOMAIN side |->
          [side[p] EXCEPT !.orders = [i \in DOMAIN @ |-> SeenOrder(@[i])]]]],
    IF kind = "naive" THEN <<>>
    ELSE [i \in DOMAIN book.stops |-> [book.stops[i] EXCEPT !.id = 0]],
    book = book>>
=============================================================================
