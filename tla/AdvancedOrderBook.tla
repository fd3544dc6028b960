-------------------------- MODULE AdvancedOrderBook --------------------------
(***************************************************************************)
(* AdvancedOrderBook (src/src/core/orderbook/advanced.rs): a NaiveOrderBook  *)
(* with post-only, iceberg, fill-or-kill and stop orders.  The engine does   *)
(* not use it.                                                              *)
(*                                                                          *)
(* A book is [levels, known, best, stops, last]: the first three as in       *)
(* NaiveOrderBook, a bucket having a visible volume too; stops is the pool   *)
(* of stop orders, last the price that triggers them.  An order carries its  *)
(* type, its visible size (its whole size, where the code has None), its     *)
(* stop price and whether the stop was triggered.  Expiry is left out.       *)
(***************************************************************************)
EXTENDS PriceLevels

Empty ==
  [levels |-> [action \in Actions |-> NoMap], known |-> NoMap,
   best |-> [action \in Actions |-> NoPrice], stops |-> <<>>, last |-> NoPrice]

StopTypes == {"StopLimit"}
AtOnceTypes == {"Ioc", "Fok"}

-----------------------------------------------------------------------------
(* Buckets *)

Visible(o) == Smaller(o.visible, Remaining(o))

\* AdvancedBucket::add, to the bucket of that price or a new one
Added(side, o) ==
  LET bucket == IF o.price \in DOMAIN side THEN side[o.price]
                ELSE [volume |-> 0, visible |-> 0, orders |-> <<>>]
  IN  [volume |-> bucket.volume + Remaining(o), visible |-> bucket.visible + Visible(o),
       orders |-> Append(bucket.orders, o)]

\* AdvancedBucket::remove
TakenOut(bucket, o) ==
  [volume |-> bucket.volume - Remaining(o), visible |-> bucket.visible - Visible(o),
   orders |-> Others(bucket.orders, o.id)]

\* What an order shows after a fill of q: replenished at once, from the same place in
\* the queue.
Shown(o, q) == Visible([o EXCEPT !.filled = @ + q])

\* AdvancedBucket::match_order: like the naive book's, with the visible volume.
MatchOrder(bucket, taker, size) ==
  LET Fill(acc, o) ==
        LET q == Smaller(Remaining(o), acc.left)
            after == [o EXCEPT !.filled = @ + q]
            kept == IF Remaining(after) = 0 THEN <<>> ELSE <<after>>
        IN  IF q = 0 THEN [acc EXCEPT !.bucket.orders = Append(@, o)]
            ELSE [left   |-> acc.left - q,
                  bucket |-> [volume  |-> acc.bucket.volume - q,
                              visible |-> acc.bucket.visible - Visible(o) + Shown(o, q),
                              orders  |-> acc.bucket.orders \o kept],
                  events |-> Append(acc.events, LevelTrade(taker, o, q))]
  IN  FoldLeft(Fill, [left |-> size, bucket |-> [bucket EXCEPT !.orders = <<>>], events |-> <<>>],
               bucket.orders)

-----------------------------------------------------------------------------
(* Matching *)

\* try_match
TryMatch(b, taker) ==
  LET opposite == Opposite(taker.action)
      prices == {p \in DOMAIN b.levels[opposite] : WithinLimit(taker, p)}
      Level(acc, p) ==
        IF acc.left = 0 THEN acc
        ELSE LET m == MatchOrder(acc.side[p], taker, acc.left) IN
             [side |-> PutUnlessEmpty(acc.side, p, m.bucket), left |-> m.left,
              events |-> acc.events \o m.events]
      end == FoldLeft(Level,
                      [side |-> b.levels[opposite], left |-> taker.size, events |-> <<>>],
                      BestFirst(opposite, prices))
  IN  IF OutOfReach(b, taker)
      THEN [book |-> b, filled |-> 0, events |-> <<>>]
      ELSE [book |-> UpdateBest([b EXCEPT !.levels[opposite] = end.side]),
            filled |-> taker.size - end.left, events |-> end.events]

\* Faulty variant: the limit is not looked at.
CanFillAnyhow(b, taker) ==
  LET side == b.levels[Opposite(taker.action)]
  IN  MapThenSumSet(LAMBDA p : side[p].volume, DOMAIN side) >= taker.size

\* can_fill_completely: from the lowest price up on either side, until a price is
\* beyond the limit.  For an ask that may be the very first one.
CanFillCompletely(b, taker) ==
  LET side == b.levels[Opposite(taker.action)]
      Level(acc, p) ==
        IF acc.stopped \/ ~WithinLimit(taker, p) THEN [acc EXCEPT !.stopped = TRUE]
        ELSE [acc EXCEPT !.available = @ + side[p].volume]
  IN  FoldLeft(Level, [stopped |-> FALSE, available |-> 0],
               SetToSortSeq(DOMAIN side, <)).available >= taker.size

-----------------------------------------------------------------------------
(* Orders taken in *)

Due(b, o) ==
  ~o.triggered /\ IF o.action = "Bid" THEN b.last >= o.stop ELSE b.last <= o.stop

\* Faulty variant: the scan ends with the first one.
TriggeredFirst(b) ==
  {i \in DOMAIN b.stops : Due(b, b.stops[i]) /\ \A j \in 1..i - 1 : ~Due(b, b.stops[j])}

\* The positions of the stop orders that the last price triggers.
Triggered(b) == {i \in DOMAIN b.stops : Due(b, b.stops[i])}

\* The order that an activated stop order is placed as.
Activated(o) == [o EXCEPT !.visible = o.size, !.stop = NoPrice, !.triggered = FALSE]

RECURSIVE PlaceOrderInternal(_, _)

\* process_stop_orders: those due are marked, and placed from the last one back.  Their
\* orders trade and trigger in turn; their events are lost.
ProcessStopOrders(b) ==
  LET due == Triggered(b)
      marked == [b EXCEPT !.stops =
                   [i \in DOMAIN @ |-> [@[i] EXCEPT !.triggered = @ \/ i \in due]]]
      Activate(book, i) ==
        PlaceOrderInternal([book EXCEPT !.stops = RemoveAt(@, i)],
                           Activated(book.stops[i])).book
  IN  FoldLeft(Activate, marked, SetToSortSeq(due, >))

\* place_order_internal: matched, the stop orders it triggers placed, and only then
\* what is left of the order put into the book.
PlaceOrderInternal(b, taker) ==
  LET m == TryMatch(b, taker)
      left == taker.size - m.filled
      after == IF m.filled > 0
               THEN ProcessStopOrders([m.book EXCEPT !.last = taker.price]) ELSE m.book
      resting == [taker EXCEPT !.filled = m.filled]
  IN  IF taker.type = "Fok" /\ ~CanFillCompletely(b, taker)
      THEN Done(b, <<Reject(taker.size, taker.reserve)>>, taker.action)
      ELSE IF left = 0 THEN Done(after, m.events, taker.action)
      ELSE IF taker.type \in AtOnceTypes
      THEN Done(after, Append(m.events, Reject(left, taker.reserve)), taker.action)
      ELSE Done(Enter(after, resting, Added(after.levels[taker.action], resting)),
                m.events, taker.action)

\* place_order
PlaceOrder(b, taker) ==
  IF taker.type = "PostOnly" /\ ~OutOfReach(b, taker)
  THEN Done(b, <<Reject(taker.size, taker.reserve)>>, taker.action)
  ELSE IF taker.type \in StopTypes
  THEN Done([b EXCEPT !.stops = Append(@, taker)], <<>>, taker.action)
  ELSE PlaceOrderInternal(b, taker)

-----------------------------------------------------------------------------
(* Operations *)

Waiting(b, id) == {i \in DOMAIN b.stops : b.stops[i].id = id}

\* new_order
NewOrder(b, taker) ==
  IF taker.id \in DOMAIN b.known \/ Waiting(b, taker.id) # {}
  THEN Refused(b, taker, "MatchingDuplicateOrderId")
  ELSE PlaceOrder(b, taker)

\* cancel_order: a resting order, or else one of the pool.
CancelOrder(b, cmd) ==
  LET o == CHOOSE x \in Found(b, cmd.id) : TRUE
      waiting == Waiting(b, cmd.id)
      i == CHOOSE x \in waiting : \A y \in waiting : x <= y
      forgotten == Forget(b, cmd.id)
  IN  IF Found(b, cmd.id) # {}
      THEN Done(Leave(forgotten, o, TakenOut(b.levels[o.action][o.price], o)),
                <<Reject(Remaining(o), o.reserve)>>, o.action)
      ELSE IF waiting # {}
      THEN Done([forgotten EXCEPT !.stops = RemoveAt(@, i)],
                <<Reject(b.stops[i].size, b.stops[i].reserve)>>, b.stops[i].action)
      ELSE Refused(forgotten, cmd, "MatchingUnknownOrderId")

\* move_order: cancelled, and placed again as the command has it: its user, its size,
\* its reserve price, as a plain order.
MoveOrder(b, cmd) ==
  LET cancelled == CancelOrder(b, cmd)
      again == [id |-> cmd.id, uid |-> cmd.uid, action |-> cancelled.action,
                price |-> cmd.price, size |-> cmd.size, filled |-> 0, reserve |-> cmd.reserve,
                type |-> "Gtc", visible |-> cmd.size, stop |-> NoPrice, triggered |-> FALSE]
      placed == PlaceOrder(cancelled.book, again)
  IN  IF cancelled.code # "Success" THEN cancelled
      ELSE [placed EXCEPT !.events = cancelled.events \o @]

\* reduce_order
ReduceOrder(b, cmd) == Refused(b, cmd, "MatchingUnsupportedCommand")
=============================================================================
