----------------------------- MODULE PriceLevels -----------------------------
(***************************************************************************)
(* What NaiveOrderBook and AdvancedOrderBook share: price levels in an       *)
(* ordered map per side, an index of order ids, and the two best prices in a *)
(* cache.  A level is a record with at least its volume and its orders.      *)
(***************************************************************************)
EXTENDS Orders, Sequences, SequencesExt

NoPrice == 0
NoMap == [k \in {} |-> 0]

Smaller(m, n) == IF m < n THEN m ELSE n

BestFirst(action, prices) == SetToSortSeq(prices, LAMBDA p, q : Ahead(action, p, q))

Cached(side, action) ==
  IF DOMAIN side = {} THEN NoPrice ELSE BestFirst(action, DOMAIN side)[1]

\* update_best_prices
UpdateBest(b) ==
  [b EXCEPT !.best = [action \in Actions |-> Cached(b.levels[action], action)]]

Put(side, p, bucket) == [q \in DOMAIN side \cup {p} |-> IF q = p THEN bucket ELSE side[q]]

\* A level without volume is dropped.
PutUnlessEmpty(side, p, bucket) ==
  IF bucket.volume = 0 THEN [q \in DOMAIN side \ {p} |-> side[q]] ELSE Put(side, p, bucket)

\* Faulty variant: an order at exactly the best price does not trade.
OutOfReachAtLimit(b, taker) ==
  LET best == b.best[Opposite(taker.action)]
  IN  best = NoPrice \/ ~StrictlyWithin(taker, best)

\* The fast path of matching: the cached best price is beyond the limit.
OutOfReach(b, taker) ==
  LET best == b.best[Opposite(taker.action)]
  IN  best = NoPrice \/ ~WithinLimit(taker, best)

\* Faulty variant: an entry that is there already is kept.
IndexedOnce(known, o) ==
  [id \in DOMAIN known \cup {o.id} |->
     IF id \in DOMAIN known THEN known[id] ELSE [price |-> o.price, action |-> o.action]]

\* The index with the order at its place.
Indexed(known, o) ==
  [id \in DOMAIN known \cup {o.id} |->
     IF id = o.id THEN [price |-> o.price, action |-> o.action] ELSE known[id]]

\* The order is entered in the index and its level put in place; a better price than
\* the cached one replaces it.
Enter(b, o, bucket) ==
  LET best == b.best[o.action]
  IN  [b EXCEPT
        !.levels[o.action] = Put(@, o.price, bucket),
        !.known = Indexed(@, o),
        !.best[o.action] =
          IF best = NoPrice \/ Ahead(o.action, o.price, best) THEN o.price ELSE best]

Forget(b, id) == [b EXCEPT !.known = [x \in DOMAIN @ \ {id} |-> @[x]]]

\* Where the index says the order is: the orders with that id found there.
Found(b, id) ==
  IF id \notin DOMAIN b.known THEN {}
  ELSE LET at == b.known[id]
           side == b.levels[at.action]
       IN  IF at.price \notin DOMAIN side THEN {}
           ELSE {o \in ToSet(side[at.price].orders) : o.id = id}

\* The order's level is left to the others; when there are none the level goes.
LeaveLevel(b, o, bucket) ==
  [b EXCEPT !.levels[o.action] = PutUnlessEmpty(@, o.price, bucket)]

\* The same, and when the level has gone the cached prices are taken anew.
Leave(b, o, bucket) ==
  LET left == LeaveLevel(b, o, bucket)
  IN  IF bucket.volume = 0 THEN UpdateBest(left) ELSE left

Others(orders, id) == SelectSeq(orders, LAMBDA x : x.id # id)

-----------------------------------------------------------------------------
(* Answers, as in PriceTimeBook.  The price the funds of the bidder are said to be *)
(* held at is always the maker's.                                            *)

LevelTrade(taker, maker, size) ==
  [Trade(taker, maker, size) EXCEPT !.hold = maker.reserve]

Refused(b, cmd, code) == [book |-> b, events |-> <<>>, code |-> code, action |-> cmd.action]
Done(b, events, action) ==
  [book |-> b, events |-> events, code |-> "Success", action |-> action]

-----------------------------------------------------------------------------
(* The book as two sequences of orders, best first *)

SideOf(b, action) ==
  FoldLeft(LAMBDA acc, p : acc \o b.levels[action][p].orders, <<>>,
           BestFirst(action, DOMAIN b.levels[action]))
=============================================================================
