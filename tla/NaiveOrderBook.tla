---------------------------- MODULE NaiveOrderBook ----------------------------
(***************************************************************************)
(* NaiveOrderBook (src/src/core/orderbook/naive.rs), the book the tests use *)
(* as the oracle for DirectOrderBook.                                        *)
(*                                                                          *)
(* A book is [levels, known, best]: levels[side] maps prices to buckets      *)
(* [volume, orders], known is order_map, best the cached prices.  As in      *)
(* PriceTimeBook, an operation returns the book it leaves, its events, the   *)
(* result code and the action of the command afterwards.                     *)
(***************************************************************************)
EXTENDS PriceLevels

Empty ==
  [levels |-> [action \in Actions |-> NoMap], known |-> NoMap,
   best |-> [action \in Actions |-> NoPrice]]

-----------------------------------------------------------------------------
(* Buckets *)

\* OrdersBucket::add, to the bucket of that price or a new one
Added(side, o) ==
  LET bucket == IF o.price \in DOMAIN side THEN side[o.price] ELSE [volume |-> 0, orders |-> <<>>]
  IN  [volume |-> bucket.volume + Remaining(o), orders |-> Append(bucket.orders, o)]

\* OrdersBucket::remove
TakenOut(bucket, o) ==
  [volume |-> bucket.volume - Remaining(o), orders |-> Others(bucket.orders, o.id)]

\* Every order of the bucket in turn gives what it has.
Fills(bucket, taker, size) ==
  LET Fill(acc, o) ==
        LET q == Smaller(Remaining(o), acc.left) IN
        IF q = 0 THEN [acc EXCEPT !.kept = Append(@, o)]
        ELSE [left   |-> acc.left - q,
              kept   |-> IF q = Remaining(o) THEN acc.kept
                         ELSE Append(acc.kept, [o EXCEPT !.filled = @ + q]),
              events |-> Append(acc.events, LevelTrade(taker, o, q))]
  IN  FoldLeft(Fill, [left |-> size, kept |-> <<>>, events |-> <<>>], bucket.orders)

\* Faulty variant: the volume that was traded stays in the total of the bucket.
MatchOrderOnly(bucket, taker, size) ==
  LET end == Fills(bucket, taker, size)
  IN  [bucket |-> [volume |-> bucket.volume, orders |-> end.kept],
       left |-> end.left, events |-> end.events]

\* OrdersBucket::match_order: what was traded leaves the total, filled orders leave
\* the bucket.
MatchOrder(bucket, taker, size) ==
  LET end == Fills(bucket, taker, size)
  IN  [bucket |-> [volume |-> bucket.volume - (size - end.left), orders |-> end.kept],
       left |-> end.left, events |-> end.events]

-----------------------------------------------------------------------------
(* Matching *)

\* try_match: level by level.  A budget order has no limit and no fast path.  Who owns
\* the makers does not matter, and a filled maker keeps its entry in the index.
TryMatch(b, taker, budget) ==
  LET opposite == Opposite(taker.action)
      prices == {p \in DOMAIN b.levels[opposite] : budget \/ WithinLimit(taker, p)}
      Level(acc, p) ==
        IF acc.left = 0 THEN acc
        ELSE LET m == MatchOrder(acc.side[p], taker, acc.left) IN
             [side |-> PutUnlessEmpty(acc.side, p, m.bucket), left |-> m.left,
              events |-> acc.events \o m.events]
      end == FoldLeft(Level,
                      [side |-> b.levels[opposite], left |-> taker.size, events |-> <<>>],
                      BestFirst(opposite, prices))
  IN  IF ~budget /\ OutOfReach(b, taker)
      THEN [book |-> b, filled |-> 0, events |-> <<>>]
      ELSE [book |-> UpdateBest([b EXCEPT !.levels[opposite] = end.side]),
            filled |-> taker.size - end.left, events |-> end.events]

\* check_budget_to_fill: whichever side it is, from its lowest price up.
BudgetToFill(b, size, action) ==
  LET side == b.levels[Opposite(action)]
      Level(acc, p) ==
        LET q == Smaller(acc.left, side[p].volume)
        IN  [left |-> acc.left - q, cost |-> acc.cost + q * p]
      end == FoldLeft(Level, [left |-> size, cost |-> 0], SetToSortSeq(DOMAIN side, <))
  IN  IF end.left > 0 THEN -1 ELSE end.cost

-----------------------------------------------------------------------------
(* Operations *)

Rest(b, o) == Enter(b, o, Added(b.levels[o.action], o))

\* place_gtc
PlaceGtc(b, taker) ==
  LET m == TryMatch(b, taker, FALSE)
  IN  Done(IF m.filled < taker.size THEN Rest(m.book, [taker EXCEPT !.filled = m.filled])
           ELSE m.book,
           m.events, taker.action)

\* place_ioc
PlaceIoc(b, taker) ==
  LET m == TryMatch(b, taker, FALSE)
      left == taker.size - m.filled
  IN  Done(m.book, m.events \o IF left > 0 THEN <<Reject(left, taker.reserve)>> ELSE <<>>,
           taker.action)

\* place_fok_budget
PlaceFokBudget(b, taker) ==
  LET m == TryMatch(b, taker, TRUE)
  IN  IF BudgetSatisfied(taker.action, BudgetToFill(b, taker.size, taker.action), taker.price)
      THEN Done(m.book, m.events, taker.action)
      ELSE Done(b, <<Reject(taker.size, taker.reserve)>>, taker.action)

\* new_order
NewOrder(b, taker, type) ==
  CASE taker.id \in DOMAIN b.known -> Refused(b, taker, "MatchingDuplicateOrderId")
    [] taker.id \notin DOMAIN b.known /\ type = "Gtc"       -> PlaceGtc(b, taker)
    [] taker.id \notin DOMAIN b.known /\ type = "Ioc"       -> PlaceIoc(b, taker)
    [] taker.id \notin DOMAIN b.known /\ type = "FokBudget" -> PlaceFokBudget(b, taker)
    [] OTHER -> Refused(b, taker, "MatchingUnsupportedCommand")

\* cancel_order: the id is forgotten first, whoever asks.
CancelOrder(b, cmd) ==
  LET o == CHOOSE x \in Found(b, cmd.id) : TRUE
  IN  IF Found(b, cmd.id) = {} THEN Refused(Forget(b, cmd.id), cmd, "MatchingUnknownOrderId")
      ELSE Done(Leave(Forget(b, o.id), o, TakenOut(b.levels[o.action][o.price], o)),
                <<Reject(Remaining(o), o.reserve)>>, o.action)

\* move_order: the order leaves its bucket (the cached prices are taken anew later),
\* and its whole size is matched at the new price, what was filled before included.
MoveOrder(b, cmd, spec) ==
  LET o == CHOOSE x \in Found(b, cmd.id) : TRUE
      out == LeaveLevel(b, o, TakenOut(b.levels[o.action][o.price], o))
      m == TryMatch(out, [o EXCEPT !.price = cmd.price, !.filled = 0], FALSE)
      moved == [o EXCEPT !.price = cmd.price, !.filled = @ + m.filled]
  IN  IF Found(b, cmd.id) = {} THEN Refused(b, cmd, "MatchingUnknownOrderId")
      ELSE IF ~MoveAllowed(o, cmd.price, spec)
      THEN Refused(b, cmd, "RiskInvalidReserveBidPrice")
      ELSE Done(IF moved.filled < moved.size THEN UpdateBest(Rest(m.book, moved))
                ELSE Forget(m.book, o.id),
                m.events, o.action)

\* reduce_order
ReduceOrder(b, cmd) ==
  LET o == CHOOSE x \in Found(b, cmd.id) : TRUE
      by == Smaller(Remaining(o), cmd.size)
      bucket == b.levels[o.action][o.price]
      Shrunk(x) == IF x.id = o.id THEN [x EXCEPT !.size = @ - by] ELSE x
      shrunk == [volume |-> bucket.volume - by,
                 orders |-> [i \in DOMAIN bucket.orders |-> Shrunk(bucket.orders[i])]]
  IN  IF Found(b, cmd.id) = {} THEN Refused(b, cmd, "MatchingUnknownOrderId")
      ELSE Done(IF by = Remaining(o) THEN Leave(Forget(b, o.id), o, TakenOut(bucket, o))
                ELSE [b EXCEPT !.levels[o.action][o.price] = shrunk],
                <<Reject(by, o.reserve)>>, o.action)
=============================================================================
