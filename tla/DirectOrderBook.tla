--------------------------- MODULE DirectOrderBook ---------------------------
(***************************************************************************)
(* DirectOrderBook (src/src/core/orderbook/direct.rs) as it is built: two    *)
(* slabs of orders and price buckets, a doubly linked list of orders per     *)
(* side that runs through all its buckets from the best order to the worst,  *)
(* a map from prices to buckets, an index of order ids and a pointer to the  *)
(* best order of each side.  `prev` leads to the next worse order, `next`    *)
(* back to the better one.                                                   *)
(*                                                                          *)
(* Adding or removing one order updates up to ten of these places.           *)
(***************************************************************************)
EXTENDS Orders, Sums, Sequences, FiniteSets, SequencesExt

CONSTANTS
  Users, OrderIds, Prices, Reserves, Sizes, Types, Specs   \* as in LimitOrderBook

ASSUME BookAssumption ==
  /\ Prices \subseteq Nat \ {0} /\ Reserves \subseteq Nat \ {0}
  /\ Sizes \subseteq Nat \ {0}
  /\ \A s \in Specs :
       /\ s.stp \in {"None", "CancelTaker", "CancelMaker", "CancelBoth", "Skip"}
       /\ s.spot \in BOOLEAN

VARIABLES
  spec,      \* symbol_spec
  direct,    \* the other fields of the struct
  command,   \* the last command
  reply      \* what it was answered: result code, events, and the action filled in

vars == <<spec, direct, command, reply>>

None == 0

\* A map without one of its keys, and with one more.
Without(f, k) == [j \in DOMAIN f \ {k} |-> f[j]]
With(f, k, v) == [j \in DOMAIN f \cup {k} |-> IF j = k THEN v ELSE f[j]]

\* Slab::insert: a vacant key.
Vacant(slab) == CHOOSE i \in 1..Cardinality(DOMAIN slab) + 1 : i \notin DOMAIN slab

NoMap == [k \in {} |-> None]

Empty ==
  [orders |-> NoMap, buckets |-> NoMap, index |-> NoMap,
   levels |-> [action \in Actions |-> NoMap],
   best |-> [action \in Actions |-> None]]

-----------------------------------------------------------------------------
(* The linked lists and the buckets *)

\* Faulty variant: the worse neighbour's back pointer is forgotten.
LinkBehindHalf(b, i, ahead, bucket) ==
  LET behind == b.orders[ahead].prev
  IN  [b EXCEPT !.orders = [j \in DOMAIN b.orders |->
         CASE j = i     -> [b.orders[j] EXCEPT !.next = ahead, !.prev = behind,
                                               !.parent = bucket]
           [] j = ahead -> [b.orders[j] EXCEPT !.prev = i]
           [] OTHER     -> b.orders[j]]]

\* Put order i of a bucket into the list directly behind the order `ahead`.
LinkBehind(b, i, ahead, bucket) ==
  LET behind == b.orders[ahead].prev
  IN  [b EXCEPT !.orders = [j \in DOMAIN b.orders |->
         CASE j = i      -> [b.orders[j] EXCEPT !.next = ahead, !.prev = behind,
                                                !.parent = bucket]
           [] j = ahead  -> [b.orders[j] EXCEPT !.prev = i]
           [] j = behind -> [b.orders[j] EXCEPT !.next = i]
           [] OTHER      -> b.orders[j]]]

\* Put order i of a new bucket at the head of its side.
LinkFirst(b, i, bucket) ==
  LET action == b.orders[i].action
      behind == b.best[action]
  IN  [b EXCEPT !.best[action] = i,
         !.orders = [j \in DOMAIN b.orders |->
           CASE j = i      -> [b.orders[j] EXCEPT !.next = None, !.prev = behind,
                                                  !.parent = bucket]
             [] j = behind -> [b.orders[j] EXCEPT !.next = i]
             [] OTHER      -> b.orders[j]]]

\* The bucket that order o in slot i leaves, with another last order, the one it joins,
\* and the one that is made for it.
Left(bucket, o, tail) ==
  [price |-> bucket.price, volume |-> bucket.volume - Remaining(o),
   orders |-> bucket.orders - 1, tail |-> tail]

Joined(bucket, i, o) ==
  [price |-> bucket.price, volume |-> bucket.volume + Remaining(o),
   orders |-> bucket.orders + 1, tail |-> i]

Opened(i, o) == [price |-> o.price, volume |-> Remaining(o), orders |-> 1, tail |-> i]

\* insert_order, for an order that is in its slot already.
InsertOrder(b, i) ==
  LET o == b.orders[i]
      levels == b.levels[o.action]
      better == {p \in DOMAIN levels : Ahead(o.action, p, o.price)}
      lower == CHOOSE p \in better : \A q \in better : p = q \/ Ahead(o.action, q, p)
      known == levels[o.price]
      k == Vacant(b.buckets)
      joined == [b EXCEPT !.buckets[known] = Joined(@, i, o)]
      opened == [b EXCEPT !.buckets = With(@, k, Opened(i, o)),
                          !.levels[o.action] = With(@, o.price, k)]
  IN  IF o.price \in DOMAIN levels
      THEN LinkBehind(joined, i, b.buckets[known].tail, known)
      ELSE IF better # {}
      THEN LinkBehind(opened, i, b.buckets[levels[lower]].tail, k)
      ELSE LinkFirst(opened, i, k)

\* remove_order: out of the list, its bucket and, when it was the last one there,
\* the price levels.  The order stays in its slot.
RemoveOrder(b, i) ==
  LET o == b.orders[i]
      k == o.parent
      bucket == b.buckets[k]
      last == bucket.tail = i
      gone == last /\ (o.next = None \/ b.orders[o.next].parent # k)
  IN  [b EXCEPT
        !.orders = [j \in DOMAIN b.orders |->
          CASE j = o.next -> [b.orders[j] EXCEPT !.prev = o.prev]
            [] j = o.prev -> [b.orders[j] EXCEPT !.next = o.next]
            [] OTHER      -> b.orders[j]],
        !.best = [action \in Actions |->
                    IF @[action] = i THEN o.prev ELSE @[action]],
        !.buckets =
          IF gone THEN Without(@, k)
          ELSE [@ EXCEPT ![k] = Left(bucket, o, IF last THEN o.next ELSE bucket.tail)],
        !.levels[o.action] = IF gone THEN Without(@, o.price) ELSE @]

\* Out of the index and the slab.
Free(b, i) ==
  [b EXCEPT !.index = Without(@, b.orders[i].id), !.orders = Without(@, i)]

\* The slots met when following `prev` from the best order, no further than there are
\* slots.
Chain(b, action) ==
  LET Nth[n \in 1..Cardinality(DOMAIN b.orders)] ==
        IF n = 1 THEN b.best[action]
        ELSE LET ahead == Nth[n - 1]
             IN  IF ahead = None THEN None ELSE b.orders[ahead].prev
  IN  SubSeq(Nth, 1, Cardinality({n \in DOMAIN Nth : Nth[n] # None}))

-----------------------------------------------------------------------------
(* Matching *)

\* Faulty variant: the best pointer is advanced over orders that stay.
AdvanceAlways(s, prev) == [s EXCEPT !.newBest = prev]

\* The best order is the first one that is not removed: a pointer that has stopped
\* once moves no more.
Advance(s, prev) == IF s.intact THEN [s EXCEPT !.newBest = prev] ELSE s

\* Self-trade prevention meets the taker's own order in slot i.
MeetOwn(s, i, stp) ==
  LET maker == s.b.orders[i]
      cancelled == [s EXCEPT !.b = Free(RemoveOrder(@, i), i),
                             !.events = Append(@, RejectMaker(maker))]
      met == IF stp \in {"CancelMaker", "CancelBoth"}
             THEN Advance(cancelled, maker.prev)
             ELSE [s EXCEPT !.intact = FALSE]
  IN  IF stp \in {"CancelTaker", "CancelBoth"}
      THEN [met EXCEPT !.aborted = TRUE, !.stopped = TRUE]
      ELSE met

\* The order in slot i is filled by `size` more.
Fill(b, i, size) ==
  [b EXCEPT !.orders[i].filled = @ + size,
            !.buckets[b.orders[i].parent].volume = @ - size]

\* Trade with the order in slot i.
TradeWith(s, i, taker) ==
  LET maker == s.b.orders[i]
      left == taker.size - s.filled
      size == IF left < Remaining(maker) THEN left ELSE Remaining(maker)
      traded == [s EXCEPT !.b = Fill(@, i, size), !.filled = @ + size,
                          !.events = Append(@, Trade(taker, maker, size))]
  IN  IF size < Remaining(maker) THEN [traded EXCEPT !.stopped = TRUE]
      ELSE Advance([traded EXCEPT !.b = Free(RemoveOrder(@, i), i)], maker.prev)

Start(b, side) ==
  [b |-> b, events |-> <<>>, filled |-> 0, aborted |-> FALSE,
   newBest |-> b.best[side], intact |-> TRUE, stopped |-> FALSE]

\* The order in slot i has its turn.
Visit(s, i, taker, stp) ==
  IF \/ s.stopped \/ s.filled = taker.size
     \/ ~WithinLimit(taker, s.b.orders[i].price)
  THEN [s EXCEPT !.stopped = TRUE]
  ELSE IF Own(taker, s.b.orders[i], stp) THEN MeetOwn(s, i, stp)
  ELSE TradeWith(s, i, taker)

Visits(b, chain, taker, stp) ==
  LET After[n \in 0..Len(chain)] ==
        IF n = 0 THEN Start(b, Opposite(taker.action))
        ELSE Visit(After[n - 1], chain[n], taker, stp)
  IN  After

\* try_match: down the list of the opposite side.  Removing an order leaves the
\* links of the orders behind it alone, so the walk is that of the list at the start.
TryMatch(b, taker, stp) ==
  LET side == Opposite(taker.action)
      chain == Chain(b, side)
      end == Visits(b, chain, taker, stp)[Len(chain)]
  IN  [end EXCEPT !.b.best[side] = end.newBest]

\* Faulty variant: only the best bucket is looked at.
BudgetToFillShallow(b, action, size) ==
  LET i == b.best[Opposite(action)]
  IN  IF i # None /\ size <= b.buckets[b.orders[i].parent].volume
      THEN size * b.orders[i].price ELSE -1

\* The first order of a bucket, `left` still to be filled.
Budget(b, s) ==
  LET order == b.orders[s.maker]
      bucket == b.buckets[order.parent]
  IN  IF s.maker = None \/ s.filled THEN s
      ELSE IF s.left > bucket.volume
      THEN [s EXCEPT !.maker = b.orders[bucket.tail].prev,
                     !.left = @ - bucket.volume,
                     !.cost = @ + bucket.volume * order.price]
      ELSE [s EXCEPT !.filled = TRUE, !.cost = @ + s.left * order.price]

\* check_budget_to_fill: bucket by bucket, by the volume in their books; -1 when
\* there is not that much.
Budgets(b, action, size) ==
  LET After[n \in 0..Cardinality(DOMAIN b.orders)] ==
        IF n = 0
        THEN [maker |-> b.best[Opposite(action)], left |-> size, cost |-> 0, filled |-> FALSE]
        ELSE Budget(b, After[n - 1])
  IN  After

BudgetToFill(b, action, size) ==
  LET end == Budgets(b, action, size)[Cardinality(DOMAIN b.orders)]
  IN  IF end.filled THEN end.cost ELSE -1

-----------------------------------------------------------------------------
(* Operations *)

Done(b, events, action) ==
  [direct |-> b, events |-> events, code |-> "Success", action |-> action]

Refused(b, cmd, code) ==
  [direct |-> b, events |-> <<>>, code |-> code, action |-> cmd.action]

RejectRest(left, o) == IF left > 0 THEN <<Reject(left, o.reserve)>> ELSE <<>>

Plain(o) ==
  [id |-> o.id, uid |-> o.uid, action |-> o.action, price |-> o.price, size |-> o.size,
   filled |-> o.filled, reserve |-> o.reserve]

Unlinked(o, filled) ==
  [id |-> o.id, uid |-> o.uid, action |-> o.action, price |-> o.price, size |-> o.size,
   filled |-> filled, reserve |-> o.reserve, next |-> None, prev |-> None,
   parent |-> None]

\* place_gtc
PlaceGtc(b, taker, stp) ==
  LET m == TryMatch(b, taker, stp)
      i == Vacant(m.b.orders)
      resting == [m.b EXCEPT
        !.orders = With(@, i, Unlinked(taker, m.filled)),
        !.index = With(@, taker.id, i)]
  IN  IF m.aborted
      THEN Done(m.b, m.events \o RejectRest(taker.size - m.filled, taker), taker.action)
      ELSE Done(IF m.filled < taker.size THEN InsertOrder(resting, i) ELSE m.b,
                m.events, taker.action)

\* place_ioc
PlaceIoc(b, taker, stp) ==
  LET m == TryMatch(b, taker, stp)
  IN  Done(m.b, m.events \o RejectRest(taker.size - m.filled, taker), taker.action)

\* place_fok_budget
PlaceFokBudget(b, taker, stp) ==
  LET m == TryMatch(b, taker, stp)
      cost == BudgetToFill(b, taker.action, taker.size)
  IN  IF BudgetSatisfied(taker.action, cost, taker.price)
      THEN Done(m.b, m.events \o IF m.aborted THEN RejectRest(taker.size - m.filled, taker)
                                 ELSE <<>>, taker.action)
      ELSE Done(b, <<Reject(taker.size, taker.reserve)>>, taker.action)

\* new_order
NewOrder(b, taker, type, s) ==
  CASE taker.id \in DOMAIN b.index -> Refused(b, taker, "MatchingDuplicateOrderId")
    [] taker.id \notin DOMAIN b.index /\ type = "Gtc" -> PlaceGtc(b, taker, s.stp)
    [] taker.id \notin DOMAIN b.index /\ type = "Ioc" -> PlaceIoc(b, taker, s.stp)
    [] taker.id \notin DOMAIN b.index /\ type = "FokBudget" ->
         PlaceFokBudget(b, taker, s.stp)
    [] OTHER -> Refused(b, taker, "MatchingUnsupportedCommand")

Owns(b, cmd) ==
  cmd.id \in DOMAIN b.index /\ b.orders[b.index[cmd.id]].uid = cmd.uid

\* cancel_order
CancelOrder(b, cmd) ==
  LET i == b.index[cmd.id]
      o == b.orders[i]
  IN  IF ~Owns(b, cmd) THEN Refused(b, cmd, "MatchingUnknownOrderId")
      ELSE Done(Free(RemoveOrder(b, i), i), <<Reject(Remaining(o), o.reserve)>>,
                o.action)

\* Faulty variant: an earlier partial fill is forgotten.
RefilledOverwrites(o, filled) == filled

\* The fills of a moved order add up.
Refilled(o, filled) == o.filled + filled

\* move_order: the order leaves the list but keeps its slot while it is matched.
MoveOrder(b, cmd, s) ==
  LET i == b.index[cmd.id]
      o == b.orders[i]
      removed == RemoveOrder(b, i)
      m == TryMatch([removed EXCEPT !.orders[i].price = cmd.price],
                    Retaker(Plain(o), cmd.price), s.stp)
      after == [m.b EXCEPT !.orders[i].filled = Refilled(o, m.filled)]
      left == o.size - Refilled(o, m.filled)
  IN  IF cmd.id \notin DOMAIN b.index THEN Refused(b, cmd, "MatchingUnknownOrderId")
      ELSE IF cmd.price <= 0 THEN Refused(b, cmd, "RiskInvalidOrderParams")
      ELSE IF ~Owns(b, cmd) THEN Refused(b, cmd, "MatchingUnknownOrderId")
      ELSE IF ~MoveAllowed(o, cmd.price, s)
      THEN Refused(b, cmd, "RiskInvalidReserveBidPrice")
      ELSE IF m.aborted /\ left > 0
      THEN Done(Free(after, i), Append(m.events, Reject(left, o.reserve)), o.action)
      ELSE Done(IF left <= 0 THEN Free(after, i) ELSE InsertOrder(after, i),
                m.events, o.action)

\* Faulty variant: the bucket's volume is not reduced.
ShrinkOrderOnly(b, i, by) == [b EXCEPT !.orders[i].size = @ - by]

Shrink(b, i, by) ==
  [b EXCEPT !.orders[i].size = @ - by,
            !.buckets[b.orders[i].parent].volume = @ - by]

\* reduce_order
ReduceOrder(b, cmd) ==
  LET i == b.index[cmd.id]
      o == b.orders[i]
      by == IF Remaining(o) < cmd.size THEN Remaining(o) ELSE cmd.size
  IN  IF cmd.id \notin DOMAIN b.index THEN Refused(b, cmd, "MatchingUnknownOrderId")
      ELSE IF cmd.size <= 0 THEN Refused(b, cmd, "MatchingInvalidOrderSize")
      ELSE IF ~Owns(b, cmd) THEN Refused(b, cmd, "MatchingUnknownOrderId")
      ELSE Done(IF by = Remaining(o) THEN Free(RemoveOrder(b, i), i)
                ELSE Shrink(b, i, by),
                <<Reject(by, o.reserve)>>, o.action)

-----------------------------------------------------------------------------
(* Commands *)

\* An order as the risk engine lets it through.
Order(uid, id, action, price, reserve, size) ==
  [id |-> id, uid |-> uid, action |-> action, price |-> price, size |-> size,
   filled |-> 0, reserve |-> reserve]

Admitted(action, price) ==
  IF action = "Ask" THEN {price} ELSE {r \in Reserves : r >= price}

Init ==
  /\ spec \in Specs
  /\ direct = Empty
  /\ command = <<"None">>
  /\ reply = [code |-> "New", events |-> <<>>, action |-> "Bid"]

Apply(r) ==
  /\ direct' = r.direct
  /\ reply' = [code |-> r.code, events |-> r.events, action |-> r.action]
  /\ UNCHANGED spec

Place(uid, id, action, price, reserve, size, type) ==
  LET o == Order(uid, id, action, price, reserve, size)
  IN  command' = <<"PlaceOrder", o, type>> /\ Apply(NewOrder(direct, o, type, spec))

Cancel(uid, id) ==
  /\ command' = <<"CancelOrder", uid, id>>
  /\ Apply(CancelOrder(direct, [uid |-> uid, id |-> id, action |-> "Bid"]))

Move(uid, id, price) ==
  /\ command' = <<"MoveOrder", uid, id, price>>
  /\ Apply(MoveOrder(direct, [uid |-> uid, id |-> id, action |-> "Bid",
                              price |-> price], spec))

Reduce(uid, id, size) ==
  /\ command' = <<"ReduceOrder", uid, id, size>>
  /\ Apply(ReduceOrder(direct, [uid |-> uid, id |-> id, action |-> "Bid",
                                size |-> size]))

Next ==
  \/ \E uid \in Users, id \in OrderIds, action \in Actions, price \in Prices,
        size \in Sizes, type \in Types : \E reserve \in Admitted(action, price) :
       Place(uid, id, action, price, reserve, size, type)
  \/ \E uid \in Users, id \in OrderIds : Cancel(uid, id)
  \/ \E uid \in Users, id \in OrderIds, price \in Prices : Move(uid, id, price)
  \/ \E uid \in Users, id \in OrderIds, size \in Sizes : Reduce(uid, id, size)

Spec == Init /\ [][Next]_vars

-----------------------------------------------------------------------------
(* Properties *)

\* What a walk from the best order finds, as plain orders.
Side(action) ==
  LET chain == Chain(direct, action)
  IN  [n \in 1..Len(chain) |-> Plain(direct.orders[chain[n]])]

\* The orders of a bucket that the walk along its side finds.
Members(action, k) ==
  {i \in ToSet(Chain(direct, action)) : direct.orders[i].parent = k}

VolumeOf(slots) == SumOf([i \in slots |-> Remaining(direct.orders[i])])

\* The three parts of the self-check assert_invariants (direct.rs:357-467), which a
\* debug build runs after every command: the index and the slots agree one to one;
\* every bucket's volume, count and tail are those of the orders found on its
\* stretch of the list; and the walks from the two best orders find every order
\* once, on its own side, in the order of prices.
IndexMatches ==
  /\ Cardinality(DOMAIN direct.index) = Cardinality(DOMAIN direct.orders)
  /\ \A id \in DOMAIN direct.index :
       /\ direct.index[id] \in DOMAIN direct.orders
       /\ direct.orders[direct.index[id]].id = id

BucketsMatch ==
  \A action \in Actions : \A p \in DOMAIN direct.levels[action] :
    LET k == direct.levels[action][p]
        bucket == direct.buckets[k]
        members == Members(action, k)
        behind == direct.orders[bucket.tail].prev
    IN  /\ bucket.price = p
        /\ \A i \in members : /\ direct.orders[i].price = p
                             /\ direct.orders[i].filled <= direct.orders[i].size
        /\ bucket.volume = VolumeOf(members)
        /\ bucket.orders = Cardinality(members)
        /\ bucket.tail \in members /\ behind \notin members

AllReachable ==
  LET all == Chain(direct, "Ask") \o Chain(direct, "Bid")
  IN  /\ IsInjective(all)
      /\ Len(all) = Cardinality(DOMAIN direct.orders)
      /\ \A action \in Actions :
           LET chain == Chain(direct, action) IN
           /\ \A i \in ToSet(chain) : direct.orders[i].action = action
           /\ \A n \in 1..Len(chain) - 1 :
                ~Ahead(action, direct.orders[chain[n + 1]].price,
                       direct.orders[chain[n]].price)

AssertInvariants == IndexMatches /\ BucketsMatch /\ AllReachable

\* What the self-check leaves out: the lists can be walked backwards as well, and
\* every bucket in the slab is one of the price levels.  Both are relied on by
\* remove_order.
LinksMatch ==
  /\ \A i \in DOMAIN direct.orders :
       LET o == direct.orders[i] IN
       /\ IF o.next = None THEN direct.best[o.action] = i
          ELSE direct.orders[o.next].prev = i
       /\ o.prev # None => direct.orders[o.prev].next = i
       /\ direct.levels[o.action][o.price] = o.parent
  /\ DOMAIN direct.buckets =
       UNION {Range(direct.levels[action]) : action \in Actions}

\* get_l2_data: price levels with their volumes and order counts.
Depth(action) ==
  [p \in DOMAIN direct.levels[action] |->
     LET bucket == direct.buckets[direct.levels[action][p]]
     IN  [volume |-> bucket.volume, orders |-> bucket.orders]]

\* The market depth that is published is that of the orders in the book: no level
\* is missing, none is left over, none is counted wrongly.
DepthIsBook ==
  \A action \in Actions :
    LET rest == {i \in DOMAIN direct.orders : direct.orders[i].action = action}
    IN  Depth(action) =
          [p \in {direct.orders[i].price : i \in rest} |->
             LET there == {i \in rest : direct.orders[i].price = p}
             IN  [volume |-> VolumeOf(there), orders |-> Cardinality(there)]]

\* The linked lists implement the sequences of LimitOrderBook: same answers, same
\* events, same priorities, whatever was removed from the middle, skipped or moved
\* before.
Abstract == INSTANCE LimitOrderBook WITH
  book <- [action \in Actions |-> Side(action)]

ImplementsLimitOrderBook == Abstract!Spec
=============================================================================
