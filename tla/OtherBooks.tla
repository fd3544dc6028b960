----------------------------- MODULE OtherBooks -----------------------------
(***************************************************************************)
(* The two order books the engine does not use, NaiveOrderBook and           *)
(* AdvancedOrderBook, under streams of commands, and what they have in       *)
(* common with the one it uses: the comparison that                          *)
(* tests/orderbook_differential_test.rs makes for random streams of the      *)
(* naive book.                                                              *)
(***************************************************************************)
EXTENDS Orders, Sequences, FiniteSets, SequencesExt

CONSTANTS
  Users,
  OrderIds,       \* numbers
  Prices,         \* limit prices and stop prices, all positive
  Reserves,       \* prices at which the funds of bids are held
  Sizes,          \* sizes, all positive
  NaiveTypes, AdvancedTypes,   \* order types
  VisibleSizes,   \* what iceberg orders show
  MaxStops        \* bound: stop orders in the pool

\* With three stop orders in the pool one that is activated may trigger another and
\* take it out while the outer loop of process_stop_orders still holds positions, and
\* Vec::remove may be called with one that is gone.
ASSUME OtherBooksAssumption ==
  /\ OrderIds \subseteq Nat
  /\ Prices \subseteq Nat \ {0} /\ Reserves \subseteq Nat \ {0} /\ Sizes \subseteq Nat \ {0}
  /\ VisibleSizes \subseteq Nat
  /\ MaxStops \in 0..2

Levels == INSTANCE PriceLevels
Naive == INSTANCE NaiveOrderBook
Advanced == INSTANCE AdvancedOrderBook
Direct == INSTANCE PriceTimeBook

Spot == [stp |-> "None", spot |-> TRUE]

VARIABLES
  kind,      \* which of the two books this is
  book,      \* its state
  command,   \* the last command
  reply      \* what it was answered: result code, events, and the action filled in

vars == <<kind, book, command, reply>>

-----------------------------------------------------------------------------
(* Commands *)

Admitted(action, price) ==
  IF action = "Ask" THEN {price} ELSE {r \in Reserves : r >= price}

Order(id, uid, action, price, size, reserve) ==
  [id |-> id, uid |-> uid, action |-> action, price |-> price, size |-> size,
   filled |-> 0, reserve |-> reserve]

\* An order of the advanced book; only iceberg orders have a visible size, only stop
\* orders a stop price.
Extended(o, type, visible, stop) ==
  [id |-> o.id, uid |-> o.uid, action |-> o.action, price |-> o.price, size |-> o.size,
   filled |-> 0, reserve |-> o.reserve, type |-> type, visible |-> visible,
   stop |-> stop, triggered |-> FALSE]

Extensions(o, type) ==
  {Extended(o, type, visible, stop) :
     visible \in IF type = "Iceberg" THEN VisibleSizes ELSE {o.size},
     stop \in IF type = "StopLimit" THEN Prices ELSE {Levels!NoPrice}}

Init ==
  /\ kind \in {"naive", "advanced"}
  /\ book = IF kind = "naive" THEN Naive!Empty ELSE Advanced!Empty
  /\ command = <<"None">>
  /\ reply = [code |-> "New", events |-> <<>>, action |-> "Bid"]

Apply(r) ==
  /\ book' = r.book
  /\ reply' = [code |-> r.code, events |-> r.events, action |-> r.action]
  /\ UNCHANGED kind

PlaceNaive(o, type) ==
  /\ kind = "naive"
  /\ command' = <<"PlaceOrder", o, type>>
  /\ Apply(Naive!NewOrder(book, o, type))

PlaceAdvanced(o, type) ==
  /\ kind = "advanced"
  /\ command' = <<"PlaceOrder", o, type>>
  /\ type = "StopLimit" => Len(book.stops) < MaxStops
  /\ \E x \in Extensions(o, type) : Apply(Advanced!NewOrder(book, x))

Asking(uid, id) == [uid |-> uid, id |-> id, action |-> "Bid"]

Cancel(uid, id) ==
  /\ command' = <<"CancelOrder", uid, id>>
  /\ Apply(IF kind = "naive" THEN Naive!CancelOrder(book, Asking(uid, id))
           ELSE Advanced!CancelOrder(book, Asking(uid, id)))

MoveNaive(uid, id, price) ==
  /\ kind = "naive"
  /\ command' = <<"MoveOrder", uid, id, price>>
  /\ Apply(Naive!MoveOrder(book, [uid |-> uid, id |-> id, action |-> "Bid",
                                  price |-> price], Spot))

MoveAdvanced(uid, id, price, size) ==
  /\ kind = "advanced"
  /\ command' = <<"MoveOrder", uid, id, price>>
  /\ Apply(Advanced!MoveOrder(book, [uid |-> uid, id |-> id, action |-> "Bid",
                                     price |-> price, size |-> size, reserve |-> price]))

Reduce(uid, id, size) ==
  LET cmd == [uid |-> uid, id |-> id, action |-> "Bid", size |-> size] IN
  /\ command' = <<"ReduceOrder", uid, id, size>>
  /\ Apply(IF kind = "naive" THEN Naive!ReduceOrder(book, cmd)
           ELSE Advanced!ReduceOrder(book, cmd))

\* Ids that are taken, and the next one that is not: the books only ever compare ids
\* for equality, so it does not matter which of the free ones comes next.
Ids ==
  LET taken == {id \in OrderIds :
                  \/ id \in DOMAIN book.known
                  \/ kind = "advanced" /\ Advanced!Waiting(book, id) # {}}
  IN  taken \cup {id \in OrderIds \ taken : \A other \in OrderIds \ taken : id <= other}

Next ==
  \/ \E uid \in Users, id \in Ids, action \in Actions, price \in Prices, size \in Sizes :
       \E reserve \in Admitted(action, price) :
         LET o == Order(id, uid, action, price, size, reserve) IN
         \/ \E type \in NaiveTypes : PlaceNaive(o, type)
         \/ \E type \in AdvancedTypes : PlaceAdvanced(o, type)
  \/ \E uid \in Users, id \in Ids :
       \/ Cancel(uid, id)
       \/ \E price \in Prices : MoveNaive(uid, id, price)
       \/ \E price \in Prices, size \in Sizes \cup {0} : MoveAdvanced(uid, id, price, size)
       \/ \E size \in Sizes : Reduce(uid, id, size)

Spec == Init /\ [][Next]_vars

-----------------------------------------------------------------------------
(* The book in the terms of PriceTimeBook *)

Plain(o) == [f \in {"id", "uid", "action", "price", "size", "filled", "reserve"} |-> o[f]]

AsBook(b) ==
  [action \in Actions |->
     LET side == Levels!SideOf(b, action) IN [i \in DOMAIN side |-> Plain(side[i])]]

\* The comparison leaves out the price at which funds are held.
Digest(events) == [i \in DOMAIN events |->
                     [f \in DOMAIN events[i] \ {"hold"} |-> events[i][f]]]

\* What the types of the advanced book promise, said with those of PriceTimeBook.
Promised(abstract, o, type) ==
  LET opposite == abstract[Opposite(o.action)]
      within == SelectSeq(opposite, LAMBDA x : WithinLimit(o, x.price))
      depth == FoldLeft(LAMBDA sum, x : sum + Remaining(x), 0, within)
      refused == Direct!Done(abstract, <<Reject(o.size, o.reserve)>>, o.action)
  IN  CASE type \in {"Gtc", "Iceberg"} -> Direct!NewOrder(abstract, o, "Gtc", Spot)
        [] type = "PostOnly" /\ within # <<>> -> refused
        [] type = "PostOnly" /\ within = <<>> -> Direct!NewOrder(abstract, o, "Gtc", Spot)
        [] type = "Fok" /\ depth < o.size -> refused
        [] type = "Fok" /\ depth >= o.size -> Direct!NewOrder(abstract, o, "Gtc", Spot)
        [] OTHER -> Direct!NewOrder(abstract, o, type, Spot)

\* The answer of the book the engine uses.
Reference(abstract, c) ==
  CASE c[1] = "PlaceOrder"  -> Promised(abstract, c[2], c[3])
    [] c[1] = "CancelOrder" -> Direct!CancelOrder(abstract, Asking(c[2], c[3]))
    [] c[1] = "MoveOrder"   ->
         Direct!MoveOrder(abstract, [uid |-> c[2], id |-> c[3], action |-> "Bid",
                                     price |-> c[4]], Spot)
    [] c[1] = "ReduceOrder" ->
         Direct!ReduceOrder(abstract, [uid |-> c[2], id |-> c[3], action |-> "Bid",
                                       size |-> c[4]])

\* Commands the books are known to answer differently: an id that was used before; an
\* order of another user; a fill-or-kill ask, by either meaning; a move of an order
\* that was partly filled; moves and reductions of the advanced book; and anything
\* that has to do with stop orders.
Comparable(c) ==
  /\ kind = "advanced" => book.stops = <<>> /\ book'.stops = <<>>
  /\ CASE c[1] = "PlaceOrder" ->
            LET known == Levels!Found(book, c[2].id) # {} IN
            /\ known => c[3] \notin {"PostOnly", "Fok"}
            /\ known \/ c[2].id \notin DOMAIN book.known
            /\ c[2].action = "Ask" => c[3] \notin {"FokBudget", "Fok"}
       [] c[1] # "PlaceOrder" ->
            LET resting == Levels!Found(book, c[3]) IN
            /\ \A o \in resting : o.uid = c[2]
            /\ c[1] \in {"MoveOrder", "ReduceOrder"} => kind = "naive"
            /\ c[1] = "MoveOrder" => \A o \in resting : o.filled = 0

-----------------------------------------------------------------------------
(* Properties *)

\* Same answer, same trades at the same prices with the same orders, same book with the
\* same priorities as the book the engine uses (the differential test compares them
\* for random streams of plain orders, naive.rs and advanced.rs against direct.rs).
Agree ==
  [][Comparable(command') =>
       LET r == Reference(AsBook(book), command') IN
       /\ AsBook(book') = r.book
       /\ reply'.code = r.code /\ reply'.action = r.action
       /\ Digest(reply'.events) = Digest(r.events)]_vars

\* The volume of every level, and what the advanced book shows of it, is that of its
\* orders, and no empty level is left behind, whatever was filled in part, reduced,
\* moved or activated before.
LevelsAddUp ==
  \A action \in Actions : \A p \in DOMAIN book.levels[action] :
    LET bucket == book.levels[action][p]
        Total(V(_)) == FoldLeft(LAMBDA sum, o : sum + V(o), 0, bucket.orders)
    IN  /\ bucket.volume > 0 /\ bucket.volume = Total(Remaining)
        /\ kind = "advanced" => bucket.visible = Total(Advanced!Visible)
        /\ \A o \in ToSet(bucket.orders) :
             o.action = action /\ o.price = p /\ Remaining(o) > 0

\* Every resting order can be found, and so cancelled: the index leads to it, and to it
\* alone.
RestingIsFound ==
  LET sides == Levels!SideOf(book, "Ask") \o Levels!SideOf(book, "Bid") IN
  /\ IsInjective([i \in DOMAIN sides |-> sides[i].id])
  /\ \A o \in ToSet(sides) : Levels!Found(book, o.id) = {o}

\* A fill-or-kill order, on either side and whatever it triggers, trades as much as it
\* asks for or nothing at all.
AllOrNothing ==
  [][command'[1] = "PlaceOrder" /\ command'[3] \in {"Fok", "FokBudget"} =>
       LET traded == FoldLeft(LAMBDA sum, e : IF e.type = "Trade" THEN sum + e.size ELSE sum,
                              0, reply'.events)
       IN  traded \in {0, command'[2].size}]_vars

\* When a command has traded no stop order that the last trade triggers is left
\* waiting: not the ones that were triggered together, nor those that the trades of an
\* activated one trigger.
StopsAreActivated ==
  [][kind = "advanced" /\ (\E e \in ToSet(reply'.events) : e.type = "Trade") =>
       \A o \in ToSet(book'.stops) : ~o.triggered /\ ~Advanced!Due(book', o)]_vars
=============================================================================
