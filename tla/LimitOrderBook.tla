---------------------------- MODULE LimitOrderBook ----------------------------
(***************************************************************************)
(* What the matching engine promises of an order book (the trait OrderBook, *)
(* src/src/core/orderbook.rs): price-time priority over two sequences of     *)
(* orders, one command at a time.  Only orders that have passed the risk     *)
(* engine reach a book, hence the ranges of the inputs.                      *)
(***************************************************************************)
EXTENDS PriceTimeBook

CONSTANTS
  Users, OrderIds,
  Prices,     \* limit prices, all positive
  Reserves,   \* prices at which the funds of bids are held
  Sizes,      \* sizes, all positive
  Types,      \* order types
  Specs       \* symbol specifications: [stp, spot] records

VARIABLES
  spec,      \* the specification the book was created with
  book,      \* the orders of both sides, best first
  command,   \* the last command
  reply      \* what it was answered: result code, events, and the action filled in

vars == <<spec, book, command, reply>>

\* The orders the risk engine lets through: an ask's reserve price is its price, a
\* bid's is no lower than its price.
Admitted(action, price) ==
  IF action = "Ask" THEN {price} ELSE {r \in Reserves : r >= price}

Orders ==
  {o \in [id : OrderIds, uid : Users, action : Actions, price : Prices, size : Sizes,
          filled : {0}, reserve : Prices \cup Reserves] :
     o.reserve \in Admitted(o.action, o.price)}

Init ==
  /\ spec \in Specs
  /\ book = EmptyBook
  /\ command = <<"None">>
  /\ reply = [code |-> "New", events |-> <<>>, action |-> "Bid"]

Apply(r) ==
  /\ book' = r.book
  /\ reply' = [code |-> r.code, events |-> r.events, action |-> r.action]
  /\ UNCHANGED spec

Commands ==
  ({"PlaceOrder"} \X Orders \X Types)
  \cup ({"CancelOrder"} \X Users \X OrderIds)
  \cup ({"MoveOrder"} \X Users \X OrderIds \X Prices)
  \cup ({"ReduceOrder"} \X Users \X OrderIds \X Sizes)

\* The book answers command c.
Handle(c) ==
  \/ c[1] = "PlaceOrder" /\ Apply(NewOrder(book, c[2], c[3], spec))
  \/ /\ c[1] = "CancelOrder"
     /\ Apply(CancelOrder(book, [uid |-> c[2], id |-> c[3], action |-> "Bid"]))
  \/ /\ c[1] = "MoveOrder"
     /\ Apply(MoveOrder(book, [uid |-> c[2], id |-> c[3], action |-> "Bid",
                               price |-> c[4]], spec))
  \/ /\ c[1] = "ReduceOrder"
     /\ Apply(ReduceOrder(book, [uid |-> c[2], id |-> c[3], action |-> "Bid",
                                 size |-> c[4]]))

Next == command' \in Commands /\ Handle(command')

Spec == Init /\ [][Next]_vars
=============================================================================
