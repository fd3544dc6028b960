------------------------------- MODULE Exchange -------------------------------
(***************************************************************************)
(* One symbol of the exchange: the pipeline (src/src/core/pipeline.rs) takes *)
(* commands one at a time through the risk engines (R1, hold the funds), the *)
(* order book (match) and the risk engines again (R2, settle the events).    *)
(* Every user belongs to one of the risk engines, its shard.                 *)
(* One action is the whole handle_event of one command: the pipeline lives   *)
(* in a single thread and nothing else can see it halfway.                   *)
(***************************************************************************)
EXTENDS PriceTimeBook, Sums

CONSTANTS
  Users,        \* the user ids clients may use
  ShardOf,      \* user -> the risk engine whose shard_id its masked uid is
  OrderIds,     \* the order ids clients may use
  Prices,       \* prices and reserve prices in commands, invalid ones included
  Sizes,        \* sizes in commands, invalid ones included
  Types,        \* order types in commands
  Adjustments,  \* deposits and withdrawals: [currency, amount] records
  MaxTx,        \* bound on the transaction ids of adjustments
  MaxInt,       \* the largest amount an i64 can hold
  Specs         \* the symbol specifications to consider: [stp, spot, takerFee,
                \* makerFee, baseScale, quoteScale] records

Currencies == {"base", "quote"}

ASSUME InputAssumption ==
  /\ IsFiniteSet(Users)
  /\ Prices \subseteq Int /\ Sizes \subseteq Int
  /\ Adjustments \subseteq [currency : Currencies, amount : Int]
  /\ MaxTx \in Nat

ASSUME SymbolAssumption ==
  /\ MaxInt \in Nat
  /\ \A s \in Specs :
       /\ s.stp \in {"None", "CancelTaker", "CancelMaker", "CancelBoth", "Skip"}
       /\ s.spot \in BOOLEAN
       /\ s.takerFee \in Nat /\ s.makerFee \in Nat
       /\ s.baseScale \in Nat \ {0} /\ s.quoteScale \in Nat \ {0}

VARIABLES
  spec,       \* the specification add_symbol registered
  engines,    \* the risk engines: [accounts, lastTx, fees] records, of the balances
              \* and of last_adjustment_id of its registered users, and of
              \* fees_collected in the quote currency
  book,       \* the order book
  deposited,  \* what clients were told has been deposited, less withdrawn (history)
  earlier,    \* the pairs of resting orders of one price level of which the first
              \* joined the level before the second (history)
  reply       \* the last command as the result consumer sees it

state == <<spec, engines, book, deposited, earlier>>
vars == <<state, reply>>

Shards == {ShardOf[u] : u \in Users}

\* uid_for_this_shard
Mine(s, uid) == ShardOf[uid] = s

NewEngine == [accounts |-> [u \in {} |-> 0], lastTx |-> [u \in {} |-> 0], fees |-> 0]

\* What `+=` leaves of a sum in a release build, which has no overflow checks.
Word(n) == ((n + MaxInt + 1) % (2 * (MaxInt + 1))) - (MaxInt + 1)

Init ==
  /\ spec \in Specs
  /\ engines = [s \in Shards |-> NewEngine]
  /\ book = EmptyBook
  /\ deposited = [c \in Currencies |-> 0]
  /\ earlier = {}
  /\ reply = [uid |-> 0, code |-> "New", events |-> <<>>]

-----------------------------------------------------------------------------
(* Risk engine, R1 *)

\* normalize_reserve_price: from here on the reserve price is the price at which
\* funds are held.
HoldPrice(action, type, price, reserve) ==
  IF action = "Ask" \/ type \in {"FokBudget", "IocBudget"} THEN price ELSE reserve

HoldCurrency(o) == IF o.action = "Bid" THEN "quote" ELSE "base"

\* hold_amount
HoldAmount(o) ==
  IF o.action = "Bid"
  THEN o.size * o.reserve * spec.quoteScale + o.size * spec.takerFee
  ELSE o.size * spec.baseScale

\* place_order_risk_check
RiskCheck(o) ==
  LET accounts == engines[ShardOf[o.uid]].accounts IN
  IF o.size <= 0 \/ o.price <= 0 \/ o.reserve <= 0 THEN "RiskInvalidOrderParams"
  ELSE IF o.action = "Bid" /\ o.reserve < o.price THEN "RiskInvalidReserveBidPrice"
  ELSE IF HoldAmount(o) > MaxInt THEN "RiskArithmeticOverflow"
  ELSE IF o.uid \notin DOMAIN accounts THEN "AuthInvalidUser"
  ELSE IF accounts[o.uid][HoldCurrency(o)] < HoldAmount(o) THEN "RiskNsf"
  ELSE "ValidForMatchingEngine"

Held(o) ==
  [engines EXCEPT ![ShardOf[o.uid]].accounts[o.uid][HoldCurrency(o)] = @ - HoldAmount(o)]

-----------------------------------------------------------------------------
(* Risk engine, R2 *)

\* The products a credit is made of are checked, and stop the engine when they do not
\* fit (left out here: see the README); the sums are not checked.
Credit(engine, uid, base, quote) ==
  IF uid \in DOMAIN engine.accounts
  THEN [engine EXCEPT !.accounts[uid].base = Word(@ + base),
                      !.accounts[uid].quote = Word(@ + quote)]
  ELSE engine

\* Faulty variant: every engine that sees the trade collects its fees.
CollectEverywhere(engine, s, uid, amount) == [engine EXCEPT !.fees = Word(@ + amount)]

\* The fees of a trade go to the engine of the taker.
Collect(engine, s, uid, amount) ==
  IF Mine(s, uid) THEN [engine EXCEPT !.fees = Word(@ + amount)] ELSE engine

\* handle_trade_event in shard s: each of the two users is settled in its own shard.
\* Bids are held at the taker fee, so that a bid that turns out to be the maker gets
\* the difference of the fees back.
SettleTrade(engine, s, uid, action, e) ==
  LET notional == e.size * e.price * spec.quoteScale
      base == e.size * spec.baseScale
      takerFee == e.size * spec.takerFee
      makerFee == e.size * spec.makerFee
      refund == e.size * (e.hold - e.price) * spec.quoteScale
      Taker(g) ==
        IF ~Mine(s, uid) THEN g
        ELSE IF action = "Ask" THEN Credit(g, uid, 0, notional - takerFee)
        ELSE Credit(g, uid, base, refund)
      Maker(g) ==
        IF ~Mine(s, e.uid) THEN g
        ELSE IF action = "Ask" THEN Credit(g, e.uid, base, refund + (takerFee - makerFee))
        ELSE Credit(g, e.uid, 0, notional - makerFee)
  IN  Maker(Taker(Collect(engine, s, uid, takerFee + makerFee)))

\* handle_reject_event in shard s: what was held for an order on the side of `action`.
SettleReject(engine, s, uid, action, e) ==
  IF ~Mine(s, uid) THEN engine
  ELSE IF action = "Ask" THEN Credit(engine, uid, e.size * spec.baseScale, 0)
  ELSE Credit(engine, uid, 0, e.size * e.hold * spec.quoteScale + e.size * spec.takerFee)

\* What one event does to an engine.  A maker cancelled by self-trade prevention is on
\* the other side, and belongs to the taker.
SettleEvent(engine, s, uid, action, e) ==
  CASE e.type = "Trade"       -> SettleTrade(engine, s, uid, action, e)
    [] e.type = "Reject"      -> SettleReject(engine, s, uid, action, e)
    [] e.type = "RejectMaker" -> SettleReject(engine, s, uid, Opposite(action), e)

\* post_process of every engine: the engines after each of the events.
Settlement(held, uid, action, events) ==
  LET After[n \in 0..Len(events)] ==
        IF n = 0 THEN held
        ELSE [s \in Shards |-> SettleEvent(After[n - 1][s], s, uid, action, events[n])]
  IN  After

Settle(held, uid, action, events) == Settlement(held, uid, action, events)[Len(events)]

-----------------------------------------------------------------------------
(* Commands *)

\* History: orders leave their levels, and those of `ids` that rest in the book
\* after the command have just joined the level they are in.
Arrived(ids) ==
  LET joined == {o \in RestingOrders(book') : o.id \in ids}
      there == RestingOrders(book') \ joined
  IN  earlier' =
        {p \in earlier : \A i \in 1..2 : \E o \in there : o.id = p[i]}
          \cup {<<p[1].id, p[2].id>> :
                  p \in {p \in there \X joined : SameLevel(p[1], p[2])}}

Answer(uid, code, events) ==
  reply' = [uid |-> uid, code |-> code, events |-> events]

\* What the pipeline makes of the matching engine's result `m`.
Settled(held, uid, m) ==
  /\ engines' = Settle(held, uid, m.action, m.events)
  /\ book' = m.book
  /\ Answer(uid, m.code, m.events)
  /\ UNCHANGED <<spec, deposited>>

WithEntry(table, uid, x) ==
  [u \in DOMAIN table \cup {uid} |-> IF u = uid THEN x ELSE table[u]]

AddUser(uid) ==
  LET s == ShardOf[uid] IN
  /\ IF uid \in DOMAIN engines[s].accounts
     THEN Answer(uid, "UserMgmtUserAlreadyExists", <<>>) /\ UNCHANGED engines
     ELSE /\ Answer(uid, "Success", <<>>)
          /\ engines' = [engines EXCEPT
               ![s].accounts = WithEntry(@, uid, [base |-> 0, quote |-> 0]),
               ![s].lastTx = WithEntry(@, uid, 0)]
  /\ UNCHANGED <<spec, book, deposited, earlier>>

AdjustmentCheck(engine, uid, currency, amount, tx) ==
  IF uid \notin DOMAIN engine.accounts THEN "AuthInvalidUser"
  ELSE IF tx <= engine.lastTx[uid] THEN "UserMgmtDuplicateTransaction"
  ELSE IF engine.accounts[uid][currency] + amount > MaxInt THEN "RiskArithmeticOverflow"
  ELSE IF engine.accounts[uid][currency] + amount < 0 THEN "RiskNsf"
  ELSE "Success"

\* balance_adjustment
BalanceAdjustment(uid, currency, amount, tx) ==
  LET s == ShardOf[uid]
      code == AdjustmentCheck(engines[s], uid, currency, amount, tx)
  IN  /\ Answer(uid, code, <<>>)
      /\ IF code = "Success"
         THEN /\ engines' = [engines EXCEPT ![s].accounts[uid][currency] = @ + amount,
                                            ![s].lastTx[uid] = tx]
              /\ deposited' = [deposited EXCEPT ![currency] = @ + amount]
         ELSE UNCHANGED <<engines, deposited>>
      /\ UNCHANGED <<spec, book, earlier>>

\* Faulty variant: an order the book refuses is not paid back.
Uncompensated(m, o) == m

\* process_matching_command: an order the book refuses must be paid back in full.
Compensated(m, o) ==
  IF m.code = "Success" THEN m
  ELSE [m EXCEPT !.events = <<Reject(o.size, o.reserve)>>]

\* The reserve prices a command may carry; that of an ask is overwritten at once.
Reserves(action, price) == IF action = "Ask" THEN {price} ELSE Prices

\* PlaceOrder through R1, matching and R2.
PlaceOrder(uid, id, action, type, price, reserve, size) ==
  LET o == [id |-> id, uid |-> uid, action |-> action, price |-> price, size |-> size,
            filled |-> 0, reserve |-> HoldPrice(action, type, price, reserve)]
      code == RiskCheck(o)
  IN  IF code = "ValidForMatchingEngine"
      THEN /\ Settled(Held(o), uid, Compensated(NewOrder(book, o, type, spec), o))
           /\ Arrived(IF reply'.code = "Success" THEN {id} ELSE {})
      ELSE /\ Answer(uid, code, <<>>)
           /\ UNCHANGED state

\* CancelOrder, MoveOrder and ReduceOrder pass R1 unchecked.  The action of such a
\* command is the default, a Bid, until the book fills it in.
Cancel(uid, id) ==
  /\ Settled(engines, uid,
             CancelOrder(book, [uid |-> uid, id |-> id, action |-> "Bid"]))
  /\ Arrived({})

Move(uid, id, price) ==
  /\ Settled(engines, uid,
             MoveOrder(book, [uid |-> uid, id |-> id, action |-> "Bid",
                              price |-> price], spec))
  /\ Arrived(IF reply'.code = "Success" THEN {id} ELSE {})

Reduce(uid, id, size) ==
  /\ Settled(engines, uid,
             ReduceOrder(book, [uid |-> uid, id |-> id, action |-> "Bid",
                                size |-> size]))
  /\ Arrived({})

Next ==
  \/ \E uid \in Users : AddUser(uid)
  \/ \E uid \in Users, a \in Adjustments, tx \in 1..MaxTx :
       BalanceAdjustment(uid, a.currency, a.amount, tx)
  \/ \E uid \in Users, id \in OrderIds, action \in Actions, type \in Types,
        price \in Prices, size \in Sizes : \E reserve \in Reserves(action, price) :
       PlaceOrder(uid, id, action, type, price, reserve, size)
  \/ \E uid \in Users, id \in OrderIds : Cancel(uid, id)
  \/ \E uid \in Users, id \in OrderIds, price \in Prices : Move(uid, id, price)
  \/ \E uid \in Users, id \in OrderIds, size \in Sizes : Reduce(uid, id, size)

Spec == Init /\ [][Next]_vars

-----------------------------------------------------------------------------
(* Properties *)

Words == -(MaxInt + 1)..MaxInt

\* An engine that has registered these users.
EngineOK(engine, users) ==
  engine \in [accounts : [users -> [base : Words, quote : Words]],
              lastTx : [users -> 0..MaxTx], fees : Words]

EnginesOK(es) ==
  /\ es = [s \in Shards |-> es[s]]
  /\ \A s \in Shards : \E users \in SUBSET {u \in Users : Mine(s, u)} : EngineOK(es[s], users)

\* Types, and the shape of the book.
TypeOK ==
  /\ spec \in Specs
  /\ EnginesOK(engines)
  /\ deposited \in [Currencies -> Int]
  /\ BookOK(book, Users, OrderIds)
  /\ earlier \subseteq OrderIds \X OrderIds

\* Who was earlier at a price is in front.
EarlierInFront ==
  \A p \in earlier : \E action \in Actions : \E i, j \in 1..Len(book[action]) :
    /\ i < j /\ book[action][i].price = book[action][j].price
    /\ book[action][i].id = p[1] /\ book[action][j].id = p[2]

\* On a spot market the funds for every resting bid are held at its price or above,
\* wherever it has been moved to.
BidsCovered == spec.spot => \A b \in ToSet(book["Bid"]) : b.price <= b.reserve

\* The state between two commands: its types, the shape of the book, first come first
\* in front, and bids covered.
ExchangeInv == TypeOK /\ EarlierInFront /\ BidsCovered

\* What is held for the resting orders of one side: for what is left of each.
HeldFor(side) ==
  SumOf([i \in 1..Len(side) |-> HoldAmount([side[i] EXCEPT !.size = Remaining(side[i])])])

\* What balance_of and fees_collected of the pipeline add up to.
Balances(engine, currency) ==
  SumOf([u \in DOMAIN engine.accounts |-> engine.accounts[u][currency]])
Total(es, currency) == SumOf([s \in Shards |-> Balances(es[s], currency)])
TotalFees(es) == SumOf([s \in Shards |-> es[s].fees])

\* Funds are conserved (tests/fund_conservation_test.rs:3-6): after any sequence of
\* commands, the balances, what is held for resting orders and the collected fees
\* of all the shards add up to what was deposited.
Conserved ==
  /\ Total(engines, "base") + HeldFor(book["Ask"]) = deposited["base"]
  /\ Total(engines, "quote") + HeldFor(book["Bid"]) + TotalFees(engines)
       = deposited["quote"]

\* The money that clients have brought in fits the word.
MoneyFits == \A c \in Currencies : deposited[c] <= MaxInt

\* No sequence of orders, trades, refunds and withdrawals overdraws an account.
NeverOverdrawn ==
  \A s \in Shards : \A u \in DOMAIN engines[s].accounts :
    engines[s].accounts[u].base >= 0 /\ engines[s].accounts[u].quote >= 0

\* The book is never left crossed: whoever could trade has traded.  Only Skip may
\* leave two orders of one user crossed.
NotCrossed ==
  \A a \in ToSet(book["Ask"]), b \in ToSet(book["Bid"]) :
    a.price > b.price \/ (spec.stp = "Skip" /\ a.uid = b.uid)

\* With self-trade prevention on, nobody trades with themselves, also not through
\* a move of an order that was placed at a harmless price.
NoSelfTrade ==
  [][spec.stp # "None" =>
       \A e \in ToSet(reply'.events) : e.type = "Trade" => e.uid # reply'.uid]_vars

\* A trade never costs the bidder more than what is held (risk_engine.rs:186-187).
TradesWithinHold ==
  [][\A e \in ToSet(reply'.events) : e.type = "Trade" => e.price <= e.hold]_vars

\* A command that is answered with an error has changed nothing: what R1 held
\* was paid back in full, and the book is as it was (orderbook.rs:28-29).
FailureChangesNothing ==
  [][reply'.code # "Success" =>
       UNCHANGED <<engines, book, deposited>>]_vars

\* Nobody is passed over: when a maker trades and another order, not the taker's
\* own, was there before the command with a better price, or with the same price
\* and earlier, then that order has left the book.
PriorityHonoured ==
  [][\A e \in ToSet(reply'.events) : e.type = "Trade" =>
       \A m, o \in RestingOrders(book) :
         /\ m.id = e.id /\ o.action = m.action /\ o.id # m.id
         /\ o.uid # reply'.uid
         /\ Ahead(o.action, o.price, m.price) \/ <<o.id, m.id>> \in earlier
         => ~Knows(book', o.id)]_vars
=============================================================================
