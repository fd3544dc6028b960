---------------------------- MODULE ExchangeProofs ----------------------------
(***************************************************************************)
(* What holds of the exchange for every set of users, orders, prices and    *)
(* sizes, for every symbol and every width of the amounts: the amounts and  *)
(* the books; the money held for the orders of a book and what the events   *)
(* of a command give back; the accounts and the collected fees, what a      *)
(* command does to what they come to, and that no sequence of commands      *)
(* overdraws anyone or loses anything.                                      *)
(***************************************************************************)
EXTENDS Exchange, PriceTimeBookProofs

-----------------------------------------------------------------------------
(* Amounts *)

LEMMA WordKeepsWords ==
  ASSUME NEW n \in Words
  PROVE  Word(n) = n
<1> DEFINE M == MaxInt + 1
<1>1. M \in Nat \ {0} /\ n + M \in 0..(2 * M - 1)
  BY SymbolAssumption DEF Words
<1>2. \A K \in Nat \ {0} : \A k \in 0..(K - 1) : k % K = k
  OBVIOUS
<1>3. 2 * M \in Nat \ {0}
  BY <1>1
<1> HIDE DEF M
<1>4. (n + M) % (2 * M) = n + M
  BY <1>1, <1>2, <1>3
<1> USE DEF M
<1>5. n + M = n + MaxInt + 1
  BY SymbolAssumption DEF Words
<1>6. QED
  BY <1>4, <1>5, SymbolAssumption DEF Word, Words

LEMMA WordIsWord ==
  ASSUME NEW n \in Int
  PROVE  Word(n) \in Words
<1> DEFINE M == 2 * (MaxInt + 1)
<1>1. M \in Nat \ {0} /\ n + MaxInt + 1 \in Int
  BY SymbolAssumption
<1>2. \A K \in Nat \ {0}, k \in Int : k % K \in 0..(K - 1)
  OBVIOUS
<1>3. (n + MaxInt + 1) % M \in 0..(M - 1)
  BY <1>1, <1>2
<1>4. QED
  BY <1>3, SymbolAssumption DEF Word, Words

-----------------------------------------------------------------------------
(* Settling *)

\* The engine with these balances of uid.
WithBalances(engine, uid, base, quote) ==
  [engine EXCEPT !.accounts[uid].base = base, !.accounts[uid].quote = quote]

LEMMA BalancesTyped ==
  ASSUME NEW users, NEW engine, EngineOK(engine, users), NEW uid \in users,
         NEW base \in Words, NEW quote \in Words
  PROVE  EngineOK(WithBalances(engine, uid, base, quote), users)
<1> DEFINE Txs == 0..MaxTx
           W == Words
<1>1. /\ engine \in [accounts : [users -> [base : W, quote : W]],
                     lastTx : [users -> Txs], fees : W]
      /\ base \in W /\ quote \in W
  BY DEF EngineOK
<1> HIDE DEF Txs, W
<1>2. WithBalances(engine, uid, base, quote)
        \in [accounts : [users -> [base : W, quote : W]], lastTx : [users -> Txs], fees : W]
  BY <1>1, ZenonT(30) DEF WithBalances
<1>3. QED
  BY <1>2 DEF EngineOK, Txs, W

LEMMA CreditTyped ==
  ASSUME NEW users, NEW engine, EngineOK(engine, users), NEW uid,
         NEW base \in Int, NEW quote \in Int
  PROVE  EngineOK(Credit(engine, uid, base, quote), users)
<1>1. DOMAIN engine.accounts = users
  BY DEF EngineOK
<1>2. CASE uid \notin users
  BY <1>1, <1>2 DEF Credit
<1>3. CASE uid \in users
  <2> DEFINE b == Word(engine.accounts[uid].base + base)
             q == Word(engine.accounts[uid].quote + quote)
  <2>1. engine.accounts[uid].base \in Words /\ engine.accounts[uid].quote \in Words
    BY <1>3 DEF EngineOK
  <2>2. b \in Words /\ q \in Words
    BY <2>1, WordIsWord DEF Words
  <2>3. Credit(engine, uid, base, quote) = WithBalances(engine, uid, b, q)
    BY <1>1, <1>3 DEF Credit, WithBalances
  <2> HIDE DEF b, q
  <2>4. EngineOK(WithBalances(engine, uid, b, q), users)
    BY <1>3, <2>2, BalancesTyped DEF EngineOK
  <2>5. QED
    BY <2>3, <2>4
<1>4. QED
  BY <1>2, <1>3

LEMMA CollectTyped ==
  ASSUME NEW users, NEW engine, EngineOK(engine, users), NEW s, NEW uid, NEW amount \in Int
  PROVE  EngineOK(Collect(engine, s, uid, amount), users)
<1>1. engine.fees \in Int
  BY DEF EngineOK, Words
<1>2. Word(engine.fees + amount) \in Words
  BY <1>1, WordIsWord
<1>3. QED
  BY <1>2 DEF Collect, EngineOK

\* The amounts of a settlement are integers.
LEMMA SpecTyped ==
  ASSUME spec \in Specs
  PROVE  /\ spec.stp \in Modes /\ spec.spot \in BOOLEAN
         /\ spec.takerFee \in Nat /\ spec.makerFee \in Nat
         /\ spec.baseScale \in Nat \ {0} /\ spec.quoteScale \in Nat \ {0}
  BY SymbolAssumption DEF Modes

LEMMA Product ==
  ASSUME NEW i \in Int, NEW j \in Int
  PROVE  i * j \in Int
  OBVIOUS

LEMMA SettleTradeTyped ==
  ASSUME spec \in Specs, NEW users, NEW engine, EngineOK(engine, users), NEW s, NEW uid,
         NEW action, NEW e, e.size \in Int, e.price \in Int, e.hold \in Int
  PROVE  EngineOK(SettleTrade(engine, s, uid, action, e), users)
<1> DEFINE notional == e.size * e.price * spec.quoteScale
           base == e.size * spec.baseScale
           takerFee == e.size * spec.takerFee
           makerFee == e.size * spec.makerFee
           refund == e.size * (e.hold - e.price) * spec.quoteScale
           Taker(g) ==
             IF ~Mine(s, uid) THEN g
             ELSE IF action = "Ask" THEN Credit(g, uid, 0, notional - takerFee)
             ELSE Credit(g, uid, base, refund)
           Maker(g) ==
             IF ~Mine(s, e.uid) THEN g
             ELSE IF action = "Ask" THEN Credit(g, e.uid, base, refund + (takerFee - makerFee))
             ELSE Credit(g, e.uid, 0, notional - makerFee)
<1>1. notional \in Int /\ base \in Int /\ takerFee \in Int /\ makerFee \in Int /\ refund \in Int
  BY SpecTyped, Product
<1>2. SettleTrade(engine, s, uid, action, e)
        = Maker(Taker(Collect(engine, s, uid, takerFee + makerFee)))
  BY DEF SettleTrade
<1> HIDE DEF notional, base, takerFee, makerFee, refund
<1>3. takerFee + makerFee \in Int /\ notional - takerFee \in Int /\ notional - makerFee \in Int
      /\ refund + (takerFee - makerFee) \in Int
  BY <1>1
<1>4. \A g : EngineOK(g, users) => EngineOK(Taker(g), users)
  BY <1>1, <1>3, CreditTyped
<1>5. \A g : EngineOK(g, users) => EngineOK(Maker(g), users)
  BY <1>1, <1>3, CreditTyped
<1> HIDE DEF Taker, Maker
<1>6. QED
  BY <1>2, <1>3, <1>4, <1>5, CollectTyped

LEMMA SettleRejectTyped ==
  ASSUME spec \in Specs, NEW users, NEW engine, EngineOK(engine, users), NEW s, NEW uid,
         NEW action, NEW e, e.size \in Int, e.hold \in Int
  PROVE  EngineOK(SettleReject(engine, s, uid, action, e), users)
<1>1. /\ e.size * spec.baseScale \in Int
      /\ e.size * e.hold * spec.quoteScale + e.size * spec.takerFee \in Int
  BY SpecTyped, Product
<1>2. QED
  BY <1>1, CreditTyped DEF SettleReject

LEMMA SettleEventTyped ==
  ASSUME spec \in Specs, NEW users, NEW engine, EngineOK(engine, users), NEW s, NEW uid,
         NEW action, NEW e \in EventsOf(Users, OrderIds)
  PROVE  EngineOK(SettleEvent(engine, s, uid, action, e), users)
<1>1. /\ e.type \in {"Trade", "Reject", "RejectMaker"} /\ e.size \in Int /\ e.hold \in Int
      /\ e.type = "Trade" => e.price \in Int
  BY DEF EventsOf
<1>2. CASE e.type = "Trade"
  BY <1>1, <1>2, SettleTradeTyped DEF SettleEvent
<1>3. CASE e.type = "Reject"
  BY <1>1, <1>3, SettleRejectTyped DEF SettleEvent
<1>4. CASE e.type = "RejectMaker"
  BY <1>1, <1>4, SettleRejectTyped DEF SettleEvent
<1>5. QED
  BY <1>1, <1>2, <1>3, <1>4

-----------------------------------------------------------------------------
(* A settlement is what its definition says. *)

\* The engines `es` after the n-th event.
SettledBy(es, uid, action, events, n) ==
  [s \in Shards |-> SettleEvent(es[s], s, uid, action, events[n])]

IsSettlement(f, held, uid, action, events) ==
  f = [n \in 0..Len(events) |->
         IF n = 0 THEN held
         ELSE [s \in Shards |-> SettleEvent(f[n - 1][s], s, uid, action, events[n])]]

LEMMA SettlementExists ==
  ASSUME NEW held, NEW uid, NEW action, NEW events, Len(events) \in Nat
  PROVE  \E f : IsSettlement(f, held, uid, action, events)
<1> DEFINE Step(es, n) == SettledBy(es, uid, action, events, n)
           Upto(f, k) == f = [n \in 0..k |-> IF n = 0 THEN held ELSE Step(f[n - 1], n)]
           T == {k \in Nat : \E f : Upto(f, k)}
<1> HIDE DEF Step
<1>1. 0 \in T
  <2> DEFINE f == [n \in 0..0 |-> held]
  <2>1. f = [n \in 0..0 |-> IF n = 0 THEN held ELSE Step(f[n - 1], n)]
    OBVIOUS
  <2> HIDE DEF f
  <2>2. QED
    BY <2>1
<1>2. ASSUME NEW k \in Nat, k \in T
      PROVE  k + 1 \in T
  <2>1. PICK f : Upto(f, k)
    BY <1>2
  <2> DEFINE g == [n \in 0..(k + 1) |-> IF n = k + 1 THEN Step(f[k], k + 1) ELSE f[n]]
  <2>2. ASSUME NEW n \in 0..(k + 1)
        PROVE  g[n] = IF n = 0 THEN held ELSE Step(g[n - 1], n)
    <3>1. CASE n = k + 1
      <4>1. n # 0 /\ n - 1 = k /\ k \in 0..(k + 1) /\ k # k + 1
        BY <3>1
      <4>2. g[k] = f[k] /\ g[n] = Step(f[k], k + 1)
        BY <3>1, <4>1
      <4> HIDE DEF g
      <4>3. QED
        BY <3>1, <4>1, <4>2
    <3>2. CASE n # k + 1
      <4>1. n \in 0..k
        BY <3>2
      <4>2. g[n] = f[n]
        BY <3>2
      <4>3. n # 0 => g[n - 1] = f[n - 1]
        BY <4>1
      <4> HIDE DEF g
      <4>4. f[n] = IF n = 0 THEN held ELSE Step(f[n - 1], n)
        BY <2>1, <4>1
      <4>5. QED
        BY <4>2, <4>3, <4>4
    <3>3. QED
      BY <3>1, <3>2
  <2>3. g = [n \in 0..(k + 1) |-> g[n]]
    OBVIOUS
  <2> HIDE DEF g
  <2>4. Upto(g, k + 1)
    BY <2>2, <2>3
  <2>5. QED
    BY <2>4
<1>3. \A k \in Nat : k \in T
  <2> HIDE DEF T
  <2>1. QED
    BY <1>1, <1>2, SetInduction
<1>4. PICK f : Upto(f, Len(events))
  BY <1>3
<1>5. QED
  BY <1>4 DEF IsSettlement, Step, SettledBy

LEMMA SettlementIsDefined ==
  ASSUME NEW held, NEW uid, NEW action, NEW events, Len(events) \in Nat
  PROVE  LET after == Settlement(held, uid, action, events)
         IN  /\ after[0] = held
             /\ \A n \in 1..Len(events) :
                  after[n] = SettledBy(after[n - 1], uid, action, events, n)
<1> DEFINE after == Settlement(held, uid, action, events)
<1>1. \E f : IsSettlement(f, held, uid, action, events)
  BY SettlementExists
<1>2. IsSettlement(after, held, uid, action, events)
  BY <1>1, Zenon DEF Settlement, IsSettlement
<1> HIDE DEF after
<1>3. after = [n \in 0..Len(events) |->
                 IF n = 0 THEN held ELSE SettledBy(after[n - 1], uid, action, events, n)]
  BY <1>2 DEF IsSettlement, SettledBy
<1>4. QED
  BY <1>3 DEF after

-----------------------------------------------------------------------------
(* Settling keeps every engine an engine. *)

LEMMA SettledTyped ==
  ASSUME spec \in Specs, NEW es, EnginesOK(es), NEW uid, NEW action, NEW events, NEW n,
         events[n] \in EventsOf(Users, OrderIds)
  PROVE  EnginesOK(SettledBy(es, uid, action, events, n))
<1> DEFINE after == SettledBy(es, uid, action, events, n)
<1>1. after = [s \in Shards |-> after[s]]
  BY DEF SettledBy
<1>2. ASSUME NEW s \in Shards
      PROVE  \E users \in SUBSET {u \in Users : Mine(s, u)} : EngineOK(after[s], users)
  <2>1. PICK users \in SUBSET {u \in Users : Mine(s, u)} : EngineOK(es[s], users)
    BY DEF EnginesOK
  <2>2. after[s] = SettleEvent(es[s], s, uid, action, events[n])
    BY DEF SettledBy
  <2>3. QED
    BY <2>1, <2>2, SettleEventTyped
<1> HIDE DEF after
<1>3. QED
  BY <1>1, <1>2 DEF EnginesOK, after

LEMMA SettleTyped ==
  ASSUME spec \in Specs, NEW es, EnginesOK(es), NEW uid, NEW action,
         NEW events \in Seq(EventsOf(Users, OrderIds))
  PROVE  EnginesOK(Settle(es, uid, action, events))
<1> DEFINE after == Settlement(es, uid, action, events)
           T == {n \in Nat : n <= Len(events) => EnginesOK(after[n])}
<1>1. Len(events) \in Nat
  BY LenProperties
<1>2. after[0] = es
  BY <1>1, SettlementIsDefined
<1>3. \A n \in 1..Len(events) : after[n] = SettledBy(after[n - 1], uid, action, events, n)
  BY <1>1, SettlementIsDefined
<1> HIDE DEF after
<1>4. 0 \in T
  BY <1>2
<1>5. ASSUME NEW n \in Nat, n \in T
      PROVE  n + 1 \in T
  <2> SUFFICES ASSUME n + 1 <= Len(events)
               PROVE  EnginesOK(after[n + 1])
    OBVIOUS
  <2>1. n + 1 \in 1..Len(events) /\ (n + 1) - 1 = n /\ n <= Len(events)
    BY <1>1
  <2>2. after[n + 1] = SettledBy(after[n], uid, action, events, n + 1)
    BY <1>3, <2>1
  <2>3. events[n + 1] \in EventsOf(Users, OrderIds)
    BY <2>1, ElementOfSeq
  <2>4. QED
    BY <1>5, <2>1, <2>2, <2>3, SettledTyped
<1>6. \A n \in Nat : n \in T
  <2> HIDE DEF T
  <2>1. QED
    BY <1>4, <1>5, SetInduction
<1>7. EnginesOK(after[Len(events)])
  BY <1>1, <1>6
<1>8. QED
  BY <1>7 DEF Settle, after

\* Nothing to settle, and one event to settle.
LEMMA SettleNothing ==
  ASSUME NEW es, NEW uid, NEW action
  PROVE  Settle(es, uid, action, <<>>) = es
<1>1. Len(<<>>) = 0
  BY EmptySeq
<1>2. QED
  BY <1>1, SettlementIsDefined DEF Settle

LEMMA SettleOne ==
  ASSUME NEW es, NEW uid, NEW action, NEW e
  PROVE  Settle(es, uid, action, <<e>>) = [s \in Shards |-> SettleEvent(es[s], s, uid, action, e)]
<1> DEFINE events == <<e>>
           after == Settlement(es, uid, action, events)
<1>1. Len(events) = 1 /\ events[1] = e
  OBVIOUS
<1> HIDE DEF events
<1>2. after[0] = es /\ after[1] = SettledBy(after[0], uid, action, events, 1)
  BY <1>1, SettlementIsDefined
<1>3. QED
  BY <1>1, <1>2 DEF Settle, SettledBy, events

-----------------------------------------------------------------------------
(* One balance changes. *)

\* The engine with this balance of uid.
WithBalance(engine, uid, currency, x) == [engine EXCEPT !.accounts[uid][currency] = x]

LEMMA BalanceTyped ==
  ASSUME NEW users, NEW engine, EngineOK(engine, users), NEW uid \in users,
         NEW currency \in Currencies, NEW x \in Words
  PROVE  EngineOK(WithBalance(engine, uid, currency, x), users)
<1> DEFINE Txs == 0..MaxTx
           W == Words
<1>1. /\ engine \in [accounts : [users -> [base : W, quote : W]],
                     lastTx : [users -> Txs], fees : W]
      /\ x \in W
  BY DEF EngineOK
<1> HIDE DEF Txs, W
<1>2. WithBalance(engine, uid, currency, x)
        \in [accounts : [users -> [base : W, quote : W]], lastTx : [users -> Txs], fees : W]
  <2>1. CASE currency = "base"
    BY <1>1, <2>1 DEF WithBalance
  <2>2. CASE currency = "quote"
    BY <1>1, <2>2 DEF WithBalance
  <2>3. QED
    BY <2>1, <2>2 DEF Currencies
<1>3. QED
  BY <1>2 DEF EngineOK, Txs, W

LEMMA BalanceIsWord ==
  ASSUME NEW users, NEW engine, EngineOK(engine, users), NEW uid \in users,
         NEW currency \in Currencies
  PROVE  engine.accounts[uid][currency] \in Words
<1>1. engine.accounts[uid] \in [base : Words, quote : Words]
  BY DEF EngineOK
<1>2. QED
  BY <1>1 DEF Currencies

LEMMA UsersOfShard ==
  ASSUME NEW es, EnginesOK(es), NEW uid \in Users
  PROVE  /\ ShardOf[uid] \in Shards
         /\ \E users \in SUBSET {u \in Users : Mine(ShardOf[uid], u)} :
              /\ EngineOK(es[ShardOf[uid]], users)
              /\ DOMAIN es[ShardOf[uid]].accounts = users
              /\ DOMAIN es[ShardOf[uid]].lastTx = users
<1>1. ShardOf[uid] \in Shards
  BY DEF Shards
<1>2. \A engine, users : EngineOK(engine, users) =>
        DOMAIN engine.accounts = users /\ DOMAIN engine.lastTx = users
  BY DEF EngineOK
<1>3. QED
  BY <1>1, <1>2 DEF EnginesOK

\* The engines with this one in shard s.
WithEngine(es, s, engine) == [es EXCEPT ![s] = engine]

LEMMA EngineReplaced ==
  ASSUME NEW es, EnginesOK(es), NEW s \in Shards, NEW engine,
         NEW users \in SUBSET {u \in Users : Mine(s, u)}, EngineOK(engine, users)
  PROVE  EnginesOK(WithEngine(es, s, engine))
<1> DEFINE new == WithEngine(es, s, engine)
<1>1. es = [t \in Shards |-> es[t]]
  BY DEF EnginesOK
<1>2. /\ new = [t \in Shards |-> new[t]]
      /\ \A t \in Shards : new[t] = IF t = s THEN engine ELSE es[t]
  BY <1>1 DEF WithEngine
<1> HIDE DEF new
<1>3. \A t \in Shards : \E present \in SUBSET {u \in Users : Mine(t, u)} : EngineOK(new[t], present)
  BY <1>2 DEF EnginesOK
<1>4. QED
  BY <1>2, <1>3 DEF EnginesOK, new

\* What R1 has found of an order it lets pass.
LEMMA ChecksPassed ==
  ASSUME spec \in Specs, EnginesOK(engines), NEW o \in OrdersOf(Users, OrderIds),
         RiskCheck(o) = "ValidForMatchingEngine"
  PROVE  LET accounts == engines[ShardOf[o.uid]].accounts
         IN  /\ o.size \in Nat \ {0} /\ o.price \in Nat \ {0} /\ o.reserve \in Nat \ {0}
             /\ o.action = "Bid" => o.price <= o.reserve
             /\ HoldCurrency(o) \in Currencies
             /\ HoldAmount(o) \in Nat
             /\ o.uid \in DOMAIN accounts
             /\ accounts[o.uid][HoldCurrency(o)] - HoldAmount(o) \in Words
<1> DEFINE accounts == engines[ShardOf[o.uid]].accounts
<1>1. /\ o.uid \in Users /\ o.size \in Int /\ o.price \in Int /\ o.reserve \in Int
      /\ o.action \in Actions
  BY DEF OrdersOf
<1>2. /\ ~(o.size <= 0 \/ o.price <= 0 \/ o.reserve <= 0)
      /\ ~(o.action = "Bid" /\ o.reserve < o.price)
      /\ ~(HoldAmount(o) > MaxInt)
      /\ o.uid \in DOMAIN accounts
      /\ ~(accounts[o.uid][HoldCurrency(o)] < HoldAmount(o))
  BY DEF RiskCheck
<1>3. o.size \in Nat \ {0} /\ o.price \in Nat \ {0} /\ o.reserve \in Nat \ {0}
      /\ (o.action = "Bid" => o.price <= o.reserve)
  BY <1>1, <1>2
<1>4. HoldCurrency(o) \in Currencies
  BY DEF HoldCurrency, Currencies
<1>5. HoldAmount(o) \in Nat
  <2>1. \A i, j \in Nat : i * j \in Nat
    OBVIOUS
  <2>2. o.size * spec.baseScale \in Nat /\ o.size * spec.takerFee \in Nat
        /\ o.size * o.reserve * spec.quoteScale \in Nat
    BY <1>3, <2>1, SpecTyped
  <2>3. QED
    BY <2>2 DEF HoldAmount
<1>6. accounts[o.uid][HoldCurrency(o)] \in Words
  BY <1>1, <1>2, <1>4, UsersOfShard, BalanceIsWord
<1> DEFINE balance == accounts[o.uid][HoldCurrency(o)]
           hold == HoldAmount(o)
<1>7. balance \in Words /\ hold \in Nat /\ ~(balance < hold)
  BY <1>2, <1>5, <1>6
<1> HIDE DEF balance, hold
<1>8. balance - hold \in Words
  BY <1>7, SymbolAssumption DEF Words
<1>9. QED
  BY <1>2, <1>3, <1>4, <1>5, <1>8 DEF balance, hold

\* R1 holds the funds, and only changes that balance.
LEMMA HeldIs ==
  ASSUME NEW o
  PROVE  LET s == ShardOf[o.uid]
             balance == engines[s].accounts[o.uid][HoldCurrency(o)]
         IN  Held(o) = WithEngine(engines, s,
                                  WithBalance(engines[s], o.uid, HoldCurrency(o),
                                              balance - HoldAmount(o)))
  BY DEF Held, WithBalance, WithEngine

LEMMA HeldTyped ==
  ASSUME spec \in Specs, EnginesOK(engines), NEW o \in OrdersOf(Users, OrderIds),
         RiskCheck(o) = "ValidForMatchingEngine"
  PROVE  EnginesOK(Held(o))
<1> DEFINE s == ShardOf[o.uid]
           x == engines[s].accounts[o.uid][HoldCurrency(o)] - HoldAmount(o)
           engine == WithBalance(engines[s], o.uid, HoldCurrency(o), x)
<1>1. o.uid \in Users
  BY DEF OrdersOf
<1>2. HoldCurrency(o) \in Currencies /\ o.uid \in DOMAIN engines[s].accounts /\ x \in Words
  BY ChecksPassed
<1>3. PICK users \in SUBSET {u \in Users : Mine(s, u)} :
        EngineOK(engines[s], users) /\ DOMAIN engines[s].accounts = users
  BY <1>1, UsersOfShard
<1>4. s \in Shards
  BY <1>1, UsersOfShard
<1>5. Held(o) = WithEngine(engines, s, engine)
  BY HeldIs
<1> HIDE DEF x
<1>6. EngineOK(engine, users)
  BY <1>2, <1>3, BalanceTyped
<1> HIDE DEF s, engine
<1>7. QED
  BY <1>4, <1>5, <1>6, EngineReplaced

-----------------------------------------------------------------------------
(* Every command either leaves the book alone, or does to it what PriceTimeBook says. *)

Quiet == UNCHANGED <<book, earlier>> /\ reply'.events = <<>>

\* A command of uid reaches the book and comes to r there.
Reaches(uid, newcomers, r) ==
  /\ Result(r, book, uid, spec, Users, OrderIds, newcomers)
  /\ book' = r.book /\ Arrived(newcomers)
  /\ reply'.uid = uid
  /\ \/ reply'.events = r.events
     \/ \E size, hold \in Int : reply'.events = <<Reject(size, hold)>>

Stepped ==
  /\ spec' = spec
  /\ EnginesOK(engines')
  /\ deposited' \in [Currencies -> Int]
  /\ \/ Quiet
     \/ \E uid \in Users, newcomers \in SUBSET OrderIds : \E r : Reaches(uid, newcomers, r)

LEMMA SettledSteps ==
  ASSUME TypeOK, NEW held, EnginesOK(held), NEW uid \in Users, NEW m,
         NEW newcomers \in SUBSET OrderIds, NEW r,
         Result(r, book, uid, spec, Users, OrderIds, newcomers),
         m.book = r.book,
         m.events = r.events \/ (\E size, hold \in Int : m.events = <<Reject(size, hold)>>),
         Settled(held, uid, m), Arrived(newcomers)
  PROVE  Stepped
<1>1. m.events \in Seq(EventsOf(Users, OrderIds))
  <2>1. CASE m.events = r.events
    BY <2>1 DEF Result
  <2>2. CASE \E size, hold \in Int : m.events = <<Reject(size, hold)>>
    <3>1. PICK size \in Int, hold \in Int : m.events = <<Reject(size, hold)>>
      BY <2>2
    <3>2. Reject(size, hold) \in EventsOf(Users, OrderIds)
      BY DEF Reject, EventsOf
    <3>3. QED
      BY <3>1, <3>2
  <2>3. QED
    BY <2>1, <2>2
<1>2. engines' = Settle(held, uid, m.action, m.events)
  BY DEF Settled
<1>3. EnginesOK(engines')
  BY <1>1, <1>2, SettleTyped DEF TypeOK
<1>4. spec' = spec /\ deposited' \in [Currencies -> Int] /\ book' = r.book
      /\ reply'.uid = uid /\ reply'.events = m.events
  BY DEF Settled, Answer, TypeOK
<1>5. Reaches(uid, newcomers, r)
  BY <1>4 DEF Reaches
<1>6. QED
  BY <1>3, <1>4, <1>5 DEF Stepped

LEMMA CancelSteps ==
  ASSUME TypeOK, NEW uid \in Users, NEW id \in OrderIds, Cancel(uid, id)
  PROVE  Stepped
<1> DEFINE cmd == [uid |-> uid, id |-> id, action |-> "Bid"]
           r == CancelOrder(book, cmd)
<1>1. cmd.action \in Actions /\ cmd.uid = uid
  BY DEF Actions
<1>2. Settled(engines, uid, r) /\ Arrived({})
  BY DEF Cancel
<1> HIDE DEF cmd
<1>3. Result(r, book, cmd.uid, spec, Users, OrderIds, {})
  BY <1>1, CancelOrderOutcome DEF TypeOK
<1> HIDE DEF r
<1>4. Result(r, book, uid, spec, Users, OrderIds, {}) /\ {} \in SUBSET OrderIds
      /\ EnginesOK(engines)
  BY <1>1, <1>3 DEF TypeOK
<1>5. QED
  BY <1>2, <1>4, SettledSteps

LEMMA ReduceSteps ==
  ASSUME TypeOK, NEW uid \in Users, NEW id \in OrderIds, NEW size \in Sizes,
         Reduce(uid, id, size)
  PROVE  Stepped
<1> DEFINE cmd == [uid |-> uid, id |-> id, action |-> "Bid", size |-> size]
           r == ReduceOrder(book, cmd)
<1>1. cmd.action \in Actions /\ cmd.uid = uid /\ cmd.size \in Int
  BY InputAssumption DEF Actions
<1>2. Settled(engines, uid, r) /\ Arrived({})
  BY DEF Reduce
<1> HIDE DEF cmd
<1>3. Result(r, book, cmd.uid, spec, Users, OrderIds, {})
  BY <1>1, ReduceOrderOutcome DEF TypeOK
<1> HIDE DEF r
<1>4. Result(r, book, uid, spec, Users, OrderIds, {}) /\ {} \in SUBSET OrderIds
      /\ EnginesOK(engines)
  BY <1>1, <1>3 DEF TypeOK
<1>5. QED
  BY <1>2, <1>4, SettledSteps

LEMMA MoveSteps ==
  ASSUME TypeOK, NEW uid \in Users, NEW id \in OrderIds, NEW price \in Prices,
         Move(uid, id, price)
  PROVE  Stepped
<1> DEFINE cmd == [uid |-> uid, id |-> id, action |-> "Bid", price |-> price]
           r == MoveOrder(book, cmd, spec)
           newcomers == IF reply'.code = "Success" THEN {id} ELSE {}
<1>1. cmd.action \in Actions /\ cmd.uid = uid /\ cmd.id = id /\ cmd.price \in Int
  BY InputAssumption DEF Actions
<1>2. Settled(engines, uid, r) /\ Arrived(newcomers)
  BY DEF Move
<1>3. reply'.code = r.code
  BY <1>2 DEF Settled, Answer
<1> HIDE DEF cmd
<1>4. Result(r, book, cmd.uid, spec, Users, OrderIds, IF r.code = "Success" THEN {cmd.id} ELSE {})
  BY <1>1, MoveOrderOutcome, SpecTyped DEF TypeOK
<1> HIDE DEF r
<1>5. Result(r, book, uid, spec, Users, OrderIds, newcomers)
  BY <1>1, <1>3, <1>4
<1>6. newcomers \in SUBSET OrderIds /\ EnginesOK(engines)
  BY DEF TypeOK
<1> HIDE DEF newcomers
<1>7. QED
  BY <1>2, <1>5, <1>6, SettledSteps

LEMMA NewOrderFields ==
  ASSUME NEW b, NEW taker, NEW type, NEW s
  PROVE  DOMAIN NewOrder(b, taker, type, s) = {"book", "events", "code", "action"}
<1>1. /\ \A code : DOMAIN Refused(b, taker, code) = {"book", "events", "code", "action"}
      /\ \A x, events, action : DOMAIN Done(x, events, action) = {"book", "events", "code", "action"}
  BY DEF Refused, Done
<1>2. DOMAIN PlaceGtc(b, taker, s) = {"book", "events", "code", "action"}
  BY <1>1 DEF PlaceGtc
<1>3. DOMAIN PlaceIoc(b, taker, s) = {"book", "events", "code", "action"}
  BY <1>1 DEF PlaceIoc
<1>4. DOMAIN PlaceFokBudget(b, taker, s) = {"book", "events", "code", "action"}
  BY <1>1 DEF PlaceFokBudget
<1>5. QED
  BY <1>1, <1>2, <1>3, <1>4 DEF NewOrder

LEMMA CompensatedIs ==
  ASSUME NEW r, DOMAIN r = {"book", "events", "code", "action"}, NEW o
  PROVE  LET m == Compensated(r, o)
         IN  /\ m.book = r.book /\ m.code = r.code /\ m.action = r.action
             /\ r.code = "Success" => m.events = r.events
             /\ r.code # "Success" => m.events = <<Reject(o.size, o.reserve)>>
  BY DEF Compensated

LEMMA PlaceOrderSteps ==
  ASSUME TypeOK, NEW uid \in Users, NEW id \in OrderIds, NEW action \in Actions, NEW type,
         NEW price \in Prices, NEW size \in Sizes, NEW reserve \in Reserves(action, price),
         PlaceOrder(uid, id, action, type, price, reserve, size)
  PROVE  Stepped
<1> DEFINE o == [id |-> id, uid |-> uid, action |-> action, price |-> price, size |-> size,
                 filled |-> 0, reserve |-> HoldPrice(action, type, price, reserve)]
           r == NewOrder(book, o, type, spec)
           m == Compensated(r, o)
           newcomers == IF reply'.code = "Success" THEN {id} ELSE {}
<1>1. HoldPrice(action, type, price, reserve) \in Int
  BY InputAssumption DEF HoldPrice, Reserves
<1>2. o \in OrdersOf(Users, OrderIds) /\ o.uid = uid /\ o.id = id /\ o.size = size
      /\ o.price = price
  BY <1>1, InputAssumption DEF OrdersOf
<1>3. CASE RiskCheck(o) # "ValidForMatchingEngine"
  <2>1. UNCHANGED state /\ reply'.events = <<>>
    BY <1>3 DEF PlaceOrder, Answer
  <2>2. QED
    BY <2>1 DEF Stepped, Quiet, TypeOK, state
<1>4. CASE RiskCheck(o) = "ValidForMatchingEngine"
  <2>1. Settled(Held(o), uid, m) /\ Arrived(newcomers)
    BY <1>4 DEF PlaceOrder
  <2> HIDE DEF o
  <2>2. EnginesOK(Held(o))
    BY <1>2, <1>4, HeldTyped DEF TypeOK
  <2>3. o.size \in Nat /\ o.reserve \in Int /\ (o.action = "Bid" => o.price <= o.reserve)
    BY <1>2, <1>4, ChecksPassed DEF TypeOK
  <2>4. Result(r, book, o.uid, spec, Users, OrderIds, IF r.code = "Success" THEN {o.id} ELSE {})
    BY <1>2, <2>3, NewOrderOutcome, SpecTyped DEF TypeOK
  <2>5. DOMAIN r = {"book", "events", "code", "action"}
    BY NewOrderFields
  <2> HIDE DEF r
  <2>6. m.book = r.book /\ m.code = r.code
        /\ (m.events = r.events \/ m.events = <<Reject(o.size, o.reserve)>>)
    BY <2>5, CompensatedIs
  <2> HIDE DEF m
  <2>7. reply'.code = r.code
    BY <2>1, <2>6 DEF Settled, Answer
  <2>8. Result(r, book, uid, spec, Users, OrderIds, newcomers)
    BY <1>2, <2>4, <2>7
  <2>9. newcomers \in SUBSET OrderIds
    OBVIOUS
  <2> HIDE DEF newcomers
  <2>10. m.events = r.events \/ (\E n, hold \in Int : m.events = <<Reject(n, hold)>>)
    BY <2>3, <2>6
  <2>11. QED
    BY <2>1, <2>2, <2>6, <2>8, <2>9, <2>10, SettledSteps
<1>5. QED
  BY <1>3, <1>4

LEMMA UserAdded ==
  ASSUME NEW users, NEW engine, EngineOK(engine, users), NEW uid
  PROVE  EngineOK([engine EXCEPT !.accounts = WithEntry(@, uid, [base |-> 0, quote |-> 0]),
                                 !.lastTx = WithEntry(@, uid, 0)],
                  users \cup {uid})
<1> DEFINE accounts == WithEntry(engine.accounts, uid, [base |-> 0, quote |-> 0])
           lastTx == WithEntry(engine.lastTx, uid, 0)
           Txs == 0..MaxTx
           W == Words
           A == [users \cup {uid} -> [base : W, quote : W]]
           L == [users \cup {uid} -> Txs]
<1>1. 0 \in W /\ 0 \in Txs
  BY SymbolAssumption, InputAssumption DEF Words
<1>2. engine \in [accounts : [users -> [base : W, quote : W]], lastTx : [users -> Txs], fees : W]
  BY DEF EngineOK
<1> HIDE DEF W, Txs
<1>3. accounts \in A
  BY <1>1, <1>2 DEF WithEntry
<1>4. lastTx \in L
  BY <1>1, <1>2 DEF WithEntry
<1> HIDE DEF accounts, lastTx, A, L
<1>5. [engine EXCEPT !.accounts = accounts, !.lastTx = lastTx]
        \in [accounts : A, lastTx : L, fees : W]
  BY <1>2, <1>3, <1>4
<1>6. EngineOK([engine EXCEPT !.accounts = accounts, !.lastTx = lastTx], users \cup {uid})
  BY <1>5 DEF EngineOK, A, L, W, Txs
<1>7. QED
  BY <1>6 DEF accounts, lastTx

LEMMA AddUserSteps ==
  ASSUME TypeOK, NEW uid \in Users, AddUser(uid)
  PROVE  Stepped
<1> DEFINE s == ShardOf[uid]
           engine == [engines[s] EXCEPT !.accounts = WithEntry(@, uid, [base |-> 0, quote |-> 0]),
                                        !.lastTx = WithEntry(@, uid, 0)]
<1>1. UNCHANGED <<spec, book, deposited, earlier>> /\ reply'.events = <<>>
  BY DEF AddUser, Answer
<1>2. engines' = engines \/ engines' = WithEngine(engines, s, engine)
  BY DEF AddUser, WithEngine
<1>3. PICK users \in SUBSET {u \in Users : Mine(s, u)} : EngineOK(engines[s], users)
  BY UsersOfShard DEF TypeOK
<1>4. EngineOK(engine, users \cup {uid})
  BY <1>3, UserAdded
<1>5. users \cup {uid} \in SUBSET {u \in Users : Mine(s, u)}
  BY <1>3 DEF Mine
<1>6. s \in Shards
  BY UsersOfShard DEF TypeOK
<1> HIDE DEF engine
<1>7. EnginesOK(WithEngine(engines, s, engine))
  <2> DEFINE present == users \cup {uid}
  <2>1. present \in SUBSET {u \in Users : Mine(s, u)} /\ EngineOK(engine, present)
    BY <1>4, <1>5
  <2> HIDE DEF s, present
  <2>2. QED
    BY <1>6, <2>1, EngineReplaced DEF TypeOK
<1>8. EnginesOK(engines')
  BY <1>2, <1>7 DEF TypeOK
<1>9. QED
  BY <1>1, <1>8 DEF Stepped, Quiet, TypeOK

LEMMA AdjustmentSteps ==
  ASSUME TypeOK, NEW uid \in Users, NEW currency \in Currencies, NEW amount \in Int,
         NEW tx \in 1..MaxTx, BalanceAdjustment(uid, currency, amount, tx)
  PROVE  Stepped
<1> DEFINE s == ShardOf[uid]
           x == engines[s].accounts[uid][currency] + amount
           credited == WithBalance(engines[s], uid, currency, x)
           engine == [credited EXCEPT !.lastTx[uid] = tx]
<1>1. UNCHANGED <<spec, book, earlier>> /\ reply'.events = <<>>
  BY DEF BalanceAdjustment, Answer
<1>2. CASE AdjustmentCheck(engines[s], uid, currency, amount, tx) # "Success"
  <2>1. UNCHANGED <<engines, deposited>>
    BY <1>2 DEF BalanceAdjustment
  <2>2. QED
    BY <1>1, <2>1 DEF Stepped, Quiet, TypeOK
<1>3. CASE AdjustmentCheck(engines[s], uid, currency, amount, tx) = "Success"
  <2>1. /\ engines' = [engines EXCEPT ![s].accounts[uid][currency] = @ + amount,
                                      ![s].lastTx[uid] = tx]
        /\ deposited' = [deposited EXCEPT ![currency] = @ + amount]
    BY <1>3 DEF BalanceAdjustment
  <2>2. uid \in DOMAIN engines[s].accounts /\ ~(x > MaxInt) /\ ~(x < 0)
    BY <1>3 DEF AdjustmentCheck
  <2>3. PICK users \in SUBSET {u \in Users : Mine(s, u)} :
          EngineOK(engines[s], users) /\ DOMAIN engines[s].accounts = users
    BY UsersOfShard DEF TypeOK
  <2>4. s \in Shards
    BY UsersOfShard DEF TypeOK
  <2>5. engines' = WithEngine(engines, s, engine)
    <3>1. engines = [t \in Shards |-> engines[t]]
      BY DEF TypeOK, EnginesOK
    <3>2. QED
      BY <2>1, <2>4, <3>1, ZenonT(30) DEF WithEngine, WithBalance
  <2>6. x \in Words
    BY <2>2, <2>3, BalanceIsWord, SymbolAssumption DEF Words
  <2> HIDE DEF x
  <2>7. EngineOK(credited, users)
    BY <2>2, <2>3, <2>6, BalanceTyped
  <2> HIDE DEF credited
  <2>8. EngineOK(engine, users)
    <3>1. tx \in 0..MaxTx
      OBVIOUS
    <3> DEFINE Txs == 0..MaxTx
               A == [users -> [base : Words, quote : Words]]
    <3>2. credited \in [accounts : A, lastTx : [users -> Txs], fees : Words] /\ tx \in Txs
      BY <2>7, <3>1 DEF EngineOK
    <3> HIDE DEF Txs, A
    <3>3. engine \in [accounts : A, lastTx : [users -> Txs], fees : Words]
      BY <3>2
    <3>4. QED
      BY <3>3 DEF EngineOK, Txs, A
  <2> HIDE DEF engine, s
  <2>9. EnginesOK(engines')
    BY <2>3, <2>4, <2>5, <2>8, EngineReplaced DEF TypeOK
  <2>10. deposited' \in [Currencies -> Int]
    BY <2>1 DEF TypeOK
  <2>11. QED
    BY <1>1, <2>9, <2>10 DEF Stepped, Quiet
<1>4. QED
  BY <1>2, <1>3

LEMMA CommandSteps ==
  ASSUME TypeOK, Next
  PROVE  Stepped
<1>1. CASE \E uid \in Users : AddUser(uid)
  BY <1>1, AddUserSteps
<1>2. CASE \E uid \in Users, a \in Adjustments, tx \in 1..MaxTx :
             BalanceAdjustment(uid, a.currency, a.amount, tx)
  <2>1. \A a \in Adjustments : a.currency \in Currencies /\ a.amount \in Int
    BY InputAssumption
  <2>2. QED
    BY <1>2, <2>1, AdjustmentSteps
<1>3. CASE \E uid \in Users, id \in OrderIds, action \in Actions, type \in Types,
              price \in Prices, size \in Sizes : \E reserve \in Reserves(action, price) :
             PlaceOrder(uid, id, action, type, price, reserve, size)
  BY <1>3, PlaceOrderSteps
<1>4. CASE \E uid \in Users, id \in OrderIds : Cancel(uid, id)
  BY <1>4, CancelSteps
<1>5. CASE \E uid \in Users, id \in OrderIds, price \in Prices : Move(uid, id, price)
  BY <1>5, MoveSteps
<1>6. CASE \E uid \in Users, id \in OrderIds, size \in Sizes : Reduce(uid, id, size)
  BY <1>6, ReduceSteps
<1>7. QED
  BY <1>1, <1>2, <1>3, <1>4, <1>5, <1>6 DEF Next

-----------------------------------------------------------------------------
(* First come, first in front. *)

LEMMA RestingIs ==
  ASSUME NEW users, NEW ids, NEW b, BookOK(b, users, ids), NEW o
  PROVE  o \in RestingOrders(b) <=>
           /\ o.action \in Actions
           /\ \E i \in 1..Len(b[o.action]) : b[o.action][i] = o
<1>1. \A action \in Actions : SideOK(b[action], action, users, ids)
  BY DEF BookOK
<1>2. \A action \in Actions : DOMAIN b[action] = 1..Len(b[action])
  BY <1>1, LenProperties DEF SideOK
<1>3. o \in RestingOrders(b) <=>
        \E action \in Actions : \E i \in 1..Len(b[action]) : b[action][i] = o
  BY <1>2 DEF RestingOrders, ToSet, Actions
<1>4. \A action \in Actions : \A i \in 1..Len(b[action]) : b[action][i].action = action
  BY <1>1 DEF SideOK
<1>5. QED
  BY <1>3, <1>4

\* An id stands for one order.
LEMMA OneOrder ==
  ASSUME NEW users, NEW ids, NEW b, BookOK(b, users, ids),
         NEW x \in Actions, NEW i \in 1..Len(b[x]), NEW y \in Actions, NEW j \in 1..Len(b[y]),
         b[x][i].id = b[y][j].id
  PROVE  x = y /\ i = j
<1>1. x = y
  BY DEF BookOK, Actions
<1>2. QED
  BY <1>1, DistinctIds DEF BookOK

\* Of two orders at one price, that with id p[1] is in front of that with id p[2].
FirstIn(b, p) ==
  \E action \in Actions : \E i, j \in 1..Len(b[action]) :
    /\ i < j /\ b[action][i].price = b[action][j].price
    /\ b[action][i].id = p[1] /\ b[action][j].id = p[2]

LEMMA StaysInFront ==
  ASSUME NEW users, NEW ids, NEW old, BookOK(old, users, ids), NEW new, BookOK(new, users, ids),
         NEW newcomers, Evolves(new, old, newcomers), NEW p, FirstIn(old, p),
         NEW o1 \in RestingOrders(new), NEW o2 \in RestingOrders(new),
         o1.id = p[1], o2.id = p[2], o1.id \notin newcomers, o2.id \notin newcomers
  PROVE  FirstIn(new, p)
<1>1. PICK action \in Actions : \E i, j \in 1..Len(old[action]) :
             /\ i < j /\ old[action][i].price = old[action][j].price
             /\ old[action][i].id = p[1] /\ old[action][j].id = p[2]
  BY DEF FirstIn
<1>2. PICK i \in 1..Len(old[action]), j \in 1..Len(old[action]) :
             /\ i < j /\ old[action][i].price = old[action][j].price
             /\ old[action][i].id = p[1] /\ old[action][j].id = p[2]
  BY <1>1
<1>3. PICK x \in 1..Len(new[o1.action]) : o1.action \in Actions /\ new[o1.action][x] = o1
  BY RestingIs
<1>4. PICK y \in 1..Len(new[o2.action]) : o2.action \in Actions /\ new[o2.action][y] = o2
  BY RestingIs
<1>5. o1.action = action /\ o1.price = old[action][i].price
  <2>1. Follows(new[o1.action], old[o1.action], newcomers)
    BY <1>3 DEF Evolves
  <2>2. PICK k \in 1..Len(old[o1.action]) : SameOrder(o1, old[o1.action][k])
    BY <1>3, <2>1 DEF Follows
  <2>3. old[o1.action][k].id = old[action][i].id
    BY <1>2, <2>2 DEF SameOrder
  <2>4. o1.action = action /\ k = i
    BY <1>3, <2>3, OneOrder
  <2>5. QED
    BY <2>2, <2>4 DEF SameOrder
<1>6. o2.action = action /\ o2.price = old[action][j].price
  <2>1. Follows(new[o2.action], old[o2.action], newcomers)
    BY <1>4 DEF Evolves
  <2>2. PICK k \in 1..Len(old[o2.action]) : SameOrder(o2, old[o2.action][k])
    BY <1>4, <2>1 DEF Follows
  <2>3. old[o2.action][k].id = old[action][j].id
    BY <1>2, <2>2 DEF SameOrder
  <2>4. o2.action = action /\ k = j
    BY <1>4, <2>3, OneOrder
  <2>5. QED
    BY <2>2, <2>4 DEF SameOrder
<1>7. x \in 1..Len(new[action]) /\ y \in 1..Len(new[action])
      /\ new[action][x] = o1 /\ new[action][y] = o2
  BY <1>3, <1>4, <1>5, <1>6
<1>8. x # y
  <2>1. p[1] # p[2]
    BY <1>2, OneOrder
  <2>2. QED
    BY <1>7, <2>1
<1>9. ~(y < x)
  <2>1. y < x => j < i
    BY <1>2, <1>7 DEF Evolves, Follows
  <2>2. QED
    BY <1>2, <2>1
<1>10. Len(new[action]) \in Nat
  BY DEF BookOK, SideOK
<1>11. x < y
  BY <1>7, <1>8, <1>9, <1>10
<1>12. QED
  BY <1>2, <1>5, <1>6, <1>7, <1>11 DEF FirstIn

LEMMA JoinsBehind ==
  ASSUME NEW users, NEW ids, NEW old, NEW new, BookOK(new, users, ids),
         NEW newcomers, Evolves(new, old, newcomers),
         NEW o1 \in RestingOrders(new), NEW o2 \in RestingOrders(new), SameLevel(o1, o2),
         o1.id \notin newcomers, o2.id \in newcomers
  PROVE  FirstIn(new, <<o1.id, o2.id>>)
<1> DEFINE action == o1.action
<1>1. PICK x \in 1..Len(new[action]) : action \in Actions /\ new[action][x] = o1
  BY RestingIs
<1>2. action = o2.action /\ o1.price = o2.price
  BY DEF SameLevel
<1>3. PICK y \in 1..Len(new[action]) : new[action][y] = o2
  BY <1>2, RestingIs
<1>4. x # y
  BY <1>1, <1>3
<1>5. ~(y < x)
  BY <1>1, <1>2, <1>3 DEF Evolves, Follows
<1>6. Len(new[action]) \in Nat
  BY <1>1 DEF BookOK, SideOK
<1>7. x < y
  BY <1>4, <1>5, <1>6
<1>8. QED
  BY <1>1, <1>2, <1>3, <1>7 DEF FirstIn

LEMMA FrontIs == EarlierInFront <=> \A p \in earlier : FirstIn(book, p)
  BY DEF EarlierInFront, FirstIn

LEMMA FrontKept ==
  ASSUME TypeOK, EarlierInFront, Stepped
  PROVE  /\ BookOK(book', Users, OrderIds)
         /\ earlier' \subseteq OrderIds \X OrderIds
         /\ \A p \in earlier' : FirstIn(book', p)
<1>1. CASE Quiet
  BY <1>1, FrontIs DEF Quiet, TypeOK
<1>2. ASSUME NEW uid \in Users, NEW newcomers \in SUBSET OrderIds, NEW r,
             Reaches(uid, newcomers, r)
      PROVE  /\ BookOK(book', Users, OrderIds)
             /\ earlier' \subseteq OrderIds \X OrderIds
             /\ \A p \in earlier' : FirstIn(book', p)
  <2> DEFINE new == book'
             joined == {o \in RestingOrders(new) : o.id \in newcomers}
             there == RestingOrders(new) \ joined
             stay == {p \in earlier : \A i \in 1..2 : \E o \in there : o.id = p[i]}
             join == {<<p[1].id, p[2].id>> : p \in {p \in there \X joined : SameLevel(p[1], p[2])}}
  <2>1. BookOK(new, Users, OrderIds) /\ Evolves(new, book, newcomers)
    BY <1>2 DEF Reaches, Result
  <2>2. earlier' = stay \cup join
    BY <1>2 DEF Reaches, Arrived
  <2> HIDE DEF new
  <2>3. ASSUME NEW p \in stay
        PROVE  FirstIn(new, p) /\ p \in OrderIds \X OrderIds
    <3>1. FirstIn(book, p) /\ p \in OrderIds \X OrderIds
      BY FrontIs DEF TypeOK
    <3>2. PICK o1 \in there : o1.id = p[1]
      OBVIOUS
    <3>3. PICK o2 \in there : o2.id = p[2]
      OBVIOUS
    <3>4. o1 \in RestingOrders(new) /\ o2 \in RestingOrders(new)
          /\ o1.id \notin newcomers /\ o2.id \notin newcomers
      OBVIOUS
    <3>5. QED
      BY <2>1, <3>1, <3>2, <3>3, <3>4, StaysInFront DEF TypeOK
  <2>4. ASSUME NEW p \in join
        PROVE  FirstIn(new, p) /\ p \in OrderIds \X OrderIds
    <3>1. PICK o1 \in there, o2 \in joined : SameLevel(o1, o2) /\ p = <<o1.id, o2.id>>
      OBVIOUS
    <3>2. o1 \in RestingOrders(new) /\ o2 \in RestingOrders(new)
          /\ o1.id \notin newcomers /\ o2.id \in newcomers
      OBVIOUS
    <3>3. FirstIn(new, p)
      BY <2>1, <3>1, <3>2, JoinsBehind
    <3>4. \A o \in RestingOrders(new) : o.id \in OrderIds
      <4>1. \A o \in RestingOrders(new) : \E action \in Actions :
              \E i \in 1..Len(new[action]) : new[action][i] = o
        BY <2>1, RestingIs
      <4>2. \A action \in Actions : \A i \in 1..Len(new[action]) :
              new[action][i] \in OrdersOf(Users, OrderIds)
        BY <2>1, ElementOfSeq DEF BookOK, SideOK
      <4>3. QED
        BY <4>1, <4>2 DEF OrdersOf
    <3>5. QED
      BY <3>1, <3>2, <3>3, <3>4
  <2>5. QED
    BY <2>1, <2>2, <2>3, <2>4 DEF new
<1>3. QED
  BY <1>1, <1>2 DEF Stepped

-----------------------------------------------------------------------------
(* The invariant. *)

\* The properties of the book, side by side with what PriceTimeBook says of them.
LEMMA BookProperties ==
  ASSUME TypeOK
  PROVE  /\ BidsCovered <=> (spec.spot => Covered(book))
         /\ NotCrossed <=> Uncrossed(book, spec.stp)
<1>1. \A action \in Actions :
        ToSet(book[action]) = {book[action][i] : i \in 1..Len(book[action])}
  <2>1. \A action \in Actions : DOMAIN book[action] = 1..Len(book[action])
    BY LenProperties DEF TypeOK, BookOK, SideOK
  <2>2. QED
    BY <2>1 DEF ToSet
<1>2. "Ask" \in Actions /\ "Bid" \in Actions
  BY DEF Actions
<1>3. BidsCovered <=> (spec.spot => Covered(book))
  BY <1>1, <1>2 DEF BidsCovered, Covered
<1>4. NotCrossed <=> Uncrossed(book, spec.stp)
  <2>1. ToSet(book["Ask"]) = {book["Ask"][i] : i \in 1..Len(book["Ask"])}
        /\ ToSet(book["Bid"]) = {book["Bid"][i] : i \in 1..Len(book["Bid"])}
    BY <1>1, <1>2
  <2>2. NotCrossed <=>
          \A i \in 1..Len(book["Ask"]), j \in 1..Len(book["Bid"]) :
            \/ book["Ask"][i].price > book["Bid"][j].price
            \/ spec.stp = "Skip" /\ book["Ask"][i].uid = book["Bid"][j].uid
    BY <2>1 DEF NotCrossed
  <2>3. QED
    BY <2>2 DEF Uncrossed
<1>5. QED
  BY <1>3, <1>4

LEMMA ExchangeStarts == Init => ExchangeInv /\ NotCrossed
<1> SUFFICES ASSUME Init
             PROVE  ExchangeInv /\ NotCrossed
  OBVIOUS
<1>1. \A action \in Actions : book[action] = <<>> /\ Len(book[action]) = 0
  BY EmptySeq DEF Init, EmptyBook
<1>2. BookOK(book, Users, OrderIds)
  <2>1. DOMAIN book = Actions
    BY DEF Init, EmptyBook
  <2>2. \A action \in Actions : SideOK(book[action], action, Users, OrderIds)
    <3>1. Len(<<>>) = 0 /\ <<>> \in Seq(OrdersOf(Users, OrderIds))
      BY EmptySeq
    <3>2. \A action : SideOK(<<>>, action, Users, OrderIds)
      BY <3>1 DEF SideOK
    <3>3. QED
      BY <1>1, <3>2
  <2>3. QED
    BY <1>1, <2>1, <2>2 DEF BookOK, Actions
<1>3. EnginesOK(engines)
  <2>1. EngineOK(NewEngine, {})
    <3>1. 0 \in Words
      BY SymbolAssumption DEF Words
    <3> HIDE DEF Words
    <3>2. QED
      BY <3>1 DEF EngineOK, NewEngine
  <2>2. \A s \in Shards : engines[s] = NewEngine
    BY DEF Init
  <2>3. QED
    BY <2>1, <2>2 DEF EnginesOK, Init
<1>4. TypeOK
  BY <1>2, <1>3 DEF TypeOK, Init
<1>5. EarlierInFront
  BY DEF EarlierInFront, Init
<1>6. Covered(book) /\ Uncrossed(book, spec.stp)
  BY <1>1 DEF Covered, Uncrossed, Actions
<1>7. QED
  BY <1>4, <1>5, <1>6, BookProperties DEF ExchangeInv

LEMMA ExchangeContinues ==
  ASSUME ExchangeInv, [Next]_vars
  PROVE  ExchangeInv' /\ (NotCrossed => NotCrossed')
<1>1. CASE Next
  <2>1. Stepped
    BY <1>1, CommandSteps DEF ExchangeInv
  <2>2. /\ BookOK(book', Users, OrderIds)
        /\ earlier' \subseteq OrderIds \X OrderIds
        /\ \A p \in earlier' : FirstIn(book', p)
    BY <2>1, FrontKept DEF ExchangeInv
  <2>3. TypeOK'
    BY <2>1, <2>2 DEF TypeOK, Stepped, ExchangeInv
  <2>4. EarlierInFront'
    BY <2>2 DEF EarlierInFront, FirstIn
  <2>5. /\ (spec.spot => Covered(book)) => (spec'.spot => Covered(book'))
        /\ Uncrossed(book, spec.stp) => Uncrossed(book', spec'.stp)
    BY <2>1 DEF Stepped, Quiet, Reaches, Result
  <2>6. /\ BidsCovered' <=> (spec'.spot => Covered(book'))
        /\ NotCrossed' <=> Uncrossed(book', spec'.stp)
    <3>1. TypeOK' => /\ BidsCovered' <=> (spec.spot => Covered(book))'
                     /\ NotCrossed' <=> Uncrossed(book, spec.stp)'
      BY BookProperties, PTL
    <3>2. QED
      BY <2>3, <3>1 DEF Covered, Uncrossed
  <2>7. QED
    BY <2>3, <2>4, <2>5, <2>6, BookProperties DEF ExchangeInv
<1>2. CASE UNCHANGED vars
  <2>1. UNCHANGED <<spec, engines, book, deposited, earlier>>
    BY <1>2 DEF vars, state
  <2>2. TypeOK' /\ EarlierInFront' /\ BidsCovered' /\ (NotCrossed => NotCrossed')
    BY <2>1 DEF ExchangeInv, TypeOK, EarlierInFront, BidsCovered, NotCrossed
  <2>3. QED
    BY <2>2 DEF ExchangeInv
<1>3. QED
  BY <1>1, <1>2

\* Between two commands the types are right, the book is in order, whoever was earlier
\* at a price is in front, and on a spot market every bid is covered.
THEOREM ExchangeInvariantHolds == Spec => []ExchangeInv
<1>1. Init => ExchangeInv
  BY ExchangeStarts
<1>2. ExchangeInv /\ [Next]_vars => ExchangeInv'
  BY ExchangeContinues
<1>3. QED
  BY <1>1, <1>2, PTL DEF Spec

\* The book is never left crossed.
THEOREM NeverCrossed == Spec => []NotCrossed
<1>1. Init => ExchangeInv /\ NotCrossed
  BY ExchangeStarts
<1>2. ExchangeInv /\ NotCrossed /\ [Next]_vars => (ExchangeInv /\ NotCrossed)'
  BY ExchangeContinues
<1>3. QED
  BY <1>1, <1>2, PTL DEF Spec

-----------------------------------------------------------------------------
(* Trades *)

LEMMA ElementsOfSeq ==
  ASSUME NEW S, NEW t \in Seq(S), NEW e
  PROVE  e \in ToSet(t) <=> \E i \in 1..Len(t) : t[i] = e
<1>1. DOMAIN t = 1..Len(t)
  BY LenProperties
<1>2. QED
  BY <1>1 DEF ToSet

\* What is known of every trade that is reported.
LEMMA TradesAreFair ==
  ASSUME ExchangeInv, Next, NEW e \in ToSet(reply'.events), e.type = "Trade"
  PROVE  /\ BookOK(book', Users, OrderIds)
         /\ Fair(e, book', book, reply'.uid, spec.stp)
         /\ spec.spot => WithinHold(e)
<1>1. Stepped
  BY CommandSteps DEF ExchangeInv
<1>2. ~Quiet
  <2>1. e \notin ToSet(<<>>)
    BY EmptySeq DEF ToSet
  <2>2. QED
    BY <2>1 DEF Quiet
<1>3. PICK uid \in Users, newcomers \in SUBSET OrderIds : \E r : Reaches(uid, newcomers, r)
  BY <1>1, <1>2 DEF Stepped
<1>4. PICK r : Reaches(uid, newcomers, r)
  BY <1>3
<1>5. r.events \in Seq(EventsOf(Users, OrderIds)) /\ book' = r.book /\ reply'.uid = uid
  BY <1>4 DEF Reaches, Result
<1>6. ASSUME NEW size \in Int, NEW hold \in Int, reply'.events = <<Reject(size, hold)>>
      PROVE  FALSE
  <2>1. e = Reject(size, hold)
    BY <1>6 DEF ToSet
  <2>2. QED
    BY <2>1 DEF Reject
<1>7. reply'.events = r.events
  BY <1>4, <1>6 DEF Reaches
<1>8. PICK n \in 1..Len(r.events) : r.events[n] = e
  BY <1>5, <1>7, ElementsOfSeq
<1>9. spec.spot => Covered(book)
  BY BookProperties DEF ExchangeInv
<1>10. QED
  BY <1>4, <1>5, <1>8, <1>9 DEF Reaches, Result

\* With self-trade prevention on, nobody trades with themselves.
THEOREM NobodyTradesAlone == Spec => NoSelfTrade
<1>1. ASSUME ExchangeInv, [Next]_vars
      PROVE  [spec.stp # "None" =>
                \A e \in ToSet(reply'.events) : e.type = "Trade" => e.uid # reply'.uid]_vars
  <2>1. CASE Next
    BY <1>1, <2>1, TradesAreFair DEF Fair
  <2>2. CASE UNCHANGED vars
    BY <2>2
  <2>3. QED
    BY <1>1, <2>1, <2>2
<1>2. QED
  BY <1>1, ExchangeInvariantHolds, PTL DEF Spec, NoSelfTrade

\* On a spot market, a trade never costs the bidder more than what is held.
THEOREM SpotTradesAreWithinHold ==
  ASSUME \A s \in Specs : s.spot
  PROVE  Spec => TradesWithinHold
<1>1. ASSUME ExchangeInv, [Next]_vars
      PROVE  [\A e \in ToSet(reply'.events) : e.type = "Trade" => e.price <= e.hold]_vars
  <2>1. CASE Next
    BY <1>1, <2>1, TradesAreFair DEF WithinHold, ExchangeInv, TypeOK
  <2>2. CASE UNCHANGED vars
    BY <2>2
  <2>3. QED
    BY <1>1, <2>1, <2>2
<1>2. QED
  BY <1>1, ExchangeInvariantHolds, PTL DEF Spec, TradesWithinHold

\* An order with a better price, or with the same price and earlier, is in front.
LEMMA EntitledIsInFront ==
  ASSUME ExchangeInv, NEW action \in Actions,
         NEW j \in 1..Len(book[action]), NEW k \in 1..Len(book[action]),
         book[action][k].id # book[action][j].id,
         \/ Ahead(action, book[action][k].price, book[action][j].price)
         \/ <<book[action][k].id, book[action][j].id>> \in earlier
  PROVE  k < j
<1>1. SideOK(book[action], action, Users, OrderIds) /\ Len(book[action]) \in Nat
  BY DEF ExchangeInv, TypeOK, BookOK, SideOK
<1>2. CASE Ahead(action, book[action][k].price, book[action][j].price)
  BY <1>1, <1>2 DEF SideOK
<1>3. CASE <<book[action][k].id, book[action][j].id>> \in earlier
  <2>1. FirstIn(book, <<book[action][k].id, book[action][j].id>>)
    BY <1>3, FrontIs DEF ExchangeInv
  <2>2. PICK side \in Actions : \E x, y \in 1..Len(book[side]) :
          x < y /\ book[side][x].id = book[action][k].id /\ book[side][y].id = book[action][j].id
    BY <2>1 DEF FirstIn
  <2>3. PICK x \in 1..Len(book[side]), y \in 1..Len(book[side]) :
          x < y /\ book[side][x].id = book[action][k].id /\ book[side][y].id = book[action][j].id
    BY <2>2
  <2>4. x = k /\ y = j
    BY <2>3, OneOrder DEF ExchangeInv, TypeOK
  <2>5. QED
    BY <2>3, <2>4
<1>4. QED
  BY <1>2, <1>3

\* Nobody is passed over.
THEOREM PriorityIsHonoured == Spec => PriorityHonoured
<1>1. ASSUME ExchangeInv, Next, NEW e \in ToSet(reply'.events), e.type = "Trade",
             NEW m \in RestingOrders(book), NEW o \in RestingOrders(book),
             m.id = e.id, o.action = m.action, o.id # m.id, o.uid # reply'.uid,
             Ahead(o.action, o.price, m.price) \/ <<o.id, m.id>> \in earlier
      PROVE  ~Knows(book', o.id)
  <2>1. BookOK(book, Users, OrderIds)
    BY <1>1 DEF ExchangeInv, TypeOK
  <2>2. BookOK(book', Users, OrderIds) /\ Fair(e, book', book, reply'.uid, spec.stp)
    BY <1>1, TradesAreFair
  <2>3. PICK action \in Actions : \E j \in 1..Len(book[action]) :
          /\ e.id = book[action][j].id
          /\ \A k \in 1..(j - 1) : book[action][k].uid # reply'.uid =>
               \A own \in Actions : Absent(book[action][k].id, book'[own])
    BY <1>1, <2>2 DEF Fair
  <2>4. PICK j \in 1..Len(book[action]) :
          /\ e.id = book[action][j].id
          /\ \A k \in 1..(j - 1) : book[action][k].uid # reply'.uid =>
               \A own \in Actions : Absent(book[action][k].id, book'[own])
    BY <2>3
  <2>5. PICK x \in 1..Len(book[m.action]) : m.action \in Actions /\ book[m.action][x] = m
    BY <2>1, RestingIs
  <2>6. m.action = action /\ book[action][j] = m
    BY <1>1, <2>1, <2>4, <2>5, OneOrder
  <2>7. PICK k \in 1..Len(book[action]) : book[action][k] = o
    BY <1>1, <2>1, <2>6, RestingIs
  <2>8. k < j
    BY <1>1, <2>6, <2>7, EntitledIsInFront
  <2>9. k \in 1..(j - 1)
    BY <2>8
  <2>10. \A own \in Actions : Absent(o.id, book'[own])
    BY <1>1, <2>4, <2>7, <2>9
  <2>11. ASSUME NEW left \in RestingOrders(book'), left.id = o.id
         PROVE  FALSE
    BY <2>2, <2>10, <2>11, RestingIs DEF Absent
  <2>12. QED
    BY <2>11 DEF Knows
<1>2. ASSUME ExchangeInv, [Next]_vars
      PROVE  [\A e \in ToSet(reply'.events) : e.type = "Trade" =>
                \A m, o \in RestingOrders(book) :
                  /\ m.id = e.id /\ o.action = m.action /\ o.id # m.id
                  /\ o.uid # reply'.uid
                  /\ Ahead(o.action, o.price, m.price) \/ <<o.id, m.id>> \in earlier
                  => ~Knows(book', o.id)]_vars
  <2>1. CASE Next
    BY <1>1, <1>2, <2>1
  <2>2. CASE UNCHANGED vars
    BY <2>2
  <2>3. QED
    BY <1>2, <2>1, <2>2
<1>3. QED
  BY <1>2, ExchangeInvariantHolds, PTL DEF Spec, PriorityHonoured

-----------------------------------------------------------------------------
(* Failures *)

\* A hold that is credited again leaves nothing behind.
LEMMA BalancesBack ==
  ASSUME NEW users, NEW engine, EngineOK(engine, users), NEW uid \in users,
         NEW currency \in Currencies, NEW x
  PROVE  LET held == WithBalance(engine, uid, currency, x)
             account == engine.accounts[uid]
         IN  /\ uid \in DOMAIN held.accounts
             /\ held.accounts[uid].base = IF currency = "base" THEN x ELSE account.base
             /\ held.accounts[uid].quote = IF currency = "quote" THEN x ELSE account.quote
             /\ WithBalances(held, uid, account.base, account.quote) = engine
<1> DEFINE Txs == 0..MaxTx
           W == Words
<1>1. engine \in [accounts : [users -> [base : W, quote : W]], lastTx : [users -> Txs], fees : W]
  BY DEF EngineOK
<1> HIDE DEF Txs, W
<1> DEFINE held == WithBalance(engine, uid, currency, x)
           account == engine.accounts[uid]
           back == [held.accounts[uid] EXCEPT !.base = account.base, !.quote = account.quote]
<1>2. held = [engine EXCEPT !.accounts = [engine.accounts EXCEPT ![uid] = [account EXCEPT ![currency] = x]]]
  BY Zenon DEF WithBalance
<1>3. /\ "accounts" \in DOMAIN engine /\ uid \in DOMAIN engine.accounts
      /\ account \in [base : W, quote : W]
  BY <1>1
<1> HIDE DEF held, account
<1>4. held.accounts = [engine.accounts EXCEPT ![uid] = [account EXCEPT ![currency] = x]]
  BY <1>2, <1>3
<1>5. /\ uid \in DOMAIN held.accounts
      /\ held.accounts[uid] = [account EXCEPT ![currency] = x]
  BY <1>3, <1>4
<1>6. /\ held.accounts[uid].base = IF currency = "base" THEN x ELSE account.base
      /\ held.accounts[uid].quote = IF currency = "quote" THEN x ELSE account.quote
      /\ back = account
  BY <1>3, <1>5 DEF Currencies
<1>7. WithBalances(held, uid, account.base, account.quote)
        = [held EXCEPT !.accounts = [held.accounts EXCEPT ![uid] = back]]
  BY Zenon DEF WithBalances
<1> HIDE DEF back
<1>8. [held.accounts EXCEPT ![uid] = account] = engine.accounts
  BY <1>1, <1>4 DEF account
<1>9. [held EXCEPT !.accounts = engine.accounts] = engine
  BY <1>1, <1>2
<1>10. QED
  BY <1>5, <1>6, <1>7, <1>8, <1>9 DEF held, account

LEMMA PaidBack ==
  ASSUME NEW users, NEW engine, EngineOK(engine, users), NEW uid \in users,
         NEW currency \in Currencies, NEW hold \in Int
  PROVE  LET balance == engine.accounts[uid][currency]
         IN  Credit(WithBalance(engine, uid, currency, balance - hold), uid,
                    IF currency = "base" THEN hold ELSE 0,
                    IF currency = "quote" THEN hold ELSE 0) = engine
<1> DEFINE account == engine.accounts[uid]
           x == account[currency] - hold
           held == WithBalance(engine, uid, currency, x)
           base == IF currency = "base" THEN hold ELSE 0
           quote == IF currency = "quote" THEN hold ELSE 0
<1>1. /\ uid \in DOMAIN held.accounts
      /\ held.accounts[uid].base = IF currency = "base" THEN x ELSE account.base
      /\ held.accounts[uid].quote = IF currency = "quote" THEN x ELSE account.quote
      /\ WithBalances(held, uid, account.base, account.quote) = engine
  BY BalancesBack
<1>2. account.base \in Words /\ account.quote \in Words
  BY BalanceIsWord DEF Currencies
<1>3. account.base \in Int /\ account.quote \in Int
  BY <1>2, SymbolAssumption DEF Words
<1>4. held.accounts[uid].base + base = account.base
  BY <1>1, <1>3
<1>5. held.accounts[uid].quote + quote = account.quote
  BY <1>1, <1>3 DEF Currencies
<1> HIDE DEF account, held, base, quote
<1>6. Credit(held, uid, base, quote)
        = WithBalances(held, uid, Word(held.accounts[uid].base + base),
                       Word(held.accounts[uid].quote + quote))
  BY <1>1 DEF Credit, WithBalances
<1>7. QED
  BY <1>1, <1>2, <1>4, <1>5, <1>6, WordKeepsWords DEF account, held, base, quote

\* The reject event of a refused order gives back what R1 held for it.
LEMMA RefusalIsPaidBack ==
  ASSUME TypeOK, NEW o \in OrdersOf(Users, OrderIds), RiskCheck(o) = "ValidForMatchingEngine"
  PROVE  Settle(Held(o), o.uid, o.action, <<Reject(o.size, o.reserve)>>) = engines
<1> DEFINE own == ShardOf[o.uid]
           e == Reject(o.size, o.reserve)
           balance == engines[own].accounts[o.uid][HoldCurrency(o)]
           hold == HoldAmount(o)
           engine == WithBalance(engines[own], o.uid, HoldCurrency(o), balance - hold)
<1>1. /\ o.uid \in Users /\ o.action \in Actions
      /\ e.type = "Reject" /\ e.size = o.size /\ e.hold = o.reserve
  BY DEF OrdersOf, Reject
<1>2. engines = [s \in Shards |-> engines[s]] /\ spec \in Specs /\ EnginesOK(engines)
  BY DEF TypeOK, EnginesOK
<1>3. Held(o) = WithEngine(engines, own, engine)
  BY HeldIs
<1>4. PICK users \in SUBSET {u \in Users : Mine(own, u)} :
        EngineOK(engines[own], users) /\ DOMAIN engines[own].accounts = users
  BY <1>1, <1>2, UsersOfShard
<1>5. HoldCurrency(o) \in Currencies /\ hold \in Int /\ o.uid \in users
  BY <1>2, <1>4, ChecksPassed
<1>6. ASSUME NEW s \in Shards
      PROVE  SettleEvent(Held(o)[s], s, o.uid, o.action, e) = engines[s]
  <2>1. SettleEvent(Held(o)[s], s, o.uid, o.action, e)
          = SettleReject(Held(o)[s], s, o.uid, o.action, e)
    BY <1>1 DEF SettleEvent
  <2>2. CASE s # own
    <3>1. Held(o)[s] = engines[s]
      BY <1>2, <1>3, <2>2 DEF WithEngine
    <3>2. QED
      BY <2>1, <2>2, <3>1 DEF SettleReject, Mine
  <2>3. CASE s = own
    <3>1. Held(o)[s] = engine
      BY <1>2, <1>3, <2>3 DEF WithEngine
    <3>2. SettleReject(engine, s, o.uid, o.action, e)
            = Credit(engine, o.uid, IF HoldCurrency(o) = "base" THEN hold ELSE 0,
                     IF HoldCurrency(o) = "quote" THEN hold ELSE 0)
      <4> HIDE DEF engine
      <4>1. CASE o.action = "Ask"
        <5>1. hold = e.size * spec.baseScale /\ HoldCurrency(o) = "base"
          BY <1>1, <4>1 DEF HoldAmount, HoldCurrency
        <5> HIDE DEF hold, e
        <5>2. QED
          BY <2>3, <4>1, <5>1 DEF SettleReject, Mine
      <4>2. CASE o.action = "Bid"
        <5>1. hold = e.size * e.hold * spec.quoteScale + e.size * spec.takerFee
              /\ HoldCurrency(o) = "quote"
          BY <1>1, <4>2 DEF HoldAmount, HoldCurrency
        <5> HIDE DEF hold, e
        <5>2. QED
          BY <2>3, <4>2, <5>1 DEF SettleReject, Mine
      <4>3. QED
        BY <1>1, <4>1, <4>2 DEF Actions
    <3>3. Credit(engine, o.uid, IF HoldCurrency(o) = "base" THEN hold ELSE 0,
                 IF HoldCurrency(o) = "quote" THEN hold ELSE 0) = engines[own]
      <4> HIDE DEF hold, own
      <4>1. QED
        BY <1>4, <1>5, PaidBack
    <3>4. QED
      BY <2>1, <2>3, <3>1, <3>2, <3>3
  <2>4. QED
    BY <2>2, <2>3
<1>7. Settle(Held(o), o.uid, o.action, <<e>>)
        = [s \in Shards |-> SettleEvent(Held(o)[s], s, o.uid, o.action, e)]
  BY SettleOne
<1> HIDE DEF e
<1>8. Settle(Held(o), o.uid, o.action, <<e>>) = engines
  BY <1>2, <1>6, <1>7
<1>9. QED
  BY <1>8 DEF e

\* What an error answer leaves alone.
Untouched == UNCHANGED <<engines, book, deposited>>

LEMMA RefusedCommand ==
  ASSUME TypeOK, NEW uid, NEW newcomers, NEW r,
         Result(r, book, uid, spec, Users, OrderIds, newcomers), Settled(engines, uid, r),
         reply'.code # "Success"
  PROVE  Untouched
<1>1. r.code # "Success"
  BY DEF Settled, Answer
<1>2. r.book = book /\ r.events = <<>>
  BY <1>1 DEF Result
<1>3. engines' = engines
  BY <1>2, SettleNothing DEF Settled
<1>4. QED
  BY <1>2, <1>3 DEF Settled, Untouched

LEMMA RefusedOrder ==
  ASSUME TypeOK, NEW uid \in Users, NEW id \in OrderIds, NEW action \in Actions, NEW type,
         NEW price \in Prices, NEW size \in Sizes, NEW reserve \in Reserves(action, price),
         PlaceOrder(uid, id, action, type, price, reserve, size), reply'.code # "Success"
  PROVE  Untouched
<1> DEFINE o == [id |-> id, uid |-> uid, action |-> action, price |-> price, size |-> size,
                 filled |-> 0, reserve |-> HoldPrice(action, type, price, reserve)]
           r == NewOrder(book, o, type, spec)
           m == Compensated(r, o)
<1>1. HoldPrice(action, type, price, reserve) \in Int
  BY InputAssumption DEF HoldPrice, Reserves
<1>2. o \in OrdersOf(Users, OrderIds) /\ o.uid = uid
  BY <1>1, InputAssumption DEF OrdersOf
<1>3. CASE RiskCheck(o) # "ValidForMatchingEngine"
  BY <1>3 DEF PlaceOrder, Untouched, state
<1>4. CASE RiskCheck(o) = "ValidForMatchingEngine"
  <2>1. Settled(Held(o), uid, m)
    BY <1>4 DEF PlaceOrder
  <2> HIDE DEF o
  <2>2. o.size \in Nat /\ (o.action = "Bid" => o.price <= o.reserve)
    BY <1>2, <1>4, ChecksPassed DEF TypeOK
  <2>3. /\ Result(r, book, o.uid, spec, Users, OrderIds, IF r.code = "Success" THEN {o.id} ELSE {})
        /\ r.code # "Success" => r.action = o.action
    <3>1. BookOK(book, Users, OrderIds) /\ spec.stp \in Modes
      BY SpecTyped DEF TypeOK
    <3>2. QED
      BY <1>2, <2>2, <3>1, NewOrderOutcome
  <2>4. DOMAIN r = {"book", "events", "code", "action"}
    BY NewOrderFields
  <2> HIDE DEF r
  <2>5. /\ m.book = r.book /\ m.code = r.code /\ m.action = r.action
        /\ r.code # "Success" => m.events = <<Reject(o.size, o.reserve)>>
    BY <2>4, CompensatedIs
  <2> HIDE DEF m
  <2>6. r.code # "Success"
    BY <2>1, <2>5 DEF Settled, Answer
  <2>7. book' = book /\ deposited' = deposited
    BY <2>1, <2>3, <2>5, <2>6 DEF Settled, Result
  <2>8. engines' = Settle(Held(o), o.uid, o.action, <<Reject(o.size, o.reserve)>>)
    BY <1>2, <2>1, <2>3, <2>5, <2>6 DEF Settled
  <2>9. engines' = engines
    BY <1>2, <1>4, <2>8, RefusalIsPaidBack
  <2>10. QED
    BY <2>7, <2>9 DEF Untouched
<1>5. QED
  BY <1>3, <1>4

\* A command that is answered with an error has changed nothing.
THEOREM FailuresChangeNothing == Spec => FailureChangesNothing
<1>1. ASSUME TypeOK, Next, reply'.code # "Success"
      PROVE  Untouched
  <2>1. CASE \E uid \in Users : AddUser(uid)
    BY <1>1, <2>1 DEF AddUser, Answer, Untouched
  <2>2. CASE \E uid \in Users, a \in Adjustments, tx \in 1..MaxTx :
               BalanceAdjustment(uid, a.currency, a.amount, tx)
    BY <1>1, <2>2 DEF BalanceAdjustment, Answer, Untouched
  <2>3. CASE \E uid \in Users, id \in OrderIds, action \in Actions, type \in Types,
                price \in Prices, size \in Sizes : \E reserve \in Reserves(action, price) :
               PlaceOrder(uid, id, action, type, price, reserve, size)
    BY <1>1, <2>3, RefusedOrder
  <2>4. CASE \E uid \in Users, id \in OrderIds : Cancel(uid, id)
    <3>1. PICK uid \in Users, id \in OrderIds : Cancel(uid, id)
      BY <2>4
    <3> DEFINE cmd == [uid |-> uid, id |-> id, action |-> "Bid"]
    <3>2. cmd.action \in Actions /\ Settled(engines, uid, CancelOrder(book, cmd))
      BY <3>1 DEF Cancel, Actions
    <3> HIDE DEF cmd
    <3>3. Result(CancelOrder(book, cmd), book, cmd.uid, spec, Users, OrderIds, {})
      BY <1>1, <3>2, CancelOrderOutcome DEF TypeOK
    <3>4. cmd.uid = uid
      BY DEF cmd
    <3>5. QED
      BY <1>1, <3>2, <3>3, <3>4, RefusedCommand
  <2>5. CASE \E uid \in Users, id \in OrderIds, price \in Prices : Move(uid, id, price)
    <3>1. PICK uid \in Users, id \in OrderIds, price \in Prices : Move(uid, id, price)
      BY <2>5
    <3> DEFINE cmd == [uid |-> uid, id |-> id, action |-> "Bid", price |-> price]
               r == MoveOrder(book, cmd, spec)
    <3>2. cmd.action \in Actions /\ cmd.price \in Int /\ cmd.uid = uid
          /\ Settled(engines, uid, r)
      BY <3>1, InputAssumption DEF Move, Actions
    <3> HIDE DEF cmd
    <3>3. Result(r, book, cmd.uid, spec, Users, OrderIds,
                 IF r.code = "Success" THEN {cmd.id} ELSE {})
      BY <1>1, <3>2, MoveOrderOutcome, SpecTyped DEF TypeOK
    <3> HIDE DEF r
    <3>4. QED
      BY <1>1, <3>2, <3>3, RefusedCommand
  <2>6. CASE \E uid \in Users, id \in OrderIds, size \in Sizes : Reduce(uid, id, size)
    <3>1. PICK uid \in Users, id \in OrderIds, size \in Sizes : Reduce(uid, id, size)
      BY <2>6
    <3> DEFINE cmd == [uid |-> uid, id |-> id, action |-> "Bid", size |-> size]
    <3>2. cmd.action \in Actions /\ cmd.size \in Int /\ cmd.uid = uid
          /\ Settled(engines, uid, ReduceOrder(book, cmd))
      BY <3>1, InputAssumption DEF Reduce, Actions
    <3> HIDE DEF cmd
    <3>3. Result(ReduceOrder(book, cmd), book, cmd.uid, spec, Users, OrderIds, {})
      BY <1>1, <3>2, ReduceOrderOutcome DEF TypeOK
    <3>4. QED
      BY <1>1, <3>2, <3>3, RefusedCommand
  <2>7. QED
    BY <1>1, <2>1, <2>2, <2>3, <2>4, <2>5, <2>6 DEF Next
<1>2. ASSUME ExchangeInv, [Next]_vars
      PROVE  [reply'.code # "Success" => UNCHANGED <<engines, book, deposited>>]_vars
  <2>1. CASE Next
    BY <1>1, <1>2, <2>1 DEF ExchangeInv, Untouched
  <2>2. CASE UNCHANGED vars
    BY <2>2
  <2>3. QED
    BY <1>2, <2>1, <2>2
<1>3. QED
  BY <1>2, ExchangeInvariantHolds, PTL DEF Spec, FailureChangesNothing

-----------------------------------------------------------------------------
(* Along the rest of a side *)

LEMMA AlongRest ==
  ASSUME NEW S, NEW s \in Seq(S), NEW v \in [S -> Int]
  PROVE  /\ Along(v, From(s, 1)) = Along(v, s)
         /\ Along(v, From(s, Len(s) + 1)) = 0
         /\ \A i \in 1..Len(s) : Along(v, From(s, i)) = v[s[i]] + Along(v, From(s, i + 1))
<1>1. Len(s) \in Nat /\ \A i \in 1..Len(s) : s[i] \in S
  OBVIOUS
<1>2. \A i \in 1..Len(s) + 1 :
        /\ From(s, i) \in Seq(S) /\ Len(From(s, i)) = Len(s) + 1 - i
        /\ \A a \in 1..(Len(s) + 1 - i) : From(s, i)[a] = s[i + a - 1]
  BY Rest
<1>3. From(s, 1) = s
  <2>1. SubSeq(s, 1, Len(s)) = s
    OBVIOUS
  <2>2. QED
    BY <2>1 DEF From
<1>4. From(s, Len(s) + 1) = <<>>
  <2>1. Len(s) + 1 \in 1..Len(s) + 1
    BY <1>1
  <2>2. From(s, Len(s) + 1) \in Seq(S) /\ Len(From(s, Len(s) + 1)) = 0
    BY <1>1, <1>2, <2>1
  <2>3. QED
    BY <2>2, EmptySeq
<1>5. ASSUME NEW i \in 1..Len(s)
      PROVE  Along(v, From(s, i)) = v[s[i]] + Along(v, From(s, i + 1))
  <2> DEFINE t == From(s, i)
             u == From(s, i + 1)
  <2>1. i \in 1..Len(s) + 1 /\ i + 1 \in 1..Len(s) + 1
    BY <1>1
  <2>2. /\ t \in Seq(S) /\ Len(t) = Len(s) + 1 - i
        /\ \A a \in 1..(Len(s) + 1 - i) : t[a] = s[i + a - 1]
    BY <1>2, <2>1
  <2>3. /\ u \in Seq(S) /\ Len(u) = Len(s) + 1 - (i + 1)
        /\ \A a \in 1..(Len(s) + 1 - (i + 1)) : u[a] = s[(i + 1) + a - 1]
    BY <1>2, <2>1
  <2> HIDE DEF t, u
  <2>4. Len(t) = Len(u) + 1 /\ Len(u) \in Nat /\ Len(u) = Len(s) - i
    BY <1>1, <2>2, <2>3
  <2>5. t[0 + 1] = s[i]
    BY <1>1, <2>2
  <2>6. ASSUME NEW a \in 1..Len(u) + 1, a > 0 + 1
        PROVE  t[a] = u[a - 1]
    <3>1. a \in 1..(Len(s) + 1 - i) /\ a - 1 \in 1..(Len(s) + 1 - (i + 1))
      BY <2>4, <2>6
    <3>2. t[a] = s[i + a - 1] /\ u[a - 1] = s[(i + 1) + (a - 1) - 1]
      BY <2>2, <2>3, <3>1
    <3>3. i + a - 1 = (i + 1) + (a - 1) - 1
      BY <3>1
    <3>4. QED
      BY <3>2, <3>3
  <2>7. Inserted(t, S, u, 0, s[i]) /\ 0 \in 0..Len(u)
    BY <2>2, <2>4, <2>5, <2>6 DEF Inserted
  <2>8. Along(v, t) = Along(v, u) + v[s[i]]
    BY <1>1, <2>3, <2>7, AlongInserted
  <2>9. Along(v, u) \in Int /\ v[s[i]] \in Int
    BY <1>1, <2>3, AlongIsNumber
  <2>10. QED
    BY <2>8, <2>9 DEF t, u
<1>6. QED
  BY <1>3, <1>4, <1>5, AlongNothing

-----------------------------------------------------------------------------
(* What is held for one unit of an order, and what an event gives back. *)

Unit(action, reserve) ==
  IF action = "Bid" THEN reserve * spec.quoteScale + spec.takerFee ELSE spec.baseScale

\* What is held for an order that rests on the side of `action`.
Holds(action, users) ==
  [o \in OrdersOf(users, OrderIds) |-> Remaining(o) * Unit(action, o.reserve)]

\* Does event e of a command on the side of `action` give back what is held for an order
\* on the side of `side`?
GivesBack(e, action, side) ==
  \/ e.type = "Trade"
  \/ e.type = "Reject" /\ side = action
  \/ e.type = "RejectMaker" /\ side = Opposite(action)

Freed(e, action, side) ==
  IF GivesBack(e, action, side) THEN e.size * Unit(side, e.hold) ELSE 0

Frees(action, side, users) == [e \in EventsOf(users, OrderIds) |-> Freed(e, action, side)]

LEMMA UnitTyped ==
  ASSUME spec \in Specs, NEW action, NEW reserve \in Int
  PROVE  Unit(action, reserve) \in Int /\ (reserve \in Nat => Unit(action, reserve) \in Nat)
<1>1. spec.takerFee \in Nat /\ spec.baseScale \in Nat /\ spec.quoteScale \in Nat
  BY SpecTyped
<1>2. \A q \in Nat : reserve * q \in Int /\ (reserve \in Nat => reserve * q \in Nat)
  OBVIOUS
<1>3. QED
  BY <1>1, <1>2 DEF Unit

LEMMA HoldsTyped ==
  ASSUME spec \in Specs, NEW action, NEW users
  PROVE  /\ Holds(action, users) \in [OrdersOf(users, OrderIds) -> Int]
         /\ \A o \in OrdersOf(users, OrderIds) :
              /\ Holds(action, users)[o] = Remaining(o) * Unit(action, o.reserve)
              /\ Unit(action, o.reserve) \in Int /\ Remaining(o) \in Int
<1>1. ASSUME NEW o \in OrdersOf(users, OrderIds)
      PROVE  /\ Remaining(o) \in Int /\ Unit(action, o.reserve) \in Int
             /\ Remaining(o) * Unit(action, o.reserve) \in Int
  <2>1. o.size \in Int /\ o.filled \in Int /\ o.reserve \in Int
    BY DEF OrdersOf
  <2>2. Remaining(o) \in Int /\ Unit(action, o.reserve) \in Int
    BY <2>1, UnitTyped DEF Remaining
  <2>3. QED
    BY <2>2, Product
<1>2. QED
  BY <1>1 DEF Holds

LEMMA FreesTyped ==
  ASSUME spec \in Specs, NEW action, NEW side, NEW users
  PROVE  /\ Frees(action, side, users) \in [EventsOf(users, OrderIds) -> Int]
         /\ \A e \in EventsOf(users, OrderIds) :
              Frees(action, side, users)[e] = Freed(e, action, side)
<1>1. ASSUME NEW e \in EventsOf(users, OrderIds)
      PROVE  Freed(e, action, side) \in Int
  <2>1. e.size \in Int /\ e.hold \in Int
    BY DEF EventsOf
  <2>2. Unit(side, e.hold) \in Int
    BY <2>1, UnitTyped
  <2>3. QED
    BY <2>1, <2>2, Product DEF Freed
<1>2. QED
  BY <1>1 DEF Frees

\* What the events of a walk give back to the two sides.
LEMMA EventsFree ==
  ASSUME spec \in Specs, NEW users, NEW side, NEW taker, NEW stp,
         Setting(side, taker, stp, users, OrderIds), NEW j \in 1..Len(side)
  PROVE  LET action == taker.action
             opposite == Opposite(action)
             u == Unit(opposite, side[j].reserve)
         IN  /\ \A size \in Int :
                  /\ Frees(action, opposite, users)[Trade(taker, side[j], size)] = size * u
                  /\ Frees(action, action, users)[Trade(taker, side[j], size)]
                       = size * Unit(action, taker.reserve)
             /\ Frees(action, opposite, users)[RejectMaker(side[j])] = Remaining(side[j]) * u
             /\ Frees(action, action, users)[RejectMaker(side[j])] = 0
             /\ Holds(opposite, users)[side[j]] = Remaining(side[j]) * u
             /\ u \in Int /\ Unit(action, taker.reserve) \in Int
<1> DEFINE action == taker.action
           opposite == Opposite(action)
           u == Unit(opposite, side[j].reserve)
<1>1. /\ action \in Actions /\ side[j] \in OrdersOf(users, OrderIds)
      /\ taker.reserve \in Int /\ side[j].reserve \in Int
  BY Makers
<1>2. opposite # action /\ (action = "Bid" => opposite = "Ask") /\ (action = "Ask" => opposite = "Bid")
  BY <1>1 DEF Opposite, Actions
<1>3. ASSUME NEW size \in Int
      PROVE  /\ Frees(action, opposite, users)[Trade(taker, side[j], size)] = size * u
             /\ Frees(action, action, users)[Trade(taker, side[j], size)]
                  = size * Unit(action, taker.reserve)
  <2> DEFINE e == Trade(taker, side[j], size)
  <2>1. e \in EventsOf(users, OrderIds)
    BY EventsTyped
  <2>2. /\ e.type = "Trade" /\ e.size = size
        /\ e.hold = IF action = "Bid" THEN taker.reserve ELSE side[j].reserve
    BY DEF Trade
  <2> HIDE DEF e
  <2>3. Unit(opposite, e.hold) = u /\ Unit(action, e.hold) = Unit(action, taker.reserve)
    BY <1>1, <1>2, <2>2 DEF Unit, Actions
  <2>4. QED
    BY <2>1, <2>2, <2>3, FreesTyped DEF Freed, GivesBack, e
<1>4. /\ Frees(action, opposite, users)[RejectMaker(side[j])] = Remaining(side[j]) * u
      /\ Frees(action, action, users)[RejectMaker(side[j])] = 0
  <2> DEFINE e == RejectMaker(side[j])
  <2>1. e \in EventsOf(users, OrderIds)
    BY EventsTyped
  <2>2. /\ e.type = "RejectMaker" /\ e.size = Remaining(side[j])
        /\ e.hold = side[j].reserve
    BY DEF RejectMaker
  <2> HIDE DEF e
  <2>3. QED
    BY <1>2, <2>1, <2>2, FreesTyped DEF Freed, GivesBack, e
<1>5. Holds(opposite, users)[side[j]] = Remaining(side[j]) * u
  BY <1>1, HoldsTyped
<1>6. u \in Int /\ Unit(action, taker.reserve) \in Int
  BY <1>1, UnitTyped
<1>7. QED
  BY <1>3, <1>4, <1>5, <1>6

\* A rejection of what is left of the taker.
LEMMA RejectFrees ==
  ASSUME spec \in Specs, NEW users, NEW action \in Actions, NEW size \in Int, NEW hold \in Int
  PROVE  /\ Reject(size, hold) \in EventsOf(users, OrderIds)
         /\ Frees(action, action, users)[Reject(size, hold)] = size * Unit(action, hold)
         /\ Frees(action, Opposite(action), users)[Reject(size, hold)] = 0
         /\ Unit(action, hold) \in Int
<1> DEFINE e == Reject(size, hold)
<1>1. e \in EventsOf(users, OrderIds) /\ e.type = "Reject" /\ e.size = size /\ e.hold = hold
  BY DEF Reject, EventsOf
<1>2. Opposite(action) # action
  BY DEF Opposite, Actions
<1> HIDE DEF e
<1>3. /\ Frees(action, action, users)[e] = size * Unit(action, hold)
      /\ Frees(action, Opposite(action), users)[e] = 0
  BY <1>1, <1>2, FreesTyped DEF Freed, GivesBack
<1>4. QED
  BY <1>1, <1>3, UnitTyped DEF e

-----------------------------------------------------------------------------
(* Matching *)

\* From position i on, with `left` of the taker unfilled: what is held for the side is
\* still held or given back, and what has traded of the taker is given back.
WalkBalances(m, side, taker, users, i, left) ==
  LET action == taker.action
      opposite == Opposite(action)
  IN  /\ Along(Holds(opposite, users), From(side, i))
           = Along(Holds(opposite, users), m.side)
               + Along(Frees(action, opposite, users), m.events)
      /\ Along(Frees(action, action, users), m.events)
           = (m.filled - taker.size + left) * Unit(action, taker.reserve)

LEMMA VisitBalances ==
  ASSUME spec \in Specs, NEW users, NEW side, NEW taker, NEW stp,
         Setting(side, taker, stp, users, OrderIds),
         NEW i \in 1..Len(side) + 1, NEW left \in 0..taker.size, NEW d,
         i <= Len(side) => \A l \in 0..taker.size :
           /\ IsResult(d[l]) /\ Typed(d[l], users, OrderIds)
           /\ WalkBalances(d[l], side, taker, users, i + 1, l)
  PROVE  WalkBalances(Visit(side, taker, stp, i, left, d), side, taker, users, i, left)
<1> DEFINE S == OrdersOf(users, OrderIds)
           E == EventsOf(users, OrderIds)
           action == taker.action
           opposite == Opposite(action)
           H == Holds(opposite, users)
           M == Frees(action, opposite, users)
           K == Frees(action, action, users)
           u == Unit(action, taker.reserve)
           maker == side[i]
           w == Unit(opposite, maker.reserve)
           rem == Remaining(maker)
           Good(m) == /\ Along(H, From(side, i)) = Along(H, m.side) + Along(M, m.events)
                      /\ Along(K, m.events) = (m.filled - taker.size + left) * u
           after == From(side, i + 1)
           v == Visit(side, taker, stp, i, left, d)
<1>1. /\ side \in Seq(S) /\ Len(side) \in Nat /\ taker.size \in Nat /\ taker.reserve \in Int
      /\ H \in [S -> Int] /\ M \in [E -> Int] /\ K \in [E -> Int] /\ u \in Int
      /\ left \in Int /\ taker.size \in Int
  BY Makers, HoldsTyped, FreesTyped, UnitTyped
<1>2. From(side, i) \in Seq(S)
  BY <1>1, Rest
<1>3. ASSUME i <= Len(side)
      PROVE  /\ maker \in S /\ rem \in Nat /\ w \in Int /\ H[maker] = rem * w /\ H[maker] \in Int
             /\ \A size \in Int :
                  /\ Trade(taker, maker, size) \in E
                  /\ M[Trade(taker, maker, size)] = size * w
                  /\ K[Trade(taker, maker, size)] = size * u
             /\ RejectMaker(maker) \in E
             /\ M[RejectMaker(maker)] = H[maker] /\ K[RejectMaker(maker)] = 0
             /\ after \in Seq(S) /\ Along(H, after) \in Int
             /\ Along(H, From(side, i)) = H[maker] + Along(H, after)
  <2>1. i \in 1..Len(side) /\ i + 1 \in 1..Len(side) + 1 /\ maker \in S /\ rem \in Nat
    BY <1>1, <1>3, Makers
  <2>2. \A size \in Int : Trade(taker, maker, size) \in E
    BY <2>1, EventsTyped
  <2>3. RejectMaker(maker) \in E
    BY <2>1, EventsTyped
  <2>4. \A size \in Int : M[Trade(taker, maker, size)] = size * w
    BY <2>1, EventsFree
  <2>5. \A size \in Int : K[Trade(taker, maker, size)] = size * u
    BY <2>1, EventsFree
  <2>6. M[RejectMaker(maker)] = rem * w /\ K[RejectMaker(maker)] = 0 /\ H[maker] = rem * w /\ w \in Int
    BY <2>1, EventsFree
  <2>7. after \in Seq(S)
    BY <1>1, <2>1, Rest
  <2>8. H[maker] \in Int
    BY <1>1, <2>1
  <2> HIDE DEF S, H
  <2>9. Along(H, after) \in Int
    BY <1>1, <2>7, AlongIsNumber
  <2>10. Along(H, From(side, i)) = H[maker] + Along(H, after)
    BY <1>1, <2>1, AlongRest, ZenonT(60)
  <2>11. QED
    BY <2>1, <2>2, <2>3, <2>4, <2>5, <2>6, <2>7, <2>8, <2>9, <2>10
<1>4. ASSUME i <= Len(side), NEW l \in 0..taker.size
      PROVE  /\ IsResult(d[l])
             /\ d[l].side \in Seq(S) /\ d[l].events \in Seq(E) /\ d[l].filled \in Int
             /\ Along(H, after) = Along(H, d[l].side) + Along(M, d[l].events)
             /\ Along(K, d[l].events) = (d[l].filled - taker.size + l) * u
             /\ Along(H, d[l].side) \in Int /\ Along(M, d[l].events) \in Int
  <2>1. /\ IsResult(d[l]) /\ Typed(d[l], users, OrderIds)
        /\ WalkBalances(d[l], side, taker, users, i + 1, l)
    BY <1>4
  <2>2. d[l].side \in Seq(S) /\ d[l].events \in Seq(E) /\ d[l].filled \in Int
    BY <2>1 DEF Typed
  <2>3. /\ Along(H, after) = Along(H, d[l].side) + Along(M, d[l].events)
        /\ Along(K, d[l].events) = (d[l].filled - taker.size + l) * u
    BY <2>1 DEF WalkBalances
  <2> HIDE DEF S, E, H, M
  <2>4. Along(H, d[l].side) \in Int /\ Along(M, d[l].events) \in Int
    BY <1>1, <2>2, AlongIsNumber
  <2>5. QED
    BY <2>1, <2>2, <2>3, <2>4
<1>5. Along(H, From(side, i)) \in Int
  <2> HIDE DEF S, H
  <2>1. QED
    BY <1>1, <1>2, AlongIsNumber
<1>6. Good(v) => WalkBalances(v, side, taker, users, i, left)
  BY DEF WalkBalances
<1>7. /\ i > Len(side) => v = Stop(taker, left, From(side, i), <<>>, FALSE)
      /\ Cases(v, side, taker, stp, i, left, d)
  BY VisitCases DEF Visit
<1> DEFINE size == taker.size
<1> HIDE DEF S, E, action, opposite, H, M, K, u, w, after, v
<1>8. ASSUME NEW m, m.events = <<>>, m.filled = size - left, m.side = From(side, i)
      PROVE  Good(m)
  <2>1. Along(M, m.events) = 0 /\ Along(K, m.events) = 0
    BY <1>8, AlongNothing
  <2>2. m.filled - taker.size + left = 0 /\ 0 * u = 0
    BY <1>1, <1>8
  <2>3. QED
    BY <1>5, <1>8, <2>1, <2>2
<1>9. \A aborted : Good(Stop(taker, left, From(side, i), <<>>, aborted))
  <2> SUFFICES ASSUME NEW aborted
               PROVE  Good(Stop(taker, left, From(side, i), <<>>, aborted))
    OBVIOUS
  <2> DEFINE m == Stop(taker, left, From(side, i), <<>>, aborted)
  <2>1. m.side = From(side, i) /\ m.events = <<>> /\ m.filled = size - left
    BY DEF Stop
  <2> HIDE DEF m, Good
  <2>2. Good(m)
    BY <1>8, <2>1
  <2>3. QED
    BY <2>2 DEF m
<1>10. CASE i > Len(side)
  <2> HIDE DEF Good
  <2>1. Good(v)
    BY <1>7, <1>9, <1>10
  <2>2. QED
    BY <1>6, <2>1 DEF Good, v
<1>11. CASE i <= Len(side)
  <2> HIDE DEF maker, rem
  <2>1. ASSUME NEW m, m.side = <<maker>> \o d[left].side, m.events = d[left].events,
               m.filled = d[left].filled
        PROVE  Good(m)
    <3>1. /\ d[left].side \in Seq(S)
          /\ Along(H, after) = Along(H, d[left].side) + Along(M, d[left].events)
          /\ Along(K, d[left].events) = (d[left].filled - taker.size + left) * u
          /\ Along(H, d[left].side) \in Int /\ Along(M, d[left].events) \in Int
      BY <1>4, <1>11
    <3>2. maker \in S
      BY <1>3, <1>11
    <3>3. Along(H, <<maker>> \o d[left].side) = H[maker] + Along(H, d[left].side)
      BY <1>1, <3>1, <3>2, AlongFront
    <3>4. H[maker] \in Int /\ Along(H, From(side, i)) = H[maker] + Along(H, after)
      BY <1>3, <1>11
    <3>5. QED
      BY <2>1, <3>1, <3>3, <3>4
  <2>2. ASSUME NEW e \in E, NEW l \in 0..taker.size, NEW n \in Int, M[e] = H[maker],
               K[e] = n * u, l + n = left, NEW m,
               m.side = d[l].side, m.events = <<e>> \o d[l].events, m.filled = d[l].filled
        PROVE  Good(m)
    <3>1. /\ d[l].events \in Seq(E) /\ d[l].filled \in Int
          /\ Along(H, after) = Along(H, d[l].side) + Along(M, d[l].events)
          /\ Along(K, d[l].events) = (d[l].filled - taker.size + l) * u
          /\ Along(H, d[l].side) \in Int /\ Along(M, d[l].events) \in Int
      BY <1>4, <1>11
    <3>2. Along(M, <<e>> \o d[l].events) = M[e] + Along(M, d[l].events)
      BY <1>1, <3>1, AlongFront, SMTT(30)
    <3>3. Along(K, <<e>> \o d[l].events) = K[e] + Along(K, d[l].events)
      BY <1>1, <3>1, AlongFront
    <3>4. H[maker] \in Int /\ Along(H, From(side, i)) = H[maker] + Along(H, after)
      BY <1>3, <1>11
    <3>5. (m.filled - taker.size + left) * u = n * u + (d[l].filled - taker.size + l) * u
      <4>1. \A x, y \in Int : (x + y) * u = x * u + y * u
        BY <1>1
      <4> DEFINE f == d[l].filled
      <4>5. f \in Int /\ m.filled = f /\ l \in Int /\ l + n = left /\ n \in Int
        BY <1>1, <2>2, <3>1
      <4> HIDE DEF f
      <4>7. \A x, y, z, t \in Int : x - y + (z + t) = t + (x - y + z)
        OBVIOUS
      <4>8. f - taker.size + (l + n) = n + (f - taker.size + l)
        BY <1>1, <4>5, <4>7
      <4>6. m.filled - taker.size + left = n + (f - taker.size + l)
        BY <4>5, <4>8
      <4>2. m.filled - taker.size + left = n + (d[l].filled - taker.size + l)
        BY <4>6 DEF f
      <4>3. d[l].filled - taker.size + l \in Int
        BY <1>1, <3>1, SMTT(30)
      <4>4. QED
        BY <4>1, <4>2, <4>3
    <3>6. Along(H, From(side, i)) = Along(H, m.side) + Along(M, m.events)
      BY <2>2, <3>1, <3>2, <3>4
    <3>7. Along(K, m.events) = (m.filled - taker.size + left) * u
      BY <2>2, <3>1, <3>3, <3>5
    <3>8. QED
      BY <3>6, <3>7
  <2>3. ASSUME NEW m, m.side = after, m.events = <<RejectMaker(maker)>>, m.filled = size - left
        PROVE  Good(m)
    <3>1. /\ RejectMaker(maker) \in E
          /\ M[RejectMaker(maker)] = H[maker] /\ K[RejectMaker(maker)] = 0
          /\ Along(H, after) \in Int /\ H[maker] \in Int
          /\ Along(H, From(side, i)) = H[maker] + Along(H, after)
      BY <1>3, <1>11
    <3>2. Along(M, m.events) = H[maker] /\ Along(K, m.events) = 0
      BY <1>1, <2>3, <3>1, AlongOne
    <3>3. m.filled - taker.size + left = 0 /\ 0 * u = 0
      BY <1>1, <2>3
    <3>4. QED
      BY <2>3, <3>1, <3>2, <3>3
  <2>4. ASSUME NEW kept, kept = [maker EXCEPT !.filled = @ + left], NEW m,
               m.side = <<kept>> \o after, m.events = <<Trade(taker, maker, left)>>,
               m.filled = taker.size
        PROVE  Good(m)
    <3> DEFINE e == Trade(taker, maker, left)
    <3>1. maker \in S /\ rem \in Nat /\ w \in Int /\ H[maker] = rem * w /\ after \in Seq(S)
          /\ Along(H, after) \in Int /\ Along(H, From(side, i)) = H[maker] + Along(H, after)
      BY <1>3, <1>11
    <3>2. e \in E /\ M[e] = left * w /\ K[e] = left * u
      BY <1>1, <1>3, <1>11
    <3> HIDE DEF e
    <3>3. kept \in S /\ Remaining(kept) = rem - left /\ kept.reserve = maker.reserve
      <4>1. maker \in S /\ maker.filled \in Int /\ maker.size \in Int
        BY <3>1 DEF S, OrdersOf
      <4> DEFINE filled == maker.filled + left
      <4>2. kept = [maker EXCEPT !.filled = filled] /\ filled \in Int
        BY <1>1, <2>4, <4>1
      <4> HIDE DEF filled
      <4>3. kept \in S /\ kept.filled = filled /\ kept.size = maker.size /\ kept.reserve = maker.reserve
        BY <4>1, <4>2 DEF S, OrdersOf
      <4>4. QED
        BY <1>1, <4>1, <4>3 DEF filled, Remaining, rem
    <3>4. H[kept] = (rem - left) * w
      <4>1. H[kept] = Remaining(kept) * Unit(opposite, kept.reserve)
        BY <3>3, HoldsTyped DEF H, S
      <4>2. QED
        BY <3>3, <4>1 DEF w
    <3>5. Along(H, m.side) = H[kept] + Along(H, after)
      <4>1. Along(H, <<kept>> \o after) = H[kept] + Along(H, after)
        BY <1>1, <3>1, <3>3, AlongFront
      <4>2. QED
        BY <2>4, <4>1
    <3>6. Along(M, m.events) = left * w
      BY <1>1, <2>4, <3>2, AlongOne DEF e
    <3>7. Along(K, m.events) = left * u
      BY <1>1, <2>4, <3>2, AlongOne DEF e
    <3>8. rem * w = (rem - left) * w + left * w /\ rem * w \in Int /\ (rem - left) * w \in Int
          /\ left * w \in Int
      BY <1>1, <3>1
    <3>9. m.filled - taker.size + left = left
      BY <1>1, <2>4
    <3>10. Along(H, From(side, i)) = Along(H, m.side) + Along(M, m.events)
      BY <3>1, <3>4, <3>5, <3>6, <3>8
    <3>11. QED
      BY <3>7, <3>9, <3>10
  <2> HIDE DEF Good
  <2>5. Good(Keep(maker, d[left]))
    <3>1. IsResult(d[left])
      BY <1>4, <1>11
    <3> DEFINE m == Keep(maker, d[left])
    <3>2. m.side = <<maker>> \o d[left].side /\ m.events = d[left].events /\ m.filled = d[left].filled
      BY <3>1 DEF Keep, IsResult
    <3> HIDE DEF m
    <3>3. Good(m)
      BY <2>1, <3>2
    <3>4. QED
      BY <3>3 DEF m
  <2>6. ASSUME NEW e \in E, NEW l \in 0..taker.size, NEW n \in Int, M[e] = H[maker],
               K[e] = n * u, l + n = left
        PROVE  Good(Emit(e, d[l]))
    <3>1. IsResult(d[l])
      BY <1>4, <1>11
    <3> DEFINE m == Emit(e, d[l])
    <3>2. m.side = d[l].side /\ m.events = <<e>> \o d[l].events /\ m.filled = d[l].filled
      BY <3>1 DEF Emit, IsResult
    <3> HIDE DEF m
    <3>3. Good(m)
      BY <2>2, <2>6, <3>2
    <3>4. QED
      BY <3>3 DEF m
  <2>7. Good(Emit(RejectMaker(maker), d[left]))
    <3>1. K[RejectMaker(maker)] = 0 * u /\ left + 0 = left /\ 0 \in Int
          /\ M[RejectMaker(maker)] = H[maker] /\ RejectMaker(maker) \in E
      BY <1>1, <1>3, <1>11
    <3>2. QED
      BY <2>6, <3>1
  <2>8. rem <= left => Good(Emit(Trade(taker, maker, rem), d[left - rem]))
    <3> SUFFICES ASSUME rem <= left
                 PROVE  Good(Emit(Trade(taker, maker, rem), d[left - rem]))
      OBVIOUS
    <3> DEFINE l == left - rem
               e == Trade(taker, maker, rem)
    <3>1. rem \in Nat /\ rem \in Int
      BY <1>3, <1>11
    <3>2. e \in E /\ M[e] = rem * w /\ K[e] = rem * u /\ H[maker] = rem * w
      BY <1>3, <1>11, <3>1
    <3>3. l \in 0..taker.size /\ l + rem = left
      BY <1>1, <3>1
    <3> HIDE DEF l, e
    <3>4. Good(Emit(e, d[l]))
      BY <2>6, <3>1, <3>2, <3>3
    <3>5. QED
      BY <3>4 DEF l, e
  <2>9. Good(Stop(taker, left, after, <<RejectMaker(maker)>>, TRUE))
    <3> DEFINE m == Stop(taker, left, after, <<RejectMaker(maker)>>, TRUE)
    <3>1. m.side = after /\ m.events = <<RejectMaker(maker)>> /\ m.filled = size - left
      BY DEF Stop
    <3> HIDE DEF m
    <3>2. Good(m)
      BY <2>3, <3>1
    <3>3. QED
      BY <3>2 DEF m
  <2>10. Good(Stop(taker, 0, <<[maker EXCEPT !.filled = @ + left]>> \o after,
                   <<Trade(taker, maker, left)>>, FALSE))
    <3> DEFINE kept == [maker EXCEPT !.filled = @ + left]
               m == Stop(taker, 0, <<kept>> \o after, <<Trade(taker, maker, left)>>, FALSE)
    <3>1. kept = [maker EXCEPT !.filled = @ + left]
      OBVIOUS
    <3>2. m.side = <<kept>> \o after /\ m.events = <<Trade(taker, maker, left)>>
          /\ m.filled = taker.size
      BY <1>1 DEF Stop
    <3> HIDE DEF m, kept
    <3>3. Good(m)
      BY <2>4, <3>1, <3>2
    <3>4. QED
      BY <3>3 DEF m, kept
  <2>11. Good(v)
    BY <1>7, <1>9, <2>5, <2>7, <2>8, <2>9, <2>10 DEF Cases, after, rem, maker
  <2>12. QED
    BY <1>6, <2>11 DEF Good, v
<1>12. QED
  BY <1>1, <1>10, <1>11

\* try_match: what was held for the side is still held or given back, and what has traded
\* of the taker is given back.
LEMMA TryMatchBalances ==
  ASSUME spec \in Specs, NEW users, NEW side, NEW taker, NEW stp,
         Setting(side, taker, stp, users, OrderIds)
  PROVE  LET m == TryMatch(side, taker, stp)
             action == taker.action
             opposite == Opposite(action)
         IN  /\ Along(Holds(opposite, users), side)
                  = Along(Holds(opposite, users), m.side)
                      + Along(Frees(action, opposite, users), m.events)
             /\ Along(Frees(action, action, users), m.events)
                  = m.filled * Unit(action, taker.reserve)
<1> DEFINE at == Visits(side, taker, stp)
           n == Len(side)
           Good(i) == \A left \in 0..taker.size :
             /\ IsResult(at[i][left])
             /\ Outcome(at[i][left], side, taker, stp, users, OrderIds, i, left)
             /\ WalkBalances(at[i][left], side, taker, users, i, left)
           T == {i \in 1..n + 1 : Good(i)}
<1>1. n \in Nat /\ taker.size \in Nat
  BY Makers
<1>2. \A i \in 1..n + 1 : \A left \in 0..taker.size :
        at[i][left] = Visit(side, taker, stp, i, left, at[i + 1])
  BY <1>1, WalkIsDefined
<1> HIDE DEF at
<1>3. ASSUME NEW i \in 1..n + 1, i <= n => Good(i + 1)
      PROVE  Good(i)
  <2>1. SUFFICES ASSUME NEW left \in 0..taker.size
                 PROVE  /\ IsResult(at[i][left])
                        /\ Outcome(at[i][left], side, taker, stp, users, OrderIds, i, left)
                        /\ WalkBalances(at[i][left], side, taker, users, i, left)
    OBVIOUS
  <2> DEFINE v == Visit(side, taker, stp, i, left, at[i + 1])
  <2>2. at[i][left] = v
    BY <1>2
  <2>3. IsResult(v) /\ Outcome(v, side, taker, stp, users, OrderIds, i, left)
    BY <1>3, VisitOutcome
  <2>4. i <= n => \A l \in 0..taker.size :
          /\ IsResult(at[i + 1][l]) /\ Typed(at[i + 1][l], users, OrderIds)
          /\ WalkBalances(at[i + 1][l], side, taker, users, i + 1, l)
    BY <1>3 DEF Outcome
  <2>5. WalkBalances(v, side, taker, users, i, left)
    BY <2>4, VisitBalances
  <2> HIDE DEF v
  <2>6. QED
    BY <2>2, <2>3, <2>5
<1> HIDE DEF Good
<1>4. n + 1 \in T
  <2>1. n + 1 \in 1..n + 1 /\ ~(n + 1 <= n)
    BY <1>1
  <2>2. QED
    BY <1>3, <2>1
<1>5. \A i \in 1..n : i + 1 \in T => i \in T
  <2> SUFFICES ASSUME NEW i \in 1..n, i + 1 \in T
               PROVE  i \in T
    OBVIOUS
  <2>1. i \in 1..n + 1 /\ Good(i + 1)
    BY <1>1
  <2>2. QED
    BY <1>3, <2>1
<1>6. 1 \in T
  <2> HIDE DEF T, n
  <2>1. 1 \in 1..n + 1
    BY <1>1
  <2>2. QED
    BY <1>1, <1>4, <1>5, <2>1, WalkInduction
<1>7. taker.size \in 0..taker.size /\ TryMatch(side, taker, stp) = at[1][taker.size]
  BY <1>1 DEF TryMatch, at
<1> DEFINE m == TryMatch(side, taker, stp)
           action == taker.action
           opposite == Opposite(action)
           H == Holds(opposite, users)
<1>8. WalkBalances(m, side, taker, users, 1, taker.size) /\ m.filled \in Int
  <2>1. Good(1)
    BY <1>6
  <2>2. QED
    BY <1>7, <2>1 DEF Good, Outcome, Typed
<1>9. Along(H, From(side, 1)) = Along(H, side)
  <2>1. side \in Seq(OrdersOf(users, OrderIds)) /\ H \in [OrdersOf(users, OrderIds) -> Int]
    BY Makers, HoldsTyped
  <2> HIDE DEF H
  <2>2. QED
    BY <2>1, AlongRest
<1>10. m.filled - taker.size + taker.size = m.filled
  BY <1>1, <1>8
<1> HIDE DEF m
<1>11. QED
  BY <1>8, <1>9, <1>10 DEF WalkBalances, m

-----------------------------------------------------------------------------
(* Prices of orders and amounts of events. *)

PricedOrder(o) == o.price \in Prices /\ o.price > 0 /\ o.reserve \in Nat
Priced(side) == \A i \in 1..Len(side) : PricedOrder(side[i])

SoundEvent(e) ==
  /\ e.size \in Nat /\ e.hold \in Nat
  /\ e.type = "Trade" => e.price \in Prices /\ e.price > 0

Sound(events) == \A n \in 1..Len(events) : SoundEvent(events[n])

\* A walk along orders with sound prices emits events with sound amounts.
LEMMA TryMatchSound ==
  ASSUME NEW users, NEW side, NEW taker, NEW stp, Setting(side, taker, stp, users, OrderIds),
         Priced(side), taker.reserve \in Nat
  PROVE  LET m == TryMatch(side, taker, stp)
         IN  Priced(m.side) /\ Sound(m.events)
<1> DEFINE m == TryMatch(side, taker, stp)
<1>1. Outcome(m, side, taker, stp, users, OrderIds, 1, taker.size)
  BY TryMatchOutcome
<1> HIDE DEF m
<1>2. Priced(m.side)
  <2> SUFFICES ASSUME NEW a \in 1..Len(m.side)
               PROVE  PricedOrder(m.side[a])
    BY DEF Priced
  <2>1. PICK j \in 1..Len(side) : LeftOf(m.side[a], side[j])
    BY <1>1 DEF Outcome, Remains
  <2>2. PricedOrder(side[j])
    BY DEF Priced
  <2>3. QED
    BY <2>1, <2>2 DEF LeftOf, PricedOrder
<1>3. Sound(m.events)
  <2> SUFFICES ASSUME NEW n \in 1..Len(m.events)
               PROVE  SoundEvent(m.events[n])
    BY DEF Sound
  <2> DEFINE e == m.events[n]
             Traded(j) == \E size \in 1..Remaining(side[j]) : e = Trade(taker, side[j], size)
  <2>1. PICK j \in 1..Len(side) : Traded(j) \/ e = RejectMaker(side[j])
    BY <1>1 DEF Outcome, Explained
  <2> HIDE DEF e
  <2>2. PricedOrder(side[j]) /\ Remaining(side[j]) \in Nat
    BY Makers DEF Priced
  <2>3. ASSUME e = RejectMaker(side[j])
        PROVE  SoundEvent(e)
    BY <2>2, <2>3 DEF RejectMaker, SoundEvent, PricedOrder
  <2>4. ASSUME Traded(j)
        PROVE  SoundEvent(e)
    <3>1. PICK size \in 1..Remaining(side[j]) : e = Trade(taker, side[j], size)
      BY <2>4
    <3>2. size \in Nat
      BY <2>2
    <3>3. e.size = size /\ e.price = side[j].price
          /\ e.hold = IF taker.action = "Bid" THEN taker.reserve ELSE side[j].reserve
      BY <3>1 DEF Trade
    <3>4. e.size \in Nat
      BY <3>2, <3>3
    <3>5. e.hold \in Nat
      BY <2>2, <3>3 DEF PricedOrder
    <3>6. e.price \in Prices /\ e.price > 0
      BY <2>2, <3>3 DEF PricedOrder
    <3>7. QED
      BY <3>4, <3>5, <3>6 DEF SoundEvent
  <2> HIDE DEF Traded
  <2>5. SoundEvent(e)
    BY <2>1, <2>3, <2>4
  <2>6. QED
    BY <2>5 DEF e
<1>4. QED
  BY <1>2, <1>3 DEF m

\* A rejection alone.
LEMMA OnlyRejected ==
  ASSUME spec \in Specs, NEW users, NEW action \in Actions, NEW size \in Nat, NEW hold \in Nat
  PROVE  LET events == <<Reject(size, hold)>>
         IN  /\ events \in Seq(EventsOf(users, OrderIds)) /\ Sound(events)
             /\ \A side \in Actions :
                  Along(Frees(action, side, users), events)
                    = IF side = action THEN size * Unit(action, hold) ELSE 0
             /\ size * Unit(action, hold) \in Nat
<1> DEFINE E == EventsOf(users, OrderIds)
           e == Reject(size, hold)
           K == Frees(action, action, users)
           M == Frees(action, Opposite(action), users)
           back == size * Unit(action, hold)
<1>1. size \in Int /\ hold \in Int
  OBVIOUS
<1>2. e \in E /\ K[e] = back /\ M[e] = 0
  BY <1>1, RejectFrees
<1>3. K \in [E -> Int] /\ M \in [E -> Int]
  BY FreesTyped
<1>4. back \in Nat
  <2>1. Unit(action, hold) \in Nat
    BY <1>1, UnitTyped
  <2>2. \A i, j \in Nat : i * j \in Nat
    OBVIOUS
  <2>3. QED
    BY <2>1, <2>2
<1>5. Sound(<<e>>)
  <2>1. SoundEvent(e)
    BY DEF SoundEvent, Reject
  <2> HIDE DEF e
  <2>2. Len(<<e>>) = 1 /\ <<e>>[1] = e
    OBVIOUS
  <2>3. QED
    BY <2>1, <2>2 DEF Sound
<1>6. Opposite(action) # action /\ \A x \in Actions : x = action \/ x = Opposite(action)
  BY DEF Actions, Opposite
<1> HIDE DEF E, e, K, M, back
<1>7. Along(K, <<e>>) = back /\ Along(M, <<e>>) = 0
  BY <1>2, <1>3, AlongOne
<1>8. <<e>> \in Seq(E)
  BY <1>2
<1>9. QED
  BY <1>4, <1>5, <1>6, <1>7, <1>8 DEF E, e, K, M, back

\* What a rejection behind the events of a walk adds to them.
LEMMA RestFrees ==
  ASSUME spec \in Specs, NEW users, NEW action \in Actions,
         NEW events \in Seq(EventsOf(users, OrderIds)), Sound(events),
         NEW size \in Nat, NEW hold \in Nat
  PROVE  LET K == Frees(action, action, users)
             M == Frees(action, Opposite(action), users)
             all == events \o <<Reject(size, hold)>>
         IN  /\ all \in Seq(EventsOf(users, OrderIds)) /\ Sound(all)
             /\ Along(K, all) = Along(K, events) + size * Unit(action, hold)
             /\ Along(M, all) = Along(M, events)
             /\ size * Unit(action, hold) \in Nat
<1> DEFINE K == Frees(action, action, users)
           M == Frees(action, Opposite(action), users)
           e == Reject(size, hold)
           E == EventsOf(users, OrderIds)
           all == events \o <<e>>
<1>1. size \in Int /\ hold \in Int
  OBVIOUS
<1>2. e \in E /\ K[e] = size * Unit(action, hold) /\ M[e] = 0
  BY <1>1, RejectFrees
<1>3. SoundEvent(e)
  BY DEF Reject, SoundEvent
<1>4. K \in [E -> Int] /\ M \in [E -> Int]
  BY FreesTyped
<1>5. size * Unit(action, hold) \in Nat
  <2>1. Unit(action, hold) \in Nat
    BY <1>1, UnitTyped
  <2>2. \A i, j \in Nat : i * j \in Nat
    OBVIOUS
  <2>3. QED
    BY <2>1, <2>2
<1> HIDE DEF K, M, e, E
<1>6. events \in Seq(E)
  BY DEF E
<1>7. Along(K, all) = Along(K, events) + K[e] /\ Along(M, all) = Along(M, events) + M[e]
  BY <1>2, <1>4, <1>6, AlongBack
<1>8. Along(M, events) \in Int
  BY <1>4, <1>6, AlongIsNumber
<1>9. all \in Seq(E) /\ Sound(all)
  <2>1. <<e>> \in Seq(E) /\ Len(<<e>>) = 1 /\ <<e>>[1] = e
    BY <1>2
  <2>2. Len(events) \in Nat
    BY <1>6, LenProperties
  <2> DEFINE one == <<e>>
  <2>7. one \in Seq(E) /\ Len(one) = 1 /\ Len(events) \in Int /\ 1 \in Int
    BY <2>1, <2>2
  <2> HIDE DEF one
  <2>8. Concatenates(events \o one, E, events, Len(events), one, 1)
    BY <1>6, <2>7, Concatenated
  <2>3. Concatenates(all, E, events, Len(events), <<e>>, 1)
    BY <2>8 DEF one
  <2> HIDE DEF all
  <2>4. all \in Seq(E) /\ Len(all) = Len(events) + 1
    BY <2>3 DEF Concatenates
  <2>5. ASSUME NEW n \in 1..Len(all)
        PROVE  SoundEvent(all[n])
    <3>1. CASE n <= Len(events)
      <4>1. all[n] = events[n] /\ n \in 1..Len(events)
        BY <2>2, <2>3, <2>4, <3>1 DEF Concatenates
      <4>2. QED
        BY <4>1 DEF Sound
    <3>2. CASE ~(n <= Len(events))
      <4>1. n - Len(events) = 1 /\ n \in 1..(Len(events) + 1)
        BY <2>2, <2>4, <3>2
      <4>2. all[n] = e
        BY <2>1, <2>3, <3>2, <4>1 DEF Concatenates
      <4>3. QED
        BY <1>3, <4>2
    <3>3. QED
      BY <3>1, <3>2
  <2>6. QED
    BY <2>4, <2>5 DEF Sound
<1>10. QED
  BY <1>2, <1>5, <1>7, <1>8, <1>9 DEF K, M, e, E

-----------------------------------------------------------------------------
(* Operations *)

\* Only a fill-or-kill order for a budget may end with less given back than was held.
Exact == "FokBudget" \notin Types

Covers(before, after) == after <= before /\ (Exact => after = before)

\* r is what a command comes to on the book `old`, `given` having been held for it: what
\* was held is held for the new book or given back.
Keeps(r, old, users, given) ==
  /\ Sound(r.events)
  /\ \A side \in Actions :
       /\ Priced(r.book[side])
       /\ Covers(Along(Holds(side, users), old[side])
                   + (IF side = r.action THEN given ELSE 0),
                 Along(Holds(side, users), r.book[side])
                   + Along(Frees(r.action, side, users), r.events))

PricedBook(b) == \A side \in Actions : Priced(b[side])

\* What the taker's own side and the events have to come to.
OwnBalances(own, old, action, users, given, back) ==
  Covers(Along(Holds(action, users), old[action]) + given,
         Along(Holds(action, users), own) + back)

LEMMA MatchedKeeps ==
  ASSUME spec \in Specs, NEW users, NEW old, PricedBook(old),
         NEW taker, Taking(taker, old, spec, users, OrderIds), taker.reserve \in Nat,
         NEW m, m = TryMatch(old[Opposite(taker.action)], taker, spec.stp),
         NEW own \in Seq(OrdersOf(users, OrderIds)), Priced(own), NEW given \in Int,
         NEW back \in Int, OwnBalances(own, old, taker.action, users, given, back),
         NEW r, r.book = Matched(taker, m, own), r.action = taker.action,
         \/ r.events = m.events /\ back = m.filled * Unit(taker.action, taker.reserve)
         \/ /\ r.events = m.events \o <<Reject(taker.size - m.filled, taker.reserve)>>
            /\ back = taker.size * Unit(taker.action, taker.reserve)
  PROVE  Keeps(r, old, users, given)
<1> DEFINE action == taker.action
           opposite == Opposite(action)
           side == old[opposite]
           left == taker.size - m.filled
           u == Unit(action, taker.reserve)
           S == OrdersOf(users, OrderIds)
           E == EventsOf(users, OrderIds)
           H == Holds(action, users)
           G == Holds(opposite, users)
           K == Frees(action, action, users)
           M == Frees(action, opposite, users)
<1>1. /\ Setting(side, taker, spec.stp, users, OrderIds)
      /\ action \in Actions /\ Typed(m, users, OrderIds) /\ m.filled \in 0..taker.size
      /\ taker.size \in Nat
  BY TakerMatches DEF Taking
<1>2. opposite \in Actions /\ opposite # action /\ \A x \in Actions : x = action \/ x = opposite
  BY <1>1 DEF Opposite, Actions
<1>3. Priced(side)
  BY <1>2 DEF PricedBook
<1>4. Priced(m.side) /\ Sound(m.events)
  BY <1>1, <1>3, TryMatchSound
<1>5. /\ Along(G, side) = Along(G, m.side) + Along(M, m.events)
      /\ Along(K, m.events) = m.filled * u
  BY <1>1, TryMatchBalances, SMTT(30)
<1>6. r.book[action] = own /\ r.book[opposite] = m.side
  BY <1>1, <1>2 DEF Matched
<1>7. /\ m.side \in Seq(S) /\ m.events \in Seq(E) /\ left \in Nat /\ u \in Int /\ m.filled \in Nat
      /\ m.filled + left = taker.size
  BY <1>1, UnitTyped, SMTT(30) DEF Typed
<1>8. H \in [S -> Int] /\ G \in [S -> Int] /\ K \in [E -> Int] /\ M \in [E -> Int]
  BY HoldsTyped, FreesTyped
<1>9. /\ Sound(r.events) /\ r.events \in Seq(E)
      /\ Along(K, r.events) = back /\ Along(M, r.events) = Along(M, m.events)
  <2>1. CASE r.events = m.events /\ back = m.filled * u
    BY <1>4, <1>5, <1>7, <2>1
  <2>2. CASE r.events = m.events \o <<Reject(left, taker.reserve)>> /\ back = taker.size * u
    <3> DEFINE all == m.events \o <<Reject(left, taker.reserve)>>
    <3>1. /\ all \in Seq(E) /\ Sound(all)
          /\ Along(K, all) = Along(K, m.events) + left * u
          /\ Along(M, all) = Along(M, m.events)
      <4>1. m.events \in Seq(E) /\ left \in Nat /\ action \in Actions
        BY <1>1, <1>7
      <4> HIDE DEF left, action
      <4>2. QED
        BY <1>4, <4>1, RestFrees, SMTT(30)
    <3>2. taker.size * u = m.filled * u + left * u
      <4>1. \A i, j \in Int : (i + j) * u = i * u + j * u
        BY <1>7, SMTT(30)
      <4>2. left \in Int /\ m.filled \in Int
        BY <1>7, SMTT(30)
      <4> HIDE DEF left, u
      <4>3. QED
        BY <1>7, <4>1, <4>2, SMTT(30)
    <3>3. r.events = all
      BY <2>2
    <3> HIDE DEF all, K, M, u, left, E
    <3>4. QED
      BY <1>5, <2>2, <3>1, <3>2, <3>3
  <2>3. QED
    BY <2>1, <2>2
<1> HIDE DEF S, E, H, G, K, M, opposite, side
<1>10. /\ Along(G, m.side) \in Int /\ Along(M, m.events) \in Int
  BY <1>7, <1>8, AlongIsNumber
<1>11. Covers(Along(H, old[action]) + given, Along(H, own) + Along(K, r.events))
  BY <1>9 DEF OwnBalances, H
<1>12. Covers(Along(G, side) + 0, Along(G, m.side) + Along(M, r.events))
  <2>1. Along(G, side) + 0 = Along(G, m.side) + Along(M, r.events)
        /\ Along(G, side) + 0 \in Int
    BY <1>5, <1>9, <1>10, SMTT(30)
  <2>2. QED
    BY <2>1, SMTT(30) DEF Covers
<1>13. ASSUME NEW x \in Actions
       PROVE  /\ Priced(r.book[x])
              /\ Covers(Along(Holds(x, users), old[x]) + (IF x = r.action THEN given ELSE 0),
                        Along(Holds(x, users), r.book[x])
                          + Along(Frees(r.action, x, users), r.events))
  <2>1. CASE x = action
    BY <1>6, <1>11, <2>1 DEF H, K
  <2>2. CASE x = opposite
    BY <1>2, <1>4, <1>6, <1>12, <2>2 DEF G, M, side
  <2>3. QED
    BY <1>2, <2>1, <2>2
<1>14. QED
  BY <1>9, <1>13 DEF Keeps

\* insert_order: what is held for the newcomer is held besides.
LEMMA InsertHolds ==
  ASSUME NEW users, NEW side, NEW o \in OrdersOf(users, OrderIds),
         o.action \in Actions, 0 <= o.filled, o.filled < o.size,
         SideOK(side, o.action, users, OrderIds), Absent(o.id, side),
         Priced(side), PricedOrder(o), NEW v \in [OrdersOf(users, OrderIds) -> Int]
  PROVE  LET t == Insert(side, o)
         IN  /\ t \in Seq(OrdersOf(users, OrderIds)) /\ Priced(t)
             /\ Along(v, t) = Along(v, side) + v[o]
<1> DEFINE S == OrdersOf(users, OrderIds)
           ahead == {i \in 1..Len(side) : ~Ahead(o.action, o.price, side[i].price)}
           c == Cardinality(ahead)
           t == Insert(side, o)
<1>1. side \in Seq(S) /\ o.price \in Int
  BY DEF SideOK, OrdersOf
<1>2. c \in 0..Len(side)
  BY <1>1, PlaceInSide
<1>3. t = InsertAt(side, c + 1, o)
  BY DEF Insert
<1>4. Joined(t, side, o, users, OrderIds)
  BY InsertOutcome
<1> HIDE DEF c, S, t
<1>5. o \in S /\ v \in [S -> Int]
  BY DEF S
<1>6. Inserted(t, S, side, c, o)
  BY <1>1, <1>2, <1>3, <1>5, InsertAtIs
<1>7. Along(v, t) = Along(v, side) + v[o] /\ t \in Seq(S)
  <2>1. Along(v, t) = Along(v, side) + v[o]
    BY <1>1, <1>2, <1>5, <1>6, AlongInserted
  <2>2. t \in Seq(S)
    BY <1>6 DEF Inserted
  <2>3. QED
    BY <2>1, <2>2
<1>8. Priced(t)
  BY <1>4 DEF Joined, Priced
<1>9. QED
  BY <1>7, <1>8 DEF t, S

\* What is left of an order rests, if anything is.
LEMMA RestingHolds ==
  ASSUME spec \in Specs, NEW users, NEW action \in Actions, NEW own,
         SideOK(own, action, users, OrderIds), Priced(own),
         NEW o \in OrdersOf(users, OrderIds), o.action = action, o.filled \in Nat,
         PricedOrder(o), Absent(o.id, own), NEW left \in Nat, left = Remaining(o),
         NEW after, after = IF left > 0 THEN Insert(own, o) ELSE own
  PROVE  LET H == Holds(action, users)
         IN  /\ after \in Seq(OrdersOf(users, OrderIds)) /\ Priced(after)
             /\ Along(H, after) = Along(H, own) + left * Unit(action, o.reserve)
<1> DEFINE S == OrdersOf(users, OrderIds)
           H == Holds(action, users)
           u == Unit(action, o.reserve)
<1>1. H \in [S -> Int] /\ H[o] = left * u /\ u \in Int
  BY HoldsTyped
<1>2. own \in Seq(S)
  BY DEF SideOK
<1> HIDE DEF H
<1>3. CASE left > 0
  <2>1. 0 <= o.filled /\ o.filled < o.size
    <3>1. o.filled \in Int /\ o.size \in Int
      BY DEF OrdersOf
    <3>2. QED
      BY <1>3, <3>1 DEF Remaining
  <2>2. /\ Insert(own, o) \in Seq(S) /\ Priced(Insert(own, o))
        /\ Along(H, Insert(own, o)) = Along(H, own) + H[o]
    BY <1>1, <2>1, InsertHolds
  <2>3. QED
    BY <1>1, <1>3, <2>2 DEF H
<1>4. CASE ~(left > 0)
  <2> HIDE DEF S
  <2>1. Along(H, own) \in Int
    BY <1>1, <1>2, AlongIsNumber
  <2>2. left = 0
    BY <1>4
  <2> HIDE DEF u
  <2>3. left * u = 0
    BY <1>1, <2>2
  <2>4. QED
    BY <1>2, <1>4, <2>1, <2>3 DEF H, S, u
<1>5. QED
  BY <1>3, <1>4

\* An order that R1 has let pass, and what was held for it.
Passed(taker, old, users) ==
  /\ Taking(taker, old, spec, users, OrderIds) /\ Absent(taker.id, old[taker.action])
  /\ PricedBook(old) /\ PricedOrder(taker) /\ taker.filled = 0

HeldAtFirst(taker) == taker.size * Unit(taker.action, taker.reserve)

LEMMA PassedIs ==
  ASSUME spec \in Specs, NEW users, NEW old, NEW taker, Passed(taker, old, users)
  PROVE  LET m == TryMatch(old[Opposite(taker.action)], taker, spec.stp)
             own == old[taker.action]
             u == Unit(taker.action, taker.reserve)
         IN  /\ PricedBook(old) /\ Taking(taker, old, spec, users, OrderIds)
             /\ taker.action \in Actions /\ taker.reserve \in Nat /\ taker.size \in Nat
             /\ taker \in OrdersOf(users, OrderIds)
             /\ m.events \in Seq(EventsOf(users, OrderIds))
             /\ m.filled \in 0..taker.size /\ u \in Nat
             /\ SideOK(own, taker.action, users, OrderIds)
             /\ own \in Seq(OrdersOf(users, OrderIds)) /\ Priced(own)
             /\ Along(Holds(taker.action, users), own) \in Int
             /\ HeldAtFirst(taker) \in Nat /\ m.filled * u \in Nat
             /\ m.filled * u <= HeldAtFirst(taker)
<1> DEFINE m == TryMatch(old[Opposite(taker.action)], taker, spec.stp)
           own == old[taker.action]
           u == Unit(taker.action, taker.reserve)
           H == Holds(taker.action, users)
<1>1. /\ PricedBook(old) /\ Taking(taker, old, spec, users, OrderIds)
      /\ taker.reserve \in Nat /\ taker.size \in Nat /\ taker \in OrdersOf(users, OrderIds)
      /\ BookOK(old, users, OrderIds)
  BY DEF Passed, PricedOrder, Taking
<1>2. /\ taker.action \in Actions /\ m.filled \in 0..taker.size
      /\ m.events \in Seq(EventsOf(users, OrderIds))
  BY <1>1, TakerMatches DEF Typed
<1>3. u \in Nat
  BY <1>1, UnitTyped
<1>4. /\ SideOK(own, taker.action, users, OrderIds)
      /\ own \in Seq(OrdersOf(users, OrderIds)) /\ Priced(own)
  BY <1>1, <1>2 DEF BookOK, SideOK, PricedBook
<1>5. Along(H, own) \in Int
  <2>1. H \in [OrdersOf(users, OrderIds) -> Int]
    BY HoldsTyped
  <2> HIDE DEF H, own
  <2>2. QED
    BY <1>4, <2>1, AlongIsNumber
<1> HIDE DEF u, m
<1>6. /\ taker.size * u \in Nat /\ m.filled * u \in Nat /\ m.filled * u <= taker.size * u
  <2>1. \A i, j \in Nat : i * j \in Nat
    OBVIOUS
  <2>2. \A i, j \in Nat : i <= j => i * u <= j * u
    <3> SUFFICES ASSUME NEW i \in Nat, NEW j \in Nat, i <= j
                 PROVE  i * u <= j * u
      OBVIOUS
    <3>1. PICK k \in Nat : j = i + k
      <4>1. j - i \in Nat /\ j = i + (j - i)
        OBVIOUS
      <4>2. QED
        BY <4>1
    <3>2. (i + k) * u = i * u + k * u
      BY <1>3
    <3>3. k * u \in Nat /\ i * u \in Nat
      BY <1>3, <2>1
    <3>4. QED
      BY <3>1, <3>2, <3>3
  <2>3. m.filled \in Nat /\ m.filled <= taker.size
    BY <1>1, <1>2
  <2>4. QED
    BY <1>1, <1>3, <2>1, <2>2, <2>3
<1>7. HeldAtFirst(taker) = taker.size * u
  BY DEF HeldAtFirst, u
<1>8. QED
  BY <1>1, <1>2, <1>3, <1>4, <1>5, <1>6, <1>7 DEF u, m

\* place_ioc, and every other walk after which the taker does not rest: the part that
\* has not traded is rejected.
LEMMA RejectedKeeps ==
  ASSUME spec \in Specs, NEW users, NEW old, NEW taker, Passed(taker, old, users),
         NEW m, m = TryMatch(old[Opposite(taker.action)], taker, spec.stp),
         NEW left, left = taker.size - m.filled,
         NEW r, r.book = Matched(taker, m, old[taker.action]), r.action = taker.action,
         r.events = m.events \o IF left > 0 THEN <<Reject(left, taker.reserve)>> ELSE <<>>
  PROVE  Keeps(r, old, users, HeldAtFirst(taker))
<1> DEFINE own == old[taker.action]
           given == HeldAtFirst(taker)
           u == Unit(taker.action, taker.reserve)
<1>1. /\ PricedBook(old) /\ Taking(taker, old, spec, users, OrderIds)
      /\ taker.reserve \in Nat /\ taker.size \in Nat
      /\ m.events \in Seq(EventsOf(users, OrderIds))
      /\ m.filled \in 0..taker.size /\ u \in Nat
      /\ own \in Seq(OrdersOf(users, OrderIds)) /\ Priced(own)
      /\ Along(Holds(taker.action, users), own) \in Int /\ given \in Nat
  BY PassedIs
<1>2. given \in Int /\ OwnBalances(own, old, taker.action, users, given, given)
  <2> DEFINE held == Along(Holds(taker.action, users), own)
  <2>1. held + given \in Int
    BY <1>1, SMTT(30)
  <2>2. Covers(held + given, held + given)
    BY <2>1 DEF Covers
  <2>3. QED
    BY <1>1, <2>2, SMTT(30) DEF OwnBalances
<1>3. given = taker.size * u
  BY DEF HeldAtFirst
<1>4. CASE left > 0
  <2>1. r.events = m.events \o <<Reject(taker.size - m.filled, taker.reserve)>>
    BY <1>4
  <2> HIDE DEF own, given
  <2>2. QED
    BY <1>1, <1>2, <1>3, <2>1, MatchedKeeps DEF own, given
<1>5. CASE ~(left > 0)
  <2>1. m.filled = taker.size
    BY <1>1, <1>5
  <2>2. r.events = m.events
    BY <1>1, <1>5, ConcatEmptySeq
  <2>3. given = m.filled * u
    BY <1>3, <2>1
  <2> HIDE DEF own, given
  <2>4. QED
    BY <1>1, <1>2, <2>2, <2>3, MatchedKeeps DEF own, given
<1>6. QED
  BY <1>4, <1>5

\* place_gtc
LEMMA PlaceGtcKeeps ==
  ASSUME spec \in Specs, NEW users, NEW old, NEW taker, Passed(taker, old, users)
  PROVE  Keeps(PlaceGtc(old, taker, spec), old, users, HeldAtFirst(taker))
<1> DEFINE m == TryMatch(old[Opposite(taker.action)], taker, spec.stp)
           left == taker.size - m.filled
           own == old[taker.action]
           resting == [taker EXCEPT !.filled = m.filled]
           rest == IF left > 0 THEN <<Reject(left, taker.reserve)>> ELSE <<>>
           out == Done(Matched(taker, m, own), m.events \o rest, taker.action)
           after == IF left > 0 THEN Insert(own, resting) ELSE own
           in == Done(Matched(taker, m, after), m.events, taker.action)
           u == Unit(taker.action, taker.reserve)
           H == Holds(taker.action, users)
           S == OrdersOf(users, OrderIds)
           given == HeldAtFirst(taker)
<1>1. PlaceGtc(old, taker, spec) = IF m.aborted THEN out ELSE in
  BY DEF PlaceGtc
<1>2. /\ PricedBook(old) /\ Taking(taker, old, spec, users, OrderIds)
      /\ taker.action \in Actions /\ taker.reserve \in Nat /\ taker.size \in Nat
      /\ taker \in S /\ m.filled \in 0..taker.size /\ u \in Nat
      /\ SideOK(own, taker.action, users, OrderIds) /\ own \in Seq(S) /\ Priced(own)
      /\ Along(H, own) \in Int /\ given \in Nat /\ m.filled * u \in Nat
  BY PassedIs
<1>3. Absent(taker.id, own) /\ PricedOrder(taker) /\ given = taker.size * u
  BY DEF Passed, HeldAtFirst
<1>4. H \in [S -> Int] /\ \A o \in S : H[o] = Remaining(o) * Unit(taker.action, o.reserve)
  BY HoldsTyped
<1>5. CASE m.aborted
  <2>1. /\ out.book = Matched(taker, m, own) /\ out.action = taker.action
        /\ out.events = m.events \o IF left > 0 THEN <<Reject(left, taker.reserve)>> ELSE <<>>
    BY DEF Done
  <2> HIDE DEF out
  <2>2. Keeps(out, old, users, given)
    BY <2>1, RejectedKeeps
  <2>3. QED
    BY <1>1, <1>5, <2>2
<1>6. CASE ~m.aborted
  <2>1. in.book = Matched(taker, m, after) /\ in.action = taker.action /\ in.events = m.events
    BY DEF Done
  <2>2. m = TryMatch(old[Opposite(taker.action)], taker, spec.stp)
    OBVIOUS
  <2> HIDE DEF in, m
  <2>3. after \in Seq(S) /\ Priced(after) /\ Along(H, after) = Along(H, own) + left * u
    <3>1. /\ resting.id = taker.id /\ resting.price = taker.price
          /\ resting.reserve = taker.reserve /\ resting.action = taker.action
          /\ resting.size = taker.size /\ resting.filled = m.filled /\ resting \in S
      <4> DEFINE filled == m.filled
      <4>1. taker \in S /\ filled \in Int /\ resting = [taker EXCEPT !.filled = filled]
        BY <1>2
      <4> HIDE DEF filled, resting
      <4>2. QED
        BY <4>1 DEF OrdersOf, S, filled
    <3>2. after = IF left > 0 THEN Insert(own, resting) ELSE own
      OBVIOUS
    <3> HIDE DEF resting, own, after
    <3>3. /\ Absent(resting.id, own) /\ PricedOrder(resting) /\ resting.filled \in Nat
          /\ left \in Nat /\ left = Remaining(resting)
      BY <1>2, <1>3, <3>1 DEF PricedOrder, Remaining
    <3> HIDE DEF left
    <3>4. QED
      BY <1>2, <3>1, <3>2, <3>3, RestingHolds, SMTT(30)
  <2> DEFINE back == m.filled * u
  <2>4. OwnBalances(after, old, taker.action, users, given, back)
    <3>1. given = left * u + back /\ left * u \in Int
      <4>1. \A i, j \in Int : (i + j) * u = i * u + j * u
        BY <1>2
      <4>2. left \in Int /\ m.filled \in Int /\ taker.size = left + m.filled
        BY <1>2
      <4> HIDE DEF left, u, given
      <4>3. u \in Int
        BY <1>2
      <4>4. QED
        BY <1>3, <4>1, <4>2, <4>3, Product
    <3>2. Along(H, own) + given = Along(H, after) + back /\ Along(H, own) + given \in Int
      <4> HIDE DEF after, own, H, u, left, given
      <4>1. QED
        BY <1>2, <2>3, <3>1
    <3> HIDE DEF given, back, after
    <3>3. QED
      BY <3>2 DEF OwnBalances, Covers
  <2> HIDE DEF after, given
  <2>5. given \in Int /\ back \in Int
    BY <1>2
  <2>6. Keeps(in, old, users, given)
    BY <1>2, <2>1, <2>2, <2>3, <2>4, <2>5, MatchedKeeps
  <2>7. QED
    BY <1>1, <1>6, <2>6 DEF given
<1>7. QED
  BY <1>5, <1>6

\* One side changes, and a rejection is all that happens.
LEMMA SideKeeps ==
  ASSUME spec \in Specs, NEW users, NEW old, BookOK(old, users, OrderIds), PricedBook(old),
         NEW action \in Actions, NEW t \in Seq(OrdersOf(users, OrderIds)), Priced(t),
         NEW size \in Nat, NEW hold \in Nat, NEW given \in Nat, NEW r,
         r.book[action] = t, \A x \in Actions : x # action => r.book[x] = old[x],
         r.events = <<Reject(size, hold)>>, r.action = action,
         Along(Holds(action, users), old[action]) + given
           = Along(Holds(action, users), t) + size * Unit(action, hold)
  PROVE  Keeps(r, old, users, given)
<1> DEFINE events == <<Reject(size, hold)>>
           back == size * Unit(action, hold)
<1>1. /\ Sound(events) /\ back \in Nat
      /\ \A x \in Actions :
           Along(Frees(action, x, users), events) = IF x = action THEN back ELSE 0
  <2>1. size \in Nat /\ hold \in Nat /\ action \in Actions /\ spec \in Specs
    OBVIOUS
  <2>2. /\ Sound(<<Reject(size, hold)>>) /\ size * Unit(action, hold) \in Nat
        /\ \A x \in Actions :
             Along(Frees(action, x, users), <<Reject(size, hold)>>)
               = IF x = action THEN size * Unit(action, hold) ELSE 0
    BY ONLY <2>1, OnlyRejected, ZenonT(60)
  <2>3. QED
    BY <2>2
<1> HIDE DEF back, events
<1>2. r.events = events
  BY DEF events
<1>3. \A x \in Actions : Along(Holds(x, users), old[x]) \in Int
  <2> SUFFICES ASSUME NEW x \in Actions
               PROVE  Along(Holds(x, users), old[x]) \in Int
    OBVIOUS
  <2> DEFINE S == OrdersOf(users, OrderIds)
  <2>1. old[x] \in Seq(S) /\ Holds(x, users) \in [S -> Int]
    BY HoldsTyped DEF BookOK, SideOK
  <2> HIDE DEF S
  <2>2. QED
    BY <2>1, AlongIsNumber
<1>4. ASSUME NEW x \in Actions
      PROVE  /\ Priced(r.book[x])
             /\ Covers(Along(Holds(x, users), old[x]) + (IF x = action THEN given ELSE 0),
                       Along(Holds(x, users), r.book[x]) + Along(Frees(action, x, users), events))
  <2>1. CASE x = action
    <3>1. Along(Holds(action, users), old[action]) + given
            = Along(Holds(action, users), t) + back
      BY DEF back
    <3>2. Along(Holds(action, users), old[action]) + given \in Int
      BY <1>3
    <3>3. Along(Frees(action, action, users), events) = back
      BY <1>1
    <3>4. QED
      BY <2>1, <3>1, <3>2, <3>3 DEF Covers
  <2>2. CASE x # action
    <3>1. r.book[x] = old[x] /\ Along(Frees(action, x, users), events) = 0
      BY <1>1, <2>2
    <3>2. Along(Holds(x, users), old[x]) + 0 \in Int
      BY <1>3
    <3>3. QED
      BY <2>2, <3>1, <3>2 DEF Covers, PricedBook
  <2>3. QED
    BY <2>1, <2>2
<1>5. QED
  BY <1>1, <1>2, <1>4 DEF Keeps

\* An order that is rejected as a whole.
LEMMA WhollyRejected ==
  ASSUME spec \in Specs, NEW users, NEW old, BookOK(old, users, OrderIds), PricedBook(old),
         NEW taker, taker.action \in Actions, taker.size \in Nat, taker.reserve \in Nat,
         NEW r, r.book = old, r.events = <<Reject(taker.size, taker.reserve)>>,
         r.action = taker.action
  PROVE  Keeps(r, old, users, HeldAtFirst(taker))
<1> DEFINE size == taker.size
           hold == taker.reserve
           action == taker.action
           given == HeldAtFirst(taker)
<1>1. /\ size \in Nat /\ hold \in Nat /\ action \in Actions /\ r.action = action
      /\ r.events = <<Reject(size, hold)>>
  OBVIOUS
<1>2. given = size * Unit(action, hold)
  BY DEF HeldAtFirst
<1>3. old[action] \in Seq(OrdersOf(users, OrderIds)) /\ Priced(old[action])
  BY DEF BookOK, SideOK, PricedBook
<1> HIDE DEF size, hold, action, given
<1>4. given \in Nat
  <2>1. size * Unit(action, hold) \in Nat
    BY <1>1, OnlyRejected
  <2>2. QED
    BY <1>2, <2>1
<1>5. Along(Holds(action, users), old[action]) + given
        = Along(Holds(action, users), old[action]) + size * Unit(action, hold)
  BY <1>2
<1>6. QED
  BY <1>1, <1>3, <1>4, <1>5, SideKeeps DEF given

\* place_fok_budget: what has not traded is not always rejected.
LEMMA PlaceFokBudgetKeeps ==
  ASSUME spec \in Specs, NEW users, NEW old, NEW taker, Passed(taker, old, users), ~Exact
  PROVE  Keeps(PlaceFokBudget(old, taker, spec), old, users, HeldAtFirst(taker))
<1> DEFINE opposite == old[Opposite(taker.action)]
           m == TryMatch(opposite, taker, spec.stp)
           left == taker.size - m.filled
           own == old[taker.action]
           rest == IF m.aborted /\ left > 0 THEN <<Reject(left, taker.reserve)>> ELSE <<>>
           done == Done(Matched(taker, m, own), m.events \o rest, taker.action)
           none == Done(old, <<Reject(taker.size, taker.reserve)>>, taker.action)
           u == Unit(taker.action, taker.reserve)
           H == Holds(taker.action, users)
           S == OrdersOf(users, OrderIds)
           given == HeldAtFirst(taker)
<1>1. PlaceFokBudget(old, taker, spec) = done \/ PlaceFokBudget(old, taker, spec) = none
  BY DEF PlaceFokBudget
<1>2. /\ PricedBook(old) /\ Taking(taker, old, spec, users, OrderIds)
      /\ taker.action \in Actions /\ taker.reserve \in Nat /\ taker.size \in Nat
      /\ m.filled \in 0..taker.size /\ u \in Nat
      /\ m.events \in Seq(EventsOf(users, OrderIds))
      /\ own \in Seq(S) /\ Priced(own) /\ Along(H, own) \in Int
      /\ given \in Nat /\ m.filled * u \in Nat /\ m.filled * u <= given
  BY PassedIs
<1>3. given = taker.size * u
  BY DEF HeldAtFirst
<1>4. Keeps(done, old, users, given)
  <2>1. /\ done.book = Matched(taker, m, own) /\ done.action = taker.action
        /\ done.events = m.events \o rest
    BY DEF Done
  <2> HIDE DEF done
  <2>2. CASE m.aborted
    <3>1. done.events = m.events \o IF left > 0 THEN <<Reject(left, taker.reserve)>> ELSE <<>>
      BY <2>1, <2>2
    <3>2. QED
      BY <2>1, <3>1, RejectedKeeps
  <2>3. CASE ~m.aborted
    <3>1. done.events = m.events
      BY <1>2, <2>1, <2>3, ConcatEmptySeq
    <3> DEFINE back == m.filled * u
    <3>2. OwnBalances(own, old, taker.action, users, given, back)
      <4>1. Along(H, own) + back <= Along(H, own) + given
        <5> HIDE DEF H, own, given, back
        <5>1. back \in Nat /\ back <= given /\ given \in Nat /\ Along(H, own) \in Int
          BY <1>2 DEF back
        <5>2. QED
          BY <5>1
      <4> HIDE DEF given, back
      <4>2. QED
        BY <4>1 DEF OwnBalances, Covers
    <3>3. m = TryMatch(old[Opposite(taker.action)], taker, spec.stp) /\ given \in Int /\ back \in Int
      BY <1>2
    <3> HIDE DEF given, m, own
    <3>4. QED
      BY <1>2, <2>1, <3>1, <3>2, <3>3, MatchedKeeps
  <2>4. QED
    BY <2>2, <2>3
<1>5. Keeps(none, old, users, given)
  <2>1. /\ none.book = old /\ none.action = taker.action
        /\ none.events = <<Reject(taker.size, taker.reserve)>>
    BY DEF Done
  <2> HIDE DEF none
  <2>2. BookOK(old, users, OrderIds)
    BY <1>2 DEF Taking
  <2>3. QED
    BY <1>2, <2>1, <2>2, WhollyRejected
<1>6. QED
  BY <1>1, <1>4, <1>5

\* new_order, with what the engine makes of a refusal.
LEMMA NewOrderKeeps ==
  ASSUME spec \in Specs, NEW users, NEW old, BookOK(old, users, OrderIds), PricedBook(old),
         NEW taker \in OrdersOf(users, OrderIds), taker.size \in Nat, taker.filled = 0,
         PricedOrder(taker), taker.action = "Bid" => taker.price <= taker.reserve,
         NEW type \in Types
  PROVE  Keeps(Compensated(NewOrder(old, taker, type, spec), taker), old, users,
               HeldAtFirst(taker))
<1> DEFINE r == NewOrder(old, taker, type, spec)
           c == Compensated(r, taker)
<1>1. taker.action \in Actions /\ taker.reserve \in Nat /\ spec.stp \in Modes
  BY SpecTyped DEF OrdersOf, PricedOrder
<1>2. /\ r.code # "Success" => r.action = taker.action
      /\ r.code # "Success" => r.book = old
  <2> DEFINE newcomers == IF r.code = "Success" THEN {taker.id} ELSE {}
  <2>1. /\ BookOK(old, users, OrderIds) /\ spec.stp \in Modes
        /\ taker \in OrdersOf(users, OrderIds) /\ taker.size \in Nat
        /\ spec.spot /\ taker.action = "Bid" => taker.price <= taker.reserve
    BY <1>1
  <2>2. /\ Result(r, old, taker.uid, spec, users, OrderIds, newcomers)
        /\ r.code # "Success" => r.action = taker.action
    BY ONLY <2>1, NewOrderOutcome
  <2> HIDE DEF r, newcomers
  <2>3. QED
    BY <2>2 DEF Result
<1>3. /\ c.book = r.book /\ c.action = r.action
      /\ r.code = "Success" => c.events = r.events
      /\ r.code # "Success" => c.events = <<Reject(taker.size, taker.reserve)>>
  BY NewOrderFields, CompensatedIs
<1>4. \/ r.code # "Success"
      \/ /\ ~Knows(old, taker.id)
         /\ \/ r = PlaceGtc(old, taker, spec)
            \/ r = PlaceIoc(old, taker, spec)
            \/ r = PlaceFokBudget(old, taker, spec) /\ ~Exact
  <2>1. \/ r = Refused(old, taker, "MatchingDuplicateOrderId")
        \/ r = Refused(old, taker, "MatchingUnsupportedCommand")
        \/ /\ ~Knows(old, taker.id)
           /\ \/ r = PlaceGtc(old, taker, spec)
              \/ r = PlaceIoc(old, taker, spec)
              \/ r = PlaceFokBudget(old, taker, spec) /\ type = "FokBudget"
    BY Zenon DEF NewOrder
  <2>2. type = "FokBudget" => ~Exact
    BY DEF Exact
  <2> HIDE DEF r
  <2>3. r = Refused(old, taker, "MatchingDuplicateOrderId") => r.code # "Success"
    BY DEF Refused
  <2>4. r = Refused(old, taker, "MatchingUnsupportedCommand") => r.code # "Success"
    BY DEF Refused
  <2>5. QED
    BY <2>1, <2>2, <2>3, <2>4
<1> HIDE DEF r, c
<1>5. CASE r.code # "Success"
  <2>1. c.book = old /\ c.events = <<Reject(taker.size, taker.reserve)>>
        /\ c.action = taker.action
    BY <1>2, <1>3, <1>5
  <2>2. QED
    BY <1>1, <2>1, WhollyRejected DEF c, r
<1>6. CASE r.code = "Success"
  <2>1. ~Knows(old, taker.id)
    BY <1>4, <1>6
  <2>2. Passed(taker, old, users)
    <3>1. \A action \in Actions : Absent(taker.id, old[action])
      BY <2>1, Unknown
    <3>2. QED
      BY <1>1, <3>1, BookSides DEF Taking, Passed
  <2>3. Keeps(r, old, users, HeldAtFirst(taker))
    <3>1. CASE r = PlaceGtc(old, taker, spec)
      BY <2>2, <3>1, PlaceGtcKeeps
    <3>2. CASE r = PlaceIoc(old, taker, spec)
      <4> DEFINE m == TryMatch(old[Opposite(taker.action)], taker, spec.stp)
                 left == taker.size - m.filled
      <4>1. /\ r.book = Matched(taker, m, old[taker.action]) /\ r.action = taker.action
            /\ r.events = m.events \o IF left > 0 THEN <<Reject(left, taker.reserve)>> ELSE <<>>
        BY <3>2 DEF PlaceIoc, Done
      <4> HIDE DEF m
      <4>2. m = TryMatch(old[Opposite(taker.action)], taker, spec.stp)
        BY DEF m
      <4>3. QED
        BY <2>2, <4>1, <4>2, RejectedKeeps
    <3>3. CASE r = PlaceFokBudget(old, taker, spec) /\ ~Exact
      BY <2>2, <3>3, PlaceFokBudgetKeeps
    <3>4. QED
      BY <1>4, <1>6, <3>1, <3>2, <3>3
  <2>4. c.book = r.book /\ c.action = r.action /\ c.events = r.events
    BY <1>3, <1>6
  <2>5. Keeps(c, old, users, HeldAtFirst(taker))
    BY <2>3, <2>4 DEF Keeps
  <2>6. QED
    BY <2>5 DEF c, r
<1>7. QED
  BY <1>5, <1>6

\* A command that is refused, and nothing was held for it.
LEMMA NothingKeeps ==
  ASSUME spec \in Specs, NEW users, NEW old, BookOK(old, users, OrderIds), PricedBook(old),
         NEW r, r.book = old, r.events = <<>>
  PROVE  Keeps(r, old, users, 0)
<1>1. Sound(r.events)
  BY DEF Sound
<1>2. ASSUME NEW x \in Actions
      PROVE  /\ Priced(r.book[x])
             /\ Covers(Along(Holds(x, users), old[x]) + (IF x = r.action THEN 0 ELSE 0),
                       Along(Holds(x, users), r.book[x]) + Along(Frees(r.action, x, users), r.events))
  <2> DEFINE S == OrdersOf(users, OrderIds)
  <2>1. old[x] \in Seq(S) /\ Holds(x, users) \in [S -> Int]
    BY HoldsTyped DEF BookOK, SideOK
  <2> HIDE DEF S
  <2>2. Along(Holds(x, users), old[x]) \in Int
    BY <2>1, AlongIsNumber
  <2>3. Along(Frees(r.action, x, users), r.events) = 0
    BY AlongNothing
  <2>4. QED
    BY <2>2, <2>3 DEF Covers, PricedBook
<1>3. QED
  BY <1>1, <1>2 DEF Keeps

\* Orders that only follow others have their prices.
LEMMA PricedFollows ==
  ASSUME NEW side, NEW t, Priced(side), Follows(t, side, {})
  PROVE  Priced(t)
<1>1. \A a \in 1..Len(t) : \E j \in 1..Len(side) : SameOrder(t[a], side[j])
  BY Zenon DEF Follows
<1>2. QED
  BY <1>1 DEF Priced, PricedOrder, SameOrder

\* What is held for a side without the order that was named.
LEMMA GoneHolds ==
  ASSUME NEW users, NEW old, BookOK(old, users, OrderIds), NEW id, Knows(old, id),
         NEW v \in [OrdersOf(users, OrderIds) -> Int]
  PROVE  LET o == OrderOf(old, id)
         IN  Along(v, old[o.action]) = Along(v, Without(old[o.action], id)) + v[o]
<1> DEFINE o == OrderOf(old, id)
           side == old[o.action]
           c == CHOOSE i \in 1..Len(side) : side[i].id = id
           S == OrdersOf(users, OrderIds)
<1>1. /\ o.id = id /\ SideOK(side, o.action, users, OrderIds)
      /\ \E i \in 1..Len(side) : side[i] = o
  BY NamedOrder
<1>2. c \in 1..Len(side) /\ side[c].id = id
  BY <1>1
<1>3. Without(side, id) = RemoveAt(side, c)
  BY DEF Without
<1> HIDE DEF o, side, c
<1>4. side[c] = o
  BY <1>1, <1>2, DistinctIds
<1>5. side \in Seq(S)
  BY <1>1 DEF SideOK
<1>6. v \in [S -> Int]
  OBVIOUS
<1> HIDE DEF S
<1>7. Along(v, side) = Along(v, RemoveAt(side, c)) + v[side[c]]
  BY <1>2, <1>5, <1>6, AlongRemoved
<1>8. QED
  BY <1>3, <1>4, <1>7 DEF o, side

\* cancel_order
LEMMA CancelKeeps ==
  ASSUME spec \in Specs, NEW users, NEW old, BookOK(old, users, OrderIds), PricedBook(old),
         NEW cmd
  PROVE  Keeps(CancelOrder(old, cmd), old, users, 0)
<1> DEFINE r == CancelOrder(old, cmd)
           o == OrderOf(old, cmd.id)
           side == old[o.action]
           t == Without(side, o.id)
           H == Holds(o.action, users)
<1>1. CASE ~Owns(old, cmd)
  <2>1. r.book = old /\ r.events = <<>>
    BY <1>1 DEF CancelOrder, Refused
  <2> HIDE DEF r
  <2>2. Keeps(r, old, users, 0)
    BY <2>1, NothingKeeps
  <2>3. QED
    BY <2>2 DEF r
<1>2. CASE Owns(old, cmd)
  <2>1. Knows(old, cmd.id)
    BY <1>2 DEF Owns
  <2>2. /\ o.id = cmd.id /\ o.action \in Actions /\ Remaining(o) \in Nat
        /\ o \in OrdersOf(users, OrderIds) /\ \E i \in 1..Len(side) : side[i] = o
    BY <2>1, NamedOrder
  <2>3. SideOK(t, o.action, users, OrderIds) /\ Follows(t, side, {})
    BY <2>1, <2>2, NamedOrderGone
  <2>4. t \in Seq(OrdersOf(users, OrderIds)) /\ Priced(t)
    BY <2>2, <2>3, PricedFollows, SMTT(30) DEF SideOK, PricedBook
  <2>5. o.reserve \in Nat
    BY <2>2 DEF PricedBook, Priced, PricedOrder
  <2>6. H \in [OrdersOf(users, OrderIds) -> Int] /\ H[o] = Remaining(o) * Unit(o.action, o.reserve)
    BY <2>2, HoldsTyped
  <2>7. Along(H, side) = Along(H, t) + H[o] /\ Along(H, side) \in Int
    <3> HIDE DEF H
    <3>1. Along(H, side) = Along(H, t) + H[o]
      BY <2>1, <2>2, <2>6, GoneHolds
    <3>2. side \in Seq(OrdersOf(users, OrderIds))
      BY <2>2 DEF BookOK, SideOK
    <3>3. QED
      BY <2>6, <3>1, <3>2, AlongIsNumber
  <2>8. r = Done([old EXCEPT ![o.action] = t], <<Reject(Remaining(o), o.reserve)>>, o.action)
    BY <1>2, Zenon DEF CancelOrder
  <2>9. /\ r.book[o.action] = t /\ \A x \in Actions : x # o.action => r.book[x] = old[x]
        /\ r.events = <<Reject(Remaining(o), o.reserve)>> /\ r.action = o.action
    <3>1. DOMAIN old = Actions
      BY DEF BookOK
    <3> HIDE DEF r, o, t
    <3>2. QED
      BY <2>2, <2>8, <3>1 DEF Done
  <2>10. Along(H, side) + 0 = Along(H, t) + Remaining(o) * Unit(o.action, o.reserve)
    <3> HIDE DEF H, side, t
    <3>1. Along(H, side) + 0 = Along(H, side)
      BY <2>7
    <3>2. QED
      BY <2>6, <2>7, <3>1
  <2> HIDE DEF r, t, o
  <2>11. Keeps(r, old, users, 0)
    BY <2>2, <2>4, <2>5, <2>9, <2>10, SideKeeps
  <2>12. QED
    BY <2>11 DEF r
<1>3. QED
  BY <1>1, <1>2

\* What is held for a side of which one order has been reduced.
Shrunk(side, id, by) ==
  [j \in 1..Len(side) |->
     IF side[j].id = id THEN [side[j] EXCEPT !.size = @ - by] ELSE side[j]]

LEMMA ReducedHolds ==
  ASSUME spec \in Specs, NEW users, NEW action \in Actions, NEW side,
         SideOK(side, action, users, OrderIds), Priced(side),
         NEW i \in 1..Len(side), NEW by \in Nat, by < Remaining(side[i]),
         NEW t, t = Shrunk(side, side[i].id, by)
  PROVE  LET H == Holds(action, users)
         IN  /\ t \in Seq(OrdersOf(users, OrderIds)) /\ Priced(t)
             /\ Along(H, side) = Along(H, t) + by * Unit(action, side[i].reserve)
<1> DEFINE S == OrdersOf(users, OrderIds)
           H == Holds(action, users)
           o == side[i]
           u == Unit(action, o.reserve)
<1>1. /\ SideOK(t, action, users, OrderIds) /\ Follows(t, side, {})
  BY ReducedSide DEF Shrunk
<1>2. t \in Seq(S) /\ Priced(t) /\ side \in Seq(S)
  BY <1>1, PricedFollows DEF SideOK
<1>3. Len(t) = Len(side) /\ DOMAIN t = 1..Len(side)
  <2>1. DOMAIN t = 1..Len(side) /\ DOMAIN t = 1..Len(t) /\ Len(t) \in Nat /\ Len(side) \in Nat
    BY <1>2, LenProperties DEF Shrunk
  <2>2. QED
    BY <2>1
<1>4. \A j \in 1..Len(side) : j # i => t[j] = side[j]
  BY DistinctIds DEF Shrunk
<1>5. o \in S /\ o.size \in Int /\ o.filled \in Int
  <2>1. side[i] \in S
    BY <1>2, ElementOfSeq
  <2> HIDE DEF o
  <2>2. o \in OrdersOf(users, OrderIds)
    BY <2>1 DEF o
  <2>3. QED
    BY <2>2 DEF OrdersOf
<1>6. t[i] \in S /\ Remaining(t[i]) = Remaining(o) - by /\ t[i].reserve = o.reserve
  <2>1. t[i] = [o EXCEPT !.size = @ - by]
    BY DEF Shrunk
  <2>2. t[i] \in S
    BY <1>2, <1>3, ElementOfSeq
  <2> HIDE DEF o
  <2>3. t[i].size = o.size - by /\ t[i].filled = o.filled /\ t[i].reserve = o.reserve
    BY <1>5, <2>1 DEF OrdersOf
  <2>4. QED
    BY <1>5, <2>2, <2>3 DEF Remaining
<1>7. /\ H \in [S -> Int] /\ u \in Int /\ Remaining(o) \in Int
      /\ H[o] = Remaining(o) * u /\ H[t[i]] = Remaining(t[i]) * u
  <2>1. /\ H \in [S -> Int]
        /\ \A p \in S : H[p] = Remaining(p) * Unit(action, p.reserve)
                        /\ Unit(action, p.reserve) \in Int
    BY HoldsTyped
  <2> HIDE DEF H, S
  <2>2. Remaining(o) \in Int
    BY ONLY <1>5 DEF Remaining
  <2> HIDE DEF o
  <2>3. H[o] = Remaining(o) * u /\ u \in Int
    BY <1>5, <2>1
  <2>4. H[t[i]] = Remaining(t[i]) * u
    BY <1>6, <2>1
  <2>5. QED
    BY <2>1, <2>2, <2>3, <2>4
<1>8. H[t[i]] = H[o] - by * u /\ by * u \in Int
  <2>1. \A x, y, z \in Int : (x - y) * z = x * z - y * z /\ y * z \in Int
    OBVIOUS
  <2> HIDE DEF u, o, H
  <2>2. by \in Int
    OBVIOUS
  <2>3. QED
    BY <1>6, <1>7, <2>1, <2>2
<1>9. Along(H, t) = Along(H, side) - H[o] + H[t[i]]
  <2>1. t \in Seq(S) /\ side \in Seq(S) /\ Len(t) = Len(side) /\ H \in [S -> Int]
    BY <1>2, <1>3, <1>7
  <2> HIDE DEF S, H
  <2>2. Along(H, t) = Along(H, side) - H[side[i]] + H[t[i]]
    <3>1. ButFor(i, t, side, 1..Len(side))
      BY <1>4 DEF ButFor
    <3>2. QED
      BY <2>1, <3>1, AlongChanged
  <2>3. QED
    BY <2>2
<1>10. Along(H, side) \in Int /\ H[o] \in Int
  <2> HIDE DEF H, S, o
  <2>1. QED
    BY <1>2, <1>5, <1>7, AlongIsNumber
<1>11. Along(H, side) = Along(H, t) + by * u
  <2> DEFINE k == by * u
  <2>1. H[t[i]] = H[o] - k /\ k \in Int
    BY <1>8
  <2> HIDE DEF H, o, k
  <2>2. Along(H, side) = Along(H, t) + k
    BY <1>9, <1>10, <2>1
  <2>3. QED
    BY <2>2 DEF k
<1>12. QED
  BY <1>2, <1>11

\* reduce_order
LEMMA ReduceKeeps ==
  ASSUME spec \in Specs, NEW users, NEW old, BookOK(old, users, OrderIds), PricedBook(old),
         NEW cmd, cmd.size \in Int
  PROVE  Keeps(ReduceOrder(old, cmd), old, users, 0)
<1> DEFINE r == ReduceOrder(old, cmd)
           o == OrderOf(old, cmd.id)
           side == old[o.action]
           by == IF Remaining(o) < cmd.size THEN Remaining(o) ELSE cmd.size
           t == IF by = Remaining(o) THEN Without(side, o.id) ELSE Shrunk(side, o.id, by)
           H == Holds(o.action, users)
<1>1. CASE ~(Owns(old, cmd) /\ cmd.size > 0)
  <2>1. r.book = old /\ r.events = <<>>
    <3>1. cmd.size <= 0 <=> ~(cmd.size > 0)
      OBVIOUS
    <3>2. \/ r = Refused(old, cmd, "MatchingUnknownOrderId")
          \/ r = Refused(old, cmd, "MatchingInvalidOrderSize")
      BY <1>1, <3>1, Zenon DEF ReduceOrder
    <3> HIDE DEF r
    <3>3. QED
      BY <3>2 DEF Refused
  <2> HIDE DEF r
  <2>2. Keeps(r, old, users, 0)
    BY <2>1, NothingKeeps
  <2>3. QED
    BY <2>2 DEF r
<1>2. CASE Owns(old, cmd) /\ cmd.size > 0
  <2>1. Knows(old, cmd.id)
    BY <1>2 DEF Owns
  <2>2. /\ o.id = cmd.id /\ o.action \in Actions /\ o \in OrdersOf(users, OrderIds)
        /\ Remaining(o) \in Nat \ {0} /\ SideOK(side, o.action, users, OrderIds)
        /\ \E i \in 1..Len(side) : side[i] = o
    BY <2>1, NamedOrder
  <2>3. o.reserve \in Nat /\ Priced(side)
    BY <2>2 DEF PricedBook, Priced, PricedOrder
  <2>4. r = Done([old EXCEPT ![o.action] = t], <<Reject(by, o.reserve)>>, o.action)
    <3>1. Knows(old, cmd.id) /\ ~(cmd.size <= 0)
      BY <1>2, <2>1
    <3>2. QED
      BY <1>2, <3>1, Zenon DEF ReduceOrder, Shrunk
  <2>5. /\ SideOK(Without(side, o.id), o.action, users, OrderIds)
        /\ Follows(Without(side, o.id), side, {})
    BY <2>1, <2>2, NamedOrderGone
  <2>6. H \in [OrdersOf(users, OrderIds) -> Int] /\ H[o] = Remaining(o) * Unit(o.action, o.reserve)
    BY <2>2, HoldsTyped
  <2>7. Along(H, side) = Along(H, Without(side, o.id)) + H[o]
    <3> HIDE DEF H
    <3>1. QED
      BY <2>1, <2>2, <2>6, GoneHolds
  <2> HIDE DEF r, o, side
  <2>8. by \in Nat /\ (by = Remaining(o) \/ by < Remaining(o))
    BY <1>2, <2>2
  <2> HIDE DEF by
  <2>9. /\ t \in Seq(OrdersOf(users, OrderIds)) /\ Priced(t)
        /\ Along(H, side) = Along(H, t) + by * Unit(o.action, o.reserve)
    <3>1. CASE by = Remaining(o)
      <4> HIDE DEF H
      <4>1. QED
        BY <2>3, <2>5, <2>6, <2>7, <3>1, PricedFollows DEF SideOK
    <3>2. CASE by # Remaining(o)
      <4>1. PICK i \in 1..Len(side) : side[i] = o
        BY <2>2
      <4>2. by < Remaining(side[i])
        BY <2>8, <3>2, <4>1
      <4>3. t = Shrunk(side, side[i].id, by)
        BY <3>2, <4>1
      <4> HIDE DEF t
      <4>4. /\ spec \in Specs /\ o.action \in Actions /\ SideOK(side, o.action, users, OrderIds)
            /\ Priced(side) /\ i \in 1..Len(side) /\ by \in Nat
        BY <2>2, <2>3, <2>8
      <4>5. /\ t \in Seq(OrdersOf(users, OrderIds)) /\ Priced(t)
            /\ Along(Holds(o.action, users), side)
                 = Along(Holds(o.action, users), t) + by * Unit(o.action, side[i].reserve)
        BY ONLY <4>2, <4>3, <4>4, ReducedHolds
      <4>6. QED
        BY <4>1, <4>5
    <3>3. QED
      BY <3>1, <3>2
  <2> HIDE DEF t
  <2>10. /\ r.book[o.action] = t /\ \A x \in Actions : x # o.action => r.book[x] = old[x]
         /\ r.events = <<Reject(by, o.reserve)>> /\ r.action = o.action
    <3>1. DOMAIN old = Actions
      BY DEF BookOK
    <3>2. QED
      BY <2>2, <2>4, <3>1 DEF Done
  <2>11. Along(H, old[o.action]) + 0 = Along(H, t) + by * Unit(o.action, o.reserve)
    <3>1. side \in Seq(OrdersOf(users, OrderIds))
      BY <2>2 DEF SideOK
    <3> HIDE DEF H
    <3>2. Along(H, side) \in Int
      BY <2>6, <3>1, AlongIsNumber
    <3>3. Along(H, side) + 0 = Along(H, side)
      BY <3>2
    <3>4. QED
      BY <2>9, <3>3 DEF side
  <2>12. Keeps(r, old, users, 0)
    BY <2>2, <2>3, <2>8, <2>9, <2>10, <2>11, SideKeeps
  <2>13. QED
    BY <2>12 DEF r
<1>3. QED
  BY <1>1, <1>2

\* move_order
LEMMA MoveKeeps ==
  ASSUME spec \in Specs, NEW users, NEW old, BookOK(old, users, OrderIds), PricedBook(old),
         NEW cmd, cmd.price \in Prices
  PROVE  Keeps(MoveOrder(old, cmd, spec), old, users, 0)
<1> DEFINE r == MoveOrder(old, cmd, spec)
           o == OrderOf(old, cmd.id)
           taker == Retaker(o, cmd.price)
           m == TryMatch(old[Opposite(o.action)], taker, spec.stp)
           moved == [o EXCEPT !.price = cmd.price, !.filled = @ + m.filled]
           left == Remaining(moved)
           own == Without(old[o.action], o.id)
           after == IF left > 0 THEN Insert(own, moved) ELSE own
           out == Done(Matched(o, m, own),
                       Append(m.events, Reject(left, o.reserve)), o.action)
           in == Done(Matched(o, m, after), m.events, o.action)
           S == OrdersOf(users, OrderIds)
           H == Holds(o.action, users)
           u == Unit(o.action, o.reserve)
<1>1. cmd.price \in Int /\ spec.stp \in Modes
  BY SpecTyped, InputAssumption
<1>2. ASSUME NEW code
      PROVE  Keeps(Refused(old, cmd, code), old, users, 0)
  <2> DEFINE x == Refused(old, cmd, code)
  <2>1. x.book = old /\ x.events = <<>>
    BY DEF Refused
  <2> HIDE DEF x
  <2>2. Keeps(x, old, users, 0)
    BY <2>1, NothingKeeps
  <2>3. QED
    BY <2>2 DEF x
<1>3. ASSUME Owns(old, cmd), MoveAllowed(o, cmd.price, spec), cmd.price > 0
      PROVE  /\ m.aborted /\ left > 0 => Keeps(out, old, users, 0)
             /\ ~(m.aborted /\ left > 0) => Keeps(in, old, users, 0)
  <2>1. Knows(old, cmd.id)
    BY <1>3 DEF Owns
  <2>2. /\ o.id = cmd.id /\ o.action \in Actions /\ o \in S
        /\ o.filled \in Nat /\ o.size \in Int /\ o.reserve \in Int
        /\ Remaining(o) \in Nat \ {0}
        /\ \E i \in 1..Len(old[o.action]) : old[o.action][i] = o
    BY <2>1, NamedOrder
  <2>3. /\ Taking(taker, old, spec, users, OrderIds)
        /\ taker.action = o.action /\ taker.reserve = o.reserve /\ taker.size = Remaining(o)
    BY <1>1, <1>3, <2>1, MovedTakes
  <2>4. /\ SideOK(own, o.action, users, OrderIds) /\ Follows(own, old[o.action], {})
        /\ Absent(o.id, own)
    BY <2>1, <2>2, NamedOrderGone
  <2>5. own \in Seq(S) /\ Priced(own) /\ o.reserve \in Nat
    <3>1. Priced(old[o.action])
      BY <2>2 DEF PricedBook
    <3> HIDE DEF o, own
    <3>2. QED
      BY <2>2, <2>4, <3>1, PricedFollows DEF SideOK, Priced, PricedOrder
  <2>6. /\ H \in [S -> Int] /\ H[o] = Remaining(o) * u /\ u \in Int
    BY <2>2, HoldsTyped
  <2>7. Along(H, old[o.action]) = Along(H, own) + H[o] /\ Along(H, old[o.action]) \in Int
        /\ Along(H, own) \in Int
    <3> HIDE DEF H
    <3>1. Along(H, old[o.action]) = Along(H, own) + H[o]
      BY <2>1, <2>2, <2>6, GoneHolds
    <3>2. old[o.action] \in Seq(S)
      BY <2>2 DEF BookOK, SideOK
    <3>3. QED
      BY <2>5, <2>6, <3>1, <3>2, AlongIsNumber
  <2> HIDE DEF taker, o
  <2>8. Typed(m, users, OrderIds) /\ m.filled \in 0..taker.size
    BY <2>3, TakerMatches
  <2>9. m = TryMatch(old[Opposite(taker.action)], taker, spec.stp)
    BY <2>3
  <2>10. m.events \in Seq(EventsOf(users, OrderIds)) /\ m.filled \in Int
    BY <2>2, <2>3, <2>8 DEF Typed
  <2> HIDE DEF m
  <2>11. /\ moved.id = o.id /\ moved.price = cmd.price
         /\ moved.reserve = o.reserve /\ moved.action = o.action
         /\ moved.size = o.size /\ moved.filled = o.filled + m.filled /\ moved \in S
    <3> DEFINE filled == o.filled + m.filled
    <3>1. filled \in Int
      BY <2>2, <2>10
    <3>2. moved = [o EXCEPT !.price = cmd.price, !.filled = filled]
      OBVIOUS
    <3> HIDE DEF filled, moved
    <3>3. /\ moved.id = o.id /\ moved.price = cmd.price
          /\ moved.reserve = o.reserve /\ moved.action = o.action
          /\ moved.size = o.size /\ moved.filled = filled /\ moved \in S
      BY <1>1, <2>2, <3>1, <3>2 DEF OrdersOf, S
    <3>4. QED
      BY <3>3 DEF filled
  <2> HIDE DEF moved
  <2>12. left = taker.size - m.filled /\ left \in Nat /\ moved.filled \in Nat
         /\ Remaining(o) = left + m.filled
    BY <2>2, <2>3, <2>8, <2>11 DEF Remaining
  <2>13. Along(H, own) + H[o] = Along(H, own) + Remaining(o) * u
    BY <2>6
  <2> HIDE DEF left, own
  <2>14. Keeps(out, old, users, 0)
    <3> DEFINE back == taker.size * Unit(taker.action, taker.reserve)
    <3>1. back = Remaining(o) * u
      BY <2>3
    <3>2. OwnBalances(own, old, taker.action, users, 0, back)
      <4>1. H = Holds(taker.action, users) /\ old[o.action] = old[taker.action]
        BY <2>3
      <4>2. H[o] = back
        BY <2>6, <3>1
      <4> HIDE DEF H, back
      <4>3. Along(H, old[taker.action]) + 0 = Along(H, own) + back
            /\ Along(H, old[taker.action]) + 0 \in Int
        BY <2>7, <4>1, <4>2
      <4>4. QED
        BY <4>1, <4>3 DEF OwnBalances, Covers
    <3>3. back \in Int
      <4>1. Remaining(o) \in Int
        BY <2>2
      <4> HIDE DEF u
      <4>2. QED
        BY <2>6, <3>1, <4>1, Product
    <3>4. /\ out.book = Matched(taker, m, own) /\ out.action = taker.action
          /\ out.events = m.events \o <<Reject(taker.size - m.filled, taker.reserve)>>
      <4> DEFINE e == Reject(left, o.reserve)
      <4>1. e \in EventsOf(users, OrderIds)
        BY <2>2, <2>12 DEF EventsOf, Reject
      <4>2. e = Reject(taker.size - m.filled, taker.reserve)
        BY <2>3, <2>12
      <4>3. Matched(taker, m, own) = Matched(o, m, own)
        BY <2>3 DEF Matched
      <4> HIDE DEF e
      <4>4. Append(m.events, e) = m.events \o <<e>>
        BY <2>10, <4>1, AppendIsConcat
      <4>5. out.book = Matched(o, m, own) /\ out.action = o.action /\ out.events = Append(m.events, e)
        BY DEF Done, e
      <4> HIDE DEF out
      <4>6. QED
        BY <2>3, <4>2, <4>3, <4>4, <4>5
    <3>5. back = taker.size * Unit(taker.action, taker.reserve)
      OBVIOUS
    <3>6. taker.reserve \in Nat
      BY <2>3, <2>5
    <3> HIDE DEF out, back
    <3>7. /\ spec \in Specs /\ PricedBook(old) /\ Taking(taker, old, spec, users, OrderIds)
          /\ own \in Seq(OrdersOf(users, OrderIds)) /\ Priced(own) /\ 0 \in Int
      BY <2>3, <2>5
    <3>8. QED
      BY ONLY <2>9, <3>2, <3>3, <3>4, <3>5, <3>6, <3>7, MatchedKeeps
  <2>15. Keeps(in, old, users, 0)
    <3> DEFINE back == m.filled * Unit(taker.action, taker.reserve)
    <3>1. after \in Seq(S) /\ Priced(after) /\ Along(H, after) = Along(H, own) + left * u
      <4>1. Absent(moved.id, own) /\ PricedOrder(moved)
        BY <1>3, <2>4, <2>5, <2>11 DEF PricedOrder
      <4>2. after = IF left > 0 THEN Insert(own, moved) ELSE own
        OBVIOUS
      <4> HIDE DEF after
      <4>3. left = Remaining(moved) /\ left \in Nat
        BY <2>12 DEF left
      <4>4. /\ spec \in Specs /\ o.action \in Actions /\ Priced(own)
            /\ SideOK(own, o.action, users, OrderIds) /\ moved \in OrdersOf(users, OrderIds)
            /\ moved.action = o.action /\ moved.filled \in Nat
        BY <2>2, <2>4, <2>5, <2>11, <2>12
      <4>5. /\ after \in Seq(OrdersOf(users, OrderIds)) /\ Priced(after)
            /\ Along(Holds(o.action, users), after)
                 = Along(Holds(o.action, users), own) + left * Unit(o.action, moved.reserve)
        BY ONLY <4>1, <4>2, <4>3, <4>4, RestingHolds
      <4>6. QED
        BY <2>11, <4>5
    <3>2. back = m.filled * u /\ back \in Int
      <4>1. back = m.filled * u
        BY <2>3
      <4> HIDE DEF u, back
      <4>2. QED
        BY <2>6, <2>10, <4>1, Product
    <3>3. H[o] = left * u + back /\ left * u \in Int
      <4>1. \A i, j, k \in Int : (i + j) * k = i * k + j * k /\ i * k \in Int
        OBVIOUS
      <4>2. left \in Int
        BY <2>12
      <4> HIDE DEF u, H, back
      <4>3. (left + m.filled) * u = left * u + m.filled * u /\ left * u \in Int
        BY <2>6, <2>10, <4>1, <4>2
      <4>4. QED
        BY <2>6, <2>12, <3>2, <4>3
    <3>4. OwnBalances(after, old, taker.action, users, 0, back)
      <4>1. H = Holds(taker.action, users) /\ old[o.action] = old[taker.action]
        BY <2>3
      <4> DEFINE k == left * u
      <4>2. H[o] = k + back /\ k \in Int /\ Along(H, after) = Along(H, own) + k
        BY <3>1, <3>3
      <4> HIDE DEF H, back, k, after
      <4>3. Along(H, old[taker.action]) + 0 = Along(H, after) + back
            /\ Along(H, old[taker.action]) + 0 \in Int
        BY <2>7, <3>2, <4>1, <4>2
      <4>4. QED
        BY <4>1, <4>3 DEF OwnBalances, Covers
    <3> HIDE DEF after
    <3>5. /\ in.book = Matched(taker, m, after) /\ in.action = taker.action /\ in.events = m.events
      <4>1. Matched(taker, m, after) = Matched(o, m, after)
        BY <2>3 DEF Matched
      <4>2. in.book = Matched(o, m, after) /\ in.action = o.action /\ in.events = m.events
        BY DEF Done
      <4> HIDE DEF in
      <4>3. QED
        BY <2>3, <4>1, <4>2
    <3>6. back = m.filled * Unit(taker.action, taker.reserve)
      OBVIOUS
    <3>7. taker.reserve \in Nat
      BY <2>3, <2>5
    <3> HIDE DEF in, back
    <3>8. back \in Int
      BY <3>2
    <3>9. /\ spec \in Specs /\ PricedBook(old) /\ Taking(taker, old, spec, users, OrderIds)
          /\ after \in Seq(OrdersOf(users, OrderIds)) /\ Priced(after) /\ 0 \in Int
      BY <2>3, <3>1
    <3>10. QED
      BY ONLY <2>9, <3>4, <3>5, <3>6, <3>7, <3>8, <3>9, MatchedKeeps
  <2>16. QED
    BY <2>14, <2>15
<1>4. \/ r = Refused(old, cmd, "MatchingUnknownOrderId")
      \/ r = Refused(old, cmd, "RiskInvalidOrderParams")
      \/ r = Refused(old, cmd, "RiskInvalidReserveBidPrice")
      \/ /\ Owns(old, cmd) /\ MoveAllowed(o, cmd.price, spec) /\ ~(cmd.price <= 0)
         /\ \/ m.aborted /\ left > 0 /\ r = out
            \/ ~(m.aborted /\ left > 0) /\ r = in
  BY Zenon DEF MoveOrder
<1>5. ~(cmd.price <= 0) <=> cmd.price > 0
  BY <1>1
<1> HIDE DEF r, m, left, o, out, in
<1>6. Keeps(r, old, users, 0)
  BY <1>2, <1>3, <1>4, <1>5
<1>7. QED
  BY <1>6 DEF r

-----------------------------------------------------------------------------
(* What the accounts come to *)

Registered(es) == {u \in Users : u \in DOMAIN es[ShardOf[u]].accounts}
BalanceOf(es, u, currency) == es[ShardOf[u]].accounts[u][currency]

\* Nobody owes anything.
Rich(es) ==
  \A s \in Shards :
    /\ es[s].fees >= 0
    /\ \A u \in DOMAIN es[s].accounts :
         es[s].accounts[u].base >= 0 /\ es[s].accounts[u].quote >= 0

LEMMA ShardsAreFinite == IsFiniteSet(Shards) /\ IsFiniteSet(Users)
<1> DEFINE f == [u \in Users |-> ShardOf[u]]
<1>1. IsFiniteSet(Users)
  BY InputAssumption
<1>2. f \in Surjection(Users, Shards)
  BY DEF Surjection, Shards
<1>3. QED
  BY <1>1, <1>2, FS_Surjection

\* The accounts of a shard.
LEMMA ShardIs ==
  ASSUME NEW es, EnginesOK(es), NEW s \in Shards
  PROVE  /\ DOMAIN es[s].accounts = {u \in Registered(es) : ShardOf[u] = s}
         /\ IsFiniteSet(DOMAIN es[s].accounts)
         /\ \A u \in DOMAIN es[s].accounts :
              /\ u \in Users /\ ShardOf[u] = s
              /\ es[s].accounts[u] \in [base : Words, quote : Words]
              /\ \A c \in Currencies : BalanceOf(es, u, c) = es[s].accounts[u][c]
                                       /\ BalanceOf(es, u, c) \in Words
         /\ es[s].fees \in Words
<1>1. PICK users \in SUBSET {u \in Users : Mine(s, u)} : EngineOK(es[s], users)
  BY DEF EnginesOK
<1>2. /\ DOMAIN es[s].accounts = users /\ es[s].fees \in Words
      /\ \A u \in users : es[s].accounts[u] \in [base : Words, quote : Words]
  BY <1>1 DEF EngineOK
<1>3. \A u \in users : u \in Users /\ ShardOf[u] = s
  BY <1>1 DEF Mine
<1>4. users = {u \in Registered(es) : ShardOf[u] = s}
  BY <1>2, <1>3 DEF Registered
<1>5. IsFiniteSet(users)
  BY <1>3, ShardsAreFinite, FS_Subset
<1>6. ASSUME NEW u \in users, NEW c \in Currencies
      PROVE  BalanceOf(es, u, c) = es[s].accounts[u][c] /\ BalanceOf(es, u, c) \in Words
  <2>1. BalanceOf(es, u, c) = es[s].accounts[u][c]
    BY <1>3 DEF BalanceOf
  <2>2. QED
    BY <1>1, <2>1, BalanceIsWord
<1>7. QED
  BY <1>2, <1>3, <1>4, <1>5, <1>6

\* The balances of a shard, and of all of them.
InShard(es, s, c) == [u \in DOMAIN es[s].accounts |-> es[s].accounts[u][c]]
InAll(es, c) == [s \in Shards |-> Balances(es[s], c)]

LEMMA TotalIs ==
  ASSUME NEW es, EnginesOK(es), NEW c \in Currencies
  PROVE  /\ \A s \in Shards :
              /\ InShard(es, s, c) \in [DOMAIN es[s].accounts -> Int]
              /\ InAll(es, c)[s] = SumOf(InShard(es, s, c))
              /\ InAll(es, c)[s] \in Int
         /\ InAll(es, c) \in [Shards -> Int]
         /\ Total(es, c) = SumOf(InAll(es, c)) /\ Total(es, c) \in Int
<1>1. ASSUME NEW s \in Shards
      PROVE  /\ InShard(es, s, c) \in [DOMAIN es[s].accounts -> Int]
             /\ InAll(es, c)[s] = SumOf(InShard(es, s, c))
             /\ InAll(es, c)[s] \in Int
  <2> DEFINE D == DOMAIN es[s].accounts
             f == InShard(es, s, c)
  <2>1. IsFiniteSet(D) /\ \A u \in D : es[s].accounts[u][c] \in Int
    BY ShardIs DEF Words
  <2>2. f \in [D -> Int]
    BY <2>1 DEF InShard
  <2>3. InAll(es, c)[s] = SumOf(f)
    BY DEF InAll, InShard, Balances
  <2> HIDE DEF D, f
  <2>4. SumOf(f) \in Int
    BY <2>1, <2>2, SumSplit
  <2>5. QED
    BY <2>2, <2>3, <2>4 DEF f, D
<1>2. InAll(es, c) \in [Shards -> Int]
  <2>1. InAll(es, c) = [s \in Shards |-> InAll(es, c)[s]]
    BY DEF InAll
  <2>2. QED
    BY <1>1, <2>1
<1>3. Total(es, c) = SumOf(InAll(es, c))
  BY DEF Total, InAll
<1>4. SumOf(InAll(es, c)) \in Int
  <2> DEFINE f == InAll(es, c)
  <2>1. f \in [Shards -> Int] /\ IsFiniteSet(Shards)
    BY <1>2, ShardsAreFinite
  <2> HIDE DEF f
  <2>2. SumOf(f) \in Int
    BY <2>1, SumSplit
  <2>3. QED
    BY <2>2 DEF f
<1>5. QED
  BY <1>1, <1>2, <1>3, <1>4

\* Every account but one is as it was.
OthersAsTheyWere(new, es, uid, c) ==
  \A s \in Shards :
    /\ DOMAIN new[s].accounts = DOMAIN es[s].accounts
    /\ \A u \in DOMAIN es[s].accounts : u # uid => new[s].accounts[u][c] = es[s].accounts[u][c]

LEMMA TotalChanged ==
  ASSUME NEW es, EnginesOK(es), NEW new, EnginesOK(new), NEW uid \in Registered(es),
         NEW c \in Currencies, OthersAsTheyWere(new, es, uid, c)
  PROVE  /\ Total(new, c) = Total(es, c) - BalanceOf(es, uid, c) + BalanceOf(new, uid, c)
         /\ Total(es, c) \in Int /\ BalanceOf(es, uid, c) \in Int /\ BalanceOf(new, uid, c) \in Int
<1> DEFINE t == ShardOf[uid]
           D == DOMAIN es[t].accounts
           f == InShard(es, t, c)
           g == InShard(new, t, c)
           F == InAll(es, c)
           G == InAll(new, c)
<1>1. t \in Shards /\ uid \in D
  BY DEF Registered, Shards
<1>2. /\ f \in [D -> Int] /\ F[t] = SumOf(f) /\ F \in [Shards -> Int] /\ Total(es, c) = SumOf(F)
      /\ Total(es, c) \in Int
  BY <1>1, TotalIs
<1>3. /\ g \in [D -> Int] /\ G[t] = SumOf(g) /\ G \in [Shards -> Int] /\ Total(new, c) = SumOf(G)
  BY <1>1, TotalIs DEF OthersAsTheyWere
<1>4. IsFiniteSet(D) /\ IsFiniteSet(Shards)
  BY <1>1, ShardIs, ShardsAreFinite
<1>5. ButFor(uid, g, f, D)
  BY <1>1 DEF ButFor, OthersAsTheyWere, InShard
<1>6. ButFor(t, G, F, Shards)
  <2> SUFFICES ASSUME NEW s \in Shards, s # t
               PROVE  G[s] = F[s]
    BY DEF ButFor
  <2>1. \A u \in DOMAIN es[s].accounts : u # uid
    BY ShardIs
  <2>2. InShard(new, s, c) = InShard(es, s, c)
    BY <2>1 DEF OthersAsTheyWere, InShard
  <2>3. QED
    BY <2>2, TotalIs
<1>7. f[uid] = BalanceOf(es, uid, c) /\ g[uid] = BalanceOf(new, uid, c)
  BY <1>1 DEF InShard, BalanceOf, OthersAsTheyWere
<1> HIDE DEF t, D, f, g, F, G
<1>8. SumOf(g) = SumOf(f) - f[uid] + g[uid]
  BY <1>1, <1>2, <1>3, <1>4, <1>5, SumChanged
<1>9. SumOf(G) = SumOf(F) - F[t] + G[t]
  BY <1>1, <1>2, <1>3, <1>4, <1>6, SumChanged
<1>10. f[uid] \in Int /\ g[uid] \in Int /\ SumOf(f) \in Int /\ SumOf(F) \in Int
  BY <1>1, <1>2, <1>3
<1>11. QED
  BY <1>2, <1>3, <1>7, <1>8, <1>9, <1>10

LEMMA TotalUnchanged ==
  ASSUME NEW es, EnginesOK(es), NEW new, EnginesOK(new), NEW c \in Currencies,
         \A s \in Shards : Balances(new[s], c) = Balances(es[s], c)
  PROVE  Total(new, c) = Total(es, c)
BY DEF Total

\* What is nobody's debt adds up.
LEMMA RichTotal ==
  ASSUME NEW es, EnginesOK(es), Rich(es)
  PROVE  /\ \A c \in Currencies :
              /\ Total(es, c) \in Nat
              /\ \A u \in Registered(es) :
                   BalanceOf(es, u, c) \in Nat /\ BalanceOf(es, u, c) <= Total(es, c)
         /\ TotalFees(es) \in Nat
         /\ \A s \in Shards : es[s].fees \in Nat /\ es[s].fees <= TotalFees(es)
<1>1. ASSUME NEW c \in Currencies
      PROVE  /\ Total(es, c) \in Nat
             /\ \A u \in Registered(es) :
                  BalanceOf(es, u, c) \in Nat /\ BalanceOf(es, u, c) <= Total(es, c)
  <2> DEFINE F == InAll(es, c)
  <2>1. ASSUME NEW s \in Shards
        PROVE  /\ F[s] \in Nat
               /\ \A u \in DOMAIN es[s].accounts :
                    BalanceOf(es, u, c) \in Nat /\ BalanceOf(es, u, c) <= F[s]
    <3> DEFINE D == DOMAIN es[s].accounts
               f == InShard(es, s, c)
    <3>1. \A u \in D : f[u] = BalanceOf(es, u, c) /\ f[u] \in Int
      BY ShardIs DEF InShard, Words
    <3>2. \A u \in D : es[s].accounts[u][c] >= 0
      BY DEF Rich, Currencies
    <3>3. \A u \in D : f[u] \in Nat
      BY <3>1, <3>2 DEF InShard
    <3>4. f = [u \in D |-> f[u]]
      BY DEF InShard
    <3>5. IsFiniteSet(D) /\ F[s] = SumOf(f)
      BY ShardIs, TotalIs
    <3> HIDE DEF D, f, F
    <3>6. f \in [D -> Nat]
      BY <3>3, <3>4
    <3>7. SumOf(f) \in Nat /\ \A u \in D : f[u] <= SumOf(f)
      BY <3>5, <3>6, SumOfAmounts
    <3>8. QED
      BY <3>1, <3>3, <3>5, <3>7 DEF D
  <2>2. F = [s \in Shards |-> F[s]] /\ Total(es, c) = SumOf(F)
    BY TotalIs
  <2> HIDE DEF F
  <2>3. F \in [Shards -> Nat]
    BY <2>1, <2>2
  <2>4. SumOf(F) \in Nat /\ \A s \in Shards : F[s] <= SumOf(F)
    BY <2>3, ShardsAreFinite, SumOfAmounts
  <2>5. ASSUME NEW u \in Registered(es)
        PROVE  BalanceOf(es, u, c) \in Nat /\ BalanceOf(es, u, c) <= Total(es, c)
    <3> DEFINE t == ShardOf[u]
    <3>1. t \in Shards /\ u \in DOMAIN es[t].accounts
      BY DEF Registered, Shards
    <3> HIDE DEF t
    <3>2. BalanceOf(es, u, c) \in Nat /\ BalanceOf(es, u, c) <= F[t] /\ F[t] \in Nat
      BY <2>1, <3>1
    <3>3. F[t] <= Total(es, c) /\ Total(es, c) \in Nat
      BY <2>2, <2>4, <3>1
    <3>4. QED
      BY <3>2, <3>3
  <2>6. QED
    BY <2>2, <2>4, <2>5
<1>2. TotalFees(es) \in Nat /\ \A s \in Shards : es[s].fees \in Nat /\ es[s].fees <= TotalFees(es)
  <2> DEFINE F == [s \in Shards |-> es[s].fees]
  <2>1. \A s \in Shards : es[s].fees \in Nat
    BY ShardIs DEF Rich, Words
  <2>2. F \in [Shards -> Nat] /\ \A s \in Shards : F[s] = es[s].fees
    BY <2>1
  <2>3. TotalFees(es) = SumOf(F)
    BY DEF TotalFees
  <2> HIDE DEF F
  <2>4. SumOf(F) \in Nat /\ \A s \in Shards : F[s] <= SumOf(F)
    BY <2>2, ShardsAreFinite, SumOfAmounts
  <2>5. QED
    BY <2>1, <2>2, <2>3, <2>4
<1>3. QED
  BY <1>1, <1>2

-----------------------------------------------------------------------------
(* What an event does to the accounts *)

LEMMA WithBalancesIs ==
  ASSUME NEW users, NEW engine, EngineOK(engine, users), NEW uid \in users,
         NEW x \in Words, NEW y \in Words
  PROVE  LET new == WithBalances(engine, uid, x, y)
         IN  /\ EngineOK(new, users)
             /\ DOMAIN new.accounts = DOMAIN engine.accounts /\ new.fees = engine.fees
             /\ new.accounts[uid]["base"] = x /\ new.accounts[uid]["quote"] = y
             /\ \A u \in users : u # uid => new.accounts[u] = engine.accounts[u]
<1> DEFINE new == WithBalances(engine, uid, x, y)
           W == Words
           T == 0..MaxTx
<1>1. EngineOK(new, users)
  BY BalancesTyped
<1>2. /\ engine \in [accounts : [users -> [base : W, quote : W]],
                     lastTx : [users -> T], fees : W]
      /\ x \in W /\ y \in W
  BY DEF EngineOK
<1> HIDE DEF W, T
<1>3. /\ DOMAIN new.accounts = DOMAIN engine.accounts /\ new.fees = engine.fees
      /\ new.accounts[uid]["base"] = x /\ new.accounts[uid]["quote"] = y
      /\ \A u \in users : u # uid => new.accounts[u] = engine.accounts[u]
  BY <1>2 DEF WithBalances
<1>4. QED
  BY <1>1, <1>3

\* post_process credits a user in the shard that is the user's.
CreditAll(es, uid, base, quote) ==
  [s \in Shards |-> IF Mine(s, uid) THEN Credit(es[s], uid, base, quote) ELSE es[s]]

CollectAll(es, uid, amount) == [s \in Shards |-> Collect(es[s], s, uid, amount)]

\* The accounts come to this much more than they did.
Gains(new, es, base, quote, fees) ==
  /\ EnginesOK(new) /\ Rich(new) /\ Registered(new) = Registered(es)
  /\ Total(new, "base") = Total(es, "base") + base
  /\ Total(new, "quote") = Total(es, "quote") + quote
  /\ TotalFees(new) = TotalFees(es) + fees

LEMMA CreditAllGains ==
  ASSUME NEW es, EnginesOK(es), Rich(es), NEW uid \in Registered(es),
         NEW base \in Nat, NEW quote \in Nat,
         Total(es, "base") + base <= MaxInt, Total(es, "quote") + quote <= MaxInt
  PROVE  Gains(CreditAll(es, uid, base, quote), es, base, quote, 0)
<1> DEFINE t == ShardOf[uid]
           engine == es[t]
           b == BalanceOf(es, uid, "base")
           q == BalanceOf(es, uid, "quote")
           x == b + base
           y == q + quote
           new == CreditAll(es, uid, base, quote)
<1>1. t \in Shards /\ uid \in DOMAIN engine.accounts /\ uid \in Users
  BY DEF Registered, Shards
<1>2. PICK users \in SUBSET {u \in Users : Mine(t, u)} :
        EngineOK(engine, users) /\ users = DOMAIN engine.accounts
  BY <1>1, UsersOfShard
<1>3. /\ b \in Nat /\ b <= Total(es, "base") /\ Total(es, "base") \in Nat
      /\ q \in Nat /\ q <= Total(es, "quote") /\ Total(es, "quote") \in Nat
      /\ TotalFees(es) \in Nat
  BY RichTotal DEF Currencies
<1>4. b = engine.accounts[uid].base /\ q = engine.accounts[uid].quote
  BY DEF BalanceOf
<1>5. x \in Nat /\ y \in Nat /\ x \in Words /\ y \in Words
  <2> HIDE DEF b, q
  <2>1. MaxInt \in Nat
    BY SymbolAssumption
  <2>2. QED
    BY <1>3, <2>1 DEF Words
<1>6. new[t] = WithBalances(engine, uid, x, y)
  <2>1. new[t] = Credit(engine, uid, base, quote)
    BY <1>1 DEF CreditAll, Mine
  <2>2. Word(x) = x /\ Word(y) = y
    <3> HIDE DEF x, y
    <3>1. QED
      BY <1>5, WordKeepsWords
  <2>3. Credit(engine, uid, base, quote)
          = [engine EXCEPT !.accounts[uid].base = Word(engine.accounts[uid].base + base),
                           !.accounts[uid].quote = Word(engine.accounts[uid].quote + quote)]
    BY <1>1, <1>2 DEF Credit, EngineOK
  <2>4. Word(engine.accounts[uid].base + base) = x /\ Word(engine.accounts[uid].quote + quote) = y
    BY <1>4, <2>2
  <2> HIDE DEF x, y, engine, new
  <2>5. QED
    BY <2>1, <2>3, <2>4 DEF WithBalances
<1>7. /\ EngineOK(new[t], users)
      /\ DOMAIN new[t].accounts = DOMAIN engine.accounts /\ new[t].fees = engine.fees
      /\ new[t].accounts[uid]["base"] = x /\ new[t].accounts[uid]["quote"] = y
      /\ \A u \in users : u # uid => new[t].accounts[u] = engine.accounts[u]
  <2> HIDE DEF x, y, engine, new
  <2>1. uid \in users
    BY <1>1, <1>2
  <2>2. QED
    BY <1>2, <1>5, <1>6, <2>1, WithBalancesIs
<1>8. /\ new = [s \in Shards |-> new[s]]
      /\ \A s \in Shards : s # t => new[s] = es[s]
  BY DEF CreditAll, Mine
<1> HIDE DEF new
<1>9. EnginesOK(new)
  <2>1. ASSUME NEW s \in Shards
        PROVE  \E present \in SUBSET {u \in Users : Mine(s, u)} : EngineOK(new[s], present)
    <3>1. CASE s = t
      BY <1>2, <1>7, <3>1
    <3>2. CASE s # t
      BY <1>8, <3>2 DEF EnginesOK
    <3>3. QED
      BY <3>1, <3>2
  <2>2. QED
    BY <1>8, <2>1 DEF EnginesOK
<1>10. Rich(new)
  <2> SUFFICES ASSUME NEW s \in Shards
               PROVE  /\ new[s].fees >= 0
                      /\ \A u \in DOMAIN new[s].accounts :
                           new[s].accounts[u].base >= 0 /\ new[s].accounts[u].quote >= 0
    BY DEF Rich
  <2>1. /\ es[s].fees >= 0
        /\ \A u \in DOMAIN es[s].accounts :
             es[s].accounts[u].base >= 0 /\ es[s].accounts[u].quote >= 0
    BY DEF Rich
  <2>2. CASE s # t
    BY <1>8, <2>1, <2>2
  <2>3. CASE s = t
    <3>1. x >= 0 /\ y >= 0
      <4> HIDE DEF x, y
      <4>1. QED
        BY <1>5
    <3> HIDE DEF x, y
    <3>2. QED
      BY <1>2, <1>7, <2>1, <2>3, <3>1
  <2>4. QED
    BY <2>2, <2>3
<1>11. Registered(new) = Registered(es)
  <2>1. ASSUME NEW u \in Users
        PROVE  DOMAIN new[ShardOf[u]].accounts = DOMAIN es[ShardOf[u]].accounts
    <3>1. ShardOf[u] \in Shards
      BY DEF Shards
    <3>2. QED
      BY <1>7, <1>8, <3>1
  <2>2. QED
    BY <2>1 DEF Registered
<1>12. ASSUME NEW c \in Currencies
       PROVE  OthersAsTheyWere(new, es, uid, c)
  <2> SUFFICES ASSUME NEW s \in Shards
               PROVE  /\ DOMAIN new[s].accounts = DOMAIN es[s].accounts
                      /\ \A u \in DOMAIN es[s].accounts :
                           u # uid => new[s].accounts[u][c] = es[s].accounts[u][c]
    BY DEF OthersAsTheyWere
  <2>1. CASE s # t
    BY <1>8, <2>1
  <2>2. CASE s = t
    BY <1>2, <1>7, <2>2
  <2>3. QED
    BY <2>1, <2>2
<1>13. BalanceOf(new, uid, "base") = x /\ BalanceOf(new, uid, "quote") = y
  BY <1>7 DEF BalanceOf
<1>14. /\ Total(new, "base") = Total(es, "base") - b + x
       /\ Total(new, "quote") = Total(es, "quote") - q + y
  <2> HIDE DEF x, y
  <2>1. "base" \in Currencies /\ "quote" \in Currencies
    BY DEF Currencies
  <2>2. QED
    BY <1>9, <1>12, <1>13, <2>1, TotalChanged
<1>15. TotalFees(new) = TotalFees(es)
  <2>1. \A s \in Shards : new[s].fees = es[s].fees
    BY <1>7, <1>8
  <2>2. QED
    BY <2>1 DEF TotalFees
<1> HIDE DEF b, q
<1>16. /\ Total(new, "base") = Total(es, "base") + base
       /\ Total(new, "quote") = Total(es, "quote") + quote
       /\ TotalFees(new) = TotalFees(es) + 0
  BY <1>3, <1>14, <1>15
<1>17. QED
  BY <1>9, <1>10, <1>11, <1>16 DEF Gains, new

LEMMA CollectAllGains ==
  ASSUME NEW es, EnginesOK(es), Rich(es), NEW uid \in Registered(es),
         NEW amount \in Nat, TotalFees(es) + amount <= MaxInt
  PROVE  Gains(CollectAll(es, uid, amount), es, 0, 0, amount)
<1> DEFINE t == ShardOf[uid]
           fees == es[t].fees
           x == fees + amount
           new == CollectAll(es, uid, amount)
           F == [s \in Shards |-> es[s].fees]
           G == [s \in Shards |-> new[s].fees]
<1>1. t \in Shards
  BY DEF Registered, Shards
<1>2. /\ fees \in Nat /\ fees <= TotalFees(es) /\ TotalFees(es) \in Nat
      /\ Total(es, "base") \in Nat /\ Total(es, "quote") \in Nat
      /\ \A s \in Shards : es[s].fees \in Nat
  BY <1>1, RichTotal DEF Currencies
<1>3. x \in Nat /\ x \in Words
  <2>1. MaxInt \in Nat
    BY SymbolAssumption
  <2> HIDE DEF fees
  <2>2. QED
    BY <1>2, <2>1 DEF Words
<1>4. /\ new = [s \in Shards |-> new[s]]
      /\ \A s \in Shards : s # t => new[s] = es[s]
      /\ new[t] = [es[t] EXCEPT !.fees = x]
  <2>1. Word(x) = x
    <3> HIDE DEF x
    <3>1. QED
      BY <1>3, WordKeepsWords
  <2>2. new[t] = [es[t] EXCEPT !.fees = Word(x)]
    BY <1>1 DEF CollectAll, Collect, Mine
  <2>3. \A s \in Shards : s # t => new[s] = es[s]
    BY DEF CollectAll, Collect, Mine
  <2>4. QED
    BY <2>1, <2>2, <2>3 DEF CollectAll
<1>5. PICK users \in SUBSET {u \in Users : Mine(t, u)} : EngineOK(es[t], users)
  BY <1>1 DEF EnginesOK
<1>6. EngineOK(new[t], users) /\ new[t].accounts = es[t].accounts /\ new[t].fees = x
  <2> HIDE DEF x, new
  <2>1. QED
    BY <1>3, <1>4, <1>5 DEF EngineOK
<1> HIDE DEF new
<1>7. EnginesOK(new)
  <2>1. ASSUME NEW s \in Shards
        PROVE  \E present \in SUBSET {u \in Users : Mine(s, u)} : EngineOK(new[s], present)
    <3>1. CASE s = t
      BY <1>5, <1>6, <3>1
    <3>2. CASE s # t
      BY <1>4, <3>2 DEF EnginesOK
    <3>3. QED
      BY <3>1, <3>2
  <2>2. QED
    BY <1>4, <2>1 DEF EnginesOK
<1>8. \A s \in Shards : new[s].accounts = es[s].accounts
  BY <1>4, <1>6
<1>9. Rich(new)
  <2>1. x >= 0
    <3> HIDE DEF x
    <3>1. QED
      BY <1>3
  <2>2. \A s \in Shards : new[s].fees >= 0
    BY <1>4, <1>6, <2>1 DEF Rich
  <2>3. QED
    BY <1>8, <2>2 DEF Rich
<1>10. Registered(new) = Registered(es)
  <2>1. \A u \in Users : ShardOf[u] \in Shards
    BY DEF Shards
  <2>2. QED
    BY <1>8, <2>1 DEF Registered
<1>11. \A c \in Currencies : Total(new, c) = Total(es, c)
  BY <1>8 DEF Total, Balances
<1>12. TotalFees(new) = TotalFees(es) + amount
  <2>1. /\ F \in [Shards -> Nat] /\ F[t] = fees /\ TotalFees(es) = SumOf(F)
        /\ G[t] = x /\ TotalFees(new) = SumOf(G)
    BY <1>1, <1>2, <1>6 DEF TotalFees
  <2>2. \A s \in Shards : s # t => G[s] = F[s]
    BY <1>4
  <2>3. G \in [Shards -> Int]
    <3>1. \A s \in Shards : new[s].fees \in Int
      BY <1>3, <1>2, <1>4, <1>6
    <3>2. QED
      BY <3>1
  <2> HIDE DEF F, G, t, x
  <2>4. ButFor(t, G, F, Shards)
    BY <2>2 DEF ButFor
  <2>5. F \in [Shards -> Int]
    BY <2>1
  <2>6. SumOf(G) = SumOf(F) - F[t] + G[t]
    BY <1>1, <2>3, <2>4, <2>5, ShardsAreFinite, SumChanged
  <2>7. SumOf(G) = TotalFees(es) - fees + x /\ x = fees + amount
    BY <2>1, <2>6 DEF x
  <2> HIDE DEF fees
  <2>8. QED
    BY <1>2, <2>1, <2>7
<1>13. Total(new, "base") = Total(es, "base") + 0 /\ Total(new, "quote") = Total(es, "quote") + 0
  BY <1>2, <1>11 DEF Currencies
<1>14. QED
  BY <1>7, <1>9, <1>10, <1>12, <1>13 DEF Gains, new

\* The taker and the maker of a trade are credited, and the fees collected.
LEMMA TradeGains ==
  ASSUME NEW es, EnginesOK(es), Rich(es), NEW uid \in Registered(es), NEW maker \in Registered(es),
         NEW b1 \in Nat, NEW q1 \in Nat, NEW b2 \in Nat, NEW q2 \in Nat, NEW fees \in Nat,
         Total(es, "base") + (b1 + b2) <= MaxInt,
         Total(es, "quote") + TotalFees(es) + (q1 + q2 + fees) <= MaxInt
  PROVE  Gains(CreditAll(CreditAll(CollectAll(es, uid, fees), uid, b1, q1), maker, b2, q2),
               es, b1 + b2, q1 + q2, fees)
<1> DEFINE es1 == CollectAll(es, uid, fees)
           es2 == CreditAll(es1, uid, b1, q1)
           es3 == CreditAll(es2, maker, b2, q2)
<1>1. /\ Total(es, "base") \in Nat /\ Total(es, "quote") \in Nat /\ TotalFees(es) \in Nat
      /\ MaxInt \in Nat
  BY RichTotal, SymbolAssumption DEF Currencies
<1>2. Gains(es1, es, 0, 0, fees)
  <2>1. TotalFees(es) + fees <= MaxInt
    BY <1>1
  <2>2. QED
    BY <2>1, CollectAllGains
<1> HIDE DEF es1
<1>3. Gains(es2, es1, b1, q1, 0)
  <2>1. Total(es1, "base") + b1 <= MaxInt /\ Total(es1, "quote") + q1 <= MaxInt
    BY <1>1, <1>2 DEF Gains
  <2>2. EnginesOK(es1) /\ Rich(es1) /\ uid \in Registered(es1)
    BY <1>2 DEF Gains
  <2>3. QED
    BY <2>1, <2>2, CreditAllGains
<1> HIDE DEF es2
<1>4. Gains(es3, es2, b2, q2, 0)
  <2>1. Total(es2, "base") + b2 <= MaxInt /\ Total(es2, "quote") + q2 <= MaxInt
    BY <1>1, <1>2, <1>3 DEF Gains
  <2>2. EnginesOK(es2) /\ Rich(es2) /\ maker \in Registered(es2)
    BY <1>2, <1>3 DEF Gains
  <2>3. QED
    BY <2>1, <2>2, CreditAllGains
<1> HIDE DEF es3
<1>5. Gains(es3, es, b1 + b2, q1 + q2, fees)
  BY <1>1, <1>2, <1>3, <1>4 DEF Gains
<1>6. QED
  BY <1>5 DEF es3, es2, es1

\* The fees are modest: they never exceed what is traded, and nobody pays more for
\* making than for taking.  add_symbol checks neither.
ModestFees ==
  \A s \in Specs :
    /\ s.spot /\ s.makerFee <= s.takerFee
    /\ \A p \in Prices : p > 0 => s.takerFee <= p * s.quoteScale

\* The amounts of a trade.
LEMMA TradeAmounts ==
  ASSUME NEW size \in Nat, NEW price \in Nat, NEW hold \in Nat, NEW scale \in Nat,
         NEW taking \in Nat, NEW making \in Nat,
         price <= hold, taking <= price * scale, making <= taking
  PROVE  LET notional == size * price * scale
             takerFee == size * taking
             makerFee == size * making
             refund == size * (hold - price) * scale
         IN  /\ notional - takerFee \in Nat /\ notional - makerFee \in Nat
             /\ refund \in Nat /\ takerFee - makerFee \in Nat /\ takerFee + makerFee \in Nat
             /\ refund + (takerFee - makerFee) \in Nat
             /\ (notional - takerFee) + (refund + (takerFee - makerFee)) + (takerFee + makerFee)
                  = size * (hold * scale + taking)
             /\ refund + (notional - makerFee) + (takerFee + makerFee)
                  = size * (hold * scale + taking)
<1> DEFINE value == price * scale
           worth == hold * scale
           notional == size * price * scale
           takerFee == size * taking
           makerFee == size * making
           refund == size * (hold - price) * scale
<1>1. \A i, j \in Nat : i * j \in Nat
  OBVIOUS
<1>2. \A i, j, k \in Int : /\ i * j * k = i * (j * k)
                           /\ i * (j - k) = i * j - i * k /\ (j - k) * i = j * i - k * i
                           /\ i * (j + k) = i * j + i * k
  OBVIOUS
<1>3. value \in Nat /\ worth \in Nat /\ hold - price \in Nat
  <2>1. value \in Nat /\ worth \in Nat
    BY <1>1
  <2> HIDE DEF value, worth
  <2>2. QED
    BY <2>1
<1>4. notional = size * value /\ refund = size * ((hold - price) * scale)
      /\ (hold - price) * scale = worth - value
  BY <1>2, <1>3
<1>5. taking <= value
  OBVIOUS
<1> DEFINE gap == worth - value
<1>6. gap \in Nat
  <2>1. gap = (hold - price) * scale
    BY <1>4
  <2> HIDE DEF gap
  <2>2. QED
    BY <1>1, <1>3, <2>1
<1> HIDE DEF value, worth, notional, refund
<1>7. /\ size * (value - taking) = size * value - size * taking
      /\ size * (value - making) = size * value - size * making
      /\ size * (taking - making) = size * taking - size * making
      /\ size * (worth + taking) = size * worth + size * taking
      /\ size * gap = size * worth - size * value
  BY <1>2, <1>3
<1>8. /\ value - taking \in Nat /\ value - making \in Nat /\ taking - making \in Nat
  BY <1>3, <1>5
<1>9. /\ size * (value - taking) \in Nat /\ size * (value - making) \in Nat
      /\ size * (taking - making) \in Nat /\ size * gap \in Nat
      /\ size * value \in Nat /\ size * worth \in Nat /\ size * taking \in Nat /\ size * making \in Nat
  <2> HIDE DEF gap
  <2>1. QED
    BY <1>1, <1>3, <1>6, <1>8
<1> DEFINE a == size * value
           w == size * worth
<1>10. /\ notional = a /\ refund = w - a /\ refund \in Nat
       /\ notional - takerFee \in Nat /\ notional - makerFee \in Nat
       /\ takerFee - makerFee \in Nat
       /\ size * (worth + taking) = w + takerFee
       /\ a \in Nat /\ w \in Nat /\ takerFee \in Nat /\ makerFee \in Nat
  <2>1. refund = size * gap
    BY <1>4
  <2> HIDE DEF gap
  <2>2. QED
    BY <1>4, <1>7, <1>9, <2>1
<1> HIDE DEF a, w, takerFee, makerFee
<1>11. /\ takerFee + makerFee \in Nat /\ refund + (takerFee - makerFee) \in Nat
       /\ (notional - takerFee) + (refund + (takerFee - makerFee)) + (takerFee + makerFee)
            = w + takerFee
       /\ refund + (notional - makerFee) + (takerFee + makerFee) = w + takerFee
  BY <1>10
<1>12. QED
  BY <1>10, <1>11 DEF notional, refund, takerFee, makerFee, worth

\* What the engines make of one event.
Settles(new, es, base, quote) ==
  /\ EnginesOK(new) /\ Rich(new) /\ Registered(new) = Registered(es)
  /\ Total(new, "base") = Total(es, "base") + base
  /\ Total(new, "quote") + TotalFees(new) = Total(es, "quote") + TotalFees(es) + quote

EngineOf(es, uid, action, e) == [s \in Shards |-> SettleEvent(es[s], s, uid, action, e)]

\* handle_trade_event in all shards.
LEMMA TradeSettles ==
  ASSUME spec \in Specs, ModestFees, NEW es, EnginesOK(es), Rich(es),
         NEW uid \in Registered(es), NEW action \in Actions,
         NEW e \in EventsOf(Registered(es), OrderIds), e.type = "Trade",
         SoundEvent(e), WithinHold(e),
         Total(es, "base") + e.size * Unit("Ask", e.hold) <= MaxInt,
         Total(es, "quote") + TotalFees(es) + e.size * Unit("Bid", e.hold) <= MaxInt
  PROVE  Settles(EngineOf(es, uid, action, e), es, e.size * Unit("Ask", e.hold),
                 e.size * Unit("Bid", e.hold))
<1> DEFINE new == EngineOf(es, uid, action, e)
           notional == e.size * e.price * spec.quoteScale
           base == e.size * spec.baseScale
           takerFee == e.size * spec.takerFee
           makerFee == e.size * spec.makerFee
           refund == e.size * (e.hold - e.price) * spec.quoteScale
           rest == refund + (takerFee - makerFee)
           fees == takerFee + makerFee
           freed == e.size * Unit("Bid", e.hold)
<1>1. e.uid \in Registered(es)
  BY DEF EventsOf
<1>2. /\ spec.takerFee \in Nat /\ spec.makerFee \in Nat /\ spec.makerFee <= spec.takerFee
      /\ spec.baseScale \in Nat /\ spec.quoteScale \in Nat
  BY SpecTyped DEF ModestFees
<1>3. /\ e.size \in Nat /\ e.hold \in Nat /\ e.price \in Prices /\ e.price > 0 /\ e.price <= e.hold
      /\ e.price \in Nat /\ spec.takerFee <= e.price * spec.quoteScale
  <2>1. e.size \in Nat /\ e.hold \in Nat /\ e.price \in Prices /\ e.price > 0 /\ e.price <= e.hold
    BY DEF SoundEvent, WithinHold
  <2>2. e.price \in Nat
    <3>1. Prices \subseteq Int
      BY InputAssumption
    <3>2. \A p \in Int : p > 0 => p \in Nat
      OBVIOUS
    <3>3. QED
      BY <2>1, <3>1, <3>2
  <2>3. spec.takerFee <= e.price * spec.quoteScale
    BY <2>1 DEF ModestFees
  <2>4. QED
    BY <2>1, <2>2, <2>3
<1>4. /\ notional - takerFee \in Nat /\ notional - makerFee \in Nat
      /\ refund \in Nat /\ fees \in Nat /\ rest \in Nat
      /\ (notional - takerFee) + rest + fees = freed
      /\ refund + (notional - makerFee) + fees = freed
  <2> DEFINE size == e.size
             price == e.price
             hold == e.hold
             scale == spec.quoteScale
             taking == spec.takerFee
             making == spec.makerFee
  <2>1. /\ size \in Nat /\ price \in Nat /\ hold \in Nat /\ scale \in Nat /\ taking \in Nat
        /\ making \in Nat /\ price <= hold /\ taking <= price * scale /\ making <= taking
    BY <1>2, <1>3
  <2>2. freed = size * (hold * scale + taking)
    BY DEF Unit
  <2> HIDE DEF size, price, hold, scale, taking, making, freed
  <2>3. /\ size * price * scale - size * taking \in Nat
        /\ size * price * scale - size * making \in Nat
        /\ size * (hold - price) * scale \in Nat
        /\ size * taking + size * making \in Nat
        /\ size * (hold - price) * scale + (size * taking - size * making) \in Nat
        /\ (size * price * scale - size * taking)
             + (size * (hold - price) * scale + (size * taking - size * making))
             + (size * taking + size * making) = size * (hold * scale + taking)
        /\ size * (hold - price) * scale + (size * price * scale - size * making)
             + (size * taking + size * making) = size * (hold * scale + taking)
    BY ONLY <2>1, TradeAmounts
  <2>4. QED
    BY <2>2, <2>3 DEF size, price, hold, scale, taking, making
<1>5. base \in Nat /\ e.size * Unit("Ask", e.hold) = base
  <2>1. \A i, j \in Nat : i * j \in Nat
    OBVIOUS
  <2>2. QED
    BY <1>2, <1>3, <2>1 DEF Unit
<1>6. Total(es, "base") + base <= MaxInt /\ Total(es, "quote") + TotalFees(es) + freed <= MaxInt
  BY <1>5
<1>7. /\ Total(es, "base") \in Nat /\ Total(es, "quote") \in Nat /\ TotalFees(es) \in Nat
  BY RichTotal DEF Currencies
<1>8. /\ action = "Ask" =>
           new = CreditAll(CreditAll(CollectAll(es, uid, fees), uid, 0, notional - takerFee),
                           e.uid, base, rest)
      /\ action # "Ask" =>
           new = CreditAll(CreditAll(CollectAll(es, uid, fees), uid, base, refund),
                           e.uid, 0, notional - makerFee)
  <2> DEFINE ask == CreditAll(CreditAll(CollectAll(es, uid, fees), uid, 0, notional - takerFee),
                              e.uid, base, rest)
             bid == CreditAll(CreditAll(CollectAll(es, uid, fees), uid, base, refund),
                              e.uid, 0, notional - makerFee)
  <2>1. ASSUME NEW s \in Shards
        PROVE  /\ action = "Ask" => new[s] = ask[s]
               /\ action # "Ask" => new[s] = bid[s]
    <3>1. new[s] = SettleTrade(es[s], s, uid, action, e)
      BY DEF EngineOf, SettleEvent
    <3> HIDE DEF new
    <3>2. action = "Ask" => SettleTrade(es[s], s, uid, action, e) = ask[s]
      BY DEF SettleTrade, CreditAll, CollectAll
    <3>3. action # "Ask" => SettleTrade(es[s], s, uid, action, e) = bid[s]
      BY DEF SettleTrade, CreditAll, CollectAll
    <3>4. QED
      BY <3>1, <3>2, <3>3
  <2>2. new = [s \in Shards |-> new[s]] /\ ask = [s \in Shards |-> ask[s]]
        /\ bid = [s \in Shards |-> bid[s]]
    BY DEF EngineOf, CreditAll
  <2> HIDE DEF new, ask, bid
  <2>3. (action = "Ask" => new = ask) /\ (action # "Ask" => new = bid)
    BY <2>1, <2>2
  <2>4. QED
    BY <2>3 DEF ask, bid
<1> HIDE DEF new, notional, base, takerFee, makerFee, refund, rest, fees, freed
<1>9. \/ Gains(new, es, 0 + base, (notional - takerFee) + rest, fees)
      \/ Gains(new, es, base + 0, refund + (notional - makerFee), fees)
  <2>1. CASE action = "Ask"
    <3> DEFINE pay == notional - takerFee
    <3>1. /\ pay \in Nat /\ rest \in Nat /\ fees \in Nat /\ 0 \in Nat /\ base \in Nat
          /\ Total(es, "base") + (0 + base) <= MaxInt
          /\ Total(es, "quote") + TotalFees(es) + (pay + rest + fees) <= MaxInt
      BY <1>4, <1>5, <1>6, <1>7
    <3>2. new = CreditAll(CreditAll(CollectAll(es, uid, fees), uid, 0, pay), e.uid, base, rest)
      BY <1>8, <2>1
    <3> HIDE DEF pay
    <3>3. Gains(new, es, 0 + base, pay + rest, fees)
      BY <1>1, <3>1, <3>2, TradeGains
    <3>4. QED
      BY <3>3 DEF pay
  <2>2. CASE action # "Ask"
    <3> DEFINE pay == notional - makerFee
    <3>1. /\ pay \in Nat /\ refund \in Nat /\ fees \in Nat /\ 0 \in Nat /\ base \in Nat
          /\ Total(es, "base") + (base + 0) <= MaxInt
          /\ Total(es, "quote") + TotalFees(es) + (refund + pay + fees) <= MaxInt
      BY <1>4, <1>5, <1>6, <1>7
    <3>2. new = CreditAll(CreditAll(CollectAll(es, uid, fees), uid, base, refund), e.uid, 0, pay)
      BY <1>8, <2>2
    <3> HIDE DEF pay
    <3>3. Gains(new, es, base + 0, refund + pay, fees)
      BY <1>1, <3>1, <3>2, TradeGains
    <3>4. QED
      BY <3>3 DEF pay
  <2>3. QED
    BY <2>1, <2>2
<1>10. Settles(new, es, base, freed)
  BY <1>4, <1>5, <1>7, <1>9 DEF Gains, Settles
<1>11. QED
  BY <1>5, <1>10 DEF new, freed

\* handle_reject_event in all shards, for an order on the side of `side`.
LEMMA RejectSettles ==
  ASSUME spec \in Specs, NEW es, EnginesOK(es), Rich(es), NEW uid \in Registered(es),
         NEW side \in Actions, NEW e, SoundEvent(e),
         NEW x, x = IF side = "Ask" THEN e.size * Unit("Ask", e.hold) ELSE 0,
         NEW y, y = IF side = "Bid" THEN e.size * Unit("Bid", e.hold) ELSE 0,
         Total(es, "base") + x <= MaxInt, Total(es, "quote") + TotalFees(es) + y <= MaxInt,
         NEW new, new = [s \in Shards |-> SettleReject(es[s], s, uid, side, e)]
  PROVE  Settles(new, es, x, y)
<1> DEFINE base == e.size * spec.baseScale
           quote == e.size * e.hold * spec.quoteScale + e.size * spec.takerFee
<1>1. /\ spec.takerFee \in Nat /\ spec.baseScale \in Nat /\ spec.quoteScale \in Nat
      /\ e.size \in Nat /\ e.hold \in Nat
  BY SpecTyped DEF SoundEvent
<1>2. /\ e.size * Unit("Ask", e.hold) = base /\ e.size * Unit("Bid", e.hold) = quote
      /\ base \in Nat /\ quote \in Nat
  <2>1. \A i, j \in Nat : i * j \in Nat
    OBVIOUS
  <2>2. \A a, h, k, f \in Nat : a * (h * k + f) = a * h * k + a * f /\ a * h * k + a * f \in Nat
    OBVIOUS
  <2>3. quote \in Nat /\ e.size * (e.hold * spec.quoteScale + spec.takerFee) = quote
    BY <1>1, <2>2
  <2>4. base \in Nat
    BY <1>1, <2>1
  <2>5. Unit("Ask", e.hold) = spec.baseScale
    BY DEF Unit
  <2>6. Unit("Bid", e.hold) = e.hold * spec.quoteScale + spec.takerFee
    BY DEF Unit
  <2>7. QED
    BY <2>3, <2>4, <2>5, <2>6
<1>3. /\ side = "Ask" => new = CreditAll(es, uid, base, 0)
      /\ side # "Ask" => new = CreditAll(es, uid, 0, quote)
  BY DEF SettleReject, CreditAll
<1>4. /\ Total(es, "base") \in Nat /\ Total(es, "quote") \in Nat /\ TotalFees(es) \in Nat
      /\ MaxInt \in Nat
  BY RichTotal, SymbolAssumption DEF Currencies
<1>5. /\ side = "Ask" => x = base /\ y = 0
      /\ side # "Ask" => x = 0 /\ y = quote
  BY <1>2 DEF Actions
<1> HIDE DEF base, quote
<1>6. /\ x \in Nat /\ y \in Nat /\ new = CreditAll(es, uid, x, y)
  BY <1>2, <1>3, <1>5
<1>7. Total(es, "quote") + y <= MaxInt
  BY <1>4, <1>6
<1>8. Gains(new, es, x, y, 0)
  BY <1>6, <1>7, CreditAllGains
<1>9. QED
  BY <1>4, <1>6, <1>8 DEF Gains, Settles

\* What the engines make of an event: what it gives back.
LEMMA EventSettles ==
  ASSUME spec \in Specs, ModestFees, NEW es, EnginesOK(es), Rich(es),
         NEW uid \in Registered(es), NEW action \in Actions,
         NEW e \in EventsOf(Registered(es), OrderIds), SoundEvent(e), WithinHold(e),
         Total(es, "base") + Freed(e, action, "Ask") <= MaxInt,
         Total(es, "quote") + TotalFees(es) + Freed(e, action, "Bid") <= MaxInt
  PROVE  Settles(EngineOf(es, uid, action, e), es, Freed(e, action, "Ask"), Freed(e, action, "Bid"))
<1> DEFINE new == EngineOf(es, uid, action, e)
           x == Freed(e, action, "Ask")
           y == Freed(e, action, "Bid")
<1>1. CASE e.type = "Trade"
  <2>1. x = e.size * Unit("Ask", e.hold) /\ y = e.size * Unit("Bid", e.hold)
    BY <1>1 DEF Freed, GivesBack
  <2>2. /\ Total(es, "base") + e.size * Unit("Ask", e.hold) <= MaxInt
        /\ Total(es, "quote") + TotalFees(es) + e.size * Unit("Bid", e.hold) <= MaxInt
    BY <2>1
  <2>3. Settles(new, es, e.size * Unit("Ask", e.hold), e.size * Unit("Bid", e.hold))
    BY <1>1, <2>2, TradeSettles
  <2>4. QED
    BY <2>1, <2>3
<1>2. ASSUME NEW side \in Actions,
             \A s \in Shards : new[s] = SettleReject(es[s], s, uid, side, e),
             \A p \in Actions : GivesBack(e, action, p) <=> p = side
      PROVE  Settles(new, es, x, y)
  <2>1. /\ x = IF side = "Ask" THEN e.size * Unit("Ask", e.hold) ELSE 0
        /\ y = IF side = "Bid" THEN e.size * Unit("Bid", e.hold) ELSE 0
    <3>1. /\ GivesBack(e, action, "Ask") <=> side = "Ask"
          /\ GivesBack(e, action, "Bid") <=> side = "Bid"
      BY <1>2 DEF Actions
    <3>2. QED
      BY <3>1 DEF Freed
  <2>2. new = [s \in Shards |-> SettleReject(es[s], s, uid, side, e)]
    BY <1>2 DEF EngineOf
  <2>3. Total(es, "base") + x <= MaxInt /\ Total(es, "quote") + TotalFees(es) + y <= MaxInt
    OBVIOUS
  <2> HIDE DEF new, x, y
  <2>4. QED
    BY <2>1, <2>2, <2>3, RejectSettles
<1>3. CASE e.type = "Reject"
  <2>1. \A s \in Shards : new[s] = SettleReject(es[s], s, uid, action, e)
    BY <1>3 DEF EngineOf, SettleEvent
  <2>2. \A p \in Actions : GivesBack(e, action, p) <=> p = action
    BY <1>3 DEF GivesBack
  <2> HIDE DEF new, x, y
  <2>3. Settles(new, es, x, y)
    BY <1>2, <2>1, <2>2
  <2>4. QED
    BY <2>3 DEF new, x, y
<1>4. CASE e.type = "RejectMaker"
  <2>1. \A s \in Shards : new[s] = SettleReject(es[s], s, uid, Opposite(action), e)
    BY <1>4 DEF EngineOf, SettleEvent
  <2>2. \A p \in Actions : GivesBack(e, action, p) <=> p = Opposite(action)
    BY <1>4 DEF GivesBack
  <2>3. Opposite(action) \in Actions
    BY DEF Opposite, Actions
  <2> HIDE DEF new, x, y
  <2>4. Settles(new, es, x, y)
    BY <1>2, <2>1, <2>2, <2>3
  <2>5. QED
    BY <2>4 DEF new, x, y
<1>5. e.type \in {"Trade", "Reject", "RejectMaker"}
  BY DEF EventsOf
<1>6. QED
  BY <1>1, <1>3, <1>4, <1>5

LEMMA FreedIsAmount ==
  ASSUME spec \in Specs, NEW e, SoundEvent(e), NEW action, NEW side \in Actions
  PROVE  Freed(e, action, side) \in Nat
<1>1. Unit(side, e.hold) \in Nat /\ e.size \in Nat
  <2>1. e.hold \in Int /\ e.hold \in Nat /\ e.size \in Nat
    BY DEF SoundEvent
  <2>2. QED
    BY <2>1, UnitTyped
<1>2. \A i, j \in Nat : i * j \in Nat
  OBVIOUS
<1>3. e.size * Unit(side, e.hold) \in Nat
  BY <1>1, <1>2
<1>4. QED
  BY <1>3 DEF Freed

\* What the first n of sound events give back.
SoundEvents(users) == {e \in EventsOf(users, OrderIds) : SoundEvent(e)}
FreesSoundly(action, side, users) == [e \in SoundEvents(users) |-> Freed(e, action, side)]

LEMMA FreesAlong ==
  ASSUME spec \in Specs, NEW users, NEW action, NEW side \in Actions,
         NEW events \in Seq(EventsOf(users, OrderIds)), Sound(events)
  PROVE  LET v == FreesSoundly(action, side, users)
         IN  /\ events \in Seq(SoundEvents(users)) /\ Len(events) \in Nat
             /\ v \in [SoundEvents(users) -> Nat]
             /\ \A n \in 1..Len(events) : v[events[n]] = Freed(events[n], action, side)
             /\ Along(Frees(action, side, users), events) = Along(v, events)
<1> DEFINE E == EventsOf(users, OrderIds)
           S == SoundEvents(users)
           v == FreesSoundly(action, side, users)
           w == Frees(action, side, users)
<1>1. Len(events) \in Nat /\ DOMAIN events = 1..Len(events)
      /\ events \in [1..Len(events) -> E]
  BY LenProperties
<1>2. \A n \in 1..Len(events) : events[n] \in E /\ events[n] \in S
  BY <1>1 DEF Sound, SoundEvents
<1>3. events \in [1..Len(events) -> S]
  <2> HIDE DEF S, E
  <2>1. QED
    BY <1>1, <1>2
<1>4. events \in Seq(S)
  <2> HIDE DEF S
  <2>1. QED
    BY <1>1, <1>3, SeqDef
<1>5. v \in [S -> Nat]
  BY FreedIsAmount DEF SoundEvents, FreesSoundly
<1>6. \A n \in 1..Len(events) : v[events[n]] = Freed(events[n], action, side)
  BY <1>2 DEF FreesSoundly
<1>7. \A n \in 1..Len(events) : w[events[n]] = Freed(events[n], action, side)
  BY <1>2 DEF Frees
<1> HIDE DEF v, w
<1>8. Along(w, events) = Along(v, events)
  <2>1. [i \in 1..Len(events) |-> w[events[i]]] = [i \in 1..Len(events) |-> v[events[i]]]
    BY <1>6, <1>7
  <2>2. QED
    BY <2>1 DEF Along
<1>9. QED
  BY <1>1, <1>4, <1>5, <1>6, <1>8 DEF v, w, S

\* post_process: what the events give back comes to the accounts.
LEMMA SettleSettles ==
  ASSUME spec \in Specs, ModestFees, NEW es, EnginesOK(es), Rich(es),
         NEW uid, NEW action \in Actions,
         NEW events \in Seq(EventsOf(Registered(es), OrderIds)),
         events # <<>> => uid \in Registered(es), Sound(events),
         \A n \in 1..Len(events) : WithinHold(events[n]),
         NEW x, x = Along(Frees(action, "Ask", Registered(es)), events),
         NEW y, y = Along(Frees(action, "Bid", Registered(es)), events),
         Total(es, "base") + x <= MaxInt, Total(es, "quote") + TotalFees(es) + y <= MaxInt
  PROVE  Settles(Settle(es, uid, action, events), es, x, y)
<1> DEFINE R == Registered(es)
           S == SoundEvents(R)
           v == FreesSoundly(action, "Ask", R)
           w == FreesSoundly(action, "Bid", R)
           after == Settlement(es, uid, action, events)
           base == Total(es, "base")
           quote == Total(es, "quote") + TotalFees(es)
           X(n) == SumUpto(v, events, n)
           Y(n) == SumUpto(w, events, n)
           T == {n \in Nat : n <= Len(events) => Settles(after[n], es, X(n), Y(n))}
<1>1. /\ events \in Seq(S) /\ Len(events) \in Nat /\ v \in [S -> Nat] /\ w \in [S -> Nat]
      /\ \A n \in 1..Len(events) : /\ v[events[n]] = Freed(events[n], action, "Ask")
                                   /\ w[events[n]] = Freed(events[n], action, "Bid")
      /\ x = Along(v, events) /\ y = Along(w, events)
  <2>1. "Ask" \in Actions /\ "Bid" \in Actions
    BY DEF Actions
  <2>2. QED
    BY <2>1, FreesAlong
<1>2. /\ X(0) = 0 /\ Y(0) = 0 /\ X(Len(events)) = x /\ Y(Len(events)) = y
      /\ \A n \in 0..Len(events) : X(n) \in Nat /\ X(n) <= x /\ Y(n) \in Nat /\ Y(n) <= y
      /\ \A n \in 1..Len(events) : /\ X(n) = X(n - 1) + Freed(events[n], action, "Ask")
                                   /\ Y(n) = Y(n - 1) + Freed(events[n], action, "Bid")
  <2> HIDE DEF S, v, w
  <2>1. /\ SumUpto(v, events, 0) = 0 /\ SumUpto(v, events, Len(events)) = x
        /\ \A n \in 0..Len(events) : SumUpto(v, events, n) \in Nat /\ SumUpto(v, events, n) <= x
        /\ \A n \in 1..Len(events) : SumUpto(v, events, n) = SumUpto(v, events, n - 1) + v[events[n]]
    BY <1>1, AlongStepByStep
  <2>2. /\ SumUpto(w, events, 0) = 0 /\ SumUpto(w, events, Len(events)) = y
        /\ \A n \in 0..Len(events) : SumUpto(w, events, n) \in Nat /\ SumUpto(w, events, n) <= y
        /\ \A n \in 1..Len(events) : SumUpto(w, events, n) = SumUpto(w, events, n - 1) + w[events[n]]
    BY <1>1, AlongStepByStep
  <2>3. QED
    BY <1>1, <2>1, <2>2
<1>3. /\ Total(es, "base") \in Nat /\ Total(es, "quote") \in Nat /\ TotalFees(es) \in Nat
      /\ MaxInt \in Nat
  BY RichTotal, SymbolAssumption DEF Currencies
<1>4. after[0] = es
  BY <1>1, SettlementIsDefined
<1>5. \A n \in 1..Len(events) : after[n] = EngineOf(after[n - 1], uid, action, events[n])
  <2>1. \A n \in 1..Len(events) : after[n] = SettledBy(after[n - 1], uid, action, events, n)
    BY <1>1, SettlementIsDefined
  <2> HIDE DEF after
  <2>2. QED
    BY <2>1 DEF SettledBy, EngineOf
<1>6. \A n \in 1..Len(events) : events[n] \in EventsOf(R, OrderIds) /\ SoundEvent(events[n])
  BY <1>1, ElementOfSeq DEF Sound
<1> HIDE DEF after, X, Y
<1>7. 0 \in T
  BY <1>2, <1>3, <1>4 DEF Settles
<1>8. ASSUME NEW n \in Nat, n \in T
      PROVE  n + 1 \in T
  <2> SUFFICES ASSUME n + 1 <= Len(events)
               PROVE  Settles(after[n + 1], es, X(n + 1), Y(n + 1))
    OBVIOUS
  <2> DEFINE k == n + 1
             now == after[n]
             e == events[k]
             dx == Freed(e, action, "Ask")
             dy == Freed(e, action, "Bid")
  <2>1. k \in 1..Len(events) /\ k - 1 = n /\ n <= Len(events) /\ n \in 0..Len(events)
        /\ k \in 0..Len(events)
    BY <1>1
  <2>2. Settles(now, es, X(n), Y(n))
    BY <1>8, <2>1
  <2>3. after[k] = EngineOf(now, uid, action, e) /\ e \in EventsOf(R, OrderIds) /\ SoundEvent(e)
        /\ WithinHold(e)
    BY <1>5, <1>6, <2>1
  <2>4. /\ X(k) = X(n) + dx /\ Y(k) = Y(n) + dy
        /\ X(n) \in Nat /\ Y(n) \in Nat /\ X(k) <= x /\ Y(k) <= y
        /\ X(k) \in Nat /\ Y(k) \in Nat
    BY <1>2, <2>1
  <2>5. dx \in Nat /\ dy \in Nat
    BY <2>3, FreedIsAmount DEF Actions
  <2>6. uid \in R
    <3>1. events # <<>>
      BY <2>1
    <3>2. QED
      BY <3>1
  <2>7. x \in Nat /\ y \in Nat
    <3>1. Len(events) \in 0..Len(events)
      BY <1>1
    <3>2. QED
      BY <1>2, <3>1
  <2> HIDE DEF k, now, e, dx, dy, R
  <2>8. EnginesOK(now) /\ Rich(now) /\ Registered(now) = R
        /\ Total(now, "base") = Total(es, "base") + X(n)
        /\ Total(now, "quote") + TotalFees(now) = Total(es, "quote") + TotalFees(es) + Y(n)
    BY <2>2 DEF Settles, R
  <2>9. Total(now, "base") + dx <= MaxInt /\ Total(now, "quote") + TotalFees(now) + dy <= MaxInt
    <3>1. X(n) + dx <= x /\ Y(n) + dy <= y
      BY <2>4
    <3>2. \A a, b, c, d, m \in Int : a + b <= m /\ c + d <= b => (a + c) + d <= m
      OBVIOUS
    <3>3. Total(es, "base") + x <= MaxInt /\ Total(es, "quote") + TotalFees(es) + y <= MaxInt
      OBVIOUS
    <3>4. /\ base \in Int /\ quote \in Int /\ x \in Int /\ y \in Int /\ X(n) \in Int /\ Y(n) \in Int
          /\ dx \in Int /\ dy \in Int /\ MaxInt \in Int
          /\ base + x <= MaxInt /\ quote + y <= MaxInt
      BY <1>3, <2>4, <2>5, <2>7, <3>3
    <3> HIDE DEF base, quote
    <3>5. (base + X(n)) + dx <= MaxInt /\ (quote + Y(n)) + dy <= MaxInt
      BY ONLY <3>1, <3>2, <3>4
    <3>6. QED
      BY <2>8, <3>5 DEF base, quote
  <2>10. Settles(after[k], now, dx, dy)
    <3>1. /\ uid \in Registered(now) /\ e \in EventsOf(Registered(now), OrderIds)
      BY <2>3, <2>6, <2>8
    <3>2. /\ Total(now, "base") + Freed(e, action, "Ask") <= MaxInt
          /\ Total(now, "quote") + TotalFees(now) + Freed(e, action, "Bid") <= MaxInt
      BY <2>9 DEF dx, dy
    <3>3. Settles(EngineOf(now, uid, action, e), now, Freed(e, action, "Ask"), Freed(e, action, "Bid"))
      BY <2>3, <2>8, <3>1, <3>2, EventSettles
    <3>4. QED
      BY <2>3, <3>3 DEF dx, dy
  <2>11. Settles(after[k], es, X(k), Y(k))
    BY <1>3, <2>4, <2>5, <2>8, <2>10, SMTT(30) DEF Settles, R
  <2>12. QED
    BY <2>11 DEF k
<1>9. \A n \in Nat : n \in T
  <2> HIDE DEF T
  <2>1. QED
    BY <1>7, <1>8, SetInduction
<1>10. Settles(after[Len(events)], es, x, y)
  BY <1>1, <1>2, <1>9
<1>11. QED
  BY <1>10 DEF Settle, after

-----------------------------------------------------------------------------
(* What R1, the deposits and new users do to the accounts *)

\* One balance is set.
Sets(new, es, uid, currency, x) ==
  /\ \A s \in Shards :
       /\ DOMAIN new[s].accounts = DOMAIN es[s].accounts /\ new[s].fees = es[s].fees
       /\ \A u \in DOMAIN es[s].accounts, c \in Currencies :
            u # uid \/ c # currency => new[s].accounts[u][c] = es[s].accounts[u][c]
  /\ BalanceOf(new, uid, currency) = x

LEMMA BalanceSet ==
  ASSUME NEW es, EnginesOK(es), Rich(es), NEW new, EnginesOK(new), NEW uid \in Registered(es),
         NEW currency \in Currencies, NEW x \in Nat, Sets(new, es, uid, currency, x)
  PROVE  /\ Rich(new) /\ Registered(new) = Registered(es)
         /\ Total(new, currency) = Total(es, currency) - BalanceOf(es, uid, currency) + x
         /\ \A c \in Currencies : c # currency => Total(new, c) = Total(es, c)
         /\ TotalFees(new) = TotalFees(es)
<1>1. ShardOf[uid] \in Shards /\ uid \in DOMAIN es[ShardOf[uid]].accounts
  BY DEF Registered, Shards
<1>2. Rich(new)
  <2> SUFFICES ASSUME NEW s \in Shards
               PROVE  /\ new[s].fees >= 0
                      /\ \A u \in DOMAIN new[s].accounts, c \in Currencies :
                           new[s].accounts[u][c] >= 0
    BY DEF Rich, Currencies
  <2>1. new[s].fees >= 0
    BY DEF Sets, Rich
  <2>2. ASSUME NEW u \in DOMAIN new[s].accounts, NEW c \in Currencies
        PROVE  new[s].accounts[u][c] >= 0
    <3>1. u \in DOMAIN es[s].accounts
      BY DEF Sets
    <3>2. CASE u # uid \/ c # currency
      <4>1. new[s].accounts[u][c] = es[s].accounts[u][c]
        BY <3>1, <3>2 DEF Sets
      <4>2. es[s].accounts[u][c] >= 0
        BY <3>1 DEF Rich, Currencies
      <4>3. QED
        BY <4>1, <4>2
    <3>3. CASE u = uid /\ c = currency
      <4>1. s = ShardOf[uid]
        BY <3>1, <3>3, ShardIs
      <4>2. new[s].accounts[u][c] = x
        BY <3>3, <4>1 DEF Sets, BalanceOf
      <4>3. QED
        BY <4>2
    <3>4. QED
      BY <3>2, <3>3
  <2>3. QED
    BY <2>1, <2>2
<1>3. Registered(new) = Registered(es)
  <2>1. \A u \in Users : ShardOf[u] \in Shards
    BY DEF Shards
  <2>2. QED
    BY <2>1 DEF Registered, Sets
<1>4. Total(new, currency) = Total(es, currency) - BalanceOf(es, uid, currency) + x
  <2>1. OthersAsTheyWere(new, es, uid, currency)
    BY DEF OthersAsTheyWere, Sets
  <2>2. BalanceOf(new, uid, currency) = x
    BY DEF Sets
  <2>3. QED
    BY <2>1, <2>2, TotalChanged
<1>5. ASSUME NEW c \in Currencies, c # currency
      PROVE  Total(new, c) = Total(es, c)
  <2>1. ASSUME NEW s \in Shards
        PROVE  Balances(new[s], c) = Balances(es[s], c)
    <3>1. /\ DOMAIN new[s].accounts = DOMAIN es[s].accounts
          /\ \A u \in DOMAIN es[s].accounts : new[s].accounts[u][c] = es[s].accounts[u][c]
      BY <1>5 DEF Sets
    <3>2. [u \in DOMAIN new[s].accounts |-> new[s].accounts[u][c]]
            = [u \in DOMAIN es[s].accounts |-> es[s].accounts[u][c]]
      BY <3>1
    <3>3. QED
      BY <3>2 DEF Balances
  <2>2. QED
    BY <2>1, TotalUnchanged
<1>6. TotalFees(new) = TotalFees(es)
  <2>1. \A s \in Shards : new[s].fees = es[s].fees
    BY DEF Sets
  <2>2. QED
    BY <2>1 DEF TotalFees
<1>7. QED
  BY <1>2, <1>3, <1>4, <1>5, <1>6

\* The engine of one shard is replaced, and only a balance in it is another.
LEMMA EngineSets ==
  ASSUME NEW es, EnginesOK(es), NEW uid \in Registered(es), NEW currency \in Currencies,
         NEW x \in Words, NEW engine,
         engine.accounts = WithBalance(es[ShardOf[uid]], uid, currency, x).accounts,
         engine.fees = es[ShardOf[uid]].fees,
         NEW new, new = WithEngine(es, ShardOf[uid], engine)
  PROVE  Sets(new, es, uid, currency, x)
<1> DEFINE t == ShardOf[uid]
           old == es[t]
           W == Words
           D == DOMAIN old.accounts
<1>1. t \in Shards /\ uid \in D
  BY DEF Registered, Shards
<1>2. old.accounts \in [D -> [base : W, quote : W]] /\ "accounts" \in DOMAIN old
  <2>1. \E users \in SUBSET {u \in Users : Mine(t, u)} : EngineOK(old, users)
    BY <1>1 DEF EnginesOK
  <2> HIDE DEF old
  <2>2. QED
    BY <2>1 DEF EngineOK
<1>3. \A s \in Shards : new[s] = IF s = t THEN engine ELSE es[s]
  BY <1>1 DEF WithEngine, EnginesOK
<1>4. /\ DOMAIN engine.accounts = D
      /\ engine.accounts[uid][currency] = x
      /\ \A u \in D, c \in Currencies :
           u # uid \/ c # currency => engine.accounts[u][c] = old.accounts[u][c]
  <2> DEFINE account == old.accounts[uid]
  <2>1. engine.accounts = [old.accounts EXCEPT ![uid] = [account EXCEPT ![currency] = x]]
    BY <1>2 DEF WithBalance
  <2>2. account \in [base : W, quote : W]
    BY <1>1, <1>2
  <2> HIDE DEF account, old, W
  <2>3. engine.accounts[uid] = [account EXCEPT ![currency] = x] /\ DOMAIN engine.accounts = D
        /\ \A u \in D : u # uid => engine.accounts[u] = old.accounts[u]
    BY <1>1, <1>2, <2>1
  <2>4. engine.accounts[uid][currency] = x
        /\ \A c \in Currencies : c # currency => engine.accounts[uid][c] = account[c]
    BY <2>2, <2>3 DEF Currencies
  <2>5. QED
    BY <2>3, <2>4 DEF account
<1>5. BalanceOf(new, uid, currency) = x
  BY <1>1, <1>3, <1>4 DEF BalanceOf
<1>6. ASSUME NEW s \in Shards
      PROVE  /\ DOMAIN new[s].accounts = DOMAIN es[s].accounts /\ new[s].fees = es[s].fees
             /\ \A u \in DOMAIN es[s].accounts, c \in Currencies :
                  u # uid \/ c # currency => new[s].accounts[u][c] = es[s].accounts[u][c]
  <2>1. CASE s = t
    BY <1>3, <1>4, <2>1
  <2>2. CASE s # t
    BY <1>3, <2>2
  <2>3. QED
    BY <2>1, <2>2
<1>7. QED
  BY <1>5, <1>6 DEF Sets

-----------------------------------------------------------------------------
(* The invariant *)

\* What the accounts come to, and what is held for the book, is what was deposited.
Backed(es, b, gone) ==
  /\ Covers(gone["base"], Total(es, "base") + HeldFor(b["Ask"]))
  /\ Covers(gone["quote"], Total(es, "quote") + TotalFees(es) + HeldFor(b["Bid"]))

FundsOK(es, b, gone) ==
  /\ Rich(es)
  /\ BookOK(b, Registered(es), OrderIds) /\ PricedBook(b)
  /\ Backed(es, b, gone)

\* Nobody owes anything, the orders in the book are those of registered users, at
\* prices and reserve prices that make sense, and the funds are there.
FundsInv == FundsOK(engines, book, deposited)

LEMMA HeldForIs ==
  ASSUME spec \in Specs, NEW users, NEW action \in Actions, NEW side,
         SideOK(side, action, users, OrderIds), Priced(side)
  PROVE  HeldFor(side) = Along(Holds(action, users), side) /\ HeldFor(side) \in Nat
<1> DEFINE H == Holds(action, users)
           v(i) == HoldAmount([side[i] EXCEPT !.size = Remaining(side[i])])
           f == [i \in 1..Len(side) |-> v(i)]
<1>1. ASSUME NEW i \in 1..Len(side)
      PROVE  v(i) = H[side[i]] /\ v(i) \in Nat
  <2> DEFINE o == side[i]
             left == Remaining(o)
             p == [o EXCEPT !.size = left]
             u == Unit(action, o.reserve)
  <2>1. o \in OrdersOf(users, OrderIds)
    BY ElementOfSeq DEF SideOK
  <2>2. o.action = action /\ 0 <= o.filled /\ o.filled < o.size /\ o.reserve \in Nat
    BY DEF SideOK, Priced, PricedOrder
  <2>3. /\ spec.takerFee \in Nat /\ spec.quoteScale \in Nat /\ spec.baseScale \in Nat
    BY SpecTyped
  <2>4. H[o] = left * u /\ u \in Nat
    BY <2>1, <2>2, HoldsTyped, UnitTyped
  <2> HIDE DEF o, H
  <2>5. left \in Nat
    BY <2>1, <2>2 DEF OrdersOf, Remaining
  <2>6. p.action = action /\ p.size = left /\ p.reserve = o.reserve
    <3> HIDE DEF left
    <3>1. QED
      BY <2>1, <2>2 DEF OrdersOf
  <2> HIDE DEF p, left
  <2>7. HoldAmount(p) = left * u
    <3>1. \A a, h, k, g \in Nat : a * (h * k + g) = a * h * k + a * g
      OBVIOUS
    <3>2. left * o.reserve * spec.quoteScale + left * spec.takerFee
            = left * (o.reserve * spec.quoteScale + spec.takerFee)
      BY <2>2, <2>3, <2>5, <3>1
    <3>3. action = "Bid" => HoldAmount(p) = left * o.reserve * spec.quoteScale + left * spec.takerFee
      BY <2>6 DEF HoldAmount
    <3>4. action # "Bid" => HoldAmount(p) = left * spec.baseScale
      BY <2>6 DEF HoldAmount
    <3>5. /\ action = "Bid" => u = o.reserve * spec.quoteScale + spec.takerFee
          /\ action # "Bid" => u = spec.baseScale
      BY DEF Unit
    <3>6. QED
      BY <3>2, <3>3, <3>4, <3>5
  <2>8. left * u \in Nat
    <3>1. \A i1, j1 \in Nat : i1 * j1 \in Nat
      OBVIOUS
    <3> HIDE DEF u
    <3>2. QED
      BY <2>4, <2>5, <3>1
  <2>9. v(i) = HoldAmount(p)
    BY DEF p, left, o
  <2> HIDE DEF v, u
  <2>10. v(i) = H[o] /\ v(i) \in Nat
    BY <2>4, <2>7, <2>8, <2>9
  <2>11. QED
    BY <2>10 DEF o
<1> HIDE DEF v, H
<1>2. f = [i \in 1..Len(side) |-> H[side[i]]]
  BY <1>1
<1>3. HeldFor(side) = SumOf(f) /\ Along(H, side) = SumOf(f)
  BY <1>2 DEF HeldFor, Along, v
<1>4. f \in [1..Len(side) -> Nat] /\ IsFiniteSet(1..Len(side))
  <2>1. Len(side) \in Nat
    BY DEF SideOK
  <2>2. QED
    BY <1>1, <2>1, FirstNumbers
<1> HIDE DEF f
<1>5. SumOf(f) \in Nat
  BY <1>4, SumOfAmounts
<1>6. QED
  BY <1>3, <1>5 DEF H

\* R2: what R1 has held, the book and the events settle.
LEMMA SettledFunds ==
  ASSUME spec \in Specs, ModestFees, MoneyFits, EnginesOK(engines), deposited \in [Currencies -> Int],
         FundsInv,
         NEW held, EnginesOK(held), Rich(held), Registered(held) = Registered(engines),
         NEW given \in Nat, NEW uid, NEW m, m.action \in Actions,
         Total(engines, "base") = Total(held, "base") + (IF m.action = "Ask" THEN given ELSE 0),
         Total(engines, "quote") = Total(held, "quote") + (IF m.action = "Bid" THEN given ELSE 0),
         TotalFees(held) = TotalFees(engines),
         BookOK(m.book, Registered(engines), OrderIds),
         m.events \in Seq(EventsOf(Registered(engines), OrderIds)),
         m.events # <<>> => uid \in Registered(engines),
         \A n \in 1..Len(m.events) : WithinHold(m.events[n]),
         Keeps(m, book, Registered(engines), given)
  PROVE  FundsOK(Settle(held, uid, m.action, m.events), m.book, deposited)
<1> DEFINE R == Registered(engines)
           x == Along(Frees(m.action, "Ask", R), m.events)
           y == Along(Frees(m.action, "Bid", R), m.events)
           new == Settle(held, uid, m.action, m.events)
           a == HeldFor(book["Ask"])
           b == HeldFor(book["Bid"])
           a1 == HeldFor(m.book["Ask"])
           b1 == HeldFor(m.book["Bid"])
           ga == IF m.action = "Ask" THEN given ELSE 0
           gb == IF m.action = "Bid" THEN given ELSE 0
           D == deposited["base"]
           E == deposited["quote"]
           base == Total(held, "base")
           quote == Total(held, "quote")
           fees == TotalFees(held)
<1>1. "Ask" \in Actions /\ "Bid" \in Actions /\ "base" \in Currencies /\ "quote" \in Currencies
  BY DEF Actions, Currencies
<1>2. BookOK(book, R, OrderIds) /\ PricedBook(book) /\ Backed(engines, book, deposited)
  BY DEF FundsInv, FundsOK
<1>3. PricedBook(m.book) /\ Sound(m.events)
  BY DEF Keeps, PricedBook
<1>4. /\ a = Along(Holds("Ask", R), book["Ask"]) /\ a \in Nat
      /\ b = Along(Holds("Bid", R), book["Bid"]) /\ b \in Nat
  BY <1>1, <1>2, HeldForIs DEF BookOK, PricedBook
<1>5. /\ a1 = Along(Holds("Ask", R), m.book["Ask"]) /\ a1 \in Nat
      /\ b1 = Along(Holds("Bid", R), m.book["Bid"]) /\ b1 \in Nat
  <2>1. BookOK(m.book, R, OrderIds)
    OBVIOUS
  <2> HIDE DEF R
  <2>2. QED
    BY <1>1, <1>3, <2>1, HeldForIs DEF BookOK, PricedBook
<1>6. Covers(a + ga, a1 + x) /\ Covers(b + gb, b1 + y)
  <2>1. /\ Covers(Along(Holds("Ask", R), book["Ask"]) + (IF "Ask" = m.action THEN given ELSE 0),
                  Along(Holds("Ask", R), m.book["Ask"]) + Along(Frees(m.action, "Ask", R), m.events))
        /\ Covers(Along(Holds("Bid", R), book["Bid"]) + (IF "Bid" = m.action THEN given ELSE 0),
                  Along(Holds("Bid", R), m.book["Bid"]) + Along(Frees(m.action, "Bid", R), m.events))
    BY <1>1 DEF Keeps
  <2>2. QED
    BY <1>4, <1>5, <2>1
<1>7. Covers(D, (base + ga) + a) /\ Covers(E, (quote + gb) + fees + b)
  BY <1>2 DEF Backed
<1>8. /\ D \in Int /\ E \in Int /\ D <= MaxInt /\ E <= MaxInt /\ MaxInt \in Int
      /\ base \in Nat /\ quote \in Nat /\ fees \in Nat /\ ga \in Nat /\ gb \in Nat
  BY <1>1, RichTotal, SymbolAssumption DEF MoneyFits
<1>9. x \in Nat /\ y \in Nat
  <2> DEFINE S == SoundEvents(R)
             v == FreesSoundly(m.action, "Ask", R)
             w == FreesSoundly(m.action, "Bid", R)
  <2>1. /\ m.events \in Seq(S) /\ v \in [S -> Nat] /\ w \in [S -> Nat]
        /\ x = Along(v, m.events) /\ y = Along(w, m.events)
    BY <1>1, <1>3, FreesAlong
  <2> HIDE DEF S, v, w
  <2>2. QED
    BY <2>1, AlongIsNumber
<1> HIDE DEF a, b, a1, b1, ga, gb, D, E, base, quote, fees, x, y
<1>10. base + x <= MaxInt /\ quote + fees + y <= MaxInt
  BY <1>4, <1>5, <1>6, <1>7, <1>8, <1>9, SMTT(30) DEF Covers
<1>11. Settles(new, held, x, y)
  <2>1. /\ m.events \in Seq(EventsOf(Registered(held), OrderIds))
        /\ m.events # <<>> => uid \in Registered(held)
        /\ x = Along(Frees(m.action, "Ask", Registered(held)), m.events)
        /\ y = Along(Frees(m.action, "Bid", Registered(held)), m.events)
    BY DEF x, y
  <2>2. Total(held, "base") + x <= MaxInt /\ Total(held, "quote") + TotalFees(held) + y <= MaxInt
    BY <1>10 DEF base, quote, fees
  <2> DEFINE events == m.events
             action == m.action
  <2> HIDE DEF events, action
  <2>3. Settles(Settle(held, uid, action, events), held, x, y)
    BY <1>3, <2>1, <2>2, SettleSettles DEF events, action
  <2>4. QED
    BY <2>3 DEF events, action
<1>12. Covers(D, (base + x) + a1) /\ Covers(E, (quote + fees + y) + b1)
  <2>1. a \in Nat /\ b \in Nat /\ a1 \in Nat /\ b1 \in Nat
    BY <1>4, <1>5
  <2>2. ASSUME NEW d \in Int, NEW c \in Nat, NEW g \in Nat, NEW h \in Nat, NEW k \in Nat,
               NEW z \in Nat, Covers(h + g, k + z), Covers(d, (c + g) + h)
        PROVE  Covers(d, (c + z) + k)
    BY <2>2 DEF Covers
  <2>3. Covers(D, (base + x) + a1)
    BY ONLY <1>6, <1>7, <1>8, <1>9, <2>1, <2>2
  <2>4. quote + fees \in Nat /\ (quote + gb) + fees + b = ((quote + fees) + gb) + b
    BY ONLY <1>8, <2>1
  <2>5. Covers(E, ((quote + fees) + gb) + b)
    BY ONLY <1>7, <2>4
  <2>6. Covers(E, (quote + fees + y) + b1)
    BY ONLY <1>6, <1>8, <1>9, <2>1, <2>2, <2>4, <2>5
  <2>7. QED
    BY <2>3, <2>6
<1> HIDE DEF new
<1>13. Backed(new, m.book, deposited)
  BY <1>11, <1>12 DEF Settles, Backed, base, quote, fees, D, E, a1, b1
<1>14. QED
  BY <1>3, <1>11, <1>13 DEF Settles, FundsOK, new

-----------------------------------------------------------------------------
(* Every command keeps it. *)

\* What R2 needs to know, from the invariant.
LEMMA FundsFacts ==
  ASSUME ExchangeInv, FundsInv, ModestFees
  PROVE  /\ spec \in Specs /\ spec.stp \in Modes /\ spec.spot
         /\ EnginesOK(engines) /\ Rich(engines) /\ deposited \in [Currencies -> Int]
         /\ BookOK(book, Registered(engines), OrderIds) /\ PricedBook(book) /\ Covered(book)
<1>1. TypeOK /\ BidsCovered /\ spec \in Specs
  BY DEF ExchangeInv, TypeOK
<1>2. spec.spot /\ spec.stp \in Modes
  BY <1>1, SpecTyped DEF ModestFees
<1>3. Covered(book)
  BY <1>1, <1>2, BookProperties
<1>4. QED
  BY <1>1, <1>2, <1>3 DEF TypeOK, FundsInv, FundsOK

\* A command that R1 lets through as it is.
LEMMA MatchedFunds ==
  ASSUME ExchangeInv, FundsInv, MoneyFits, ModestFees,
         NEW uid, NEW m, NEW newcomers,
         Result(m, book, uid, spec, Registered(engines), OrderIds, newcomers),
         m.events # <<>> => uid \in Registered(engines),
         Keeps(m, book, Registered(engines), 0),
         Settled(engines, uid, m)
  PROVE  FundsOK(engines', book', deposited')
<1>1. /\ spec \in Specs /\ spec.stp \in Modes /\ spec.spot
      /\ EnginesOK(engines) /\ Rich(engines) /\ deposited \in [Currencies -> Int]
      /\ BookOK(book, Registered(engines), OrderIds) /\ PricedBook(book) /\ Covered(book)
  BY FundsFacts
<1>2. /\ BookOK(m.book, Registered(engines), OrderIds)
      /\ m.events \in Seq(EventsOf(Registered(engines), OrderIds)) /\ m.action \in Actions
      /\ \A n \in 1..Len(m.events) : WithinHold(m.events[n])
  BY <1>1 DEF Result
<1>3. /\ Total(engines, "base") = Total(engines, "base") + (IF m.action = "Ask" THEN 0 ELSE 0)
      /\ Total(engines, "quote") = Total(engines, "quote") + (IF m.action = "Bid" THEN 0 ELSE 0)
  <2>1. Total(engines, "base") \in Int /\ Total(engines, "quote") \in Int
    BY <1>1, TotalIs DEF Currencies
  <2>2. QED
    BY <2>1
<1>4. 0 \in Nat
  OBVIOUS
<1>5. FundsOK(Settle(engines, uid, m.action, m.events), m.book, deposited)
  BY <1>1, <1>2, <1>3, <1>4, SettledFunds
<1>6. engines' = Settle(engines, uid, m.action, m.events) /\ book' = m.book
      /\ deposited' = deposited
  BY DEF Settled
<1>7. QED
  BY <1>5, <1>6

\* Whoever touches an order in the book is registered.
LEMMA OwnersAreKnown ==
  ASSUME BookOK(book, Registered(engines), OrderIds), NEW cmd, Owns(book, cmd)
  PROVE  cmd.uid \in Registered(engines)
<1>1. OrderOf(book, cmd.id) \in OrdersOf(Registered(engines), OrderIds)
  BY NamedOrder, ElementOfSeq DEF Owns, BookOK, SideOK
<1>2. QED
  BY <1>1 DEF OrdersOf, Owns

LEMMA CancelFunds ==
  ASSUME ExchangeInv, FundsInv, MoneyFits, ModestFees,
         NEW uid \in Users, NEW id \in OrderIds, Cancel(uid, id)
  PROVE  FundsOK(engines', book', deposited')
<1> DEFINE cmd == [uid |-> uid, id |-> id, action |-> "Bid"]
           m == CancelOrder(book, cmd)
<1>1. /\ spec \in Specs /\ BookOK(book, Registered(engines), OrderIds) /\ PricedBook(book)
      /\ cmd.action \in Actions /\ cmd.uid = uid
  BY FundsFacts DEF Actions
<1>2. Settled(engines, uid, m)
  BY DEF Cancel
<1>3. m.events # <<>> => Owns(book, cmd)
  BY DEF CancelOrder, Refused
<1> HIDE DEF cmd
<1>4. Result(m, book, uid, spec, Registered(engines), OrderIds, {})
  BY <1>1, CancelOrderOutcome
<1>5. Keeps(m, book, Registered(engines), 0)
  BY <1>1, CancelKeeps
<1>6. m.events # <<>> => uid \in Registered(engines)
  BY <1>1, <1>3, OwnersAreKnown
<1> HIDE DEF m
<1>7. QED
  BY <1>2, <1>4, <1>5, <1>6, MatchedFunds

LEMMA ReduceFunds ==
  ASSUME ExchangeInv, FundsInv, MoneyFits, ModestFees,
         NEW uid \in Users, NEW id \in OrderIds, NEW size \in Sizes, Reduce(uid, id, size)
  PROVE  FundsOK(engines', book', deposited')
<1> DEFINE cmd == [uid |-> uid, id |-> id, action |-> "Bid", size |-> size]
           m == ReduceOrder(book, cmd)
<1>1. /\ spec \in Specs /\ BookOK(book, Registered(engines), OrderIds) /\ PricedBook(book)
      /\ cmd.action \in Actions /\ cmd.uid = uid /\ cmd.size \in Int
  BY FundsFacts, InputAssumption DEF Actions
<1>2. Settled(engines, uid, m)
  BY DEF Reduce
<1>3. m.events # <<>> => Owns(book, cmd)
  BY DEF ReduceOrder, Refused
<1> HIDE DEF cmd
<1>4. Result(m, book, uid, spec, Registered(engines), OrderIds, {})
  BY <1>1, ReduceOrderOutcome
<1>5. Keeps(m, book, Registered(engines), 0)
  BY <1>1, ReduceKeeps
<1>6. m.events # <<>> => uid \in Registered(engines)
  BY <1>1, <1>3, OwnersAreKnown
<1> HIDE DEF m
<1>7. QED
  BY <1>2, <1>4, <1>5, <1>6, MatchedFunds

LEMMA MoveFunds ==
  ASSUME ExchangeInv, FundsInv, MoneyFits, ModestFees,
         NEW uid \in Users, NEW id \in OrderIds, NEW price \in Prices, Move(uid, id, price)
  PROVE  FundsOK(engines', book', deposited')
<1> DEFINE cmd == [uid |-> uid, id |-> id, action |-> "Bid", price |-> price]
           m == MoveOrder(book, cmd, spec)
           newcomers == IF m.code = "Success" THEN {cmd.id} ELSE {}
<1>1. /\ spec \in Specs /\ BookOK(book, Registered(engines), OrderIds) /\ PricedBook(book)
      /\ cmd.action \in Actions /\ cmd.uid = uid /\ cmd.price \in Int /\ cmd.price \in Prices
      /\ spec.stp \in Modes
  BY FundsFacts, InputAssumption DEF Actions
<1>2. Settled(engines, uid, m)
  BY DEF Move
<1>3. m.events # <<>> => Owns(book, cmd)
  BY DEF MoveOrder, Refused
<1> HIDE DEF cmd
<1>4. Result(m, book, uid, spec, Registered(engines), OrderIds, newcomers)
  BY <1>1, MoveOrderOutcome
<1>5. Keeps(m, book, Registered(engines), 0)
  BY <1>1, MoveKeeps
<1>6. m.events # <<>> => uid \in Registered(engines)
  BY <1>1, <1>3, OwnersAreKnown
<1> HIDE DEF m, newcomers
<1>7. QED
  BY <1>2, <1>4, <1>5, <1>6, MatchedFunds

LEMMA ActionStays ==
  ASSUME NEW b, NEW taker, NEW type, NEW s
  PROVE  NewOrder(b, taker, type, s).action = taker.action
<1>1. \A x, events, action : Done(x, events, action).action = action
  BY DEF Done
<1>2. /\ PlaceGtc(b, taker, s).action = taker.action
      /\ PlaceIoc(b, taker, s).action = taker.action
      /\ PlaceFokBudget(b, taker, s).action = taker.action
  BY <1>1 DEF PlaceGtc, PlaceIoc, PlaceFokBudget
<1>3. \A code : Refused(b, taker, code).action = taker.action
  BY DEF Refused
<1>4. QED
  BY <1>2, <1>3 DEF NewOrder

\* R1: what is held for a new order leaves one account.
LEMMA HeldFunds ==
  ASSUME spec \in Specs, EnginesOK(engines), Rich(engines),
         NEW o \in OrdersOf(Users, OrderIds), RiskCheck(o) = "ValidForMatchingEngine"
  PROVE  /\ o.uid \in Registered(engines)
         /\ EnginesOK(Held(o)) /\ Rich(Held(o)) /\ Registered(Held(o)) = Registered(engines)
         /\ HoldAmount(o) \in Nat /\ HoldAmount(o) = HeldAtFirst(o)
         /\ Total(engines, "base")
              = Total(Held(o), "base") + (IF o.action = "Ask" THEN HoldAmount(o) ELSE 0)
         /\ Total(engines, "quote")
              = Total(Held(o), "quote") + (IF o.action = "Bid" THEN HoldAmount(o) ELSE 0)
         /\ TotalFees(Held(o)) = TotalFees(engines)
<1> DEFINE uid == o.uid
           t == ShardOf[uid]
           c == HoldCurrency(o)
           hold == HoldAmount(o)
           x == engines[t].accounts[uid][c] - hold
           engine == WithBalance(engines[t], uid, c, x)
           held == Held(o)
<1>1. /\ uid \in Users /\ o.action \in Actions
      /\ o.size \in Nat /\ o.reserve \in Nat
      /\ c \in Currencies /\ hold \in Nat /\ uid \in DOMAIN engines[t].accounts /\ x \in Words
  BY ChecksPassed DEF OrdersOf
<1>2. uid \in Registered(engines)
  BY <1>1 DEF Registered
<1>3. EnginesOK(held)
  BY HeldTyped
<1>4. held = WithEngine(engines, t, engine)
  BY HeldIs
<1>5. BalanceOf(engines, uid, c) = x + hold /\ BalanceOf(engines, uid, c) \in Int
  <2>1. BalanceOf(engines, uid, c) \in Nat
    BY <1>1, <1>2, RichTotal
  <2>2. BalanceOf(engines, uid, c) = engines[t].accounts[uid][c]
    BY DEF BalanceOf
  <2> HIDE DEF uid, t, c, hold
  <2>3. QED
    BY <1>1, <2>1, <2>2
<1>6. x \in Nat
  <2>1. ~(engines[t].accounts[uid][c] < hold)
    BY DEF RiskCheck
  <2>2. BalanceOf(engines, uid, c) = engines[t].accounts[uid][c]
    BY DEF BalanceOf
  <2> HIDE DEF uid, t, c, hold
  <2>3. QED
    BY <1>1, <1>5, <2>1, <2>2
<1>7. engine.fees = engines[t].fees
  BY DEF WithBalance
<1> HIDE DEF uid, t, c, hold, x, engine, held
<1>8. Sets(held, engines, uid, c, x)
  <2>1. engine.accounts = WithBalance(engines[ShardOf[uid]], uid, c, x).accounts
        /\ engine.fees = engines[ShardOf[uid]].fees
        /\ held = WithEngine(engines, ShardOf[uid], engine)
    BY <1>4, <1>7 DEF engine, t
  <2>2. QED
    BY <1>1, <1>2, <2>1, EngineSets
<1>9. /\ Rich(held) /\ Registered(held) = Registered(engines)
      /\ Total(held, c) = Total(engines, c) - BalanceOf(engines, uid, c) + x
      /\ \A d \in Currencies : d # c => Total(held, d) = Total(engines, d)
      /\ TotalFees(held) = TotalFees(engines)
  BY <1>1, <1>2, <1>3, <1>6, <1>8, BalanceSet
<1>10. Total(engines, c) = Total(held, c) + hold
  <2>1. Total(engines, c) \in Int
    BY <1>1, TotalIs
  <2>2. QED
    BY <1>1, <1>5, <1>6, <1>9, <2>1
<1>11. \A d \in Currencies : d # c => Total(engines, d) = Total(held, d) + 0
  <2>1. \A d \in Currencies : Total(engines, d) \in Int
    BY TotalIs
  <2>2. QED
    BY <1>9, <2>1
<1>12. /\ o.action = "Ask" <=> c = "base"
       /\ o.action = "Bid" <=> c = "quote"
  BY <1>1 DEF c, HoldCurrency, Actions
<1>13. /\ Total(engines, "base")
            = Total(held, "base") + (IF o.action = "Ask" THEN hold ELSE 0)
       /\ Total(engines, "quote")
            = Total(held, "quote") + (IF o.action = "Bid" THEN hold ELSE 0)
  <2>1. "base" \in Currencies /\ "quote" \in Currencies
    BY DEF Currencies
  <2>2. QED
    BY <1>10, <1>11, <1>12, <2>1
<1>14. hold = HeldAtFirst(o)
  <2>1. \A a, h, k, g \in Nat : a * (h * k + g) = a * h * k + a * g
    OBVIOUS
  <2>2. o.size * o.reserve * spec.quoteScale + o.size * spec.takerFee
          = o.size * (o.reserve * spec.quoteScale + spec.takerFee)
    BY <1>1, <2>1, SpecTyped
  <2>3. CASE o.action = "Bid"
    BY <2>2, <2>3 DEF hold, HoldAmount, HeldAtFirst, Unit
  <2>4. CASE o.action # "Bid"
    BY <2>4 DEF hold, HoldAmount, HeldAtFirst, Unit
  <2>5. QED
    BY <2>3, <2>4
<1>15. QED
  BY <1>1, <1>2, <1>3, <1>9, <1>13, <1>14 DEF uid, hold, held

LEMMA PlaceOrderFunds ==
  ASSUME ExchangeInv, FundsInv, MoneyFits, ModestFees,
         NEW uid \in Users, NEW id \in OrderIds, NEW action \in Actions, NEW type \in Types,
         NEW price \in Prices, NEW size \in Sizes, NEW reserve \in Reserves(action, price),
         PlaceOrder(uid, id, action, type, price, reserve, size)
  PROVE  FundsOK(engines', book', deposited')
<1> DEFINE o == [id |-> id, uid |-> uid, action |-> action, price |-> price, size |-> size,
                 filled |-> 0, reserve |-> HoldPrice(action, type, price, reserve)]
           r == NewOrder(book, o, type, spec)
           m == Compensated(r, o)
           R == Registered(engines)
           newcomers == IF r.code = "Success" THEN {o.id} ELSE {}
<1>1. /\ spec \in Specs /\ spec.stp \in Modes /\ spec.spot
      /\ EnginesOK(engines) /\ Rich(engines) /\ deposited \in [Currencies -> Int]
      /\ BookOK(book, R, OrderIds) /\ PricedBook(book) /\ Covered(book)
  BY FundsFacts
<1>2. /\ o \in OrdersOf(Users, OrderIds) /\ o.uid = uid /\ o.price \in Prices
      /\ o.filled = 0 /\ o.action \in Actions
  <2>1. HoldPrice(action, type, price, reserve) \in Int
    BY InputAssumption DEF HoldPrice, Reserves
  <2>2. QED
    BY <2>1, InputAssumption DEF OrdersOf
<1>3. CASE RiskCheck(o) # "ValidForMatchingEngine"
  <2>1. engines' = engines /\ book' = book /\ deposited' = deposited
    BY <1>3 DEF PlaceOrder, state
  <2>2. QED
    BY <2>1 DEF FundsInv
<1>4. CASE RiskCheck(o) = "ValidForMatchingEngine"
  <2>1. Settled(Held(o), uid, m)
    BY <1>4 DEF PlaceOrder
  <2> HIDE DEF o
  <2>2. /\ o.uid \in R
        /\ EnginesOK(Held(o)) /\ Rich(Held(o)) /\ Registered(Held(o)) = R
        /\ HoldAmount(o) \in Nat /\ HoldAmount(o) = HeldAtFirst(o)
        /\ Total(engines, "base")
             = Total(Held(o), "base") + (IF o.action = "Ask" THEN HoldAmount(o) ELSE 0)
        /\ Total(engines, "quote")
             = Total(Held(o), "quote") + (IF o.action = "Bid" THEN HoldAmount(o) ELSE 0)
        /\ TotalFees(Held(o)) = TotalFees(engines)
    BY <1>1, <1>2, <1>4, HeldFunds
  <2>3. /\ o.size \in Nat /\ o.price \in Nat \ {0} /\ o.reserve \in Nat
        /\ o.action = "Bid" => o.price <= o.reserve
    BY <1>1, <1>2, <1>4, ChecksPassed
  <2>4. o \in OrdersOf(R, OrderIds)
    BY <1>2, <2>2 DEF OrdersOf
  <2>5. PricedOrder(o)
    BY <1>2, <2>3 DEF PricedOrder
  <2> HIDE DEF R
  <2>6. Result(r, book, o.uid, spec, R, OrderIds, newcomers)
    BY <1>1, <2>3, <2>4, NewOrderOutcome
  <2>7. Keeps(m, book, R, HeldAtFirst(o))
    BY <1>1, <1>2, <2>3, <2>4, <2>5, NewOrderKeeps
  <2>8. DOMAIN r = {"book", "events", "code", "action"} /\ r.action = o.action
    BY NewOrderFields, ActionStays
  <2> HIDE DEF r
  <2>9. /\ m.book = r.book /\ m.action = o.action
        /\ m.events = r.events \/ m.events = <<Reject(o.size, o.reserve)>>
    BY <2>8, CompensatedIs
  <2> HIDE DEF m, newcomers
  <2>10. /\ BookOK(r.book, R, OrderIds) /\ r.events \in Seq(EventsOf(R, OrderIds))
         /\ \A n \in 1..Len(r.events) : WithinHold(r.events[n])
    BY <1>1, <2>6 DEF Result
  <2>11. /\ <<Reject(o.size, o.reserve)>> \in Seq(EventsOf(R, OrderIds))
         /\ \A n \in 1..Len(<<Reject(o.size, o.reserve)>>) :
              WithinHold(<<Reject(o.size, o.reserve)>>[n])
    <3> DEFINE e == Reject(o.size, o.reserve)
    <3>1. e \in EventsOf(R, OrderIds) /\ e.type # "Trade"
      BY <2>3 DEF Reject, EventsOf
    <3> HIDE DEF e
    <3>2. <<e>> \in Seq(EventsOf(R, OrderIds)) /\ Len(<<e>>) = 1 /\ <<e>>[1] = e
      BY <3>1
    <3>3. \A n \in 1..Len(<<e>>) : WithinHold(<<e>>[n])
      BY <3>1, <3>2 DEF WithinHold
    <3>4. QED
      BY <3>2, <3>3 DEF e
  <2>12. /\ BookOK(m.book, R, OrderIds) /\ m.events \in Seq(EventsOf(R, OrderIds))
         /\ \A n \in 1..Len(m.events) : WithinHold(m.events[n])
    BY <2>9, <2>10, <2>11
  <2>13. /\ m.action \in Actions
         /\ Total(engines, "base")
              = Total(Held(o), "base") + (IF m.action = "Ask" THEN HoldAmount(o) ELSE 0)
         /\ Total(engines, "quote")
              = Total(Held(o), "quote") + (IF m.action = "Bid" THEN HoldAmount(o) ELSE 0)
    BY <1>2, <2>2, <2>9
  <2>14. Keeps(m, book, R, HoldAmount(o)) /\ uid \in R
    BY <1>2, <2>2, <2>7
  <2> DEFINE held == Held(o)
             given == HoldAmount(o)
  <2> HIDE DEF held, given
  <2>15. /\ EnginesOK(held) /\ Rich(held) /\ Registered(held) = Registered(engines)
         /\ given \in Nat /\ m.action \in Actions
         /\ Total(engines, "base") = Total(held, "base") + (IF m.action = "Ask" THEN given ELSE 0)
         /\ Total(engines, "quote") = Total(held, "quote") + (IF m.action = "Bid" THEN given ELSE 0)
         /\ TotalFees(held) = TotalFees(engines)
    BY <2>2, <2>13 DEF held, given, R
  <2>16. /\ BookOK(m.book, Registered(engines), OrderIds)
         /\ m.events \in Seq(EventsOf(Registered(engines), OrderIds))
         /\ m.events # <<>> => uid \in Registered(engines)
         /\ \A n \in 1..Len(m.events) : WithinHold(m.events[n])
         /\ Keeps(m, book, Registered(engines), given)
    BY <2>12, <2>14 DEF given, R
  <2>17. FundsOK(Settle(held, uid, m.action, m.events), m.book, deposited)
    BY <1>1, <2>15, <2>16, SettledFunds
  <2>18. /\ engines' = Settle(held, uid, m.action, m.events) /\ book' = m.book
         /\ deposited' = deposited
    BY <2>1 DEF Settled, held
  <2>19. QED
    BY <2>17, <2>18
<1>5. QED
  BY <1>3, <1>4

\* A deposit or a withdrawal moves the account and what was deposited by the same amount.
LEMMA AdjustmentFunds ==
  ASSUME ExchangeInv, FundsInv, MoneyFits, ModestFees,
         NEW uid \in Users, NEW currency \in Currencies, NEW amount \in Int,
         NEW tx \in 1..MaxTx, BalanceAdjustment(uid, currency, amount, tx)
  PROVE  FundsOK(engines', book', deposited')
<1> DEFINE s == ShardOf[uid]
           code == AdjustmentCheck(engines[s], uid, currency, amount, tx)
           old == engines[s].accounts[uid][currency]
           x == old + amount
           credited == WithBalance(engines[s], uid, currency, x)
           engine == [credited EXCEPT !.lastTx[uid] = tx]
<1>1. /\ EnginesOK(engines) /\ Rich(engines) /\ deposited \in [Currencies -> Int]
      /\ BookOK(book, Registered(engines), OrderIds) /\ PricedBook(book)
      /\ Backed(engines, book, deposited)
  BY FundsFacts DEF FundsInv, FundsOK
<1>2. EnginesOK(engines') /\ book' = book
  <2>1. Stepped
    BY AdjustmentSteps DEF ExchangeInv
  <2>2. QED
    BY <2>1 DEF Stepped, BalanceAdjustment
<1>3. CASE code # "Success"
  <2>1. engines' = engines /\ deposited' = deposited
    BY <1>3 DEF BalanceAdjustment
  <2>2. QED
    BY <1>2, <2>1 DEF FundsInv
<1>4. CASE code = "Success"
  <2>1. /\ uid \in DOMAIN engines[s].accounts
        /\ ~(x > MaxInt) /\ ~(x < 0)
    BY <1>4 DEF AdjustmentCheck
  <2>2. uid \in Registered(engines)
    BY <2>1 DEF Registered
  <2>3. /\ engines' = [engines EXCEPT ![s].accounts[uid][currency] = @ + amount,
                                      ![s].lastTx[uid] = tx]
        /\ deposited' = [deposited EXCEPT ![currency] = @ + amount]
    BY <1>4 DEF BalanceAdjustment
  <2>4. s \in Shards /\ DOMAIN engines = Shards
    BY <1>1 DEF EnginesOK, Shards
  <2>5. engines' = WithEngine(engines, s, engine)
    BY <2>3, <2>4 DEF WithEngine, WithBalance
  <2>6. engine.accounts = credited.accounts /\ engine.fees = engines[s].fees
    BY DEF WithBalance
  <2>7. BalanceOf(engines, uid, currency) = old /\ old \in Nat
    <3>1. BalanceOf(engines, uid, currency) \in Nat
      BY <1>1, <2>2, RichTotal
    <3>2. QED
      BY <3>1 DEF BalanceOf
  <2> HIDE DEF s, code, old, engine, credited
  <2>8. x \in Nat /\ x \in Words
    BY <2>1, <2>7, SymbolAssumption DEF Words
  <2> HIDE DEF x
  <2>9. Sets(engines', engines, uid, currency, x)
    <3>1. /\ engine.accounts = WithBalance(engines[ShardOf[uid]], uid, currency, x).accounts
          /\ engine.fees = engines[ShardOf[uid]].fees
          /\ engines' = WithEngine(engines, ShardOf[uid], engine)
      BY <2>5, <2>6 DEF s, credited
    <3>2. QED
      BY <1>1, <2>2, <2>8, <3>1, EngineSets
  <2>10. /\ Rich(engines') /\ Registered(engines') = Registered(engines)
         /\ Total(engines', currency)
              = Total(engines, currency) - BalanceOf(engines, uid, currency) + x
         /\ \A c \in Currencies : c # currency => Total(engines', c) = Total(engines, c)
         /\ TotalFees(engines') = TotalFees(engines)
    BY <1>1, <1>2, <2>2, <2>8, <2>9, BalanceSet
  <2>11. Total(engines', currency) = Total(engines, currency) + amount
    <3>1. Total(engines, currency) \in Int
      BY <1>1, TotalIs
    <3>2. QED
      BY <2>7, <2>10, <3>1 DEF x
  <2>12. \A c \in Currencies :
           /\ Total(engines', c) = Total(engines, c) + (IF c = currency THEN amount ELSE 0)
           /\ deposited'[c] = deposited[c] + (IF c = currency THEN amount ELSE 0)
           /\ Total(engines, c) \in Int /\ deposited[c] \in Int
    <3>1. \A c \in Currencies : Total(engines, c) \in Int /\ deposited[c] \in Int
      BY <1>1, TotalIs
    <3>2. ASSUME NEW c \in Currencies
          PROVE  deposited'[c] = deposited[c] + (IF c = currency THEN amount ELSE 0)
      <4>1. deposited'[c] = IF c = currency THEN deposited[c] + amount ELSE deposited[c]
        BY <1>1, <2>3
      <4>2. QED
        BY <3>1, <4>1
    <3>3. ASSUME NEW c \in Currencies
          PROVE  Total(engines', c) = Total(engines, c) + (IF c = currency THEN amount ELSE 0)
      <4>1. CASE c = currency
        BY <2>11, <4>1
      <4>2. CASE c # currency
        BY <2>10, <3>1, <4>2
      <4>3. QED
        BY <4>1, <4>2
    <3>4. QED
      BY <3>1, <3>2, <3>3
  <2>13. HeldFor(book["Ask"]) \in Nat /\ HeldFor(book["Bid"]) \in Nat
    <3>1. "Ask" \in Actions /\ "Bid" \in Actions /\ spec \in Specs
      BY FundsFacts DEF Actions
    <3>2. QED
      BY <1>1, <3>1, HeldForIs DEF BookOK, PricedBook
  <2>14. TotalFees(engines) \in Nat
    BY <1>1, RichTotal
  <2>15. ASSUME NEW d \in Int, NEW g \in Int, NEW h \in Int, Covers(d, h)
         PROVE  Covers(d + g, h + g)
    BY <2>15 DEF Covers
  <2>16. Backed(engines', book, deposited')
    <3> DEFINE g == IF "base" = currency THEN amount ELSE 0
               k == IF "quote" = currency THEN amount ELSE 0
               a == HeldFor(book["Ask"])
               b == HeldFor(book["Bid"])
               base == Total(engines, "base")
               quote == Total(engines, "quote")
               fees == TotalFees(engines)
    <3>1. /\ g \in Int /\ k \in Int
          /\ base \in Int /\ quote \in Int /\ deposited["base"] \in Int /\ deposited["quote"] \in Int
          /\ Total(engines', "base") = base + g /\ deposited'["base"] = deposited["base"] + g
          /\ Total(engines', "quote") = quote + k /\ deposited'["quote"] = deposited["quote"] + k
      BY <2>12 DEF Currencies
    <3>2. Covers(deposited["base"], base + a) /\ Covers(deposited["quote"], quote + fees + b)
      BY <1>1 DEF Backed
    <3> HIDE DEF g, k, a, b, base, quote, fees
    <3>3. a \in Nat /\ b \in Nat /\ fees \in Nat
      BY <2>13, <2>14 DEF a, b, fees
    <3>4. /\ base + a \in Int /\ quote + fees + b \in Int
          /\ (base + a) + g = (base + g) + a
          /\ (quote + fees + b) + k = (quote + k) + fees + b
      BY ONLY <3>1, <3>3
    <3>5. /\ Covers(deposited["base"] + g, (base + a) + g)
          /\ Covers(deposited["quote"] + k, (quote + fees + b) + k)
      BY ONLY <2>15, <3>1, <3>2, <3>4
    <3>6. /\ Covers(deposited'["base"], (base + g) + a)
          /\ Covers(deposited'["quote"], (quote + k) + fees + b)
      BY <3>1, <3>4, <3>5
    <3>7. QED
      BY <2>10, <3>1, <3>6 DEF Backed, a, b, fees
  <2>17. QED
    BY <1>1, <1>2, <2>10, <2>16 DEF FundsOK
<1>5. QED
  BY <1>3, <1>4

\* With more users, a book stays what it is.
LEMMA MoreUsers ==
  ASSUME NEW users, NEW more, users \subseteq more, NEW b, BookOK(b, users, OrderIds)
  PROVE  BookOK(b, more, OrderIds)
<1>1. OrdersOf(users, OrderIds) \subseteq OrdersOf(more, OrderIds)
  BY DEF OrdersOf
<1>2. \A S, T, s : S \subseteq T /\ s \in Seq(S) => s \in Seq(T)
  OBVIOUS
<1>3. ASSUME NEW action \in Actions
      PROVE  SideOK(b[action], action, more, OrderIds)
  <2>1. SideOK(b[action], action, users, OrderIds)
    BY DEF BookOK
  <2>2. b[action] \in Seq(OrdersOf(more, OrderIds))
    BY <1>1, <1>2, <2>1 DEF SideOK
  <2>3. QED
    BY <2>1, <2>2 DEF SideOK
<1>4. QED
  BY <1>3 DEF BookOK

\* A new account holds nothing.
LEMMA AddUserFunds ==
  ASSUME ExchangeInv, FundsInv, MoneyFits, ModestFees, NEW uid \in Users, AddUser(uid)
  PROVE  FundsOK(engines', book', deposited')
<1> DEFINE t == ShardOf[uid]
           zero == [base |-> 0, quote |-> 0]
           D == DOMAIN engines[t].accounts
           engine == [engines[t] EXCEPT !.accounts = WithEntry(@, uid, zero),
                                        !.lastTx = WithEntry(@, uid, 0)]
<1>1. /\ EnginesOK(engines) /\ Rich(engines)
      /\ BookOK(book, Registered(engines), OrderIds) /\ PricedBook(book)
      /\ Backed(engines, book, deposited)
  BY FundsFacts DEF FundsInv, FundsOK
<1>2. EnginesOK(engines') /\ book' = book /\ deposited' = deposited
  <2>1. Stepped
    BY AddUserSteps DEF ExchangeInv
  <2>2. QED
    BY <2>1 DEF Stepped, AddUser
<1>3. CASE uid \in D
  <2>1. engines' = engines
    BY <1>3 DEF AddUser
  <2>2. QED
    BY <1>2, <2>1 DEF FundsInv
<1>4. CASE uid \notin D
  <2>1. engines' = WithEngine(engines, t, engine)
    BY <1>4 DEF AddUser, WithEngine
  <2>2. t \in Shards /\ DOMAIN engines = Shards
    BY <1>1 DEF EnginesOK, Shards
  <2>3. engine.fees = engines[t].fees
    OBVIOUS
  <2>4. engine.accounts = WithEntry(engines[t].accounts, uid, zero)
    BY <1>1, <2>2, ShardIs DEF EnginesOK, EngineOK
  <2>5. /\ DOMAIN engine.accounts = D \cup {uid}
        /\ engine.accounts[uid] = zero
        /\ \A u \in D : engine.accounts[u] = engines[t].accounts[u]
    BY <1>4, <2>4 DEF WithEntry
  <2>6. \A s \in Shards : engines'[s] = IF s = t THEN engine ELSE engines[s]
    BY <2>1, <2>2 DEF WithEngine
  <2>7. zero["base"] = 0 /\ zero["quote"] = 0 /\ zero.base = 0 /\ zero.quote = 0
        /\ \A c \in Currencies : zero[c] = 0
    BY DEF Currencies
  <2> HIDE DEF engine, zero, t
  <2>8. Rich(engines')
    BY <1>1, <2>2, <2>3, <2>5, <2>6, <2>7 DEF Rich
  <2>9. Registered(engines) \subseteq Registered(engines')
    BY <2>5, <2>6 DEF Registered, Shards
  <2>10. BookOK(book, Registered(engines'), OrderIds)
    BY <1>1, <2>9, MoreUsers
  <2>11. ASSUME NEW c \in Currencies
         PROVE  Total(engines', c) = Total(engines, c)
    <3> DEFINE f == InShard(engines, t, c)
               g == InShard(engines', t, c)
    <3>1. /\ f \in [D -> Int] /\ IsFiniteSet(D)
          /\ \A u \in D : f[u] = engines[t].accounts[u][c]
      BY <1>1, <2>2, TotalIs, ShardIs DEF InShard
    <3>2. /\ g \in [D \cup {uid} -> Int] /\ g[uid] = 0
          /\ \A u \in D : g[u] = engines[t].accounts[u][c]
      <4>1. DOMAIN engines'[t].accounts = D \cup {uid} /\ engines'[t] = engine
        BY <2>2, <2>5, <2>6
      <4>2. g \in [D \cup {uid} -> Int]
        <5>1. InShard(engines', t, c) \in [DOMAIN engines'[t].accounts -> Int]
          BY <1>2, <2>2, TotalIs
        <5>2. QED
          BY <4>1, <5>1
      <4>3. \A u \in D \cup {uid} : g[u] = engine.accounts[u][c]
        BY <4>1 DEF InShard
      <4>4. QED
        BY <2>5, <2>7, <4>2, <4>3
    <3> HIDE DEF f, g, D
    <3>3. SumOf(g) = SumOf(f) + g[uid] /\ SumOf(f) \in Int
      BY <1>4, <3>1, <3>2, SumExtended
    <3>4. SumOf(g) = SumOf(f)
      BY <3>2, <3>3
    <3>5. Balances(engines'[t], c) = Balances(engines[t], c)
      BY <3>4 DEF f, g, InShard, Balances
    <3>6. \A s \in Shards : Balances(engines'[s], c) = Balances(engines[s], c)
      BY <2>6, <3>5
    <3>7. QED
      BY <1>1, <1>2, <3>6, TotalUnchanged
  <2>12. TotalFees(engines') = TotalFees(engines)
    <3>1. \A s \in Shards : engines'[s].fees = engines[s].fees
      BY <2>3, <2>6
    <3>2. QED
      BY <3>1 DEF TotalFees
  <2>13. Backed(engines', book, deposited)
    BY <1>1, <2>11, <2>12 DEF Backed, Currencies
  <2>14. QED
    BY <1>1, <1>2, <2>8, <2>10, <2>13 DEF FundsOK
<1>5. QED
  BY <1>3, <1>4

LEMMA FundsStart == Init => FundsInv
<1> SUFFICES ASSUME Init
             PROVE  FundsInv
  OBVIOUS
<1>1. \A s \in Shards : engines[s] = NewEngine
  BY DEF Init
<1>2. \A action \in Actions : book[action] = <<>> /\ Len(book[action]) = 0
  BY EmptySeq DEF Init, EmptyBook
<1>3. DOMAIN NewEngine.accounts = {} /\ NewEngine.fees = 0
  BY DEF NewEngine
<1>4. Rich(engines)
  BY <1>1, <1>3 DEF Rich
<1>5. BookOK(book, Registered(engines), OrderIds)
  <2>1. DOMAIN book = Actions
    BY DEF Init, EmptyBook
  <2>2. Len(<<>>) = 0 /\ <<>> \in Seq(OrdersOf(Registered(engines), OrderIds))
    BY EmptySeq
  <2>3. \A action : SideOK(<<>>, action, Registered(engines), OrderIds)
    BY <2>2 DEF SideOK
  <2>4. QED
    BY <1>2, <2>1, <2>3 DEF BookOK, Actions
<1>6. PricedBook(book)
  BY <1>2 DEF PricedBook, Priced
<1>7. \A c : Balances(NewEngine, c) = 0
  <2>1. ASSUME NEW c
        PROVE  Balances(NewEngine, c) = 0
    <3> DEFINE f == [u \in DOMAIN NewEngine.accounts |-> NewEngine.accounts[u][c]]
    <3>1. DOMAIN f = {}
      BY <1>3
    <3> HIDE DEF f
    <3>2. SumOf(f) = 0
      BY <3>1, SumEmpty
    <3>3. QED
      BY <3>2 DEF f, Balances
  <2>2. QED
    BY <2>1
<1>8. \A c : Total(engines, c) = 0
  <2>1. ASSUME NEW c
        PROVE  Total(engines, c) = 0
    <3> DEFINE f == [s \in Shards |-> Balances(engines[s], c)]
    <3>1. f \in [Shards -> Int] /\ (\A s \in Shards : f[s] = 0) /\ IsFiniteSet(Shards)
      BY <1>1, <1>7, ShardsAreFinite
    <3> HIDE DEF f
    <3>2. SumOf(f) = 0
      BY <3>1, SumOfZeros
    <3>3. QED
      BY <3>2 DEF f, Total
  <2>2. QED
    BY <2>1
<1>9. TotalFees(engines) = 0
  <2> DEFINE f == [s \in Shards |-> engines[s].fees]
  <2>1. f \in [Shards -> Int] /\ (\A s \in Shards : f[s] = 0) /\ IsFiniteSet(Shards)
    BY <1>1, <1>3, ShardsAreFinite
  <2> HIDE DEF f
  <2>2. SumOf(f) = 0
    BY <2>1, SumOfZeros
  <2>3. QED
    BY <2>2 DEF f, TotalFees
<1>10. ASSUME NEW action \in Actions
       PROVE  HeldFor(book[action]) = 0
  <2> DEFINE side == book[action]
             f == [i \in 1..Len(side) |-> HoldAmount([side[i] EXCEPT !.size = Remaining(side[i])])]
  <2>1. DOMAIN f = {}
    BY <1>2
  <2> HIDE DEF f
  <2>2. SumOf(f) = 0
    BY <2>1, SumEmpty
  <2>3. QED
    BY <2>2 DEF f, HeldFor
<1>11. Backed(engines, book, deposited)
  <2>1. HeldFor(book["Ask"]) = 0 /\ HeldFor(book["Bid"]) = 0
    BY <1>10 DEF Actions
  <2>2. deposited["base"] = 0 /\ deposited["quote"] = 0
    BY DEF Init, Currencies
  <2>3. QED
    BY <1>8, <1>9, <2>1, <2>2 DEF Backed, Covers
<1>12. QED
  BY <1>4, <1>5, <1>6, <1>11 DEF FundsInv, FundsOK

LEMMA FundsContinue ==
  ASSUME ModestFees, ExchangeInv, FundsInv, MoneyFits, [Next]_vars
  PROVE  FundsInv'
<1>1. FundsOK(engines', book', deposited') /\ spec' = spec
  <2>1. CASE Next
    <3>1. spec' = spec
      BY <2>1, CommandSteps DEF ExchangeInv, Stepped
    <3>2. ASSUME NEW uid \in Users, AddUser(uid)
          PROVE  FundsOK(engines', book', deposited')
      BY <3>2, AddUserFunds
    <3>3. ASSUME NEW uid \in Users, NEW a \in Adjustments, NEW tx \in 1..MaxTx,
                 BalanceAdjustment(uid, a.currency, a.amount, tx)
          PROVE  FundsOK(engines', book', deposited')
      <4>1. a.currency \in Currencies /\ a.amount \in Int
        BY InputAssumption
      <4>2. QED
        BY <3>3, <4>1, AdjustmentFunds
    <3>4. ASSUME NEW uid \in Users, NEW id \in OrderIds, NEW action \in Actions,
                 NEW type \in Types, NEW price \in Prices, NEW size \in Sizes,
                 NEW reserve \in Reserves(action, price),
                 PlaceOrder(uid, id, action, type, price, reserve, size)
          PROVE  FundsOK(engines', book', deposited')
      BY <3>4, PlaceOrderFunds
    <3>5. ASSUME NEW uid \in Users, NEW id \in OrderIds, Cancel(uid, id)
          PROVE  FundsOK(engines', book', deposited')
      BY <3>5, CancelFunds
    <3>6. ASSUME NEW uid \in Users, NEW id \in OrderIds, NEW price \in Prices,
                 Move(uid, id, price)
          PROVE  FundsOK(engines', book', deposited')
      BY <3>6, MoveFunds
    <3>7. ASSUME NEW uid \in Users, NEW id \in OrderIds, NEW size \in Sizes,
                 Reduce(uid, id, size)
          PROVE  FundsOK(engines', book', deposited')
      BY <3>7, ReduceFunds
    <3>8. QED
      BY <2>1, <3>1, <3>2, <3>3, <3>4, <3>5, <3>6, <3>7 DEF Next
  <2>2. CASE UNCHANGED vars
    BY <2>2 DEF FundsInv, vars, state
  <2>3. QED
    BY <2>1, <2>2
<1>2. QED
  BY <1>1 DEF FundsInv, FundsOK, Backed, HeldFor, HoldAmount

LEMMA FundsStay == ASSUME ModestFees PROVE Spec /\ []MoneyFits => []FundsInv
<1>1. Init => FundsInv
  BY FundsStart
<1>2. ExchangeInv /\ MoneyFits /\ FundsInv /\ [Next]_vars => FundsInv'
  BY FundsContinue
<1>3. Spec => []ExchangeInv
  BY ExchangeInvariantHolds
<1>4. QED
  BY <1>1, <1>2, <1>3, PTL DEF Spec

\* No sequence of commands overdraws an account, as long as the fees are modest and what
\* was deposited fits the word: R1 (place_order_risk_check) holds all that R2
\* (handle_trade_event, handle_reject_event) takes, for every order type.
THEOREM NobodyIsOverdrawn ==
  ASSUME ModestFees
  PROVE  Spec /\ []MoneyFits => []NeverOverdrawn
<1>1. FundsInv => NeverOverdrawn
  BY DEF FundsInv, FundsOK, Rich, NeverOverdrawn
<1>2. QED
  BY <1>1, FundsStay, PTL

\* No command makes money, under the same conditions: the balances, what is held for the
\* orders in the book and the fees never come to more than clients have deposited.
NoMoneyMade ==
  /\ Total(engines, "base") + HeldFor(book["Ask"]) <= deposited["base"]
  /\ Total(engines, "quote") + HeldFor(book["Bid"]) + TotalFees(engines) <= deposited["quote"]

\* What the invariant says of the funds.
LEMMA FundsAre ==
  ASSUME ModestFees, ExchangeInv, FundsInv
  PROVE  NoMoneyMade /\ (Exact => Conserved)
<1>1. /\ EnginesOK(engines) /\ Rich(engines) /\ deposited \in [Currencies -> Int]
      /\ BookOK(book, Registered(engines), OrderIds) /\ PricedBook(book) /\ spec \in Specs
      /\ Backed(engines, book, deposited)
  BY FundsFacts DEF FundsInv, FundsOK
<1>2. HeldFor(book["Ask"]) \in Nat /\ HeldFor(book["Bid"]) \in Nat
  <2>1. "Ask" \in Actions /\ "Bid" \in Actions
    BY DEF Actions
  <2>2. QED
    BY <1>1, <2>1, HeldForIs DEF BookOK, PricedBook
<1>3. /\ Total(engines, "base") \in Nat /\ Total(engines, "quote") \in Nat
      /\ TotalFees(engines) \in Nat
      /\ deposited["base"] \in Int /\ deposited["quote"] \in Int
  BY <1>1, RichTotal DEF Currencies
<1>4. QED
  BY <1>1, <1>2, <1>3 DEF Backed, Covers, NoMoneyMade, Conserved

THEOREM NoMoneyIsMade ==
  ASSUME ModestFees
  PROVE  Spec /\ []MoneyFits => []NoMoneyMade
<1>1. ExchangeInv /\ FundsInv => NoMoneyMade
  BY FundsAre
<1>2. QED
  BY <1>1, FundsStay, ExchangeInvariantHolds, PTL

\* And none is lost: funds are conserved to the last unit
\* (tests/fund_conservation_test.rs:3-6), unless clients place FokBudget orders, of which
\* place_fok_budget may leave a part that neither rests nor is paid back.
THEOREM FundsAreConserved ==
  ASSUME ModestFees, "FokBudget" \notin Types
  PROVE  Spec /\ []MoneyFits => []Conserved
<1>1. ExchangeInv /\ FundsInv => Conserved
  BY FundsAre DEF Exact
<1>2. QED
  BY <1>1, FundsStay, ExchangeInvariantHolds, PTL
=============================================================================
