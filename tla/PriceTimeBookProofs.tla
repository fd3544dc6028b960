------------------------- MODULE PriceTimeBookProofs -------------------------
(***************************************************************************)
(* What the operations of PriceTimeBook do to a book, for every book and    *)
(* every order.                                                             *)
(***************************************************************************)
EXTENDS PriceTimeBook, SumsProofs

-----------------------------------------------------------------------------
(* The walk of try_match is what its definition says. *)

\* Behind the last order there is nothing to visit.
LEMMA VisitNobody ==
  ASSUME NEW side, Len(side) \in Nat, NEW taker, NEW stp, NEW left, NEW d, NEW e
  PROVE  Visit(side, taker, stp, Len(side) + 1, left, d)
           = Visit(side, taker, stp, Len(side) + 1, left, e)
<1>1. Len(side) + 1 > Len(side)
  OBVIOUS
<1>2. QED
  BY <1>1 DEF Visit

IsWalk(f, side, taker, stp) ==
  f = [i \in 1..Len(side) + 1 |->
         [left \in 0..taker.size |-> Visit(side, taker, stp, i, left, f[i + 1])]]

LEMMA WalkExists ==
  ASSUME NEW side, Len(side) \in Nat, NEW taker, NEW stp
  PROVE  \E f : IsWalk(f, side, taker, stp)
<1> DEFINE n == Len(side)
           Row(f, i) == [left \in 0..taker.size |-> Visit(side, taker, stp, i, left, f[i + 1])]
           T == {i \in 1..n + 1 : \E f : f = [j \in i..n + 1 |-> Row(f, j)]}
<1>1. \A f, g : Row(f, n + 1) = Row(g, n + 1)
  BY VisitNobody
<1>2. \A f, g, i : f[i + 1] = g[i + 1] => Row(f, i) = Row(g, i)
  OBVIOUS
<1> HIDE DEF Row
<1>3. n + 1 \in T
  <2> DEFINE f == [j \in (n + 1)..(n + 1) |-> Row(<<>>, j)]
  <2>1. \A j \in (n + 1)..(n + 1) : j = n + 1
    OBVIOUS
  <2>2. f = [j \in (n + 1)..(n + 1) |-> Row(f, j)]
    <3>1. \A j \in (n + 1)..(n + 1) : Row(<<>>, j) = Row(f, j)
      <4> HIDE DEF f
      <4>1. QED
        BY <1>1, <2>1
    <3>2. QED
      BY <3>1
  <2> HIDE DEF f
  <2>3. QED
    BY <2>2
<1>4. ASSUME NEW i \in 1..n, i + 1 \in T
      PROVE  i \in T
  <2>1. PICK f : f = [j \in (i + 1)..(n + 1) |-> Row(f, j)]
    BY <1>4
  <2> DEFINE g == [j \in i..n + 1 |-> IF j = i THEN Row(f, i) ELSE f[j]]
  <2>2. ASSUME NEW j \in i..n + 1
        PROVE  g[j] = Row(g, j)
    <3>1. g[j] = IF j = i THEN Row(f, i) ELSE f[j]
      OBVIOUS
    <3>2. CASE j = n + 1
      <4>1. j # i /\ j \in (i + 1)..(n + 1)
        BY <3>2
      <4>2. g[j] = Row(f, j)
        BY <3>1, <4>1, <2>1
      <4> HIDE DEF g
      <4>3. QED
        BY <3>2, <4>2, <1>1
    <3>3. CASE j # n + 1
      <4>1. j + 1 \in i..n + 1 /\ j + 1 # i
        BY <3>3
      <4>2. g[j + 1] = f[j + 1]
        BY <4>1
      <4>3. Row(g, j) = Row(f, j)
        <5> HIDE DEF g
        <5>1. QED
          BY <4>2, <1>2
      <4>4. CASE j = i
        BY <4>4, <4>3, <3>1
      <4>5. CASE j # i
        <5>1. j \in (i + 1)..(n + 1)
          BY <4>5
        <5>2. QED
          BY <4>5, <5>1, <4>3, <3>1, <2>1
      <4>6. QED
        BY <4>4, <4>5
    <3>4. QED
      BY <3>2, <3>3
  <2>3. g = [j \in i..n + 1 |-> Row(g, j)]
    <3>1. g = [j \in i..n + 1 |-> g[j]]
      OBVIOUS
    <3> HIDE DEF g
    <3>2. QED
      BY <3>1, <2>2
  <2> HIDE DEF g
  <2>4. QED
    BY <2>3
<1>5. 1 \in T
  <2>1. \A i \in 1..n + 1 : i \in T
    <3> HIDE DEF T
    <3>1. QED
      BY <1>3, <1>4, WalkInduction
  <2>2. QED
    BY <2>1
<1>6. PICK f : f = [i \in 1..n + 1 |-> Row(f, i)]
  BY <1>5
<1>7. QED
  BY <1>6 DEF Row, IsWalk

LEMMA WalkIsDefined ==
  ASSUME NEW side, Len(side) \in Nat, NEW taker, NEW stp
  PROVE  LET at == Visits(side, taker, stp)
         IN  \A i \in 1..Len(side) + 1 : \A left \in 0..taker.size :
               at[i][left] = Visit(side, taker, stp, i, left, at[i + 1])
<1>1. \E f : IsWalk(f, side, taker, stp)
  BY WalkExists
<1>2. IsWalk(Visits(side, taker, stp), side, taker, stp)
  BY <1>1, Zenon DEF Visits, IsWalk
<1> DEFINE at == Visits(side, taker, stp)
<1>3. at = [i \in 1..Len(side) + 1 |->
              [left \in 0..taker.size |-> Visit(side, taker, stp, i, left, at[i + 1])]]
  BY <1>2 DEF IsWalk
<1> HIDE DEF at
<1>4. \A i \in 1..Len(side) + 1 :
        at[i] = [left \in 0..taker.size |-> Visit(side, taker, stp, i, left, at[i + 1])]
  BY <1>3
<1>5. \A i \in 1..Len(side) + 1 : \A left \in 0..taker.size :
        at[i][left] = Visit(side, taker, stp, i, left, at[i + 1])
  BY <1>4
<1>6. QED
  BY <1>5 DEF at

-----------------------------------------------------------------------------
(* What a walk comes to. *)

Modes == {"None", "CancelTaker", "CancelMaker", "CancelBoth", "Skip"}

EventsOf(users, ids) ==
  [type : {"Trade"}, size : Int, price : Int, uid : users, id : ids, hold : Int]
    \cup [type : {"Reject"}, size : Int, hold : Int]
    \cup [type : {"RejectMaker"}, size : Int, hold : Int, uid : users, id : ids]

\* The walk of a taker along a side.
Setting(side, taker, stp, users, ids) ==
  /\ SideOK(side, Opposite(taker.action), users, ids)
  /\ taker \in OrdersOf(users, ids) /\ taker.size \in Nat
  /\ stp \in Modes

\* x is y, which may have traded.
LeftOf(x, y) ==
  /\ x.id = y.id /\ x.uid = y.uid /\ x.action = y.action /\ x.price = y.price
  /\ x.size = y.size /\ x.reserve = y.reserve
  /\ y.filled <= x.filled /\ x.filled < x.size

\* t holds some of the orders of the side from position i on, in their order.
Remains(t, side, i) ==
  /\ \A a \in 1..Len(t) : \E j \in i..Len(side) : LeftOf(t[a], side[j])
  /\ \A a, b \in 1..Len(t) : \A j, k \in i..Len(side) :
       a < b /\ t[a].id = side[j].id /\ t[b].id = side[k].id => j < k

Absent(id, t) == \A a \in 1..Len(t) : t[a].id # id

\* e is a trade with an order nobody else's order was in front of, or the
\* cancellation of an order of the taker's.
Explained(e, t, side, taker, stp, i) ==
  \E j \in i..Len(side) :
    \/ /\ \E size \in 1..Remaining(side[j]) : e = Trade(taker, side[j], size)
       /\ WithinLimit(taker, side[j].price) /\ ~Own(taker, side[j], stp)
       /\ \A k \in i..(j - 1) : side[k].uid # taker.uid => Absent(side[k].id, t)
    \/ e = RejectMaker(side[j]) /\ Own(taker, side[j], stp)

\* Nothing the taker could still trade with is left.
Exhausted(m, taker, stp) ==
  m.filled < taker.size /\ ~m.aborted =>
    \A a \in 1..Len(m.side) :
      \/ ~WithinLimit(taker, m.side[a].price)
      \/ stp = "Skip" /\ m.side[a].uid = taker.uid

Typed(m, users, ids) ==
  /\ m.side \in Seq(OrdersOf(users, ids)) /\ m.events \in Seq(EventsOf(users, ids))
  /\ m.filled \in Int /\ m.aborted \in BOOLEAN

Outcome(m, side, taker, stp, users, ids, i, left) ==
  /\ Typed(m, users, ids)
  /\ taker.size - left <= m.filled /\ m.filled <= taker.size
  /\ Remains(m.side, side, i)
  /\ \A n \in 1..Len(m.events) : Explained(m.events[n], m.side, side, taker, stp, i)
  /\ Exhausted(m, taker, stp)

LEMMA Rest ==
  ASSUME NEW S, NEW s \in Seq(S), NEW i \in 1..Len(s) + 1
  PROVE  /\ From(s, i) \in Seq(S) /\ Len(From(s, i)) = Len(s) + 1 - i
         /\ \A a \in 1..(Len(s) + 1 - i) : From(s, i)[a] = s[i + a - 1]
<1>1. Len(s) \in Nat /\ \A j \in i..Len(s) : s[j] \in S
  OBVIOUS
<1>2. QED
  BY <1>1, SubSeqProperties DEF From

\* m is one visit: the walk ends, or goes on as d says.
Cases(m, side, taker, stp, i, left, d) ==
  LET maker == side[i]
      met == i <= Len(side) /\ left > 0 /\ WithinLimit(taker, maker.price)
      own == met /\ Own(taker, maker, stp)
      other == met /\ ~Own(taker, maker, stp)
  IN  \/ ~met /\ m = Stop(taker, left, From(side, i), <<>>, FALSE)
      \/ own /\ m = Stop(taker, left, From(side, i), <<>>, TRUE)
      \/ own /\ stp = "Skip" /\ m = Keep(maker, d[left])
      \/ own /\ m = Emit(RejectMaker(maker), d[left])
      \/ own /\ m = Stop(taker, left, From(side, i + 1), <<RejectMaker(maker)>>, TRUE)
      \/ /\ other /\ left < Remaining(maker)
         /\ m = Stop(taker, 0, <<[maker EXCEPT !.filled = @ + left]>> \o From(side, i + 1),
                     <<Trade(taker, maker, left)>>, FALSE)
      \/ /\ other /\ Remaining(maker) <= left
         /\ m = Emit(Trade(taker, maker, Remaining(maker)), d[left - Remaining(maker)])

LEMMA VisitCases ==
  ASSUME NEW users, NEW ids, NEW side, NEW taker, NEW stp,
         Setting(side, taker, stp, users, ids),
         NEW i \in 1..Len(side) + 1, NEW left \in 0..taker.size, NEW d
  PROVE  Cases(Visit(side, taker, stp, i, left, d), side, taker, stp, i, left, d)
<1>1. stp \in Modes /\ side \in Seq(OrdersOf(users, ids)) /\ Len(side) \in Nat
  BY DEF Setting, SideOK
<1>2. ASSUME i <= Len(side)
      PROVE  Remaining(side[i]) \in Int
  <2>1. i \in 1..Len(side)
    BY <1>1, <1>2
  <2>2. side[i] \in OrdersOf(users, ids)
    BY <1>1, <2>1, ElementOfSeq
  <2>3. side[i].size \in Int /\ side[i].filled \in Int
    BY <2>2 DEF OrdersOf
  <2>4. QED
    BY <2>3 DEF Remaining
<1>3. Own(taker, side[i], stp) => stp # "None"
  BY DEF Own
<1>4. (i > Len(side) \/ left = 0) <=> ~(i <= Len(side) /\ left > 0)
  BY <1>1 DEF Setting
<1>5. i <= Len(side) => (left < Remaining(side[i]) <=> ~(Remaining(side[i]) <= left))
  BY <1>2 DEF Setting
<1>6. QED
  BY <1>1, <1>3, <1>4, <1>5, Zenon DEF Visit, Cases, Modes

LEMMA Makers ==
  ASSUME NEW users, NEW ids, NEW side, NEW taker, NEW stp,
         Setting(side, taker, stp, users, ids)
  PROVE  /\ side \in Seq(OrdersOf(users, ids)) /\ Len(side) \in Nat
         /\ taker.size \in Nat /\ taker.price \in Int /\ taker.reserve \in Int
         /\ taker.action \in Actions /\ stp \in Modes /\ taker.uid \in users
         /\ \A j \in 1..Len(side) :
              /\ side[j] \in OrdersOf(users, ids)
              /\ side[j].price \in Int /\ side[j].reserve \in Int /\ side[j].uid \in users
              /\ side[j].id \in ids /\ side[j].size \in Int /\ side[j].filled \in Nat
              /\ side[j].action = Opposite(taker.action)
              /\ side[j].filled < side[j].size
              /\ Remaining(side[j]) \in Nat \ {0}
              /\ side[j].size = Remaining(side[j]) + side[j].filled
<1>1. side \in Seq(OrdersOf(users, ids)) /\ Len(side) \in Nat
  BY DEF Setting, SideOK
<1>2. /\ taker.size \in Nat /\ taker.price \in Int /\ taker.reserve \in Int
      /\ taker.action \in Actions /\ stp \in Modes /\ taker.uid \in users
  BY DEF Setting, OrdersOf
<1>3. ASSUME NEW j \in 1..Len(side)
      PROVE  /\ side[j] \in OrdersOf(users, ids)
             /\ side[j].price \in Int /\ side[j].reserve \in Int /\ side[j].uid \in users
             /\ side[j].id \in ids /\ side[j].size \in Int /\ side[j].filled \in Nat
             /\ side[j].action = Opposite(taker.action)
             /\ side[j].filled < side[j].size
             /\ Remaining(side[j]) \in Nat \ {0}
             /\ side[j].size = Remaining(side[j]) + side[j].filled
  <2>1. side[j] \in OrdersOf(users, ids)
    BY <1>1, ElementOfSeq
  <2>2. /\ side[j].price \in Int /\ side[j].reserve \in Int /\ side[j].uid \in users
        /\ side[j].id \in ids /\ side[j].size \in Int /\ side[j].filled \in Int
    BY <2>1 DEF OrdersOf
  <2>3. /\ side[j].action = Opposite(taker.action)
        /\ 0 <= side[j].filled /\ side[j].filled < side[j].size
    BY DEF Setting, SideOK
  <2>4. QED
    BY <2>1, <2>2, <2>3 DEF Remaining
<1>4. QED
  BY <1>1, <1>2, <1>3

\* Behind an order beyond the limit there are only such orders.
LEMMA Beyond ==
  ASSUME NEW taker, taker.price \in Int, taker.action \in Actions,
         NEW p \in Int, NEW q \in Int,
         ~WithinLimit(taker, p), ~Ahead(Opposite(taker.action), q, p)
  PROVE  ~WithinLimit(taker, q)
  BY DEF WithinLimit, Ahead, Opposite, Actions

\* Where nothing is removed, everything remains.
LEMMA RestRemains ==
  ASSUME NEW users, NEW ids, NEW side, NEW taker, NEW stp,
         Setting(side, taker, stp, users, ids), NEW i \in 1..Len(side) + 1
  PROVE  /\ From(side, i) \in Seq(OrdersOf(users, ids))
         /\ Remains(From(side, i), side, i)
<1> DEFINE t == From(side, i)
<1>1. side \in Seq(OrdersOf(users, ids)) /\ Len(side) \in Nat
  BY Makers
<1>2. /\ t \in Seq(OrdersOf(users, ids)) /\ Len(t) = Len(side) + 1 - i
      /\ \A a \in 1..(Len(side) + 1 - i) : t[a] = side[i + a - 1]
  BY <1>1, Rest
<1> HIDE DEF t
<1>3. ASSUME NEW a \in 1..Len(t)
      PROVE  i + a - 1 \in i..Len(side) /\ i + a - 1 \in 1..Len(side) /\ t[a] = side[i + a - 1]
  BY <1>1, <1>2
<1>4. ASSUME NEW a \in 1..Len(t)
      PROVE  \E j \in i..Len(side) : LeftOf(t[a], side[j])
  <2>1. LeftOf(t[a], side[i + a - 1])
    <3>1. side[i + a - 1].filled \in Nat /\ side[i + a - 1].filled < side[i + a - 1].size
      BY <1>3, Makers
    <3>2. QED
      BY <1>3, <3>1 DEF LeftOf
  <2>2. QED
    BY <1>3, <2>1
<1>5. ASSUME NEW j \in 1..Len(side), NEW k \in 1..Len(side), side[j].id = side[k].id
      PROVE  j = k
  BY <1>1, <1>5 DEF Setting, SideOK
<1>6. ASSUME NEW a \in 1..Len(t), NEW b \in 1..Len(t), NEW j \in i..Len(side),
             NEW k \in i..Len(side), a < b, t[a].id = side[j].id, t[b].id = side[k].id
      PROVE  j < k
  <2> j \in 1..Len(side) /\ k \in 1..Len(side)
    BY <1>1
  <2>1. /\ i + a - 1 \in 1..Len(side) /\ t[a] = side[i + a - 1]
        /\ i + b - 1 \in 1..Len(side) /\ t[b] = side[i + b - 1]
    BY <1>3
  <2>2. j = i + a - 1 /\ k = i + b - 1
    BY <1>5, <1>6, <2>1
  <2>3. QED
    BY <1>1, <1>2, <1>6, <2>2
<1>7. Remains(t, side, i)
  BY <1>4, <1>6 DEF Remains
<1>8. QED
  BY <1>2, <1>7 DEF t

LEMMA StopOutcome ==
  ASSUME NEW users, NEW ids, NEW side, NEW taker, NEW stp,
         Setting(side, taker, stp, users, ids),
         NEW i \in 1..Len(side) + 1, NEW left \in 0..taker.size, NEW aborted \in BOOLEAN,
         aborted \/ i > Len(side) \/ left = 0 \/ ~WithinLimit(taker, side[i].price)
  PROVE  Outcome(Stop(taker, left, From(side, i), <<>>, aborted),
                 side, taker, stp, users, ids, i, left)
<1> DEFINE t == From(side, i)
           m == Stop(taker, left, t, <<>>, aborted)
<1>1. /\ side \in Seq(OrdersOf(users, ids)) /\ Len(side) \in Nat
      /\ taker.size \in Nat /\ taker.price \in Int /\ taker.action \in Actions
  BY Makers
<1>2. t \in Seq(OrdersOf(users, ids)) /\ Remains(t, side, i)
  BY RestRemains
<1>3. /\ Len(t) = Len(side) + 1 - i
      /\ \A a \in 1..(Len(side) + 1 - i) : t[a] = side[i + a - 1]
  BY <1>1, Rest
<1> HIDE DEF t
<1>4. m.side = t /\ m.events = <<>> /\ m.filled = taker.size - left /\ m.aborted = aborted
  BY DEF Stop
<1> HIDE DEF m
<1>5. Typed(m, users, ids) /\ Len(m.events) = 0
  <2>1. <<>> \in Seq(EventsOf(users, ids)) /\ Len(<<>>) = 0
    BY EmptySeq
  <2>2. QED
    BY <1>1, <1>2, <1>4, <2>1 DEF Typed
<1>6. taker.size - left <= m.filled /\ m.filled <= taker.size
  BY <1>1, <1>4
<1>7. \A n \in 1..Len(m.events) : Explained(m.events[n], m.side, side, taker, stp, i)
  BY <1>5
<1>8. Exhausted(m, taker, stp)
  <2>1. SUFFICES ASSUME m.filled < taker.size, ~m.aborted, NEW a \in 1..Len(t)
                 PROVE  ~WithinLimit(taker, t[a].price)
    BY <1>4 DEF Exhausted
  <2>2. left # 0 /\ ~aborted
    BY <1>1, <1>4, <2>1
  <2>3. i \in 1..Len(side) /\ ~WithinLimit(taker, side[i].price)
    BY <1>1, <1>3, <2>2
  <2>4. i + a - 1 \in 1..Len(side) /\ i <= i + a - 1 /\ t[a] = side[i + a - 1]
    BY <1>1, <1>3
  <2>5. i < i + a - 1 => ~Ahead(Opposite(taker.action), side[i + a - 1].price, side[i].price)
    BY <2>3, <2>4 DEF Setting, SideOK
  <2>6. side[i].price \in Int /\ side[i + a - 1].price \in Int
    BY <2>3, <2>4, Makers
  <2>7. CASE i = i + a - 1
    BY <2>3, <2>4, <2>7
  <2>8. CASE i # i + a - 1
    <3>1. i < i + a - 1
      BY <2>4, <2>8
    <3>2. ~WithinLimit(taker, side[i + a - 1].price)
      BY <1>1, <2>3, <2>5, <2>6, <3>1, Beyond
    <3>3. QED
      BY <2>4, <3>2
  <2>9. QED
    BY <2>7, <2>8
<1>9. Outcome(m, side, taker, stp, users, ids, i, left)
  BY <1>2, <1>4, <1>5, <1>6, <1>7, <1>8 DEF Outcome
<1>10. QED
  BY <1>9 DEF m, t

LEMMA IdsDiffer ==
  ASSUME NEW users, NEW ids, NEW side, NEW taker, NEW stp,
         Setting(side, taker, stp, users, ids),
         NEW j \in 1..Len(side), NEW k \in 1..Len(side), side[j].id = side[k].id
  PROVE  j = k
<1>1. Len(side) \in Nat
  BY Makers
<1>2. QED
  BY <1>1 DEF Setting, SideOK

\* What remains from the next order on, alone or with this order in front of it.
LEMMA BehindRemains ==
  ASSUME NEW users, NEW ids, NEW side, NEW taker, NEW stp,
         Setting(side, taker, stp, users, ids), NEW i \in 1..Len(side),
         NEW t \in Seq(OrdersOf(users, ids)), Remains(t, side, i + 1)
  PROVE  Remains(t, side, i) /\ Absent(side[i].id, t)
<1>1. Len(side) \in Nat
  BY Makers
<1>2. ASSUME NEW a \in 1..Len(t), NEW j \in i..Len(side), t[a].id = side[j].id
      PROVE  j \in (i + 1)..Len(side)
  <2>1. PICK k \in (i + 1)..Len(side) : LeftOf(t[a], side[k])
    BY DEF Remains
  <2>2. side[j].id = side[k].id
    BY <1>2, <2>1 DEF LeftOf
  <2>3. j \in 1..Len(side) /\ k \in 1..Len(side)
    BY <1>1
  <2>4. j = k
    BY <2>2, <2>3, IdsDiffer
  <2>5. QED
    BY <2>4
<1>3. Absent(side[i].id, t)
  <2> SUFFICES ASSUME NEW a \in 1..Len(t), t[a].id = side[i].id
               PROVE  FALSE
    BY DEF Absent
  <2>1. i \in i..Len(side)
    BY <1>1
  <2>2. QED
    BY <1>1, <1>2, <2>1
<1>4. ASSUME NEW a \in 1..Len(t)
      PROVE  \E j \in i..Len(side) : LeftOf(t[a], side[j])
  <2>1. PICK k \in (i + 1)..Len(side) : LeftOf(t[a], side[k])
    BY DEF Remains
  <2>2. QED
    BY <1>1, <2>1
<1>5. ASSUME NEW a \in 1..Len(t), NEW b \in 1..Len(t), NEW j \in i..Len(side),
             NEW k \in i..Len(side), a < b, t[a].id = side[j].id, t[b].id = side[k].id
      PROVE  j < k
  <2>1. j \in (i + 1)..Len(side) /\ k \in (i + 1)..Len(side)
    BY <1>2, <1>5
  <2>2. QED
    BY <1>5, <2>1 DEF Remains
<1>6. QED
  BY <1>3, <1>4, <1>5 DEF Remains

LEMMA FrontRemains ==
  ASSUME NEW users, NEW ids, NEW side, NEW taker, NEW stp,
         Setting(side, taker, stp, users, ids), NEW i \in 1..Len(side),
         NEW t \in Seq(OrdersOf(users, ids)), Remains(t, side, i + 1),
         NEW x \in OrdersOf(users, ids), LeftOf(x, side[i])
  PROVE  Remains(<<x>> \o t, side, i)
<1> DEFINE u == <<x>> \o t
<1>1. Len(side) \in Nat /\ Len(t) \in Nat
  BY Makers, LenProperties
<1>2. /\ Len(u) = Len(t) + 1 /\ u[1] = x
      /\ \A a \in 1..Len(t) + 1 : a # 1 => a - 1 \in 1..Len(t) /\ u[a] = t[a - 1]
  BY InFront
<1> HIDE DEF u
<1>3. Remains(t, side, i) /\ Absent(side[i].id, t)
  BY BehindRemains
<1>4. i \in i..Len(side) /\ x.id = side[i].id
  BY <1>1 DEF LeftOf
<1>5. ASSUME NEW a \in 1..Len(u)
      PROVE  \E j \in i..Len(side) : LeftOf(u[a], side[j])
  <2>1. CASE a = 1
    BY <1>2, <1>4, <2>1
  <2>2. CASE a # 1
    <3>1. a - 1 \in 1..Len(t) /\ u[a] = t[a - 1]
      BY <1>2, <2>2
    <3>2. QED
      BY <1>3, <3>1 DEF Remains
  <2>3. QED
    BY <2>1, <2>2
<1>6. ASSUME NEW a \in 1..Len(u), NEW b \in 1..Len(u), NEW j \in i..Len(side),
             NEW k \in i..Len(side), a < b, u[a].id = side[j].id, u[b].id = side[k].id
      PROVE  j < k
  <2>1. b # 1 /\ b - 1 \in 1..Len(t) /\ u[b] = t[b - 1]
    BY <1>1, <1>2, <1>6
  <2>2. CASE a = 1
    <3>1. side[j].id = side[i].id
      BY <1>2, <1>4, <1>6, <2>2
    <3>2. j = i
      <4>1. j \in 1..Len(side)
        BY <1>1
      <4>2. QED
        BY <3>1, <4>1, IdsDiffer
    <3>3. k # i
      BY <1>3, <1>6, <2>1 DEF Absent
    <3>4. QED
      BY <1>1, <3>2, <3>3
  <2>3. CASE a # 1
    <3>1. a - 1 \in 1..Len(t) /\ u[a] = t[a - 1] /\ a - 1 < b - 1
      BY <1>1, <1>2, <1>6, <2>3
    <3>2. QED
      BY <1>3, <1>6, <2>1, <3>1 DEF Remains
  <2>4. QED
    BY <2>2, <2>3
<1>7. Remains(u, side, i)
  BY <1>5, <1>6 DEF Remains
<1>8. QED
  BY <1>7 DEF u

\* An event that has an explanation from the next order on has one from here on, when
\* the order here is gone or the taker's own.
LEMMA StillExplained ==
  ASSUME NEW users, NEW ids, NEW side, NEW taker, NEW stp,
         Setting(side, taker, stp, users, ids), NEW i \in 1..Len(side),
         NEW t, NEW u, NEW e, Explained(e, t, side, taker, stp, i + 1),
         side[i].uid # taker.uid => Absent(side[i].id, u),
         \A k \in (i + 1)..Len(side) : Absent(side[k].id, t) => Absent(side[k].id, u)
  PROVE  Explained(e, u, side, taker, stp, i)
<1>1. Len(side) \in Nat
  BY Makers
<1>2. PICK j \in (i + 1)..Len(side) :
         \/ /\ \E size \in 1..Remaining(side[j]) : e = Trade(taker, side[j], size)
            /\ WithinLimit(taker, side[j].price) /\ ~Own(taker, side[j], stp)
            /\ \A k \in (i + 1)..(j - 1) : side[k].uid # taker.uid => Absent(side[k].id, t)
         \/ e = RejectMaker(side[j]) /\ Own(taker, side[j], stp)
  BY DEF Explained
<1>3. j \in i..Len(side)
  BY <1>1
<1>4. ASSUME \A k \in (i + 1)..(j - 1) : side[k].uid # taker.uid => Absent(side[k].id, t),
             NEW k \in i..(j - 1), side[k].uid # taker.uid
      PROVE  Absent(side[k].id, u)
  <2>1. CASE k = i
    BY <1>4, <2>1
  <2>2. CASE k # i
    <3>1. k \in (i + 1)..(j - 1) /\ k \in (i + 1)..Len(side)
      BY <1>1, <2>2
    <3>2. QED
      BY <1>4, <3>1
  <2>3. QED
    BY <2>1, <2>2
<1>5. QED
  BY <1>2, <1>3, <1>4 DEF Explained

LEMMA EventsTyped ==
  ASSUME NEW users, NEW ids, NEW side, NEW taker, NEW stp,
         Setting(side, taker, stp, users, ids), NEW j \in 1..Len(side)
  PROVE  /\ \A size \in Int : Trade(taker, side[j], size) \in EventsOf(users, ids)
         /\ RejectMaker(side[j]) \in EventsOf(users, ids)
<1>1. /\ side[j].price \in Int /\ side[j].reserve \in Int /\ side[j].uid \in users
      /\ side[j].id \in ids /\ Remaining(side[j]) \in Int /\ taker.reserve \in Int
  BY Makers
<1>2. ASSUME NEW size \in Int
      PROVE  Trade(taker, side[j], size) \in EventsOf(users, ids)
  BY <1>1 DEF Trade, EventsOf
<1>3. RejectMaker(side[j]) \in EventsOf(users, ids)
  BY <1>1 DEF RejectMaker, EventsOf
<1>4. QED
  BY <1>2, <1>3

IsResult(m) ==
  m = [side |-> m.side, events |-> m.events, filled |-> m.filled, aborted |-> m.aborted]

LEMMA ResultsAre ==
  /\ \A taker, left, kept, events, aborted : IsResult(Stop(taker, left, kept, events, aborted))
  /\ \A maker, after : IsResult(after) => IsResult(Keep(maker, after))
  /\ \A e, after : IsResult(after) => IsResult(Emit(e, after))
<1> DEFINE R(a, b, c, d) == [side |-> a, events |-> b, filled |-> c, aborted |-> d]
           WithSide(m, x) == [m EXCEPT !.side = x]
           WithEvents(m, x) == [m EXCEPT !.events = x]
<1>1. \A a, b, c, d : IsResult(R(a, b, c, d))
  BY DEF IsResult
<1>2. \A taker, left, kept, events, aborted : IsResult(Stop(taker, left, kept, events, aborted))
  BY <1>1 DEF Stop
<1>3. \A x, a, b, c, d : WithSide(R(a, b, c, d), x) = R(x, b, c, d)
  OBVIOUS
<1>4. \A x, a, b, c, d : WithEvents(R(a, b, c, d), x) = R(a, x, c, d)
  OBVIOUS
<1>5. \A m : IsResult(m) => m = R(m.side, m.events, m.filled, m.aborted)
  BY DEF IsResult
<1>6. \A maker, after : Keep(maker, after) = WithSide(after, <<maker>> \o after.side)
  BY Zenon DEF Keep
<1>7. \A e, after : Emit(e, after) = WithEvents(after, <<e>> \o after.events)
  BY Zenon DEF Emit
<1> HIDE DEF R, WithSide, WithEvents
<1>8. ASSUME NEW maker, NEW after, IsResult(after)
      PROVE  IsResult(Keep(maker, after))
  <2>1. PICK a, b, c, d : after = R(a, b, c, d)
    BY <1>5, <1>8
  <2>2. Keep(maker, after) = WithSide(after, <<maker>> \o after.side)
    BY <1>6
  <2>3. Keep(maker, after) = R(<<maker>> \o after.side, b, c, d)
    BY <1>3, <2>1, <2>2
  <2>4. QED
    BY <1>1, <2>3
<1>9. ASSUME NEW e, NEW after, IsResult(after)
      PROVE  IsResult(Emit(e, after))
  <2>1. PICK a, b, c, d : after = R(a, b, c, d)
    BY <1>5, <1>9
  <2>2. Emit(e, after) = WithEvents(after, <<e>> \o after.events)
    BY <1>7
  <2>3. Emit(e, after) = R(a, <<e>> \o after.events, c, d)
    BY <1>4, <2>1, <2>2
  <2>4. QED
    BY <1>1, <2>3
<1>10. QED
  BY <1>2, <1>8, <1>9

\* Self-trade prevention by skipping leaves the order where it is.
LEMMA KeepOutcome ==
  ASSUME NEW users, NEW ids, NEW side, NEW taker, NEW stp,
         Setting(side, taker, stp, users, ids), NEW i \in 1..Len(side),
         NEW left \in 0..taker.size, NEW after,
         after = [side |-> after.side, events |-> after.events, filled |-> after.filled,
                  aborted |-> after.aborted],
         Outcome(after, side, taker, stp, users, ids, i + 1, left),
         stp = "Skip", Own(taker, side[i], stp)
  PROVE  Outcome(Keep(side[i], after), side, taker, stp, users, ids, i, left)
<1> DEFINE m == Keep(side[i], after)
           t == after.side
           u == <<side[i]>> \o t
<1>1. /\ m.side = u /\ m.events = after.events /\ m.filled = after.filled
      /\ m.aborted = after.aborted
  BY DEF Keep
<1>2. Typed(after, users, ids) /\ Remains(t, side, i + 1)
  BY DEF Outcome
<1>3. /\ side[i] \in OrdersOf(users, ids) /\ side[i].filled < side[i].size
      /\ side[i].filled \in Nat /\ side[i].uid = taker.uid
  BY Makers DEF Own
<1>4. t \in Seq(OrdersOf(users, ids)) /\ Len(t) \in Nat /\ Len(side) \in Nat
  BY <1>2, Makers DEF Typed
<1>5. /\ u \in Seq(OrdersOf(users, ids)) /\ Len(u) = Len(t) + 1 /\ u[1] = side[i]
      /\ \A a \in 1..Len(t) + 1 : a # 1 => a - 1 \in 1..Len(t) /\ u[a] = t[a - 1]
  BY <1>3, <1>4, InFront
<1>6. Remains(u, side, i)
  BY <1>2, <1>3, <1>4, FrontRemains DEF LeftOf
<1> HIDE DEF m, u, t
<1>7. Typed(m, users, ids)
  BY <1>1, <1>2, <1>5 DEF Typed
<1>8. taker.size - left <= m.filled /\ m.filled <= taker.size
  BY <1>1 DEF Outcome
<1>9. ASSUME NEW n \in 1..Len(m.events)
      PROVE  Explained(m.events[n], m.side, side, taker, stp, i)
  <2>1. Explained(m.events[n], t, side, taker, stp, i + 1)
    BY <1>1 DEF Outcome, t
  <2>2. ASSUME NEW k \in (i + 1)..Len(side), Absent(side[k].id, t)
        PROVE  Absent(side[k].id, u)
    <3>1. k \in 1..Len(side) /\ k # i
      BY <1>4
    <3>2. side[k].id # side[i].id
      BY <3>1, IdsDiffer
    <3>3. QED
      BY <1>5, <2>2, <3>2 DEF Absent
  <2>3. Explained(m.events[n], u, side, taker, stp, i)
    BY <1>3, <2>1, <2>2, StillExplained
  <2>4. QED
    BY <1>1, <2>3
<1>10. Exhausted(m, taker, stp)
  <2>1. Exhausted(after, taker, stp)
    BY DEF Outcome
  <2>2. SUFFICES ASSUME m.filled < taker.size, ~m.aborted, NEW a \in 1..Len(u)
                 PROVE  ~WithinLimit(taker, u[a].price) \/ u[a].uid = taker.uid
    BY <1>1 DEF Exhausted
  <2>3. CASE a = 1
    BY <1>3, <1>5, <2>3
  <2>4. CASE a # 1
    <3>1. a - 1 \in 1..Len(t) /\ u[a] = t[a - 1]
      BY <1>5, <2>4
    <3>2. QED
      BY <1>1, <2>1, <2>2, <3>1 DEF Exhausted, t
  <2>5. QED
    BY <2>3, <2>4
<1>11. Outcome(m, side, taker, stp, users, ids, i, left)
  BY <1>1, <1>6, <1>7, <1>8, <1>9, <1>10 DEF Outcome
<1>12. QED
  BY <1>11 DEF m

\* An order that leaves the book, traded or cancelled.
LEMMA EmitOutcome ==
  ASSUME NEW users, NEW ids, NEW side, NEW taker, NEW stp,
         Setting(side, taker, stp, users, ids), NEW i \in 1..Len(side),
         NEW left \in 0..taker.size, NEW rest \in 0..left, NEW after,
         after = [side |-> after.side, events |-> after.events, filled |-> after.filled,
                  aborted |-> after.aborted],
         Outcome(after, side, taker, stp, users, ids, i + 1, rest),
         NEW e \in EventsOf(users, ids),
         Explained(e, after.side, side, taker, stp, i)
  PROVE  Outcome(Emit(e, after), side, taker, stp, users, ids, i, left)
<1> DEFINE m == Emit(e, after)
           t == after.side
<1>1. /\ m.side = t /\ m.events = <<e>> \o after.events /\ m.filled = after.filled
      /\ m.aborted = after.aborted
  BY DEF Emit
<1>2. Typed(after, users, ids) /\ Remains(t, side, i + 1)
  BY DEF Outcome
<1>3. t \in Seq(OrdersOf(users, ids)) /\ Len(side) \in Nat /\ taker.size \in Nat
  BY <1>2, Makers DEF Typed
<1>4. Remains(t, side, i) /\ Absent(side[i].id, t)
  BY <1>2, <1>3, BehindRemains
<1>5. after.events \in Seq(EventsOf(users, ids)) /\ Len(after.events) \in Nat
  BY <1>2 DEF Typed
<1>6. /\ m.events \in Seq(EventsOf(users, ids)) /\ Len(m.events) = Len(after.events) + 1
      /\ m.events[1] = e
      /\ \A n \in 1..Len(after.events) + 1 : n # 1 =>
           n - 1 \in 1..Len(after.events) /\ m.events[n] = after.events[n - 1]
  BY <1>1, <1>5, InFront
<1> HIDE DEF m
<1>7. Typed(m, users, ids)
  BY <1>1, <1>2, <1>6 DEF Typed
<1>8. taker.size - left <= m.filled /\ m.filled <= taker.size
  BY <1>1, <1>2, <1>3 DEF Outcome, Typed
<1>9. ASSUME NEW n \in 1..Len(m.events)
      PROVE  Explained(m.events[n], m.side, side, taker, stp, i)
  <2>1. CASE n = 1
    BY <1>1, <1>6, <2>1
  <2>2. CASE n # 1
    <3>1. n - 1 \in 1..Len(after.events) /\ m.events[n] = after.events[n - 1]
      BY <1>6, <2>2
    <3>2. Explained(after.events[n - 1], t, side, taker, stp, i + 1)
      BY <3>1 DEF Outcome
    <3>3. Explained(after.events[n - 1], t, side, taker, stp, i)
      BY <1>4, <3>2, StillExplained
    <3>4. QED
      BY <1>1, <3>1, <3>3
  <2>3. QED
    BY <2>1, <2>2
<1>10. Exhausted(m, taker, stp)
  BY <1>1 DEF Outcome, Exhausted
<1>11. Outcome(m, side, taker, stp, users, ids, i, left)
  BY <1>1, <1>4, <1>7, <1>8, <1>9, <1>10 DEF Outcome
<1>12. QED
  BY <1>11 DEF m

LEMMA BothOutcome ==
  ASSUME NEW users, NEW ids, NEW side, NEW taker, NEW stp,
         Setting(side, taker, stp, users, ids), NEW i \in 1..Len(side),
         NEW left \in 0..taker.size, Own(taker, side[i], stp)
  PROVE  Outcome(Stop(taker, left, From(side, i + 1), <<RejectMaker(side[i])>>, TRUE),
                 side, taker, stp, users, ids, i, left)
<1> DEFINE e == RejectMaker(side[i])
           rest == From(side, i + 1)
           after == Stop(taker, left, rest, <<>>, TRUE)
<1>1. Len(side) \in Nat /\ taker.size \in Nat /\ i + 1 \in 1..Len(side) + 1 /\ TRUE \in BOOLEAN
  BY Makers
<1>2. Outcome(after, side, taker, stp, users, ids, i + 1, left)
  <2>1. Outcome(Stop(taker, left, From(side, i + 1), <<>>, TRUE),
                side, taker, stp, users, ids, i + 1, left)
    BY <1>1, StopOutcome
  <2>2. QED
    BY <2>1
<1>3. e \in EventsOf(users, ids)
  BY EventsTyped
<1>4. i \in i..Len(side) /\ left \in 0..left
  BY <1>1
<1>5. Explained(e, after.side, side, taker, stp, i)
  <2> HIDE DEF after
  <2>1. QED
    BY <1>4 DEF Explained
<1>6. IsResult(after)
  BY ResultsAre
<1>7. <<e>> \o <<>> = <<e>>
  BY <1>3, ConcatEmptySeq
<1> HIDE DEF e, rest
<1>8. Emit(e, after) = Stop(taker, left, rest, <<e>> \o <<>>, TRUE)
  <2>1. /\ after.side = rest /\ after.events = <<>> /\ after.filled = taker.size - left
        /\ after.aborted = TRUE
    BY DEF Stop
  <2> HIDE DEF after
  <2>2. /\ Emit(e, after).side = rest /\ Emit(e, after).events = <<e>> \o <<>>
        /\ Emit(e, after).filled = taker.size - left /\ Emit(e, after).aborted = TRUE
    BY <1>6, <2>1 DEF Emit, IsResult
  <2>3. IsResult(Emit(e, after))
    BY <1>6, ResultsAre
  <2>4. QED
    BY <2>2, <2>3 DEF IsResult, Stop
<1> HIDE DEF after
<1>9. Outcome(Emit(e, after), side, taker, stp, users, ids, i, left)
  BY <1>2, <1>3, <1>4, <1>5, <1>6, EmitOutcome DEF IsResult
<1>10. QED
  BY <1>7, <1>8, <1>9 DEF e, rest

LEMMA PartialOutcome ==
  ASSUME NEW users, NEW ids, NEW side, NEW taker, NEW stp,
         Setting(side, taker, stp, users, ids), NEW i \in 1..Len(side),
         NEW left \in 0..taker.size, left > 0, left < Remaining(side[i]),
         WithinLimit(taker, side[i].price), ~Own(taker, side[i], stp)
  PROVE  Outcome(Stop(taker, 0, <<[side[i] EXCEPT !.filled = @ + left]>> \o From(side, i + 1),
                      <<Trade(taker, side[i], left)>>, FALSE),
                 side, taker, stp, users, ids, i, left)
<1> DEFINE x == [side[i] EXCEPT !.filled = @ + left]
           e == Trade(taker, side[i], left)
           t == From(side, i + 1)
           u == <<x>> \o t
           m == Stop(taker, 0, u, <<e>>, FALSE)
<1>1. /\ Len(side) \in Nat /\ taker.size \in Nat /\ i + 1 \in 1..Len(side) + 1
      /\ side[i] \in OrdersOf(users, ids) /\ side[i].filled \in Nat
      /\ side[i].size = Remaining(side[i]) + side[i].filled /\ Remaining(side[i]) \in Nat
  BY Makers
<1>2. t \in Seq(OrdersOf(users, ids)) /\ Remains(t, side, i + 1)
  BY <1>1, RestRemains
<1>3. x \in OrdersOf(users, ids) /\ LeftOf(x, side[i])
  <2>1. left \in Nat /\ side[i].filled + left \in Int
    BY <1>1
  <2>2. x \in OrdersOf(users, ids) /\ x.filled = side[i].filled + left
    BY <1>1, <2>1 DEF OrdersOf
  <2>3. /\ x.id = side[i].id /\ x.uid = side[i].uid /\ x.action = side[i].action
        /\ x.price = side[i].price /\ x.size = side[i].size /\ x.reserve = side[i].reserve
    BY <1>1 DEF OrdersOf
  <2>4. side[i].filled <= x.filled /\ x.filled < x.size
    BY <1>1, <2>1, <2>2, <2>3
  <2>5. QED
    BY <2>2, <2>3, <2>4 DEF LeftOf
<1>4. u \in Seq(OrdersOf(users, ids)) /\ Remains(u, side, i)
  BY <1>2, <1>3, FrontRemains, InFront
<1>5. /\ e \in EventsOf(users, ids) /\ <<e>> \in Seq(EventsOf(users, ids))
      /\ Len(<<e>>) = 1 /\ <<e>>[1] = e
  BY <1>1, EventsTyped
<1>6. Explained(e, u, side, taker, stp, i)
  <2>1. i \in i..Len(side) /\ left \in 1..Remaining(side[i])
    BY <1>1
  <2>2. \A k \in i..(i - 1) : FALSE
    BY <1>1
  <2>3. QED
    BY <2>1, <2>2 DEF Explained
<1>7. m.side = u /\ m.events = <<e>> /\ m.filled = taker.size /\ m.aborted = FALSE
  BY <1>1 DEF Stop
<1> HIDE DEF m, u, e, x, t
<1>8. Typed(m, users, ids)
  <2>1. FALSE \in BOOLEAN /\ taker.size \in Int
    BY <1>1
  <2>2. QED
    BY <1>4, <1>5, <1>7, <2>1 DEF Typed
<1>9. taker.size - left <= m.filled /\ m.filled <= taker.size
  BY <1>1, <1>7
<1>10. \A n \in 1..Len(m.events) : Explained(m.events[n], m.side, side, taker, stp, i)
  BY <1>5, <1>6, <1>7
<1>11. Exhausted(m, taker, stp)
  BY <1>1, <1>7 DEF Exhausted
<1>12. Outcome(m, side, taker, stp, users, ids, i, left)
  BY <1>4, <1>7, <1>8, <1>9, <1>10, <1>11 DEF Outcome
<1>13. QED
  BY <1>12 DEF m, u, e, x, t

\* One visit, when the walk from the next order on has come to what it should.
LEMMA VisitOutcome ==
  ASSUME NEW users, NEW ids, NEW side, NEW taker, NEW stp,
         Setting(side, taker, stp, users, ids),
         NEW i \in 1..Len(side) + 1, NEW left \in 0..taker.size, NEW d,
         i <= Len(side) => \A l \in 0..taker.size :
           IsResult(d[l]) /\ Outcome(d[l], side, taker, stp, users, ids, i + 1, l)
  PROVE  LET m == Visit(side, taker, stp, i, left, d)
         IN  IsResult(m) /\ Outcome(m, side, taker, stp, users, ids, i, left)
<1> DEFINE m == Visit(side, taker, stp, i, left, d)
           maker == side[i]
           met == i <= Len(side) /\ left > 0 /\ WithinLimit(taker, maker.price)
           own == met /\ Own(taker, maker, stp)
           other == met /\ ~Own(taker, maker, stp)
           Good(r) == IsResult(r) /\ Outcome(r, side, taker, stp, users, ids, i, left)
<1>1. Len(side) \in Nat /\ taker.size \in Nat
  BY Makers
<1>2. ASSUME met
      PROVE  /\ i \in 1..Len(side) /\ Remaining(maker) \in Nat \ {0}
             /\ IsResult(d[left]) /\ Outcome(d[left], side, taker, stp, users, ids, i + 1, left)
             /\ left \in 0..left
  BY <1>1, <1>2, Makers
<1>3. ASSUME ~met, m = Stop(taker, left, From(side, i), <<>>, FALSE)
      PROVE  Good(m)
  <2>1. i > Len(side) \/ left = 0 \/ ~WithinLimit(taker, side[i].price)
    BY <1>1, <1>3
  <2>2. QED
    BY <1>3, <2>1, StopOutcome, ResultsAre
<1>4. ASSUME own, m = Stop(taker, left, From(side, i), <<>>, TRUE)
      PROVE  Good(m)
  BY <1>4, StopOutcome, ResultsAre
<1>5. ASSUME own, stp = "Skip", m = Keep(maker, d[left])
      PROVE  Good(m)
  <2>1. Outcome(Keep(maker, d[left]), side, taker, stp, users, ids, i, left)
    BY <1>2, <1>5, KeepOutcome DEF IsResult
  <2>2. IsResult(m)
    BY <1>2, <1>5, ResultsAre
  <2>3. QED
    BY <1>5, <2>1, <2>2
<1>6. ASSUME own, m = Emit(RejectMaker(maker), d[left])
      PROVE  Good(m)
  <2>1. RejectMaker(maker) \in EventsOf(users, ids)
    BY <1>2, <1>6, EventsTyped
  <2>2. Explained(RejectMaker(maker), d[left].side, side, taker, stp, i)
    BY <1>1, <1>2, <1>6 DEF Explained
  <2>3. Outcome(Emit(RejectMaker(maker), d[left]), side, taker, stp, users, ids, i, left)
    BY <1>2, <1>6, <2>1, <2>2, EmitOutcome DEF IsResult
  <2>4. IsResult(m)
    BY <1>2, <1>6, ResultsAre
  <2>5. QED
    BY <1>6, <2>3, <2>4
<1>7. ASSUME own, m = Stop(taker, left, From(side, i + 1), <<RejectMaker(maker)>>, TRUE)
      PROVE  Good(m)
  BY <1>2, <1>7, BothOutcome, ResultsAre
<1>8. ASSUME other, left < Remaining(maker),
             m = Stop(taker, 0, <<[maker EXCEPT !.filled = @ + left]>> \o From(side, i + 1),
                      <<Trade(taker, maker, left)>>, FALSE)
      PROVE  Good(m)
  BY <1>2, <1>8, PartialOutcome, ResultsAre
<1>9. ASSUME other, Remaining(maker) <= left,
             m = Emit(Trade(taker, maker, Remaining(maker)), d[left - Remaining(maker)])
      PROVE  Good(m)
  <2> DEFINE rest == left - Remaining(maker)
             e == Trade(taker, maker, Remaining(maker))
  <2>1. rest \in 0..left /\ rest \in 0..taker.size
    BY <1>1, <1>2, <1>9
  <2>2. IsResult(d[rest]) /\ Outcome(d[rest], side, taker, stp, users, ids, i + 1, rest)
    BY <1>1, <1>2, <1>9, <2>1
  <2>3. e \in EventsOf(users, ids)
    BY <1>2, <1>9, EventsTyped
  <2>4. Explained(e, d[rest].side, side, taker, stp, i)
    <3>1. i \in i..Len(side) /\ Remaining(maker) \in 1..Remaining(maker)
      BY <1>1, <1>2, <1>9
    <3>2. \A k \in i..(i - 1) : FALSE
      BY <1>1
    <3>3. QED
      BY <1>9, <3>1, <3>2 DEF Explained
  <2> HIDE DEF rest, e
  <2>5. Outcome(Emit(e, d[rest]), side, taker, stp, users, ids, i, left)
    BY <1>2, <1>9, <2>1, <2>2, <2>3, <2>4, EmitOutcome DEF IsResult
  <2>6. m = Emit(e, d[rest])
    BY <1>9 DEF e, rest
  <2>7. IsResult(m)
    BY <2>2, <2>6, ResultsAre
  <2>8. QED
    BY <2>5, <2>6, <2>7
<1>10. Cases(m, side, taker, stp, i, left, d)
  BY VisitCases
<1> HIDE DEF Good, m
<1>11. Good(m)
  BY <1>3, <1>4, <1>5, <1>6, <1>7, <1>8, <1>9, <1>10, Zenon DEF Cases
<1>12. QED
  BY <1>11 DEF Good, m

\* The walk from every position on, with any amount unfilled.
LEMMA WalkOutcome ==
  ASSUME NEW users, NEW ids, NEW side, NEW taker, NEW stp,
         Setting(side, taker, stp, users, ids)
  PROVE  LET at == Visits(side, taker, stp)
         IN  \A i \in 1..Len(side) + 1 : \A left \in 0..taker.size :
               /\ IsResult(at[i][left])
               /\ Outcome(at[i][left], side, taker, stp, users, ids, i, left)
<1> DEFINE at == Visits(side, taker, stp)
           n == Len(side)
           Good(i) == \A left \in 0..taker.size :
             IsResult(at[i][left]) /\ Outcome(at[i][left], side, taker, stp, users, ids, i, left)
           T == {i \in 1..n + 1 : Good(i)}
<1>1. n \in Nat /\ taker.size \in Nat
  BY Makers
<1>2. \A i \in 1..n + 1 : \A left \in 0..taker.size :
        at[i][left] = Visit(side, taker, stp, i, left, at[i + 1])
  BY <1>1, WalkIsDefined
<1> HIDE DEF at
<1>3. ASSUME NEW i \in 1..n + 1, i <= n => Good(i + 1)
      PROVE  Good(i)
  <2>1. SUFFICES ASSUME NEW left \in 0..taker.size
                 PROVE  /\ IsResult(at[i][left])
                        /\ Outcome(at[i][left], side, taker, stp, users, ids, i, left)
    OBVIOUS
  <2>2. at[i][left] = Visit(side, taker, stp, i, left, at[i + 1])
    BY <1>2
  <2>3. /\ IsResult(Visit(side, taker, stp, i, left, at[i + 1]))
        /\ Outcome(Visit(side, taker, stp, i, left, at[i + 1]), side, taker, stp, users, ids, i, left)
    BY <1>3, VisitOutcome
  <2>4. QED
    BY <2>2, <2>3
<1> HIDE DEF Good
<1>4. n + 1 \in T
  <2>1. n + 1 \in 1..n + 1 /\ ~(n + 1 <= n)
    BY <1>1
  <2>2. QED
    BY <1>3, <2>1
<1>5. \A i \in 1..n : i + 1 \in T => i \in T
  <2> SUFFICES ASSUME NEW i \in 1..n, i + 1 \in T
               PROVE  i \in T
    OBVIOUS
  <2>1. i \in 1..n + 1 /\ Good(i + 1)
    BY <1>1
  <2>2. QED
    BY <1>3, <2>1
<1>6. \A i \in 1..n + 1 : i \in T
  <2> HIDE DEF T, n
  <2>1. QED
    BY <1>1, <1>4, <1>5, WalkInduction
<1>7. \A i \in 1..n + 1 : Good(i)
  <2> HIDE DEF n
  <2>1. QED
    BY <1>6
<1>8. QED
  BY <1>7 DEF Good, at

\* try_match, for every side and every taker: the orders that are left are orders of the
\* side, in their order and traded at most in part; every trade is within the limit and
\* with an order nobody else's order was in front of and is still there; own orders are
\* cancelled or kept, never traded with unless that is allowed; and nothing the taker
\* could still trade with is left.
THEOREM TryMatchOutcome ==
  ASSUME NEW users, NEW ids, NEW side, NEW taker, NEW stp,
         Setting(side, taker, stp, users, ids)
  PROVE  LET m == TryMatch(side, taker, stp)
         IN  IsResult(m) /\ Outcome(m, side, taker, stp, users, ids, 1, taker.size)
<1> DEFINE at == Visits(side, taker, stp)
<1>1. Len(side) \in Nat /\ taker.size \in Nat
  BY Makers
<1>2. \A i \in 1..Len(side) + 1 : \A left \in 0..taker.size :
        /\ IsResult(at[i][left])
        /\ Outcome(at[i][left], side, taker, stp, users, ids, i, left)
  BY WalkOutcome
<1>3. 1 \in 1..Len(side) + 1 /\ taker.size \in 0..taker.size
  BY <1>1
<1>4. TryMatch(side, taker, stp) = at[1][taker.size]
  BY DEF TryMatch
<1> HIDE DEF at
<1>5. QED
  BY <1>2, <1>3, <1>4

\* What is left of a side is a side.
LEMMA RemainsOK ==
  ASSUME NEW users, NEW ids, NEW side, NEW action, SideOK(side, action, users, ids),
         NEW t \in Seq(OrdersOf(users, ids)), Remains(t, side, 1)
  PROVE  /\ SideOK(t, action, users, ids)
         /\ \A a \in 1..Len(t) : \E j \in 1..Len(side) : LeftOf(t[a], side[j])
<1>1. Len(side) \in Nat /\ Len(t) \in Nat /\ side \in Seq(OrdersOf(users, ids))
  BY DEF SideOK
<1>2. \A a \in 1..Len(t) : \E j \in 1..Len(side) : LeftOf(t[a], side[j])
  BY DEF Remains
<1>3. ASSUME NEW a \in 1..Len(t)
      PROVE  t[a].action = action /\ 0 <= t[a].filled /\ t[a].filled < t[a].size
  <2>1. PICK j \in 1..Len(side) : LeftOf(t[a], side[j])
    BY <1>2
  <2>2. side[j].action = action /\ 0 <= side[j].filled
    BY DEF SideOK
  <2>3. t[a] \in OrdersOf(users, ids) /\ side[j] \in OrdersOf(users, ids)
    BY <1>1, ElementOfSeq
  <2>4. t[a].filled \in Int /\ side[j].filled \in Int
    BY <2>3 DEF OrdersOf
  <2>5. QED
    BY <2>1, <2>2, <2>4 DEF LeftOf
<1>4. ASSUME NEW a \in 1..Len(t), NEW b \in 1..Len(t), a < b
      PROVE  t[a].id # t[b].id /\ ~Ahead(action, t[b].price, t[a].price)
  <2>1. PICK j \in 1..Len(side) : LeftOf(t[a], side[j])
    BY <1>2
  <2>2. PICK k \in 1..Len(side) : LeftOf(t[b], side[k])
    BY <1>2
  <2>3. t[a].id = side[j].id /\ t[b].id = side[k].id
    BY <2>1, <2>2 DEF LeftOf
  <2>4. j < k
    BY <1>4, <2>3 DEF Remains
  <2>5. side[j].id # side[k].id /\ ~Ahead(action, side[k].price, side[j].price)
    BY <2>4 DEF SideOK
  <2>6. QED
    BY <2>1, <2>2, <2>5 DEF LeftOf
<1>5. QED
  BY <1>2, <1>3, <1>4 DEF SideOK

-----------------------------------------------------------------------------
(* An order in, an order out. *)

\* Where a newcomer goes: behind c orders, which are those it is not ahead of.
LEMMA PlaceInSide ==
  ASSUME NEW users, NEW ids, NEW side, NEW action \in Actions,
         SideOK(side, action, users, ids), NEW p \in Int
  PROVE  LET ahead == {i \in 1..Len(side) : ~Ahead(action, p, side[i].price)}
         IN  /\ Cardinality(ahead) \in 0..Len(side)
             /\ ahead = 1..Cardinality(ahead)
<1> DEFINE ahead == {i \in 1..Len(side) : ~Ahead(action, p, side[i].price)}
           beyond == {i \in 1..Len(side) + 1 : i \notin ahead}
<1>1. Len(side) \in Nat /\ side \in Seq(OrdersOf(users, ids))
  BY DEF SideOK
<1>2. \A i \in 1..Len(side) : side[i].price \in Int
  <2>1. \A i \in 1..Len(side) : side[i] \in OrdersOf(users, ids)
    BY <1>1, ElementOfSeq
  <2>2. QED
    BY <2>1 DEF OrdersOf
<1>3. Len(side) + 1 \in beyond /\ beyond \in SUBSET Nat
  BY <1>1
<1>4. PICK f \in beyond : \A i \in beyond : f <= i
  <2> HIDE DEF beyond
  <2>1. QED
    BY <1>3, LeastNumber
<1>5. f \in 1..Len(side) + 1 /\ f - 1 \in 0..Len(side)
  BY <1>1, <1>4
<1>6. ASSUME NEW i \in 1..(f - 1)
      PROVE  i \in ahead
  BY <1>1, <1>4, <1>5, <1>6
<1>7. ASSUME NEW i \in ahead
      PROVE  i \in 1..(f - 1)
  <2>1. i \in 1..Len(side) /\ ~Ahead(action, p, side[i].price)
    OBVIOUS
  <2>2. CASE i < f
    BY <1>1, <1>5, <2>1, <2>2
  <2>3. CASE f <= i
    <3>1. f \in 1..Len(side) /\ Ahead(action, p, side[f].price) /\ f # i
      BY <1>1, <1>4, <1>5, <2>1, <2>3
    <3>2. ~Ahead(action, side[i].price, side[f].price)
      BY <1>5, <2>1, <2>3, <3>1 DEF SideOK
    <3>3. QED
      BY <1>2, <2>1, <3>1, <3>2 DEF Ahead
  <2>4. QED
    BY <1>1, <1>5, <2>1, <2>2, <2>3
<1>8. ahead = 1..(f - 1)
  <2> HIDE DEF ahead
  <2>1. QED
    BY <1>6, <1>7
<1>9. Cardinality(1..(f - 1)) = f - 1
  BY <1>5, FS_Interval
<1>10. QED
  BY <1>5, <1>8, <1>9

SameOrder(x, y) ==
  /\ x.id = y.id /\ x.uid = y.uid /\ x.action = y.action /\ x.price = y.price
  /\ x.reserve = y.reserve

\* Apart from the newcomers, t holds orders of the side, in their order; the newcomers
\* are behind whoever is at their price.
Follows(t, side, newcomers) ==
  /\ \A a \in 1..Len(t) : t[a].id \notin newcomers =>
       \E j \in 1..Len(side) : SameOrder(t[a], side[j])
  /\ \A a, b \in 1..Len(t) : \A j, k \in 1..Len(side) :
       (/\ a < b /\ t[a].id \notin newcomers /\ t[b].id \notin newcomers
        /\ t[a].id = side[j].id /\ t[b].id = side[k].id)
       => j < k
  /\ \A a, b \in 1..Len(t) :
       a < b /\ t[a].id \in newcomers /\ t[b].id \notin newcomers => t[a].price # t[b].price

LEMMA RemainsFollows ==
  ASSUME NEW side, NEW t, Remains(t, side, 1)
  PROVE  Follows(t, side, {})
  BY DEF Remains, Follows, LeftOf, SameOrder

\* What follows what follows a side, follows it.
LEMMA FollowsOn ==
  ASSUME NEW u, NEW t, NEW side, NEW newcomers, Len(t) \in Nat,
         Follows(u, t, newcomers), Follows(t, side, {}),
         \A j, k \in 1..Len(t) : t[j].id = t[k].id => j = k
  PROVE  Follows(u, side, newcomers)
<1>1. ASSUME NEW a \in 1..Len(u), u[a].id \notin newcomers
      PROVE  \E x \in 1..Len(t) : \E j \in 1..Len(side) :
               u[a].id = t[x].id /\ t[x].id = side[j].id /\ SameOrder(u[a], side[j])
  <2>1. PICK x \in 1..Len(t) : SameOrder(u[a], t[x])
    BY <1>1 DEF Follows
  <2>2. PICK j \in 1..Len(side) : SameOrder(t[x], side[j])
    BY DEF Follows
  <2>3. QED
    BY <2>1, <2>2 DEF SameOrder
<1>2. ASSUME NEW a \in 1..Len(u), NEW b \in 1..Len(u),
             NEW j \in 1..Len(side), NEW k \in 1..Len(side),
             a < b, u[a].id \notin newcomers, u[b].id \notin newcomers,
             u[a].id = side[j].id, u[b].id = side[k].id
      PROVE  j < k
  <2>1. PICK x \in 1..Len(t) : u[a].id = t[x].id
    BY <1>1, <1>2
  <2>2. PICK y \in 1..Len(t) : u[b].id = t[y].id
    BY <1>1, <1>2
  <2>3. x < y
    BY <1>2, <2>1, <2>2 DEF Follows
  <2>4. t[x].id = side[j].id /\ t[y].id = side[k].id
    BY <1>2, <2>1, <2>2
  <2>5. QED
    BY <2>3, <2>4 DEF Follows
<1>3. \A a, b \in 1..Len(u) :
        a < b /\ u[a].id \in newcomers /\ u[b].id \notin newcomers => u[a].price # u[b].price
  BY DEF Follows
<1>4. \A a \in 1..Len(u) : u[a].id \notin newcomers =>
        \E j \in 1..Len(side) : SameOrder(u[a], side[j])
  BY <1>1
<1>5. QED
  BY <1>2, <1>3, <1>4 DEF Follows

\* t is the side with o in its place.
Joined(t, side, o, users, ids) ==
  /\ SideOK(t, o.action, users, ids)
  /\ Follows(t, side, {o.id})
  /\ \A a \in 1..Len(t) : t[a] = o \/ \E j \in 1..Len(side) : t[a] = side[j]

\* insert_order
LEMMA InsertOutcome ==
  ASSUME NEW users, NEW ids, NEW side, NEW o \in OrdersOf(users, ids),
         o.action \in Actions, 0 <= o.filled, o.filled < o.size,
         SideOK(side, o.action, users, ids), Absent(o.id, side)
  PROVE  Joined(Insert(side, o), side, o, users, ids)
<1> DEFINE ahead == {i \in 1..Len(side) : ~Ahead(o.action, o.price, side[i].price)}
           c == Cardinality(ahead)
           t == InsertAt(side, c + 1, o)
<1>1. /\ Len(side) \in Nat /\ side \in Seq(OrdersOf(users, ids)) /\ o.price \in Int
      /\ \A j \in 1..Len(side) : side[j] \in OrdersOf(users, ids) /\ side[j].price \in Int
  <2>1. Len(side) \in Nat /\ side \in Seq(OrdersOf(users, ids))
    BY DEF SideOK
  <2>2. \A j \in 1..Len(side) : side[j] \in OrdersOf(users, ids)
    BY <2>1, ElementOfSeq
  <2>3. QED
    BY <2>1, <2>2 DEF OrdersOf
<1>2. c \in 0..Len(side) /\ ahead = 1..c
  <2>1. o.price \in Int
    BY <1>1
  <2>2. QED
    BY <2>1, PlaceInSide
<1>3. Insert(side, o) = t
  BY DEF Insert
<1>4. \A i \in 1..Len(side) : i <= c <=> ~Ahead(o.action, o.price, side[i].price)
  <2> SUFFICES ASSUME NEW i \in 1..Len(side)
               PROVE  i <= c <=> ~Ahead(o.action, o.price, side[i].price)
    OBVIOUS
  <2>1. i \in ahead <=> ~Ahead(o.action, o.price, side[i].price)
    OBVIOUS
  <2> HIDE DEF ahead, c
  <2>2. i \in ahead <=> i <= c
    BY <1>1, <1>2
  <2>3. QED
    BY <2>1, <2>2
<1> HIDE DEF ahead, c
<1>5. /\ t \in Seq(OrdersOf(users, ids)) /\ Len(t) = Len(side) + 1 /\ t[c + 1] = o
      /\ \A a \in 1..Len(side) + 1 : a <= c => t[a] = side[a]
      /\ \A a \in 1..Len(side) + 1 : a > c + 1 => t[a] = side[a - 1]
  <2>1. Inserted(t, OrdersOf(users, ids), side, c, o)
    BY <1>1, <1>2, InsertAtIs
  <2> HIDE DEF t
  <2>2. QED
    BY <2>1 DEF Inserted
<1> HIDE DEF t
\* where the order at position a of t was
<1> DEFINE at(a) == IF a <= c THEN a ELSE a - 1
<1>6. ASSUME NEW a \in 1..Len(t), a # c + 1
      PROVE  at(a) \in 1..Len(side) /\ t[a] = side[at(a)]
  BY <1>1, <1>2, <1>5, <1>6
<1>7. ASSUME NEW a \in 1..Len(t), NEW b \in 1..Len(t), a # c + 1, b # c + 1, a < b
      PROVE  at(a) < at(b)
  BY <1>1, <1>2, <1>5, <1>7
<1>8. ASSUME NEW a \in 1..Len(t), a # c + 1
      PROVE  /\ a < c + 1 => ~Ahead(o.action, o.price, t[a].price)
             /\ a > c + 1 => Ahead(o.action, o.price, t[a].price)
             /\ t[a].price \in Int /\ t[a].id # o.id
  <2>1. at(a) \in 1..Len(side) /\ t[a] = side[at(a)]
    BY <1>6, <1>8
  <2>2. at(a) <= c <=> a < c + 1
    BY <1>1, <1>2, <1>5, <1>8
  <2>3. a > c + 1 <=> ~(a < c + 1)
    BY <1>1, <1>2, <1>5, <1>8
  <2> HIDE DEF at
  <2>4. QED
    BY <1>1, <1>4, <2>1, <2>2, <2>3 DEF Absent
<1> HIDE DEF at
<1>9. c + 1 \in 1..Len(t) /\ t[c + 1] = o /\ Len(t) \in Nat
  BY <1>1, <1>2, <1>5
<1>10. ASSUME NEW a \in 1..Len(t)
       PROVE  t[a].action = o.action /\ 0 <= t[a].filled /\ t[a].filled < t[a].size
  <2>1. CASE a = c + 1
    BY <1>9, <2>1
  <2>2. CASE a # c + 1
    BY <1>6, <2>2 DEF SideOK
  <2>3. QED
    BY <2>1, <2>2
<1>11. ASSUME NEW a \in 1..Len(t), NEW b \in 1..Len(t), a < b
       PROVE  t[a].id # t[b].id /\ ~Ahead(o.action, t[b].price, t[a].price)
  <2>1. CASE a = c + 1
    <3>1. b # c + 1 /\ b > c + 1
      BY <1>9, <1>11, <2>1
    <3>2. Ahead(o.action, o.price, t[b].price) /\ t[b].price \in Int /\ t[b].id # o.id
      BY <1>8, <3>1
    <3>3. QED
      BY <1>1, <1>9, <2>1, <3>2 DEF Ahead
  <2>2. CASE b = c + 1
    <3>1. a # c + 1 /\ a < c + 1
      BY <1>9, <1>11, <2>2
    <3>2. QED
      BY <1>8, <1>9, <2>2, <3>1
  <2>3. CASE a # c + 1 /\ b # c + 1
    BY <1>6, <1>7, <1>11, <2>3 DEF SideOK
  <2>4. QED
    BY <2>1, <2>2, <2>3
<1>12. SideOK(t, o.action, users, ids)
  BY <1>5, <1>10, <1>11 DEF SideOK
<1>13. \A a \in 1..Len(t) : t[a].id \notin {o.id} => a # c + 1
  BY <1>9
<1>14. Follows(t, side, {o.id})
  <2>1. ASSUME NEW a \in 1..Len(t), t[a].id \notin {o.id}
        PROVE  \E j \in 1..Len(side) : SameOrder(t[a], side[j])
    BY <1>6, <1>13, <2>1 DEF SameOrder
  <2>2. ASSUME NEW a \in 1..Len(t), NEW b \in 1..Len(t),
               NEW j \in 1..Len(side), NEW k \in 1..Len(side),
               a < b, t[a].id \notin {o.id}, t[b].id \notin {o.id},
               t[a].id = side[j].id, t[b].id = side[k].id
        PROVE  j < k
    <3>1. a # c + 1 /\ b # c + 1
      BY <1>13, <2>2
    <3>2. /\ at(a) \in 1..Len(side) /\ t[a] = side[at(a)]
          /\ at(b) \in 1..Len(side) /\ t[b] = side[at(b)] /\ at(a) < at(b)
      BY <1>6, <1>7, <2>2, <3>1
    <3>3. \A x, y \in 1..Len(side) : side[x].id = side[y].id => x = y
      BY <1>1 DEF SideOK
    <3>4. at(a) = j /\ at(b) = k
      BY <2>2, <3>2, <3>3
    <3>5. QED
      BY <3>2, <3>4
  <2>3. ASSUME NEW a \in 1..Len(t), NEW b \in 1..Len(t),
               a < b, t[a].id \in {o.id}, t[b].id \notin {o.id}
        PROVE  t[a].price # t[b].price
    <3>1. a = c + 1 /\ b # c + 1 /\ b > c + 1
      BY <1>8, <1>9, <2>3
    <3>2. Ahead(o.action, o.price, t[b].price) /\ t[b].price \in Int
      BY <1>8, <3>1
    <3>3. QED
      BY <1>1, <1>9, <3>1, <3>2 DEF Ahead
  <2>4. QED
    BY <2>1, <2>2, <2>3 DEF Follows
<1>15. \A a \in 1..Len(t) : t[a] = o \/ \E j \in 1..Len(side) : t[a] = side[j]
  BY <1>6, <1>9
<1>16. QED
  BY <1>3, <1>12, <1>14, <1>15 DEF Joined

\* remove_order
LEMMA WithoutOutcome ==
  ASSUME NEW users, NEW ids, NEW side, NEW action,
         SideOK(side, action, users, ids), NEW id, \E i \in 1..Len(side) : side[i].id = id
  PROVE  LET t == Without(side, id)
         IN  /\ t \in Seq(OrdersOf(users, ids)) /\ Remains(t, side, 1) /\ Absent(id, t)
<1> DEFINE c == CHOOSE i \in 1..Len(side) : side[i].id = id
           t == RemoveAt(side, c)
<1>1. c \in 1..Len(side) /\ side[c].id = id
  OBVIOUS
<1>2. Without(side, id) = t
  BY DEF Without
<1> HIDE DEF c
<1>3. Len(side) \in Nat /\ side \in Seq(OrdersOf(users, ids))
  BY DEF SideOK
<1>4. /\ t \in Seq(OrdersOf(users, ids)) /\ Len(t) = Len(side) - 1
      /\ \A a \in 1..Len(side) - 1 : a < c => t[a] = side[a]
      /\ \A a \in 1..Len(side) - 1 : a >= c => t[a] = side[a + 1]
  BY <1>1, <1>3, RemoveAtIs
<1> HIDE DEF t
<1> DEFINE at(a) == IF a < c THEN a ELSE a + 1
<1>5. ASSUME NEW a \in 1..Len(t)
      PROVE  at(a) \in 1..Len(side) /\ t[a] = side[at(a)] /\ at(a) # c
  <2>1. a \in 1..Len(side) - 1 /\ a \in 1..Len(side) /\ a + 1 \in 1..Len(side)
    BY <1>3, <1>4
  <2>2. CASE a < c
    BY <1>1, <1>4, <2>1, <2>2
  <2>3. CASE ~(a < c)
    <3>1. a >= c /\ at(a) = a + 1
      BY <1>1, <2>1, <2>3
    <3>2. QED
      BY <1>1, <1>4, <2>1, <3>1
  <2>4. QED
    BY <2>2, <2>3
<1>6. ASSUME NEW a \in 1..Len(t), NEW b \in 1..Len(t), a < b
      PROVE  at(a) < at(b)
  BY <1>1, <1>3, <1>4, <1>6
<1> HIDE DEF at
<1>7. \A x, y \in 1..Len(side) : side[x].id = side[y].id => x = y
  BY <1>3 DEF SideOK
<1>8. Absent(id, t)
  BY <1>1, <1>5, <1>7 DEF Absent
<1>9. ASSUME NEW a \in 1..Len(t)
      PROVE  \E j \in 1..Len(side) : LeftOf(t[a], side[j])
  <2>1. t[a] = side[at(a)] /\ at(a) \in 1..Len(side)
    BY <1>5
  <2>2. side[at(a)].filled < side[at(a)].size /\ side[at(a)].filled \in Int
    <3>1. side[at(a)] \in OrdersOf(users, ids)
      BY <1>3, <2>1, ElementOfSeq
    <3>2. QED
      BY <2>1, <3>1 DEF SideOK, OrdersOf
  <2>3. LeftOf(t[a], side[at(a)])
    BY <2>1, <2>2 DEF LeftOf
  <2>4. QED
    BY <2>1, <2>3
<1>10. ASSUME NEW a \in 1..Len(t), NEW b \in 1..Len(t),
              NEW j \in 1..Len(side), NEW k \in 1..Len(side),
              a < b, t[a].id = side[j].id, t[b].id = side[k].id
       PROVE  j < k
  <2>1. /\ t[a] = side[at(a)] /\ at(a) \in 1..Len(side)
        /\ t[b] = side[at(b)] /\ at(b) \in 1..Len(side) /\ at(a) < at(b)
    BY <1>5, <1>6, <1>10
  <2>2. at(a) = j /\ at(b) = k
    BY <1>7, <1>10, <2>1
  <2>3. QED
    BY <2>1, <2>2
<1>11. Remains(t, side, 1)
  BY <1>9, <1>10 DEF Remains
<1>12. QED
  BY <1>2, <1>4, <1>8, <1>11

-----------------------------------------------------------------------------
(* What a command makes of a book. *)

Evolves(new, old, newcomers) ==
  \A action \in Actions : Follows(new[action], old[action], newcomers)

\* Whoever could trade has traded.
Uncrossed(book, stp) ==
  \A a \in 1..Len(book["Ask"]), b \in 1..Len(book["Bid"]) :
    \/ book["Ask"][a].price > book["Bid"][b].price
    \/ stp = "Skip" /\ book["Ask"][a].uid = book["Bid"][b].uid

\* The funds for every bid are held at its price or above.
Covered(book) ==
  \A b \in 1..Len(book["Bid"]) : book["Bid"][b].price <= book["Bid"][b].reserve

\* A trade of a command of uid: with an order of the book; not with uid's own, unless
\* that is allowed; and nobody else's order in front of that one is still there.
Fair(e, new, old, uid, stp) ==
  e.type = "Trade" =>
    \E action \in Actions : \E j \in 1..Len(old[action]) :
      /\ e.id = old[action][j].id
      /\ stp # "None" => e.uid # uid
      /\ \A k \in 1..(j - 1) : old[action][k].uid # uid =>
           \A own \in Actions : Absent(old[action][k].id, new[own])

WithinHold(e) == e.type = "Trade" => e.price <= e.hold

\* r is what a command of uid comes to, on a book and under a symbol specification.
Result(r, book, uid, spec, users, ids, newcomers) ==
  /\ BookOK(r.book, users, ids)
  /\ r.events \in Seq(EventsOf(users, ids))
  /\ r.action \in Actions
  /\ Evolves(r.book, book, newcomers)
  /\ Uncrossed(book, spec.stp) => Uncrossed(r.book, spec.stp)
  /\ spec.spot /\ Covered(book) => Covered(r.book)
  /\ \A n \in 1..Len(r.events) : Fair(r.events[n], r.book, book, uid, spec.stp)
  /\ spec.spot /\ Covered(book) => \A n \in 1..Len(r.events) : WithinHold(r.events[n])
  /\ r.code # "Success" => r.book = book /\ r.events = <<>>

LEMMA BookSides ==
  ASSUME NEW users, NEW ids, NEW book, BookOK(book, users, ids), NEW action \in Actions
  PROVE  /\ SideOK(book[action], action, users, ids)
         /\ SideOK(book[Opposite(action)], Opposite(action), users, ids)
         /\ Opposite(action) \in Actions /\ Opposite(action) # action
         /\ Opposite(Opposite(action)) = action
         /\ \A side \in Actions : side = action \/ side = Opposite(action)
         /\ \A i \in 1..Len(book[action]), j \in 1..Len(book[Opposite(action)]) :
              book[action][i].id # book[Opposite(action)][j].id
  BY DEF BookOK, Actions, Opposite

LEMMA SideFollowsItself ==
  ASSUME NEW users, NEW ids, NEW action, NEW side, SideOK(side, action, users, ids)
  PROVE  Follows(side, side, {})
<1>1. Len(side) \in Nat
  BY DEF SideOK
<1>2. \A x, y \in 1..Len(side) : side[x].id = side[y].id => x = y
  BY <1>1 DEF SideOK
<1>3. QED
  BY <1>1, <1>2 DEF Follows, SameOrder

\* Newcomers that did not come make no difference.
LEMMA NobodyNew ==
  ASSUME NEW side, NEW t, NEW id, Follows(t, side, {}), Absent(id, t)
  PROVE  Follows(t, side, {id})
  BY DEF Follows, Absent

\* A command that does nothing to the book.
LEMMA NothingHappens ==
  ASSUME NEW users, NEW ids, NEW book, BookOK(book, users, ids), NEW uid, NEW spec,
         NEW r, r.book = book, r.events = <<>>, r.action \in Actions
  PROVE  Result(r, book, uid, spec, users, ids, {})
<1>1. Evolves(book, book, {})
  BY SideFollowsItself DEF Evolves, BookOK
<1>2. <<>> \in Seq(EventsOf(users, ids)) /\ Len(<<>>) = 0
  BY EmptySeq
<1>3. QED
  BY <1>1, <1>2 DEF Result

LEMMA Unknown ==
  ASSUME NEW users, NEW ids, NEW book, BookOK(book, users, ids), NEW id
  PROVE  /\ ~Knows(book, id) => \A action \in Actions : Absent(id, book[action])
         /\ Knows(book, id) =>
              /\ OrderOf(book, id).id = id
              /\ OrderOf(book, id).action \in Actions
              /\ \E i \in 1..Len(book[OrderOf(book, id).action]) :
                   book[OrderOf(book, id).action][i] = OrderOf(book, id)
<1>1. \A action \in Actions : SideOK(book[action], action, users, ids)
  BY DEF BookOK
<1>2. \A action \in Actions : DOMAIN book[action] = 1..Len(book[action])
  BY <1>1, LenProperties DEF SideOK
<1>3. \A o : o \in RestingOrders(book) <=>
              \E action \in Actions : \E i \in 1..Len(book[action]) : book[action][i] = o
  BY <1>2 DEF RestingOrders, ToSet, Actions
<1>4. ASSUME NEW o \in RestingOrders(book)
      PROVE  /\ o.action \in Actions
             /\ \E i \in 1..Len(book[o.action]) : book[o.action][i] = o
  <2>1. PICK action \in Actions : \E i \in 1..Len(book[action]) : book[action][i] = o
    BY <1>3
  <2>2. o.action = action
    BY <1>1, <2>1 DEF SideOK
  <2>3. QED
    BY <2>1, <2>2
<1>5. Knows(book, id) => OrderOf(book, id) \in RestingOrders(book) /\ OrderOf(book, id).id = id
  BY DEF Knows, OrderOf
<1>6. QED
  BY <1>3, <1>4, <1>5 DEF Knows, Absent

\* The own side of a taker once it has matched: the taker is not there, or it is what
\* the walk left of it.
OwnSide(own, side, taker, m, users, ids) ==
  /\ SideOK(own, taker.action, users, ids)
  /\ Follows(own, side, {taker.id})
  /\ \A a \in 1..Len(own) : own[a].id = taker.id =>
       /\ ~m.aborted /\ m.filled < taker.size
       /\ own[a].price = taker.price /\ own[a].uid = taker.uid
       /\ own[a].reserve = taker.reserve

\* An order that matches: it is new to the other side of the book.
Taking(taker, book, spec, users, ids) ==
  /\ BookOK(book, users, ids)
  /\ taker \in OrdersOf(users, ids) /\ taker.size \in Nat
  /\ Absent(taker.id, book[Opposite(taker.action)])
  /\ spec.stp \in Modes
  /\ spec.spot /\ taker.action = "Bid" => taker.price <= taker.reserve

LEMMA TakerMatches ==
  ASSUME NEW users, NEW ids, NEW book, NEW taker, NEW spec,
         Taking(taker, book, spec, users, ids)
  PROVE  LET side == book[Opposite(taker.action)]
             m == TryMatch(side, taker, spec.stp)
         IN  /\ Setting(side, taker, spec.stp, users, ids)
             /\ taker.action \in Actions /\ taker.price \in Int /\ taker.reserve \in Int
             /\ Typed(m, users, ids) /\ m.filled \in 0..taker.size
             /\ Remains(m.side, side, 1)
             /\ \A n \in 1..Len(m.events) :
                  Explained(m.events[n], m.side, side, taker, spec.stp, 1)
             /\ Exhausted(m, taker, spec.stp)
<1> DEFINE side == book[Opposite(taker.action)]
           m == TryMatch(side, taker, spec.stp)
<1>1. /\ taker.action \in Actions /\ taker.price \in Int /\ taker.reserve \in Int
      /\ taker \in OrdersOf(users, ids) /\ taker.size \in Nat
  BY DEF Taking, OrdersOf
<1>2. SideOK(side, Opposite(taker.action), users, ids)
  BY <1>1, BookSides DEF Taking
<1>3. Setting(side, taker, spec.stp, users, ids)
  BY <1>1, <1>2 DEF Setting, Taking
<1> HIDE DEF side
<1>4. Outcome(m, side, taker, spec.stp, users, ids, 1, taker.size)
  BY <1>3, TryMatchOutcome
<1> HIDE DEF m
<1>5. m.filled \in 0..taker.size
  BY <1>1, <1>4 DEF Outcome, Typed
<1>6. QED
  BY <1>1, <1>3, <1>4, <1>5 DEF Outcome, side, m

\* The events of the walk, and rejects.
EventsFrom(all, events, users, ids) ==
  /\ all \in Seq(EventsOf(users, ids))
  /\ \A n \in 1..Len(all) : all[n].type = "Trade" =>
       \E k \in 1..Len(events) : all[n] = events[k]

Resulting(r, m, own, action, users, ids) ==
  /\ DOMAIN r.book = Actions
  /\ r.book[action] = own /\ r.book[Opposite(action)] = m.side
  /\ EventsFrom(r.events, m.events, users, ids)
  /\ r.code = "Success" /\ r.action \in Actions

LEMMA MatchedOutcome ==
  ASSUME NEW users, NEW ids, NEW book, NEW taker, NEW spec,
         Taking(taker, book, spec, users, ids),
         NEW m, m = TryMatch(book[Opposite(taker.action)], taker, spec.stp),
         NEW own, OwnSide(own, book[taker.action], taker, m, users, ids),
         NEW r, Resulting(r, m, own, taker.action, users, ids)
  PROVE  Result(r, book, taker.uid, spec, users, ids, {taker.id})
<1> DEFINE mine == taker.action
           other == Opposite(taker.action)
           side == book[other]
           stp == spec.stp
<1>1. /\ Setting(side, taker, stp, users, ids)
      /\ mine \in Actions /\ taker.price \in Int /\ taker.reserve \in Int
      /\ Typed(m, users, ids) /\ m.filled \in 0..taker.size
      /\ Remains(m.side, side, 1)
      /\ \A n \in 1..Len(m.events) : Explained(m.events[n], m.side, side, taker, stp, 1)
      /\ Exhausted(m, taker, stp)
  BY TakerMatches
<1>2. BookOK(book, users, ids) /\ Absent(taker.id, side)
  BY DEF Taking
<1>3. /\ SideOK(book[mine], mine, users, ids) /\ SideOK(side, other, users, ids)
      /\ other \in Actions /\ other # mine /\ Opposite(other) = mine
      /\ \A x \in Actions : x = mine \/ x = other
      /\ \A i \in 1..Len(book[mine]), j \in 1..Len(side) : book[mine][i].id # side[j].id
  BY <1>1, <1>2, BookSides
<1> HIDE DEF side, other
<1>4. m.side \in Seq(OrdersOf(users, ids))
  BY <1>1 DEF Typed
<1>5. /\ SideOK(m.side, other, users, ids)
      /\ \A a \in 1..Len(m.side) : \E j \in 1..Len(side) : LeftOf(m.side[a], side[j])
  BY <1>1, <1>3, <1>4, RemainsOK
<1>6. /\ SideOK(own, mine, users, ids) /\ Follows(own, book[mine], {taker.id})
      /\ \A a \in 1..Len(own) : own[a].id = taker.id =>
           /\ ~m.aborted /\ m.filled < taker.size
           /\ own[a].price = taker.price /\ own[a].uid = taker.uid
           /\ own[a].reserve = taker.reserve
      /\ \A a \in 1..Len(own) : own[a].id # taker.id =>
           \E j \in 1..Len(book[mine]) : SameOrder(own[a], book[mine][j])
  BY DEF OwnSide, Follows
<1>7. /\ r.book[mine] = own /\ r.book[other] = m.side /\ DOMAIN r.book = Actions
      /\ r.code = "Success" /\ r.action \in Actions
      /\ r.events \in Seq(EventsOf(users, ids))
      /\ \A n \in 1..Len(r.events) : r.events[n].type = "Trade" =>
           \E k \in 1..Len(m.events) : r.events[n] = m.events[k]
  BY DEF other, Resulting, EventsFrom
<1>8. ASSUME NEW a \in 1..Len(own), NEW b \in 1..Len(m.side)
      PROVE  own[a].id # m.side[b].id
  <2>1. PICK j \in 1..Len(side) : m.side[b].id = side[j].id
    BY <1>5 DEF LeftOf
  <2>2. CASE own[a].id = taker.id
    BY <1>2, <2>1, <2>2 DEF Absent
  <2>3. CASE own[a].id # taker.id
    <3>1. PICK i \in 1..Len(book[mine]) : own[a].id = book[mine][i].id
      BY <1>6, <2>3 DEF SameOrder
    <3>2. QED
      BY <1>3, <2>1, <3>1
  <2>4. QED
    BY <2>2, <2>3
<1>9. BookOK(r.book, users, ids)
  <2>1. \A x \in Actions : SideOK(r.book[x], x, users, ids)
    BY <1>3, <1>5, <1>6, <1>7
  <2>2. /\ mine = "Ask" => other = "Bid"
        /\ mine = "Bid" => other = "Ask"
    BY DEF other, Opposite
  <2>3. mine = "Ask" \/ mine = "Bid"
    BY <1>1 DEF Actions
  <2>4. \A i \in 1..Len(r.book["Ask"]), j \in 1..Len(r.book["Bid"]) :
          r.book["Ask"][i].id # r.book["Bid"][j].id
    <3>1. CASE mine = "Ask"
      BY <1>7, <1>8, <2>2, <3>1
    <3>2. CASE mine = "Bid"
      BY <1>7, <1>8, <2>2, <3>2
    <3>3. QED
      BY <2>3, <3>1, <3>2
  <2>5. QED
    BY <1>7, <2>1, <2>4 DEF BookOK
<1>10. Evolves(r.book, book, {taker.id})
  <2>1. Follows(m.side, side, {})
    BY <1>1, RemainsFollows
  <2>2. Absent(taker.id, m.side)
    BY <1>2, <1>5 DEF Absent, LeftOf
  <2>3. Follows(m.side, side, {taker.id})
    BY <2>1, <2>2, NobodyNew
  <2>4. QED
    BY <1>3, <1>6, <1>7, <2>3 DEF Evolves, side
<1>11. ASSUME Uncrossed(book, stp)
       PROVE  Uncrossed(r.book, stp)
  <2> DEFINE Apart(x, y) ==
        /\ mine = "Bid" => (x.price > y.price \/ (stp = "Skip" /\ x.uid = y.uid))
        /\ mine = "Ask" => (y.price > x.price \/ (stp = "Skip" /\ x.uid = y.uid))
  <2>1. ASSUME NEW a \in 1..Len(m.side), NEW b \in 1..Len(own)
        PROVE  Apart(m.side[a], own[b])
    <3>1. PICK j \in 1..Len(side) : LeftOf(m.side[a], side[j])
      BY <1>5
    <3>2. m.side[a].price \in Int /\ own[b].price \in Int
      <4>1. m.side[a] \in OrdersOf(users, ids) /\ own[b] \in OrdersOf(users, ids)
        BY <1>4, <1>6, ElementOfSeq DEF SideOK
      <4>2. QED
        BY <4>1 DEF OrdersOf
    <3>3. CASE own[b].id = taker.id
      <4>1. /\ ~m.aborted /\ m.filled < taker.size
            /\ own[b].price = taker.price /\ own[b].uid = taker.uid
        BY <1>6, <3>3
      <4>2. ~WithinLimit(taker, m.side[a].price) \/ (stp = "Skip" /\ m.side[a].uid = taker.uid)
        BY <1>1, <4>1 DEF Exhausted
      <4>3. ~WithinLimit(taker, m.side[a].price) =>
              /\ mine = "Bid" => m.side[a].price > own[b].price
              /\ mine = "Ask" => own[b].price > m.side[a].price
        BY <3>2, <4>1 DEF WithinLimit
      <4>4. QED
        BY <4>1, <4>2, <4>3
    <3>4. CASE own[b].id # taker.id
      <4>1. PICK k \in 1..Len(book[mine]) : SameOrder(own[b], book[mine][k])
        BY <1>6, <3>4
      <4>2. Apart(side[j], book[mine][k])
        BY <1>11 DEF Uncrossed, side, other, Opposite
      <4>3. QED
        BY <3>1, <4>1, <4>2 DEF LeftOf, SameOrder
    <3>5. QED
      BY <3>3, <3>4
  <2>2. CASE mine = "Bid"
    BY <1>7, <2>1, <2>2 DEF Uncrossed, other, Opposite
  <2>3. CASE mine = "Ask"
    BY <1>7, <2>1, <2>3 DEF Uncrossed, other, Opposite
  <2>4. QED
    BY <1>1, <2>2, <2>3 DEF Actions
<1>12. ASSUME spec.spot, Covered(book)
       PROVE  Covered(r.book)
  <2> SUFFICES ASSUME NEW b \in 1..Len(r.book["Bid"])
               PROVE  r.book["Bid"][b].price <= r.book["Bid"][b].reserve
    BY DEF Covered
  <2>1. CASE mine = "Bid"
    <3>1. CASE own[b].id = taker.id
      BY <1>6, <1>7, <1>12, <2>1, <3>1 DEF Taking
    <3>2. CASE own[b].id # taker.id
      <4>1. PICK k \in 1..Len(book[mine]) : SameOrder(own[b], book[mine][k])
        BY <1>6, <1>7, <2>1, <3>2
      <4>2. QED
        BY <1>7, <1>12, <2>1, <4>1 DEF Covered, SameOrder
    <3>3. QED
      BY <3>1, <3>2
  <2>2. CASE mine = "Ask"
    <3>1. other = "Bid"
      BY <2>2 DEF other, Opposite
    <3>2. PICK k \in 1..Len(side) : LeftOf(m.side[b], side[k])
      BY <1>5, <1>7, <3>1
    <3>3. QED
      BY <1>7, <1>12, <3>1, <3>2 DEF Covered, LeftOf, side
  <2>3. QED
    BY <1>1, <2>1, <2>2 DEF Actions
<1>13. ASSUME NEW n \in 1..Len(r.events), r.events[n].type = "Trade"
       PROVE  \E j \in 1..Len(side) :
                /\ \E size \in Int : r.events[n] = Trade(taker, side[j], size)
                /\ WithinLimit(taker, side[j].price) /\ ~Own(taker, side[j], stp)
                /\ \A k \in 1..(j - 1) : side[k].uid # taker.uid => Absent(side[k].id, m.side)
  <2>1. PICK k \in 1..Len(m.events) : r.events[n] = m.events[k]
    BY <1>7, <1>13
  <2>2. Explained(r.events[n], m.side, side, taker, stp, 1)
    BY <1>1, <2>1
  <2>3. \A j : r.events[n] # RejectMaker(side[j])
    BY <1>13 DEF RejectMaker
  <2>4. \A j : \A size \in 1..Remaining(side[j]) : size \in Int
    OBVIOUS
  <2>5. QED
    BY <2>2, <2>3, <2>4 DEF Explained
<1>14. ASSUME NEW n \in 1..Len(r.events)
       PROVE  Fair(r.events[n], r.book, book, taker.uid, stp)
  <2> SUFFICES ASSUME r.events[n].type = "Trade"
               PROVE  \E j \in 1..Len(side) :
                        /\ r.events[n].id = side[j].id
                        /\ stp # "None" => r.events[n].uid # taker.uid
                        /\ \A k \in 1..(j - 1) : side[k].uid # taker.uid =>
                             \A x \in Actions : Absent(side[k].id, r.book[x])
    BY <1>3 DEF Fair, side
  <2>1. PICK j \in 1..Len(side) :
          /\ \E size \in Int : r.events[n] = Trade(taker, side[j], size)
          /\ WithinLimit(taker, side[j].price) /\ ~Own(taker, side[j], stp)
          /\ \A k \in 1..(j - 1) : side[k].uid # taker.uid => Absent(side[k].id, m.side)
    BY <1>13
  <2>2. r.events[n].id = side[j].id /\ r.events[n].uid = side[j].uid
    BY <2>1 DEF Trade
  <2>3. stp # "None" => r.events[n].uid # taker.uid
    BY <2>1, <2>2 DEF Own
  <2>4. ASSUME NEW k \in 1..(j - 1), side[k].uid # taker.uid, NEW x \in Actions
        PROVE  Absent(side[k].id, r.book[x])
    <3>1. k \in 1..Len(side)
      <4>1. Len(side) \in Nat
        BY <1>3 DEF SideOK
      <4>2. QED
        BY <4>1
    <3>2. Absent(side[k].id, m.side)
      BY <2>1, <2>4
    <3>3. Absent(side[k].id, own)
      <4> SUFFICES ASSUME NEW a \in 1..Len(own), own[a].id = side[k].id
                   PROVE  FALSE
        BY DEF Absent
      <4>1. own[a].id # taker.id
        BY <1>2, <3>1 DEF Absent
      <4>2. PICK i \in 1..Len(book[mine]) : own[a].id = book[mine][i].id
        BY <1>6, <4>1 DEF SameOrder
      <4>3. QED
        BY <1>3, <3>1, <4>2
    <3>4. QED
      BY <1>3, <1>7, <3>2, <3>3
  <2>5. QED
    BY <2>2, <2>3, <2>4
<1>15. ASSUME spec.spot, Covered(book), NEW n \in 1..Len(r.events)
       PROVE  WithinHold(r.events[n])
  <2> SUFFICES ASSUME r.events[n].type = "Trade"
               PROVE  r.events[n].price <= r.events[n].hold
    BY DEF WithinHold
  <2>1. PICK j \in 1..Len(side) :
          /\ \E size \in Int : r.events[n] = Trade(taker, side[j], size)
          /\ WithinLimit(taker, side[j].price)
    BY <1>13
  <2>2. /\ r.events[n].price = side[j].price
        /\ r.events[n].hold = IF mine = "Bid" THEN taker.reserve ELSE side[j].reserve
    BY <2>1 DEF Trade
  <2>3. side[j].price \in Int
    <3>1. side[j] \in OrdersOf(users, ids)
      BY <1>3, ElementOfSeq DEF SideOK
    <3>2. QED
      BY <3>1 DEF OrdersOf
  <2>4. CASE mine = "Bid"
    <3>1. side[j].price <= taker.price /\ taker.price <= taker.reserve
      BY <1>15, <2>1, <2>4 DEF WithinLimit, Taking
    <3>2. QED
      BY <1>1, <2>2, <2>3, <2>4, <3>1
  <2>5. CASE mine = "Ask"
    <3>1. other = "Bid"
      BY <2>5 DEF other, Opposite
    <3>2. side[j].price <= side[j].reserve
      BY <1>15, <3>1 DEF Covered, side
    <3>3. QED
      BY <2>2, <2>5, <3>2
  <2>6. QED
    BY <1>1, <2>4, <2>5 DEF Actions
<1>16. QED
  BY <1>7, <1>9, <1>10, <1>11, <1>12, <1>14, <1>15 DEF Result

\* What is rejected comes behind the events of the walk.
LEMMA RejectsAtTheEnd ==
  ASSUME NEW users, NEW ids, NEW events \in Seq(EventsOf(users, ids)),
         NEW rest, NEW size \in Int, NEW hold \in Int,
         rest = <<>> \/ rest = <<Reject(size, hold)>>
  PROVE  EventsFrom(events \o rest, events, users, ids)
<1> DEFINE E == EventsOf(users, ids)
           all == events \o rest
<1>1. Reject(size, hold) \in E /\ Reject(size, hold).type = "Reject"
  BY DEF EventsOf, Reject
<1> HIDE DEF E
<1>2. /\ rest \in Seq(E) /\ Len(rest) \in {0, 1}
      /\ \A k \in 1..Len(rest) : rest[k].type = "Reject"
  <2>1. CASE rest = <<>>
    <3>1. <<>> \in Seq(E) /\ Len(<<>>) = 0
      BY EmptySeq
    <3>2. QED
      BY <2>1, <3>1
  <2>2. CASE rest = <<Reject(size, hold)>>
    BY <1>1, <2>2
  <2>3. QED
    BY <2>1, <2>2
<1>3. events \in Seq(E) /\ Len(events) \in Nat
  BY DEF E
<1>4. Concatenates(all, E, events, Len(events), rest, Len(rest))
  BY <1>2, <1>3, Concatenated
<1> HIDE DEF all
<1>5. ASSUME NEW n \in 1..Len(all), all[n].type = "Trade"
      PROVE  \E k \in 1..Len(events) : all[n] = events[k]
  <2>1. CASE n <= Len(events)
    BY <1>3, <1>4, <2>1 DEF Concatenates
  <2>2. CASE ~(n <= Len(events))
    <3>1. n - Len(events) \in 1..Len(rest) /\ n \in 1..(Len(events) + Len(rest))
      BY <1>2, <1>3, <1>4, <2>2 DEF Concatenates
    <3>2. all[n] = rest[n - Len(events)]
      BY <1>4, <2>2, <3>1 DEF Concatenates
    <3>3. QED
      BY <1>2, <1>5, <3>1, <3>2
  <2>3. QED
    BY <2>1, <2>2
<1>6. QED
  BY <1>4, <1>5 DEF EventsFrom, Concatenates, all, E

LEMMA MatchedIs ==
  ASSUME NEW users, NEW ids, NEW taker, taker.action \in Actions, NEW m, NEW own, NEW r,
         r.book = Matched(taker, m, own), EventsFrom(r.events, m.events, users, ids),
         r.code = "Success", r.action = taker.action
  PROVE  Resulting(r, m, own, taker.action, users, ids)
  BY DEF Matched, Resulting, Actions, Opposite

\* The taker stays out of the book.
LEMMA StaysOut ==
  ASSUME NEW users, NEW ids, NEW book, NEW taker, NEW spec, NEW m,
         Taking(taker, book, spec, users, ids), Absent(taker.id, book[taker.action])
  PROVE  OwnSide(book[taker.action], book[taker.action], taker, m, users, ids)
<1> DEFINE own == book[taker.action]
<1>1. taker.action \in Actions
  BY DEF Taking, OrdersOf
<1>2. SideOK(own, taker.action, users, ids)
  BY <1>1 DEF Taking, BookOK
<1> HIDE DEF own
<1>3. Follows(own, own, {taker.id})
  BY <1>2, SideFollowsItself, NobodyNew DEF own
<1>4. QED
  BY <1>2, <1>3 DEF OwnSide, Absent, own

\* place_gtc
LEMMA PlaceGtcOutcome ==
  ASSUME NEW users, NEW ids, NEW book, NEW taker, NEW spec,
         Taking(taker, book, spec, users, ids), Absent(taker.id, book[taker.action])
  PROVE  /\ Result(PlaceGtc(book, taker, spec), book, taker.uid, spec, users, ids, {taker.id})
         /\ PlaceGtc(book, taker, spec).code = "Success"
<1> DEFINE m == TryMatch(book[Opposite(taker.action)], taker, spec.stp)
           left == taker.size - m.filled
           own == book[taker.action]
           resting == [taker EXCEPT !.filled = m.filled]
           rest == IF left > 0 THEN <<Reject(left, taker.reserve)>> ELSE <<>>
           out == Done(Matched(taker, m, own), m.events \o rest, taker.action)
           in == Done(Matched(taker, m, IF left > 0 THEN Insert(own, resting) ELSE own),
                      m.events, taker.action)
<1>1. PlaceGtc(book, taker, spec) = IF m.aborted THEN out ELSE in
  BY DEF PlaceGtc
<1>2. /\ taker.action \in Actions /\ taker.price \in Int /\ taker.reserve \in Int
      /\ Typed(m, users, ids) /\ m.filled \in 0..taker.size
      /\ taker \in OrdersOf(users, ids) /\ taker.size \in Nat
  BY TakerMatches DEF Taking
<1>3. SideOK(own, taker.action, users, ids) /\ OwnSide(own, own, taker, m, users, ids)
  BY <1>2, StaysOut DEF Taking, BookOK
<1> HIDE DEF m
<1>4. m = TryMatch(book[Opposite(taker.action)], taker, spec.stp)
  BY DEF m
<1>5. m.events \in Seq(EventsOf(users, ids)) /\ left \in Nat /\ (left > 0 <=> m.filled < taker.size)
  BY <1>2 DEF Typed
<1>6. CASE m.aborted
  <2>1. rest = <<>> \/ rest = <<Reject(left, taker.reserve)>>
    OBVIOUS
  <2>2. left \in Int
    BY <1>5
  <2>3. /\ out.book = Matched(taker, m, own) /\ out.events = m.events \o rest
        /\ out.code = "Success" /\ out.action = taker.action
    BY DEF Done
  <2> HIDE DEF left, rest, out, own
  <2>4. EventsFrom(out.events, m.events, users, ids)
    <3>1. EventsFrom(m.events \o rest, m.events, users, ids)
      BY <1>2, <1>5, <2>2, <2>1, RejectsAtTheEnd
    <3>2. QED
      BY <2>3, <3>1
  <2>5. Resulting(out, m, own, taker.action, users, ids) /\ out.code = "Success"
    BY <1>2, <2>3, <2>4, MatchedIs
  <2> USE DEF own
  <2>6. Result(out, book, taker.uid, spec, users, ids, {taker.id})
    BY <1>3, <1>4, <2>5, MatchedOutcome
  <2>7. QED
    BY <1>1, <1>6, <2>5, <2>6
<1>7. CASE ~m.aborted
  <2> DEFINE after == IF left > 0 THEN Insert(own, resting) ELSE own
  <2>1. OwnSide(after, own, taker, m, users, ids)
    <3>1. CASE left > 0
      <4>1. /\ resting.id = taker.id /\ resting.uid = taker.uid /\ resting.price = taker.price
            /\ resting.reserve = taker.reserve /\ resting.action = taker.action
            /\ resting.size = taker.size /\ resting.filled = m.filled
            /\ resting \in OrdersOf(users, ids)
        BY <1>2 DEF OrdersOf
      <4> HIDE DEF resting, own
      <4>2. Absent(resting.id, own) /\ 0 <= resting.filled /\ resting.filled < resting.size
        BY <1>2, <1>5, <3>1, <4>1 DEF own
      <4>3. Joined(Insert(own, resting), own, resting, users, ids)
        BY <1>2, <1>3, <4>1, <4>2, InsertOutcome
      <4>4. OwnSide(Insert(own, resting), own, taker, m, users, ids)
        BY <1>5, <1>7, <3>1, <4>1, <4>2, <4>3 DEF OwnSide, Absent, Joined
      <4>5. QED
        BY <3>1, <4>4
    <3>2. CASE ~(left > 0)
      BY <1>3, <3>2
    <3>3. QED
      BY <3>1, <3>2
  <2>2. /\ in.book = Matched(taker, m, after) /\ in.events = m.events
        /\ in.code = "Success" /\ in.action = taker.action
    BY DEF Done
  <2> HIDE DEF in, after
  <2>3. EventsFrom(in.events, m.events, users, ids)
    BY <1>5, <2>2 DEF EventsFrom
  <2>4. Resulting(in, m, after, taker.action, users, ids) /\ in.code = "Success"
    BY <1>2, <2>2, <2>3, MatchedIs
  <2>5. Result(in, book, taker.uid, spec, users, ids, {taker.id})
    BY <1>4, <2>1, <2>4, MatchedOutcome
  <2>6. QED
    BY <1>1, <1>7, <2>4, <2>5
<1>8. QED
  BY <1>6, <1>7

\* place_ioc
LEMMA PlaceIocOutcome ==
  ASSUME NEW users, NEW ids, NEW book, NEW taker, NEW spec,
         Taking(taker, book, spec, users, ids), Absent(taker.id, book[taker.action])
  PROVE  /\ Result(PlaceIoc(book, taker, spec), book, taker.uid, spec, users, ids, {taker.id})
         /\ PlaceIoc(book, taker, spec).code = "Success"
<1> DEFINE m == TryMatch(book[Opposite(taker.action)], taker, spec.stp)
           left == taker.size - m.filled
           own == book[taker.action]
           rest == IF left > 0 THEN <<Reject(left, taker.reserve)>> ELSE <<>>
           r == PlaceIoc(book, taker, spec)
<1>1. /\ taker.action \in Actions /\ taker.reserve \in Int
      /\ Typed(m, users, ids) /\ m.filled \in 0..taker.size /\ taker.size \in Nat
  BY TakerMatches DEF Taking
<1>2. OwnSide(own, own, taker, m, users, ids)
  BY <1>1, StaysOut
<1>3. /\ r.book = Matched(taker, m, own) /\ r.events = m.events \o rest
      /\ r.code = "Success" /\ r.action = taker.action
  BY DEF PlaceIoc, Done
<1> HIDE DEF m, r
<1>4. m.events \in Seq(EventsOf(users, ids)) /\ left \in Int
  BY <1>1 DEF Typed
<1>5. rest = <<>> \/ rest = <<Reject(left, taker.reserve)>>
  OBVIOUS
<1> HIDE DEF left, rest
<1>6. EventsFrom(m.events \o rest, m.events, users, ids)
  BY <1>1, <1>4, <1>5, RejectsAtTheEnd
<1>7. Resulting(r, m, own, taker.action, users, ids) /\ r.code = "Success"
  <2>1. EventsFrom(r.events, m.events, users, ids)
    BY <1>3, <1>6
  <2> HIDE DEF own
  <2>2. QED
    BY <1>1, <1>3, <2>1, MatchedIs
<1>8. m = TryMatch(book[Opposite(taker.action)], taker, spec.stp)
  BY DEF m
<1>9. Result(r, book, taker.uid, spec, users, ids, {taker.id})
  BY <1>2, <1>7, <1>8, MatchedOutcome
<1>10. QED
  BY <1>7, <1>9 DEF r

\* place_fok_budget: on a refusal for lack of depth the book stays as it is.
LEMMA PlaceFokBudgetOutcome ==
  ASSUME NEW users, NEW ids, NEW book, NEW taker, NEW spec,
         Taking(taker, book, spec, users, ids), Absent(taker.id, book[taker.action])
  PROVE  /\ Result(PlaceFokBudget(book, taker, spec), book, taker.uid, spec, users, ids, {taker.id})
         /\ PlaceFokBudget(book, taker, spec).code = "Success"
<1> DEFINE opposite == book[Opposite(taker.action)]
           m == TryMatch(opposite, taker, spec.stp)
           left == taker.size - m.filled
           own == book[taker.action]
           rest == IF m.aborted /\ left > 0 THEN <<Reject(left, taker.reserve)>> ELSE <<>>
           done == Done(Matched(taker, m, own), m.events \o rest, taker.action)
           none == Done(book, <<Reject(taker.size, taker.reserve)>>, taker.action)
<1>1. /\ taker.action \in Actions /\ taker.reserve \in Int
      /\ Typed(m, users, ids) /\ m.filled \in 0..taker.size /\ taker.size \in Nat
      /\ BookOK(book, users, ids)
  BY TakerMatches DEF Taking
<1>2. PlaceFokBudget(book, taker, spec) = done \/ PlaceFokBudget(book, taker, spec) = none
  BY DEF PlaceFokBudget
<1>3. OwnSide(own, own, taker, m, users, ids)
  BY <1>1, StaysOut
<1>4. /\ none.book = book /\ none.events = <<Reject(taker.size, taker.reserve)>>
      /\ none.code = "Success" /\ none.action = taker.action
  BY DEF Done
<1> HIDE DEF m, none
<1>5. m.events \in Seq(EventsOf(users, ids)) /\ left \in Int
  BY <1>1 DEF Typed
<1>6. rest = <<>> \/ rest = <<Reject(left, taker.reserve)>>
  OBVIOUS
<1> HIDE DEF left, rest
<1>7. EventsFrom(m.events \o rest, m.events, users, ids)
  BY <1>1, <1>5, <1>6, RejectsAtTheEnd
<1>8. Resulting(done, m, own, taker.action, users, ids) /\ done.code = "Success"
  <2>1. /\ done.book = Matched(taker, m, own) /\ done.events = m.events \o rest
        /\ done.code = "Success" /\ done.action = taker.action
    BY DEF Done
  <2> HIDE DEF done, own
  <2>2. EventsFrom(done.events, m.events, users, ids)
    BY <1>7, <2>1
  <2>3. QED
    BY <1>1, <2>1, <2>2, MatchedIs
<1> HIDE DEF done
<1>9. Result(done, book, taker.uid, spec, users, ids, {taker.id})
  <2>1. m = TryMatch(book[Opposite(taker.action)], taker, spec.stp)
    BY DEF m
  <2>2. QED
    BY <1>3, <1>8, <2>1, MatchedOutcome
<1>10. Result(none, book, taker.uid, spec, users, ids, {taker.id})
  <2>1. Evolves(book, book, {taker.id})
    <3> SUFFICES ASSUME NEW action \in Actions
                 PROVE  Follows(book[action], book[action], {taker.id})
      BY DEF Evolves
    <3>1. Absent(taker.id, book[action])
      BY <1>1, BookSides DEF Taking
    <3>2. SideOK(book[action], action, users, ids)
      BY <1>1 DEF BookOK
    <3>3. QED
      BY <3>1, <3>2, SideFollowsItself, NobodyNew
  <2>2. /\ none.events \in Seq(EventsOf(users, ids))
        /\ \A n \in 1..Len(none.events) : none.events[n].type = "Reject"
    <3>1. /\ Reject(taker.size, taker.reserve) \in EventsOf(users, ids)
          /\ Reject(taker.size, taker.reserve).type = "Reject"
      BY <1>1 DEF Reject, EventsOf
    <3>2. QED
      BY <1>4, <3>1
  <2>3. \A n \in 1..Len(none.events) :
          Fair(none.events[n], none.book, book, taker.uid, spec.stp) /\ WithinHold(none.events[n])
    BY <2>2 DEF Fair, WithinHold
  <2>4. QED
    BY <1>1, <1>4, <2>1, <2>2, <2>3 DEF Result
<1>11. QED
  BY <1>2, <1>4, <1>8, <1>9, <1>10

\* new_order, for every book and every order R1 lets pass: the book stays in order, is
\* crossed only if it was, keeps its bids covered and its orders in their places; the
\* trades are fair and within what is held; and a refused order changes nothing.
THEOREM NewOrderOutcome ==
  ASSUME NEW users, NEW ids, NEW book, BookOK(book, users, ids), NEW spec, spec.stp \in Modes,
         NEW taker \in OrdersOf(users, ids), taker.size \in Nat,
         spec.spot /\ taker.action = "Bid" => taker.price <= taker.reserve, NEW type
  PROVE  LET r == NewOrder(book, taker, type, spec)
         IN  /\ Result(r, book, taker.uid, spec, users, ids,
                       IF r.code = "Success" THEN {taker.id} ELSE {})
             /\ r.code # "Success" => r.action = taker.action
<1> DEFINE r == NewOrder(book, taker, type, spec)
<1>1. taker.action \in Actions
  BY DEF OrdersOf
<1>2. ASSUME NEW code, code # "Success", r = Refused(book, taker, code)
      PROVE  /\ Result(r, book, taker.uid, spec, users, ids, {}) /\ r.code # "Success"
             /\ r.action = taker.action
  <2>1. r.book = book /\ r.events = <<>> /\ r.action = taker.action /\ r.code = code
    BY <1>2 DEF Refused
  <2> HIDE DEF r
  <2>2. QED
    BY <1>1, <1>2, <2>1, NothingHappens
<1>3. ASSUME ~Knows(book, taker.id)
      PROVE  /\ Taking(taker, book, spec, users, ids) /\ Absent(taker.id, book[taker.action])
  <2>1. \A action \in Actions : Absent(taker.id, book[action])
    BY <1>3, Unknown
  <2>2. QED
    BY <1>1, <2>1, BookSides DEF Taking
<1>4. ASSUME ~Knows(book, taker.id),
             \/ r = PlaceGtc(book, taker, spec)
             \/ r = PlaceIoc(book, taker, spec)
             \/ r = PlaceFokBudget(book, taker, spec)
      PROVE  Result(r, book, taker.uid, spec, users, ids, {taker.id}) /\ r.code = "Success"
  <2> HIDE DEF r
  <2>1. Taking(taker, book, spec, users, ids) /\ Absent(taker.id, book[taker.action])
    BY <1>3, <1>4
  <2>2. CASE r = PlaceGtc(book, taker, spec)
    BY <2>1, <2>2, PlaceGtcOutcome
  <2>3. CASE r = PlaceIoc(book, taker, spec)
    BY <2>1, <2>3, PlaceIocOutcome
  <2>4. CASE r = PlaceFokBudget(book, taker, spec)
    BY <2>1, <2>4, PlaceFokBudgetOutcome
  <2>5. QED
    BY <1>4, <2>2, <2>3, <2>4
<1>5. \/ r = Refused(book, taker, "MatchingDuplicateOrderId")
      \/ r = Refused(book, taker, "MatchingUnsupportedCommand")
      \/ /\ ~Knows(book, taker.id)
         /\ \/ r = PlaceGtc(book, taker, spec)
            \/ r = PlaceIoc(book, taker, spec)
            \/ r = PlaceFokBudget(book, taker, spec)
  BY Zenon DEF NewOrder
<1> HIDE DEF r
<1>6. \/ /\ Result(r, book, taker.uid, spec, users, ids, {}) /\ r.code # "Success"
         /\ r.action = taker.action
      \/ Result(r, book, taker.uid, spec, users, ids, {taker.id}) /\ r.code = "Success"
  BY <1>2, <1>4, <1>5
<1>7. QED
  BY <1>6 DEF r

\* One side of the book loses an order or a part of one, which is rejected.
LEMMA SideShrinks ==
  ASSUME NEW users, NEW ids, NEW book, BookOK(book, users, ids), NEW uid, NEW spec,
         NEW action \in Actions, NEW t, SideOK(t, action, users, ids),
         Follows(t, book[action], {}), NEW size \in Int, NEW hold \in Int,
         NEW r, r = Done([book EXCEPT ![action] = t], <<Reject(size, hold)>>, action)
  PROVE  Result(r, book, uid, spec, users, ids, {})
<1>1. /\ DOMAIN r.book = Actions /\ r.book[action] = t
      /\ \A x \in Actions : x # action => r.book[x] = book[x]
      /\ r.events = <<Reject(size, hold)>> /\ r.code = "Success" /\ r.action = action
  BY DEF Done, BookOK
<1>2. Evolves(r.book, book, {})
  <2>1. \A x \in Actions : Follows(book[x], book[x], {})
    BY SideFollowsItself DEF BookOK
  <2>2. QED
    BY <1>1, <2>1 DEF Evolves
<1>3. \A x \in Actions : \A a \in 1..Len(r.book[x]) :
        \E j \in 1..Len(book[x]) : SameOrder(r.book[x][a], book[x][j])
  BY <1>2 DEF Evolves, Follows
<1>4. "Ask" \in Actions /\ "Bid" \in Actions
  BY DEF Actions
<1>5. /\ \A a \in 1..Len(r.book["Ask"]) :
           \E i \in 1..Len(book["Ask"]) : SameOrder(r.book["Ask"][a], book["Ask"][i])
      /\ \A b \in 1..Len(r.book["Bid"]) :
           \E j \in 1..Len(book["Bid"]) : SameOrder(r.book["Bid"][b], book["Bid"][j])
  BY <1>3, <1>4
<1>6. BookOK(r.book, users, ids)
  <2>1. \A a \in 1..Len(r.book["Ask"]), b \in 1..Len(r.book["Bid"]) :
          r.book["Ask"][a].id # r.book["Bid"][b].id
    <3> SUFFICES ASSUME NEW a \in 1..Len(r.book["Ask"]), NEW b \in 1..Len(r.book["Bid"])
                 PROVE  r.book["Ask"][a].id # r.book["Bid"][b].id
      OBVIOUS
    <3>1. PICK i \in 1..Len(book["Ask"]) : SameOrder(r.book["Ask"][a], book["Ask"][i])
      BY <1>5
    <3>2. PICK j \in 1..Len(book["Bid"]) : SameOrder(r.book["Bid"][b], book["Bid"][j])
      BY <1>5
    <3>3. book["Ask"][i].id # book["Bid"][j].id
      BY DEF BookOK
    <3>4. QED
      BY <3>1, <3>2, <3>3 DEF SameOrder
  <2>2. \A x \in Actions : SideOK(r.book[x], x, users, ids)
    BY <1>1 DEF BookOK
  <2>3. QED
    BY <1>1, <2>1, <2>2 DEF BookOK
<1>7. Uncrossed(book, spec.stp) => Uncrossed(r.book, spec.stp)
  <2> SUFFICES ASSUME Uncrossed(book, spec.stp),
                      NEW a \in 1..Len(r.book["Ask"]), NEW b \in 1..Len(r.book["Bid"])
               PROVE  \/ r.book["Ask"][a].price > r.book["Bid"][b].price
                      \/ spec.stp = "Skip" /\ r.book["Ask"][a].uid = r.book["Bid"][b].uid
    BY DEF Uncrossed
  <2>1. PICK i \in 1..Len(book["Ask"]) : SameOrder(r.book["Ask"][a], book["Ask"][i])
    BY <1>5
  <2>2. PICK j \in 1..Len(book["Bid"]) : SameOrder(r.book["Bid"][b], book["Bid"][j])
    BY <1>5
  <2>3. \/ book["Ask"][i].price > book["Bid"][j].price
        \/ spec.stp = "Skip" /\ book["Ask"][i].uid = book["Bid"][j].uid
    BY DEF Uncrossed
  <2>4. QED
    BY <2>1, <2>2, <2>3 DEF SameOrder
<1>8. Covered(book) => Covered(r.book)
  BY <1>5 DEF Covered, SameOrder
<1>9. /\ r.events \in Seq(EventsOf(users, ids))
      /\ \A n \in 1..Len(r.events) : r.events[n].type = "Reject"
  <2> DEFINE e == Reject(size, hold)
             E == EventsOf(users, ids)
  <2>1. e \in E /\ e.type = "Reject"
    BY DEF Reject, EventsOf
  <2> HIDE DEF e, E
  <2>2. \A s : s = <<e>> => s \in Seq(E) /\ \A n \in 1..Len(s) : s[n].type = "Reject"
    BY <2>1
  <2>3. r.events = <<e>>
    BY <1>1 DEF e
  <2>4. r.events \in Seq(E) /\ \A n \in 1..Len(r.events) : r.events[n].type = "Reject"
    BY <2>2, <2>3, Zenon
  <2>5. QED
    BY <2>4 DEF E
<1>10. \A n \in 1..Len(r.events) :
         Fair(r.events[n], r.book, book, uid, spec.stp) /\ WithinHold(r.events[n])
  BY <1>9 DEF Fair, WithinHold
<1>11. QED
  BY <1>1, <1>2, <1>6, <1>7, <1>8, <1>9, <1>10 DEF Result

\* The order that a command names.
LEMMA NamedOrder ==
  ASSUME NEW users, NEW ids, NEW book, BookOK(book, users, ids), NEW id, Knows(book, id)
  PROVE  LET o == OrderOf(book, id)
         IN  /\ o.id = id /\ o.action \in Actions /\ o \in OrdersOf(users, ids)
             /\ o.filled \in Nat /\ o.size \in Int /\ o.filled < o.size
             /\ o.reserve \in Int /\ Remaining(o) \in Nat \ {0}
             /\ SideOK(book[o.action], o.action, users, ids)
             /\ \E i \in 1..Len(book[o.action]) : book[o.action][i] = o
             /\ Absent(id, book[Opposite(o.action)])
<1> DEFINE o == OrderOf(book, id)
<1>1. o.id = id /\ o.action \in Actions
  BY Unknown
<1>2. PICK i \in 1..Len(book[o.action]) : book[o.action][i] = o
  BY Unknown
<1> HIDE DEF o
<1>3. SideOK(book[o.action], o.action, users, ids)
  BY <1>1 DEF BookOK
<1>4. o \in OrdersOf(users, ids)
  BY <1>2, <1>3, ElementOfSeq DEF SideOK
<1>5. 0 <= o.filled /\ o.filled < o.size
  BY <1>2, <1>3 DEF SideOK
<1>6. o.filled \in Int /\ o.size \in Int /\ o.reserve \in Int
  BY <1>4 DEF OrdersOf
<1>7. o.filled \in Nat /\ Remaining(o) \in Nat \ {0}
  BY <1>5, <1>6 DEF Remaining
<1>8. Absent(id, book[Opposite(o.action)])
  BY <1>1, <1>2, BookSides DEF Absent
<1>9. QED
  BY <1>1, <1>2, <1>3, <1>4, <1>5, <1>6, <1>7, <1>8 DEF o

LEMMA DistinctIds ==
  ASSUME NEW users, NEW ids, NEW action, NEW side, SideOK(side, action, users, ids)
  PROVE  Len(side) \in Nat /\ \A j, k \in 1..Len(side) : side[j].id = side[k].id => j = k
<1>1. Len(side) \in Nat
  BY DEF SideOK
<1>2. QED
  BY <1>1 DEF SideOK

\* The side without the order that was named.
LEMMA NamedOrderGone ==
  ASSUME NEW users, NEW ids, NEW book, BookOK(book, users, ids), NEW id, Knows(book, id)
  PROVE  LET o == OrderOf(book, id)
             t == Without(book[o.action], id)
         IN  /\ SideOK(t, o.action, users, ids) /\ Follows(t, book[o.action], {})
             /\ Absent(id, t)
<1> DEFINE o == OrderOf(book, id)
           side == book[o.action]
           t == Without(side, id)
<1>1. /\ o.id = id /\ SideOK(side, o.action, users, ids)
      /\ \E i \in 1..Len(side) : side[i] = o
  BY NamedOrder
<1> HIDE DEF o, side
<1>2. t \in Seq(OrdersOf(users, ids)) /\ Remains(t, side, 1) /\ Absent(id, t)
  BY <1>1, WithoutOutcome
<1>3. SideOK(t, o.action, users, ids) /\ Follows(t, side, {})
  BY <1>1, <1>2, RemainsOK, RemainsFollows
<1>4. QED
  BY <1>2, <1>3 DEF o, side

\* cancel_order: the same, for whatever a client names.
THEOREM CancelOrderOutcome ==
  ASSUME NEW users, NEW ids, NEW book, BookOK(book, users, ids), NEW spec,
         NEW cmd, cmd.action \in Actions
  PROVE  Result(CancelOrder(book, cmd), book, cmd.uid, spec, users, ids, {})
<1> DEFINE r == CancelOrder(book, cmd)
           o == OrderOf(book, cmd.id)
<1>1. CASE ~Owns(book, cmd)
  <2>1. r.book = book /\ r.events = <<>> /\ r.action = cmd.action
    BY <1>1 DEF CancelOrder, Refused
  <2> HIDE DEF r
  <2>2. Result(r, book, cmd.uid, spec, users, ids, {})
    BY <2>1, NothingHappens
  <2>3. QED
    BY <2>2 DEF r
<1>2. CASE Owns(book, cmd)
  <2>1. Knows(book, cmd.id)
    BY <1>2 DEF Owns
  <2>2. /\ o.id = cmd.id /\ o.action \in Actions /\ o.reserve \in Int /\ Remaining(o) \in Int
    BY <2>1, NamedOrder
  <2>3. /\ SideOK(Without(book[o.action], cmd.id), o.action, users, ids)
        /\ Follows(Without(book[o.action], cmd.id), book[o.action], {})
    BY <2>1, NamedOrderGone
  <2>4. r = Done([book EXCEPT ![o.action] = Without(book[o.action], o.id)],
                 <<Reject(Remaining(o), o.reserve)>>, o.action)
    BY <1>2, Zenon DEF CancelOrder
  <2> HIDE DEF r, o
  <2>5. Result(r, book, cmd.uid, spec, users, ids, {})
    BY <2>2, <2>3, <2>4, SideShrinks
  <2>6. QED
    BY <2>5 DEF r
<1>3. QED
  BY <1>1, <1>2

\* reduce_order, when something of the order stays.
LEMMA ReducedSide ==
  ASSUME NEW users, NEW ids, NEW action, NEW side, SideOK(side, action, users, ids),
         NEW i \in 1..Len(side), NEW by \in Nat, by < Remaining(side[i]),
         NEW t, t = [j \in 1..Len(side) |->
                       IF side[j].id = side[i].id THEN [side[j] EXCEPT !.size = @ - by] ELSE side[j]]
  PROVE  SideOK(t, action, users, ids) /\ Follows(t, side, {})
<1>1. /\ Len(side) \in Nat /\ side \in Seq(OrdersOf(users, ids))
      /\ \A j, k \in 1..Len(side) : side[j].id = side[k].id => j = k
  BY DistinctIds DEF SideOK
<1>2. \A j \in 1..Len(side) : side[j] \in OrdersOf(users, ids)
  BY <1>1, ElementOfSeq
<1>3. ASSUME NEW j \in 1..Len(side)
      PROVE  /\ t[j] \in OrdersOf(users, ids) /\ SameOrder(t[j], side[j])
             /\ t[j].action = action /\ 0 <= t[j].filled /\ t[j].filled < t[j].size
  <2>1. side[j] \in OrdersOf(users, ids) /\ side[j].size \in Int /\ side[j].filled \in Int
    BY <1>2 DEF OrdersOf
  <2>2. side[j].action = action /\ 0 <= side[j].filled /\ side[j].filled < side[j].size
    BY DEF SideOK
  <2>3. CASE side[j].id # side[i].id
    BY <2>1, <2>2, <2>3 DEF SameOrder
  <2>4. CASE side[j].id = side[i].id
    <3>1. j = i
      BY <1>1, <2>4
    <3>2. t[j] = [side[j] EXCEPT !.size = @ - by]
      BY <2>4
    <3>3. side[j].size - by \in Int /\ side[j].filled < side[j].size - by
      BY <2>1, <3>1 DEF Remaining
    <3>4. /\ t[j].id = side[j].id /\ t[j].uid = side[j].uid /\ t[j].action = side[j].action
          /\ t[j].price = side[j].price /\ t[j].reserve = side[j].reserve
          /\ t[j].filled = side[j].filled /\ t[j].size = side[j].size - by
          /\ t[j] \in OrdersOf(users, ids)
      BY <2>1, <3>2, <3>3 DEF OrdersOf
    <3>5. QED
      BY <2>2, <3>3, <3>4 DEF SameOrder
  <2>5. QED
    BY <2>3, <2>4
<1>4. t \in Seq(OrdersOf(users, ids)) /\ Len(t) = Len(side)
  <2>1. DOMAIN t = 1..Len(side) /\ t = [j \in 1..Len(side) |-> t[j]]
    OBVIOUS
  <2>2. t \in [1..Len(side) -> OrdersOf(users, ids)]
    BY <1>3, <2>1, Zenon
  <2>3. t \in Seq(OrdersOf(users, ids))
    BY <1>1, <2>2, SeqDef
  <2>4. DOMAIN t = 1..Len(t) /\ Len(t) \in Nat
    BY <2>3, LenProperties
  <2>5. 1..Len(t) = 1..Len(side)
    BY <2>1, <2>4
  <2>6. \A k, n \in Nat : 1..k = 1..n => k = n
    OBVIOUS
  <2>7. QED
    BY <1>1, <2>3, <2>4, <2>5, <2>6
<1>5. ASSUME NEW j \in 1..Len(t), NEW k \in 1..Len(t), j < k
      PROVE  t[j].id # t[k].id /\ ~Ahead(action, t[k].price, t[j].price)
  <2>1. SameOrder(t[j], side[j]) /\ SameOrder(t[k], side[k])
    BY <1>3, <1>4
  <2>2. side[j].id # side[k].id /\ ~Ahead(action, side[k].price, side[j].price)
    BY <1>4, <1>5 DEF SideOK
  <2>3. QED
    BY <2>1, <2>2 DEF SameOrder
<1>6. SideOK(t, action, users, ids)
  BY <1>3, <1>4, <1>5 DEF SideOK
<1>7. Follows(t, side, {})
  <2>1. ASSUME NEW a \in 1..Len(t), NEW b \in 1..Len(t),
               NEW j \in 1..Len(side), NEW k \in 1..Len(side),
               a < b, t[a].id = side[j].id, t[b].id = side[k].id
        PROVE  j < k
    <3>1. side[a].id = side[j].id /\ side[b].id = side[k].id
      BY <1>3, <1>4, <2>1 DEF SameOrder
    <3>2. a = j /\ b = k
      BY <1>1, <1>4, <3>1
    <3>3. QED
      BY <2>1, <3>2
  <2>2. ASSUME NEW a \in 1..Len(t)
        PROVE  \E j \in 1..Len(side) : SameOrder(t[a], side[j])
    BY <1>3, <1>4
  <2> HIDE DEF SameOrder
  <2>3. QED
    BY <2>1, <2>2, Zenon DEF Follows
<1>8. QED
  BY <1>6, <1>7

\* reduce_order: the same, the order that is reduced keeps its place.
THEOREM ReduceOrderOutcome ==
  ASSUME NEW users, NEW ids, NEW book, BookOK(book, users, ids), NEW spec,
         NEW cmd, cmd.action \in Actions, cmd.size \in Int
  PROVE  Result(ReduceOrder(book, cmd), book, cmd.uid, spec, users, ids, {})
<1> DEFINE r == ReduceOrder(book, cmd)
           o == OrderOf(book, cmd.id)
           side == book[o.action]
           by == IF Remaining(o) < cmd.size THEN Remaining(o) ELSE cmd.size
           t == IF by = Remaining(o) THEN Without(side, o.id)
                ELSE [j \in 1..Len(side) |->
                        IF side[j].id = o.id THEN [side[j] EXCEPT !.size = @ - by] ELSE side[j]]
<1>1. CASE ~(Owns(book, cmd) /\ cmd.size > 0)
  <2>1. r.book = book /\ r.events = <<>> /\ r.action = cmd.action
    <3>1. cmd.size <= 0 <=> ~(cmd.size > 0)
      OBVIOUS
    <3>2. \/ r = Refused(book, cmd, "MatchingUnknownOrderId")
          \/ r = Refused(book, cmd, "MatchingInvalidOrderSize")
      BY <1>1, <3>1, Zenon DEF ReduceOrder
    <3> HIDE DEF r
    <3>3. QED
      BY <3>2 DEF Refused
  <2> HIDE DEF r
  <2>2. Result(r, book, cmd.uid, spec, users, ids, {})
    BY <2>1, NothingHappens
  <2>3. QED
    BY <2>2 DEF r
<1>2. CASE Owns(book, cmd) /\ cmd.size > 0
  <2>1. Knows(book, cmd.id)
    BY <1>2 DEF Owns
  <2>2. /\ o.id = cmd.id /\ o.action \in Actions /\ o.reserve \in Int
        /\ Remaining(o) \in Nat \ {0} /\ SideOK(side, o.action, users, ids)
        /\ \E i \in 1..Len(side) : side[i] = o
    BY <2>1, NamedOrder
  <2>3. /\ SideOK(Without(side, o.id), o.action, users, ids)
        /\ Follows(Without(side, o.id), side, {})
    BY <2>1, <2>2, NamedOrderGone
  <2>4. r = Done([book EXCEPT ![o.action] = t], <<Reject(by, o.reserve)>>, o.action)
    <3>1. Knows(book, cmd.id) /\ ~(cmd.size <= 0)
      BY <1>2, <2>1
    <3>2. QED
      BY <1>2, <3>1, Zenon DEF ReduceOrder
  <2> HIDE DEF r, o, side
  <2>5. by \in Nat /\ (by = Remaining(o) \/ by < Remaining(o)) /\ by \in Int
    BY <1>2, <2>2
  <2> HIDE DEF by
  <2>6. SideOK(t, o.action, users, ids) /\ Follows(t, side, {})
    <3>1. CASE by = Remaining(o)
      BY <2>3, <3>1
    <3>2. CASE by # Remaining(o)
      <4>1. PICK i \in 1..Len(side) : side[i] = o
        BY <2>2
      <4>2. by < Remaining(side[i])
        BY <2>5, <3>2, <4>1
      <4>3. t = [j \in 1..Len(side) |->
                   IF side[j].id = side[i].id THEN [side[j] EXCEPT !.size = @ - by] ELSE side[j]]
        BY <3>2, <4>1
      <4> HIDE DEF t
      <4>4. QED
        BY <2>2, <2>5, <4>2, <4>3, ReducedSide
    <3>3. QED
      BY <3>1, <3>2
  <2> HIDE DEF t
  <2>7. Result(r, book, cmd.uid, spec, users, ids, {})
    <3>1. Follows(t, book[o.action], {})
      BY <2>6 DEF side
    <3>2. QED
      BY <2>2, <2>4, <2>5, <2>6, <3>1, SideShrinks
  <2>8. QED
    BY <2>7 DEF r
<1>3. QED
  BY <1>1, <1>2

\* The order that is moved, out of the book and about to match again.
LEMMA MovedTakes ==
  ASSUME NEW users, NEW ids, NEW book, BookOK(book, users, ids), NEW spec, spec.stp \in Modes,
         NEW id, Knows(book, id), NEW price \in Int,
         MoveAllowed(OrderOf(book, id), price, spec)
  PROVE  LET o == OrderOf(book, id)
             taker == Retaker(o, price)
         IN  /\ Taking(taker, book, spec, users, ids)
             /\ taker.id = id /\ taker.uid = o.uid /\ taker.action = o.action
             /\ taker.price = price /\ taker.reserve = o.reserve /\ taker.size = Remaining(o)
<1> DEFINE o == OrderOf(book, id)
           taker == Retaker(o, price)
<1>1. /\ o.id = id /\ o.action \in Actions /\ o \in OrdersOf(users, ids)
      /\ o.reserve \in Int /\ Remaining(o) \in Nat \ {0}
      /\ Absent(id, book[Opposite(o.action)])
  BY NamedOrder
<1>2. MoveAllowed(o, price, spec)
  OBVIOUS
<1> HIDE DEF o
<1>3. /\ taker.id = id /\ taker.uid = o.uid /\ taker.action = o.action
      /\ taker.price = price /\ taker.reserve = o.reserve /\ taker.size = Remaining(o)
      /\ taker \in OrdersOf(users, ids)
  <2> DEFINE size == Remaining(o)
  <2>1. size \in Int /\ 0 \in Int
    BY <1>1
  <2>2. taker = [o EXCEPT !.price = price, !.size = size, !.filled = 0]
    BY DEF Retaker
  <2> HIDE DEF size, taker
  <2>3. /\ taker.id = o.id /\ taker.uid = o.uid /\ taker.action = o.action
        /\ taker.price = price /\ taker.reserve = o.reserve /\ taker.size = size
        /\ taker \in OrdersOf(users, ids)
    BY <1>1, <2>1, <2>2 DEF OrdersOf
  <2>4. QED
    BY <1>1, <2>3 DEF size
<1> HIDE DEF taker
<1>4. spec.spot /\ taker.action = "Bid" => taker.price <= taker.reserve
  BY <1>1, <1>2, <1>3 DEF MoveAllowed
<1>5. Taking(taker, book, spec, users, ids)
  BY <1>1, <1>3, <1>4 DEF Taking
<1>6. QED
  BY <1>3, <1>5 DEF o, taker

\* The side of the moved order when it is back.
LEMMA MovedReturns ==
  ASSUME NEW users, NEW ids, NEW side, NEW own, NEW o \in OrdersOf(users, ids),
         o.action \in Actions, o.filled \in Nat,
         SideOK(own, o.action, users, ids), Follows(own, side, {}), Absent(o.id, own),
         NEW price \in Int, NEW m, m.filled \in 0..Remaining(o), m.filled < Remaining(o), ~m.aborted
  PROVE  OwnSide(Insert(own, [o EXCEPT !.price = price, !.filled = @ + m.filled]), side,
                 Retaker(o, price), m, users, ids)
<1> DEFINE taker == Retaker(o, price)
           moved == [o EXCEPT !.price = price, !.filled = @ + m.filled]
           t == Insert(own, moved)
<1>1. /\ taker.id = o.id /\ taker.uid = o.uid /\ taker.action = o.action
      /\ taker.price = price /\ taker.reserve = o.reserve /\ taker.size = Remaining(o)
  BY DEF Retaker, OrdersOf
<1>2. o.filled \in Int /\ o.size \in Int /\ m.filled \in Nat
  BY DEF OrdersOf, Remaining
<1>3. /\ moved.id = o.id /\ moved.uid = o.uid /\ moved.action = o.action
      /\ moved.price = price /\ moved.reserve = o.reserve /\ moved.size = o.size
      /\ moved.filled = o.filled + m.filled /\ moved \in OrdersOf(users, ids)
  <2> DEFINE filled == o.filled + m.filled
  <2>1. filled \in Int
    BY <1>2
  <2>2. moved = [o EXCEPT !.price = price, !.filled = filled]
    OBVIOUS
  <2> HIDE DEF filled, moved
  <2>3. /\ moved.id = o.id /\ moved.uid = o.uid /\ moved.action = o.action
        /\ moved.price = price /\ moved.reserve = o.reserve /\ moved.size = o.size
        /\ moved.filled = filled /\ moved \in OrdersOf(users, ids)
    BY <2>1, <2>2 DEF OrdersOf
  <2>4. QED
    BY <2>3 DEF filled
<1> HIDE DEF moved, taker
<1>4. 0 <= moved.filled /\ moved.filled < moved.size
  BY <1>2, <1>3 DEF Remaining
<1>5. Joined(t, own, moved, users, ids)
  BY <1>3, <1>4, InsertOutcome
<1> HIDE DEF t
<1>6. \A j, k \in 1..Len(own) : own[j].id = own[k].id => j = k
  BY DistinctIds
<1>7. Follows(t, side, {o.id})
  <2>1. Follows(t, own, {o.id}) /\ Len(own) \in Nat
    BY <1>3, <1>5, DistinctIds DEF Joined
  <2>2. QED
    BY <1>6, <2>1, FollowsOn
<1>8. \A a \in 1..Len(t) : t[a].id = o.id => t[a] = moved
  BY <1>5 DEF Joined, Absent
<1>9. OwnSide(t, side, taker, m, users, ids)
  BY <1>1, <1>3, <1>5, <1>7, <1>8 DEF OwnSide, Joined
<1>10. QED
  BY <1>9 DEF t, taker, moved

\* move_order: the same, the order that is moved matches like a new one, is refused a
\* price above its hold, and goes behind whoever is at its new price.
THEOREM MoveOrderOutcome ==
  ASSUME NEW users, NEW ids, NEW book, BookOK(book, users, ids), NEW spec, spec.stp \in Modes,
         NEW cmd, cmd.action \in Actions, cmd.price \in Int
  PROVE  LET r == MoveOrder(book, cmd, spec)
         IN  Result(r, book, cmd.uid, spec, users, ids,
                    IF r.code = "Success" THEN {cmd.id} ELSE {})
<1> DEFINE r == MoveOrder(book, cmd, spec)
           o == OrderOf(book, cmd.id)
           taker == Retaker(o, cmd.price)
           m == TryMatch(book[Opposite(o.action)], taker, spec.stp)
           moved == [o EXCEPT !.price = cmd.price, !.filled = @ + m.filled]
           own == Without(book[o.action], o.id)
           back == IF Remaining(moved) > 0 THEN Insert(own, moved) ELSE own
           out == Done(Matched(o, m, own),
                       Append(m.events, Reject(Remaining(moved), o.reserve)), o.action)
           in == Done(Matched(o, m, back), m.events, o.action)
           Good(x) == Result(x, book, cmd.uid, spec, users, ids,
                             IF x.code = "Success" THEN {cmd.id} ELSE {})
<1>1. ASSUME NEW code, code # "Success"
      PROVE  Good(Refused(book, cmd, code))
  <2> DEFINE x == Refused(book, cmd, code)
  <2>1. x.book = book /\ x.events = <<>> /\ x.action = cmd.action /\ x.code = code
    BY DEF Refused
  <2> HIDE DEF x
  <2>2. Result(x, book, cmd.uid, spec, users, ids, {})
    BY <2>1, NothingHappens
  <2>3. Good(x)
    BY <1>1, <2>1, <2>2
  <2>4. QED
    BY <2>3 DEF x
<1>2. ASSUME Owns(book, cmd), MoveAllowed(o, cmd.price, spec)
      PROVE  /\ m.aborted /\ Remaining(moved) > 0 => Good(out)
             /\ ~(m.aborted /\ Remaining(moved) > 0) => Good(in)
  <2>1. Knows(book, cmd.id) /\ o.uid = cmd.uid
    BY <1>2 DEF Owns
  <2>2. /\ o.id = cmd.id /\ o.action \in Actions /\ o \in OrdersOf(users, ids)
        /\ o.filled \in Nat /\ o.size \in Int /\ o.reserve \in Int
        /\ Remaining(o) \in Nat \ {0}
    BY <2>1, NamedOrder
  <2>3. /\ Taking(taker, book, spec, users, ids)
        /\ taker.id = cmd.id /\ taker.uid = cmd.uid /\ taker.action = o.action
        /\ taker.size = Remaining(o)
    BY <1>2, <2>1, MovedTakes
  <2>4. /\ SideOK(own, o.action, users, ids) /\ Follows(own, book[o.action], {})
        /\ Absent(o.id, own)
    BY <2>1, <2>2, NamedOrderGone
  <2>5. moved.size = o.size /\ moved.filled = o.filled + m.filled
    BY <2>2 DEF OrdersOf
  <2>6. /\ OwnSide(Insert(own, moved), book[o.action], taker, m, users, ids)
        \/ ~(m.filled \in 0..Remaining(o) /\ m.filled < Remaining(o) /\ ~m.aborted)
    <3> HIDE DEF o, m, own
    <3>1. QED
      BY <2>2, <2>4, MovedReturns
  <2> HIDE DEF o, taker, moved
  <2>7. Typed(m, users, ids) /\ m.filled \in 0..taker.size
    BY <2>3, TakerMatches
  <2>8. m = TryMatch(book[Opposite(taker.action)], taker, spec.stp)
    BY <2>3
  <2> HIDE DEF m, own
  <2>9. Remaining(moved) = taker.size - m.filled /\ Remaining(moved) \in Int
    BY <2>2, <2>3, <2>5, <2>7 DEF Remaining
  <2>10. OwnSide(own, book[taker.action], taker, m, users, ids)
    <3>1. Follows(own, book[o.action], {cmd.id})
      BY <2>2, <2>4, NobodyNew
    <3>2. QED
      BY <2>2, <2>3, <2>4, <3>1 DEF OwnSide, Absent
  <2>11. ~(m.aborted /\ Remaining(moved) > 0) => OwnSide(back, book[taker.action], taker, m, users, ids)
    <3>1. CASE Remaining(moved) > 0 /\ ~m.aborted
      <4>1. m.filled \in 0..Remaining(o) /\ m.filled < Remaining(o)
        BY <2>2, <2>3, <2>7, <2>9, <3>1
      <4>2. OwnSide(Insert(own, moved), book[o.action], taker, m, users, ids)
        BY <2>6, <3>1, <4>1
      <4>3. QED
        BY <2>3, <3>1, <4>2
    <3>2. CASE ~(Remaining(moved) > 0)
      BY <2>10, <3>2
    <3>3. QED
      BY <3>1, <3>2
  <2> HIDE DEF back
  <2>12. m.events \in Seq(EventsOf(users, ids))
    BY <2>7 DEF Typed
  <2>13. ASSUME NEW x, NEW side, OwnSide(side, book[taker.action], taker, m, users, ids),
                x.book = Matched(o, m, side), EventsFrom(x.events, m.events, users, ids),
                x.code = "Success", x.action = o.action
         PROVE  Good(x)
    <3>1. Resulting(x, m, side, taker.action, users, ids)
      BY <2>2, <2>3, <2>13, MatchedIs
    <3>2. Result(x, book, taker.uid, spec, users, ids, {taker.id})
      BY <2>3, <2>8, <2>13, <3>1, MatchedOutcome
    <3>3. QED
      BY <2>3, <2>13, <3>2
  <2>14. /\ out.book = Matched(o, m, own) /\ out.code = "Success" /\ out.action = o.action
         /\ out.events = Append(m.events, Reject(Remaining(moved), o.reserve))
         /\ in.book = Matched(o, m, back) /\ in.code = "Success" /\ in.action = o.action
         /\ in.events = m.events
    BY DEF Done
  <2> HIDE DEF out, in, Good
  <2>15. EventsFrom(in.events, m.events, users, ids)
    BY <2>12, <2>14 DEF EventsFrom
  <2>16. EventsFrom(out.events, m.events, users, ids)
    <3> DEFINE size == Remaining(moved)
               e == Reject(size, o.reserve)
    <3>1. e \in EventsOf(users, ids)
      BY <2>2, <2>9 DEF EventsOf, Reject
    <3> HIDE DEF e
    <3>2. Append(m.events, e) = m.events \o <<e>>
      BY <2>12, <3>1, AppendIsConcat
    <3> HIDE DEF size
    <3>3. EventsFrom(m.events \o <<e>>, m.events, users, ids)
      <4>1. size \in Int /\ o.reserve \in Int
        BY <2>2, <2>9 DEF size
      <4>2. <<e>> = <<Reject(size, o.reserve)>>
        BY DEF e
      <4>3. QED
        BY <2>12, <4>1, <4>2, RejectsAtTheEnd
    <3>4. QED
      BY <2>14, <3>2, <3>3 DEF e, size
  <2>17. QED
    BY <2>10, <2>11, <2>13, <2>14, <2>15, <2>16
<1>3. \/ r = Refused(book, cmd, "MatchingUnknownOrderId")
      \/ r = Refused(book, cmd, "RiskInvalidOrderParams")
      \/ r = Refused(book, cmd, "RiskInvalidReserveBidPrice")
      \/ /\ Owns(book, cmd) /\ MoveAllowed(o, cmd.price, spec)
         /\ \/ m.aborted /\ Remaining(moved) > 0 /\ r = out
            \/ ~(m.aborted /\ Remaining(moved) > 0) /\ r = in
  BY Zenon DEF MoveOrder
<1> HIDE DEF r, Good, m, moved, o, out, in
<1>4. Good(r)
  BY <1>1, <1>2, <1>3
<1>5. QED
  BY <1>4 DEF Good, r

-----------------------------------------------------------------------------
(* What check_budget_to_fill comes to. *)

\* Behind the last order there is nothing to pay for.
LEMMA CostNobody ==
  ASSUME NEW side, Len(side) \in Nat, NEW left, NEW d
  PROVE  Cost(side, Len(side) + 1, left, d) = -1
<1>1. Len(side) + 1 > Len(side)
  OBVIOUS
<1>2. QED
  BY <1>1 DEF Cost

IsCosts(f, side, size) ==
  f = [i \in 1..Len(side) + 1 |->
         [left \in 0..size |-> Cost(side, i, left, f[i + 1])]]

LEMMA CostsExist ==
  ASSUME NEW side, Len(side) \in Nat, NEW size
  PROVE  \E f : IsCosts(f, side, size)
<1> DEFINE n == Len(side)
           Row(f, i) == [left \in 0..size |-> Cost(side, i, left, f[i + 1])]
           T == {i \in 1..n + 1 : \E f : f = [j \in i..n + 1 |-> Row(f, j)]}
<1>1. \A f, g : Row(f, n + 1) = Row(g, n + 1)
  BY CostNobody
<1>2. \A f, g, i : f[i + 1] = g[i + 1] => Row(f, i) = Row(g, i)
  OBVIOUS
<1> HIDE DEF Row
<1>3. n + 1 \in T
  <2> DEFINE f == [j \in (n + 1)..(n + 1) |-> Row(<<>>, j)]
  <2>1. \A j \in (n + 1)..(n + 1) : j = n + 1
    OBVIOUS
  <2>2. f = [j \in (n + 1)..(n + 1) |-> Row(f, j)]
    <3>1. \A j \in (n + 1)..(n + 1) : Row(<<>>, j) = Row(f, j)
      <4> HIDE DEF f
      <4>1. QED
        BY <1>1, <2>1
    <3>2. QED
      BY <3>1
  <2> HIDE DEF f
  <2>3. QED
    BY <2>2
<1>4. ASSUME NEW i \in 1..n, i + 1 \in T
      PROVE  i \in T
  <2>1. PICK f : f = [j \in (i + 1)..(n + 1) |-> Row(f, j)]
    BY <1>4
  <2> DEFINE g == [j \in i..n + 1 |-> IF j = i THEN Row(f, i) ELSE f[j]]
  <2>2. ASSUME NEW j \in i..n + 1
        PROVE  g[j] = Row(g, j)
    <3>1. g[j] = IF j = i THEN Row(f, i) ELSE f[j]
      OBVIOUS
    <3>2. CASE j = n + 1
      <4>1. j # i /\ j \in (i + 1)..(n + 1)
        BY <3>2
      <4>2. g[j] = Row(f, j)
        BY <3>1, <4>1, <2>1
      <4> HIDE DEF g
      <4>3. QED
        BY <3>2, <4>2, <1>1
    <3>3. CASE j # n + 1
      <4>1. j + 1 \in i..n + 1 /\ j + 1 # i
        BY <3>3
      <4>2. g[j + 1] = f[j + 1]
        BY <4>1
      <4>3. Row(g, j) = Row(f, j)
        <5> HIDE DEF g
        <5>1. QED
          BY <4>2, <1>2
      <4>4. CASE j = i
        BY <4>4, <4>3, <3>1
      <4>5. CASE j # i
        <5>1. j \in (i + 1)..(n + 1)
          BY <4>5
        <5>2. QED
          BY <4>5, <5>1, <4>3, <3>1, <2>1
      <4>6. QED
        BY <4>4, <4>5
    <3>4. QED
      BY <3>2, <3>3
  <2>3. g = [j \in i..n + 1 |-> Row(g, j)]
    <3>1. g = [j \in i..n + 1 |-> g[j]]
      OBVIOUS
    <3> HIDE DEF g
    <3>2. QED
      BY <3>1, <2>2
  <2> HIDE DEF g
  <2>4. QED
    BY <2>3
<1>5. 1 \in T
  <2>1. \A i \in 1..n + 1 : i \in T
    <3> HIDE DEF T
    <3>1. QED
      BY <1>3, <1>4, WalkInduction
  <2>2. QED
    BY <2>1
<1>6. PICK f : f = [i \in 1..n + 1 |-> Row(f, i)]
  BY <1>5
<1>7. QED
  BY <1>6 DEF Row, IsCosts

\* Orders that can be paid for.
Sellable(side) ==
  /\ Len(side) \in Nat
  /\ \A i \in 1..Len(side) : Remaining(side[i]) \in Nat \ {0} /\ side[i].price \in Nat

\* Nothing is left to pay for, one order is enough, or it takes more.
CostRules(at, side, size) ==
  /\ \A left \in 0..size : at[Len(side) + 1][left] = -1
  /\ \A i \in 1..Len(side) : \A left \in 0..size :
       at[i][left] = IF left <= Remaining(side[i]) THEN left * side[i].price
                     ELSE IF at[i + 1][left - Remaining(side[i])] = -1 THEN -1
                     ELSE Remaining(side[i]) * side[i].price
                            + at[i + 1][left - Remaining(side[i])]

LEMMA CostsAre ==
  ASSUME NEW side, Len(side) \in Nat, NEW size
  PROVE  CostRules(Costs(side, size), side, size)
<1>1. \E f : IsCosts(f, side, size)
  BY CostsExist
<1> DEFINE at == Costs(side, size)
<1>2. IsCosts(at, side, size)
  BY <1>1, Zenon DEF Costs, IsCosts
<1> HIDE DEF at
<1>3. \A i \in 1..Len(side) + 1 :
        at[i] = [left \in 0..size |-> Cost(side, i, left, at[i + 1])]
  BY <1>2 DEF IsCosts
<1>4. \A i \in 1..Len(side) + 1 : \A left \in 0..size :
        at[i][left] = Cost(side, i, left, at[i + 1])
  BY <1>3
<1>5. \A left \in 0..size : at[Len(side) + 1][left] = -1
  <2>1. Len(side) + 1 \in 1..Len(side) + 1
    OBVIOUS
  <2>2. QED
    BY <1>4, <2>1, CostNobody
<1>6. ASSUME NEW i \in 1..Len(side), NEW left \in 0..size
      PROVE  at[i][left]
               = IF left <= Remaining(side[i]) THEN left * side[i].price
                 ELSE IF at[i + 1][left - Remaining(side[i])] = -1 THEN -1
                 ELSE Remaining(side[i]) * side[i].price
                        + at[i + 1][left - Remaining(side[i])]
  <2>1. i \in 1..Len(side) + 1 /\ ~(i > Len(side))
    OBVIOUS
  <2>2. at[i][left] = Cost(side, i, left, at[i + 1])
    BY <1>4, <2>1
  <2>3. QED
    BY Zenon, <2>1, <2>2 DEF Cost
<1>7. QED
  BY <1>5, <1>6 DEF CostRules, at

\* Sums of money.
LEMMA Amounts ==
  /\ \A x, y \in Nat : x * y \in Nat
  /\ \A p \in Nat : 0 * p = 0
  /\ \A x, y, p \in Nat : x * p + y * p = (x + y) * p
<1>1. \A x, y \in Nat : x * y \in Nat
  OBVIOUS
<1>2. \A p \in Nat : 0 * p = 0
  OBVIOUS
<1>3. \A x, y, p \in Nat : x * p + y * p = (x + y) * p
  OBVIOUS
<1>4. QED
  BY <1>1, <1>2, <1>3

\* A cost is an amount or "not that much".
LEMMA CostsTyped ==
  ASSUME NEW side, Sellable(side), NEW size \in Nat, NEW at, CostRules(at, side, size)
  PROVE  \A i \in 1..Len(side) + 1 : \A left \in 0..size :
           at[i][left] \in Nat \/ at[i][left] = -1
<1> DEFINE n == Len(side)
           T == {i \in 1..n + 1 : \A left \in 0..size : at[i][left] \in Nat \/ at[i][left] = -1}
<1>1. n \in Nat
  BY DEF Sellable
<1>2. n + 1 \in T
  BY <1>1 DEF CostRules
<1>3. ASSUME NEW i \in 1..n, i + 1 \in T
      PROVE  i \in T
  <2>1. ASSUME NEW left \in 0..size
        PROVE  at[i][left] \in Nat \/ at[i][left] = -1
    <3> DEFINE r == Remaining(side[i])
               p == side[i].price
               rest == at[i + 1][left - r]
               here == left * p
               this == r * p
    <3>1. r \in Nat \ {0} /\ p \in Nat /\ left \in Nat
      BY DEF Sellable
    <3>2. here \in Nat /\ this \in Nat
      <4> HIDE DEF r, p
      <4>1. QED
        BY <3>1, Amounts
    <3>3. at[i][left] = IF left <= r THEN here ELSE IF rest = -1 THEN -1 ELSE this + rest
      BY DEF CostRules
    <3>4. left > r => left - r \in 0..size
      BY <3>1
    <3>5. left > r => rest \in Nat \/ rest = -1
      BY <1>3, <3>4
    <3> HIDE DEF r, p, rest, here, this
    <3>6. QED
      BY <3>1, <3>2, <3>3, <3>5
  <2>2. i \in 1..n + 1
    BY <1>1
  <2>3. QED
    BY <2>1, <2>2
<1>4. \A i \in 1..n + 1 : i \in T
  <2> HIDE DEF T, n
  <2>1. QED
    BY <1>1, <1>2, <1>3, WalkInduction
<1>5. QED
  BY <1>4

\* The orders from m to k have one price; w is what is left of them, from each on.
OneLevel(side, m, k, p, w) ==
  /\ m \in 1..Len(side) /\ k \in m..Len(side) /\ p \in Nat
  /\ \A i \in m..k : side[i].price = p
  /\ \A i \in m..k + 1 : w[i] \in Nat
  /\ w[k + 1] = 0 /\ \A i \in m..k : w[i] = Remaining(side[i]) + w[i + 1]

\* A level with enough in it is paid for by the piece, any other one as a whole.
LevelPaid(at, m, k, p, v, size) ==
  \A left \in 0..size :
    /\ left <= v => at[m][left] = left * p
    /\ left > v => at[m][left] = IF at[k + 1][left - v] = -1 THEN -1
                                 ELSE v * p + at[k + 1][left - v]

LEMMA LevelCost ==
  ASSUME NEW side, Sellable(side), NEW size \in Nat, NEW at, CostRules(at, side, size),
         NEW m, NEW k, NEW p, NEW w, OneLevel(side, m, k, p, w)
  PROVE  LevelPaid(at, m, k, p, w[m], size)
<1> DEFINE n == Len(side)
           Good(i) == \A left \in 0..size :
                        /\ left <= w[i] /\ i <= k => at[i][left] = left * p
                        /\ left > w[i] => at[i][left] = IF at[k + 1][left - w[i]] = -1 THEN -1
                                                       ELSE w[i] * p + at[k + 1][left - w[i]]
           T == {i \in Nat : i \in m..k + 1 => Good(i)}
<1>1. /\ n \in Nat /\ m \in 1..n /\ k \in m..n /\ p \in Nat /\ k \in Nat /\ m \in Nat
      /\ \A i \in m..k + 1 : w[i] \in Nat
      /\ w[k + 1] = 0
  BY DEF Sellable, OneLevel
<1>2. \A i \in 1..n + 1 : \A left \in 0..size : at[i][left] \in Nat \/ at[i][left] = -1
  BY CostsTyped
<1>3. k + 1 \in T
  <2>1. ASSUME NEW left \in 0..size
        PROVE  at[k + 1][left] = IF at[k + 1][left - 0] = -1 THEN -1
                                 ELSE 0 * p + at[k + 1][left - 0]
    <3>1. left - 0 = left /\ 0 * p = 0 /\ k + 1 \in 1..n + 1
      BY <1>1
    <3>2. at[k + 1][left] \in Nat \/ at[k + 1][left] = -1
      BY <1>2, <3>1
    <3>3. QED
      BY ONLY <3>1, <3>2
  <2>2. ~(k + 1 <= k)
    BY <1>1
  <2>3. Good(k + 1)
    BY ONLY <1>1, <2>1, <2>2
  <2>4. k + 1 \in Nat
    BY <1>1
  <2> HIDE DEF Good
  <2>5. QED
    BY <2>3, <2>4
<1>4. ASSUME NEW i \in 1..k, i + 1 \in T
      PROVE  i \in T
  <2>1. SUFFICES ASSUME i \in m..k
                 PROVE  Good(i)
    <3>1. i \in m..k + 1 => i \in m..k
      BY <1>1
    <3>2. i \in Nat
      BY <1>1
    <3> HIDE DEF Good
    <3>3. QED
      BY <3>1, <3>2
  <2>2. i + 1 \in m..k + 1 /\ i \in 1..n /\ i <= k /\ i \in Int
    BY <1>1, <2>1
  <2>3. Good(i + 1)
    <3> HIDE DEF Good
    <3>1. QED
      BY <1>4, <2>2
  <2> DEFINE r == Remaining(side[i])
             v == w[i + 1]
  <2>4. r \in Nat \ {0} /\ side[i].price = p /\ v \in Nat /\ w[i] = r + v
    BY <1>1, <2>1, <2>2 DEF Sellable, OneLevel
  <2>5. i = k => v = 0
    BY <1>1
  <2>6. ASSUME NEW left \in 0..size
        PROVE  /\ left <= r + v => at[i][left] = left * p
               /\ left > r + v => at[i][left] = IF at[k + 1][left - (r + v)] = -1 THEN -1
                                                ELSE (r + v) * p + at[k + 1][left - (r + v)]
    <3> DEFINE rest == at[i + 1][left - r]
               deep == at[k + 1][left - (r + v)]
    <3>1. at[i][left] = IF left <= r THEN left * p ELSE IF rest = -1 THEN -1 ELSE r * p + rest
      BY <2>2, <2>4 DEF CostRules
    <3>2. left \in Nat
      OBVIOUS
    <3>3. CASE left <= r
      BY <2>4, <3>1, <3>2, <3>3
    <3>4. CASE left > r /\ left <= r + v
      <4> DEFINE x == left - r
      <4>1. x \in 0..size /\ x <= v /\ x \in Nat /\ x + r = left
        BY <2>4, <3>2, <3>4
      <4>2. i + 1 <= k
        BY <1>1, <2>2, <2>4, <2>5, <3>4
      <4>3. rest = x * p
        BY <2>3, <4>1, <4>2
      <4>4. x * p \in Nat /\ r * p + x * p = left * p
        <5>1. r \in Nat /\ r + x = left
          BY <2>4, <4>1
        <5> HIDE DEF r, x
        <5>2. r * p + x * p = (r + x) * p /\ x * p \in Nat
          BY <1>1, <4>1, <5>1, Amounts
        <5>3. QED
          BY <5>1, <5>2
      <4> DEFINE xp == x * p
                 rp == r * p
      <4>5. rest = xp /\ xp \in Nat /\ rp + xp = left * p
        BY <4>3, <4>4
      <4>6. at[i][left] = IF rest = -1 THEN -1 ELSE rp + rest
        BY <2>4, <3>1, <3>2, <3>4
      <4> HIDE DEF xp, rp, rest, x
      <4>7. at[i][left] = left * p
        BY ONLY <4>5, <4>6
      <4>8. QED
        BY <2>4, <3>2, <3>4, <4>7
    <3>5. CASE left > r + v
      <4> DEFINE x == left - r
                 rp == r * p
                 vp == v * p
                 all == (r + v) * p
      <4>1. x \in 0..size /\ x > v /\ x - v = left - (r + v) /\ left - (r + v) \in 0..size
        BY <2>4, <3>2, <3>5
      <4>2. rest = IF at[k + 1][x - v] = -1 THEN -1 ELSE vp + at[k + 1][x - v]
        BY <2>3, <4>1
      <4>3. rest = IF deep = -1 THEN -1 ELSE vp + deep
        <5> HIDE DEF rest, x, vp
        <5>1. QED
          BY ONLY <4>1, <4>2
      <4>4. deep \in Nat \/ deep = -1
        <5>1. k + 1 \in 1..n + 1
          BY <1>1
        <5>2. QED
          BY <1>2, <4>1, <5>1
      <4>5. vp \in Nat /\ rp \in Nat /\ rp + vp = all
        <5>1. r \in Nat
          BY <2>4
        <5> HIDE DEF r, v
        <5>2. QED
          BY <1>1, <2>4, <5>1, Amounts
      <4>6. at[i][left] = IF rest = -1 THEN -1 ELSE rp + rest
        BY <2>4, <3>1, <3>2, <3>5
      <4> HIDE DEF rest, deep, vp, rp, all, x
      <4>7. at[i][left] = IF deep = -1 THEN -1 ELSE all + deep
        BY ONLY <4>3, <4>4, <4>5, <4>6
      <4>8. QED
        BY <2>4, <3>2, <3>5, <4>7 DEF all, deep
    <3>6. QED
      BY <2>4, <3>2, <3>3, <3>4, <3>5
  <2> HIDE DEF r, v
  <2>7. QED
    BY <2>2, <2>4, <2>6
<1>5. m \in T
  <2>1. \A i \in 1..k + 1 : i \in T
    <3> HIDE DEF T
    <3>1. QED
      BY <1>1, <1>3, <1>4, WalkInduction
  <2>2. QED
    BY <1>1, <2>1
<1>6. Good(m)
  <2>1. m \in m..k + 1
    BY <1>1
  <2> HIDE DEF Good
  <2>2. QED
    BY <1>5, <2>1
<1>7. m <= k
  BY <1>1
<1>8. QED
  BY <1>6, <1>7 DEF LevelPaid
=============================================================================
