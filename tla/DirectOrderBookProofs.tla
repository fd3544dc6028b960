------------------------ MODULE DirectOrderBookProofs ------------------------
(***************************************************************************)
(* The linked lists, the buckets and the index of DirectOrderBook agree with *)
(* each other whatever the sequence of commands, and implement the sequences *)
(* of LimitOrderBook.                                                        *)
(***************************************************************************)
EXTENDS DirectLinksProofs

-----------------------------------------------------------------------------
(* The book that is seen from outside *)

\* Every order is in one of the two lists.
Kept(b, action, s, t) ==
  Sound(b, action, s, t) /\ DOMAIN b.orders = ToSet(s) \cup ToSet(t)

Settled(b) == \E s, t : Kept(b, "Ask", s, t)

BookView(b) == [action \in Actions |-> Plains(b, Chain(b, action))]

\* It does not matter which side is named first.
LEMMA Turned ==
  ASSUME NEW b, NEW action \in Actions, NEW s, NEW t
  PROVE  /\ Sound(b, action, s, t) => Sound(b, Opposite(action), t, s)
         /\ Kept(b, action, s, t) => Kept(b, Opposite(action), t, s)
<1>1. Opposite(Opposite(action)) = action
  BY Sides
<1>2. Sound(b, action, s, t) => Sound(b, Opposite(action), t, s)
  BY ONLY <1>1 DEF Sound
<1>3. ToSet(s) \cup ToSet(t) = ToSet(t) \cup ToSet(s)
  OBVIOUS
<1>4. QED
  BY ONLY <1>2, <1>3 DEF Kept

\* The sides of the book are what the two lists hold.
Viewed(b, action, s, t) ==
  /\ BookView(b)[action] = Plains(b, s) /\ BookView(b)[Opposite(action)] = Plains(b, t)
  /\ DOMAIN BookView(b) = Actions
  /\ \A book : /\ DOMAIN book = Actions /\ book = [x \in Actions |-> book[x]]
               /\ book[action] = Plains(b, s) /\ book[Opposite(action)] = Plains(b, t)
               => BookView(b) = book

LEMMA ViewIs ==
  ASSUME NEW b, NEW action \in Actions, NEW s, NEW t, Sound(b, action, s, t)
  PROVE  Viewed(b, action, s, t)
<1>1. /\ Opposite(action) \in Actions
      /\ \A x \in Actions : x = action \/ x = Opposite(action)
  BY Sides
<1>2. /\ Typed(b) /\ Linked(b, action, s) /\ Linked(b, Opposite(action), t)
  BY DEF Sound, SideSound
<1>3. Chain(b, action) = s /\ Chain(b, Opposite(action)) = t
  BY <1>2, ChainIs
<1>4. \A x \in Actions : BookView(b)[x] = Plains(b, Chain(b, x))
  BY DEF BookView
<1>5. BookView(b)[action] = Plains(b, s) /\ BookView(b)[Opposite(action)] = Plains(b, t)
  BY <1>1, <1>3, <1>4
<1>6. BookView(b) = [x \in Actions |-> BookView(b)[x]]
  BY DEF BookView
<1>7. ASSUME NEW book, book = [x \in Actions |-> book[x]],
             book[action] = Plains(b, s), book[Opposite(action)] = Plains(b, t)
      PROVE  BookView(b) = book
  <2>1. \A x \in Actions : BookView(b)[x] = book[x]
    BY ONLY Zenon, <1>1, <1>5, <1>7
  <2>2. QED
    BY ONLY <1>6, <1>7, <2>1
<1>8. QED
  BY ONLY <1>5, <1>6, <1>7 DEF Viewed

\* A settled book has its lists on both sides.
LEMMA SettledIs ==
  ASSUME NEW b, Settled(b), NEW action \in Actions
  PROVE  \E s, t : Kept(b, action, s, t)
<1>1. PICK s, t : Kept(b, "Ask", s, t)
  BY DEF Settled
<1>2. action = "Ask" \/ action = Opposite("Ask")
  BY DEF Actions, Opposite
<1>3. Kept(b, Opposite("Ask"), t, s)
  <2>1. "Ask" \in Actions
    BY DEF Actions
  <2>2. QED
    BY <1>1, <2>1, Turned
<1>4. QED
  BY <1>1, <1>2, <1>3

LEMMA KeptSettles ==
  ASSUME NEW b, NEW action \in Actions, NEW s, NEW t, Kept(b, action, s, t)
  PROVE  Settled(b)
<1>1. action = "Ask" \/ Opposite(action) = "Ask"
  BY DEF Actions, Opposite
<1>2. Kept(b, Opposite(action), t, s)
  BY Turned
<1>3. QED
  BY <1>1, <1>2 DEF Settled

\* Slots with the same orders in them.
LEMMA SamePlains ==
  ASSUME NEW b, NEW r, NEW s,
         \A m \in 1..Len(s) : Plain(r.orders[s[m]]) = Plain(b.orders[s[m]])
  PROVE  Plains(r, s) = Plains(b, s)
  BY DEF Plains

\* What a book holds after orders outside of a list have changed.
LEMMA PlainsStay ==
  ASSUME NEW b, NEW r, NEW action, NEW s, Typed(b), Linked(b, action, s),
         \A j \in ToSet(s) : Plain(r.orders[j]) = Plain(b.orders[j])
  PROVE  Plains(r, s) = Plains(b, s)
<1>1. \A m \in 1..Len(s) : s[m] \in ToSet(s)
  BY SlotsOf
<1>2. QED
  BY <1>1, SamePlains

\* An order out of the list, an order into it.
LEMMA PlainsCut ==
  ASSUME NEW b, Typed(b), NEW s \in Seq(DOMAIN b.orders), NEW n \in 1..Len(s)
  PROVE  RemoveAt(Plains(b, s), n) = Plains(b, RemoveAt(s, n))
<1> DEFINE z == Plains(b, s)
           u == RemoveAt(s, n)
           v == RemoveAt(z, n)
           w == Plains(b, u)
<1>1. PlainList(b, s)
  BY PlainsAre
<1>2. /\ z \in Seq(AllOrders) /\ Len(z) = Len(s) /\ Len(s) \in Nat
      /\ \A m \in 1..Len(s) : z[m] = Plain(b.orders[s[m]])
  BY ONLY <1>1 DEF PlainList, AllOrders
<1> HIDE DEF z
<1>3. /\ u \in Seq(DOMAIN b.orders) /\ Len(u) = Len(s) - 1
      /\ \A a \in 1..Len(s) - 1 : a < n => u[a] = s[a]
      /\ \A a \in 1..Len(s) - 1 : a >= n => u[a] = s[a + 1]
  BY RemoveAtIs
<1>4. /\ v \in Seq(AllOrders) /\ Len(v) = Len(z) - 1
      /\ \A a \in 1..Len(z) - 1 : a < n => v[a] = z[a]
      /\ \A a \in 1..Len(z) - 1 : a >= n => v[a] = z[a + 1]
  BY <1>2, RemoveAtIs
<1> HIDE DEF u, v
<1>5. PlainList(b, u)
  BY <1>3, PlainsAre
<1>6. /\ w \in Seq(AllOrders) /\ Len(w) = Len(u)
      /\ \A m \in 1..Len(u) : w[m] = Plain(b.orders[u[m]])
  BY ONLY <1>5 DEF PlainList, AllOrders
<1> HIDE DEF w
<1>7. ASSUME NEW a \in 1..Len(s) - 1
      PROVE  v[a] = w[a]
  <2>1. a \in 1..Len(s) /\ a + 1 \in 1..Len(s) /\ a \in Int
    BY <1>2
  <2>2. CASE a < n
    BY <1>2, <1>3, <1>4, <1>6, <2>1, <2>2
  <2>3. CASE ~(a < n)
    BY <1>2, <1>3, <1>4, <1>6, <2>1, <2>3
  <2>4. QED
    BY <2>2, <2>3
<1>8. v = w
  BY ONLY <1>2, <1>3, <1>4, <1>6, <1>7, SeqEqual
<1>9. QED
  BY <1>8 DEF v, w, u, z

LEMMA PlainsWidened ==
  ASSUME NEW b, Typed(b), NEW s \in Seq(DOMAIN b.orders), NEW x \in 0..Len(s),
         NEW i \in DOMAIN b.orders
  PROVE  InsertAt(Plains(b, s), x + 1, Plain(b.orders[i])) = Plains(b, InsertAt(s, x + 1, i))
<1> DEFINE z == Plains(b, s)
           o == Plain(b.orders[i])
           u == InsertAt(s, x + 1, i)
           v == InsertAt(z, x + 1, o)
           w == Plains(b, u)
<1>1. PlainList(b, s)
  BY PlainsAre
<1>2. /\ z \in Seq(AllOrders) /\ Len(z) = Len(s) /\ Len(s) \in Nat
      /\ \A m \in 1..Len(s) : z[m] = Plain(b.orders[s[m]])
  BY ONLY <1>1 DEF PlainList, AllOrders
<1> HIDE DEF z
<1>3. o \in AllOrders
  <2>1. b.orders[i] \in SlotOrders
    BY SlotTypes
  <2>2. PlainOf(o, b.orders[i])
    BY <2>1, PlainIs
  <2>3. QED
    BY ONLY <2>2 DEF PlainOf, AllOrders
<1>4. Inserted(u, DOMAIN b.orders, s, x, i)
  BY InsertAtIs
<1>5. Inserted(v, AllOrders, z, x, o)
  <2> HIDE DEF o
  <2>1. QED
    BY <1>2, <1>3, InsertAtIs
<1> HIDE DEF u, v
<1>6. PlainList(b, u)
  BY <1>4, PlainsAre DEF Inserted
<1>7. /\ w \in Seq(AllOrders) /\ Len(w) = Len(u)
      /\ \A m \in 1..Len(u) : w[m] = Plain(b.orders[u[m]])
  BY ONLY <1>6 DEF PlainList, AllOrders
<1> HIDE DEF w
<1>8. ASSUME NEW a \in 1..Len(s) + 1
      PROVE  v[a] = w[a]
  <2>1. a \in Int /\ x \in Int /\ Len(u) = Len(s) + 1
    BY <1>2, <1>4 DEF Inserted
  <2>2. CASE a <= x
    <3>1. a \in 1..Len(s)
      BY <1>2, <2>2
    <3>2. QED
      BY <1>2, <1>4, <1>5, <1>7, <2>1, <2>2, <3>1 DEF Inserted
  <2>3. CASE a = x + 1
    BY Zenon, <1>2, <1>4, <1>5, <1>7, <2>1, <2>3 DEF Inserted
  <2>4. CASE a > x + 1
    <3>1. a - 1 \in 1..Len(s)
      BY <1>2, <2>4
    <3>2. u[a] = s[a - 1] /\ v[a] = z[a - 1]
      BY ONLY Zenon, <1>2, <1>4, <1>5, <1>8, <2>1, <2>4 DEF Inserted
    <3>3. z[a - 1] = Plain(b.orders[s[a - 1]])
      BY ONLY <1>2, <3>1
    <3>4. w[a] = Plain(b.orders[u[a]])
      BY ONLY <1>7, <1>8, <2>1
    <3>5. QED
      BY ONLY <3>2, <3>3, <3>4
  <2>5. QED
    BY <2>1, <2>2, <2>3, <2>4
<1>9. v = w
  <2>1. Len(v) = Len(s) + 1 /\ Len(w) = Len(s) + 1 /\ v \in Seq(AllOrders)
    BY ONLY <1>2, <1>4, <1>5, <1>7 DEF Inserted
  <2>2. QED
    BY ONLY <1>7, <1>8, <2>1, SeqEqual
<1>10. QED
  BY <1>9 DEF v, w, u, z, o

\* The ids of the index are those of the orders in the book.
Knowing(b, id) ==
  /\ P!Knows(BookView(b), id) <=> id \in DOMAIN b.index
  /\ id \in DOMAIN b.index => P!OrderOf(BookView(b), id) = Plain(b.orders[b.index[id]])

LEMMA PlainsSet ==
  ASSUME NEW b, NEW action, NEW s, Typed(b), Linked(b, action, s)
  PROVE  ToSet(Plains(b, s)) = {Plain(b.orders[j]) : j \in ToSet(s)}
<1>1. Len(s) \in Nat /\ DOMAIN s = 1..Len(s)
  BY SlotsOf DEF Linked
<1>2. DOMAIN Plains(b, s) = DOMAIN s
  BY <1>1 DEF Plains
<1>3. \A m \in DOMAIN s : Plains(b, s)[m] = Plain(b.orders[s[m]])
  BY <1>1 DEF Plains
<1>4. ToSet(Plains(b, s)) = {Plains(b, s)[m] : m \in DOMAIN s}
  BY <1>2 DEF ToSet
<1>5. ToSet(s) = {s[m] : m \in DOMAIN s}
  BY DEF ToSet
<1>6. QED
  BY ONLY <1>3, <1>4, <1>5

LEMMA RestingAre ==
  ASSUME NEW b, Settled(b)
  PROVE  P!RestingOrders(BookView(b)) = {Plain(b.orders[j]) : j \in DOMAIN b.orders}
<1>1. PICK s, t : Kept(b, "Ask", s, t)
  BY DEF Settled
<1>2. "Ask" \in Actions /\ Opposite("Ask") = "Bid"
  BY DEF Actions, Opposite
<1>3. Viewed(b, "Ask", s, t)
  BY <1>1, <1>2, ViewIs DEF Kept
<1>4. BookView(b)["Ask"] = Plains(b, s) /\ BookView(b)["Bid"] = Plains(b, t)
  BY ONLY <1>2, <1>3 DEF Viewed
<1>5. /\ Typed(b) /\ Linked(b, "Ask", s) /\ Linked(b, "Bid", t)
      /\ DOMAIN b.orders = ToSet(s) \cup ToSet(t)
  BY ONLY <1>1, <1>2 DEF Kept, Sound, SideSound
<1>6. /\ ToSet(Plains(b, s)) = {Plain(b.orders[j]) : j \in ToSet(s)}
      /\ ToSet(Plains(b, t)) = {Plain(b.orders[j]) : j \in ToSet(t)}
  BY <1>5, PlainsSet
<1>7. P!RestingOrders(BookView(b)) = ToSet(Plains(b, s)) \cup ToSet(Plains(b, t))
  <2>1. \A z : P!ToSet(z) = ToSet(z)
    BY Zenon DEF ToSet, P!ToSet
  <2>2. P!RestingOrders(BookView(b))
          = P!ToSet(BookView(b)["Ask"]) \cup P!ToSet(BookView(b)["Bid"])
    BY Zenon DEF P!RestingOrders
  <2>3. QED
    BY Zenon, <1>4, <2>1, <2>2
<1>8. QED
  BY ONLY <1>5, <1>6, <1>7

LEMMA KnowingIs ==
  ASSUME NEW b, Settled(b), NEW id
  PROVE  Knowing(b, id)
<1> DEFINE R == P!RestingOrders(BookView(b))
           i == b.index[id]
<1>1. R = {Plain(b.orders[j]) : j \in DOMAIN b.orders}
  BY RestingAre
<1> HIDE DEF R
<1>2. Typed(b) /\ Indexed(b)
  BY DEF Settled, Kept, Sound
<1>3. \A j : Plain(b.orders[j]).id = b.orders[j].id
  BY DEF Plain
<1>4. P!Knows(BookView(b), id) <=> \E o \in R : o.id = id
  BY DEF P!Knows, R
<1>5. P!Knows(BookView(b), id) <=> id \in DOMAIN b.index
  <2>1. ASSUME NEW o \in R, o.id = id
        PROVE  id \in DOMAIN b.index
    <3>1. PICK j \in DOMAIN b.orders : o = Plain(b.orders[j])
      BY <1>1
    <3>2. b.orders[j].id = id
      BY <1>3, <2>1, <3>1
    <3>3. QED
      BY <1>2, <3>2 DEF Indexed
  <2>2. ASSUME id \in DOMAIN b.index
        PROVE  \E o \in R : o.id = id
    <3>1. i \in DOMAIN b.orders /\ b.orders[i].id = id
      BY <1>2, <2>2 DEF Indexed
    <3>2. Plain(b.orders[i]) \in R /\ Plain(b.orders[i]).id = id
      BY <1>1, <1>3, <3>1
    <3>3. QED
      BY <3>2
  <2>3. QED
    BY <1>4, <2>1, <2>2
<1>6. ASSUME id \in DOMAIN b.index
      PROVE  P!OrderOf(BookView(b), id) = Plain(b.orders[i])
  <2>1. i \in DOMAIN b.orders /\ b.orders[i].id = id
    BY <1>2, <1>6 DEF Indexed
  <2>2. Plain(b.orders[i]) \in R /\ Plain(b.orders[i]).id = id
    BY <1>1, <1>3, <2>1
  <2>3. ASSUME NEW o \in R, o.id = id
        PROVE  o = Plain(b.orders[i])
    <3>1. PICK j \in DOMAIN b.orders : o = Plain(b.orders[j])
      BY <1>1
    <3>2. b.orders[j].id = id
      BY <1>3, <2>3, <3>1
    <3>3. j = i
      BY <1>2, <3>2 DEF Indexed
    <3>4. QED
      BY <3>1, <3>3
  <2>4. P!OrderOf(BookView(b), id) = CHOOSE o \in R : o.id = id
    BY DEF P!OrderOf, R
  <2>5. QED
    BY ONLY <2>2, <2>3, <2>4
<1>7. QED
  BY <1>5, <1>6 DEF Knowing

\* The order that a command names is the n-th of the list s.
Named(b, id, s, t, n) ==
  LET o == b.orders[b.index[id]]
  IN  /\ o.action \in Actions /\ Opposite(o.action) \in Actions
      /\ Kept(b, o.action, s, t)
      /\ n \in 1..Len(s) /\ s[n] = b.index[id] /\ b.index[id] \in DOMAIN b.orders
      /\ o.id = id /\ o \in SlotOrders /\ PlainOf(Plain(o), o)

LEMMA NamedIs ==
  ASSUME NEW b, Settled(b), NEW id \in DOMAIN b.index
  PROVE  \E s, t, n : Named(b, id, s, t, n)
<1> DEFINE i == b.index[id]
           o == b.orders[i]
<1>1. Typed(b) /\ Indexed(b)
  BY DEF Settled, Kept, Sound
<1>2. i \in DOMAIN b.orders /\ o.id = id
  BY <1>1 DEF Indexed
<1>3. o \in SlotOrders /\ o.action \in Actions
  BY <1>1, <1>2, SlotTypes
<1>4. Opposite(o.action) \in Actions /\ Opposite(o.action) # o.action
  BY <1>3, Sides
<1>5. PlainOf(Plain(o), o)
  BY <1>3, PlainIs
<1>6. PICK s, t : Kept(b, o.action, s, t)
  BY <1>3, SettledIs
<1>7. Linked(b, o.action, s) /\ Linked(b, Opposite(o.action), t)
  BY <1>6 DEF Kept, Sound, SideSound
<1>8. i \notin ToSet(t)
  <2>1. \A j \in ToSet(t) : b.orders[j].action = Opposite(o.action)
    BY <1>1, <1>7, SlotsOf
  <2>2. QED
    BY <2>1, <1>4
<1>9. i \in ToSet(s)
  BY <1>2, <1>6, <1>8 DEF Kept
<1>10. PICK n \in 1..Len(s) : s[n] = i
  BY <1>1, <1>7, <1>9, SlotsOf
<1>11. Named(b, id, s, t, n)
  BY ONLY <1>2, <1>3, <1>4, <1>5, <1>6, <1>10 DEF Named
<1>12. QED
  BY <1>11

\* The book whose sides are two lists.
LEMMA Becomes ==
  ASSUME NEW b, NEW action \in Actions, NEW s, NEW t, Kept(b, action, s, t),
         NEW book, DOMAIN book = Actions, book = [x \in Actions |-> book[x]],
         book[action] = Plains(b, s), book[Opposite(action)] = Plains(b, t)
  PROVE  Settled(b) /\ BookView(b) = book
<1>1. Viewed(b, action, s, t)
  BY ViewIs DEF Kept
<1>2. BookView(b) = book
  BY ONLY <1>1, DOMAIN book = Actions, book = [x \in Actions |-> book[x]],
          book[action] = Plains(b, s), book[Opposite(action)] = Plains(b, t) DEF Viewed
<1>3. QED
  BY <1>2, KeptSettles

\* The abstract list without the order that the n-th slot holds.
LEMMA WithoutIs ==
  ASSUME NEW b, NEW action \in Actions, NEW s, NEW t, Kept(b, action, s, t),
         NEW n \in 1..Len(s)
  PROVE  P!Without(Plains(b, s), b.orders[s[n]].id) = Plains(b, RemoveAt(s, n))
<1> DEFINE z == Plains(b, s)
           id == b.orders[s[n]].id
<1>1. Typed(b) /\ Indexed(b) /\ Linked(b, action, s) /\ s \in Seq(DOMAIN b.orders)
  BY DEF Kept, Sound, SideSound, Linked
<1>2. PlainList(b, s)
  BY <1>1, PlainsAre
<1>3. Len(z) = Len(s) /\ \A m \in 1..Len(s) : z[m] = Plain(b.orders[s[m]]) /\ s[m] \in DOMAIN b.orders
  BY ONLY <1>2 DEF PlainList
<1>4. \A m \in 1..Len(s) : z[m].id = b.orders[s[m]].id
  <2>1. \A o : Plain(o).id = o.id
    BY DEF Plain
  <2> HIDE DEF z
  <2>2. QED
    BY ONLY <1>3, <2>1
<1>5. \A m \in 1..Len(s) : z[m].id = id => m = n
  <2>1. ASSUME NEW m \in 1..Len(s), z[m].id = id
        PROVE  m = n
    <3>1. s[m] \in DOMAIN b.orders /\ s[n] \in DOMAIN b.orders
      BY <1>3
    <3>2. b.orders[s[m]].id = b.orders[s[n]].id
      BY <1>4, <2>1
    <3>3. s[m] = s[n]
      BY ONLY <1>1, <3>1, <3>2 DEF Indexed
    <3>4. QED
      BY ONLY <1>1, <3>3, n \in 1..Len(s), m \in 1..Len(s) DEF Linked
  <2>2. QED
    BY <2>1
<1> HIDE DEF z, id
<1>6. (CHOOSE m \in 1..Len(z) : z[m].id = id) = n
  <2>1. n \in 1..Len(z) /\ z[n].id = id
    BY <1>3, <1>4 DEF id
  <2>2. QED
    BY ONLY <1>3, <1>5, <2>1
<1>7. P!Without(z, id) = RemoveAt(z, n)
  <2>1. P!RemoveAt(z, n) = RemoveAt(z, n)
    BY Zenon DEF RemoveAt, P!RemoveAt
  <2>2. P!Without(z, id) = P!RemoveAt(z, CHOOSE m \in 1..Len(z) : z[m].id = id)
    BY Zenon DEF P!Without
  <2>3. QED
    BY ONLY Zenon, <1>6, <2>1, <2>2
<1>8. RemoveAt(z, n) = Plains(b, RemoveAt(s, n))
  BY <1>1, PlainsCut DEF z
<1>9. QED
  BY <1>7, <1>8 DEF z, id

\* The list without its n-th slot.
LEMMA CutIs ==
  ASSUME NEW b, NEW action \in Actions, NEW s, NEW t, Sound(b, action, s, t),
         NEW n \in 1..Len(s)
  PROVE  Cut(RemoveAt(s, n), s, n, DOMAIN b.orders)
<1>1. s \in Seq(DOMAIN b.orders) /\ \A m, k \in 1..Len(s) : s[m] = s[k] => m = k
  BY DEF Sound, SideSound, Linked
<1>2. QED
  BY <1>1, RemovedList

\* The order is taken out of the book.
TakenFrom(r, b, action, s, t, n) ==
  /\ Settled(r)
  /\ BookView(r) = [BookView(b) EXCEPT ![action] = P!Without(@, b.orders[s[n]].id)]

LEMMA OutOfBook ==
  ASSUME NEW b, NEW action \in Actions, NEW s, NEW t, Kept(b, action, s, t),
         NEW n \in 1..Len(s)
  PROVE  TakenFrom(Free(RemoveOrder(b, s[n]), s[n]), b, action, s, t, n)
<1> DEFINE i == s[n]
           r == Free(RemoveOrder(b, i), i)
           u == RemoveAt(s, n)
           id == b.orders[i].id
           book == [BookView(b) EXCEPT ![action] = P!Without(@, id)]
<1>1. Sound(b, action, s, t) /\ Typed(b) /\ DOMAIN b.orders = ToSet(s) \cup ToSet(t)
  BY DEF Kept, Sound
<1>2. Cut(u, s, n, DOMAIN b.orders)
  BY Zenon, <1>1, CutIs
<1>3. Expelled(r, b, action, s, t, n, u)
  BY Zenon, <1>1, <1>2, ExpelKeeps
<1> HIDE DEF r, u
<1>4. /\ Sound(r, action, u, t) /\ DOMAIN r.orders = DOMAIN b.orders \ {i}
      /\ \A j \in DOMAIN r.orders : Plain(r.orders[j]) = Plain(b.orders[j])
  BY ONLY <1>3 DEF Expelled
<1>5. ToSet(u) = ToSet(s) \ {i}
  BY ONLY <1>2 DEF Cut, Shorter
<1>6. i \notin ToSet(t)
  BY <1>1, Apart
<1>7. Kept(r, action, u, t)
  BY ONLY <1>1, <1>4, <1>5, <1>6 DEF Kept
<1>8. /\ Typed(r) /\ Linked(r, action, u) /\ Linked(r, Opposite(action), t)
      /\ Linked(b, Opposite(action), t) /\ Linked(b, action, s)
  BY ONLY <1>1, <1>4 DEF Sound, SideSound
<1>9. Plains(r, u) = Plains(b, u)
  <2>1. \A m \in 1..Len(u) : u[m] \in DOMAIN r.orders
    BY <1>8, SlotsOf
  <2>2. \A m \in 1..Len(u) : Plain(r.orders[u[m]]) = Plain(b.orders[u[m]])
    BY ONLY <1>4, <2>1
  <2>3. QED
    BY ONLY <2>2, SamePlains
<1>10. Plains(r, t) = Plains(b, t)
  <2>1. \A m \in 1..Len(t) : t[m] \in DOMAIN r.orders
    BY <1>8, SlotsOf
  <2>2. \A m \in 1..Len(t) : Plain(r.orders[t[m]]) = Plain(b.orders[t[m]])
    BY ONLY <1>4, <2>1
  <2>3. QED
    BY ONLY <2>2, SamePlains
<1>11. P!Without(Plains(b, s), id) = Plains(b, u)
  BY WithoutIs DEF u
<1>12. Viewed(b, action, s, t)
  BY <1>1, ViewIs
<1>13. /\ DOMAIN BookView(b) = Actions /\ BookView(b)[action] = Plains(b, s)
       /\ BookView(b)[Opposite(action)] = Plains(b, t)
  BY ONLY <1>12 DEF Viewed
<1> HIDE DEF id
<1>14. Opposite(action) \in Actions /\ Opposite(action) # action
  BY Sides
<1>15. /\ DOMAIN book = Actions /\ book = [x \in Actions |-> book[x]]
       /\ book[action] = P!Without(Plains(b, s), id)
       /\ book[Opposite(action)] = Plains(b, t)
  BY ONLY Zenon, <1>13, <1>14, action \in Actions
<1> HIDE DEF book
<1>16. Settled(r) /\ BookView(r) = book
  <2>1. book[action] = Plains(r, u) /\ book[Opposite(action)] = Plains(r, t)
    BY ONLY <1>9, <1>10, <1>11, <1>15
  <2>2. QED
    BY ONLY <1>7, <1>15, <2>1, action \in Actions, Becomes
<1>17. QED
  BY ONLY <1>16 DEF TakenFrom, book, r, id, i

-----------------------------------------------------------------------------
(* cancel_order, reduce_order *)

\* The answer r is the abstract answer a, and the book is in order again.
Answers(r, a) ==
  /\ Settled(r.direct) /\ BookView(r.direct) = a.book
  /\ r.events = a.events /\ r.code = a.code /\ r.action = a.action

LEMMA DoneAnswers ==
  ASSUME NEW b, Settled(b), NEW events, NEW action
  PROVE  Answers(Done(b, events, action), P!Done(BookView(b), events, action))
  BY DEF Answers, Done, P!Done

LEMMA RefusedAnswers ==
  ASSUME NEW b, Settled(b), NEW cmd, NEW code
  PROVE  Answers(Refused(b, cmd, code), P!Refused(BookView(b), cmd, code))
  BY DEF Answers, Refused, P!Refused

\* The order that a command names is the same, and so is its owner.
NamedSame(b, cmd) ==
  /\ P!Knows(BookView(b), cmd.id) <=> cmd.id \in DOMAIN b.index
  /\ P!Owns(BookView(b), cmd) <=> Owns(b, cmd)
  /\ cmd.id \in DOMAIN b.index =>
       P!OrderOf(BookView(b), cmd.id) = Plain(b.orders[b.index[cmd.id]])

LEMMA NamedSameIs ==
  ASSUME NEW b, Settled(b), NEW cmd
  PROVE  NamedSame(b, cmd)
<1>1. Knowing(b, cmd.id)
  BY KnowingIs
<1>2. \A o : Plain(o).uid = o.uid
  BY DEF Plain
<1>3. P!Owns(BookView(b), cmd) <=> P!Knows(BookView(b), cmd.id) /\ P!OrderOf(BookView(b), cmd.id).uid = cmd.uid
  BY DEF P!Owns
<1>4. Owns(b, cmd) <=> cmd.id \in DOMAIN b.index /\ b.orders[b.index[cmd.id]].uid = cmd.uid
  BY DEF Owns
<1>5. QED
  BY ONLY <1>1, <1>2, <1>3, <1>4 DEF Knowing, NamedSame

\* cancel_order
LEMMA CancelAnswers ==
  ASSUME NEW b, Settled(b), NEW cmd
  PROVE  Answers(CancelOrder(b, cmd), P!CancelOrder(BookView(b), cmd))
<1> DEFINE i == b.index[cmd.id]
           o == b.orders[i]
           p == P!OrderOf(BookView(b), cmd.id)
           r == Free(RemoveOrder(b, i), i)
           book == [BookView(b) EXCEPT ![p.action] = P!Without(@, p.id)]
<1>1. NamedSame(b, cmd)
  BY NamedSameIs
<1>2. CancelOrder(b, cmd)
        = IF ~Owns(b, cmd) THEN Refused(b, cmd, "MatchingUnknownOrderId")
          ELSE Done(r, <<Reject(Remaining(o), o.reserve)>>, o.action)
  BY Zenon DEF CancelOrder
<1>3. P!CancelOrder(BookView(b), cmd)
        = IF ~P!Owns(BookView(b), cmd)
          THEN P!Refused(BookView(b), cmd, "MatchingUnknownOrderId")
          ELSE P!Done(book, <<P!Reject(P!Remaining(p), p.reserve)>>, p.action)
  BY Zenon DEF P!CancelOrder
<1>4. CASE ~Owns(b, cmd)
  <2>1. /\ CancelOrder(b, cmd) = Refused(b, cmd, "MatchingUnknownOrderId")
        /\ P!CancelOrder(BookView(b), cmd)
             = P!Refused(BookView(b), cmd, "MatchingUnknownOrderId")
    BY ONLY <1>1, <1>2, <1>3, <1>4 DEF NamedSame
  <2>2. QED
    BY <2>1, RefusedAnswers
<1>5. CASE Owns(b, cmd)
  <2>1. cmd.id \in DOMAIN b.index
    BY <1>5 DEF Owns
  <2>2. PICK s, t, n : Named(b, cmd.id, s, t, n)
    BY <2>1, NamedIs
  <2>3. /\ o.action \in Actions /\ Kept(b, o.action, s, t) /\ n \in 1..Len(s) /\ s[n] = i
        /\ o.id = cmd.id /\ PlainOf(Plain(o), o)
    BY ONLY <2>2 DEF Named
  <2>4. p = Plain(o)
    BY ONLY <1>1, <2>1 DEF NamedSame
  <2>5. p.action = o.action /\ p.id = o.id /\ p.reserve = o.reserve /\ P!Remaining(p) = Remaining(o)
    BY ONLY Zenon, <2>3, <2>4, Translated DEF PlainOf, SameWords
  <2>6. P!Reject(P!Remaining(p), p.reserve) = Reject(Remaining(o), o.reserve)
    BY ONLY <2>5, Translated DEF SameWords
  <2> HIDE DEF p
  <2>7. TakenFrom(r, b, o.action, s, t, n)
    <3>1. TakenFrom(Free(RemoveOrder(b, s[n]), s[n]), b, o.action, s, t, n)
      BY ONLY <2>3, OutOfBook
    <3>2. QED
      BY ONLY <2>3, <3>1
  <2>8. Settled(r) /\ BookView(r) = book
    BY ONLY Zenon, <2>3, <2>5, <2>7 DEF TakenFrom
  <2> HIDE DEF r, book
  <2>9. /\ CancelOrder(b, cmd) = Done(r, <<Reject(Remaining(o), o.reserve)>>, o.action)
        /\ P!CancelOrder(BookView(b), cmd)
             = P!Done(BookView(r), <<Reject(Remaining(o), o.reserve)>>, o.action)
    BY ONLY Zenon, <1>1, <1>2, <1>3, <1>5, <2>5, <2>6, <2>8 DEF NamedSame
  <2>10. QED
    BY Zenon, <2>8, <2>9, DoneAnswers
<1>6. QED
  BY <1>4, <1>5

\* The abstract list with less of the order that the n-th slot holds.
Lessened(S, id, by) ==
  [m \in 1..Len(S) |-> IF S[m].id = id THEN [S[m] EXCEPT !.size = @ - by] ELSE S[m]]

ReducedIn(r, b, action, s, t, n, by) ==
  /\ Settled(r)
  /\ BookView(r) = [BookView(b) EXCEPT ![action] = Lessened(Plains(b, s), b.orders[s[n]].id, by)]

LEMMA ReducedInBook ==
  ASSUME NEW b, NEW action \in Actions, NEW s, NEW t, Kept(b, action, s, t),
         NEW n \in 1..Len(s), NEW by \in Int
  PROVE  ReducedIn(Shrink(b, s[n], by), b, action, s, t, n, by)
<1> DEFINE i == s[n]
           o == b.orders[i]
           r == Shrink(b, i, by)
           id == o.id
           S == Plains(b, s)
           R == Plains(r, s)
           book == [BookView(b) EXCEPT ![action] = Lessened(S, id, by)]
<1>1. /\ Sound(b, action, s, t) /\ Typed(b) /\ Indexed(b) /\ DOMAIN b.orders = ToSet(s) \cup ToSet(t)
      /\ Linked(b, action, s) /\ s \in Seq(DOMAIN b.orders)
  BY DEF Kept, Sound, SideSound, Linked
<1>2. LessIn(r, b, action, s, t, i, Shrunk(o, by))
  BY <1>1, FillKeeps
<1> HIDE DEF r
<1>3. /\ Sound(r, action, s, t) /\ DOMAIN r.orders = DOMAIN b.orders
      /\ \A j \in DOMAIN b.orders : r.orders[j] = IF j = i THEN Shrunk(o, by) ELSE b.orders[j]
  BY ONLY <1>2 DEF LessIn
<1>4. Kept(r, action, s, t)
  BY ONLY <1>1, <1>3 DEF Kept
<1>5. /\ Linked(b, Opposite(action), t) /\ i \notin ToSet(t) /\ i \in DOMAIN b.orders
  <2>1. Linked(b, Opposite(action), t)
    BY <1>1 DEF Sound, SideSound
  <2>2. i \notin ToSet(t)
    BY <1>1, Apart
  <2>3. i \in DOMAIN b.orders
    BY <1>1, SlotsOf
  <2>4. QED
    BY <2>1, <2>2, <2>3
<1>6. Plains(r, t) = Plains(b, t)
  <2>1. \A j \in ToSet(t) : r.orders[j] = b.orders[j]
    BY ONLY <1>1, <1>3, <1>5
  <2>2. QED
    BY <1>1, <1>5, <2>1, PlainsStay
<1>7. PlainList(b, s)
  BY <1>1, PlainsAre
<1>8. /\ Len(S) = Len(s) /\ Len(s) \in Nat
      /\ \A m \in 1..Len(s) : S[m] = Plain(b.orders[s[m]]) /\ s[m] \in DOMAIN b.orders
  BY ONLY <1>7 DEF PlainList
<1>9. R = [m \in 1..Len(s) |-> Plain(r.orders[s[m]])]
  BY DEF Plains
<1>10. \A x : Plain(x).id = x.id
  BY DEF Plain
<1>11. o \in SlotOrders
  BY <1>1, <1>5, SlotTypes
<1>12. Plain(Shrunk(o, by)) = Shrunk(Plain(o), by)
  BY <1>11, AmountsIs
<1> HIDE DEF S, R
<1>13. ASSUME NEW m \in 1..Len(s)
       PROVE  Plain(r.orders[s[m]]) = IF S[m].id = id THEN [S[m] EXCEPT !.size = @ - by] ELSE S[m]
  <2>1. S[m] = Plain(b.orders[s[m]]) /\ s[m] \in DOMAIN b.orders
    BY <1>8
  <2>2. S[m].id = b.orders[s[m]].id
    BY ONLY <1>10, <2>1
  <2>3. S[m].id = id <=> s[m] = i
    <3>1. S[m].id = id => s[m] = i
      <4>1. /\ b.orders[s[m]].id \in DOMAIN b.index /\ b.index[b.orders[s[m]].id] = s[m]
            /\ b.index[b.orders[i].id] = i
        BY ONLY <1>1, <1>5, <2>1 DEF Indexed
      <4>2. QED
        BY ONLY <2>2, <4>1
    <3>2. s[m] = i => S[m].id = id
      BY ONLY <2>2
    <3>3. QED
      BY <3>1, <3>2
  <2>4. CASE s[m] = i
    <3>1. Plain(r.orders[s[m]]) = Shrunk(Plain(o), by)
      BY ONLY <1>3, <1>12, <2>1, <2>4
    <3>2. Plain(o) = S[m]
      BY ONLY <2>1, <2>4
    <3>3. QED
      BY ONLY <2>3, <2>4, <3>1, <3>2 DEF Shrunk
  <2>5. CASE s[m] # i
    BY ONLY <1>3, <2>1, <2>3, <2>5
  <2>6. QED
    BY <2>4, <2>5
<1>14. R = Lessened(S, id, by)
  BY ONLY <1>8, <1>9, <1>13 DEF Lessened
<1>15. Viewed(b, action, s, t)
  BY <1>1, ViewIs
<1>16. /\ DOMAIN BookView(b) = Actions /\ BookView(b)[Opposite(action)] = Plains(b, t)
  BY ONLY <1>15 DEF Viewed
<1>17. Opposite(action) \in Actions /\ Opposite(action) # action
  BY Sides
<1>18. /\ DOMAIN book = Actions /\ book = [x \in Actions |-> book[x]]
       /\ book[action] = Lessened(S, id, by) /\ book[Opposite(action)] = Plains(b, t)
  BY ONLY Zenon, <1>16, <1>17, action \in Actions
<1> HIDE DEF book, id
<1>19. Settled(r) /\ BookView(r) = book
  <2>1. book[action] = Plains(r, s) /\ book[Opposite(action)] = Plains(r, t)
    BY ONLY <1>6, <1>14, <1>18 DEF R
  <2>2. DOMAIN book = Actions /\ book = [x \in Actions |-> book[x]]
    BY ONLY Zenon, <1>18
  <2>3. QED
    BY ONLY <1>4, <2>1, <2>2, action \in Actions, Becomes
<1>20. QED
  BY ONLY <1>19 DEF ReducedIn, book, r, id, i, o, S

\* reduce_order
LEMMA ReduceAnswers ==
  ASSUME NEW b, Settled(b), NEW cmd, cmd.size \in Int
  PROVE  Answers(ReduceOrder(b, cmd), P!ReduceOrder(BookView(b), cmd))
<1> DEFINE i == b.index[cmd.id]
           o == b.orders[i]
           p == P!OrderOf(BookView(b), cmd.id)
           by == IF Remaining(o) < cmd.size THEN Remaining(o) ELSE cmd.size
           bq == IF P!Remaining(p) < cmd.size THEN P!Remaining(p) ELSE cmd.size
           r == IF by = Remaining(o) THEN Free(RemoveOrder(b, i), i) ELSE Shrink(b, i, by)
           S == BookView(b)[p.action]
           book == [BookView(b) EXCEPT ![p.action] =
                      IF bq = P!Remaining(p) THEN P!Without(@, p.id) ELSE Lessened(S, p.id, bq)]
<1>1. NamedSame(b, cmd)
  BY NamedSameIs
<1>2. ReduceOrder(b, cmd)
        = IF cmd.id \notin DOMAIN b.index THEN Refused(b, cmd, "MatchingUnknownOrderId")
          ELSE IF cmd.size <= 0 THEN Refused(b, cmd, "MatchingInvalidOrderSize")
          ELSE IF ~Owns(b, cmd) THEN Refused(b, cmd, "MatchingUnknownOrderId")
          ELSE Done(r, <<Reject(by, o.reserve)>>, o.action)
  BY Zenon DEF ReduceOrder
<1>3. P!ReduceOrder(BookView(b), cmd)
        = IF ~P!Knows(BookView(b), cmd.id)
          THEN P!Refused(BookView(b), cmd, "MatchingUnknownOrderId")
          ELSE IF cmd.size <= 0 THEN P!Refused(BookView(b), cmd, "MatchingInvalidOrderSize")
          ELSE IF ~P!Owns(BookView(b), cmd)
          THEN P!Refused(BookView(b), cmd, "MatchingUnknownOrderId")
          ELSE P!Done(book, <<P!Reject(bq, p.reserve)>>, p.action)
  BY Zenon DEF P!ReduceOrder, Lessened
<1>4. CASE cmd.id \notin DOMAIN b.index
  <2>1. /\ ReduceOrder(b, cmd) = Refused(b, cmd, "MatchingUnknownOrderId")
        /\ P!ReduceOrder(BookView(b), cmd)
             = P!Refused(BookView(b), cmd, "MatchingUnknownOrderId")
    BY ONLY <1>1, <1>2, <1>3, <1>4 DEF NamedSame
  <2>2. QED
    BY <2>1, RefusedAnswers
<1>5. CASE cmd.id \in DOMAIN b.index /\ cmd.size <= 0
  <2>1. /\ ReduceOrder(b, cmd) = Refused(b, cmd, "MatchingInvalidOrderSize")
        /\ P!ReduceOrder(BookView(b), cmd)
             = P!Refused(BookView(b), cmd, "MatchingInvalidOrderSize")
    BY ONLY <1>1, <1>2, <1>3, <1>5 DEF NamedSame
  <2>2. QED
    BY <2>1, RefusedAnswers
<1>6. CASE cmd.id \in DOMAIN b.index /\ ~(cmd.size <= 0) /\ ~Owns(b, cmd)
  <2>1. /\ ReduceOrder(b, cmd) = Refused(b, cmd, "MatchingUnknownOrderId")
        /\ P!ReduceOrder(BookView(b), cmd)
             = P!Refused(BookView(b), cmd, "MatchingUnknownOrderId")
    BY ONLY <1>1, <1>2, <1>3, <1>6 DEF NamedSame
  <2>2. QED
    BY <2>1, RefusedAnswers
<1>7. CASE cmd.id \in DOMAIN b.index /\ ~(cmd.size <= 0) /\ Owns(b, cmd)
  <2>1. PICK s, t, n : Named(b, cmd.id, s, t, n)
    BY <1>7, NamedIs
  <2>2. /\ o.action \in Actions /\ Kept(b, o.action, s, t) /\ n \in 1..Len(s) /\ s[n] = i
        /\ o.id = cmd.id /\ PlainOf(Plain(o), o) /\ i \in DOMAIN b.orders /\ Typed(b)
    BY ONLY <2>1 DEF Named, Kept, Sound
  <2>3. p = Plain(o)
    BY ONLY <1>1, <1>7 DEF NamedSame
  <2>4. p.action = o.action /\ p.id = o.id /\ p.reserve = o.reserve /\ P!Remaining(p) = Remaining(o)
    BY ONLY <2>2, <2>3, Translated DEF PlainOf, SameWords
  <2> HIDE DEF p
  <2>5. bq = by
    BY ONLY <2>4
  <2>6. by \in Int
    BY <2>2, SlotTypes
  <2> HIDE DEF by, bq
  <2>7. P!Reject(bq, p.reserve) = Reject(by, o.reserve)
    BY ONLY <2>4, <2>5, Translated DEF SameWords
  <2>8. S = Plains(b, s)
    <3>1. Viewed(b, o.action, s, t)
      BY <2>2, ViewIs DEF Kept
    <3>2. QED
      BY ONLY Zenon, <2>4, <3>1 DEF Viewed
  <2> HIDE DEF S
  <2>9. Settled(r) /\ BookView(r) = book
    <3>1. CASE by = Remaining(o)
      <4>1. TakenFrom(Free(RemoveOrder(b, s[n]), s[n]), b, o.action, s, t, n)
        BY ONLY <2>2, OutOfBook
      <4>2. r = Free(RemoveOrder(b, s[n]), s[n])
        BY ONLY <2>2, <3>1
      <4>3. book = [BookView(b) EXCEPT ![o.action] = P!Without(@, b.orders[s[n]].id)]
        BY ONLY <2>2, <2>4, <2>5, <3>1
      <4>4. QED
        BY ONLY <4>1, <4>2, <4>3 DEF TakenFrom
    <3>2. CASE by # Remaining(o)
      <4>1. ReducedIn(Shrink(b, s[n], by), b, o.action, s, t, n, by)
        BY ONLY <2>2, <2>6, ReducedInBook
      <4>2. r = Shrink(b, s[n], by)
        BY ONLY <2>2, <3>2
      <4>3. book = [BookView(b) EXCEPT ![o.action] = Lessened(Plains(b, s), b.orders[s[n]].id, by)]
        BY ONLY <2>2, <2>4, <2>5, <2>8, <3>2
      <4>4. QED
        BY ONLY <4>1, <4>2, <4>3 DEF ReducedIn
    <3>3. QED
      BY <3>1, <3>2
  <2> HIDE DEF r, book
  <2>10. /\ ReduceOrder(b, cmd) = Done(r, <<Reject(by, o.reserve)>>, o.action)
         /\ P!ReduceOrder(BookView(b), cmd)
              = P!Done(BookView(r), <<Reject(by, o.reserve)>>, o.action)
    BY ONLY <1>1, <1>2, <1>3, <1>7, <2>4, <2>7, <2>9 DEF NamedSame
  <2>11. QED
    BY <2>9, <2>10, DoneAnswers
<1>8. QED
  BY <1>4, <1>5, <1>6, <1>7

-----------------------------------------------------------------------------
(* place_gtc, place_ioc, place_fok_budget, move_order *)

\* What matching makes of the book: the list s is u then, the rest is as it was.
Met(m, b, s, t, u, taker, stp) ==
  LET side == Opposite(taker.action)
  IN  /\ Sound(m.b, side, u, t) /\ Elsewhere(m.b, b, s, u)
      /\ ReadAs(P!TryMatch(Plains(b, s), taker, stp), Plains(m.b, u), m.events, m.filled,
                m.aborted)
      /\ m.filled \in 0..taker.size /\ taker.size \in Nat
      /\ Plains(m.b, t) = Plains(b, t)
      /\ \A j \in DOMAIN m.b.orders :
           \E k \in DOMAIN b.orders : m.b.orders[j].id = b.orders[k].id

LEMMA MetIs ==
  ASSUME NEW b, NEW s, NEW t, NEW taker, NEW stp, Entering(b, s, t, taker, stp)
  PROVE  \E u : Met(TryMatch(b, taker, stp), b, s, t, u, taker, stp)
<1> DEFINE m == TryMatch(b, taker, stp)
           side == Opposite(taker.action)
           S == Plains(b, s)
           a == P!TryMatch(S, taker, stp)
<1>1. PICK u : Ended(m, u, b, s, t, taker, stp)
  BY TryMatchEnds
<1>2. a = Whole(b, s, taker, stp)
  BY Zenon DEF P!TryMatch, Whole, At
<1>3. P!Setting(S, taker, stp, Users, OrderIds)
  BY DEF Entering
<1>4. P!Outcome(a, S, taker, stp, Users, OrderIds, 1, taker.size)
  BY <1>3, P!TryMatchOutcome
<1> HIDE DEF m, a
<1>5. /\ m.filled \in 0..taker.size /\ Sound(m.b, side, u, t) /\ Elsewhere(m.b, b, s, u)
      /\ ReadAs(a, Plains(m.b, u), m.events, m.filled, m.aborted)
  BY ONLY <1>1, <1>2 DEF Ended, Running, side
<1>6. taker.size \in Nat
  BY ONLY <1>3 DEF P!Setting
<1>7. side \in Actions /\ Sound(b, side, s, t)
  BY Sides DEF Entering
<1>8. /\ Typed(b) /\ Linked(b, side, s) /\ Linked(b, Opposite(side), t)
      /\ Typed(m.b) /\ Linked(m.b, side, u)
  BY ONLY <1>5, <1>7 DEF Sound, SideSound
<1>9. /\ ToSet(s) \cap ToSet(t) = {} /\ ToSet(t) \subseteq DOMAIN b.orders
  BY Zenon, <1>7, Apart
<1>10. \A j \in DOMAIN b.orders \ ToSet(s) : Plain(m.b.orders[j]) = Plain(b.orders[j])
  BY ONLY <1>5 DEF Elsewhere
<1>11. Plains(m.b, t) = Plains(b, t)
  <2>1. \A j \in ToSet(t) : Plain(m.b.orders[j]) = Plain(b.orders[j])
    BY ONLY <1>9, <1>10
  <2>2. QED
    BY <1>8, <2>1, PlainsStay
<1>12. \A x : Plain(x).id = x.id
  BY DEF Plain
<1>13. ASSUME NEW j \in DOMAIN m.b.orders
       PROVE  \E k \in DOMAIN b.orders : m.b.orders[j].id = b.orders[k].id
  <2>1. CASE j \notin ToSet(u)
    <3>1. j \in DOMAIN b.orders \ ToSet(s)
      BY ONLY <1>5, <1>13, <2>1 DEF Elsewhere
    <3>2. m.b.orders[j].id = b.orders[j].id
      BY ONLY <1>10, <1>12, <3>1
    <3>3. QED
      BY <3>1, <3>2
  <2>2. CASE j \in ToSet(u)
    <3>1. PICK c \in 1..Len(u) : u[c] = j
      BY <1>8, <2>2, SlotsOf
    <3>2. PlainList(m.b, u) /\ PlainList(b, s)
      BY <1>8, PlainsAre DEF Linked
    <3>3. /\ Len(Plains(m.b, u)) = Len(u) /\ Plains(m.b, u)[c] = Plain(m.b.orders[j])
          /\ Len(S) = Len(s)
          /\ \A d \in 1..Len(s) : S[d] = Plain(b.orders[s[d]]) /\ s[d] \in DOMAIN b.orders
      BY ONLY <3>1, <3>2 DEF PlainList
    <3>4. a.side = Plains(m.b, u)
      BY ONLY <1>5 DEF ReadAs
    <3> HIDE DEF S
    <3>5. PICK d \in 1..Len(S) : P!LeftOf(a.side[c], S[d])
      <4>1. P!Remains(a.side, S, 1)
        BY ONLY <1>4 DEF P!Outcome
      <4>2. c \in 1..Len(a.side)
        BY ONLY <3>1, <3>3, <3>4
      <4>3. QED
        BY ONLY <4>1, <4>2 DEF P!Remains
    <3>6. a.side[c].id = S[d].id
      BY ONLY <3>5 DEF P!LeftOf
    <3>7. m.b.orders[j].id = b.orders[s[d]].id /\ s[d] \in DOMAIN b.orders
      BY ONLY <1>12, <3>3, <3>4, <3>5, <3>6
    <3>8. QED
      BY <3>7
  <2>3. QED
    BY <2>1, <2>2
<1>14. Met(m, b, s, t, u, taker, stp)
  BY ONLY <1>5, <1>6, <1>11, <1>13 DEF Met, side, a, S
<1>15. QED
  BY <1>14 DEF m

\* An order that is in no list comes to rest.
Resting(c, action, own, opp, i) ==
  /\ Sound(c, action, own, opp) /\ action \in Actions
  /\ i \in DOMAIN c.orders /\ i \notin ToSet(own) /\ i \notin ToSet(opp)
  /\ DOMAIN c.orders = ToSet(own) \cup ToSet(opp) \cup {i}
  /\ c.orders[i].action = action
  /\ P!SideOK(Plains(c, own), action, Users, OrderIds)

\* It is in its place now.
Rested(r, c, action, own, opp, i) ==
  /\ Settled(r)
  /\ BookView(r) = [x \in Actions |-> IF x = action
                                      THEN P!Insert(Plains(c, own), Plain(c.orders[i]))
                                      ELSE Plains(c, opp)]

LEMMA RestsInBook ==
  ASSUME NEW c, NEW action, NEW own, NEW opp, NEW i, Resting(c, action, own, opp, i)
  PROVE  Rested(InsertOrder(c, i), c, action, own, opp, i)
<1> DEFINE S == Plains(c, own)
           o == c.orders[i]
           p == o.price
           ahead == {m \in 1..Len(S) : ~P!Ahead(action, p, S[m].price)}
           x == Cardinality(ahead)
           u == InsertAt(own, x + 1, i)
           r == InsertOrder(c, i)
           book == [y \in Actions |-> IF y = action THEN P!Insert(S, Plain(o))
                                      ELSE Plains(c, opp)]
<1>1. /\ Sound(c, action, own, opp) /\ action \in Actions /\ Typed(c)
      /\ Linked(c, action, own) /\ own \in Seq(DOMAIN c.orders)
      /\ \A m, n \in 1..Len(own) : own[m] = own[n] => m = n
      /\ i \in DOMAIN c.orders /\ i \notin ToSet(own) /\ i \notin ToSet(opp)
      /\ o.action = action /\ DOMAIN c.orders = ToSet(own) \cup ToSet(opp) \cup {i}
      /\ P!SideOK(S, action, Users, OrderIds)
  BY DEF Resting, Sound, SideSound, Linked
<1>2. p \in Int /\ o \in SlotOrders
  BY <1>1, SlotTypes
<1>3. PlainList(c, own)
  BY <1>1, PlainsAre
<1>4. /\ Len(S) = Len(own) /\ Len(own) \in Nat
      /\ \A m \in 1..Len(own) : S[m] = Plain(c.orders[own[m]])
                               /\ PlainOf(S[m], c.orders[own[m]])
  BY ONLY <1>3 DEF PlainList
<1>5. PlainOf(Plain(o), o)
  BY <1>2, PlainIs
<1> HIDE DEF S
<1>6. x \in 0..Len(own) /\ ahead = 1..x
  <2>1. action \in P!Actions
    BY <1>1, Translated DEF SameWords
  <2>2. /\ P!Cardinality(ahead) \in 0..Len(S) /\ ahead = 1..P!Cardinality(ahead)
    <3>1. P!SideOK(S, action, Users, OrderIds)
      BY ONLY <1>1
    <3>2. p \in Int
      BY ONLY <1>2
    <3>3. QED
      BY ONLY <2>1, <3>1, <3>2, P!PlaceInSide
  <2>3. P!Cardinality(ahead) = x
    BY Zenon DEF Cardinality, P!Cardinality
  <2>4. QED
    BY ONLY <1>4, <2>2, <2>3
<1>7. \A m \in 1..Len(own) : m <= x <=> ~Ahead(action, p, c.orders[own[m]].price)
  <2>1. ASSUME NEW m \in 1..Len(own)
        PROVE  m <= x <=> ~Ahead(action, p, c.orders[own[m]].price)
    <3>1. S[m].price = c.orders[own[m]].price
      BY ONLY <1>4, m \in 1..Len(own) DEF PlainOf
    <3>2. m \in ahead <=> ~Ahead(action, p, c.orders[own[m]].price)
      BY ONLY <1>4, <3>1, m \in 1..Len(own), Translated DEF SameWords
    <3> HIDE DEF x, ahead
    <3>3. m \in ahead <=> m <= x
      BY ONLY <1>4, <1>6, m \in 1..Len(own)
    <3>4. QED
      BY <3>2, <3>3
  <2>2. QED
    BY <2>1
<1> HIDE DEF x, ahead
<1>8. Awaits(c, action, own, opp, i, x)
  BY ONLY <1>1, <1>6, <1>7 DEF Awaits, p, o
<1>9. Widened(u, own, x, i, DOMAIN c.orders)
  BY <1>1, <1>6, InsertedList
<1> HIDE DEF u, r
<1>10. PutIn(r, c, action, opp, u)
  BY <1>8, <1>9, InsertKeeps DEF r
<1>11. /\ Sound(r, action, u, opp) /\ DOMAIN r.orders = DOMAIN c.orders
       /\ \A j \in DOMAIN c.orders : Plain(r.orders[j]) = Plain(c.orders[j])
  BY ONLY <1>10 DEF PutIn
<1>12. ToSet(u) = ToSet(own) \cup {i}
  BY ONLY <1>9 DEF Widened
<1>13. Kept(r, action, u, opp)
  BY ONLY <1>1, <1>11, <1>12 DEF Kept
<1>14. Plains(r, u) = Plains(c, u) /\ Plains(r, opp) = Plains(c, opp)
  <2>1. /\ Typed(r) /\ Linked(r, action, u) /\ Linked(r, Opposite(action), opp)
    BY <1>11 DEF Sound, SideSound
  <2>2. /\ \A m \in 1..Len(u) : u[m] \in DOMAIN r.orders
        /\ \A m \in 1..Len(opp) : opp[m] \in DOMAIN r.orders
    BY <2>1, SlotsOf
  <2>3. /\ \A m \in 1..Len(u) : Plain(r.orders[u[m]]) = Plain(c.orders[u[m]])
        /\ \A m \in 1..Len(opp) : Plain(r.orders[opp[m]]) = Plain(c.orders[opp[m]])
    BY ONLY <1>11, <2>2
  <2>4. QED
    BY <2>3, SamePlains
<1>15. P!Insert(S, Plain(o)) = Plains(c, u)
  <2>1. \A z, k, e : P!InsertAt(z, k, e) = InsertAt(z, k, e)
    BY Zenon DEF InsertAt, P!InsertAt
  <2>2. Plain(o).action = action /\ Plain(o).price = p
    BY ONLY <1>1, <1>5 DEF PlainOf
  <2>3. P!Insert(S, Plain(o))
          = P!InsertAt(S, P!Cardinality({m \in 1..Len(S) :
                             ~P!Ahead(Plain(o).action, Plain(o).price, S[m].price)}) + 1,
                       Plain(o))
    BY Zenon DEF P!Insert
  <2>7. \A z : P!Cardinality(z) = Cardinality(z)
    BY Zenon DEF Cardinality, P!Cardinality
  <2>4. P!Insert(S, Plain(o)) = InsertAt(S, x + 1, Plain(o))
    BY ONLY <2>1, <2>2, <2>3, <2>7 DEF x, ahead
  <2>5. InsertAt(S, x + 1, Plain(o)) = Plains(c, InsertAt(own, x + 1, i))
    BY ONLY <1>1, <1>6, PlainsWidened DEF S
  <2>6. QED
    BY ONLY <2>4, <2>5 DEF u
<1>16. Opposite(action) \in Actions /\ Opposite(action) # action
  BY <1>1, Sides
<1>17. /\ DOMAIN book = Actions /\ book = [y \in Actions |-> book[y]]
       /\ book[action] = P!Insert(S, Plain(o)) /\ book[Opposite(action)] = Plains(c, opp)
  BY ONLY <1>1, <1>16
<1> HIDE DEF book
<1>18. Settled(r) /\ BookView(r) = book
  <2>1. book[action] = Plains(r, u) /\ book[Opposite(action)] = Plains(r, opp)
    BY ONLY <1>14, <1>15, <1>17
  <2>2. QED
    BY ONLY <1>1, <1>13, <1>17, <2>1, Becomes
<1>19. QED
  BY ONLY <1>18 DEF Rested, book, r, S, o

\* An order that meets the other side of a settled book.
Placing(b, s, t, taker, stp) ==
  /\ taker.action \in Actions /\ Kept(b, Opposite(taker.action), s, t)
  /\ P!BookOK(BookView(b), Users, OrderIds)
  /\ taker \in AllOrders /\ taker.size \in Nat /\ taker.price \in Nat
  /\ taker.id \notin DOMAIN b.index /\ stp \in P!Modes

\* The abstract book's side and what the walk makes of it.
Facing(b, taker) == BookView(b)[Opposite(taker.action)]

LEMMA PlacingIs ==
  ASSUME NEW b, Settled(b), P!BookOK(BookView(b), Users, OrderIds),
         NEW taker \in AllOrders, taker.size \in Nat, taker.price \in Nat,
         taker.id \notin DOMAIN b.index, NEW stp \in P!Modes
  PROVE  \E s, t : Placing(b, s, t, taker, stp)
<1>1. taker.action \in Actions
  BY Translated DEF AllOrders, P!OrdersOf, SameWords
<1>2. Opposite(taker.action) \in Actions
  BY <1>1, Sides
<1>3. PICK s, t : Kept(b, Opposite(taker.action), s, t)
  BY <1>2, SettledIs
<1>4. QED
  BY <1>1, <1>3 DEF Placing

\* Both sides of the book and the walk's way into it.
Placed(b, s, t, taker, stp) ==
  LET action == taker.action
  IN  /\ action \in Actions /\ Opposite(action) \in Actions /\ Opposite(action) # action
      /\ Opposite(Opposite(action)) = action
      /\ Facing(b, taker) = Plains(b, s) /\ BookView(b)[action] = Plains(b, t)
      /\ P!SideOK(Plains(b, t), action, Users, OrderIds)
      /\ Entering(b, s, t, taker, stp)

LEMMA PlacedIs ==
  ASSUME NEW b, NEW s, NEW t, NEW taker, NEW stp, Placing(b, s, t, taker, stp)
  PROVE  Placed(b, s, t, taker, stp)
<1> DEFINE action == taker.action
           side == Opposite(action)
<1>1. /\ action \in Actions /\ Sound(b, side, s, t) /\ P!BookOK(BookView(b), Users, OrderIds)
      /\ taker \in AllOrders /\ taker.size \in Nat /\ stp \in P!Modes
  BY DEF Placing, Kept
<1>2. side \in Actions /\ side # action /\ Opposite(side) = action
  BY <1>1, Sides
<1>3. Viewed(b, side, s, t)
  BY <1>1, <1>2, ViewIs
<1>4. BookView(b)[side] = Plains(b, s) /\ BookView(b)[action] = Plains(b, t)
  BY ONLY <1>2, <1>3 DEF Viewed
<1>5. \A x \in Actions : P!SideOK(BookView(b)[x], x, Users, OrderIds)
  BY ONLY <1>1, Translated DEF P!BookOK, SameWords
<1>6. /\ P!SideOK(Plains(b, s), side, Users, OrderIds)
      /\ P!SideOK(Plains(b, t), action, Users, OrderIds)
  BY ONLY <1>1, <1>2, <1>4, <1>5
<1>7. P!Setting(Plains(b, s), taker, stp, Users, OrderIds)
  BY ONLY <1>1, <1>6, Translated DEF P!Setting, SameWords, AllOrders
<1>8. Entering(b, s, t, taker, stp)
  BY ONLY <1>1, <1>7 DEF Entering
<1>9. QED
  BY ONLY <1>1, <1>2, <1>4, <1>6, <1>8 DEF Placed, Facing

\* The taker has matched: m is what try_match answers, a what the abstract walk does.
TookFrom(m, a, b, s, t, u, taker) ==
  /\ Kept(m.b, Opposite(taker.action), u, t)
  /\ Plains(m.b, u) = a.side /\ Plains(m.b, t) = Plains(b, t)
  /\ m.events = a.events /\ m.filled = a.filled /\ m.aborted = a.aborted
  /\ m.filled \in 0..taker.size /\ taker.size \in Nat
  /\ taker.id \notin DOMAIN m.b.index

LEMMA Takes ==
  ASSUME NEW b, NEW s, NEW t, NEW taker, NEW stp, Placing(b, s, t, taker, stp)
  PROVE  \E u : TookFrom(TryMatch(b, taker, stp), P!TryMatch(Facing(b, taker), taker, stp),
                         b, s, t, u, taker)
<1> DEFINE m == TryMatch(b, taker, stp)
           a == P!TryMatch(Facing(b, taker), taker, stp)
           side == Opposite(taker.action)
<1>1. Placed(b, s, t, taker, stp)
  BY PlacedIs
<1>2. Facing(b, taker) = Plains(b, s) /\ Entering(b, s, t, taker, stp) /\ side \in Actions
  BY ONLY <1>1 DEF Placed
<1>3. /\ DOMAIN b.orders = ToSet(s) \cup ToSet(t) /\ Indexed(b) /\ Sound(b, side, s, t)
      /\ taker.id \notin DOMAIN b.index
  BY DEF Placing, Kept, Sound
<1>4. PICK u : Met(m, b, s, t, u, taker, stp)
  BY <1>2, MetIs
<1> HIDE DEF m
<1>5. /\ Sound(m.b, side, u, t) /\ Elsewhere(m.b, b, s, u)
      /\ ReadAs(a, Plains(m.b, u), m.events, m.filled, m.aborted)
      /\ m.filled \in 0..taker.size /\ taker.size \in Nat
      /\ Plains(m.b, t) = Plains(b, t)
      /\ \A j \in DOMAIN m.b.orders :
           \E k \in DOMAIN b.orders : m.b.orders[j].id = b.orders[k].id
  BY ONLY <1>2, <1>4 DEF Met
<1> HIDE DEF a
<1>6. ToSet(s) \cap ToSet(t) = {}
  BY Zenon, <1>2, <1>3, Apart
<1>7. DOMAIN m.b.orders = ToSet(u) \cup ToSet(t)
  BY ONLY <1>3, <1>5, <1>6 DEF Elsewhere
<1>8. Kept(m.b, side, u, t)
  BY ONLY <1>5, <1>7 DEF Kept
<1>9. taker.id \notin DOMAIN m.b.index
  <2>1. SUFFICES ASSUME taker.id \in DOMAIN m.b.index
                 PROVE  FALSE
    OBVIOUS
  <2>2. Indexed(m.b)
    BY <1>5 DEF Sound
  <2>3. PICK j \in DOMAIN m.b.orders : m.b.orders[j].id = taker.id
    BY <2>1, <2>2 DEF Indexed
  <2>4. PICK k \in DOMAIN b.orders : b.orders[k].id = taker.id
    BY <1>5, <2>3
  <2>5. QED
    BY <1>3, <2>4 DEF Indexed
<1>10. TookFrom(m, a, b, s, t, u, taker)
  BY ONLY <1>5, <1>8, <1>9 DEF TookFrom, ReadAs
<1>11. QED
  BY <1>10 DEF m, a

\* The book when the taker does not come to rest in it.
LEMMA TookSettles ==
  ASSUME NEW b, NEW s, NEW t, NEW taker, NEW stp, Placing(b, s, t, taker, stp),
         NEW m, NEW a, NEW u, TookFrom(m, a, b, s, t, u, taker)
  PROVE  /\ Settled(m.b)
         /\ BookView(m.b) = P!Matched(taker, a, BookView(b)[taker.action])
<1> DEFINE action == taker.action
           own == BookView(b)[action]
           book == P!Matched(taker, a, own)
<1>1. Placed(b, s, t, taker, stp)
  BY PlacedIs
<1>2. /\ action \in Actions /\ Opposite(action) \in Actions /\ Opposite(action) # action
      /\ Opposite(Opposite(action)) = action /\ own = Plains(b, t)
  BY ONLY <1>1 DEF Placed
<1>3. /\ Kept(m.b, Opposite(action), u, t)
      /\ Plains(m.b, u) = a.side /\ Plains(m.b, t) = Plains(b, t)
  BY DEF TookFrom
<1> HIDE DEF own
<1>4. book = [x \in Actions |-> IF x = action THEN own ELSE a.side]
  BY ONLY Translated DEF SameWords, P!Matched
<1>5. /\ DOMAIN book = Actions /\ book = [x \in Actions |-> book[x]]
      /\ book[Opposite(action)] = a.side /\ book[action] = own
  BY ONLY <1>2, <1>4
<1> HIDE DEF book
<1>6. /\ book[Opposite(action)] = Plains(m.b, u)
      /\ book[Opposite(Opposite(action))] = Plains(m.b, t)
  BY ONLY <1>2, <1>3, <1>5
<1>7. Settled(m.b) /\ BookView(m.b) = book
  BY ONLY <1>2, <1>3, <1>5, <1>6, Becomes
<1>8. QED
  BY <1>7 DEF book, own

\* A taker gets a slot, in no list yet.
WithOrder(b, taker, filled) ==
  SetOrdersIndex(b, With(b.orders, Vacant(b.orders), Unlinked(taker, filled)),
                 With(b.index, taker.id, Vacant(b.orders)))

\* A plain order with another fill.
Partly(taker, filled) ==
  [taker EXCEPT !.filled = filled]

Slotted(r, b, taker, filled, s, t) ==
  LET i == Vacant(b.orders)
  IN  /\ Floats(r, b, i, s, t)
      /\ i \notin DOMAIN b.orders
      /\ r.orders[i].action = taker.action
      /\ Plain(r.orders[i]) = Partly(taker, filled)

LEMMA UnlinkedIs ==
  ASSUME NEW taker \in AllOrders, taker.price \in Nat, NEW filled \in Int
  PROVE  /\ Unlinked(taker, filled) \in SlotOrders
         /\ Plain(Unlinked(taker, filled)) = Partly(taker, filled)
         /\ Unlinked(taker, filled).action = taker.action
         /\ Unlinked(taker, filled).id = taker.id
<1>1. Unlinked(taker, filled) \in SlotOrders
  <2>1. None \in Nat
    BY DEF None
  <2>2. QED
    BY <2>1, Translated DEF Unlinked, SlotOrders, AllOrders, P!OrdersOf, SameWords
<1>2. Plain(Unlinked(taker, filled)) = Partly(taker, filled)
  BY DEF Plain, Unlinked, Partly, AllOrders, P!OrdersOf
<1>3. QED
  BY <1>1, <1>2 DEF Unlinked

LEMMA SlotIsNew ==
  ASSUME NEW b, NEW action \in Actions, NEW s, NEW t, Sound(b, action, s, t),
         NEW taker \in AllOrders, taker.price \in Nat, taker.id \notin DOMAIN b.index,
         NEW filled \in Int
  PROVE  Slotted(WithOrder(b, taker, filled), b, taker, filled, s, t)
<1> DEFINE i == Vacant(b.orders)
           o == Unlinked(taker, filled)
           r == WithOrder(b, taker, filled)
           x == With(b.orders, i, o)
           y == With(b.index, taker.id, i)
<1>1. /\ Typed(b) /\ Indexed(b) /\ IsBook(b) /\ IsFiniteSet(DOMAIN b.orders)
  BY DEF Sound, Typed
<1>2. i \in Nat \ {0} /\ i \notin DOMAIN b.orders
  BY <1>1, VacantIs
<1>3. /\ o \in SlotOrders /\ Plain(o) = Partly(taker, filled) /\ o.action = taker.action
      /\ o.id = taker.id
  BY UnlinkedIs
<1>4. ToSet(s) \subseteq DOMAIN b.orders /\ ToSet(t) \subseteq DOMAIN b.orders
  BY Zenon, Apart
<1> HIDE DEF i, o
<1>5. r = Book(x, b.buckets, y, b.levels, b.best)
  <2>1. r = SetOrdersIndex(b, x, y)
    BY DEF WithOrder, i, o
  <2> HIDE DEF r, x, y
  <2>2. QED
    BY <1>1, <2>1, FieldsChanged
<1>6. /\ DOMAIN x = DOMAIN b.orders \cup {i} /\ x = [j \in DOMAIN x |-> x[j]]
      /\ x[i] = o /\ \A j \in DOMAIN b.orders : j # i => x[j] = b.orders[j]
  BY DEF With
<1>7. /\ DOMAIN y = DOMAIN b.index \cup {taker.id} /\ y = [id \in DOMAIN y |-> y[id]]
      /\ y[taker.id] = i /\ \A id \in DOMAIN b.index : id # taker.id => y[id] = b.index[id]
  BY DEF With
<1> HIDE DEF r, x, y
<1>8. BookHas(r, x, b.buckets, y, b.levels, b.best)
  BY <1>5, BookOf
<1>9. /\ r.orders = x /\ r.index = y /\ r.buckets = b.buckets /\ r.levels = b.levels
      /\ r.best = b.best /\ IsBook(r)
  BY ONLY <1>8 DEF BookHas
<1>10. Indexed(r)
  <2>1. ASSUME NEW j \in DOMAIN x
        PROVE  x[j].id \in DOMAIN y /\ y[x[j].id] = j
    <3>1. CASE j = i
      BY ONLY <1>3, <1>6, <1>7, <3>1
    <3>2. CASE j # i
      <4>1. j \in DOMAIN b.orders /\ x[j] = b.orders[j]
        BY <1>6, <3>2
      <4>2. b.orders[j].id \in DOMAIN b.index /\ b.index[b.orders[j].id] = j
        BY <1>1, <4>1 DEF Indexed
      <4>3. QED
        BY ONLY <1>7, <4>1, <4>2, taker.id \notin DOMAIN b.index
    <3>3. QED
      BY <3>1, <3>2
  <2>2. ASSUME NEW id \in DOMAIN y
        PROVE  y[id] \in DOMAIN x /\ x[y[id]].id = id
    <3>1. CASE id = taker.id
      BY ONLY <1>3, <1>6, <1>7, <3>1
    <3>2. CASE id # taker.id
      <4>1. id \in DOMAIN b.index /\ y[id] = b.index[id]
        BY <1>7, <3>2
      <4>2. b.index[id] \in DOMAIN b.orders /\ b.orders[b.index[id]].id = id
        BY <1>1, <4>1 DEF Indexed
      <4>3. QED
        BY ONLY <1>2, <1>6, <4>1, <4>2
    <3>3. QED
      BY <3>1, <3>2
  <2>3. QED
    BY ONLY <1>9, <2>1, <2>2 DEF Indexed
<1>11. Floats(r, b, i, s, t)
  BY ONLY <1>2, <1>3, <1>4, <1>6, <1>7, <1>9, <1>10 DEF Floats
<1>12. r.orders[i] = o
  BY ONLY <1>6, <1>9
<1>13. QED
  BY ONLY <1>2, <1>3, <1>11, <1>12 DEF Slotted, r, i

\* The taker comes to rest with what is left of it.
LEMMA TakerRests ==
  ASSUME NEW b, NEW s, NEW t, NEW taker, NEW stp, Placing(b, s, t, taker, stp),
         NEW m, NEW a, NEW u, TookFrom(m, a, b, s, t, u, taker)
  PROVE  LET r == InsertOrder(WithOrder(m.b, taker, m.filled), Vacant(m.b.orders))
         IN  /\ Settled(r)
             /\ BookView(r) = P!Matched(taker, a, P!Insert(BookView(b)[taker.action],
                                                           Partly(taker, m.filled)))
<1> DEFINE action == taker.action
           own == BookView(b)[action]
           c == WithOrder(m.b, taker, m.filled)
           i == Vacant(m.b.orders)
           r == InsertOrder(c, i)
<1>1. Placed(b, s, t, taker, stp)
  BY PlacedIs
<1>2. /\ action \in Actions /\ Opposite(action) \in Actions /\ Opposite(action) # action
      /\ Opposite(Opposite(action)) = action /\ own = Plains(b, t)
      /\ P!SideOK(Plains(b, t), action, Users, OrderIds)
  BY ONLY <1>1 DEF Placed
<1>3. /\ Sound(m.b, Opposite(action), u, t) /\ DOMAIN m.b.orders = ToSet(u) \cup ToSet(t)
      /\ Plains(m.b, u) = a.side /\ Plains(m.b, t) = Plains(b, t)
      /\ m.filled \in Int /\ taker.id \notin DOMAIN m.b.index
  BY DEF TookFrom, Kept
<1>4. taker \in AllOrders /\ taker.price \in Nat
  BY DEF Placing
<1>5. Sound(m.b, action, t, u)
  BY <1>2, <1>3, Turned
<1>6. Slotted(c, m.b, taker, m.filled, t, u)
  BY <1>2, <1>3, <1>4, <1>5, SlotIsNew
<1> HIDE DEF own, c, i
<1>7. /\ Floats(c, m.b, i, t, u) /\ i \notin DOMAIN m.b.orders
      /\ c.orders[i].action = action /\ Plain(c.orders[i]) = Partly(taker, m.filled)
  BY ONLY <1>6 DEF Slotted, i
<1>8. Sound(c, action, t, u)
  BY <1>2, <1>5, <1>7, FloatKeeps
<1>9. /\ DOMAIN c.orders = DOMAIN m.b.orders \cup {i} /\ i \notin ToSet(t) /\ i \notin ToSet(u)
      /\ \A j \in DOMAIN m.b.orders : j # i => c.orders[j] = m.b.orders[j]
  BY ONLY <1>7 DEF Floats
<1>10. Plains(c, t) = Plains(m.b, t) /\ Plains(c, u) = Plains(m.b, u)
  <2>1. /\ Typed(m.b) /\ Linked(m.b, action, t) /\ Linked(m.b, Opposite(action), u)
    BY <1>5 DEF Sound, SideSound
  <2>2. /\ \A j \in ToSet(t) : Plain(c.orders[j]) = Plain(m.b.orders[j])
        /\ \A j \in ToSet(u) : Plain(c.orders[j]) = Plain(m.b.orders[j])
    BY ONLY <1>3, <1>9
  <2>3. QED
    BY <2>1, <2>2, PlainsStay
<1>11. Resting(c, action, t, u, i)
  <2>1. DOMAIN c.orders = ToSet(t) \cup ToSet(u) \cup {i} /\ i \in DOMAIN c.orders
    BY ONLY <1>3, <1>9
  <2>2. P!SideOK(Plains(c, t), action, Users, OrderIds)
    BY ONLY <1>2, <1>3, <1>10
  <2>3. QED
    BY ONLY <1>2, <1>7, <1>8, <1>9, <2>1, <2>2 DEF Resting
<1>12. Rested(r, c, action, t, u, i)
  BY <1>11, RestsInBook
<1> HIDE DEF r
<1>13. /\ Settled(r)
       /\ BookView(r) = [x \in Actions |-> IF x = action
                                           THEN P!Insert(own, Partly(taker, m.filled))
                                           ELSE a.side]
  BY ONLY <1>2, <1>3, <1>7, <1>10, <1>12 DEF Rested
<1>14. P!Matched(taker, a, P!Insert(own, Partly(taker, m.filled)))
         = [x \in Actions |-> IF x = action THEN P!Insert(own, Partly(taker, m.filled))
                              ELSE a.side]
  BY ONLY Translated DEF SameWords, P!Matched
<1>15. QED
  BY ONLY <1>13, <1>14 DEF r, c, i, own

\* The walk, as the operations on the abstract book name it.
LEMMA FacingIs ==
  ASSUME NEW b, NEW taker
  PROVE  BookView(b)[P!Opposite(taker.action)] = Facing(b, taker)
  BY ONLY Translated DEF SameWords, Facing

\* What is not filled is rejected alike.
LEMMA RestRejected ==
  ASSUME NEW taker, NEW left
  PROVE  RejectRest(left, taker)
           = IF left > 0 THEN <<P!Reject(left, taker.reserve)>> ELSE <<>>
  BY ONLY Translated DEF SameWords, RejectRest

\* place_gtc
LEMMA PlaceGtcAnswers ==
  ASSUME NEW b, NEW s, NEW t, NEW taker, NEW sp, Placing(b, s, t, taker, sp.stp)
  PROVE  Answers(PlaceGtc(b, taker, sp.stp), P!PlaceGtc(BookView(b), taker, sp))
<1> DEFINE m == TryMatch(b, taker, sp.stp)
           a == P!TryMatch(Facing(b, taker), taker, sp.stp)
           own == BookView(b)[taker.action]
           left == taker.size - m.filled
           lefta == taker.size - a.filled
           i == Vacant(m.b.orders)
           r == InsertOrder(WithOrder(m.b, taker, m.filled), i)
           rest == RejectRest(left, taker)
           resta == IF lefta > 0 THEN <<P!Reject(lefta, taker.reserve)>> ELSE <<>>
           resting == [m.b EXCEPT !.orders = With(@, i, Unlinked(taker, m.filled)),
                                  !.index = With(@, taker.id, i)]
<1>1. PICK u : TookFrom(m, a, b, s, t, u, taker)
  BY Takes
<1>2. /\ Settled(m.b) /\ BookView(m.b) = P!Matched(taker, a, own)
  BY <1>1, TookSettles
<1>3. /\ Settled(r) /\ BookView(r) = P!Matched(taker, a, P!Insert(own, Partly(taker, m.filled)))
  BY <1>1, TakerRests
<1>4. resting = WithOrder(m.b, taker, m.filled)
  BY Zenon DEF WithOrder, SetOrdersIndex
<1>5. PlaceGtc(b, taker, sp.stp)
        = IF m.aborted THEN Done(m.b, m.events \o rest, taker.action)
          ELSE Done(IF m.filled < taker.size THEN InsertOrder(resting, i) ELSE m.b,
                    m.events, taker.action)
  BY Zenon DEF PlaceGtc
<1>6. P!PlaceGtc(BookView(b), taker, sp)
        = IF a.aborted THEN P!Done(P!Matched(taker, a, own), a.events \o resta, taker.action)
          ELSE P!Done(P!Matched(taker, a, IF lefta > 0 THEN P!Insert(own, Partly(taker, a.filled))
                                          ELSE own), a.events, taker.action)
  BY Zenon, FacingIs DEF P!PlaceGtc, Partly
<1>7. rest = resta /\ m.events = a.events /\ m.filled = a.filled /\ m.aborted = a.aborted
  <2>1. m.events = a.events /\ m.filled = a.filled /\ m.aborted = a.aborted
    BY ONLY <1>1 DEF TookFrom
  <2>2. left = lefta
    BY ONLY <2>1
  <2> HIDE DEF m, a, left, lefta
  <2>3. rest = resta
    BY ONLY <2>2, RestRejected
  <2>4. QED
    BY ONLY <2>1, <2>3
<1>8. m.filled < taker.size <=> lefta > 0
  <2>1. m.filled \in Int /\ taker.size \in Int /\ m.filled = a.filled
    BY ONLY <1>1 DEF TookFrom
  <2> HIDE DEF m, a
  <2>2. QED
    BY ONLY <2>1
<1> HIDE DEF m, a, own, rest, resta, resting, r, lefta
<1>9. CASE m.aborted
  <2>1. /\ PlaceGtc(b, taker, sp.stp) = Done(m.b, m.events \o rest, taker.action)
        /\ P!PlaceGtc(BookView(b), taker, sp)
             = P!Done(BookView(m.b), m.events \o rest, taker.action)
    BY ONLY <1>2, <1>5, <1>6, <1>7, <1>9
  <2>2. QED
    BY <1>2, <2>1, DoneAnswers
<1>10. CASE ~m.aborted /\ m.filled < taker.size
  <2>1. /\ PlaceGtc(b, taker, sp.stp) = Done(r, m.events, taker.action)
        /\ P!PlaceGtc(BookView(b), taker, sp) = P!Done(BookView(r), m.events, taker.action)
    BY ONLY <1>3, <1>4, <1>5, <1>6, <1>7, <1>8, <1>10 DEF r
  <2>2. QED
    BY <1>3, <2>1, DoneAnswers
<1>11. CASE ~m.aborted /\ ~(m.filled < taker.size)
  <2>1. /\ PlaceGtc(b, taker, sp.stp) = Done(m.b, m.events, taker.action)
        /\ P!PlaceGtc(BookView(b), taker, sp) = P!Done(BookView(m.b), m.events, taker.action)
    BY ONLY <1>2, <1>5, <1>6, <1>7, <1>8, <1>11
  <2>2. QED
    BY <1>2, <2>1, DoneAnswers
<1>12. QED
  BY <1>9, <1>10, <1>11

\* place_ioc
LEMMA PlaceIocAnswers ==
  ASSUME NEW b, NEW s, NEW t, NEW taker, NEW sp, Placing(b, s, t, taker, sp.stp)
  PROVE  Answers(PlaceIoc(b, taker, sp.stp), P!PlaceIoc(BookView(b), taker, sp))
<1> DEFINE m == TryMatch(b, taker, sp.stp)
           a == P!TryMatch(Facing(b, taker), taker, sp.stp)
           own == BookView(b)[taker.action]
           left == taker.size - m.filled
           lefta == taker.size - a.filled
           rest == RejectRest(left, taker)
           resta == IF lefta > 0 THEN <<P!Reject(lefta, taker.reserve)>> ELSE <<>>
<1>1. PICK u : TookFrom(m, a, b, s, t, u, taker)
  BY Takes
<1>2. /\ Settled(m.b) /\ BookView(m.b) = P!Matched(taker, a, own)
  BY <1>1, TookSettles
<1>3. PlaceIoc(b, taker, sp.stp) = Done(m.b, m.events \o rest, taker.action)
  BY Zenon DEF PlaceIoc
<1>4. P!PlaceIoc(BookView(b), taker, sp)
        = P!Done(P!Matched(taker, a, own), a.events \o resta, taker.action)
  BY Zenon, FacingIs DEF P!PlaceIoc
<1>5. rest = resta /\ m.events = a.events
  <2>1. m.events = a.events /\ m.filled = a.filled
    BY ONLY <1>1 DEF TookFrom
  <2>2. left = lefta
    BY ONLY <2>1
  <2> HIDE DEF m, a, left, lefta
  <2>3. rest = resta
    BY ONLY <2>2, RestRejected
  <2>4. QED
    BY ONLY <2>1, <2>3
<1> HIDE DEF m, a, own, rest, resta
<1>6. /\ PlaceIoc(b, taker, sp.stp) = Done(m.b, m.events \o rest, taker.action)
      /\ P!PlaceIoc(BookView(b), taker, sp)
           = P!Done(BookView(m.b), m.events \o rest, taker.action)
  BY ONLY <1>2, <1>3, <1>4, <1>5
<1>7. QED
  BY <1>2, <1>6, DoneAnswers

\* place_fok_budget, when both books find the same budget.
LEMMA PlaceFokBudgetAnswers ==
  ASSUME NEW b, NEW s, NEW t, NEW taker, NEW sp, Placing(b, s, t, taker, sp.stp),
         BudgetToFill(b, taker.action, taker.size)
           = P!BudgetToFill(Facing(b, taker), taker.size)
  PROVE  Answers(PlaceFokBudget(b, taker, sp.stp), P!PlaceFokBudget(BookView(b), taker, sp))
<1> DEFINE m == TryMatch(b, taker, sp.stp)
           a == P!TryMatch(Facing(b, taker), taker, sp.stp)
           own == BookView(b)[taker.action]
           left == taker.size - m.filled
           lefta == taker.size - a.filled
           rest == RejectRest(left, taker)
           end == IF m.aborted THEN rest ELSE <<>>
           enda == IF a.aborted /\ lefta > 0 THEN <<P!Reject(lefta, taker.reserve)>> ELSE <<>>
           cost == BudgetToFill(b, taker.action, taker.size)
           costa == P!BudgetToFill(Facing(b, taker), taker.size)
           none == <<Reject(taker.size, taker.reserve)>>
<1>1. PICK u : TookFrom(m, a, b, s, t, u, taker)
  BY Takes
<1>2. /\ Settled(m.b) /\ BookView(m.b) = P!Matched(taker, a, own) /\ Settled(b)
  <2>1. Settled(m.b) /\ BookView(m.b) = P!Matched(taker, a, own)
    BY <1>1, TookSettles
  <2>2. Settled(b)
    <3>1. Opposite(taker.action) \in Actions /\ Kept(b, Opposite(taker.action), s, t)
      BY Sides DEF Placing
    <3>2. QED
      BY <3>1, KeptSettles
  <2>3. QED
    BY <2>1, <2>2
<1>3. PlaceFokBudget(b, taker, sp.stp)
        = IF BudgetSatisfied(taker.action, cost, taker.price)
          THEN Done(m.b, m.events \o end, taker.action)
          ELSE Done(b, none, taker.action)
  BY Zenon DEF PlaceFokBudget
<1>4. P!PlaceFokBudget(BookView(b), taker, sp)
        = IF P!BudgetSatisfied(taker.action, costa, taker.price)
          THEN P!Done(P!Matched(taker, a, own), a.events \o enda, taker.action)
          ELSE P!Done(BookView(b), <<P!Reject(taker.size, taker.reserve)>>, taker.action)
  BY Zenon, FacingIs DEF P!PlaceFokBudget
<1>5. end = enda /\ m.events = a.events
  <2>1. m.events = a.events /\ m.filled = a.filled /\ m.aborted = a.aborted
    BY ONLY <1>1 DEF TookFrom
  <2>2. left = lefta
    BY ONLY <2>1
  <2> HIDE DEF m, a, left, lefta
  <2>3. rest = IF lefta > 0 THEN <<P!Reject(lefta, taker.reserve)>> ELSE <<>>
    BY ONLY <2>2, RestRejected
  <2> HIDE DEF rest
  <2>4. end = enda
    BY ONLY <2>1, <2>3
  <2>5. QED
    BY ONLY <2>1, <2>4
<1>6. BudgetSatisfied(taker.action, cost, taker.price)
        <=> P!BudgetSatisfied(taker.action, costa, taker.price)
  <2>1. \A x, c, p : BudgetSatisfied(x, c, p) <=> P!BudgetSatisfied(x, c, p)
    BY Zenon DEF BudgetSatisfied, P!BudgetSatisfied
  <2> HIDE DEF cost, costa
  <2>2. cost = costa
    BY DEF cost, costa
  <2>3. QED
    BY ONLY <2>1, <2>2
<1>7. none = <<P!Reject(taker.size, taker.reserve)>>
  BY ONLY Translated DEF SameWords
<1> HIDE DEF m, a, own, end, enda, none, cost, costa
<1>8. CASE BudgetSatisfied(taker.action, cost, taker.price)
  <2>1. /\ PlaceFokBudget(b, taker, sp.stp) = Done(m.b, m.events \o end, taker.action)
        /\ P!PlaceFokBudget(BookView(b), taker, sp)
             = P!Done(BookView(m.b), m.events \o end, taker.action)
    BY ONLY <1>2, <1>3, <1>4, <1>5, <1>6, <1>8
  <2>2. QED
    BY <1>2, <2>1, DoneAnswers
<1>9. CASE ~BudgetSatisfied(taker.action, cost, taker.price)
  <2>1. /\ PlaceFokBudget(b, taker, sp.stp) = Done(b, none, taker.action)
        /\ P!PlaceFokBudget(BookView(b), taker, sp) = P!Done(BookView(b), none, taker.action)
    BY ONLY <1>3, <1>4, <1>6, <1>7, <1>9
  <2>2. QED
    BY <1>2, <2>1, DoneAnswers
<1>10. QED
  BY <1>8, <1>9

\* The order in slot i, which is in no list, is o now.
WithSlot(b, i, o) ==
  SetOrders(b, [j \in DOMAIN b.orders |-> IF j = i THEN o ELSE b.orders[j]])

Afloat(r, b, action, s, t, i, o) ==
  /\ Sound(r, action, s, t) /\ DOMAIN r.orders = DOMAIN b.orders
  /\ r.orders[i] = o
  /\ \A j \in DOMAIN b.orders : j # i => r.orders[j] = b.orders[j]
  /\ Plains(r, s) = Plains(b, s) /\ Plains(r, t) = Plains(b, t)

LEMMA SlotChanges ==
  ASSUME NEW b, NEW action \in Actions, NEW s, NEW t, Sound(b, action, s, t),
         NEW i \in DOMAIN b.orders, i \notin ToSet(s), i \notin ToSet(t),
         NEW o \in SlotOrders, o.id = b.orders[i].id
  PROVE  Afloat(WithSlot(b, i, o), b, action, s, t, i, o)
<1> DEFINE x == [j \in DOMAIN b.orders |-> IF j = i THEN o ELSE b.orders[j]]
           r == WithSlot(b, i, o)
<1>1. /\ Typed(b) /\ Indexed(b) /\ IsBook(b) /\ Linked(b, action, s)
      /\ Linked(b, Opposite(action), t) /\ DOMAIN b.orders \subseteq Nat \ {0}
      /\ b.index = [id \in DOMAIN b.index |-> b.index[id]]
  BY DEF Sound, SideSound, Typed
<1>2. /\ DOMAIN x = DOMAIN b.orders \cup {i} /\ x = [j \in DOMAIN x |-> x[j]]
      /\ x[i] = o /\ \A j \in DOMAIN b.orders : j # i => x[j] = b.orders[j]
      /\ DOMAIN x = DOMAIN b.orders
  OBVIOUS
<1>3. r = Book(x, b.buckets, b.index, b.levels, b.best)
  <2>1. r = SetOrders(b, x)
    BY DEF WithSlot
  <2> HIDE DEF r, x
  <2>2. QED
    BY <1>1, <2>1, FieldsChanged
<1> HIDE DEF r, x
<1>4. BookHas(r, x, b.buckets, b.index, b.levels, b.best)
  BY <1>3, BookOf
<1>5. /\ r.orders = x /\ r.index = b.index /\ r.buckets = b.buckets /\ r.levels = b.levels
      /\ r.best = b.best /\ IsBook(r)
  BY ONLY <1>4 DEF BookHas
<1>6. \A j \in DOMAIN b.orders : x[j].id = b.orders[j].id
  BY <1>2
<1>7. Indexed(r)
  BY ONLY <1>1, <1>2, <1>5, <1>6 DEF Indexed
<1>8. Floats(r, b, i, s, t)
  BY <1>1, <1>2, <1>5, <1>7 DEF Floats
<1>9. Sound(r, action, s, t)
  BY <1>8, FloatKeeps
<1>10. Plains(r, s) = Plains(b, s) /\ Plains(r, t) = Plains(b, t)
  <2>1. /\ ToSet(s) \subseteq DOMAIN b.orders /\ ToSet(t) \subseteq DOMAIN b.orders
    BY Zenon, Apart
  <2>2. /\ \A j \in ToSet(s) : Plain(r.orders[j]) = Plain(b.orders[j])
        /\ \A j \in ToSet(t) : Plain(r.orders[j]) = Plain(b.orders[j])
    BY <1>2, <1>5, <2>1
  <2>3. QED
    BY <1>1, <2>2, PlainsStay
<1>11. QED
  BY ONLY <1>2, <1>5, <1>9, <1>10 DEF Afloat, r

\* An order under way from its place to another one.
Repriced(o, price) ==
  [o EXCEPT !.price = price]
Refill(o, filled) ==
  [o EXCEPT !.filled = filled]

LEMMA RepricedIs ==
  ASSUME NEW o \in SlotOrders, NEW price \in Nat, NEW filled \in Int
  PROVE  /\ Repriced(o, price) \in SlotOrders /\ Repriced(o, price).id = o.id
         /\ Plain(Repriced(o, price)) = Repriced(Plain(o), price)
         /\ Refill(o, filled) \in SlotOrders /\ Refill(o, filled).id = o.id
         /\ Plain(Refill(o, filled)) = Refill(Plain(o), filled)
<1>1. /\ Repriced(o, price) \in SlotOrders /\ Repriced(o, price).id = o.id
  BY DEF Repriced, SlotOrders
<1>2. /\ Refill(o, filled) \in SlotOrders /\ Refill(o, filled).id = o.id
  BY DEF Refill, SlotOrders
<1>3. Plain(Repriced(o, price)) = Repriced(Plain(o), price)
  BY DEF Repriced, SlotOrders, Plain
<1>4. Plain(Refill(o, filled)) = Refill(Plain(o), filled)
  BY DEF Refill, SlotOrders, Plain
<1>5. QED
  BY <1>1, <1>2, <1>3, <1>4

\* An order that is named leaves its list and takes the new price.
Moving(b, id, s, t, n, price, sp) ==
  /\ Settled(b) /\ P!BookOK(BookView(b), Users, OrderIds)
  /\ id \in DOMAIN b.index /\ Named(b, id, s, t, n)
  /\ price \in Nat /\ sp.stp \in P!Modes
  /\ MoveAllowed(b.orders[b.index[id]], price, sp)

Lifted(b, i, price) ==
  WithSlot(RemoveOrder(b, i), i, Repriced(RemoveOrder(b, i).orders[i], price))

\* The order is lifted: own is its list without it.
LiftedIs(c, b, id, s, t, n, own, price) ==
  LET i == b.index[id]
      o == b.orders[i]
  IN  /\ Sound(c, o.action, own, t)
      /\ i \notin ToSet(own) /\ i \notin ToSet(t) /\ i \in DOMAIN c.orders
      /\ DOMAIN c.orders = ToSet(own) \cup ToSet(t) \cup {i}
      /\ Plain(c.orders[i]) = Repriced(Plain(o), price)
      /\ Plains(c, own) = P!Without(BookView(b)[o.action], id)
      /\ Plains(c, t) = BookView(b)[Opposite(o.action)]

LEMMA Lifts ==
  ASSUME NEW b, NEW id, NEW s, NEW t, NEW n, NEW price, NEW sp,
         Moving(b, id, s, t, n, price, sp)
  PROVE  LiftedIs(Lifted(b, b.index[id], price), b, id, s, t, n, RemoveAt(s, n), price)
<1> DEFINE i == b.index[id]
           o == b.orders[i]
           action == o.action
           own == RemoveAt(s, n)
           r == RemoveOrder(b, i)
           x == r.orders[i]
           c == Lifted(b, i, price)
<1>1. /\ action \in Actions /\ Opposite(action) \in Actions /\ Kept(b, action, s, t)
      /\ n \in 1..Len(s) /\ s[n] = i /\ i \in DOMAIN b.orders /\ o.id = id
      /\ Sound(b, action, s, t) /\ DOMAIN b.orders = ToSet(s) \cup ToSet(t)
      /\ price \in Nat
  BY DEF Moving, Named, Kept
<1>2. Cut(own, s, n, DOMAIN b.orders)
  BY Zenon, <1>1, CutIs
<1> HIDE DEF own
<1>3. TakenOut(r, b, action, t, own)
  <2>1. TakenOut(RemoveOrder(b, s[n]), b, action, t, own)
    BY ONLY Zenon, <1>1, <1>2, RemoveKeeps
  <2>2. QED
    BY ONLY <1>1, <2>1
<1> HIDE DEF r
<1>4. /\ Sound(r, action, own, t) /\ DOMAIN r.orders = DOMAIN b.orders
      /\ \A j \in DOMAIN b.orders : Plain(r.orders[j]) = Plain(b.orders[j])
  BY ONLY <1>3 DEF TakenOut
<1>5. ToSet(own) = ToSet(s) \ {i} /\ i \in ToSet(s)
  <2>1. ToSet(own) = ToSet(s) \ {i}
    BY ONLY <1>1, <1>2 DEF Cut, Shorter
  <2>2. Typed(b) /\ Linked(b, action, s)
    BY <1>1 DEF Sound, SideSound
  <2>3. i \in ToSet(s)
    BY <1>1, <2>2, SlotsOf
  <2>4. QED
    BY <2>1, <2>3
<1>6. i \notin ToSet(own) /\ i \notin ToSet(t) /\ i \in DOMAIN r.orders
  <2>1. ToSet(s) \cap ToSet(t) = {}
    <3> HIDE DEF action, o, i
    <3>1. QED
      BY Zenon, <1>1, Apart
  <2>2. QED
    BY ONLY <1>1, <1>4, <1>5, <2>1
<1>7. x \in SlotOrders
  <2>1. Typed(r)
    BY <1>4 DEF Sound
  <2>2. QED
    BY <1>6, <2>1, SlotTypes
<1>8. /\ Repriced(x, price) \in SlotOrders /\ Repriced(x, price).id = r.orders[i].id
      /\ Plain(Repriced(x, price)) = Repriced(Plain(x), price)
  <2>1. x \in SlotOrders /\ x.filled \in Int /\ price \in Nat
    BY <1>1, <1>7 DEF SlotOrders
  <2>2. x.id = r.orders[i].id
    OBVIOUS
  <2> HIDE DEF x
  <2>3. /\ Repriced(x, price) \in SlotOrders /\ Repriced(x, price).id = x.id
        /\ Plain(Repriced(x, price)) = Repriced(Plain(x), price)
    BY <2>1, RepricedIs
  <2>4. QED
    BY ONLY <2>2, <2>3
<1>9. Plain(x) = Plain(o)
  BY ONLY <1>1, <1>4
<1>10. c = WithSlot(r, i, Repriced(x, price))
  BY Zenon DEF Lifted, r
<1>11. Afloat(c, r, action, own, t, i, Repriced(x, price))
  <2>1. Afloat(WithSlot(r, i, Repriced(x, price)), r, action, own, t, i, Repriced(x, price))
    BY <1>1, <1>4, <1>6, <1>8, SlotChanges
  <2>2. QED
    BY ONLY <1>10, <2>1
<1> HIDE DEF c, x
<1>12. /\ Sound(c, action, own, t) /\ DOMAIN c.orders = DOMAIN r.orders
       /\ c.orders[i] = Repriced(x, price)
       /\ Plains(c, own) = Plains(r, own) /\ Plains(c, t) = Plains(r, t)
  BY ONLY <1>11 DEF Afloat
<1>13. Plains(r, own) = Plains(b, own) /\ Plains(r, t) = Plains(b, t)
  <2>1. /\ Typed(r) /\ Linked(r, action, own) /\ Linked(r, Opposite(action), t)
    BY <1>4 DEF Sound, SideSound
  <2>2. /\ \A m \in 1..Len(own) : own[m] \in DOMAIN r.orders
        /\ \A m \in 1..Len(t) : t[m] \in DOMAIN r.orders
    BY <2>1, SlotsOf
  <2>3. /\ \A m \in 1..Len(own) : Plain(r.orders[own[m]]) = Plain(b.orders[own[m]])
        /\ \A m \in 1..Len(t) : Plain(r.orders[t[m]]) = Plain(b.orders[t[m]])
    BY ONLY <1>4, <2>2
  <2>4. QED
    BY <2>3, SamePlains
<1>14. P!Without(Plains(b, s), id) = Plains(b, own)
  <2>1. P!Without(Plains(b, s), b.orders[s[n]].id) = Plains(b, RemoveAt(s, n))
    BY Zenon, <1>1, WithoutIs
  <2>2. QED
    BY ONLY <1>1, <2>1 DEF own
<1>15. BookView(b)[action] = Plains(b, s) /\ BookView(b)[Opposite(action)] = Plains(b, t)
  <2>1. Viewed(b, action, s, t)
    BY <1>1, ViewIs
  <2>2. QED
    BY ONLY <2>1 DEF Viewed
<1>16. DOMAIN c.orders = ToSet(own) \cup ToSet(t) \cup {i}
  BY ONLY <1>1, <1>4, <1>5, <1>12
<1>17. Plain(c.orders[i]) = Repriced(Plain(o), price)
  BY ONLY <1>8, <1>9, <1>12
<1>18. QED
  BY ONLY <1>6, <1>12, <1>13, <1>14, <1>15, <1>16, <1>17 DEF LiftedIs, c, own, action, o, i

\* The lifted order meets the other side.
MoverOf(o, price) == Retaker(Plain(o), price)

MoverEnters(c, b, id, t, own, price, sp) ==
  LET o == b.orders[b.index[id]]
      taker == MoverOf(o, price)
  IN  /\ Entering(c, t, own, taker, sp.stp)
      /\ taker.action = o.action /\ taker.size = Remaining(o) /\ Remaining(o) \in Nat
      /\ P!SideOK(P!Without(BookView(b)[o.action], id), o.action, Users, OrderIds)

LEMMA MoverMeets ==
  ASSUME NEW b, NEW id, NEW s, NEW t, NEW n, NEW price, NEW sp,
         Moving(b, id, s, t, n, price, sp),
         NEW c, NEW own, LiftedIs(c, b, id, s, t, n, own, price)
  PROVE  MoverEnters(c, b, id, t, own, price, sp)
<1> DEFINE i == b.index[id]
           o == b.orders[i]
           view == BookView(b)
           taker == MoverOf(o, price)
<1>1. /\ Settled(b) /\ P!BookOK(view, Users, OrderIds) /\ id \in DOMAIN b.index
      /\ price \in Int /\ sp.stp \in P!Modes /\ MoveAllowed(o, price, sp)
      /\ o.action \in Actions /\ PlainOf(Plain(o), o) /\ o.id = id
  BY DEF Moving, Named
<1>2. Knowing(b, id)
  BY <1>1, KnowingIs
<1>3. P!Knows(view, id) /\ P!OrderOf(view, id) = Plain(o)
  BY ONLY <1>1, <1>2 DEF Knowing
<1>4. /\ Plain(o).action = o.action /\ Plain(o).reserve = o.reserve
      /\ Plain(o).id = id /\ Remaining(Plain(o)) = Remaining(o)
  BY ONLY <1>1 DEF PlainOf
<1>5. P!MoveAllowed(P!OrderOf(view, id), price, sp)
  BY ONLY <1>1, <1>3, <1>4 DEF MoveAllowed, P!MoveAllowed
<1>6. P!Retaker(P!OrderOf(view, id), price) = taker
  BY ONLY Zenon, <1>3, Translated DEF P!Retaker, Retaker, MoverOf, SameWords
<1> HIDE DEF view, taker
<1>7. /\ P!Taking(P!Retaker(P!OrderOf(view, id), price), view, sp, Users, OrderIds)
      /\ P!Retaker(P!OrderOf(view, id), price).action = P!OrderOf(view, id).action
      /\ P!Retaker(P!OrderOf(view, id), price).size = P!Remaining(P!OrderOf(view, id))
  BY ONLY <1>1, <1>3, <1>5, P!MovedTakes
<1>8. /\ P!Taking(taker, view, sp, Users, OrderIds)
      /\ taker.action = o.action /\ taker.size = Remaining(o)
  BY ONLY <1>3, <1>4, <1>6, <1>7, Translated DEF SameWords
<1>9. P!Setting(view[P!Opposite(taker.action)], taker, sp.stp, Users, OrderIds)
  BY ONLY <1>8, P!TakerMatches
<1>10. view[P!Opposite(taker.action)] = Plains(c, t)
  <2>1. Plains(c, t) = view[Opposite(o.action)]
    BY DEF LiftedIs, view
  <2>2. QED
    BY ONLY <1>8, <2>1, Translated DEF SameWords
<1>11. Sound(c, Opposite(taker.action), t, own)
  <2>1. Sound(c, o.action, own, t)
    BY DEF LiftedIs
  <2>2. Sound(c, Opposite(o.action), t, own)
    BY <1>1, <2>1, Turned
  <2>3. QED
    BY ONLY <1>8, <2>2
<1>12. Entering(c, t, own, taker, sp.stp)
  BY ONLY <1>1, <1>8, <1>9, <1>10, <1>11 DEF Entering
<1>13. Remaining(o) \in Nat
  BY ONLY <1>8, <1>9 DEF P!Setting
<1>14. P!SideOK(P!Without(view[o.action], id), o.action, Users, OrderIds)
  <2>1. P!SideOK(P!Without(view[P!OrderOf(view, id).action], id), P!OrderOf(view, id).action,
                 Users, OrderIds)
    BY ONLY <1>1, <1>3, P!NamedOrderGone
  <2>2. QED
    BY ONLY <1>3, <1>4, <2>1
<1>15. QED
  BY ONLY <1>8, <1>12, <1>13, <1>14 DEF MoverEnters, taker, o, i, view

\* It has matched, and still floats.
MoveMet(m, a, b, id, own, u, price) ==
  LET i == b.index[id]
      o == b.orders[i]
  IN  /\ Sound(m.b, o.action, own, u) /\ o.action \in Actions
      /\ DOMAIN m.b.orders = ToSet(own) \cup ToSet(u) \cup {i}
      /\ i \notin ToSet(own) /\ i \notin ToSet(u)
      /\ Plain(m.b.orders[i]) = Repriced(Plain(o), price)
      /\ Plains(m.b, own) = P!Without(BookView(b)[o.action], id)
      /\ P!SideOK(Plains(m.b, own), o.action, Users, OrderIds)
      /\ Plains(m.b, u) = a.side /\ m.events = a.events /\ m.filled = a.filled
      /\ m.aborted = a.aborted /\ m.filled \in Int

LEMMA MoverTakes ==
  ASSUME NEW b, NEW id, NEW s, NEW t, NEW n, NEW price, NEW sp,
         Moving(b, id, s, t, n, price, sp),
         NEW c, NEW own, LiftedIs(c, b, id, s, t, n, own, price)
  PROVE  LET o == b.orders[b.index[id]]
             taker == MoverOf(o, price)
         IN  \E u : MoveMet(TryMatch(c, taker, sp.stp),
                            P!TryMatch(BookView(b)[Opposite(o.action)], taker, sp.stp),
                            b, id, own, u, price)
<1> DEFINE i == b.index[id]
           o == b.orders[i]
           action == o.action
           taker == MoverOf(o, price)
           m == TryMatch(c, taker, sp.stp)
           a == P!TryMatch(BookView(b)[Opposite(o.action)], taker, sp.stp)
<1>1. MoverEnters(c, b, id, t, own, price, sp)
  BY MoverMeets
<1>2. /\ Entering(c, t, own, taker, sp.stp) /\ taker.action = action
      /\ P!SideOK(P!Without(BookView(b)[action], id), action, Users, OrderIds)
  BY ONLY <1>1 DEF MoverEnters
<1>3. /\ Sound(c, action, own, t) /\ i \notin ToSet(own) /\ i \notin ToSet(t)
      /\ i \in DOMAIN c.orders /\ DOMAIN c.orders = ToSet(own) \cup ToSet(t) \cup {i}
      /\ Plain(c.orders[i]) = Repriced(Plain(o), price)
      /\ Plains(c, own) = P!Without(BookView(b)[action], id)
      /\ Plains(c, t) = BookView(b)[Opposite(action)]
  BY DEF LiftedIs
<1>4. /\ action \in Actions /\ Plain(o).action = action
  BY DEF Moving, Named, PlainOf
<1>5. PICK u : Met(m, c, t, own, u, taker, sp.stp)
  BY <1>2, MetIs
<1> HIDE DEF m, taker
<1>6. /\ Sound(m.b, Opposite(action), u, own) /\ Elsewhere(m.b, c, t, u)
      /\ ReadAs(a, Plains(m.b, u), m.events, m.filled, m.aborted)
      /\ m.filled \in Int /\ Plains(m.b, own) = Plains(c, own)
  <2>1. a = P!TryMatch(Plains(c, t), taker, sp.stp)
    BY ONLY <1>3
  <2> HIDE DEF a
  <2>2. /\ Sound(m.b, Opposite(taker.action), u, own) /\ Elsewhere(m.b, c, t, u)
        /\ ReadAs(a, Plains(m.b, u), m.events, m.filled, m.aborted)
        /\ m.filled \in 0..taker.size /\ Plains(m.b, own) = Plains(c, own)
    BY ONLY <1>5, <2>1 DEF Met
  <2>3. m.filled \in Int
    BY ONLY <2>2
  <2>4. QED
    BY ONLY <1>2, <2>2, <2>3
<1> HIDE DEF a
<1>7. /\ Opposite(action) \in Actions /\ Opposite(action) # action
      /\ Opposite(Opposite(action)) = action
  BY <1>4, Sides
<1>8. Sound(m.b, action, own, u)
  BY <1>6, <1>7, Turned
<1>9. ToSet(own) \cap ToSet(t) = {}
  <2> HIDE DEF action
  <2>1. QED
    BY <1>3, <1>4, Apart
<1>10. /\ DOMAIN m.b.orders = (ToSet(own) \cup {i}) \cup ToSet(u)
       /\ Plain(m.b.orders[i]) = Repriced(Plain(o), price)
  BY ONLY <1>3, <1>6, <1>9 DEF Elsewhere
<1>11. i \notin ToSet(u)
  <2>1. Typed(m.b) /\ Linked(m.b, Opposite(action), u)
    BY <1>6 DEF Sound, SideSound
  <2>2. \A j \in ToSet(u) : m.b.orders[j].action = Opposite(action)
    BY <2>1, SlotsOf
  <2>3. m.b.orders[i].action = action
    <3>1. Plain(m.b.orders[i]).action = m.b.orders[i].action
      BY DEF Plain
    <3>2. Repriced(Plain(o), price).action = Plain(o).action
      BY DEF Repriced, Plain
    <3>3. QED
      BY ONLY <1>4, <1>10, <3>1, <3>2
  <2>4. QED
    BY ONLY <1>7, <2>2, <2>3
<1>12. DOMAIN m.b.orders = ToSet(own) \cup ToSet(u) \cup {i}
  BY ONLY <1>10
<1>13. MoveMet(m, a, b, id, own, u, price)
  BY ONLY Zenon, <1>2, <1>3, <1>4, <1>6, <1>8, <1>10, <1>11, <1>12 DEF MoveMet, ReadAs
<1>14. QED
  BY <1>13 DEF m, a, taker

\* The moved order with its price and its fills.
Moved(p, price, filled) ==
  Refill(Repriced(p, price), p.filled + filled)

Remade(p, price, filled) ==
  [p EXCEPT !.price = price, !.filled = @ + filled]

LEMMA MovedIs ==
  ASSUME NEW p \in AllOrders, NEW price \in Int, NEW filled \in Int
  PROVE  /\ Remade(p, price, filled) = Moved(p, price, filled)
         /\ Moved(p, price, filled).action = p.action
         /\ Remaining(Moved(p, price, filled)) = p.size - (p.filled + filled)
         /\ Remaining(Moved(p, price, filled)) \in Int
<1> DEFINE q == [p EXCEPT !.price = price]
           all == p.filled + filled
           r == [q EXCEPT !.filled = all]
<1>1. p.size \in Int /\ p.filled \in Int /\ all \in Int
  BY DEF AllOrders, P!OrdersOf
<1>2. q.size = p.size /\ q.action = p.action /\ q.filled = p.filled /\ q \in AllOrders
  BY DEF AllOrders, P!OrdersOf
<1>3. Remade(p, price, filled) = r
  BY Zenon, <1>2 DEF Remade
<1>4. r = Moved(p, price, filled)
  BY Zenon DEF Moved, Refill, Repriced
<1> HIDE DEF q, all
<1>5. r.size = p.size /\ r.filled = all /\ r.action = p.action
  BY <1>2 DEF AllOrders, P!OrdersOf
<1> HIDE DEF r
<1>6. Remaining(r) = p.size - all /\ Remaining(r) \in Int
  BY <1>1, <1>5 DEF Remaining
<1>7. QED
  BY <1>3, <1>4, <1>5, <1>6 DEF all

\* The slots of a book, one of them changed in a field.
SetPrice(b, i, v) ==
  [b EXCEPT !.orders[i].price = v]
SetFilled(b, i, v) ==
  [b EXCEPT !.orders[i].filled = v]

LEMMA SlotFields ==
  ASSUME NEW b, Typed(b), NEW i \in DOMAIN b.orders, NEW v
  PROVE  /\ SetPrice(b, i, v) = WithSlot(b, i, Repriced(b.orders[i], v))
         /\ SetFilled(b, i, v) = WithSlot(b, i, Refill(b.orders[i], v))
<1> DEFINE O(o) == [b.orders EXCEPT ![i] = o]
<1>1. \A o : O(o) = [j \in DOMAIN b.orders |-> IF j = i THEN o ELSE b.orders[j]]
  OBVIOUS
<1>2. SetPrice(b, i, v) = SetOrders(b, O(Repriced(b.orders[i], v)))
  BY Zenon DEF SetPrice, SetOrders, Repriced
<1>3. SetFilled(b, i, v) = SetOrders(b, O(Refill(b.orders[i], v)))
  BY Zenon DEF SetFilled, SetOrders, Refill
<1> HIDE DEF O
<1>4. \A o : SetOrders(b, O(o)) = WithSlot(b, i, o)
  BY Zenon, <1>1 DEF WithSlot
<1>5. QED
  BY Zenon, <1>2, <1>3, <1>4

\* The moved order has its fills, and is in no list.
Adrift(c, a, b, id, own, u, price, filled) ==
  LET i == b.index[id]
      o == b.orders[i]
  IN  /\ Sound(c, o.action, own, u) /\ o.action \in Actions
      /\ DOMAIN c.orders = ToSet(own) \cup ToSet(u) \cup {i} /\ i \in DOMAIN c.orders
      /\ i \notin ToSet(own) /\ i \notin ToSet(u)
      /\ Plain(c.orders[i]) = Moved(Plain(o), price, filled)
      /\ Plains(c, own) = P!Without(BookView(b)[o.action], id)
      /\ P!SideOK(Plains(c, own), o.action, Users, OrderIds)
      /\ Plains(c, u) = a.side

LEMMA MoverDrifts ==
  ASSUME NEW b, NEW id, NEW s, NEW t, NEW n, NEW price, NEW sp,
         Moving(b, id, s, t, n, price, sp),
         NEW m, NEW a, NEW own, NEW u, MoveMet(m, a, b, id, own, u, price)
  PROVE  LET i == b.index[id]
             o == b.orders[i]
             c == SetFilled(m.b, i, Refilled(o, m.filled))
         IN  Adrift(c, a, b, id, own, u, price, m.filled)
<1> DEFINE i == b.index[id]
           o == b.orders[i]
           filled == Refilled(o, m.filled)
           x == m.b.orders[i]
           c == SetFilled(m.b, i, filled)
<1>1. o \in SlotOrders
  BY DEF Moving, Named
<1>2. /\ Sound(m.b, o.action, own, u) /\ o.action \in Actions
      /\ DOMAIN m.b.orders = ToSet(own) \cup ToSet(u) \cup {i}
      /\ i \notin ToSet(own) /\ i \notin ToSet(u)
      /\ Plain(x) = Repriced(Plain(o), price)
      /\ Plains(m.b, own) = P!Without(BookView(b)[o.action], id)
      /\ P!SideOK(Plains(m.b, own), o.action, Users, OrderIds)
      /\ Plains(m.b, u) = a.side /\ m.filled \in Int
  BY DEF MoveMet
<1>3. i \in DOMAIN m.b.orders /\ Typed(m.b)
  BY ONLY <1>2 DEF Sound
<1>4. x \in SlotOrders
  BY <1>3, SlotTypes
<1>5. o.filled \in Int /\ filled \in Int
  <2>1. o.filled \in Int
    BY ONLY <1>1 DEF SlotOrders
  <2>2. m.filled \in Int
    BY <1>2
  <2>3. QED
    BY ONLY <2>1, <2>2 DEF Refilled, filled
<1> HIDE DEF filled
<1>6. /\ Refill(x, filled) \in SlotOrders /\ Refill(x, filled).id = x.id
      /\ Plain(Refill(x, filled)) = Refill(Plain(x), filled)
  <2>1. x.price \in Nat
    BY <1>4 DEF SlotOrders
  <2> HIDE DEF x
  <2>2. QED
    BY <1>4, <1>5, <2>1, RepricedIs
<1>7. c = WithSlot(m.b, i, Refill(x, filled))
  <2> HIDE DEF i
  <2>1. QED
    BY <1>3, SlotFields
<1>8. Afloat(c, m.b, o.action, own, u, i, Refill(x, filled))
  <2> HIDE DEF i, o, c
  <2>1. Afloat(WithSlot(m.b, i, Refill(x, filled)), m.b, o.action, own, u, i, Refill(x, filled))
    BY ONLY <1>2, <1>3, <1>6, SlotChanges
  <2>2. QED
    BY ONLY <1>7, <2>1
<1> HIDE DEF c
<1>9. /\ Sound(c, o.action, own, u) /\ DOMAIN c.orders = DOMAIN m.b.orders
      /\ c.orders[i] = Refill(x, filled)
      /\ Plains(c, own) = Plains(m.b, own) /\ Plains(c, u) = Plains(m.b, u)
  BY ONLY <1>8 DEF Afloat
<1>10. Plain(c.orders[i]) = Moved(Plain(o), price, m.filled)
  <2>1. Plain(o).filled = o.filled
    BY DEF Plain
  <2>2. filled = Plain(o).filled + m.filled
    BY ONLY <2>1 DEF filled, Refilled
  <2>3. Plain(c.orders[i]) = Refill(Repriced(Plain(o), price), filled)
    BY ONLY Zenon, <1>2, <1>6, <1>9
  <2>4. QED
    BY ONLY <2>2, <2>3 DEF Moved
<1>11. QED
  BY ONLY Zenon, <1>2, <1>3, <1>9, <1>10 DEF Adrift, c, filled, i, o

\* Nothing is left of it, or it comes to rest at its new price.
Landed(c, a, b, id, price, filled) ==
  LET i == b.index[id]
      p == Plain(b.orders[i])
      side == P!Without(BookView(b)[p.action], id)
  IN  /\ Settled(Free(c, i)) /\ BookView(Free(c, i)) = P!Matched(p, a, side)
      /\ Settled(InsertOrder(c, i))
      /\ BookView(InsertOrder(c, i)) = P!Matched(p, a, P!Insert(side, Moved(p, price, filled)))

LEMMA MoverLands ==
  ASSUME NEW b, NEW id, NEW s, NEW t, NEW n, NEW price, NEW sp,
         Moving(b, id, s, t, n, price, sp), NEW filled \in Int,
         NEW c, NEW a, NEW own, NEW u, Adrift(c, a, b, id, own, u, price, filled)
  PROVE  Landed(c, a, b, id, price, filled)
<1> DEFINE i == b.index[id]
           o == b.orders[i]
           p == Plain(o)
           action == o.action
           side == P!Without(BookView(b)[p.action], id)
           moved == Moved(p, price, filled)
           f == Free(c, i)
           r == InsertOrder(c, i)
           out == [x \in Actions |-> IF x = action THEN side ELSE a.side]
<1>1. PlainOf(p, o) /\ price \in Int /\ p.action = action
  <2>1. Named(b, id, s, t, n) /\ price \in Nat
    BY ONLY Moving(b, id, s, t, n, price, sp) DEF Moving
  <2>2. PlainOf(p, o)
    BY ONLY <2>1 DEF Named
  <2>3. QED
    BY ONLY <2>1, <2>2 DEF PlainOf
<1>2. /\ Sound(c, action, own, u) /\ action \in Actions
      /\ DOMAIN c.orders = ToSet(own) \cup ToSet(u) \cup {i} /\ i \in DOMAIN c.orders
      /\ i \notin ToSet(own) /\ i \notin ToSet(u)
      /\ Plain(c.orders[i]) = moved
      /\ Plains(c, own) = side
      /\ P!SideOK(Plains(c, own), action, Users, OrderIds)
      /\ Plains(c, u) = a.side
  BY ONLY Zenon, <1>1, Adrift(c, a, b, id, own, u, price, filled) DEF Adrift
<1>3. p \in AllOrders
  BY <1>1 DEF PlainOf, AllOrders
<1>4. moved.action = action
  <2> HIDE DEF p, action
  <2>1. QED
    BY <1>1, <1>3, MovedIs
<1> HIDE DEF p, side, moved
<1>5. c.orders[i].action = action
  <2>1. Plain(c.orders[i]).action = c.orders[i].action
    BY DEF Plain
  <2>2. QED
    BY ONLY <1>2, <1>4, <2>1
<1>6. \A z : P!Matched(p, a, z) = [x \in Actions |-> IF x = action THEN z ELSE a.side]
  BY ONLY <1>1, Translated DEF P!Matched, SameWords
<1>7. Opposite(action) \in Actions /\ Opposite(action) # action
  <2> HIDE DEF action
  <2>1. QED
    BY <1>2, Sides
<1> HIDE DEF action, i
<1>8. Settled(r) /\ BookView(r) = P!Matched(p, a, P!Insert(side, moved))
  <2>1. Resting(c, action, own, u, i)
    BY ONLY <1>2, <1>5 DEF Resting
  <2>2. Rested(r, c, action, own, u, i)
    BY <2>1, RestsInBook
  <2> HIDE DEF r
  <2>3. QED
    BY ONLY <1>2, <1>6, <2>2 DEF Rested
<1>9. Settled(f) /\ BookView(f) = P!Matched(p, a, side)
  <2>1. Sound(f, action, own, u) /\ Freed(f, c, i)
    BY <1>2, FreeKeeps
  <2> HIDE DEF f
  <2>2. /\ DOMAIN f.orders = DOMAIN c.orders \ {i}
        /\ \A j \in DOMAIN c.orders : j # i => f.orders[j] = c.orders[j]
    BY ONLY <2>1 DEF Freed
  <2>3. Kept(f, action, own, u)
    BY ONLY <1>2, <2>1, <2>2 DEF Kept
  <2>4. Plains(f, own) = Plains(c, own) /\ Plains(f, u) = Plains(c, u)
    <3>1. /\ Typed(c) /\ Linked(c, action, own) /\ Linked(c, Opposite(action), u)
      BY <1>2 DEF Sound, SideSound
    <3>2. /\ \A j \in ToSet(own) : Plain(f.orders[j]) = Plain(c.orders[j])
          /\ \A j \in ToSet(u) : Plain(f.orders[j]) = Plain(c.orders[j])
      BY ONLY <1>2, <2>2
    <3>3. QED
      BY <3>1, <3>2, PlainsStay
  <2>5. /\ DOMAIN out = Actions /\ out = [x \in Actions |-> out[x]]
        /\ out[action] = side /\ out[Opposite(action)] = a.side
    BY ONLY <1>2, <1>7
  <2>6. out = P!Matched(p, a, side)
    BY ONLY <1>6
  <2> HIDE DEF out
  <2>7. out[action] = Plains(f, own) /\ out[Opposite(action)] = Plains(f, u)
    BY ONLY <1>2, <2>4, <2>5
  <2>8. Settled(f) /\ BookView(f) = out
    BY ONLY <1>2, <2>3, <2>5, <2>7, Becomes
  <2>9. QED
    BY ONLY <2>6, <2>8
<1>10. QED
  BY ONLY <1>8, <1>9 DEF Landed, f, r, p, side, moved, i, o

\* The whole of move_order, when it does not refuse.
MoveMade(b, id, price, sp) ==
  LET i == b.index[id]
      o == b.orders[i]
      m == TryMatch(SetPrice(RemoveOrder(b, i), i, price), Retaker(Plain(o), price), sp.stp)
      a == P!TryMatch(BookView(b)[Opposite(o.action)], Retaker(Plain(o), price), sp.stp)
  IN  /\ Landed(SetFilled(m.b, i, Refilled(o, m.filled)), a, b, id, price, m.filled)
      /\ m.events = a.events /\ m.filled = a.filled /\ m.aborted = a.aborted
      /\ m.filled \in Int

LEMMA MoveIsMade ==
  ASSUME NEW b, NEW id, NEW s, NEW t, NEW n, NEW price, NEW sp,
         Moving(b, id, s, t, n, price, sp)
  PROVE  MoveMade(b, id, price, sp)
<1> DEFINE i == b.index[id]
           o == b.orders[i]
           own == RemoveAt(s, n)
           c == Lifted(b, i, price)
           taker == MoverOf(o, price)
           m == TryMatch(c, taker, sp.stp)
           a == P!TryMatch(BookView(b)[Opposite(o.action)], taker, sp.stp)
           after == SetFilled(m.b, i, Refilled(o, m.filled))
<1>1. LiftedIs(c, b, id, s, t, n, own, price)
  BY Lifts
<1>2. c = SetPrice(RemoveOrder(b, i), i, price)
  <2>1. /\ o.action \in Actions /\ Kept(b, o.action, s, t) /\ n \in 1..Len(s) /\ s[n] = i
        /\ i \in DOMAIN b.orders
    BY DEF Moving, Named
  <2> HIDE DEF i
  <2>2. Sound(b, o.action, s, t)
    BY <2>1 DEF Kept
  <2>3. Cut(own, s, n, DOMAIN b.orders)
    BY Zenon, <2>1, <2>2, CutIs
  <2> HIDE DEF own
  <2>4. TakenOut(RemoveOrder(b, s[n]), b, o.action, t, own)
    BY ONLY Zenon, <2>1, <2>2, <2>3, RemoveKeeps
  <2>5. Typed(RemoveOrder(b, i)) /\ i \in DOMAIN RemoveOrder(b, i).orders
    BY ONLY <2>1, <2>4 DEF TakenOut, Sound
  <2>6. SetPrice(RemoveOrder(b, i), i, price)
          = WithSlot(RemoveOrder(b, i), i, Repriced(RemoveOrder(b, i).orders[i], price))
    <3> DEFINE r == RemoveOrder(b, i)
    <3>1. Typed(r) /\ i \in DOMAIN r.orders
      BY <2>5
    <3> HIDE DEF r
    <3>2. SetPrice(r, i, price) = WithSlot(r, i, Repriced(r.orders[i], price))
      BY ONLY <3>1, SlotFields
    <3>3. QED
      BY <3>2 DEF r
  <2>7. QED
    BY <2>6 DEF Lifted
<1>3. PICK u : MoveMet(m, a, b, id, own, u, price)
  <2> HIDE DEF c, own
  <2>1. QED
    BY <1>1, MoverTakes
<1> HIDE DEF c, own, m, a
<1>4. Adrift(after, a, b, id, own, u, price, m.filled)
  BY <1>3, MoverDrifts
<1>5. /\ m.events = a.events /\ m.filled = a.filled /\ m.aborted = a.aborted
      /\ m.filled \in Int
  BY ONLY <1>3 DEF MoveMet
<1> HIDE DEF after
<1>6. Landed(after, a, b, id, price, m.filled)
  BY <1>4, <1>5, MoverLands
<1>7. /\ m = TryMatch(SetPrice(RemoveOrder(b, i), i, price), Retaker(Plain(o), price), sp.stp)
      /\ a = P!TryMatch(BookView(b)[Opposite(o.action)], Retaker(Plain(o), price), sp.stp)
  BY ONLY <1>2 DEF m, a, MoverOf
<1>8. QED
  BY ONLY Zenon, <1>5, <1>6, <1>7 DEF MoveMade, after, i, o

\* move_order
LEMMA MoveAnswers ==
  ASSUME NEW b, Settled(b), P!BookOK(BookView(b), Users, OrderIds),
         NEW cmd, cmd.price \in Int, NEW sp, sp.stp \in P!Modes
  PROVE  Answers(MoveOrder(b, cmd, sp), P!MoveOrder(BookView(b), cmd, sp))
<1> DEFINE i == b.index[cmd.id]
           o == b.orders[i]
           p == P!OrderOf(BookView(b), cmd.id)
           m == TryMatch(SetPrice(RemoveOrder(b, i), i, cmd.price),
                         Retaker(Plain(o), cmd.price), sp.stp)
           a == P!TryMatch(BookView(b)[P!Opposite(p.action)], P!Retaker(p, cmd.price), sp.stp)
           after == SetFilled(m.b, i, Refilled(o, m.filled))
           left == o.size - Refilled(o, m.filled)
           moved == [p EXCEPT !.price = cmd.price, !.filled = @ + a.filled]
           side == P!Without(BookView(b)[p.action], p.id)
           out == Append(m.events, Reject(left, o.reserve))
           outa == Append(a.events, P!Reject(P!Remaining(moved), p.reserve))
           r == IF left <= 0 THEN Free(after, i) ELSE InsertOrder(after, i)
           ra == P!Matched(p, a, IF P!Remaining(moved) > 0 THEN P!Insert(side, moved) ELSE side)
           Refuse(code) == Refused(b, cmd, code)
           RefuseA(code) == P!Refused(BookView(b), cmd, code)
<1>1. NamedSame(b, cmd)
  BY NamedSameIs
<1>2. MoveOrder(b, cmd, sp)
        = IF cmd.id \notin DOMAIN b.index THEN Refuse("MatchingUnknownOrderId")
          ELSE IF cmd.price <= 0 THEN Refuse("RiskInvalidOrderParams")
          ELSE IF ~Owns(b, cmd) THEN Refuse("MatchingUnknownOrderId")
          ELSE IF ~MoveAllowed(o, cmd.price, sp) THEN Refuse("RiskInvalidReserveBidPrice")
          ELSE IF m.aborted /\ left > 0 THEN Done(Free(after, i), out, o.action)
          ELSE Done(r, m.events, o.action)
  BY Zenon DEF MoveOrder, SetPrice, SetFilled
<1>3. P!MoveOrder(BookView(b), cmd, sp)
        = IF ~P!Knows(BookView(b), cmd.id) THEN RefuseA("MatchingUnknownOrderId")
          ELSE IF cmd.price <= 0 THEN RefuseA("RiskInvalidOrderParams")
          ELSE IF ~P!Owns(BookView(b), cmd) THEN RefuseA("MatchingUnknownOrderId")
          ELSE IF ~P!MoveAllowed(p, cmd.price, sp) THEN RefuseA("RiskInvalidReserveBidPrice")
          ELSE IF a.aborted /\ P!Remaining(moved) > 0
          THEN P!Done(P!Matched(p, a, side), outa, p.action)
          ELSE P!Done(ra, a.events, p.action)
  BY Zenon DEF P!MoveOrder
<1>4. \A code : Answers(Refuse(code), RefuseA(code))
  BY RefusedAnswers
<1>5. ASSUME Owns(b, cmd)
      PROVE  /\ p = Plain(o) /\ PlainOf(p, o) /\ cmd.id \in DOMAIN b.index
             /\ P!MoveAllowed(p, cmd.price, sp) <=> MoveAllowed(o, cmd.price, sp)
             /\ \E s, t, n : Named(b, cmd.id, s, t, n)
  <2>1. cmd.id \in DOMAIN b.index
    BY <1>5 DEF Owns
  <2>2. PICK s, t, n : Named(b, cmd.id, s, t, n)
    BY <2>1, NamedIs
  <2>3. p = Plain(o)
    BY ONLY <1>1, <2>1 DEF NamedSame
  <2>4. PlainOf(p, o)
    BY ONLY <2>2, <2>3 DEF Named
  <2> HIDE DEF p
  <2>5. P!MoveAllowed(p, cmd.price, sp) <=> MoveAllowed(o, cmd.price, sp)
    BY ONLY <2>4 DEF PlainOf, MoveAllowed, P!MoveAllowed
  <2>6. QED
    BY <2>1, <2>2, <2>3, <2>4, <2>5
<1>6. CASE Owns(b, cmd) /\ MoveAllowed(o, cmd.price, sp) /\ ~(cmd.price <= 0)
  <2>1. PICK s, t, n : Named(b, cmd.id, s, t, n)
    BY <1>5, <1>6
  <2>2. /\ p = Plain(o) /\ PlainOf(p, o) /\ cmd.id \in DOMAIN b.index
        /\ P!MoveAllowed(p, cmd.price, sp)
    BY <1>5, <1>6
  <2>16. cmd.price \in Nat
    BY <1>6
  <2>3. Moving(b, cmd.id, s, t, n, cmd.price, sp)
    BY <1>6, <2>1, <2>2, <2>16 DEF Moving
  <2>4. MoveMade(b, cmd.id, cmd.price, sp)
    BY <2>3, MoveIsMade
  <2>5. p.action = o.action /\ p.reserve = o.reserve /\ p.size = o.size /\ p.filled = o.filled
        /\ p.id = cmd.id /\ p \in AllOrders
    BY ONLY Zenon, <2>1, <2>2 DEF PlainOf, Named, AllOrders
  <2>6. a = P!TryMatch(BookView(b)[Opposite(o.action)], Retaker(Plain(o), cmd.price), sp.stp)
    <3>1. P!Retaker(p, cmd.price) = Retaker(Plain(o), cmd.price)
      BY ONLY Zenon, <2>2, Translated DEF P!Retaker, Retaker, SameWords
    <3>2. P!Opposite(p.action) = Opposite(o.action)
      BY ONLY <2>5, Translated DEF SameWords
    <3>3. QED
      BY ONLY <3>1, <3>2
  <2> HIDE DEF p
  <2>7. /\ Landed(after, a, b, cmd.id, cmd.price, m.filled)
        /\ m.events = a.events /\ m.filled = a.filled /\ m.aborted = a.aborted
        /\ m.filled \in Int
    BY ONLY Zenon, <2>4, <2>6 DEF MoveMade
  <2> HIDE DEF a, m, after
  <2>8. /\ moved = Moved(p, cmd.price, m.filled) /\ P!Remaining(moved) = left /\ left \in Int
    <3>1. /\ Remade(p, cmd.price, m.filled) = Moved(p, cmd.price, m.filled)
          /\ Remaining(Moved(p, cmd.price, m.filled)) = p.size - (p.filled + m.filled)
          /\ Remaining(Moved(p, cmd.price, m.filled)) \in Int
      BY <2>5, <2>7, MovedIs
    <3>4. moved = Remade(p, cmd.price, m.filled)
      <4>1. a.filled = m.filled
        BY <2>7
      <4>2. moved = Remade(p, cmd.price, a.filled)
        BY Zenon DEF Remade, moved
      <4>3. QED
        BY ONLY <4>1, <4>2
    <3>2. \A x : P!Remaining(x) = Remaining(x)
      BY ONLY Translated DEF SameWords
    <3>3. left = p.size - (p.filled + m.filled)
      BY ONLY <2>5 DEF Refilled
    <3> HIDE DEF left, moved
    <3>5. QED
      BY ONLY <3>1, <3>2, <3>3, <3>4
  <2> HIDE DEF moved, left
  <2>9. /\ Settled(Free(after, i)) /\ BookView(Free(after, i)) = P!Matched(p, a, side)
        /\ Settled(InsertOrder(after, i))
        /\ BookView(InsertOrder(after, i)) = P!Matched(p, a, P!Insert(side, moved))
    BY ONLY Zenon, <2>2, <2>5, <2>7, <2>8 DEF Landed
  <2> HIDE DEF side
  <2>10. out = outa
    <3>1. P!Reject(P!Remaining(moved), p.reserve) = Reject(left, o.reserve)
      BY ONLY <2>5, <2>8, Translated DEF SameWords
    <3>2. QED
      BY ONLY <2>7, <3>1
  <2>11. left <= 0 <=> ~(P!Remaining(moved) > 0)
    BY ONLY <2>8
  <2>12. Settled(r) /\ BookView(r) = ra
    BY ONLY <2>9, <2>11
  <2> HIDE DEF r, ra, out, outa
  <2>13. CASE m.aborted /\ left > 0
    <3>1. /\ MoveOrder(b, cmd, sp) = Done(Free(after, i), out, o.action)
          /\ P!MoveOrder(BookView(b), cmd, sp)
               = P!Done(BookView(Free(after, i)), out, o.action)
      <4>1. MoveOrder(b, cmd, sp) = Done(Free(after, i), out, o.action)
        BY ONLY <1>2, <1>6, <2>2, <2>13
      <4>2. P!MoveOrder(BookView(b), cmd, sp) = P!Done(P!Matched(p, a, side), outa, p.action)
        BY ONLY Zenon, <1>1, <1>3, <1>6, <2>2, <2>7, <2>8, <2>13 DEF NamedSame
      <4>3. QED
        BY ONLY <2>5, <2>9, <2>10, <4>1, <4>2
    <3>2. QED
      BY <2>9, <3>1, DoneAnswers
  <2>14. CASE ~(m.aborted /\ left > 0)
    <3>1. /\ MoveOrder(b, cmd, sp) = Done(r, m.events, o.action)
          /\ P!MoveOrder(BookView(b), cmd, sp) = P!Done(BookView(r), m.events, o.action)
      <4>1. MoveOrder(b, cmd, sp) = Done(r, m.events, o.action)
        BY ONLY <1>2, <1>6, <2>2, <2>14
      <4>2. P!MoveOrder(BookView(b), cmd, sp) = P!Done(ra, a.events, p.action)
        BY ONLY Zenon, <1>1, <1>3, <1>6, <2>2, <2>7, <2>8, <2>14 DEF NamedSame
      <4>3. QED
        BY ONLY <2>5, <2>7, <2>12, <4>1, <4>2
    <3>2. QED
      BY <2>12, <3>1, DoneAnswers
  <2>15. QED
    BY <2>13, <2>14
<1>7. CASE ~(Owns(b, cmd) /\ MoveAllowed(o, cmd.price, sp) /\ ~(cmd.price <= 0))
  <2> HIDE DEF p, m, a, after, left, moved, side, out, outa, r, ra, Refuse, RefuseA
  <2>1. CASE cmd.id \notin DOMAIN b.index
    <3>1. /\ MoveOrder(b, cmd, sp) = Refuse("MatchingUnknownOrderId")
          /\ P!MoveOrder(BookView(b), cmd, sp) = RefuseA("MatchingUnknownOrderId")
      BY ONLY <1>1, <1>2, <1>3, <2>1 DEF NamedSame
    <3>2. QED
      BY ONLY <1>4, <3>1
  <2>2. CASE cmd.id \in DOMAIN b.index /\ cmd.price <= 0
    <3>1. /\ MoveOrder(b, cmd, sp) = Refuse("RiskInvalidOrderParams")
          /\ P!MoveOrder(BookView(b), cmd, sp) = RefuseA("RiskInvalidOrderParams")
      BY ONLY <1>1, <1>2, <1>3, <2>2 DEF NamedSame
    <3>2. QED
      BY ONLY <1>4, <3>1
  <2>3. CASE cmd.id \in DOMAIN b.index /\ ~(cmd.price <= 0) /\ ~Owns(b, cmd)
    <3>1. /\ MoveOrder(b, cmd, sp) = Refuse("MatchingUnknownOrderId")
          /\ P!MoveOrder(BookView(b), cmd, sp) = RefuseA("MatchingUnknownOrderId")
      BY ONLY <1>1, <1>2, <1>3, <2>3 DEF NamedSame
    <3>2. QED
      BY ONLY <1>4, <3>1
  <2>4. CASE ~(cmd.price <= 0) /\ Owns(b, cmd) /\ ~MoveAllowed(o, cmd.price, sp)
    <3>1. cmd.id \in DOMAIN b.index /\ ~P!MoveAllowed(p, cmd.price, sp)
      BY <1>5, <2>4
    <3>2. /\ MoveOrder(b, cmd, sp) = Refuse("RiskInvalidReserveBidPrice")
          /\ P!MoveOrder(BookView(b), cmd, sp) = RefuseA("RiskInvalidReserveBidPrice")
      BY ONLY <1>1, <1>2, <1>3, <2>4, <3>1 DEF NamedSame
    <3>3. QED
      BY ONLY <1>4, <3>2
  <2>5. cmd.id \notin DOMAIN b.index => ~Owns(b, cmd)
    BY DEF Owns
  <2>6. QED
    BY ONLY <1>7, <2>1, <2>2, <2>3, <2>4, <2>5
<1>8. QED
  BY <1>6, <1>7

-----------------------------------------------------------------------------
(* The budget of a fill-or-kill order *)

BudgetStart(b, action, size) ==
  [maker |-> b.best[Opposite(action)], left |-> size, cost |-> 0, filled |-> FALSE]

\* The runs over the buckets are what their definition says.
IsBudgets(f, b, action, size) ==
  f = [n \in 0..Cardinality(DOMAIN b.orders) |->
         IF n = 0
         THEN [maker |-> b.best[Opposite(action)], left |-> size, cost |-> 0, filled |-> FALSE]
         ELSE Budget(b, f[n - 1])]

LEMMA BudgetsExist ==
  ASSUME NEW b, Cardinality(DOMAIN b.orders) \in Nat, NEW action, NEW size
  PROVE  \E f : IsBudgets(f, b, action, size)
<1> DEFINE Row(f, m) ==
             IF m = 0
             THEN [maker |-> b.best[Opposite(action)], left |-> size, cost |-> 0,
                   filled |-> FALSE]
             ELSE Budget(b, f[m - 1])
           T == {n \in Nat : \E f : f = [m \in 0..n |-> Row(f, m)]}
<1>1. \A f, g : Row(f, 0) = Row(g, 0)
  OBVIOUS
<1>2. \A f, g, m : f[m - 1] = g[m - 1] => Row(f, m) = Row(g, m)
  OBVIOUS
<1> HIDE DEF Row
<1>3. 0 \in T
  <2> DEFINE f == [m \in 0..0 |-> Row(<<>>, 0)]
  <2>1. \A m \in 0..0 : m = 0
    OBVIOUS
  <2>2. \A m \in 0..0 : Row(<<>>, 0) = Row(f, m)
    <3> HIDE DEF f
    <3>1. QED
      BY <1>1, <2>1
  <2>3. f = [m \in 0..0 |-> Row(f, m)]
    BY <2>2
  <2> HIDE DEF f
  <2>4. QED
    BY <2>3
<1>4. ASSUME NEW n \in Nat, n \in T
      PROVE  n + 1 \in T
  <2>1. PICK f : f = [m \in 0..n |-> Row(f, m)]
    BY <1>4
  <2> DEFINE g == [m \in 0..n + 1 |-> IF m = n + 1 THEN Row(f, n + 1) ELSE f[m]]
  <2>2. ASSUME NEW m \in 0..n + 1
        PROVE  g[m] = Row(g, m)
    <3>1. g[m] = IF m = n + 1 THEN Row(f, n + 1) ELSE f[m]
      OBVIOUS
    <3>2. m # n + 1 => m \in 0..n /\ f[m] = Row(f, m)
      BY <2>1
    <3>3. m # 0 => m - 1 \in 0..n + 1 /\ m - 1 # n + 1
      OBVIOUS
    <3>4. m # 0 => g[m - 1] = f[m - 1]
      BY <3>3
    <3> HIDE DEF g
    <3>5. Row(f, m) = Row(g, m)
      BY <3>4, <1>1, <1>2
    <3>6. QED
      BY <3>1, <3>2, <3>5
  <2>3. g = [m \in 0..n + 1 |-> Row(g, m)]
    BY <2>2
  <2> HIDE DEF g
  <2>4. QED
    BY <2>3
<1>5. \A n \in Nat : n \in T
  <2> HIDE DEF T
  <2>1. QED
    BY <1>3, <1>4, SetInduction
<1>6. PICK f : f = [m \in 0..Cardinality(DOMAIN b.orders) |-> Row(f, m)]
  BY <1>5
<1>7. IsBudgets(f, b, action, size)
  BY ONLY Zenon, <1>6 DEF IsBudgets, Row
<1>8. QED
  BY <1>7

BudgetsHave(at, b, action, size) ==
  /\ at[0] = BudgetStart(b, action, size)
  /\ \A n \in 1..Cardinality(DOMAIN b.orders) : at[n] = Budget(b, at[n - 1])

LEMMA BudgetsAre ==
  ASSUME NEW b, Cardinality(DOMAIN b.orders) \in Nat, NEW action, NEW size
  PROVE  BudgetsHave(Budgets(b, action, size), b, action, size)
<1> DEFINE at == Budgets(b, action, size)
           c == Cardinality(DOMAIN b.orders)
<1>1. PICK f : IsBudgets(f, b, action, size)
  BY BudgetsExist
<1>2. at = CHOOSE g : IsBudgets(g, b, action, size)
  BY Zenon DEF Budgets, IsBudgets
<1>3. IsBudgets(at, b, action, size)
  <2> HIDE DEF at
  <2>1. QED
    BY <1>1, <1>2
<1> HIDE DEF at
<1>4. \A n \in 0..c : at[n] = IF n = 0 THEN BudgetStart(b, action, size)
                              ELSE Budget(b, at[n - 1])
  BY Zenon, <1>3 DEF IsBudgets, BudgetStart
<1>5. 0 \in 0..c /\ \A n \in 1..c : n \in 0..c /\ n # 0
  OBVIOUS
<1>6. BudgetsHave(at, b, action, size)
  BY ONLY <1>4, <1>5 DEF BudgetsHave
<1>7. QED
  BY <1>6 DEF at

\* One bucket after the other: nothing is left of the list, the bucket is used up, or
\* it is enough.
BudgetRun(maker, left, cost, filled) ==
  [maker |-> maker, left |-> left, cost |-> cost, filled |-> filled]

SetBudget(s, maker, left, cost) ==
  [s EXCEPT !.maker = maker, !.left = left, !.cost = cost]
SetFilledCost(s, filled, cost) ==
  [s EXCEPT !.filled = filled, !.cost = cost]

LEMMA BudgetChanged ==
  ASSUME NEW m, NEW l, NEW c, NEW f, NEW m2, NEW l2, NEW c2, NEW f2
  PROVE  /\ SetBudget(BudgetRun(m, l, c, f), m2, l2, c2) = BudgetRun(m2, l2, c2, f)
         /\ SetFilledCost(BudgetRun(m, l, c, f), f2, c2) = BudgetRun(m, l, c2, f2)
<1> DEFINE s == BudgetRun(m, l, c, f)
<1>1. SetBudget(s, m2, l2, c2) = BudgetRun(m2, l2, c2, f)
  <2> DEFINE s1 == [s EXCEPT !.maker = m2]
             s2 == [s1 EXCEPT !.left = l2]
             s3 == [s2 EXCEPT !.cost = c2]
  <2>1. SetBudget(s, m2, l2, c2) = s3
    BY DEF SetBudget
  <2>2. s1 = BudgetRun(m2, l, c, f)
    BY DEF BudgetRun
  <2> HIDE DEF s1
  <2>3. s2 = BudgetRun(m2, l2, c, f)
    BY ONLY <2>2 DEF BudgetRun
  <2> HIDE DEF s2
  <2>4. s3 = BudgetRun(m2, l2, c2, f)
    BY ONLY <2>3 DEF BudgetRun
  <2>5. QED
    BY <2>1, <2>4
<1>2. SetFilledCost(s, f2, c2) = BudgetRun(m, l, c2, f2)
  <2> DEFINE s1 == [s EXCEPT !.filled = f2]
             s2 == [s1 EXCEPT !.cost = c2]
  <2>1. SetFilledCost(s, f2, c2) = s2
    BY DEF SetFilledCost
  <2>2. s1 = BudgetRun(m, l, c, f2)
    BY DEF BudgetRun
  <2> HIDE DEF s1
  <2>3. s2 = BudgetRun(m, l, c2, f2)
    BY ONLY <2>2 DEF BudgetRun
  <2>4. QED
    BY <2>1, <2>3
<1>3. QED
  BY <1>1, <1>2

Budgeted(b, maker, left, cost, r) ==
  LET bucket == b.buckets[b.orders[maker].parent]
      price == b.orders[maker].price
  IN  /\ maker = None => r = BudgetRun(maker, left, cost, FALSE)
      /\ maker # None /\ left > bucket.volume =>
           r = BudgetRun(b.orders[bucket.tail].prev, left - bucket.volume,
                         cost + bucket.volume * price, FALSE)
      /\ maker # None /\ ~(left > bucket.volume) =>
           r = BudgetRun(maker, left, cost + left * price, TRUE)

LEMMA BudgetStep ==
  ASSUME NEW b, NEW maker, NEW left, NEW cost
  PROVE  /\ Budgeted(b, maker, left, cost, Budget(b, BudgetRun(maker, left, cost, FALSE)))
         /\ Budget(b, BudgetRun(maker, left, cost, TRUE)) = BudgetRun(maker, left, cost, TRUE)
<1> DEFINE order == b.orders[maker]
           bucket == b.buckets[order.parent]
           s == BudgetRun(maker, left, cost, FALSE)
           full == BudgetRun(maker, left, cost, TRUE)
           next == [s EXCEPT !.maker = b.orders[bucket.tail].prev,
                             !.left = @ - bucket.volume,
                             !.cost = @ + bucket.volume * order.price]
           last == [s EXCEPT !.filled = TRUE, !.cost = @ + s.left * order.price]
<1>1. /\ s.maker = maker /\ s.left = left /\ s.cost = cost /\ s.filled = FALSE
      /\ full.filled = TRUE
  BY DEF BudgetRun
<1>2. next = BudgetRun(b.orders[bucket.tail].prev, left - bucket.volume,
                       cost + bucket.volume * order.price, FALSE)
  <2> DEFINE m2 == b.orders[bucket.tail].prev
             l2 == s.left - bucket.volume
             c2 == s.cost + bucket.volume * order.price
  <2>1. next = SetBudget(s, m2, l2, c2)
    BY Zenon DEF SetBudget
  <2>2. l2 = left - bucket.volume /\ c2 = cost + bucket.volume * order.price
    BY <1>1, Zenon
  <2> HIDE DEF next, m2, l2, c2
  <2>3. SetBudget(s, m2, l2, c2) = BudgetRun(m2, l2, c2, FALSE)
    <3>1. \A f : SetBudget(BudgetRun(maker, left, cost, f), m2, l2, c2)
                   = BudgetRun(m2, l2, c2, f)
      BY ONLY BudgetChanged
    <3>2. QED
      BY ONLY <3>1, Zenon DEF s
  <2>4. m2 = b.orders[bucket.tail].prev
    BY DEF m2
  <2>5. QED
    BY ONLY <2>1, <2>2, <2>3, <2>4, Zenon
<1>3. last = BudgetRun(maker, left, cost + left * order.price, TRUE)
  <2> DEFINE c2 == s.cost + s.left * order.price
  <2>1. last = SetFilledCost(s, TRUE, c2)
    BY Zenon DEF SetFilledCost
  <2>2. c2 = cost + left * order.price
    BY <1>1, Zenon
  <2> HIDE DEF last, c2
  <2>3. SetFilledCost(s, TRUE, c2) = BudgetRun(maker, left, c2, TRUE)
    <3>1. \A f, x : SetFilledCost(BudgetRun(maker, left, cost, f), x, c2)
                      = BudgetRun(maker, left, c2, x)
      BY ONLY BudgetChanged
    <3>2. QED
      BY ONLY <3>1, Zenon DEF s
  <2>4. QED
    BY ONLY <2>1, <2>2, <2>3, Zenon
<1>4. Budget(b, s) = IF s.maker = None \/ s.filled THEN s
                     ELSE IF s.left > b.buckets[b.orders[s.maker].parent].volume
                     THEN [s EXCEPT !.maker = b.orders[b.buckets[b.orders[s.maker].parent].tail].prev,
                             !.left = @ - b.buckets[b.orders[s.maker].parent].volume,
                             !.cost = @ + b.buckets[b.orders[s.maker].parent].volume
                                            * b.orders[s.maker].price]
                     ELSE [s EXCEPT !.filled = TRUE,
                                    !.cost = @ + s.left * b.orders[s.maker].price]
  BY Zenon DEF Budget
<1>5. Budget(b, s) = IF maker = None \/ FALSE THEN s
                     ELSE IF left > bucket.volume THEN next ELSE last
  BY ONLY <1>1, <1>4, Zenon
<1>6. Budget(b, full) = full
  BY Zenon, <1>1 DEF Budget
<1> DEFINE bs == Budget(b, s)
<1> HIDE DEF next, last, bs
<1>7. bs = IF maker = None THEN s ELSE IF left > bucket.volume THEN next ELSE last
  BY Zenon, <1>5 DEF bs
<1>8. Budgeted(b, maker, left, cost, bs)
  BY ONLY Zenon, <1>2, <1>3, <1>7 DEF Budgeted, s
<1>9. QED
  BY Zenon, <1>6, <1>8 DEF bs

\* No order in front of the m-th one has its price.
Heads(b, s, m) ==
  /\ m \in 1..Len(s) + 1
  /\ m <= Len(s) => \A j \in 1..Len(s) :
       j < m => b.orders[s[j]].price # b.orders[s[m]].price

\* The slots of the list from the i-th to the k-th one.
Stretch(s, i, k) == {s[j] : j \in i..k}

\* The level that begins with the m-th order ends with the k-th one.
LevelTo(b, s, m, k) ==
  LET p == b.orders[s[m]].price
      bucket == b.buckets[b.orders[s[m]].parent]
  IN  /\ m \in 1..Len(s) /\ k \in m..Len(s) /\ p \in Nat
      /\ \A j \in m..k : b.orders[s[j]].price = p
      /\ Heads(b, s, k + 1)
      /\ b.orders[bucket.tail].prev = Spot(s, k + 1)
      /\ bucket.volume = Volume(b, Stretch(s, m, k))

LEMMA LevelIs ==
  ASSUME NEW b, NEW action \in Actions, NEW s, Typed(b), SideSound(b, action, s),
         NEW m \in 1..Len(s), Heads(b, s, m)
  PROVE  \E k : LevelTo(b, s, m, k)
<1> DEFINE p == b.orders[s[m]].price
           bucket == b.buckets[b.orders[s[m]].parent]
           Price(j) == b.orders[s[j]].price
<1>1. /\ Len(s) \in Nat
      /\ \A j \in 1..Len(s) : /\ s[j] \in DOMAIN b.orders /\ s[j] \in ToSet(s)
                             /\ b.orders[s[j]].prev = Spot(s, j + 1)
                             /\ b.orders[s[j]].price \in Int
      /\ \A i \in ToSet(s) : \E j \in 1..Len(s) : s[j] = i
  <2>1. ListOf(b, action, s)
    BY ListIs DEF SideSound
  <2>2. QED
    BY ONLY <2>1 DEF ListOf
<1>2. p \in Nat
  BY <1>1, SlotTypes
<1>3. BucketOf(b, s, p, bucket)
  <2>1. /\ \A n \in 1..Len(s) :
             /\ b.orders[s[n]].price \in DOMAIN b.levels[action]
             /\ b.orders[s[n]].parent = b.levels[action][b.orders[s[n]].price]
        /\ \A q \in DOMAIN b.levels[action] :
             BucketOf(b, s, q, b.buckets[b.levels[action][q]])
    BY DEF SideSound, Filed
  <2>2. p \in DOMAIN b.levels[action]
        /\ b.orders[s[m]].parent = b.levels[action][p]
    BY <2>1
  <2>3. BucketOf(b, s, p, b.buckets[b.levels[action][p]])
    BY ONLY Zenon, <2>1, <2>2
  <2>4. QED
    BY ONLY Zenon, <2>2, <2>3
<1>4. PICK k \in 1..Len(s) : /\ s[k] = bucket.tail /\ Price(k) = p
                             /\ \A j \in 1..Len(s) : Price(j) = p => j <= k
  BY ONLY Zenon, <1>3 DEF BucketOf, TailOf
<1>5. \A i, j \in 1..Len(s) : i < j => ~Ahead(action, Price(j), Price(i))
  BY DEF SideSound, Sorted
<1>6. \A i, j \in 1..Len(s) : i < j =>
        IF action = "Ask" THEN Price(i) <= Price(j) ELSE Price(j) <= Price(i)
  <2>1. \A j \in 1..Len(s) : Price(j) \in Int
    BY <1>1
  <2> HIDE DEF Price
  <2>2. QED
    BY ONLY <1>5, <2>1 DEF Ahead
<1>7. Price(m) = p /\ \A j \in 1..Len(s) : Price(j) \in Int
  BY <1>1
<1>8. \A j \in 1..Len(s) : j < m => Price(j) # p
  BY <1>1 DEF Heads
<1> HIDE DEF Price, p, bucket
<1>9. m <= k /\ k \in m..Len(s) /\ k + 1 \in 1..Len(s) + 1
  BY ONLY <1>1, <1>4, <1>7, m \in 1..Len(s)
<1>10. \A j \in m..k : j \in 1..Len(s) /\ Price(j) = p
  <2> SUFFICES ASSUME NEW j \in m..k
               PROVE  j \in 1..Len(s) /\ Price(j) = p
    OBVIOUS
  <2>1. j \in 1..Len(s)
    BY <1>1, <1>9
  <2>2. /\ m < j => IF action = "Ask" THEN Price(m) <= Price(j) ELSE Price(j) <= Price(m)
        /\ j < k => IF action = "Ask" THEN Price(j) <= Price(k) ELSE Price(k) <= Price(j)
    BY <1>6, <1>4, <2>1
  <2>3. Price(j) \in Int /\ p \in Int /\ Price(m) = p /\ Price(k) = p
    BY <1>2, <1>4, <1>7, <2>1
  <2>4. (j = m \/ m < j) /\ (j = k \/ j < k)
    BY <1>1, <1>9
  <2>5. QED
    BY ONLY <2>1, <2>2, <2>3, <2>4
<1>11. Heads(b, s, k + 1)
  <2>1. ASSUME k + 1 <= Len(s), NEW j \in 1..Len(s), j < k + 1
        PROVE  Price(j) # Price(k + 1)
    <3>1. k + 1 \in 1..Len(s) /\ ~(k + 1 <= k) /\ j <= k /\ k < k + 1 /\ k \in Int
      BY <1>1, <1>4, <2>1
    <3>2. Price(k + 1) # p
      BY <1>4, <3>1
    <3>3. CASE j \in m..k
      BY <1>10, <3>2, <3>3
    <3>4. CASE j < m
      <4>1. /\ IF action = "Ask" THEN Price(j) <= Price(m) ELSE Price(m) <= Price(j)
            /\ IF action = "Ask" THEN Price(m) <= Price(k + 1) ELSE Price(k + 1) <= Price(m)
        <5>1. m < k + 1
          BY <1>9, <3>1
        <5>2. QED
          BY ONLY <1>6, <2>1, <3>1, <3>4, <5>1, m \in 1..Len(s)
      <4>2. Price(j) \in Int /\ Price(m) \in Int /\ Price(k + 1) \in Int /\ Price(m) = p
        BY <1>7, <3>1
      <4>3. QED
        BY ONLY <3>2, <4>1, <4>2
    <3>5. QED
      BY <1>9, <3>1, <3>3, <3>4
  <2>2. k + 1 <= Len(s) => \A j \in 1..Len(s) : j < k + 1 => Price(j) # Price(k + 1)
    BY ONLY <2>1
  <2>3. QED
    BY ONLY <1>9, <2>2 DEF Heads, Price
<1>12. b.orders[bucket.tail].prev = Spot(s, k + 1)
  BY <1>1, <1>4
<1>13. Priced(b, s, p) = Stretch(s, m, k)
  <2>1. ASSUME NEW i \in Priced(b, s, p)
        PROVE  i \in Stretch(s, m, k)
    <3>1. i \in ToSet(s) /\ b.orders[i].price = p
      BY <2>1 DEF Priced
    <3>2. PICK j \in 1..Len(s) : s[j] = i
      BY <1>1, <3>1
    <3>3. Price(j) = p
      BY ONLY <3>1, <3>2 DEF Price
    <3>4. j \in m..k
      BY <1>1, <1>4, <1>8, <1>9, <3>3
    <3>5. QED
      BY <3>2, <3>4 DEF Stretch
  <2>2. ASSUME NEW i \in Stretch(s, m, k)
        PROVE  i \in Priced(b, s, p)
    <3>1. PICK j \in m..k : s[j] = i
      BY <2>2 DEF Stretch
    <3>2. b.orders[s[j]].price = p /\ j \in 1..Len(s)
      BY <1>10 DEF Price
    <3>3. QED
      BY <1>1, <3>1, <3>2 DEF Priced
  <2>3. QED
    BY Zenon, <2>1, <2>2
<1>14. bucket.volume = Volume(b, Stretch(s, m, k))
  BY ONLY <1>3, <1>13 DEF BucketOf
<1>15. \A j \in m..k : b.orders[s[j]].price = p
  BY ONLY <1>10 DEF Price
<1>16. LevelTo(b, s, m, k)
  BY ONLY <1>2, <1>9, <1>11, <1>12, <1>14, <1>15, m \in 1..Len(s) DEF LevelTo, p, bucket
<1>17. QED
  BY <1>16

\* What is left of a level from its i-th order on.
Rests(b, s, m, k) == [i \in m..k + 1 |-> Volume(b, Stretch(s, i, k))]

LEMMA LevelSums ==
  ASSUME NEW b, NEW action \in Actions, NEW s, Typed(b), Linked(b, action, s),
         P!SideOK(Plains(b, s), action, Users, OrderIds),
         NEW m, NEW k, LevelTo(b, s, m, k)
  PROVE  /\ P!OneLevel(Plains(b, s), m, k, b.orders[s[m]].price, Rests(b, s, m, k))
         /\ P!Sellable(Plains(b, s)) /\ Len(Plains(b, s)) = Len(s)
<1> DEFINE p == b.orders[s[m]].price
           side == Plains(b, s)
           w == Rests(b, s, m, k)
           R(j) == Remaining(b.orders[s[j]])
<1>1. /\ Len(s) \in Nat /\ s \in Seq(DOMAIN b.orders)
      /\ \A j \in 1..Len(s) : s[j] \in DOMAIN b.orders
      /\ \A i, j \in 1..Len(s) : s[i] = s[j] => i = j
  <2>1. ListOf(b, action, s) /\ s \in Seq(DOMAIN b.orders)
    BY ListIs DEF Linked
  <2>2. QED
    BY ONLY <2>1 DEF ListOf
<1>2. /\ Len(side) = Len(s)
      /\ \A j \in 1..Len(s) : /\ side[j] = Plain(b.orders[s[j]])
                             /\ PlainOf(Plain(b.orders[s[j]]), b.orders[s[j]])
  <2>1. PlainList(b, s)
    BY <1>1, PlainsAre
  <2>2. QED
    BY ONLY <2>1 DEF PlainList
<1>3. \A j \in 1..Len(s) : /\ side[j].price = b.orders[s[j]].price
                          /\ P!Remaining(side[j]) = R(j)
                          /\ side[j].size = b.orders[s[j]].size
                          /\ side[j].filled = b.orders[s[j]].filled
  BY ONLY <1>2, Translated DEF PlainOf, SameWords
<1>4. \A j \in 1..Len(s) : 0 <= side[j].filled /\ side[j].filled < side[j].size
  BY <1>2 DEF P!SideOK
<1>5. \A j \in 1..Len(s) : R(j) \in Nat \ {0}
  <2>1. ASSUME NEW j \in 1..Len(s)
        PROVE  R(j) \in Nat \ {0}
    <3>1. b.orders[s[j]].size \in Int /\ b.orders[s[j]].filled \in Int
      BY <1>1, SlotTypes
    <3>2. /\ 0 <= b.orders[s[j]].filled /\ b.orders[s[j]].filled < b.orders[s[j]].size
      BY <1>3, <1>4
    <3>3. QED
      BY ONLY <3>1, <3>2 DEF Remaining
  <2>2. QED
    BY <2>1
<1>6. \A j \in 1..Len(s) : b.orders[s[j]].price \in Nat
  BY <1>1, SlotTypes
<1>7. /\ m \in 1..Len(s) /\ k \in m..Len(s) /\ p \in Nat
      /\ \A j \in m..k : b.orders[s[j]].price = p
  BY ONLY LevelTo(b, s, m, k) DEF LevelTo
<1>8. P!Sellable(side)
  BY ONLY <1>1, <1>2, <1>3, <1>5, <1>6 DEF P!Sellable
<1>9. \A i \in m..k + 1 : Stretch(s, i, k) \in SUBSET DOMAIN b.orders
  <2>1. \A i \in m..k + 1 : \A j \in i..k : j \in 1..Len(s)
    BY ONLY <1>1, <1>7
  <2>2. QED
    BY ONLY <1>1, <2>1 DEF Stretch
<1> DEFINE V(i) == Volume(b, Stretch(s, i, k))
<1>10. \A i \in m..k + 1 : V(i) \in Int
  <2>1. ASSUME NEW i \in m..k + 1
        PROVE  V(i) \in Int
    <3>1. Stretch(s, i, k) \in SUBSET DOMAIN b.orders
      BY <1>9
    <3>2. QED
      BY ONLY <3>1, Typed(b), VolumeIs
  <2>2. QED
    BY <2>1
<1>11. V(k + 1) = 0
  <2>1. Stretch(s, k + 1, k) = {}
    BY ONLY <1>1, <1>7 DEF Stretch
  <2>2. DOMAIN [i \in Stretch(s, k + 1, k) |-> Remaining(b.orders[i])] = {}
    BY ONLY <2>1
  <2>3. QED
    BY ONLY Zenon, <2>2, SumEmpty DEF Volume
<1>12. \A i \in m..k : V(i) = R(i) + V(i + 1)
  <2>1. ASSUME NEW i \in m..k
        PROVE  V(i) = R(i) + V(i + 1)
    <3>1. i \in 1..Len(s) /\ i + 1 \in m..k + 1 /\ i \in i..k /\ i \in Int /\ k \in Int
      BY ONLY <1>1, <1>7, <2>1
    <3>2. s[i] \notin Stretch(s, i + 1, k)
      <4>1. \A j \in (i + 1)..k : j \in 1..Len(s) /\ j # i
        BY ONLY <1>1, <1>7, <3>1
      <4>2. QED
        BY ONLY <1>1, <3>1, <4>1 DEF Stretch
    <3>3. Stretch(s, i, k) = Stretch(s, i + 1, k) \cup {s[i]}
      <4>1. \A j : j \in i..k <=> j = i \/ j \in (i + 1)..k
        BY ONLY <3>1
      <4>2. QED
        BY ONLY <4>1 DEF Stretch
    <3>4. Stretch(s, i + 1, k) \in SUBSET DOMAIN b.orders /\ s[i] \in DOMAIN b.orders
      BY ONLY <1>1, <1>9, <3>1
    <3>5. s[i] \in DOMAIN b.orders \ Stretch(s, i + 1, k)
      BY ONLY <3>2, <3>4
    <3>6. Volume(b, Stretch(s, i + 1, k) \cup {s[i]})
            = Volume(b, Stretch(s, i + 1, k)) + Remaining(b.orders[s[i]])
      BY ONLY <3>4, <3>5, Typed(b), VolumeIs
    <3>7. V(i + 1) \in Int /\ R(i) \in Int
      BY <1>5, <1>10, <3>1
    <3>8. V(i) = V(i + 1) + R(i)
      BY ONLY <3>3, <3>6
    <3> HIDE DEF V, R
    <3>9. QED
      BY ONLY <3>7, <3>8
  <2>2. QED
    BY <2>1
<1> HIDE DEF V, R
<1>13. \A i \in m..k + 1 : V(i) \in Nat
  <2> DEFINE T == {i \in 1..k + 1 : i \in m..k + 1 => V(i) \in Nat}
  <2>1. k \in Nat /\ k + 1 \in T
    BY ONLY <1>1, <1>7, <1>11
  <2>2. ASSUME NEW i \in 1..k, i + 1 \in T
        PROVE  i \in T
    <3>1. CASE i \in m..k
      <4>1. i + 1 \in m..k + 1 /\ i \in 1..Len(s) /\ i \in 1..k + 1
        BY ONLY <1>1, <1>7, <3>1
      <4>2. V(i + 1) \in Nat /\ R(i) \in Nat
        BY <2>2, <4>1, <1>5
      <4>3. V(i) = R(i) + V(i + 1)
        BY ONLY <1>12, <3>1
      <4>4. QED
        BY <4>1, <4>2, <4>3
    <3>2. CASE i \notin m..k
      <4>1. i \notin m..k + 1 /\ i \in 1..k + 1
        BY ONLY <1>1, <1>7, <2>2, <3>2
      <4>2. QED
        BY <4>1
    <3>3. QED
      BY <3>1, <3>2
  <2>3. \A i \in 1..k + 1 : i \in T
    <3> HIDE DEF T
    <3>1. QED
      BY <2>1, <2>2, WalkInduction
  <2>4. \A i \in m..k + 1 : i \in 1..k + 1
    BY ONLY <1>1, <1>7
  <2>5. QED
    BY <2>3, <2>4
<1>14. \A i \in m..k + 1 : w[i] = V(i)
  BY DEF Rests, V
<1> HIDE DEF w, p, side
<1>15. P!OneLevel(side, m, k, p, w)
  <2>1. k + 1 \in m..k + 1 /\ k \in Int
    BY ONLY <1>1, <1>7
  <2>2. \A i \in m..k : i \in m..k + 1 /\ i + 1 \in m..k + 1 /\ i \in 1..Len(s)
    BY ONLY <1>1, <1>7
  <2>3. w[k + 1] = 0 /\ \A i \in m..k + 1 : w[i] \in Nat
    BY ONLY <1>11, <1>13, <1>14, <2>1
  <2>4. \A i \in m..k : w[i] = P!Remaining(side[i]) + w[i + 1]
    BY ONLY <1>3, <1>12, <1>14, <2>2
  <2>5. \A i \in m..k : side[i].price = p
    BY ONLY Zenon, <1>3, <1>7, <2>2
  <2>6. QED
    BY ONLY <1>2, <1>7, <2>3, <2>4, <2>5 DEF P!OneLevel
<1>16. QED
  BY <1>2, <1>8, <1>15 DEF p, side, w

\* The buckets looked at so far, and what the rest of the abstract side costs.
BudgetGoing(st, n, b, s, at, size) ==
  \E m \in 1..Len(s) + 1, left \in 0..size, cost \in Nat :
    /\ st = BudgetRun(Spot(s, m), left, cost, FALSE)
    /\ Heads(b, s, m) /\ (m > n \/ m = Len(s) + 1)
    /\ at[1][size] = IF at[m][left] = -1 THEN -1 ELSE cost + at[m][left]

BudgetMade(st, at, size) ==
  \E maker, left : \E cost \in Nat :
    st = BudgetRun(maker, left, cost, TRUE) /\ at[1][size] = cost

\* The side whose orders are paid for.
Paying(b, action, s, at, size) ==
  /\ action \in Actions /\ Typed(b) /\ SideSound(b, action, s)
  /\ P!SideOK(Plains(b, s), action, Users, OrderIds)
  /\ size \in Nat /\ P!CostRules(at, Plains(b, s), size)

LEMMA PayingIs ==
  ASSUME NEW b, NEW action, NEW s, NEW at, NEW size, Paying(b, action, s, at, size)
  PROVE  /\ P!Sellable(Plains(b, s)) /\ Len(Plains(b, s)) = Len(s) /\ Len(s) \in Nat
         /\ \A i \in 1..Len(s) + 1 : \A left \in 0..size :
              at[i][left] \in Nat \/ at[i][left] = -1
<1> DEFINE side == Plains(b, s)
<1>1. Typed(b) /\ s \in Seq(DOMAIN b.orders) /\ size \in Nat /\ P!CostRules(at, side, size)
  BY DEF Paying, SideSound, Linked
<1>2. /\ Len(side) = Len(s) /\ Len(s) \in Nat
      /\ \A j \in 1..Len(s) : /\ side[j] = Plain(b.orders[s[j]]) /\ s[j] \in DOMAIN b.orders
                             /\ PlainOf(Plain(b.orders[s[j]]), b.orders[s[j]])
  <2>1. PlainList(b, s)
    BY <1>1, PlainsAre
  <2>2. QED
    BY ONLY <2>1 DEF PlainList
<1>3. \A j \in 1..Len(s) : 0 <= side[j].filled /\ side[j].filled < side[j].size
  BY <1>2 DEF P!SideOK, Paying
<1>4. ASSUME NEW j \in 1..Len(s)
      PROVE  P!Remaining(side[j]) \in Nat \ {0} /\ side[j].price \in Nat
  <2> DEFINE o == b.orders[s[j]]
  <2>1. o.size \in Int /\ o.filled \in Int /\ o.price \in Nat
    BY Zenon, <1>1, <1>2, SlotTypes
  <2> HIDE DEF o
  <2>2. /\ side[j].price = o.price /\ P!Remaining(side[j]) = Remaining(o)
        /\ side[j].size = o.size /\ side[j].filled = o.filled
    BY ONLY <1>2, Translated DEF PlainOf, SameWords, o
  <2>3. QED
    BY ONLY <1>3, <2>1, <2>2 DEF Remaining
<1>5. P!Sellable(side)
  BY ONLY <1>2, <1>4 DEF P!Sellable
<1> HIDE DEF side
<1>6. \A i \in 1..Len(side) + 1 : \A left \in 0..size :
        at[i][left] \in Nat \/ at[i][left] = -1
  BY <1>1, <1>5, P!CostsTyped
<1>7. QED
  BY ONLY <1>2, <1>5, <1>6 DEF side

LEMMA BudgetBegins ==
  ASSUME NEW b, NEW action, NEW s, NEW at, NEW size, Paying(b, Opposite(action), s, at, size)
  PROVE  BudgetGoing(BudgetStart(b, action, size), 0, b, s, at, size)
<1> DEFINE side == Opposite(action)
<1>1. /\ Len(s) \in Nat /\ size \in Nat
      /\ \A i \in 1..Len(s) + 1 : \A left \in 0..size :
           at[i][left] \in Nat \/ at[i][left] = -1
  BY PayingIs DEF Paying
<1>2. b.best[side] = Spot(s, 1)
  BY DEF Paying, SideSound, Linked
<1>3. BudgetStart(b, action, size) = BudgetRun(Spot(s, 1), size, 0, FALSE)
  BY ONLY <1>2, Zenon DEF BudgetStart, BudgetRun
<1>4. 1 \in 1..Len(s) + 1 /\ size \in 0..size /\ 0 \in Nat /\ 1 > 0
  BY ONLY <1>1
<1>5. Heads(b, s, 1)
  <2>1. \A j \in 1..Len(s) : ~(j < 1)
    BY ONLY <1>1
  <2>2. QED
    BY ONLY <1>4, <2>1 DEF Heads
<1>6. at[1][size] = IF at[1][size] = -1 THEN -1 ELSE 0 + at[1][size]
  <2>1. at[1][size] \in Nat \/ at[1][size] = -1
    BY ONLY <1>1, <1>4
  <2>2. QED
    BY ONLY <2>1
<1>7. QED
  BY ONLY Zenon, <1>3, <1>4, <1>5, <1>6 DEF BudgetGoing

\* Another bucket.
LEMMA BudgetGoesOn ==
  ASSUME NEW b, NEW action, NEW s, NEW at, NEW size, Paying(b, action, s, at, size),
         NEW n \in Nat, NEW st, BudgetGoing(st, n, b, s, at, size)
  PROVE  \/ BudgetGoing(Budget(b, st), n + 1, b, s, at, size)
         \/ BudgetMade(Budget(b, st), at, size)
<1>1. PICK m \in 1..Len(s) + 1, left \in 0..size, cost \in Nat :
        /\ st = BudgetRun(Spot(s, m), left, cost, FALSE)
        /\ Heads(b, s, m) /\ (m > n \/ m = Len(s) + 1)
        /\ at[1][size] = IF at[m][left] = -1 THEN -1 ELSE cost + at[m][left]
  BY Zenon DEF BudgetGoing
<1>2. /\ action \in Actions /\ Typed(b) /\ SideSound(b, action, s) /\ Linked(b, action, s)
      /\ P!SideOK(Plains(b, s), action, Users, OrderIds)
      /\ size \in Nat /\ P!CostRules(at, Plains(b, s), size)
  BY DEF Paying, SideSound
<1>3. /\ Len(s) \in Nat /\ Len(Plains(b, s)) = Len(s)
      /\ \A i \in 1..Len(s) + 1 : \A l \in 0..size : at[i][l] \in Nat \/ at[i][l] = -1
  BY PayingIs
<1> DEFINE r == Budget(b, st)
           maker == Spot(s, m)
           total == at[1][size]
<1>4. Budgeted(b, maker, left, cost, r)
  <2>1. Budgeted(b, maker, left, cost, Budget(b, BudgetRun(maker, left, cost, FALSE)))
    BY Zenon, BudgetStep
  <2>2. QED
    BY ONLY Zenon, <1>1, <2>1
<1>5. CASE m = Len(s) + 1
  <2>1. maker = None
    BY <1>3, <1>5 DEF Spot
  <2>2. r = BudgetRun(maker, left, cost, FALSE)
    BY ONLY <1>4, <2>1 DEF Budgeted
  <2>3. BudgetGoing(r, n + 1, b, s, at, size)
    BY ONLY Zenon, <1>1, <1>5, <2>2 DEF BudgetGoing
  <2>4. QED
    BY <2>3
<1>6. CASE m # Len(s) + 1
  <2>1. m \in 1..Len(s) /\ m > n
    BY <1>1, <1>3, <1>6
  <2>2. PICK k : LevelTo(b, s, m, k)
    BY <1>1, <1>2, <2>1, LevelIs
  <2> DEFINE p == b.orders[s[m]].price
             bucket == b.buckets[b.orders[s[m]].parent]
             w == Rests(b, s, m, k)
             v == Volume(b, Stretch(s, m, k))
             all == v * p
             part == left * p
  <2>3. /\ k \in m..Len(s) /\ p \in Nat /\ Heads(b, s, k + 1)
        /\ b.orders[bucket.tail].prev = Spot(s, k + 1) /\ bucket.volume = v
    BY ONLY <2>2 DEF LevelTo
  <2>4. P!OneLevel(Plains(b, s), m, k, p, w) /\ P!Sellable(Plains(b, s))
    BY <1>2, <2>2, LevelSums
  <2>5. m \in m..k + 1 /\ k + 1 \in 1..Len(s) + 1 /\ k + 1 > n + 1 /\ n + 1 \in Nat
    <3>1. m \in Int /\ n \in Int /\ Len(s) \in Int /\ n \in Nat
      BY <1>3, <2>1
    <3>2. k \in m..Len(s) /\ m > n /\ m \in 1..Len(s)
      BY ONLY <2>1, <2>3
    <3>3. QED
      BY ONLY <3>1, <3>2
  <2>6. w[m] = v
    BY <2>5 DEF Rests
  <2>7. w[m] \in Nat
    BY ONLY <2>4, <2>5 DEF P!OneLevel
  <2>8. P!LevelPaid(at, m, k, p, w[m], size)
    <3> HIDE DEF w, p
    <3>1. QED
      BY <1>2, <2>4, P!LevelCost
  <2>9. /\ left <= v => at[m][left] = part
        /\ left > v => at[m][left] = IF at[k + 1][left - v] = -1 THEN -1
                                     ELSE all + at[k + 1][left - v]
    BY ONLY <2>6, <2>8, left \in 0..size DEF P!LevelPaid
  <2>10. maker = s[m] /\ maker # None
    <3>1. ListOf(b, action, s)
      BY <1>2, ListIs
    <3>2. s[m] \in Nat \ {0}
      BY ONLY <2>1, <3>1 DEF ListOf
    <3>3. QED
      BY <2>1, <3>2 DEF Spot, None
  <2>11. all \in Nat /\ part \in Nat /\ v \in Nat /\ left \in Nat
    <3>1. v \in Nat /\ left \in Nat /\ p \in Nat
      <4>1. left \in Nat
        BY <1>2
      <4>2. QED
        BY ONLY <2>3, <2>6, <2>7, <4>1
    <3> HIDE DEF v, p
    <3>2. QED
      BY ONLY <3>1, P!Amounts
  <2>12. /\ left > v => r = BudgetRun(Spot(s, k + 1), left - v, cost + all, FALSE)
         /\ ~(left > v) => r = BudgetRun(maker, left, cost + part, TRUE)
    <3>1. /\ left > bucket.volume =>
               r = BudgetRun(b.orders[bucket.tail].prev, left - bucket.volume,
                             cost + bucket.volume * p, FALSE)
          /\ ~(left > bucket.volume) => r = BudgetRun(maker, left, cost + left * p, TRUE)
      BY ONLY <1>4, <2>10, Zenon DEF Budgeted
    <3>2. QED
      BY ONLY <2>3, <3>1, Zenon
  <2> HIDE DEF v, p, all, part, r, maker, total
  <2>13. CASE left > v
    <3>1. left - v \in 0..size /\ cost + all \in Nat
      BY ONLY <2>11, <2>13, <1>2, left \in 0..size, cost \in Nat
    <3> DEFINE deep == at[k + 1][left - v]
               here == at[m][left]
    <3>2. deep \in Nat \/ deep = -1
      BY ONLY <1>3, <2>5, <3>1
    <3>3. here = IF deep = -1 THEN -1 ELSE all + deep
      BY ONLY <2>9, <2>13
    <3>4. total = IF here = -1 THEN -1 ELSE cost + here
      BY ONLY <1>1 DEF total
    <3> HIDE DEF deep, here
    <3>5. total = IF deep = -1 THEN -1 ELSE (cost + all) + deep
      BY ONLY <2>11, <3>2, <3>3, <3>4, cost \in Nat
    <3>6. BudgetGoing(r, n + 1, b, s, at, size)
      BY ONLY Zenon, <2>3, <2>5, <2>12, <2>13, <3>1, <3>5 DEF BudgetGoing, deep, total
    <3>7. QED
      BY <3>6 DEF r
  <2>14. CASE ~(left > v)
    <3>1. at[m][left] = part
      BY ONLY <2>9, <2>11, <2>14
    <3>2. total = cost + part /\ cost + part \in Nat
      BY ONLY <1>1, <2>11, <3>1, cost \in Nat DEF total
    <3>3. BudgetMade(r, at, size)
      BY ONLY Zenon, <2>12, <2>14, <3>2 DEF BudgetMade, total
    <3>4. QED
      BY <3>3 DEF r
  <2>15. QED
    BY <2>13, <2>14
<1>7. QED
  BY <1>5, <1>6

\* There are as many runs as slots: the last one has seen the whole list.
LEMMA BudgetEnds ==
  ASSUME NEW b, NEW action, NEW s, NEW at, NEW size, Paying(b, Opposite(action), s, at, size)
  PROVE  BudgetToFill(b, action, size) = at[1][size]
<1> DEFINE side == Opposite(action)
           c == Cardinality(DOMAIN b.orders)
           f == Budgets(b, action, size)
           Fine(n) == BudgetGoing(f[n], n, b, s, at, size) \/ BudgetMade(f[n], at, size)
           T == {n \in Nat : n <= c => Fine(n)}
<1>1. Typed(b) /\ Linked(b, side, s) /\ size \in Nat /\ P!CostRules(at, Plains(b, s), size)
  BY DEF Paying, SideSound
<1>2. /\ Len(s) \in Nat /\ Len(Plains(b, s)) = Len(s)
      /\ \A i \in 1..Len(s) + 1 : \A l \in 0..size : at[i][l] \in Nat \/ at[i][l] = -1
  BY PayingIs
<1>3. c \in Nat /\ Len(s) <= c
  <2>1. IsFiniteSet(DOMAIN b.orders) /\ c \in Nat
    BY <1>1, FS_CardinalityType DEF Typed
  <2>2. IsFiniteSet(1..Len(s)) /\ Cardinality(1..Len(s)) = Len(s)
    <3>1. Len(s) \in Nat
      BY <1>2
    <3>2. QED
      BY ONLY <3>1, UpTo
  <2>3. ListOf(b, side, s)
    BY <1>1, ListIs
  <2> DEFINE g == [n \in 1..Len(s) |-> s[n]]
  <2>4. g \in [1..Len(s) -> DOMAIN b.orders] /\ \A m, n \in 1..Len(s) : g[m] = g[n] => m = n
    BY ONLY <2>3 DEF ListOf
  <2> HIDE DEF g
  <2>5. ~(c < Len(s))
    BY <2>1, <2>2, <2>4, FS_PigeonHole
  <2>6. QED
    BY <1>2, <2>1, <2>5
<1>4. /\ f[0] = BudgetStart(b, action, size)
      /\ \A n \in 1..c : f[n] = Budget(b, f[n - 1])
  <2>1. BudgetsHave(f, b, action, size)
    BY <1>3, BudgetsAre
  <2>2. QED
    BY ONLY <2>1 DEF BudgetsHave
<1> HIDE DEF f, c
<1>5. 0 \in T
  <2>1. BudgetGoing(f[0], 0, b, s, at, size)
    BY <1>4, BudgetBegins
  <2>2. QED
    BY <2>1
<1>6. ASSUME NEW n \in Nat, n \in T
      PROVE  n + 1 \in T
  <2>1. SUFFICES ASSUME n + 1 <= c
                 PROVE  Fine(n + 1)
    <3> HIDE DEF Fine
    <3>1. QED
      OBVIOUS
  <2>2. n <= c /\ n + 1 \in 1..c /\ (n + 1) - 1 = n
    BY <1>3, <2>1
  <2>3. f[n + 1] = Budget(b, f[n])
    BY ONLY <1>4, <2>2
  <2>4. Fine(n)
    BY <1>6, <2>2
  <2>5. CASE BudgetGoing(f[n], n, b, s, at, size)
    <3>1. \/ BudgetGoing(Budget(b, f[n]), n + 1, b, s, at, size)
          \/ BudgetMade(Budget(b, f[n]), at, size)
      BY <2>5, BudgetGoesOn
    <3>2. QED
      BY <2>3, <3>1
  <2>6. CASE BudgetMade(f[n], at, size)
    <3>1. PICK maker, left : \E cost \in Nat :
            f[n] = BudgetRun(maker, left, cost, TRUE) /\ at[1][size] = cost
      BY ONLY Zenon, <2>6 DEF BudgetMade
    <3>2. PICK cost \in Nat :
            f[n] = BudgetRun(maker, left, cost, TRUE) /\ at[1][size] = cost
      BY Zenon, <3>1
    <3>3. Budget(b, BudgetRun(maker, left, cost, TRUE)) = BudgetRun(maker, left, cost, TRUE)
      BY Zenon, BudgetStep
    <3>4. f[n + 1] = f[n]
      BY ONLY Zenon, <2>3, <3>2, <3>3
    <3>5. QED
      BY <2>6, <3>4
  <2>7. QED
    BY <2>4, <2>5, <2>6
<1>7. Fine(c)
  <2>1. \A n \in Nat : n \in T
    <3> HIDE DEF T
    <3>1. QED
      BY <1>5, <1>6, SetInduction
  <2>2. c <= c
    BY <1>3
  <2>3. QED
    BY <1>3, <2>1, <2>2
<1>8. BudgetToFill(b, action, size) = IF f[c].filled THEN f[c].cost ELSE -1
  BY Zenon DEF BudgetToFill, f, c
<1>9. CASE BudgetGoing(f[c], c, b, s, at, size)
  <2>1. PICK m \in 1..Len(s) + 1, left \in 0..size, cost \in Nat :
          /\ f[c] = BudgetRun(Spot(s, m), left, cost, FALSE)
          /\ Heads(b, s, m) /\ (m > c \/ m = Len(s) + 1)
          /\ at[1][size] = IF at[m][left] = -1 THEN -1 ELSE cost + at[m][left]
    BY ONLY Zenon, <1>9 DEF BudgetGoing
  <2>2. m = Len(s) + 1
    BY <1>2, <1>3, <2>1
  <2>3. at[m][left] = -1
    BY ONLY <1>1, <1>2, <2>2, left \in 0..size DEF P!CostRules
  <2>4. f[c].filled = FALSE
    <3>1. BudgetRun(Spot(s, m), left, cost, FALSE).filled = FALSE
      BY ONLY Zenon DEF BudgetRun
    <3>2. QED
      BY ONLY Zenon, <2>1, <3>1
  <2>5. QED
    BY ONLY Zenon, <1>8, <2>1, <2>3, <2>4
<1>10. CASE BudgetMade(f[c], at, size)
  <2>1. PICK maker, left : \E cost \in Nat :
          f[c] = BudgetRun(maker, left, cost, TRUE) /\ at[1][size] = cost
    BY ONLY Zenon, <1>10 DEF BudgetMade
  <2>2. f[c].filled = TRUE /\ at[1][size] = f[c].cost
    <3>1. PICK cost \in Nat :
            f[c] = BudgetRun(maker, left, cost, TRUE) /\ at[1][size] = cost
      BY Zenon, <2>1
    <3>2. /\ BudgetRun(maker, left, cost, TRUE).filled = TRUE
          /\ BudgetRun(maker, left, cost, TRUE).cost = cost
      BY ONLY Zenon DEF BudgetRun
    <3>3. QED
      BY ONLY Zenon, <3>1, <3>2
  <2>3. QED
    BY ONLY <1>8, <2>2
<1>11. QED
  BY <1>7, <1>9, <1>10

\* check_budget_to_fill says of the buckets what it costs to take the orders one by one.
LEMMA BudgetIs ==
  ASSUME NEW b, NEW s, NEW t, NEW taker, NEW stp, Placing(b, s, t, taker, stp)
  PROVE  BudgetToFill(b, taker.action, taker.size)
           = P!BudgetToFill(Facing(b, taker), taker.size)
<1> DEFINE side == Opposite(taker.action)
           at == P!Costs(Plains(b, s), taker.size)
<1>1. Placed(b, s, t, taker, stp)
  BY PlacedIs
<1>2. /\ side \in Actions /\ Facing(b, taker) = Plains(b, s)
      /\ Sound(b, side, s, t) /\ P!Setting(Plains(b, s), taker, stp, Users, OrderIds)
  BY ONLY <1>1, Zenon DEF Placed, Entering
<1>3. taker.size \in Nat
  BY DEF Placing
<1>4. Typed(b) /\ SideSound(b, side, s)
  BY <1>2 DEF Sound
<1>5. P!SideOK(Plains(b, s), side, Users, OrderIds)
  BY ONLY <1>2, Translated DEF P!Setting, SameWords
<1>6. Len(Plains(b, s)) \in Nat
  BY ONLY <1>5 DEF P!SideOK
<1>7. P!CostRules(at, Plains(b, s), taker.size)
  BY <1>3, <1>6, P!CostsAre
<1>8. Paying(b, side, s, at, taker.size)
  BY ONLY <1>2, <1>3, <1>4, <1>5, <1>7 DEF Paying
<1>9. P!BudgetToFill(Plains(b, s), taker.size) = at[1][taker.size]
  BY Zenon DEF P!BudgetToFill
<1> HIDE DEF at
<1>10. BudgetToFill(b, taker.action, taker.size) = at[1][taker.size]
  BY <1>8, BudgetEnds
<1>11. QED
  BY ONLY <1>2, <1>9, <1>10

\* new_order
LEMMA NewOrderAnswers ==
  ASSUME NEW b, Settled(b), P!BookOK(BookView(b), Users, OrderIds),
         NEW taker \in AllOrders, taker.size \in Nat, taker.price \in Nat, NEW type,
         NEW sp, sp.stp \in P!Modes
  PROVE  Answers(NewOrder(b, taker, type, sp), P!NewOrder(BookView(b), taker, type, sp))
<1> DEFINE known == taker.id \in DOMAIN b.index
           r == NewOrder(b, taker, type, sp)
           a == P!NewOrder(BookView(b), taker, type, sp)
<1>1. P!Knows(BookView(b), taker.id) <=> known
  BY KnowingIs DEF Knowing
<1>2. CASE known
  <2>1. r = Refused(b, taker, "MatchingDuplicateOrderId")
    BY ONLY <1>2, Zenon DEF NewOrder
  <2>2. a = P!Refused(BookView(b), taker, "MatchingDuplicateOrderId")
    BY ONLY <1>1, <1>2, Zenon DEF P!NewOrder
  <2>3. QED
    BY <2>1, <2>2, RefusedAnswers
<1>3. CASE ~known /\ type \notin {"Gtc", "Ioc", "FokBudget"}
  <2>1. type # "Gtc" /\ type # "Ioc" /\ type # "FokBudget"
    BY <1>3
  <2>2. r = Refused(b, taker, "MatchingUnsupportedCommand")
    BY ONLY <1>3, <2>1, Zenon DEF NewOrder
  <2>3. a = P!Refused(BookView(b), taker, "MatchingUnsupportedCommand")
    BY ONLY <1>1, <1>3, <2>1, Zenon DEF P!NewOrder
  <2>4. QED
    BY <2>2, <2>3, RefusedAnswers
<1>4. CASE ~known /\ type \in {"Gtc", "Ioc", "FokBudget"}
  <2>1. PICK s, t : Placing(b, s, t, taker, sp.stp)
    BY <1>4, PlacingIs
  <2>2. CASE type = "Gtc"
    <3>1. r = PlaceGtc(b, taker, sp.stp)
      BY ONLY <1>4, <2>2, Zenon DEF NewOrder
    <3>2. a = P!PlaceGtc(BookView(b), taker, sp)
      BY ONLY <1>1, <1>4, <2>2, Zenon DEF P!NewOrder
    <3>3. QED
      BY <2>1, <3>1, <3>2, PlaceGtcAnswers
  <2>3. CASE type = "Ioc"
    <3>1. type # "Gtc"
      BY <2>3
    <3>2. r = PlaceIoc(b, taker, sp.stp)
      BY ONLY <1>4, <2>3, <3>1, Zenon DEF NewOrder
    <3>3. a = P!PlaceIoc(BookView(b), taker, sp)
      BY ONLY <1>1, <1>4, <2>3, <3>1, Zenon DEF P!NewOrder
    <3>4. QED
      BY <2>1, <3>2, <3>3, PlaceIocAnswers
  <2>4. CASE type = "FokBudget"
    <3>1. type # "Gtc" /\ type # "Ioc"
      BY <2>4
    <3>2. r = PlaceFokBudget(b, taker, sp.stp)
      BY ONLY <1>4, <2>4, <3>1, Zenon DEF NewOrder
    <3>3. a = P!PlaceFokBudget(BookView(b), taker, sp)
      BY ONLY <1>1, <1>4, <2>4, <3>1, Zenon DEF P!NewOrder
    <3>4. BudgetToFill(b, taker.action, taker.size)
            = P!BudgetToFill(Facing(b, taker), taker.size)
      BY <2>1, BudgetIs
    <3>5. QED
      BY <2>1, <3>2, <3>3, <3>4, PlaceFokBudgetAnswers
  <2>5. QED
    BY <1>4, <2>2, <2>3, <2>4
<1>5. QED
  BY <1>2, <1>3, <1>4

-----------------------------------------------------------------------------
(* The invariant *)

DirectInv ==
  /\ spec \in Specs
  /\ Settled(direct) /\ P!BookOK(BookView(direct), Users, OrderIds)

LEMMA EmptyIsSound ==
  Kept(Empty, "Ask", <<>>, <<>>)
<1> DEFINE b == Empty
<1>1. /\ b.orders = NoMap /\ b.buckets = NoMap /\ b.index = NoMap
      /\ b.levels = [action \in Actions |-> NoMap]
      /\ b.best = [action \in Actions |-> None]
      /\ IsBook(b)
  BY Zenon DEF Empty, IsBook, Book
<1>2. DOMAIN NoMap = {} /\ NoMap = [x \in DOMAIN NoMap |-> NoMap[x]]
      /\ \A T : NoMap \in [DOMAIN NoMap -> T]
  BY DEF NoMap
<1>3. IsFiniteSet({})
  BY FS_EmptySet
<1>4. \A action \in Actions : b.levels[action] = NoMap /\ b.best[action] = None
  BY ONLY Zenon, <1>1
<1> HIDE DEF b
<1>5. Typed(b)
  <2>1. b.levels = [action \in Actions |-> b.levels[action]]
    BY ONLY <1>1
  <2>2. b.best \in [Actions -> Nat]
    BY ONLY <1>1 DEF None
  <2>3. \A action \in Actions :
          /\ b.levels[action] \in [DOMAIN b.levels[action] -> DOMAIN b.buckets]
          /\ DOMAIN b.levels[action] \subseteq Int
    BY ONLY Zenon, <1>2, <1>4
  <2>4. /\ IsFiniteSet(DOMAIN b.orders) /\ DOMAIN b.orders \subseteq Nat \ {0}
        /\ b.orders \in [DOMAIN b.orders -> SlotOrders]
        /\ IsFiniteSet(DOMAIN b.buckets) /\ DOMAIN b.buckets \subseteq Nat \ {0}
        /\ b.buckets \in [DOMAIN b.buckets -> SlabBuckets]
        /\ b.index = [id \in DOMAIN b.index |-> b.index[id]]
    BY ONLY <1>1, <1>2, <1>3
  <2>5. QED
    BY ONLY <1>1, <2>1, <2>2, <2>3, <2>4 DEF Typed
<1>6. Keyed(b)
  BY ONLY <1>1, <1>2, <1>4 DEF Keyed
<1>7. Indexed(b)
  BY ONLY <1>1, <1>2 DEF Indexed
<1>8. ASSUME NEW action \in Actions
      PROVE  SideSound(b, action, <<>>)
  <2>1. Len(<<>>) = 0 /\ <<>> \in Seq(DOMAIN b.orders) /\ 1..0 = {}
    OBVIOUS
  <2>2. Linked(b, action, <<>>)
    BY ONLY <1>4, <2>1, <1>8 DEF Linked, Spot
  <2>3. Sorted(b, action, <<>>)
    BY ONLY <2>1 DEF Sorted
  <2>4. Filed(b, action, <<>>)
    BY ONLY <1>2, <1>4, <2>1, <1>8 DEF Filed
  <2>5. QED
    BY <2>2, <2>3, <2>4 DEF SideSound
<1>9. "Ask" \in Actions /\ Opposite("Ask") \in Actions
  BY DEF Actions, Opposite
<1>10. ToSet(<<>>) = {}
  BY DEF ToSet
<1>11. Kept(b, "Ask", <<>>, <<>>)
  BY ONLY <1>1, <1>2, <1>5, <1>6, <1>7, <1>8, <1>9, <1>10 DEF Kept, Sound
<1>12. QED
  BY <1>11 DEF b

LEMMA EmptyView ==
  BookView(Empty) = P!EmptyBook /\ P!BookOK(BookView(Empty), Users, OrderIds)
<1>1. Viewed(Empty, "Ask", <<>>, <<>>)
  <2>1. "Ask" \in Actions /\ Sound(Empty, "Ask", <<>>, <<>>)
    BY EmptyIsSound DEF Kept, Actions
  <2>2. QED
    BY <2>1, ViewIs
<1>2. Plains(Empty, <<>>) = <<>>
  BY DEF Plains
<1>3. Opposite("Ask") = "Bid" /\ Actions = {"Ask", "Bid"} /\ P!Actions = Actions
  BY Translated DEF Opposite, Actions, SameWords
<1> DEFINE book == [action \in Actions |-> <<>>]
<1>4. BookView(Empty) = book
  <2>1. /\ DOMAIN book = Actions /\ book = [x \in Actions |-> book[x]]
        /\ book["Ask"] = Plains(Empty, <<>>) /\ book[Opposite("Ask")] = Plains(Empty, <<>>)
    BY ONLY <1>2, <1>3
  <2> HIDE DEF book
  <2>2. QED
    BY ONLY <1>1, <2>1 DEF Viewed
<1>5. P!EmptyBook = book
  BY ONLY <1>3 DEF P!EmptyBook
<1>6. P!BookOK(book, Users, OrderIds)
  <2>1. \A action \in Actions : P!SideOK(book[action], action, Users, OrderIds)
    BY DEF P!SideOK
  <2>2. \A i \in 1..Len(book["Ask"]), j \in 1..Len(book["Bid"]) :
          book["Ask"][i].id # book["Bid"][j].id
    BY ONLY <1>3
  <2>3. DOMAIN book = Actions
    OBVIOUS
  <2> HIDE DEF book
  <2>4. QED
    BY ONLY <1>3, <2>1, <2>2, <2>3 DEF P!BookOK
<1>7. QED
  BY ONLY <1>4, <1>5, <1>6

LEMMA DirectBegins ==
  ASSUME Init
  PROVE  DirectInv
<1>1. Settled(Empty)
  BY EmptyIsSound DEF Settled
<1>2. QED
  BY <1>1, EmptyView DEF Init, DirectInv

\* The command is answered as the abstract answer a says, and the book is in order.
AnsweredAs(a) ==
  /\ Settled(direct') /\ P!BookOK(BookView(direct'), Users, OrderIds)
  /\ BookView(direct') = a.book
  /\ reply' = [code |-> a.code, events |-> a.events, action |-> a.action]
  /\ spec' = spec

LEMMA AppliedAnswers ==
  ASSUME NEW r, NEW a, Answers(r, a), P!BookOK(a.book, Users, OrderIds), Apply(r)
  PROVE  AnsweredAs(a)
<1>1. /\ direct' = r.direct /\ spec' = spec
      /\ reply' = [code |-> r.code, events |-> r.events, action |-> r.action]
  BY DEF Apply
<1>2. /\ Settled(r.direct) /\ BookView(r.direct) = a.book
      /\ r.events = a.events /\ r.code = a.code /\ r.action = a.action
  BY DEF Answers
<1>3. QED
  BY ONLY <1>1, <1>2, P!BookOK(a.book, Users, OrderIds) DEF AnsweredAs

LEMMA SpecModes ==
  ASSUME DirectInv
  PROVE  spec.stp \in P!Modes
  BY BookAssumption DEF DirectInv, P!Modes

\* The commands, as the operations take them.
Canceller(uid, id) == [uid |-> uid, id |-> id, action |-> "Bid"]
Mover(uid, id, price) == [uid |-> uid, id |-> id, action |-> "Bid", price |-> price]
Reducer(uid, id, size) == [uid |-> uid, id |-> id, action |-> "Bid", size |-> size]

LEMMA PlaceAnswers ==
  ASSUME DirectInv, NEW uid \in Users, NEW id \in OrderIds, NEW action \in Actions,
         NEW price \in Prices, NEW size \in Sizes, NEW reserve \in Admitted(action, price),
         NEW type, Place(uid, id, action, price, reserve, size, type)
  PROVE  AnsweredAs(P!NewOrder(BookView(direct), Order(uid, id, action, price, reserve, size),
                               type, spec))
<1> DEFINE taker == Order(uid, id, action, price, reserve, size)
           r == NewOrder(direct, taker, type, spec)
           a == P!NewOrder(BookView(direct), taker, type, spec)
<1>1. price \in Nat /\ size \in Nat
  BY BookAssumption
<1>2. reserve \in Nat /\ (action = "Bid" => price <= reserve)
  <2>1. CASE action = "Ask"
    BY <1>1, <2>1 DEF Admitted
  <2>2. CASE action # "Ask"
    <3>1. reserve \in Reserves /\ reserve >= price
      BY <2>2 DEF Admitted
    <3>2. reserve \in Nat
      BY <3>1, BookAssumption
    <3>3. QED
      BY <1>1, <3>1, <3>2
  <2>3. QED
    BY <2>1, <2>2
<1>3. /\ taker \in AllOrders /\ taker.size = size /\ taker.price = price
      /\ taker.action = action /\ taker.reserve = reserve
  <2>1. P!Actions = Actions
    BY Translated DEF SameWords
  <2>2. QED
    BY <1>1, <1>2, <2>1 DEF AllOrders, P!OrdersOf, Order
<1>4. spec.stp \in P!Modes /\ Settled(direct) /\ P!BookOK(BookView(direct), Users, OrderIds)
  BY SpecModes DEF DirectInv
<1>5. Apply(r)
  BY DEF Place
<1> HIDE DEF taker
<1>6. Answers(r, a)
  BY <1>1, <1>3, <1>4, NewOrderAnswers
<1>7. P!BookOK(a.book, Users, OrderIds)
  <2>1. spec.spot /\ taker.action = "Bid" => taker.price <= taker.reserve
    BY ONLY <1>2, <1>3
  <2>2. P!Result(a, BookView(direct), taker.uid, spec, Users, OrderIds,
                 IF a.code = "Success" THEN {taker.id} ELSE {})
    BY Zenon, <1>1, <1>3, <1>4, <2>1, P!NewOrderOutcome DEF AllOrders
  <2> HIDE DEF a
  <2>3. QED
    BY ONLY <2>2 DEF P!Result
<1> HIDE DEF r, a
<1>8. AnsweredAs(a)
  BY <1>5, <1>6, <1>7, AppliedAnswers
<1>9. QED
  BY <1>8 DEF a, taker

LEMMA CancelAnswered ==
  ASSUME DirectInv, NEW uid, NEW id, Cancel(uid, id)
  PROVE  AnsweredAs(P!CancelOrder(BookView(direct), Canceller(uid, id)))
<1> DEFINE cmd == Canceller(uid, id)
           r == CancelOrder(direct, cmd)
           a == P!CancelOrder(BookView(direct), cmd)
<1>1. cmd.action \in P!Actions
  BY Translated DEF Canceller, Actions, SameWords
<1>2. Settled(direct) /\ P!BookOK(BookView(direct), Users, OrderIds)
  BY DEF DirectInv
<1>3. Apply(r)
  BY DEF Cancel, Canceller
<1> HIDE DEF cmd
<1>4. Answers(r, a)
  BY <1>2, CancelAnswers
<1>5. P!BookOK(a.book, Users, OrderIds)
  <2>1. P!Result(a, BookView(direct), cmd.uid, spec, Users, OrderIds, {})
    BY <1>1, <1>2, P!CancelOrderOutcome
  <2> HIDE DEF a
  <2>2. QED
    BY ONLY <2>1 DEF P!Result
<1> HIDE DEF r, a
<1>6. AnsweredAs(a)
  BY <1>3, <1>4, <1>5, AppliedAnswers
<1>7. QED
  BY <1>6 DEF a, cmd

LEMMA MoveAnswered ==
  ASSUME DirectInv, NEW uid, NEW id, NEW price \in Prices, Move(uid, id, price)
  PROVE  AnsweredAs(P!MoveOrder(BookView(direct), Mover(uid, id, price), spec))
<1> DEFINE cmd == Mover(uid, id, price)
           r == MoveOrder(direct, cmd, spec)
           a == P!MoveOrder(BookView(direct), cmd, spec)
<1>1. cmd.action \in P!Actions /\ cmd.price \in Int
  BY Translated, BookAssumption DEF Mover, Actions, SameWords
<1>2. /\ Settled(direct) /\ P!BookOK(BookView(direct), Users, OrderIds)
      /\ spec.stp \in P!Modes
  BY SpecModes DEF DirectInv
<1>3. Apply(r)
  BY DEF Move, Mover
<1> HIDE DEF cmd
<1>4. Answers(r, a)
  BY <1>1, <1>2, MoveAnswers
<1>5. P!BookOK(a.book, Users, OrderIds)
  <2>1. P!Result(a, BookView(direct), cmd.uid, spec, Users, OrderIds,
                 IF a.code = "Success" THEN {cmd.id} ELSE {})
    BY <1>1, <1>2, P!MoveOrderOutcome
  <2> HIDE DEF a
  <2>2. QED
    BY ONLY <2>1 DEF P!Result
<1> HIDE DEF r, a
<1>6. AnsweredAs(a)
  BY <1>3, <1>4, <1>5, AppliedAnswers
<1>7. QED
  BY <1>6 DEF a, cmd

LEMMA ReduceAnswered ==
  ASSUME DirectInv, NEW uid, NEW id, NEW size \in Sizes, Reduce(uid, id, size)
  PROVE  AnsweredAs(P!ReduceOrder(BookView(direct), Reducer(uid, id, size)))
<1> DEFINE cmd == Reducer(uid, id, size)
           r == ReduceOrder(direct, cmd)
           a == P!ReduceOrder(BookView(direct), cmd)
<1>1. cmd.action \in P!Actions /\ cmd.size \in Int
  BY Translated, BookAssumption DEF Reducer, Actions, SameWords
<1>2. Settled(direct) /\ P!BookOK(BookView(direct), Users, OrderIds)
  BY DEF DirectInv
<1>3. Apply(r)
  BY DEF Reduce, Reducer
<1> HIDE DEF cmd
<1>4. Answers(r, a)
  BY <1>1, <1>2, ReduceAnswers
<1>5. P!BookOK(a.book, Users, OrderIds)
  <2>1. P!Result(a, BookView(direct), cmd.uid, spec, Users, OrderIds, {})
    BY <1>1, <1>2, P!ReduceOrderOutcome
  <2> HIDE DEF a
  <2>2. QED
    BY ONLY <2>1 DEF P!Result
<1> HIDE DEF r, a
<1>6. AnsweredAs(a)
  BY <1>3, <1>4, <1>5, AppliedAnswers
<1>7. QED
  BY <1>6 DEF a, cmd

LEMMA DirectSteps ==
  ASSUME DirectInv, [Next]_vars
  PROVE  DirectInv'
<1>1. ASSUME NEW a, AnsweredAs(a)
      PROVE  DirectInv'
  BY <1>1 DEF AnsweredAs, DirectInv
<1>2. ASSUME NEW uid \in Users, NEW id \in OrderIds, NEW action \in Actions,
             NEW price \in Prices, NEW size \in Sizes, NEW type \in Types,
             NEW reserve \in Admitted(action, price),
             Place(uid, id, action, price, reserve, size, type)
      PROVE  DirectInv'
  BY <1>1, <1>2, PlaceAnswers
<1>3. ASSUME NEW uid \in Users, NEW id \in OrderIds, Cancel(uid, id)
      PROVE  DirectInv'
  BY <1>1, <1>3, CancelAnswered
<1>4. ASSUME NEW uid \in Users, NEW id \in OrderIds, NEW price \in Prices,
             Move(uid, id, price)
      PROVE  DirectInv'
  BY <1>1, <1>4, MoveAnswered
<1>5. ASSUME NEW uid \in Users, NEW id \in OrderIds, NEW size \in Sizes,
             Reduce(uid, id, size)
      PROVE  DirectInv'
  BY <1>1, <1>5, ReduceAnswered
<1>6. CASE UNCHANGED vars
  BY <1>6 DEF vars, DirectInv
<1>7. CASE Next
  BY <1>2, <1>3, <1>4, <1>5, <1>7 DEF Next
<1>8. QED
  BY <1>6, <1>7

LEMMA DirectAlways == Spec => []DirectInv
<1>1. Init => DirectInv
  BY DirectBegins
<1>2. DirectInv /\ [Next]_vars => DirectInv'
  BY DirectSteps
<1>3. QED
  BY <1>1, <1>2, PTL DEF Spec

-----------------------------------------------------------------------------
(* What the self-check finds in a sound book *)

LEMMA IndexAgrees ==
  ASSUME DirectInv
  PROVE  IndexMatches
<1>1. Typed(direct) /\ Indexed(direct)
  BY DEF DirectInv, Settled, Kept, Sound
<1> DEFINE slots == DOMAIN direct.orders
           ids == DOMAIN direct.index
           f == [id \in ids |-> direct.index[id]]
<1>2. \A id \in ids : direct.index[id] \in slots /\ direct.orders[direct.index[id]].id = id
  BY ONLY <1>1 DEF Indexed
<1>3. \A i \in slots : direct.orders[i].id \in ids /\ direct.index[direct.orders[i].id] = i
  BY ONLY <1>1 DEF Indexed
<1>4. slots = {f[id] : id \in ids} /\ \A x, y \in ids : f[x] = f[y] => x = y
  BY ONLY Zenon, <1>2, <1>3
<1>5. IsFiniteSet(slots)
  BY <1>1 DEF Typed
<1>6. Cardinality(ids) = Cardinality(slots)
  <2> DEFINE g == [i \in slots |-> direct.orders[i].id]
  <2>1. /\ g \in [slots -> ids]
        /\ \A i, j \in slots : g[i] = g[j] => i = j
        /\ \A id \in ids : \E i \in slots : g[i] = id
    BY ONLY <1>2, <1>3
  <2> HIDE DEF g
  <2>2. g \in Bijection(slots, ids)
    BY ONLY <2>1 DEF Bijection, Injection, Surjection, IsInjective
  <2>3. ExistsBijection(slots, ids)
    BY ONLY <2>2 DEF ExistsBijection
  <2>4. QED
    BY ONLY <1>5, <2>3, FS_Bijection
<1>7. QED
  BY <1>2, <1>6 DEF IndexMatches

\* A side of a book in order: s is the walk along it.
Walked(b, action, s, t) ==
  /\ Kept(b, action, s, t) /\ Chain(b, action) = s /\ Chain(b, Opposite(action)) = t
  /\ ListOf(b, action, s) /\ ListOf(b, Opposite(action), t)
  /\ \A i \in DOMAIN b.orders :
       /\ b.orders[i].action = action <=> i \in ToSet(s)
       /\ b.orders[i].price \in Nat /\ 0 <= b.orders[i].filled
       /\ b.orders[i].filled <= b.orders[i].size
       /\ i # None

LEMMA WalkedIs ==
  ASSUME DirectInv, NEW action \in Actions
  PROVE  \E s, t : Walked(direct, action, s, t)
<1> DEFINE b == direct
           other == Opposite(action)
<1>1. PICK s, t : Kept(b, action, s, t)
  BY SettledIs DEF DirectInv
<1> HIDE DEF b
<1>2. /\ Sound(b, action, s, t) /\ Typed(b) /\ Linked(b, action, s) /\ Linked(b, other, t)
      /\ DOMAIN b.orders = ToSet(s) \cup ToSet(t)
  BY ONLY <1>1 DEF Kept, Sound, SideSound
<1>3. Chain(b, action) = s /\ Chain(b, other) = t
  BY <1>2, ChainIs
<1>4. ListOf(b, action, s) /\ ListOf(b, other, t)
  BY <1>2, ListIs
<1>5. other \in Actions /\ other # action
  BY Sides
<1>6. \A i \in DOMAIN b.orders : b.orders[i].action = action <=> i \in ToSet(s)
  <2>0. ASSUME NEW x, NEW u, ListOf(b, x, u), NEW i \in ToSet(u)
        PROVE  b.orders[i].action = x
    <3>1. PICK m \in 1..Len(u) : u[m] = i
      BY ONLY <2>0 DEF ListOf
    <3>2. b.orders[u[m]].action = x
      BY ONLY <2>0, <3>1 DEF ListOf
    <3>3. QED
      BY ONLY <3>1, <3>2
  <2>1. \A i \in ToSet(s) : b.orders[i].action = action
    BY ONLY <1>4, <2>0
  <2>2. \A i \in ToSet(t) : b.orders[i].action = other
    BY ONLY <1>4, <2>0
  <2>3. QED
    BY ONLY <1>2, <1>5, <2>1, <2>2
<1>7. ASSUME NEW i \in DOMAIN b.orders
      PROVE  b.orders[i].price \in Nat /\ i # None
  BY <1>2, SlotTypes DEF None
<1>8. /\ P!SideOK(Plains(b, s), action, Users, OrderIds)
      /\ P!SideOK(Plains(b, t), other, Users, OrderIds)
  <2>1. Viewed(b, action, s, t)
    BY <1>2, ViewIs
  <2>2. \A x \in Actions : P!SideOK(BookView(b)[x], x, Users, OrderIds)
    BY Translated DEF P!BookOK, SameWords, DirectInv, b
  <2>3. QED
    BY ONLY <1>5, <2>1, <2>2, action \in Actions DEF Viewed
<1>9. ASSUME NEW x, NEW u, P!SideOK(Plains(b, u), x, Users, OrderIds), Linked(b, x, u),
             NEW i \in ToSet(u)
      PROVE  0 <= b.orders[i].filled /\ b.orders[i].filled <= b.orders[i].size
  <2>1. PlainList(b, u) /\ ListOf(b, x, u)
    BY Zenon, <1>2, <1>9, PlainsAre, ListIs DEF Linked
  <2>2. PICK m \in 1..Len(u) : u[m] = i
    BY ONLY <2>1, <1>9 DEF ListOf
  <2>3. /\ Len(Plains(b, u)) = Len(u) /\ Plains(b, u)[m] = Plain(b.orders[i])
        /\ PlainOf(Plain(b.orders[i]), b.orders[i]) /\ i \in DOMAIN b.orders
    BY ONLY <2>1, <2>2 DEF PlainList
  <2>4. 0 <= Plains(b, u)[m].filled /\ Plains(b, u)[m].filled < Plains(b, u)[m].size
    BY ONLY <1>9, <2>2, <2>3 DEF P!SideOK
  <2>5. 0 <= b.orders[i].filled /\ b.orders[i].filled < b.orders[i].size
    BY ONLY <2>3, <2>4 DEF PlainOf
  <2>6. b.orders[i].filled \in Int /\ b.orders[i].size \in Int
    BY <1>2, <2>3, SlotTypes
  <2>7. QED
    BY ONLY <2>5, <2>6
<1>10. \A i \in DOMAIN b.orders : 0 <= b.orders[i].filled /\ b.orders[i].filled <= b.orders[i].size
  BY <1>2, <1>8, <1>9
<1>11. Walked(b, action, s, t)
  BY ONLY <1>1, <1>3, <1>4, <1>6, <1>7, <1>10 DEF Walked
<1>12. QED
  BY <1>11 DEF b

\* The orders of a bucket are those of its price.
LevelHas(b, action, s, p) ==
  LET k == b.levels[action][p]
      there == Priced(b, s, p)
  IN  /\ {i \in ToSet(s) : b.orders[i].parent = k} = there
      /\ there = {i \in DOMAIN b.orders : b.orders[i].action = action /\ b.orders[i].price = p}
      /\ BucketOf(b, s, p, b.buckets[k])
      /\ b.buckets[k].tail \in there
      /\ b.orders[b.buckets[k].tail].prev \notin there

LEMMA LevelHasIs ==
  ASSUME NEW b, NEW action \in Actions, NEW s, NEW t, Walked(b, action, s, t),
         NEW p \in DOMAIN b.levels[action]
  PROVE  LevelHas(b, action, s, p)
<1> DEFINE k == b.levels[action][p]
           there == Priced(b, s, p)
           tail == b.buckets[k].tail
<1>1. Keyed(b) /\ Filed(b, action, s) /\ ListOf(b, action, s)
  BY DEF Walked, Kept, Sound, SideSound
<1>2. ASSUME NEW i \in ToSet(s)
      PROVE  b.orders[i].parent = k <=> b.orders[i].price = p
  <2>1. PICK m \in 1..Len(s) : s[m] = i
    BY ONLY <1>1, <1>2 DEF ListOf
  <2> DEFINE q == b.orders[i].price
  <2>2. q \in DOMAIN b.levels[action] /\ b.orders[i].parent = b.levels[action][q]
    BY ONLY <1>1, <2>1 DEF Filed
  <2>3. b.levels[action][q] = b.levels[action][p] => q = p
    BY ONLY <1>1, <2>2, action \in Actions, p \in DOMAIN b.levels[action] DEF Keyed
  <2>4. QED
    BY ONLY <2>2, <2>3
<1>3. {i \in ToSet(s) : b.orders[i].parent = k} = there
  BY ONLY <1>2 DEF Priced
<1>4. there = {i \in DOMAIN b.orders : b.orders[i].action = action /\ b.orders[i].price = p}
  <2>1. ToSet(s) \subseteq DOMAIN b.orders
    BY ONLY <1>1 DEF ListOf
  <2>2. \A i \in DOMAIN b.orders : b.orders[i].action = action <=> i \in ToSet(s)
    BY DEF Walked
  <2>3. QED
    BY ONLY <2>1, <2>2 DEF Priced
<1>5. BucketOf(b, s, p, b.buckets[k])
  BY ONLY <1>1, p \in DOMAIN b.levels[action] DEF Filed
<1>6. PICK n \in 1..Len(s) : /\ s[n] = tail /\ b.orders[s[n]].price = p
                             /\ \A m \in 1..Len(s) : b.orders[s[m]].price = p => m <= n
  BY ONLY <1>5 DEF BucketOf, TailOf
<1>7. /\ Len(s) \in Nat /\ s[n] \in ToSet(s) /\ b.orders[s[n]].prev = Spot(s, n + 1)
      /\ \A i \in ToSet(s) : \E m \in 1..Len(s) : s[m] = i
      /\ \A m \in 1..Len(s) : s[m] \in Nat \ {0}
      /\ \A l, m \in 1..Len(s) : s[l] = s[m] => l = m
  BY ONLY <1>1, n \in 1..Len(s) DEF ListOf
<1>8. tail \in there
  BY ONLY Zenon, <1>6, <1>7 DEF Priced
<1>9. b.orders[tail].prev \notin there
  <2> SUFFICES ASSUME b.orders[tail].prev \in there
               PROVE  FALSE
    OBVIOUS
  <2>1. PICK m \in 1..Len(s) : s[m] = b.orders[tail].prev /\ b.orders[s[m]].price = p
    <3> DEFINE behind == b.orders[tail].prev
    <3>1. behind \in ToSet(s) /\ b.orders[behind].price = p
      BY ONLY Zenon, b.orders[tail].prev \in there DEF Priced
    <3> HIDE DEF behind
    <3>2. \E m \in 1..Len(s) : s[m] = behind /\ b.orders[s[m]].price = p
      BY ONLY <1>7, <3>1
    <3>3. QED
      BY ONLY Zenon, <3>2 DEF behind
  <2>2. m <= n /\ s[m] = Spot(s, n + 1)
    BY ONLY Zenon, <1>6, <1>7, <2>1
  <2>3. n + 1 \in 1..Len(s)
    BY ONLY <1>7, <2>2, m \in 1..Len(s) DEF Spot, None
  <2>4. m = n + 1
    BY ONLY <1>7, <2>2, <2>3, m \in 1..Len(s) DEF Spot
  <2>5. QED
    BY ONLY <1>7, <2>2, <2>4, n \in 1..Len(s), m \in 1..Len(s)
<1>10. QED
  BY ONLY Zenon, <1>3, <1>4, <1>5, <1>8, <1>9 DEF LevelHas

LEMMA BucketsAgree ==
  ASSUME DirectInv
  PROVE  BucketsMatch
<1> SUFFICES ASSUME NEW action \in Actions, NEW p \in DOMAIN direct.levels[action]
             PROVE  LET k == direct.levels[action][p]
                        bucket == direct.buckets[k]
                        members == Members(action, k)
                        behind == direct.orders[bucket.tail].prev
                    IN  /\ bucket.price = p
                        /\ \A i \in members : /\ direct.orders[i].price = p
                                             /\ direct.orders[i].filled <= direct.orders[i].size
                        /\ bucket.volume = VolumeOf(members)
                        /\ bucket.orders = Cardinality(members)
                        /\ bucket.tail \in members /\ behind \notin members
  BY DEF BucketsMatch
<1> DEFINE k == direct.levels[action][p]
           bucket == direct.buckets[k]
           members == Members(action, k)
           behind == direct.orders[bucket.tail].prev
<1>1. PICK s, t : Walked(direct, action, s, t)
  BY WalkedIs
<1>2. LevelHas(direct, action, s, p)
  BY <1>1, LevelHasIs
<1>3. members = Priced(direct, s, p)
  BY ONLY Zenon, <1>1, <1>2 DEF Members, Walked, LevelHas
<1> HIDE DEF members
<1>4. /\ BucketOf(direct, s, p, bucket)
      /\ bucket.tail \in members /\ behind \notin members
  BY ONLY Zenon, <1>2, <1>3 DEF LevelHas
<1>5. \A i \in members : direct.orders[i].price = p
  BY ONLY <1>3 DEF Priced
<1>6. \A i \in members : direct.orders[i].filled <= direct.orders[i].size
  BY ONLY Zenon, <1>1, <1>2, <1>3 DEF LevelHas, Walked
<1>7. VolumeOf(members) = Volume(direct, members)
  BY Zenon DEF VolumeOf, Volume
<1>8. /\ bucket.price = p /\ bucket.volume = VolumeOf(members)
      /\ bucket.orders = Cardinality(members)
  BY ONLY Zenon, <1>3, <1>4, <1>7 DEF BucketOf
<1>9. QED
  BY Zenon, <1>4, <1>5, <1>6, <1>8 DEF members

\* Two lists that share nothing, one behind the other.
OneByOne(z, D) ==
  /\ IsInjective(z) /\ Len(z) = Cardinality(D)

LEMMA OneByOneIs ==
  ASSUME NEW D, NEW s \in Seq(D), NEW t \in Seq(D), D = ToSet(s) \cup ToSet(t),
         \A m, n \in 1..Len(s) : s[m] = s[n] => m = n,
         \A m, n \in 1..Len(t) : t[m] = t[n] => m = n,
         \A m \in 1..Len(s), n \in 1..Len(t) : s[m] # t[n]
  PROVE  OneByOne(s \o t, D)
<1> DEFINE z == s \o t
           a == Len(s)
           c == Len(t)
<1>1. /\ a \in Nat /\ c \in Nat /\ Len(z) = a + c /\ z \in Seq(D) /\ DOMAIN z = 1..a + c
      /\ \A m \in 1..a : z[m] = s[m]
      /\ \A m \in a + 1..a + c : z[m] = t[m - a]
      /\ DOMAIN s = 1..a /\ DOMAIN t = 1..c
  OBVIOUS
<1> HIDE DEF z, a, c
<1>2. \A m \in 1..a + c : m \in 1..a \/ (m \in a + 1..a + c /\ m - a \in 1..c)
  BY ONLY <1>1
<1>3. ASSUME NEW m \in 1..a + c, NEW n \in 1..a + c, z[m] = z[n]
      PROVE  m = n
  <2>1. CASE m \in 1..a /\ n \in 1..a
    BY <1>1, <1>3, <2>1 DEF a
  <2>2. CASE m \in 1..a /\ n \notin 1..a
    <3>1. n \in a + 1..a + c /\ n - a \in 1..c
      BY <1>2, <2>2
    <3>2. z[m] = s[m] /\ z[n] = t[n - a]
      BY ONLY <1>1, <2>2, <3>1
    <3>3. s[m] # t[n - a]
      BY <2>2, <3>1 DEF a, c
    <3>4. QED
      BY ONLY Zenon, <1>3, <3>2, <3>3
  <2>3. CASE m \notin 1..a /\ n \in 1..a
    <3>1. m \in a + 1..a + c /\ m - a \in 1..c
      BY <1>2, <2>3
    <3>2. z[n] = s[n] /\ z[m] = t[m - a]
      BY ONLY <1>1, <2>3, <3>1
    <3>3. s[n] # t[m - a]
      BY <2>3, <3>1 DEF a, c
    <3>4. QED
      BY ONLY <1>3, <3>2, <3>3
  <2>4. CASE m \notin 1..a /\ n \notin 1..a
    <3>1. /\ m \in a + 1..a + c /\ m - a \in 1..c
          /\ n \in a + 1..a + c /\ n - a \in 1..c
      BY <1>2, <2>4
    <3>2. z[m] = t[m - a] /\ z[n] = t[n - a]
      BY ONLY Zenon, <1>1, <3>1
    <3>3. m - a = n - a
      BY Zenon, <1>3, <3>1, <3>2 DEF c
    <3>4. QED
      BY ONLY <1>1, <3>1, <3>3
  <2>5. QED
    BY <2>1, <2>2, <2>3, <2>4
<1>4. IsInjective(z)
  BY ONLY <1>1, <1>3 DEF IsInjective
<1>5. \A x \in D : \E m \in 1..a + c : z[m] = x
  <2>1. ASSUME NEW x \in ToSet(s)
        PROVE  \E m \in 1..a + c : z[m] = x
    <3>1. PICK m \in 1..a : s[m] = x
      BY ONLY <1>1, <2>1 DEF ToSet
    <3>2. m \in 1..a + c /\ z[m] = x
      BY ONLY <1>1, <3>1
    <3>3. QED
      BY <3>2
  <2>2. ASSUME NEW x \in ToSet(t)
        PROVE  \E m \in 1..a + c : z[m] = x
    <3>1. PICK m \in 1..c : t[m] = x
      BY ONLY <1>1, <2>2 DEF ToSet
    <3>2. m + a \in a + 1..a + c /\ (m + a) - a = m /\ m + a \in 1..a + c
      BY ONLY <1>1, m \in 1..c
    <3>3. z[m + a] = x
      BY ONLY <1>1, <3>1, <3>2
    <3>4. QED
      BY <3>2, <3>3
  <2>3. QED
    BY <2>1, <2>2
<1>6. Len(z) = Cardinality(D)
  <2>1. z \in [1..a + c -> D] /\ a + c \in Nat
    <3>1. z \in [1..Len(z) -> D]
      BY <1>1
    <3>2. QED
      BY ONLY <1>1, <3>1
  <2>2. z \in Bijection(1..a + c, D)
    BY ONLY <1>1, <1>4, <1>5, <2>1 DEF Bijection, Injection, Surjection
  <2>3. ExistsBijection(1..a + c, D)
    BY ONLY <2>2 DEF ExistsBijection
  <2>4. IsFiniteSet(1..a + c) /\ Cardinality(1..a + c) = a + c
    <3>1. a + c \in Nat
      BY ONLY <2>1
    <3>2. QED
      BY ONLY <3>1, UpTo
  <2>5. Cardinality(D) = Cardinality(1..a + c)
    BY ONLY <2>3, <2>4, FS_Bijection
  <2>6. QED
    BY ONLY <1>1, <2>4, <2>5
<1>7. QED
  BY <1>4, <1>6 DEF OneByOne, z

LEMMA AllFound ==
  ASSUME DirectInv
  PROVE  AllReachable
<1> DEFINE ask == Chain(direct, "Ask")
           bid == Chain(direct, "Bid")
           all == ask \o bid
<1>1. "Ask" \in Actions /\ "Bid" \in Actions /\ Opposite("Ask") = "Bid"
  BY DEF Actions, Opposite
<1>2. PICK s, t : Walked(direct, "Ask", s, t)
  BY <1>1, WalkedIs
<1>3. /\ ask = s /\ bid = t /\ ListOf(direct, "Ask", s) /\ ListOf(direct, "Bid", t)
      /\ DOMAIN direct.orders = ToSet(s) \cup ToSet(t)
      /\ Sound(direct, "Ask", s, t)
  BY ONLY <1>1, <1>2 DEF Walked, Kept
<1>4. s \in Seq(DOMAIN direct.orders) /\ t \in Seq(DOMAIN direct.orders)
  BY ONLY <1>1, <1>3 DEF Sound, SideSound, Linked
<1>5. /\ \A m, n \in 1..Len(s) : s[m] = s[n] => m = n
      /\ \A m, n \in 1..Len(t) : t[m] = t[n] => m = n
      /\ \A m \in 1..Len(s), n \in 1..Len(t) : s[m] # t[n]
  BY ONLY Zenon, <1>3 DEF ListOf
<1>6. OneByOne(s \o t, DOMAIN direct.orders)
  BY <1>3, <1>4, <1>5, OneByOneIs
<1>7. IsInjective(all) /\ Len(all) = Cardinality(DOMAIN direct.orders)
  BY ONLY <1>3, <1>6 DEF OneByOne
<1>8. ASSUME NEW action \in Actions
      PROVE  /\ \A i \in ToSet(Chain(direct, action)) : direct.orders[i].action = action
             /\ \A n \in 1..Len(Chain(direct, action)) - 1 :
                  ~Ahead(action, direct.orders[Chain(direct, action)[n + 1]].price,
                         direct.orders[Chain(direct, action)[n]].price)
  <2>1. PICK u, v : Walked(direct, action, u, v)
    BY WalkedIs
  <2>2. /\ Chain(direct, action) = u /\ ListOf(direct, action, u)
        /\ Sorted(direct, action, u)
    BY ONLY <2>1 DEF Walked, Kept, Sound, SideSound
  <2>3. Len(u) \in Nat /\ \A i \in ToSet(u) : direct.orders[i].action = action
    BY ONLY <2>2 DEF ListOf
  <2>4. \A n \in 1..Len(u) - 1 : n \in 1..Len(u) /\ n + 1 \in 1..Len(u) /\ n < n + 1
    BY ONLY <2>3
  <2>5. \A n \in 1..Len(u) - 1 :
          ~Ahead(action, direct.orders[u[n + 1]].price, direct.orders[u[n]].price)
    BY ONLY <2>2, <2>4 DEF Sorted
  <2>6. QED
    BY ONLY <2>2, <2>3, <2>5
<1>9. QED
  BY <1>7, <1>8 DEF AllReachable

LEMMA LinksAgree ==
  ASSUME DirectInv
  PROVE  LinksMatch
<1>1. ASSUME NEW i \in DOMAIN direct.orders
      PROVE  LET o == direct.orders[i] IN
             /\ IF o.next = None THEN direct.best[o.action] = i
                ELSE direct.orders[o.next].prev = i
             /\ o.prev # None => direct.orders[o.prev].next = i
             /\ direct.levels[o.action][o.price] = o.parent
  <2> DEFINE o == direct.orders[i]
  <2>1. o.action \in Actions
    <3>1. Typed(direct)
      BY DEF DirectInv, Settled, Kept, Sound
    <3>2. QED
      BY <3>1, SlotTypes
  <2>2. PICK s, t : Walked(direct, o.action, s, t)
    BY <2>1, WalkedIs
  <2>3. i \in ToSet(s) /\ ListOf(direct, o.action, s) /\ Filed(direct, o.action, s)
    BY ONLY <2>2, i \in DOMAIN direct.orders DEF Walked, Kept, Sound, SideSound
  <2>4. PICK m \in 1..Len(s) : s[m] = i
    BY ONLY <2>3 DEF ListOf
  <2>5. /\ Len(s) \in Nat /\ direct.best[o.action] = Spot(s, 1)
        /\ \A n \in 1..Len(s) : /\ s[n] \in Nat \ {0}
                               /\ direct.orders[s[n]].next = Spot(s, n - 1)
                               /\ direct.orders[s[n]].prev = Spot(s, n + 1)
    BY ONLY <2>3 DEF ListOf
  <2>6. o.next = Spot(s, m - 1) /\ o.prev = Spot(s, m + 1)
    BY ONLY <2>4, <2>5
  <2>7. direct.levels[o.action][o.price] = o.parent
    BY ONLY <2>3, <2>4 DEF Filed
  <2>8. o.prev # None => direct.orders[o.prev].next = i
    <3>1. SUFFICES ASSUME o.prev # None
                   PROVE  direct.orders[o.prev].next = i
      OBVIOUS
    <3>2. m + 1 \in 1..Len(s) /\ (m + 1) - 1 = m
      BY ONLY <2>5, <2>6, <3>1, m \in 1..Len(s) DEF Spot
    <3>3. o.prev = s[m + 1]
      BY ONLY <2>6, <3>2 DEF Spot
    <3>4. direct.orders[s[m + 1]].next = Spot(s, (m + 1) - 1)
      BY ONLY <2>5, <3>2
    <3>5. Spot(s, m) = i
      BY ONLY <2>4, m \in 1..Len(s) DEF Spot
    <3>6. QED
      BY ONLY <3>2, <3>3, <3>4, <3>5
  <2>9. IF o.next = None THEN direct.best[o.action] = i ELSE direct.orders[o.next].prev = i
    <3>1. CASE m = 1
      <4>1. 1 \in 1..Len(s) /\ m - 1 \notin 1..Len(s)
        BY ONLY <2>5, <3>1, m \in 1..Len(s)
      <4>2. o.next = None
        BY ONLY <2>6, <4>1 DEF Spot
      <4>3. direct.best[o.action] = i
        BY ONLY <2>4, <2>5, <3>1, <4>1 DEF Spot
      <4>4. QED
        BY <4>2, <4>3
    <3>2. CASE m # 1
      <4>1. m - 1 \in 1..Len(s) /\ (m - 1) + 1 = m
        BY ONLY <2>5, <3>2, m \in 1..Len(s)
      <4>2. o.next = s[m - 1] /\ s[m - 1] # None
        BY ONLY <2>5, <2>6, <4>1 DEF Spot, None
      <4>3. direct.orders[s[m - 1]].prev = Spot(s, (m - 1) + 1)
        BY ONLY <2>5, <4>1
      <4>4. Spot(s, m) = i
        BY ONLY <2>4, m \in 1..Len(s) DEF Spot
      <4>5. QED
        BY ONLY <4>1, <4>2, <4>3, <4>4
    <3>3. QED
      BY <3>1, <3>2
  <2>10. QED
    BY <2>7, <2>8, <2>9
<1>2. DOMAIN direct.buckets = UNION {Range(direct.levels[action]) : action \in Actions}
  <2>1. Typed(direct) /\ Keyed(direct)
    BY DEF DirectInv, Settled, Kept, Sound
  <2>2. \A action \in Actions : \A p \in DOMAIN direct.levels[action] :
          direct.levels[action][p] \in DOMAIN direct.buckets
    BY ONLY <2>1 DEF Typed
  <2>3. \A k \in DOMAIN direct.buckets :
          \E x \in Actions : \E p \in DOMAIN direct.levels[x] : direct.levels[x][p] = k
    BY ONLY <2>1 DEF Keyed
  <2>4. \A action : Range(direct.levels[action])
                      = {direct.levels[action][p] : p \in DOMAIN direct.levels[action]}
    BY DEF Range
  <2>5. ASSUME NEW k \in DOMAIN direct.buckets
        PROVE  \E x \in Actions : k \in Range(direct.levels[x])
    <3>1. PICK x \in Actions : \E p \in DOMAIN direct.levels[x] : direct.levels[x][p] = k
      BY ONLY <2>3, <2>5
    <3>2. k \in Range(direct.levels[x])
      BY ONLY Zenon, <2>4, <3>1
    <3>3. QED
      BY ONLY <3>1, <3>2
  <2>6. ASSUME NEW x \in Actions, NEW k \in Range(direct.levels[x])
        PROVE  k \in DOMAIN direct.buckets
    <3>1. k \in {direct.levels[x][p] : p \in DOMAIN direct.levels[x]}
      BY ONLY <2>4, <2>6
    <3>2. PICK p \in DOMAIN direct.levels[x] : direct.levels[x][p] = k
      BY ONLY <3>1
    <3>3. QED
      BY ONLY <2>2, <3>2, x \in Actions
  <2>7. QED
    BY ONLY <2>5, <2>6
<1>3. QED
  BY <1>1, <1>2 DEF LinksMatch

LEMMA DepthAgrees ==
  ASSUME DirectInv
  PROVE  DepthIsBook
<1> SUFFICES ASSUME NEW action \in Actions
             PROVE  LET rest == {i \in DOMAIN direct.orders : direct.orders[i].action = action}
                    IN  Depth(action) =
                          [p \in {direct.orders[i].price : i \in rest} |->
                             LET there == {i \in rest : direct.orders[i].price = p}
                             IN  [volume |-> VolumeOf(there), orders |-> Cardinality(there)]]
  BY Zenon DEF DepthIsBook
<1> DEFINE rest == {i \in DOMAIN direct.orders : direct.orders[i].action = action}
           prices == {direct.orders[i].price : i \in rest}
           There(p) == {i \in rest : direct.orders[i].price = p}
           bucket(p) == direct.buckets[direct.levels[action][p]]
<1>1. PICK s, t : Walked(direct, action, s, t)
  BY WalkedIs
<1>2. ASSUME NEW p \in DOMAIN direct.levels[action]
      PROVE  /\ There(p) = Priced(direct, s, p) /\ p \in prices
             /\ bucket(p).volume = VolumeOf(There(p))
             /\ bucket(p).orders = Cardinality(There(p))
  <2>1. LevelHas(direct, action, s, p)
    BY <1>1, LevelHasIs
  <2>2. There(p) = Priced(direct, s, p)
    BY ONLY Zenon, <2>1 DEF LevelHas
  <2>3. p \in prices
    <3>1. bucket(p).tail \in There(p)
      BY ONLY Zenon, <2>1, <2>2 DEF LevelHas
    <3>2. QED
      BY <3>1
  <2>4. BucketOf(direct, s, p, bucket(p))
    BY ONLY Zenon, <2>1 DEF LevelHas
  <2>5. VolumeOf(There(p)) = Volume(direct, There(p))
    BY Zenon DEF VolumeOf, Volume
  <2> HIDE DEF There, bucket, prices
  <2>6. /\ bucket(p).volume = VolumeOf(There(p))
        /\ bucket(p).orders = Cardinality(There(p))
    BY ONLY <2>2, <2>4, <2>5 DEF BucketOf
  <2>7. QED
    BY <2>2, <2>3, <2>6
<1>3. ASSUME NEW i \in rest
      PROVE  direct.orders[i].price \in DOMAIN direct.levels[action]
  <2>1. i \in ToSet(s) /\ ListOf(direct, action, s) /\ Filed(direct, action, s)
    BY ONLY <1>1, <1>3 DEF Walked, Kept, Sound, SideSound
  <2>2. PICK m \in 1..Len(s) : s[m] = i
    BY ONLY <2>1 DEF ListOf
  <2>3. QED
    BY ONLY <2>1, <2>2 DEF Filed
<1>4. prices = DOMAIN direct.levels[action]
  BY Zenon, <1>2, <1>3
<1> DEFINE Row(p) == [volume |-> bucket(p).volume, orders |-> bucket(p).orders]
           Sum(p) == [volume |-> VolumeOf(There(p)), orders |-> Cardinality(There(p))]
<1>5. Depth(action) = [p \in DOMAIN direct.levels[action] |-> Row(p)]
  BY Zenon DEF Depth
<1>6. \A p \in DOMAIN direct.levels[action] : Row(p) = Sum(p)
  <2> HIDE DEF bucket, There
  <2>1. QED
    BY <1>2
<1>7. Depth(action) = [p \in prices |-> Sum(p)]
  <2> HIDE DEF Row, Sum, prices
  <2>1. QED
    BY ONLY <1>4, <1>5, <1>6
<1>8. QED
  BY <1>7, Zenon

SameTry ==
  \A side, taker, stp : Abstract!TryMatch(side, taker, stp) = P!TryMatch(side, taker, stp)

LEMMA TryIsSame == SameTry
<1>1. ASSUME NEW side, NEW taker, NEW stp
      PROVE  Abstract!TryMatch(side, taker, stp) = P!TryMatch(side, taker, stp)
  BY Zenon DEF Abstract!TryMatch, Abstract!Visits, Abstract!Visit, Abstract!Stop,
     Abstract!From,
       Abstract!Keep, Abstract!Emit, Abstract!Own, Abstract!WithinLimit, Abstract!RejectMaker,
       Abstract!Remaining, Abstract!Trade,
       P!TryMatch, P!Visits, P!Visit, P!Stop, P!From, P!Keep, P!Emit, P!Own, P!WithinLimit,
       P!RejectMaker, P!Remaining, P!Trade
<1>2. QED
  BY <1>1 DEF SameTry

SameParts ==
  /\ \A side, o : Abstract!Insert(side, o) = P!Insert(side, o)
  /\ \A side, id : Abstract!Without(side, id) = P!Without(side, id)
  /\ \A side, size : Abstract!BudgetToFill(side, size) = P!BudgetToFill(side, size)
  /\ \A bk, id : Abstract!Knows(bk, id) <=> P!Knows(bk, id)
  /\ \A bk, id : Abstract!OrderOf(bk, id) = P!OrderOf(bk, id)
  /\ \A bk, cmd : Abstract!Owns(bk, cmd) <=> P!Owns(bk, cmd)

LEMMA PartsAreSame == SameParts
<1>1. ASSUME NEW side, NEW o
      PROVE  Abstract!Insert(side, o) = P!Insert(side, o)
  BY Zenon DEF Abstract!Insert, P!Insert, Abstract!InsertAt, P!InsertAt, Abstract!Ahead,
     P!Ahead,
       Abstract!Cardinality, P!Cardinality
<1>2. ASSUME NEW side, NEW id
      PROVE  Abstract!Without(side, id) = P!Without(side, id)
  BY Zenon DEF Abstract!Without, P!Without, Abstract!RemoveAt, P!RemoveAt
<1>3. ASSUME NEW side, NEW size
      PROVE  Abstract!BudgetToFill(side, size) = P!BudgetToFill(side, size)
  BY Zenon DEF Abstract!BudgetToFill, P!BudgetToFill, Abstract!Costs, P!Costs,
     Abstract!Cost,
       P!Cost, Abstract!Remaining, P!Remaining
<1>4. ASSUME NEW bk, NEW id
      PROVE  Abstract!Knows(bk, id) <=> P!Knows(bk, id)
  BY Zenon DEF Abstract!Knows, P!Knows, Abstract!RestingOrders, P!RestingOrders,
       Abstract!ToSet, P!ToSet
<1>5. ASSUME NEW bk, NEW id
      PROVE  Abstract!OrderOf(bk, id) = P!OrderOf(bk, id)
  BY Zenon DEF Abstract!OrderOf, P!OrderOf, Abstract!RestingOrders, P!RestingOrders,
       Abstract!ToSet, P!ToSet
<1>6. ASSUME NEW bk, NEW cmd
      PROVE  Abstract!Owns(bk, cmd) <=> P!Owns(bk, cmd)
  <2>1. P!Owns(bk, cmd) <=> P!Knows(bk, cmd.id) /\ P!OrderOf(bk, cmd.id).uid = cmd.uid
    BY DEF P!Owns
  <2>2. Abstract!Owns(bk, cmd)
          <=> Abstract!Knows(bk, cmd.id) /\ Abstract!OrderOf(bk, cmd.id).uid = cmd.uid
    BY DEF Abstract!Owns
  <2>3. QED
    BY ONLY <1>4, <1>5, <2>1, <2>2
<1>7. QED
  BY ONLY <1>1, <1>2, <1>3, <1>4, <1>5, <1>6 DEF SameParts

\* The operations as what their parts make of them.
Finished(book, events, action) ==
  [book |-> book, events |-> events, code |-> "Success", action |-> action]
Both(o, m, own) ==
  [x \in Actions |-> IF x = o.action THEN own ELSE m.side]
RestOf(left, o) ==
  IF left > 0 THEN <<Reject(left, o.reserve)>> ELSE <<>>

GtcWith(bk, taker, m, in) ==
  IF m.aborted
  THEN Finished(Both(taker, m, bk[taker.action]),
                m.events \o RestOf(taker.size - m.filled, taker), taker.action)
  ELSE Finished(Both(taker, m, IF taker.size - m.filled > 0 THEN in ELSE bk[taker.action]),
                m.events, taker.action)

IocWith(bk, taker, m) ==
  Finished(Both(taker, m, bk[taker.action]),
           m.events \o RestOf(taker.size - m.filled, taker), taker.action)

FokWith(bk, taker, m, cost) ==
  IF BudgetSatisfied(taker.action, cost, taker.price)
  THEN Finished(Both(taker, m, bk[taker.action]),
                m.events \o IF m.aborted /\ taker.size - m.filled > 0
                            THEN <<Reject(taker.size - m.filled, taker.reserve)>> ELSE <<>>,
                taker.action)
  ELSE Finished(bk, <<Reject(taker.size, taker.reserve)>>, taker.action)

SamePlace ==
  \A bk, taker, sp :
    /\ Abstract!PlaceGtc(bk, taker, sp) = P!PlaceGtc(bk, taker, sp)
    /\ Abstract!PlaceIoc(bk, taker, sp) = P!PlaceIoc(bk, taker, sp)
    /\ Abstract!PlaceFokBudget(bk, taker, sp) = P!PlaceFokBudget(bk, taker, sp)

LEMMA PlaceIsSame == SamePlace
<1> SUFFICES ASSUME NEW bk, NEW taker, NEW sp
             PROVE  /\ Abstract!PlaceGtc(bk, taker, sp) = P!PlaceGtc(bk, taker, sp)
                    /\ Abstract!PlaceIoc(bk, taker, sp) = P!PlaceIoc(bk, taker, sp)
                    /\ Abstract!PlaceFokBudget(bk, taker, sp) = P!PlaceFokBudget(bk, taker, sp)
  BY DEF SamePlace
<1> DEFINE facing == bk[Opposite(taker.action)]
           own == bk[taker.action]
           m == P!TryMatch(facing, taker, sp.stp)
           ma == Abstract!TryMatch(facing, taker, sp.stp)
           in == P!Insert(own, Partly(taker, m.filled))
           ina == Abstract!Insert(own, Partly(taker, ma.filled))
           cost == P!BudgetToFill(facing, taker.size)
           costa == Abstract!BudgetToFill(facing, taker.size)
<1>1. ma = m
  BY ONLY TryIsSame DEF SameTry
<1>2. ina = in
  <2> HIDE DEF m, ma, own
  <2>1. QED
    BY ONLY <1>1, PartsAreSame DEF SameParts
<1>3. costa = cost
  BY ONLY PartsAreSame DEF SameParts
<1>4. /\ P!PlaceGtc(bk, taker, sp) = GtcWith(bk, taker, m, in)
      /\ Abstract!PlaceGtc(bk, taker, sp) = GtcWith(bk, taker, ma, ina)
  BY Zenon DEF GtcWith, Finished, Both, RestOf, Partly, Actions, Opposite, Reject,
       P!PlaceGtc, P!Done, P!Matched, P!Actions, P!Opposite, P!Reject,
       Abstract!PlaceGtc, Abstract!Done, Abstract!Matched, Abstract!Actions,
       Abstract!Opposite, Abstract!Reject
<1>5. /\ P!PlaceIoc(bk, taker, sp) = IocWith(bk, taker, m)
      /\ Abstract!PlaceIoc(bk, taker, sp) = IocWith(bk, taker, ma)
  BY Zenon DEF IocWith, Finished, Both, RestOf, Actions, Opposite, Reject,
       P!PlaceIoc, P!Done, P!Matched, P!Actions, P!Opposite, P!Reject,
       Abstract!PlaceIoc, Abstract!Done, Abstract!Matched, Abstract!Actions,
       Abstract!Opposite, Abstract!Reject
<1>6. /\ P!PlaceFokBudget(bk, taker, sp) = FokWith(bk, taker, m, cost)
      /\ Abstract!PlaceFokBudget(bk, taker, sp) = FokWith(bk, taker, ma, costa)
  BY Zenon DEF FokWith, Finished, Both, Actions, Opposite, Reject, BudgetSatisfied,
       P!PlaceFokBudget, P!Done, P!Matched, P!Actions, P!Opposite, P!Reject,
       P!BudgetSatisfied,
       Abstract!PlaceFokBudget, Abstract!Done, Abstract!Matched, Abstract!Actions,
       Abstract!Opposite, Abstract!Reject, Abstract!BudgetSatisfied
<1> HIDE DEF m, ma, in, ina, cost, costa
<1>7. QED
  BY ONLY <1>1, <1>2, <1>3, <1>4, <1>5, <1>6, Zenon

SetSide(book, action, side) ==
  [book EXCEPT ![action] = side]
Declined(book, cmd, code) ==
  [book |-> book, events |-> <<>>, code |-> code, action |-> cmd.action]

CancelWith(bk, o, rest) ==
  Finished(SetSide(bk, o.action, rest), <<Reject(Remaining(o), o.reserve)>>, o.action)

ReduceWith(bk, cmd, o, rest) ==
  LET by == IF Remaining(o) < cmd.size THEN Remaining(o) ELSE cmd.size
  IN  Finished(SetSide(bk, o.action,
                       IF by = Remaining(o) THEN rest ELSE Lessened(bk[o.action], o.id, by)),
               <<Reject(by, o.reserve)>>, o.action)

MoveWith(bk, o, m, moved, rest, in) ==
  IF m.aborted /\ Remaining(moved) > 0
  THEN Finished(Both(o, m, rest), Append(m.events, Reject(Remaining(moved), o.reserve)),
                o.action)
  ELSE Finished(Both(o, m, IF Remaining(moved) > 0 THEN in ELSE rest), m.events, o.action)

SameNew ==
  \A bk, taker, type, sp :
    Abstract!NewOrder(bk, taker, type, sp) = P!NewOrder(bk, taker, type, sp)

LEMMA NewIsSame == SameNew
<1> SUFFICES ASSUME NEW bk, NEW taker, NEW type, NEW sp
             PROVE  Abstract!NewOrder(bk, taker, type, sp) = P!NewOrder(bk, taker, type, sp)
  BY DEF SameNew
<1> DEFINE known == P!Knows(bk, taker.id)
           a == Abstract!NewOrder(bk, taker, type, sp)
           p == P!NewOrder(bk, taker, type, sp)
<1>1. Abstract!Knows(bk, taker.id) <=> known
  BY ONLY PartsAreSame DEF SameParts
<1>2. /\ \A code : Abstract!Refused(bk, taker, code) = P!Refused(bk, taker, code)
      /\ Abstract!PlaceGtc(bk, taker, sp) = P!PlaceGtc(bk, taker, sp)
      /\ Abstract!PlaceIoc(bk, taker, sp) = P!PlaceIoc(bk, taker, sp)
      /\ Abstract!PlaceFokBudget(bk, taker, sp) = P!PlaceFokBudget(bk, taker, sp)
  <2>1. \A code : Abstract!Refused(bk, taker, code) = P!Refused(bk, taker, code)
    BY Zenon DEF Abstract!Refused, P!Refused
  <2>2. QED
    BY ONLY <2>1, PlaceIsSame DEF SamePlace
<1>3. CASE known
  <2>1. a = Abstract!Refused(bk, taker, "MatchingDuplicateOrderId")
    BY ONLY <1>1, <1>3, Zenon DEF Abstract!NewOrder
  <2>2. p = P!Refused(bk, taker, "MatchingDuplicateOrderId")
    BY ONLY <1>3, Zenon DEF P!NewOrder
  <2>3. QED
    BY ONLY <1>2, <2>1, <2>2
<1>4. CASE ~known /\ type = "Gtc"
  <2>1. a = Abstract!PlaceGtc(bk, taker, sp)
    BY ONLY <1>1, <1>4, Zenon DEF Abstract!NewOrder
  <2>2. p = P!PlaceGtc(bk, taker, sp)
    BY ONLY <1>4, Zenon DEF P!NewOrder
  <2>3. QED
    BY ONLY <1>2, <2>1, <2>2
<1>5. CASE ~known /\ type = "Ioc"
  <2>1. type # "Gtc"
    BY <1>5
  <2>2. a = Abstract!PlaceIoc(bk, taker, sp)
    BY ONLY <1>1, <1>5, <2>1, Zenon DEF Abstract!NewOrder
  <2>3. p = P!PlaceIoc(bk, taker, sp)
    BY ONLY <1>5, <2>1, Zenon DEF P!NewOrder
  <2>4. QED
    BY ONLY <1>2, <2>2, <2>3
<1>6. CASE ~known /\ type = "FokBudget"
  <2>1. type # "Gtc" /\ type # "Ioc"
    BY <1>6
  <2>2. a = Abstract!PlaceFokBudget(bk, taker, sp)
    BY ONLY <1>1, <1>6, <2>1, Zenon DEF Abstract!NewOrder
  <2>3. p = P!PlaceFokBudget(bk, taker, sp)
    BY ONLY <1>6, <2>1, Zenon DEF P!NewOrder
  <2>4. QED
    BY ONLY <1>2, <2>2, <2>3
<1>7. CASE ~known /\ type # "Gtc" /\ type # "Ioc" /\ type # "FokBudget"
  <2>1. a = Abstract!Refused(bk, taker, "MatchingUnsupportedCommand")
    BY ONLY <1>1, <1>7, Zenon DEF Abstract!NewOrder
  <2>2. p = P!Refused(bk, taker, "MatchingUnsupportedCommand")
    BY ONLY <1>7, Zenon DEF P!NewOrder
  <2>3. QED
    BY ONLY <1>2, <2>1, <2>2
<1>8. QED
  BY <1>3, <1>4, <1>5, <1>6, <1>7

SameChanges ==
  \A bk, cmd, sp :
    /\ Abstract!CancelOrder(bk, cmd) = P!CancelOrder(bk, cmd)
    /\ Abstract!ReduceOrder(bk, cmd) = P!ReduceOrder(bk, cmd)
    /\ Abstract!MoveOrder(bk, cmd, sp) = P!MoveOrder(bk, cmd, sp)

LEMMA ChangesAreSame == SameChanges
<1> SUFFICES ASSUME NEW bk, NEW cmd, NEW sp
             PROVE  /\ Abstract!CancelOrder(bk, cmd) = P!CancelOrder(bk, cmd)
                    /\ Abstract!ReduceOrder(bk, cmd) = P!ReduceOrder(bk, cmd)
                    /\ Abstract!MoveOrder(bk, cmd, sp) = P!MoveOrder(bk, cmd, sp)
  BY DEF SameChanges
<1> DEFINE o == P!OrderOf(bk, cmd.id)
           oa == Abstract!OrderOf(bk, cmd.id)
           rest == P!Without(bk[o.action], o.id)
           resta == Abstract!Without(bk[oa.action], oa.id)
           m == P!TryMatch(bk[Opposite(o.action)], Retaker(o, cmd.price), sp.stp)
           ma == Abstract!TryMatch(bk[Opposite(oa.action)], Retaker(oa, cmd.price), sp.stp)
           moved == Remade(o, cmd.price, m.filled)
           moveda == Remade(oa, cmd.price, ma.filled)
           in == P!Insert(rest, moved)
           ina == Abstract!Insert(resta, moveda)
           No(code) == Declined(bk, cmd, code)
<1>1. oa = o
  BY ONLY PartsAreSame DEF SameParts
<1>2. resta = rest
  <2> HIDE DEF o, oa
  <2>1. QED
    BY ONLY <1>1, PartsAreSame DEF SameParts
<1>3. ma = m
  <2> HIDE DEF o, oa
  <2>1. QED
    BY ONLY <1>1, TryIsSame DEF SameTry
<1>4. moveda = moved
  <2> HIDE DEF o, oa, m, ma
  <2>1. QED
    BY ONLY <1>1, <1>3, Zenon
<1>5. ina = in
  <2> HIDE DEF moved, moveda, rest, resta
  <2>1. QED
    BY ONLY <1>2, <1>4, PartsAreSame DEF SameParts
<1>6. /\ Abstract!Knows(bk, cmd.id) <=> P!Knows(bk, cmd.id)
      /\ Abstract!Owns(bk, cmd) <=> P!Owns(bk, cmd)
  BY ONLY PartsAreSame DEF SameParts
<1>7. /\ P!CancelOrder(bk, cmd)
           = IF ~P!Owns(bk, cmd) THEN No("MatchingUnknownOrderId") ELSE CancelWith(bk, o, rest)
      /\ Abstract!CancelOrder(bk, cmd)
           = IF ~Abstract!Owns(bk, cmd) THEN No("MatchingUnknownOrderId")
             ELSE CancelWith(bk, oa, resta)
  BY Zenon DEF CancelWith, Finished, SetSide, Declined, Reject, Remaining,
       P!CancelOrder, P!Refused, P!Done, P!Reject, P!Remaining,
       Abstract!CancelOrder, Abstract!Refused, Abstract!Done, Abstract!Reject,
       Abstract!Remaining
<1>8. /\ P!ReduceOrder(bk, cmd)
           = IF ~P!Knows(bk, cmd.id) THEN No("MatchingUnknownOrderId")
             ELSE IF cmd.size <= 0 THEN No("MatchingInvalidOrderSize")
             ELSE IF ~P!Owns(bk, cmd) THEN No("MatchingUnknownOrderId")
             ELSE ReduceWith(bk, cmd, o, rest)
      /\ Abstract!ReduceOrder(bk, cmd)
           = IF ~Abstract!Knows(bk, cmd.id) THEN No("MatchingUnknownOrderId")
             ELSE IF cmd.size <= 0 THEN No("MatchingInvalidOrderSize")
             ELSE IF ~Abstract!Owns(bk, cmd) THEN No("MatchingUnknownOrderId")
             ELSE ReduceWith(bk, cmd, oa, resta)
  BY Zenon DEF ReduceWith, Finished, SetSide, Declined, Reject, Remaining, Lessened,
       P!ReduceOrder, P!Refused, P!Done, P!Reject, P!Remaining,
       Abstract!ReduceOrder, Abstract!Refused, Abstract!Done, Abstract!Reject,
       Abstract!Remaining
<1>9. /\ P!MoveOrder(bk, cmd, sp)
           = IF ~P!Knows(bk, cmd.id) THEN No("MatchingUnknownOrderId")
             ELSE IF cmd.price <= 0 THEN No("RiskInvalidOrderParams")
             ELSE IF ~P!Owns(bk, cmd) THEN No("MatchingUnknownOrderId")
             ELSE IF ~MoveAllowed(o, cmd.price, sp) THEN No("RiskInvalidReserveBidPrice")
             ELSE MoveWith(bk, o, m, moved, rest, in)
      /\ Abstract!MoveOrder(bk, cmd, sp)
           = IF ~Abstract!Knows(bk, cmd.id) THEN No("MatchingUnknownOrderId")
             ELSE IF cmd.price <= 0 THEN No("RiskInvalidOrderParams")
             ELSE IF ~Abstract!Owns(bk, cmd) THEN No("MatchingUnknownOrderId")
             ELSE IF ~MoveAllowed(oa, cmd.price, sp) THEN No("RiskInvalidReserveBidPrice")
             ELSE MoveWith(bk, oa, ma, moveda, resta, ina)
  BY Zenon DEF MoveWith, Finished, Both, Declined, Reject, Remaining, Remade, Retaker,
       Opposite, Actions, MoveAllowed,
       P!MoveOrder, P!Refused, P!Done, P!Matched, P!Reject, P!Remaining, P!Retaker,
       P!Opposite, P!Actions, P!MoveAllowed,
       Abstract!MoveOrder, Abstract!Refused, Abstract!Done, Abstract!Matched,
       Abstract!Reject, Abstract!Remaining, Abstract!Retaker, Abstract!Opposite,
       Abstract!Actions, Abstract!MoveAllowed
<1> HIDE DEF o, oa, rest, resta, m, ma, moved, moveda, in, ina, No
<1>10. Abstract!CancelOrder(bk, cmd) = P!CancelOrder(bk, cmd)
  BY ONLY <1>1, <1>2, <1>6, <1>7
<1>11. Abstract!ReduceOrder(bk, cmd) = P!ReduceOrder(bk, cmd)
  BY ONLY <1>1, <1>2, <1>6, <1>8
<1>12. Abstract!MoveOrder(bk, cmd, sp) = P!MoveOrder(bk, cmd, sp)
  BY ONLY <1>1, <1>2, <1>3, <1>4, <1>5, <1>6, <1>9
<1>13. QED
  BY ONLY <1>10, <1>11, <1>12

-----------------------------------------------------------------------------
(* The refinement *)

LEMMA ShownBook ==
  /\ [action \in Actions |-> Side(action)] = BookView(direct)
  /\ [action \in Actions |-> Side(action)]' = BookView(direct')
BY Zenon DEF Side, BookView, Plains

\* The book a command finds and the one it leaves, as LimitOrderBook has it.
AbstractApply(a) ==
  /\ BookView(direct') = a.book
  /\ reply' = [code |-> a.code, events |-> a.events, action |-> a.action]
  /\ UNCHANGED spec

AbstractHandle(c) ==
  \/ c[1] = "PlaceOrder" /\ AbstractApply(Abstract!NewOrder(BookView(direct), c[2], c[3], spec))
  \/ /\ c[1] = "CancelOrder"
     /\ AbstractApply(Abstract!CancelOrder(BookView(direct), Canceller(c[2], c[3])))
  \/ /\ c[1] = "MoveOrder"
     /\ AbstractApply(Abstract!MoveOrder(BookView(direct), Mover(c[2], c[3], c[4]), spec))
  \/ /\ c[1] = "ReduceOrder"
     /\ AbstractApply(Abstract!ReduceOrder(BookView(direct), Reducer(c[2], c[3], c[4])))

LEMMA HandleIs ==
  ASSUME NEW c
  PROVE  AbstractHandle(c) => Abstract!Handle(c)
<1> DEFINE shown == [action \in Actions |-> Side(action)]
<1>1. shown = BookView(direct) /\ shown' = BookView(direct')
  BY ShownBook
<1> HIDE DEF shown
<1>2. \A a : AbstractApply(a) => Abstract!Apply(a)
  BY <1>1, Zenon DEF AbstractApply, Abstract!Apply, shown
<1>3. QED
  BY <1>1, <1>2, Zenon DEF AbstractHandle, Abstract!Handle, shown, Canceller, Mover, Reducer

LEMMA RefinesInit ==
  ASSUME Init
  PROVE  Abstract!Init
<1>1. BookView(Empty) = Abstract!EmptyBook
  <2>1. P!EmptyBook = Abstract!EmptyBook
    BY Zenon DEF P!EmptyBook, Abstract!EmptyBook, P!Actions, Abstract!Actions
  <2>2. QED
    BY <2>1, EmptyView
<1>2. [action \in Actions |-> Side(action)] = Abstract!EmptyBook
  BY <1>1, ShownBook DEF Init
<1>3. QED
  BY <1>2, Zenon DEF Init, Abstract!Init

LEMMA AnswerApplies ==
  ASSUME NEW a, NEW x, AnsweredAs(a), x = a
  PROVE  AbstractApply(x)
BY DEF AnsweredAs, AbstractApply

LEMMA OrderAdmitted ==
  ASSUME NEW uid \in Users, NEW id \in OrderIds, NEW action \in Actions,
         NEW price \in Prices, NEW size \in Sizes, NEW reserve \in Admitted(action, price)
  PROVE  Order(uid, id, action, price, reserve, size) \in Abstract!Orders
<1> DEFINE o == Order(uid, id, action, price, reserve, size)
<1>1. reserve \in Prices \cup Reserves
  BY DEF Admitted
<1>2. o \in [id : OrderIds, uid : Users, action : Actions, price : Prices, size : Sizes,
             filled : {0}, reserve : Prices \cup Reserves]
  BY <1>1 DEF Order
<1>3. o.action = action /\ o.price = price /\ o.reserve = reserve
  BY DEF Order
<1>4. Abstract!Actions = Actions /\ Abstract!Admitted(action, price) = Admitted(action, price)
  BY Zenon DEF Abstract!Actions, Actions, Abstract!Admitted, Admitted
<1> HIDE DEF o
<1>5. o \in Abstract!Orders
  BY ONLY <1>2, <1>3, <1>4, reserve \in Admitted(action, price) DEF Abstract!Orders
<1>6. QED
  BY <1>5 DEF o

LEMMA PlaceRefines ==
  ASSUME DirectInv, NEW uid \in Users, NEW id \in OrderIds, NEW action \in Actions,
         NEW price \in Prices, NEW size \in Sizes, NEW type \in Types,
         NEW reserve \in Admitted(action, price),
         Place(uid, id, action, price, reserve, size, type)
  PROVE  Abstract!Next
<1> DEFINE o == Order(uid, id, action, price, reserve, size)
           c == <<"PlaceOrder", o, type>>
<1>1. command' = c
  BY DEF Place
<1>2. o \in Abstract!Orders
  BY OrderAdmitted
<1>3. AnsweredAs(P!NewOrder(BookView(direct), o, type, spec))
  BY PlaceAnswers
<1> HIDE DEF o
<1>4. c \in Abstract!Commands
  BY <1>2 DEF Abstract!Commands
<1>5. c[1] = "PlaceOrder" /\ c[2] = o /\ c[3] = type
  OBVIOUS
<1> HIDE DEF c
<1>6. Abstract!NewOrder(BookView(direct), o, type, spec) = P!NewOrder(BookView(direct), o, type, spec)
  BY ONLY NewIsSame DEF SameNew
<1>7. AbstractApply(Abstract!NewOrder(BookView(direct), o, type, spec))
  BY ONLY <1>3, <1>6, AnswerApplies
<1>8. Abstract!Handle(c)
  <2>1. AbstractHandle(c)
    BY ONLY <1>5, <1>7 DEF AbstractHandle
  <2>2. QED
    BY <2>1, HandleIs
<1>9. QED
  BY ONLY <1>1, <1>4, <1>8 DEF Abstract!Next

LEMMA CancelRefines ==
  ASSUME DirectInv, NEW uid \in Users, NEW id \in OrderIds, Cancel(uid, id)
  PROVE  Abstract!Next
<1> DEFINE c == <<"CancelOrder", uid, id>>
           a == Abstract!CancelOrder(BookView(direct), Canceller(uid, id))
<1>1. command' = c
  BY DEF Cancel
<1>2. c \in Abstract!Commands
  BY DEF Abstract!Commands
<1>3. c[1] = "CancelOrder" /\ c[2] = uid /\ c[3] = id
  OBVIOUS
<1> HIDE DEF c
<1>4. AbstractApply(a)
  <2>1. AnsweredAs(P!CancelOrder(BookView(direct), Canceller(uid, id)))
    BY CancelAnswered
  <2>2. a = P!CancelOrder(BookView(direct), Canceller(uid, id))
    BY ONLY ChangesAreSame DEF SameChanges
  <2> HIDE DEF a
  <2>3. QED
    BY ONLY <2>1, <2>2, AnswerApplies
<1>5. AbstractHandle(c)
  BY ONLY <1>3, <1>4 DEF AbstractHandle
<1>6. Abstract!Handle(c)
  BY <1>5, HandleIs
<1>7. QED
  BY ONLY <1>1, <1>2, <1>6 DEF Abstract!Next

LEMMA MoveRefines ==
  ASSUME DirectInv, NEW uid \in Users, NEW id \in OrderIds, NEW price \in Prices,
         Move(uid, id, price)
  PROVE  Abstract!Next
<1> DEFINE c == <<"MoveOrder", uid, id, price>>
           a == Abstract!MoveOrder(BookView(direct), Mover(uid, id, price), spec)
<1>1. command' = c
  BY DEF Move
<1>2. c \in Abstract!Commands
  BY DEF Abstract!Commands
<1>3. c[1] = "MoveOrder" /\ c[2] = uid /\ c[3] = id /\ c[4] = price
  OBVIOUS
<1> HIDE DEF c
<1>4. AbstractApply(a)
  <2>1. AnsweredAs(P!MoveOrder(BookView(direct), Mover(uid, id, price), spec))
    BY MoveAnswered
  <2>2. a = P!MoveOrder(BookView(direct), Mover(uid, id, price), spec)
    BY ONLY ChangesAreSame DEF SameChanges
  <2> HIDE DEF a
  <2>3. QED
    BY ONLY <2>1, <2>2, AnswerApplies
<1>5. AbstractHandle(c)
  BY ONLY <1>3, <1>4 DEF AbstractHandle
<1>6. Abstract!Handle(c)
  BY <1>5, HandleIs
<1>7. QED
  BY ONLY <1>1, <1>2, <1>6 DEF Abstract!Next

LEMMA ReduceRefines ==
  ASSUME DirectInv, NEW uid \in Users, NEW id \in OrderIds, NEW size \in Sizes,
         Reduce(uid, id, size)
  PROVE  Abstract!Next
<1> DEFINE c == <<"ReduceOrder", uid, id, size>>
           a == Abstract!ReduceOrder(BookView(direct), Reducer(uid, id, size))
<1>1. command' = c
  BY DEF Reduce
<1>2. c \in Abstract!Commands
  BY DEF Abstract!Commands
<1>3. c[1] = "ReduceOrder" /\ c[2] = uid /\ c[3] = id /\ c[4] = size
  OBVIOUS
<1> HIDE DEF c
<1>4. AbstractApply(a)
  <2>1. AnsweredAs(P!ReduceOrder(BookView(direct), Reducer(uid, id, size)))
    BY ReduceAnswered
  <2>2. a = P!ReduceOrder(BookView(direct), Reducer(uid, id, size))
    BY ONLY ChangesAreSame DEF SameChanges
  <2> HIDE DEF a
  <2>3. QED
    BY ONLY <2>1, <2>2, AnswerApplies
<1>5. AbstractHandle(c)
  BY ONLY <1>3, <1>4 DEF AbstractHandle
<1>6. Abstract!Handle(c)
  BY <1>5, HandleIs
<1>7. QED
  BY ONLY <1>1, <1>2, <1>6 DEF Abstract!Next

LEMMA RefinesNext ==
  ASSUME DirectInv, [Next]_vars
  PROVE  [Abstract!Next]_Abstract!vars
<1>1. CASE Next
  BY <1>1, PlaceRefines, CancelRefines, MoveRefines, ReduceRefines DEF Next
<1>2. CASE UNCHANGED vars
  <2> DEFINE shown == [action \in Actions |-> Side(action)]
  <2>1. shown' = shown /\ spec' = spec /\ command' = command /\ reply' = reply
    <3>1. BookView(direct') = BookView(direct)
      BY <1>2 DEF vars
    <3> HIDE DEF shown
    <3>2. shown = BookView(direct) /\ shown' = BookView(direct')
      BY ShownBook DEF shown
    <3>3. QED
      BY <1>2, <3>1, <3>2 DEF vars
  <2> HIDE DEF shown
  <2>2. QED
    BY ONLY <2>1, Zenon DEF Abstract!vars, shown
<1>3. QED
  BY <1>1, <1>2

-----------------------------------------------------------------------------
(* Theorems *)

\* The self-check assert_invariants (direct.rs:357-467), which the program runs in
\* debug builds only, would succeed after every sequence of commands: the index, the
\* slots, the buckets' sums and the walks from the best orders agree.
THEOREM AssertInvariantsHold == Spec => []AssertInvariants
<1>1. DirectInv => AssertInvariants
  BY IndexAgrees, BucketsAgree, AllFound DEF AssertInvariants
<1>2. QED
  BY <1>1, DirectAlways, PTL

\* What the self-check does not look at and remove_order relies on: every link has
\* its counterpart, and every bucket in the slab is a price level (direct.rs:562-620).
THEOREM LinksHold == Spec => []LinksMatch
<1>1. DirectInv => LinksMatch
  BY LinksAgree
<1>2. QED
  BY <1>1, DirectAlways, PTL

\* The depth that get_l2_data publishes is that of the orders in the book.
THEOREM DepthHolds == Spec => []DepthIsBook
<1>1. DirectInv => DepthIsBook
  BY DepthAgrees
<1>2. QED
  BY <1>1, DirectAlways, PTL

\* The linked lists, buckets, index and pointers of direct.rs give every command the
\* answer, the events and the order of priorities that the two sequences of
\* LimitOrderBook give it.
THEOREM DirectImplements == Spec => ImplementsLimitOrderBook
<1>1. Init => Abstract!Init
  BY RefinesInit
<1>2. DirectInv /\ [Next]_vars => [Abstract!Next]_Abstract!vars
  BY RefinesNext
<1>3. QED
  BY <1>1, <1>2, DirectAlways, PTL DEF Spec, ImplementsLimitOrderBook, Abstract!Spec
=============================================================================
