------------------------ MODULE DirectLinksProofs ------------------------
(***************************************************************************)
(* What insert_order, remove_order and the visits of try_match do to the     *)
(* linked lists, the buckets and the index of DirectOrderBook, and that a    *)
(* walk along a list is the walk along the sequence it stands for.           *)
(***************************************************************************)
EXTENDS DirectOrderBook, SumsProofs

P == INSTANCE PriceTimeBookProofs

-----------------------------------------------------------------------------
(* A sound book.  `s` is the list of slots that the links of a side make.  Not *)
(* every order needs to be in a list: a moved order is in none for a while.    *)

SlotOrders ==
  [id : OrderIds, uid : Users, action : Actions, price : Nat, size : Int, filled : Int,
   reserve : Int, next : Nat, prev : Nat, parent : Nat]

SlabBuckets == [price : Int, volume : Int, orders : Int, tail : Nat]

Book(orders, buckets, index, levels, best) ==
  [orders |-> orders, buckets |-> buckets, index |-> index, levels |-> levels,
   best |-> best]

IsBook(b) == b = Book(b.orders, b.buckets, b.index, b.levels, b.best)

Typed(b) ==
  /\ IsBook(b)
  /\ IsFiniteSet(DOMAIN b.orders) /\ DOMAIN b.orders \subseteq Nat \ {0}
  /\ b.orders \in [DOMAIN b.orders -> SlotOrders]
  /\ IsFiniteSet(DOMAIN b.buckets) /\ DOMAIN b.buckets \subseteq Nat \ {0}
  /\ b.buckets \in [DOMAIN b.buckets -> SlabBuckets]
  /\ b.levels = [action \in Actions |-> b.levels[action]]
  /\ \A action \in Actions :
       /\ b.levels[action] \in [DOMAIN b.levels[action] -> DOMAIN b.buckets]
       /\ DOMAIN b.levels[action] \subseteq Int
  /\ b.best \in [Actions -> Nat]
  /\ b.index = [id \in DOMAIN b.index |-> b.index[id]]

\* No two price levels share a bucket, and every bucket is a price level.
Keyed(b) ==
  /\ \A x, y \in Actions : \A p \in DOMAIN b.levels[x], q \in DOMAIN b.levels[y] :
       b.levels[x][p] = b.levels[y][q] => x = y /\ p = q
  /\ \A k \in DOMAIN b.buckets :
       \E x \in Actions : \E p \in DOMAIN b.levels[x] : b.levels[x][p] = k

\* The index and the slots are inverse to each other.
Indexed(b) ==
  /\ \A i \in DOMAIN b.orders :
       b.orders[i].id \in DOMAIN b.index /\ b.index[b.orders[i].id] = i
  /\ \A id \in DOMAIN b.index :
       b.index[id] \in DOMAIN b.orders /\ b.orders[b.index[id]].id = id

\* The n-th slot of a list, or None before its beginning and behind its end.
Spot(s, n) == IF n \in 1..Len(s) THEN s[n] ELSE None

Linked(b, action, s) ==
  /\ s \in Seq(DOMAIN b.orders)
  /\ \A m, n \in 1..Len(s) : s[m] = s[n] => m = n
  /\ b.best[action] = Spot(s, 1)
  /\ \A n \in 1..Len(s) : /\ b.orders[s[n]].action = action
                         /\ b.orders[s[n]].next = Spot(s, n - 1)
                         /\ b.orders[s[n]].prev = Spot(s, n + 1)

Sorted(b, action, s) ==
  \A m, n \in 1..Len(s) : m < n =>
    ~Ahead(action, b.orders[s[n]].price, b.orders[s[m]].price)

\* The slots of a list at one price, and what is left in them.
Priced(b, s, p) == {i \in ToSet(s) : b.orders[i].price = p}
Volume(b, slots) == SumOf([i \in slots |-> Remaining(b.orders[i])])

\* Slot i is the last one of the list at this price.
TailOf(b, s, p, i) ==
  \E n \in 1..Len(s) :
    /\ s[n] = i /\ b.orders[s[n]].price = p
    /\ \A m \in 1..Len(s) : b.orders[s[m]].price = p => m <= n

\* The bucket of the price p.
BucketOf(b, s, p, bucket) ==
  /\ bucket.price = p
  /\ bucket.volume = Volume(b, Priced(b, s, p))
  /\ bucket.orders = Cardinality(Priced(b, s, p))
  /\ TailOf(b, s, p, bucket.tail)

Filed(b, action, s) ==
  /\ \A n \in 1..Len(s) :
       /\ b.orders[s[n]].price \in DOMAIN b.levels[action]
       /\ b.orders[s[n]].parent = b.levels[action][b.orders[s[n]].price]
  /\ \A p \in DOMAIN b.levels[action] :
       BucketOf(b, s, p, b.buckets[b.levels[action][p]])

SideSound(b, action, s) ==
  Linked(b, action, s) /\ Sorted(b, action, s) /\ Filed(b, action, s)

\* Both sides, s and t being their lists.
Sound(b, action, s, t) ==
  /\ Typed(b) /\ Keyed(b) /\ Indexed(b)
  /\ SideSound(b, action, s) /\ SideSound(b, Opposite(action), t)

-----------------------------------------------------------------------------
(* Parts of a book *)

LEMMA UpTo ==
  ASSUME NEW n \in Nat
  PROVE  IsFiniteSet(1..n) /\ Cardinality(1..n) = n
<1>1. 1 \in Int /\ n \in Int
  OBVIOUS
<1>2. IsFiniteSet(1..n) /\ Cardinality(1..n) = IF 1 > n THEN 0 ELSE n - 1 + 1
  BY ONLY <1>1, FS_Interval, Zenon
<1>3. (IF 1 > n THEN 0 ELSE n - 1 + 1) = n
  OBVIOUS
<1>4. QED
  BY ONLY <1>2, <1>3

LEMMA Sides ==
  ASSUME NEW action \in Actions
  PROVE  /\ Opposite(action) \in Actions /\ Opposite(action) # action
         /\ Opposite(Opposite(action)) = action
         /\ \A x \in Actions : x = action \/ x = Opposite(action)
  BY DEF Actions, Opposite

\* The fields of a book that is changed in some of them.
SetOrders(b, o) ==
  [b EXCEPT !.orders = o]
SetBuckets(b, k) ==
  [b EXCEPT !.buckets = k]
SetBest(b, t) ==
  [b EXCEPT !.best = t]
SetIndexOrders(b, x, o) ==
  [b EXCEPT !.index = x, !.orders = o]
SetOrdersIndex(b, o, x) ==
  [b EXCEPT !.orders = o, !.index = x]
SetBestOrders(b, t, o) ==
  [b EXCEPT !.best = t, !.orders = o]
SetOrdersBuckets(b, o, k) ==
  [b EXCEPT !.orders = o, !.buckets = k]
SetBucketsLevels(b, k, l) ==
  [b EXCEPT !.buckets = k, !.levels = l]
SetAllButIndex(b, o, t, k, l) ==
  [b EXCEPT !.orders = o, !.best = t, !.buckets = k, !.levels = l]

LEMMA FieldsChanged ==
  ASSUME NEW b, IsBook(b)
  PROVE  /\ \A o : SetOrders(b, o)
              = Book(o, b.buckets, b.index, b.levels, b.best)
         /\ \A k : SetBuckets(b, k)
              = Book(b.orders, k, b.index, b.levels, b.best)
         /\ \A t : SetBest(b, t)
              = Book(b.orders, b.buckets, b.index, b.levels, t)
         /\ \A x, o : SetIndexOrders(b, x, o)
              = Book(o, b.buckets, x, b.levels, b.best)
         /\ \A o, x : SetOrdersIndex(b, o, x)
              = Book(o, b.buckets, x, b.levels, b.best)
         /\ \A t, o : SetBestOrders(b, t, o)
              = Book(o, b.buckets, b.index, b.levels, t)
         /\ \A o, k : SetOrdersBuckets(b, o, k)
              = Book(o, k, b.index, b.levels, b.best)
         /\ \A k, l : SetBucketsLevels(b, k, l)
              = Book(b.orders, k, b.index, l, b.best)
         /\ \A o, t, k, l : SetAllButIndex(b, o, t, k, l)
              = Book(o, k, b.index, l, t)
<1>1. ASSUME NEW o
      PROVE  SetOrders(b, o) = Book(o, b.buckets, b.index, b.levels, b.best)
  BY DEF IsBook, Book, SetOrders
<1>2. ASSUME NEW k
      PROVE  SetBuckets(b, k) = Book(b.orders, k, b.index, b.levels, b.best)
  BY DEF IsBook, Book, SetBuckets
<1>3. ASSUME NEW t
      PROVE  SetBest(b, t) = Book(b.orders, b.buckets, b.index, b.levels, t)
  BY DEF IsBook, Book, SetBest
<1>4. ASSUME NEW x, NEW o
      PROVE  SetIndexOrders(b, x, o) = Book(o, b.buckets, x, b.levels, b.best)
  <2> DEFINE b1 == [b EXCEPT !.index = x]
             b2 == [b1 EXCEPT !.orders = o]
  <2>1. SetIndexOrders(b, x, o) = b2
    BY DEF SetIndexOrders
  <2>2. b1 = Book(b.orders, b.buckets, x, b.levels, b.best)
    BY DEF IsBook, Book
  <2> HIDE DEF b1
  <2>3. b2 = Book(o, b.buckets, x, b.levels, b.best)
    BY ONLY <2>2 DEF Book
  <2>4. QED
    BY <2>1, <2>3
<1>5. ASSUME NEW o, NEW x
      PROVE  SetOrdersIndex(b, o, x) = Book(o, b.buckets, x, b.levels, b.best)
  <2> DEFINE b1 == [b EXCEPT !.orders = o]
             b2 == [b1 EXCEPT !.index = x]
  <2>1. SetOrdersIndex(b, o, x) = b2
    BY DEF SetOrdersIndex
  <2>2. b1 = Book(o, b.buckets, b.index, b.levels, b.best)
    BY DEF IsBook, Book
  <2> HIDE DEF b1
  <2>3. b2 = Book(o, b.buckets, x, b.levels, b.best)
    BY ONLY <2>2 DEF Book
  <2>4. QED
    BY <2>1, <2>3
<1>6. ASSUME NEW t, NEW o
      PROVE  SetBestOrders(b, t, o) = Book(o, b.buckets, b.index, b.levels, t)
  <2> DEFINE b1 == [b EXCEPT !.best = t]
             b2 == [b1 EXCEPT !.orders = o]
  <2>1. SetBestOrders(b, t, o) = b2
    BY DEF SetBestOrders
  <2>2. b1 = Book(b.orders, b.buckets, b.index, b.levels, t)
    BY DEF IsBook, Book
  <2> HIDE DEF b1
  <2>3. b2 = Book(o, b.buckets, b.index, b.levels, t)
    BY ONLY <2>2 DEF Book
  <2>4. QED
    BY <2>1, <2>3
<1>7. ASSUME NEW o, NEW k
      PROVE  SetOrdersBuckets(b, o, k) = Book(o, k, b.index, b.levels, b.best)
  <2> DEFINE b1 == [b EXCEPT !.orders = o]
             b2 == [b1 EXCEPT !.buckets = k]
  <2>1. SetOrdersBuckets(b, o, k) = b2
    BY DEF SetOrdersBuckets
  <2>2. b1 = Book(o, b.buckets, b.index, b.levels, b.best)
    BY DEF IsBook, Book
  <2> HIDE DEF b1
  <2>3. b2 = Book(o, k, b.index, b.levels, b.best)
    BY ONLY <2>2 DEF Book
  <2>4. QED
    BY <2>1, <2>3
<1>8. ASSUME NEW k, NEW l
      PROVE  SetBucketsLevels(b, k, l) = Book(b.orders, k, b.index, l, b.best)
  <2> DEFINE b1 == [b EXCEPT !.buckets = k]
             b2 == [b1 EXCEPT !.levels = l]
  <2>1. SetBucketsLevels(b, k, l) = b2
    BY DEF SetBucketsLevels
  <2>2. b1 = Book(b.orders, k, b.index, b.levels, b.best)
    BY DEF IsBook, Book
  <2> HIDE DEF b1
  <2>3. b2 = Book(b.orders, k, b.index, l, b.best)
    BY ONLY <2>2 DEF Book
  <2>4. QED
    BY <2>1, <2>3
<1>9. ASSUME NEW o, NEW t, NEW k, NEW l
      PROVE  SetAllButIndex(b, o, t, k, l) = Book(o, k, b.index, l, t)
  <2> DEFINE b1 == [b EXCEPT !.orders = o]
             b2 == [b1 EXCEPT !.best = t]
             b3 == [b2 EXCEPT !.buckets = k]
             b4 == [b3 EXCEPT !.levels = l]
  <2>1. SetAllButIndex(b, o, t, k, l) = b4
    BY DEF SetAllButIndex
  <2>2. b1 = Book(o, b.buckets, b.index, b.levels, b.best)
    BY DEF IsBook, Book
  <2> HIDE DEF b1
  <2>3. b2 = Book(o, b.buckets, b.index, b.levels, t)
    BY ONLY <2>2 DEF Book
  <2> HIDE DEF b2
  <2>4. b3 = Book(o, k, b.index, b.levels, t)
    BY ONLY <2>3 DEF Book
  <2> HIDE DEF b3
  <2>5. b4 = Book(o, k, b.index, l, t)
    BY ONLY <2>4 DEF Book
  <2>6. QED
    BY <2>1, <2>5
<1>10. QED
  BY <1>1, <1>2, <1>3, <1>4, <1>5, <1>6, <1>7, <1>8, <1>9

LEMMA Fields ==
  ASSUME NEW o, NEW k, NEW x, NEW l, NEW t
  PROVE  /\ Book(o, k, x, l, t).orders = o /\ Book(o, k, x, l, t).buckets = k
         /\ Book(o, k, x, l, t).index = x /\ Book(o, k, x, l, t).levels = l
         /\ Book(o, k, x, l, t).best = t /\ IsBook(Book(o, k, x, l, t))
  BY DEF Book, IsBook

LEMMA SlotTypes ==
  ASSUME NEW b, Typed(b), NEW i \in DOMAIN b.orders
  PROVE  /\ i \in Nat \ {0}
         /\ b.orders[i] \in SlotOrders
         /\ b.orders[i].id \in OrderIds /\ b.orders[i].uid \in Users
         /\ b.orders[i].action \in Actions
         /\ b.orders[i].price \in Nat /\ b.orders[i].price \in Int
         /\ b.orders[i].size \in Int /\ b.orders[i].filled \in Int
         /\ b.orders[i].reserve \in Int /\ b.orders[i].next \in Nat
         /\ b.orders[i].prev \in Nat /\ b.orders[i].parent \in Nat
         /\ Remaining(b.orders[i]) \in Int
<1>1. i \in Nat \ {0} /\ b.orders[i] \in SlotOrders
  BY DEF Typed
<1>2. b.orders[i].size \in Int /\ b.orders[i].filled \in Int
  BY <1>1 DEF SlotOrders
<1>3. Remaining(b.orders[i]) \in Int
  BY <1>2 DEF Remaining
<1>4. QED
  BY <1>1, <1>2, <1>3 DEF SlotOrders

\* What is said of a side depends on that side only.
Agree(r, b, action, s) ==
  /\ r.best[action] = b.best[action] /\ r.levels[action] = b.levels[action]
  /\ \A p \in DOMAIN b.levels[action] :
       r.buckets[b.levels[action][p]] = b.buckets[b.levels[action][p]]
  /\ \A n \in 1..Len(s) : s[n] \in DOMAIN r.orders /\ r.orders[s[n]] = b.orders[s[n]]

LEMMA Untouched ==
  ASSUME NEW b, NEW r, NEW action, NEW s, SideSound(b, action, s), Agree(r, b, action, s)
  PROVE  SideSound(r, action, s)
<1>1. s \in Seq(DOMAIN b.orders) /\ Len(s) \in Nat
  BY DEF SideSound, Linked
<1>2. s \in Seq(DOMAIN r.orders)
  BY <1>1 DEF Agree
<1>3. \A n \in 1..Len(s) : r.orders[s[n]] = b.orders[s[n]]
  BY DEF Agree
<1>4. Linked(r, action, s)
  BY <1>2, <1>3 DEF SideSound, Linked, Agree
<1>5. Sorted(r, action, s)
  BY <1>3 DEF SideSound, Sorted
<1>6. ASSUME NEW p
      PROVE  Priced(r, s, p) = Priced(b, s, p) /\ Volume(r, Priced(r, s, p)) = Volume(b, Priced(b, s, p))
  <2>1. \A i \in ToSet(s) : r.orders[i] = b.orders[i]
    BY <1>3 DEF ToSet
  <2>2. Priced(r, s, p) = Priced(b, s, p)
    BY <2>1 DEF Priced
  <2>3. \A i \in Priced(b, s, p) : r.orders[i] = b.orders[i]
    BY <2>1 DEF Priced
  <2>4. QED
    BY <2>2, <2>3 DEF Volume
<1>7. \A p, i : TailOf(b, s, p, i) => TailOf(r, s, p, i)
  BY <1>3 DEF TailOf
<1>8. Filed(r, action, s)
  <2>1. Filed(b, action, s) /\ r.levels[action] = b.levels[action]
    BY ONLY SideSound(b, action, s), Agree(r, b, action, s) DEF SideSound, Agree
  <2>2. ASSUME NEW n \in 1..Len(s)
        PROVE  /\ r.orders[s[n]].price \in DOMAIN r.levels[action]
               /\ r.orders[s[n]].parent = r.levels[action][r.orders[s[n]].price]
    BY ONLY <1>3, <2>1, <2>2 DEF Filed
  <2>3. ASSUME NEW p \in DOMAIN r.levels[action]
        PROVE  BucketOf(r, s, p, r.buckets[r.levels[action][p]])
    <3>1. p \in DOMAIN b.levels[action]
      BY ONLY <2>1, <2>3
    <3>2. BucketOf(b, s, p, b.buckets[b.levels[action][p]])
      BY ONLY <2>1, <3>1 DEF Filed
    <3>3. r.buckets[r.levels[action][p]] = b.buckets[b.levels[action][p]]
      BY ONLY <2>1, <3>1, Agree(r, b, action, s) DEF Agree
    <3>4. QED
      BY ONLY <1>6, <1>7, <3>2, <3>3 DEF BucketOf
  <2>4. QED
    BY ONLY <2>2, <2>3 DEF Filed
<1>9. QED
  BY <1>4, <1>5, <1>8 DEF SideSound

\* The slots of a list.
LEMMA SlotsOf ==
  ASSUME NEW b, Typed(b), NEW action, NEW s, Linked(b, action, s)
  PROVE  /\ Len(s) \in Nat
         /\ \A n \in 1..Len(s) : /\ s[n] \in DOMAIN b.orders /\ s[n] \in Nat \ {0}
                                /\ s[n] \in ToSet(s)
         /\ \A i \in ToSet(s) : \E n \in 1..Len(s) : s[n] = i
         /\ ToSet(s) \subseteq DOMAIN b.orders
         /\ \A i \in ToSet(s) : b.orders[i].action = action
         /\ \A p : /\ Priced(b, s, p) \subseteq DOMAIN b.orders
                   /\ IsFiniteSet(Priced(b, s, p))
                   /\ [i \in Priced(b, s, p) |-> Remaining(b.orders[i])]
                        \in [Priced(b, s, p) -> Int]
<1>1. Len(s) \in Nat /\ \A n \in 1..Len(s) : s[n] \in DOMAIN b.orders
  BY DEF Linked
<1>2. \A i \in ToSet(s) : \E n \in 1..Len(s) : s[n] = i
  BY DEF ToSet
<1>3. \A n \in 1..Len(s) : s[n] \in ToSet(s)
  BY DEF ToSet
<1>4. \A n \in 1..Len(s) : s[n] \in Nat \ {0}
  BY <1>1 DEF Typed
<1>5. ToSet(s) \subseteq DOMAIN b.orders
  BY <1>1, <1>2
<1>6. \A i \in ToSet(s) : b.orders[i].action = action
  BY <1>2 DEF Linked
<1>7. ASSUME NEW p
      PROVE  /\ Priced(b, s, p) \subseteq DOMAIN b.orders
             /\ IsFiniteSet(Priced(b, s, p))
             /\ [i \in Priced(b, s, p) |-> Remaining(b.orders[i])]
                  \in [Priced(b, s, p) -> Int]
  <2>1. Priced(b, s, p) \subseteq DOMAIN b.orders
    BY <1>5 DEF Priced
  <2>2. IsFiniteSet(Priced(b, s, p))
    BY <2>1, FS_Subset DEF Typed
  <2>3. \A i \in DOMAIN b.orders : Remaining(b.orders[i]) \in Int
    BY SlotTypes
  <2>4. QED
    BY <2>1, <2>2, <2>3
<1>8. QED
  BY <1>1, <1>2, <1>3, <1>4, <1>5, <1>6, <1>7

-----------------------------------------------------------------------------
(* remove_order *)

\* The order in slot i is the last one of its bucket, or the only one.
IsLast(b, i) == b.buckets[b.orders[i].parent].tail = i

IsOnly(b, i) ==
  /\ IsLast(b, i)
  /\ b.orders[i].next = None \/ b.orders[b.orders[i].next].parent # b.orders[i].parent

\* What remove_order makes of each field.
Unhooked(r, b, i) ==
  LET o == b.orders[i]
      k == o.parent
      last == IsLast(b, i)
      gone == IsOnly(b, i)
  IN
  /\ IsBook(r) /\ r.index = b.index
  /\ r.orders = [j \in DOMAIN b.orders |->
       CASE j = o.next -> [b.orders[j] EXCEPT !.prev = o.prev]
         [] j = o.prev -> [b.orders[j] EXCEPT !.next = o.next]
         [] OTHER      -> b.orders[j]]
  /\ r.best = [x \in Actions |-> IF b.best[x] = i THEN o.prev ELSE b.best[x]]
  /\ r.levels = [x \in Actions |-> IF x = o.action /\ gone
                                   THEN Without(b.levels[x], o.price) ELSE b.levels[x]]
  /\ gone => r.buckets = Without(b.buckets, k)
  /\ ~gone => r.buckets = [x \in DOMAIN b.buckets |->
       IF x = k THEN Left(b.buckets[k], o, IF last THEN o.next ELSE b.buckets[k].tail)
       ELSE b.buckets[x]]

LEMMA RemoveOrderIs ==
  ASSUME NEW b, Typed(b), NEW i \in DOMAIN b.orders,
         b.orders[i].parent \in DOMAIN b.buckets
  PROVE  Unhooked(RemoveOrder(b, i), b, i)
<1> DEFINE o == b.orders[i]
           k == o.parent
           last == IsLast(b, i)
           gone == IsOnly(b, i)
           orders == [j \in DOMAIN b.orders |->
             CASE j = o.next -> [b.orders[j] EXCEPT !.prev = o.prev]
               [] j = o.prev -> [b.orders[j] EXCEPT !.next = o.next]
               [] OTHER      -> b.orders[j]]
           best == [x \in Actions |-> IF b.best[x] = i THEN o.prev ELSE b.best[x]]
           buckets == IF gone THEN Without(b.buckets, k)
                      ELSE [b.buckets EXCEPT ![k] =
                              Left(b.buckets[k], o, IF last THEN o.next ELSE b.buckets[k].tail)]
           levels == [b.levels EXCEPT ![o.action] =
                        IF gone THEN Without(@, o.price) ELSE @]
           r == SetAllButIndex(b, orders, best, buckets, levels)
<1>1. RemoveOrder(b, i) = r
  BY DEF RemoveOrder, SetAllButIndex, IsLast, IsOnly
<1>2. o.action \in Actions /\ b.levels = [x \in Actions |-> b.levels[x]]
  BY SlotTypes DEF Typed
<1>3. levels = [x \in Actions |-> IF x = o.action /\ gone
                                  THEN Without(b.levels[x], o.price) ELSE b.levels[x]]
  <2> HIDE DEF gone
  <2>1. QED
    BY Zenon, <1>2
<1>4. ~gone => buckets = [x \in DOMAIN b.buckets |->
         IF x = k THEN Left(b.buckets[k], o, IF last THEN o.next ELSE b.buckets[k].tail)
         ELSE b.buckets[x]]
  <2> HIDE DEF gone, last
  <2>1. b.buckets = [x \in DOMAIN b.buckets |-> b.buckets[x]]
    BY DEF Typed
  <2>2. QED
    BY <2>1
<1>5. gone => buckets = Without(b.buckets, k)
  OBVIOUS
<1> HIDE DEF orders, best, buckets, levels
<1>6. r = Book(orders, buckets, b.index, levels, best)
  <2>1. IsBook(b)
    BY DEF Typed
  <2>2. QED
    BY <2>1, FieldsChanged
<1> HIDE DEF r
<1>61. /\ r.orders = orders /\ r.best = best /\ r.buckets = buckets /\ r.levels = levels
       /\ r.index = b.index /\ IsBook(r)
  BY <1>6, Fields
<1>7. Unhooked(r, b, i)
  <2>1. QED
    BY <1>3, <1>4, <1>5, <1>61 DEF Unhooked, orders, best, o
<1>8. QED
  BY <1>1, <1>7

\* A list without its n-th slot.
Shorter(t, s, n) ==
  /\ Len(t) = Len(s) - 1 /\ Len(s) \in Nat
  /\ \A m \in 1..Len(t) : m < n => t[m] = s[m]
  /\ \A m \in 1..Len(t) : m >= n => t[m] = s[m + 1]
  /\ \A m \in 0..Len(s) : m < n => Spot(t, m) = Spot(s, m)
  /\ \A m \in 0..Len(s) : m >= n => Spot(t, m) = Spot(s, m + 1)
  /\ ToSet(t) = ToSet(s) \ {s[n]}

Cut(t, s, n, S) ==
  /\ t \in Seq(S) /\ Shorter(t, s, n)
  /\ \A m, k \in 1..Len(t) : t[m] = t[k] => m = k

LEMMA RemovedList ==
  ASSUME NEW S, NEW s \in Seq(S), \A m, n \in 1..Len(s) : s[m] = s[n] => m = n,
         NEW n \in 1..Len(s)
  PROVE  Cut(RemoveAt(s, n), s, n, S)
<1> DEFINE t == RemoveAt(s, n)
<1>1. /\ t \in Seq(S) /\ Len(t) = Len(s) - 1
      /\ \A a \in 1..Len(s) - 1 : a < n => t[a] = s[a]
      /\ \A a \in 1..Len(s) - 1 : a >= n => t[a] = s[a + 1]
  BY Zenon, RemoveAtIs
<1>2. Len(s) \in Nat
  OBVIOUS
<1> HIDE DEF t
<1>3. /\ \A m \in 0..Len(s) : m < n => Spot(t, m) = Spot(s, m)
      /\ \A m \in 0..Len(s) : m >= n => Spot(t, m) = Spot(s, m + 1)
  BY <1>1, <1>2 DEF Spot
<1>4. ASSUME NEW x \in ToSet(t)
      PROVE  x \in ToSet(s) /\ x # s[n]
  <2>1. PICK a \in 1..Len(t) : t[a] = x
    BY ONLY x \in ToSet(t) DEF ToSet
  <2>2. CASE a < n
    BY <1>1, <1>2, <2>1, <2>2 DEF ToSet
  <2>3. CASE ~(a < n)
    <3>1. a + 1 \in 1..Len(s) /\ s[a + 1] = x /\ a + 1 # n
      BY <1>1, <1>2, <2>1, <2>3
    <3>2. QED
      BY <3>1 DEF ToSet
  <2>4. QED
    BY <2>2, <2>3
<1>5. ASSUME NEW x \in ToSet(s), x # s[n]
      PROVE  x \in ToSet(t)
  <2>1. PICK a \in 1..Len(s) : s[a] = x
    BY DEF ToSet
  <2>2. CASE a < n
    <3>1. a \in 1..Len(t) /\ t[a] = x
      BY <1>1, <1>2, <2>1, <2>2
    <3>2. QED
      BY <3>1 DEF ToSet
  <2>3. CASE a > n
    <3>1. a - 1 \in 1..Len(t) /\ t[a - 1] = x
      BY <1>1, <1>2, <2>1, <2>3
    <3>2. QED
      BY <3>1 DEF ToSet
  <2>4. QED
    BY <1>5, <2>1, <2>2, <2>3
<1>6. ToSet(t) = ToSet(s) \ {s[n]}
  BY <1>4, <1>5
<1>7. ASSUME NEW m \in 1..Len(t), NEW k \in 1..Len(t), t[m] = t[k]
      PROVE  m = k
  <2> DEFINE x == IF m < n THEN m ELSE m + 1
             y == IF k < n THEN k ELSE k + 1
  <2>1. x \in 1..Len(s) /\ y \in 1..Len(s) /\ t[m] = s[x] /\ t[k] = s[y]
    BY <1>1, <1>2
  <2>2. x = y
    BY Zenon, <1>7, <2>1
  <2>3. QED
    BY <2>2
<1>8. QED
  BY <1>1, <1>2, <1>3, <1>6, <1>7 DEF Shorter, Cut, t

\* What a book keeps when the order in slot s[n] leaves the list s of its side.
Removal(r, b, action, s, n) ==
  /\ Typed(b) /\ Keyed(b) /\ SideSound(b, action, s)
  /\ action \in Actions /\ n \in 1..Len(s)
  /\ Unhooked(r, b, s[n])

LEMMA RemoveIsRemoval ==
  ASSUME NEW b, Typed(b), Keyed(b), NEW action \in Actions, NEW s,
         SideSound(b, action, s), NEW n \in 1..Len(s)
  PROVE  /\ Removal(RemoveOrder(b, s[n]), b, action, s, n)
         /\ b.orders[s[n]].parent = b.levels[action][b.orders[s[n]].price]
         /\ b.orders[s[n]].price \in DOMAIN b.levels[action]
         /\ b.orders[s[n]].parent \in DOMAIN b.buckets
<1>1. s[n] \in DOMAIN b.orders
  BY DEF SideSound, Linked
<1>2. /\ b.orders[s[n]].parent = b.levels[action][b.orders[s[n]].price]
      /\ b.orders[s[n]].price \in DOMAIN b.levels[action]
  BY DEF SideSound, Filed
<1>3. b.orders[s[n]].parent \in DOMAIN b.buckets
  BY <1>2 DEF Typed
<1>4. QED
  BY <1>1, <1>2, <1>3, RemoveOrderIs DEF Removal

\* Nothing but two links changes in the slots.
LEMMA RemovalSlots ==
  ASSUME NEW r, NEW b, NEW action, NEW s, NEW n, Removal(r, b, action, s, n)
  PROVE  /\ DOMAIN r.orders = DOMAIN b.orders
         /\ r.orders \in [DOMAIN b.orders -> SlotOrders]
         /\ \A j \in DOMAIN b.orders :
              /\ r.orders[j].id = b.orders[j].id /\ r.orders[j].uid = b.orders[j].uid
              /\ r.orders[j].action = b.orders[j].action
              /\ r.orders[j].price = b.orders[j].price
              /\ r.orders[j].size = b.orders[j].size
              /\ r.orders[j].filled = b.orders[j].filled
              /\ r.orders[j].reserve = b.orders[j].reserve
              /\ r.orders[j].parent = b.orders[j].parent
              /\ Remaining(r.orders[j]) = Remaining(b.orders[j])
              /\ Plain(r.orders[j]) = Plain(b.orders[j])
              /\ j \notin ToSet(s) => r.orders[j] = b.orders[j]
              /\ r.orders[j].prev = IF j = Spot(s, n - 1) THEN Spot(s, n + 1)
                                    ELSE b.orders[j].prev
              /\ r.orders[j].next = IF j = Spot(s, n + 1) THEN Spot(s, n - 1)
                                    ELSE b.orders[j].next
<1> DEFINE o == b.orders[s[n]]
<1>1. /\ r.orders = [j \in DOMAIN b.orders |->
           CASE j = o.next -> [b.orders[j] EXCEPT !.prev = o.prev]
             [] j = o.prev -> [b.orders[j] EXCEPT !.next = o.next]
             [] OTHER      -> b.orders[j]]
      /\ Typed(b) /\ Linked(b, action, s) /\ n \in 1..Len(s)
  BY Zenon DEF Removal, Unhooked, SideSound
<1>2. /\ s[n] \in DOMAIN b.orders /\ o.next = Spot(s, n - 1) /\ o.prev = Spot(s, n + 1)
      /\ Len(s) \in Nat
  BY <1>1 DEF Linked
<1>3. o.next \in Nat /\ o.prev \in Nat
  BY <1>1, <1>2, SlotTypes
<1>4. ASSUME NEW j \in DOMAIN b.orders, o.next = o.prev
      PROVE  j # o.next /\ j # o.prev
  <2>1. o.next = None
    BY <1>1, <1>2, <1>4 DEF Spot, Linked
  <2>2. QED
    BY <1>1, <1>4, <2>1, SlotTypes DEF None
<1>5. ASSUME NEW j \in DOMAIN b.orders, j \notin ToSet(s)
      PROVE  j # o.next /\ j # o.prev
  <2>1. /\ j # None
        /\ \A m \in 1..Len(s) : s[m] # j
    BY <1>1, <1>5, SlotTypes, SlotsOf DEF None
  <2>2. QED
    BY <1>2, <2>1 DEF Spot
<1> HIDE DEF o
<1>6. DOMAIN r.orders = DOMAIN b.orders
  BY <1>1
<1>7. ASSUME NEW j \in DOMAIN b.orders
      PROVE  /\ r.orders[j] \in SlotOrders
             /\ r.orders[j].id = b.orders[j].id /\ r.orders[j].uid = b.orders[j].uid
             /\ r.orders[j].action = b.orders[j].action
             /\ r.orders[j].price = b.orders[j].price
             /\ r.orders[j].size = b.orders[j].size
             /\ r.orders[j].filled = b.orders[j].filled
             /\ r.orders[j].reserve = b.orders[j].reserve
             /\ r.orders[j].parent = b.orders[j].parent
             /\ j \notin ToSet(s) => r.orders[j] = b.orders[j]
             /\ r.orders[j].prev = IF j = Spot(s, n - 1) THEN Spot(s, n + 1)
                                   ELSE b.orders[j].prev
             /\ r.orders[j].next = IF j = Spot(s, n + 1) THEN Spot(s, n - 1)
                                   ELSE b.orders[j].next
  <2>1. b.orders[j] \in SlotOrders
    BY <1>1, SlotTypes
  <2>2. r.orders[j] = CASE j = o.next -> [b.orders[j] EXCEPT !.prev = o.prev]
                        [] j = o.prev -> [b.orders[j] EXCEPT !.next = o.next]
                        [] OTHER      -> b.orders[j]
    BY <1>1
  <2>3. CASE j = o.next
    <3>1. r.orders[j] = [b.orders[j] EXCEPT !.prev = o.prev] /\ j # o.prev
      BY <1>4, <2>2, <2>3
    <3>2. QED
      BY ONLY Zenon, <1>2, <1>3, <1>5, <2>1, <2>3, <3>1, j \in DOMAIN b.orders
         DEF SlotOrders
  <2>4. CASE j # o.next /\ j = o.prev
    <3>1. r.orders[j] = [b.orders[j] EXCEPT !.next = o.next]
      BY <2>2, <2>4
    <3>2. QED
      BY ONLY Zenon, <1>2, <1>3, <1>5, <2>1, <2>4, <3>1, j \in DOMAIN b.orders
         DEF SlotOrders
  <2>5. CASE j # o.next /\ j # o.prev
    <3>1. r.orders[j] = b.orders[j]
      BY <2>2, <2>5
    <3>2. QED
      BY ONLY <1>2, <1>3, <1>5, <2>1, <2>5, <3>1, j \in DOMAIN b.orders DEF SlotOrders
  <2>6. QED
    BY <2>3, <2>4, <2>5
<1>8. r.orders \in [DOMAIN b.orders -> SlotOrders]
  BY <1>1, <1>7
<1>9. QED
  BY <1>6, <1>7, <1>8 DEF Remaining, Plain

LEMMA RemovalLinked ==
  ASSUME NEW r, NEW b, NEW action, NEW s, NEW n \in 1..Len(s),
         Removal(r, b, action, s, n), NEW t, Cut(t, s, n, DOMAIN b.orders)
  PROVE  Linked(r, action, t) /\ Sorted(r, action, t)
<1>1. /\ Typed(b) /\ Linked(b, action, s) /\ Sorted(b, action, s) /\ n \in 1..Len(s)
      /\ action \in Actions
      /\ r.best = [x \in Actions |-> IF b.best[x] = s[n] THEN b.orders[s[n]].prev
                                     ELSE b.best[x]]
  BY Zenon DEF Removal, Unhooked, SideSound
<1>2. /\ s \in Seq(DOMAIN b.orders) /\ Len(s) \in Nat
      /\ \A m, k \in 1..Len(s) : s[m] = s[k] => m = k
      /\ b.best[action] = Spot(s, 1)
      /\ \A m \in 1..Len(s) : /\ b.orders[s[m]].action = action
                             /\ b.orders[s[m]].next = Spot(s, m - 1)
                             /\ b.orders[s[m]].prev = Spot(s, m + 1)
                             /\ s[m] \in DOMAIN b.orders /\ s[m] # None
  <2>1. \A m \in 1..Len(s) : s[m] \in DOMAIN b.orders
    BY <1>1 DEF Linked
  <2>2. \A m \in 1..Len(s) : s[m] # None
    BY <1>1, <2>1, SlotTypes DEF None
  <2>3. QED
    BY <1>1, <2>1, <2>2 DEF Linked
<1>3. /\ t \in Seq(DOMAIN b.orders) /\ Shorter(t, s, n)
      /\ \A m, k \in 1..Len(t) : t[m] = t[k] => m = k
  BY DEF Cut
<1>4. \A j \in DOMAIN b.orders :
        /\ r.orders[j].action = b.orders[j].action
        /\ r.orders[j].price = b.orders[j].price
        /\ r.orders[j].prev = IF j = Spot(s, n - 1) THEN Spot(s, n + 1)
                              ELSE b.orders[j].prev
        /\ r.orders[j].next = IF j = Spot(s, n + 1) THEN Spot(s, n - 1)
                              ELSE b.orders[j].next
  BY ONLY Removal(r, b, action, s, n), RemovalSlots
<1>5. r.best[action] = Spot(t, 1)
  <2>1. r.best[action] = IF Spot(s, 1) = s[n] THEN Spot(s, n + 1) ELSE Spot(s, 1)
    BY <1>1, <1>2
  <2>2. Spot(s, 1) = s[1] /\ (s[1] = s[n] <=> n = 1)
    BY <1>1, <1>2 DEF Spot
  <2>3. 1 \in 0..Len(s)
    BY <1>1, <1>2
  <2>4. QED
    BY <1>1, <1>3, <2>1, <2>2, <2>3 DEF Shorter
<1>6. \A m, k \in 0..Len(s) + 1 : Spot(s, m) = Spot(s, k) /\ Spot(s, m) # None => m = k
  BY <1>2 DEF Spot
<1>7. ASSUME NEW m \in 1..Len(t)
      PROVE  /\ r.orders[t[m]].action = action
             /\ r.orders[t[m]].next = Spot(t, m - 1)
             /\ r.orders[t[m]].prev = Spot(t, m + 1)
  <2> DEFINE k == IF m < n THEN m ELSE m + 1
  <2>1. k \in 1..Len(s) /\ t[m] = s[k] /\ k # n
    <3>1. Len(t) = Len(s) - 1 /\ (m < n => t[m] = s[m]) /\ (m >= n => t[m] = s[m + 1])
      BY <1>3 DEF Shorter
    <3>2. QED
      BY <1>2, <3>1
  <2> HIDE DEF k
  <2>2. s[k] = Spot(s, k) /\ Spot(s, k) # None
    BY <1>2, <2>1 DEF Spot
  <2>3. /\ r.orders[s[k]].action = action
        /\ r.orders[s[k]].prev = IF k = n - 1 THEN Spot(s, n + 1) ELSE Spot(s, k + 1)
        /\ r.orders[s[k]].next = IF k = n + 1 THEN Spot(s, n - 1) ELSE Spot(s, k - 1)
    <3>1. /\ n - 1 \in 0..Len(s) + 1 /\ n + 1 \in 0..Len(s) + 1 /\ k \in 0..Len(s) + 1
          /\ s[k] \in DOMAIN b.orders
      BY ONLY <1>2, <2>1, n \in 1..Len(s)
    <3>2. (s[k] = Spot(s, n - 1) <=> k = n - 1) /\ (s[k] = Spot(s, n + 1) <=> k = n + 1)
      BY <1>6, <2>2, <3>1
    <3>3. QED
      BY Zenon, <1>2, <1>4, <2>1, <3>1, <3>2
  <2>4. m - 1 \in 0..Len(s) /\ m + 1 \in 0..Len(s)
    BY <1>2, <1>3 DEF Shorter
  <2>5. /\ Spot(t, m - 1) = IF m - 1 < n THEN Spot(s, m - 1) ELSE Spot(s, m)
        /\ Spot(t, m + 1) = IF m + 1 < n THEN Spot(s, m + 1) ELSE Spot(s, m + 2)
    <3>1. ASSUME NEW l \in 0..Len(s)
          PROVE  Spot(t, l) = IF l < n THEN Spot(s, l) ELSE Spot(s, l + 1)
      <4>1. /\ l < n => Spot(t, l) = Spot(s, l)
            /\ l >= n => Spot(t, l) = Spot(s, l + 1)
        BY <1>3 DEF Shorter
      <4>2. ~(l < n) => l >= n
        BY <1>2
      <4>3. QED
        BY <4>1, <4>2
    <3>2. (m - 1) + 1 = m /\ (m + 1) + 1 = m + 2
      OBVIOUS
    <3>3. QED
      BY <2>4, <3>1, <3>2
  <2>6. CASE m < n
    <3>1. k = m /\ k # n + 1 /\ (m + 1 < n <=> k # n - 1) /\ m - 1 < n /\ (k = n - 1 => m + 2 = n + 1)
      BY <1>2, <2>6 DEF k
    <3>2. QED
      BY <2>1, <2>3, <2>5, <3>1
  <2>7. CASE ~(m < n)
    <3>1. k = m + 1 /\ k # n - 1 /\ (m - 1 < n <=> k = n + 1) /\ ~(m + 1 < n) /\ (k = n + 1 => m - 1 = n - 1)
          /\ k + 1 = m + 2 /\ k - 1 = m
      <4>1. m \in Int /\ n \in Int
        BY <1>2
      <4>2. k = m + 1
        BY ONLY <2>7 DEF k
      <4>3. QED
        BY ONLY <2>7, <4>1, <4>2
    <3>2. QED
      BY <2>1, <2>3, <2>5, <3>1
  <2>8. QED
    BY <2>6, <2>7
<1>8. t \in Seq(DOMAIN r.orders)
  BY <1>3, RemovalSlots
<1>9. Linked(r, action, t)
  BY <1>3, <1>5, <1>7, <1>8 DEF Linked
<1>10. ASSUME NEW m \in 1..Len(t), NEW k \in 1..Len(t), m < k
       PROVE  ~Ahead(action, r.orders[t[k]].price, r.orders[t[m]].price)
  <2> DEFINE x == IF m < n THEN m ELSE m + 1
             y == IF k < n THEN k ELSE k + 1
  <2>1. x \in 1..Len(s) /\ t[m] = s[x] /\ y \in 1..Len(s) /\ t[k] = s[y] /\ x < y
    <3>1. /\ Len(t) = Len(s) - 1
          /\ m < n => t[m] = s[m]
          /\ m >= n => t[m] = s[m + 1]
          /\ k < n => t[k] = s[k]
          /\ k >= n => t[k] = s[k + 1]
      BY <1>3 DEF Shorter
    <3>2. QED
      BY <1>2, <1>10, <3>1
  <2> HIDE DEF x, y
  <2>2. /\ r.orders[s[x]].price = b.orders[s[x]].price
        /\ r.orders[s[y]].price = b.orders[s[y]].price
    BY Zenon, <1>2, <1>4, <2>1
  <2>3. QED
    BY <1>1, <2>1, <2>2 DEF Sorted
<1>11. QED
  BY <1>9, <1>10 DEF Sorted

\* The n-th order is the last one, or the only one, at its price.
LastAt(b, s, n) ==
  \A m \in 1..Len(s) : b.orders[s[m]].price = b.orders[s[n]].price => m <= n

OnlyAt(b, s, n) ==
  \A m \in 1..Len(s) : b.orders[s[m]].price = b.orders[s[n]].price => m = n

\* The bucket goes with the last order at its price.
LEMMA GoneIs ==
  ASSUME NEW b, Typed(b), Keyed(b), NEW action \in Actions, NEW s,
         SideSound(b, action, s), NEW n \in 1..Len(s)
  PROVE  /\ IsOnly(b, s[n]) <=> OnlyAt(b, s, n)
         /\ IsLast(b, s[n]) <=> LastAt(b, s, n)
         /\ LastAt(b, s, n) /\ ~OnlyAt(b, s, n) =>
              /\ n - 1 \in 1..Len(s) /\ b.orders[s[n]].next = s[n - 1]
              /\ b.orders[s[n - 1]].price = b.orders[s[n]].price
<1> DEFINE o == b.orders[s[n]]
           k == o.parent
           p == o.price
           last == b.buckets[k].tail = s[n]
           gone == last /\ (o.next = None \/ b.orders[o.next].parent # k)
<1>1. /\ Linked(b, action, s) /\ Len(s) \in Nat
      /\ \A m \in 1..Len(s) : /\ s[m] \in DOMAIN b.orders /\ s[m] # None
                             /\ b.orders[s[m]].price \in Int
                             /\ b.orders[s[m]].price \in DOMAIN b.levels[action]
                             /\ b.orders[s[m]].parent
                                  = b.levels[action][b.orders[s[m]].price]
  BY SlotsOf, SlotTypes DEF SideSound, Filed, None
<1>2. /\ \A m, l \in 1..Len(s) : s[m] = s[l] => m = l
      /\ \A m \in 1..Len(s) : b.orders[s[m]].next = Spot(s, m - 1)
  BY <1>1 DEF Linked
<1>3. p \in DOMAIN b.levels[action] /\ k = b.levels[action][p] /\ TailOf(b, s, p, b.buckets[k].tail)
  BY <1>1 DEF SideSound, Filed, BucketOf
<1>4. PICK e \in 1..Len(s) :
        /\ s[e] = b.buckets[k].tail /\ b.orders[s[e]].price = p
        /\ \A m \in 1..Len(s) : b.orders[s[m]].price = p => m <= e
  BY Zenon, <1>3 DEF TailOf
<1>5. last <=> e = n
  BY <1>2, <1>4
<1>6. ASSUME NEW m \in 1..Len(s)
      PROVE  b.orders[s[m]].parent = k <=> b.orders[s[m]].price = p
  <2> DEFINE q == b.orders[s[m]].price
  <2>1. q \in DOMAIN b.levels[action] /\ b.orders[s[m]].parent = b.levels[action][q]
    BY <1>1
  <2> HIDE DEF q, k, p, o
  <2>2. b.levels[action][q] = b.levels[action][p] => q = p
    BY <1>3, <2>1 DEF Keyed
  <2>3. QED
    BY <1>3, <2>1, <2>2 DEF q
<1>7. n <= e
  BY <1>4
<1>8. last <=> \A m \in 1..Len(s) : b.orders[s[m]].price = p => m <= n
  <2> HIDE DEF last, k, p
  <2>1. e \in Int /\ n \in Int
    OBVIOUS
  <2>2. e \in 1..Len(s) /\ b.orders[s[e]].price = p
    BY <1>4
  <2>3. (\A m \in 1..Len(s) : b.orders[s[m]].price = p => m <= n) => e = n
    BY ONLY <1>7, <2>1, <2>2
  <2>4. e = n => \A m \in 1..Len(s) : b.orders[s[m]].price = p => m <= n
    BY ONLY <1>4
  <2>5. QED
    BY ONLY <1>5, <2>3, <2>4
<1> HIDE DEF last, k, p
<1>9. o.next = Spot(s, n - 1)
  BY <1>2
<1>10. o.next = None <=> n = 1
  BY <1>1, <1>9 DEF Spot
<1>11. ASSUME n # 1
       PROVE  /\ n - 1 \in 1..Len(s) /\ o.next = s[n - 1]
              /\ b.orders[o.next].parent = k <=> b.orders[s[n - 1]].price = p
  <2>1. n - 1 \in 1..Len(s)
    BY <1>1, <1>11
  <2>2. o.next = s[n - 1]
    BY <1>9, <2>1 DEF Spot
  <2>3. QED
    BY <1>6, <2>1, <2>2
<1>12. ASSUME NEW m \in 1..Len(s), b.orders[s[m]].price = p, m < n
       PROVE  b.orders[s[n - 1]].price = p /\ n # 1
  <2>1. n # 1 /\ n - 1 \in 1..Len(s) /\ n - 1 < n
    BY <1>1, <1>12
  <2>2. CASE m = n - 1
    BY <1>12, <2>1, <2>2
  <2>3. CASE m # n - 1
    <3>1. m < n - 1
      BY <1>12, <2>3
    <3>2. /\ ~Ahead(action, b.orders[s[n - 1]].price, b.orders[s[m]].price)
          /\ ~Ahead(action, b.orders[s[n]].price, b.orders[s[n - 1]].price)
      BY <2>1, <3>1 DEF SideSound, Sorted
    <3>3. b.orders[s[n]].price = p /\ p \in Int /\ b.orders[s[n - 1]].price \in Int
      BY <1>1, <2>1 DEF p
    <3>4. QED
      BY <1>12, <2>1, <3>2, <3>3 DEF Ahead
  <2>4. QED
    BY <2>2, <2>3
<1>13. gone <=> last /\ (n = 1 \/ b.orders[s[n - 1]].price # p)
  BY <1>10, <1>11
<1>14. gone => \A m \in 1..Len(s) : b.orders[s[m]].price = p => m = n
  BY <1>8, <1>12, <1>13
<1>15. (\A m \in 1..Len(s) : b.orders[s[m]].price = p => m = n) => gone
  <2> SUFFICES ASSUME \A m \in 1..Len(s) : b.orders[s[m]].price = p => m = n
               PROVE  gone
    OBVIOUS
  <2>1. last
    BY <1>8
  <2>2. n # 1 => b.orders[s[n - 1]].price # p
    BY <1>11
  <2>3. QED
    BY <1>13, <2>1, <2>2
<1>16. last /\ ~gone => /\ n - 1 \in 1..Len(s) /\ o.next = s[n - 1]
                        /\ b.orders[s[n - 1]].price = p
  BY <1>11, <1>13
<1> HIDE DEF gone
<1>17. /\ gone <=> \A m \in 1..Len(s) : b.orders[s[m]].price = o.price => m = n
       /\ last <=> \A m \in 1..Len(s) : b.orders[s[m]].price = o.price => m <= n
       /\ last /\ ~gone => /\ n - 1 \in 1..Len(s) /\ o.next = s[n - 1]
                           /\ b.orders[s[n - 1]].price = o.price
  BY <1>8, <1>14, <1>15, <1>16 DEF p
<1>18. /\ gone <=> OnlyAt(b, s, n)
       /\ last <=> LastAt(b, s, n)
       /\ gone <=> IsOnly(b, s[n])
       /\ last <=> IsLast(b, s[n])
  BY <1>17 DEF gone, last, k, o, IsOnly, IsLast, OnlyAt, LastAt
<1>19. QED
  BY <1>17, <1>18

\* The volume of some slots.
LEMMA VolumeIs ==
  ASSUME NEW b, Typed(b), NEW slots \in SUBSET DOMAIN b.orders
  PROVE  /\ IsFiniteSet(slots) /\ Volume(b, slots) \in Int /\ Cardinality(slots) \in Nat
         /\ \A i \in slots :
              /\ Volume(b, slots \ {i}) = Volume(b, slots) - Remaining(b.orders[i])
              /\ Cardinality(slots \ {i}) = Cardinality(slots) - 1
         /\ \A i \in DOMAIN b.orders \ slots :
              /\ Volume(b, slots \cup {i}) = Volume(b, slots) + Remaining(b.orders[i])
              /\ Cardinality(slots \cup {i}) = Cardinality(slots) + 1
         /\ \A r : (\A i \in slots : Remaining(r.orders[i]) = Remaining(b.orders[i]))
                   => Volume(r, slots) = Volume(b, slots)
<1>1. \A i \in DOMAIN b.orders : Remaining(b.orders[i]) \in Int
  BY SlotTypes
<1>2. ASSUME NEW part \in SUBSET DOMAIN b.orders
      PROVE  /\ IsFiniteSet(part)
             /\ [i \in part |-> Remaining(b.orders[i])] \in [part -> Int]
             /\ Volume(b, part) \in Int
  <2>1. IsFiniteSet(part)
    BY FS_Subset DEF Typed
  <2>2. [i \in part |-> Remaining(b.orders[i])] \in [part -> Int]
    BY <1>1
  <2>3. QED
    BY <2>1, <2>2, SumSplit DEF Volume
<1>3. ASSUME NEW part \in SUBSET DOMAIN b.orders, NEW i \in DOMAIN b.orders \ part
      PROVE  Volume(b, part \cup {i}) = Volume(b, part) + Remaining(b.orders[i])
  <2> DEFINE f == [j \in part |-> Remaining(b.orders[j])]
             g == [j \in part \cup {i} |-> Remaining(b.orders[j])]
  <2>1. /\ IsFiniteSet(part) /\ f \in [part -> Int] /\ g \in [part \cup {i} -> Int]
        /\ \A y \in part : g[y] = f[y]
    BY Zenon, <1>2
  <2>2. g[i] = Remaining(b.orders[i])
    OBVIOUS
  <2> HIDE DEF f, g
  <2>21. i \notin part
    OBVIOUS
  <2>22. /\ IsFiniteSet(part) /\ f \in [part -> Int] /\ i \notin part
         /\ g \in [part \cup {i} -> Int] /\ \A y \in part : g[y] = f[y]
    BY <2>1, <2>21
  <2>3. SumOf(g) = SumOf(f) + g[i] /\ SumOf(f) \in Int
    BY ONLY <2>22, SumExtended, ZenonT(60)
  <2>4. QED
    BY <2>2, <2>3 DEF Volume, f, g
<1>4. ASSUME NEW i \in slots
      PROVE  /\ Volume(b, slots \ {i}) = Volume(b, slots) - Remaining(b.orders[i])
             /\ Cardinality(slots \ {i}) = Cardinality(slots) - 1
  <2>1. slots \ {i} \in SUBSET DOMAIN b.orders /\ i \in DOMAIN b.orders \ (slots \ {i})
        /\ (slots \ {i}) \cup {i} = slots
    OBVIOUS
  <2>2. Volume(b, slots) = Volume(b, slots \ {i}) + Remaining(b.orders[i])
    BY <1>3, <2>1
  <2>3. Volume(b, slots \ {i}) \in Int /\ Remaining(b.orders[i]) \in Int
    BY <1>1, <1>2, <2>1
  <2>4. Cardinality(slots \ {i}) = Cardinality(slots) - 1
    BY <1>2, FS_RemoveElement
  <2>5. QED
    BY <2>2, <2>3, <2>4
<1>5. ASSUME NEW i \in DOMAIN b.orders \ slots
      PROVE  Cardinality(slots \cup {i}) = Cardinality(slots) + 1
  BY <1>2, FS_AddElement
<1>6. ASSUME NEW r, \A i \in slots : Remaining(r.orders[i]) = Remaining(b.orders[i])
      PROVE  Volume(r, slots) = Volume(b, slots)
  BY <1>6 DEF Volume
<1>7. Cardinality(slots) \in Nat
  BY <1>2, FS_CardinalityType
<1>8. QED
  BY <1>2, <1>3, <1>4, <1>5, <1>6, <1>7

\* The orders at the price p after the n-th order of s has left, t being the list then.
StillPriced(r, b, s, n, t, p) ==
  /\ Priced(r, t, p) = Priced(b, s, p) \ {s[n]}
  /\ Priced(b, s, p) \subseteq DOMAIN b.orders
  /\ Volume(r, Priced(r, t, p)) = Volume(b, Priced(r, t, p))
  /\ \A i : TailOf(b, s, p, i) /\ i # s[n] => TailOf(r, t, p, i)

LEMMA RemovalPriced ==
  ASSUME NEW r, NEW b, NEW action, NEW s, NEW n \in 1..Len(s),
         Removal(r, b, action, s, n), NEW t, Cut(t, s, n, DOMAIN b.orders), NEW p
  PROVE  StillPriced(r, b, s, n, t, p)
<1>1. Typed(b) /\ Linked(b, action, s)
  BY DEF Removal, SideSound
<1>2. ToSet(s) \subseteq DOMAIN b.orders /\ Priced(b, s, p) \subseteq DOMAIN b.orders
  BY <1>1, SlotsOf
<1>3. \A j \in DOMAIN b.orders : /\ r.orders[j].price = b.orders[j].price
                                /\ Remaining(r.orders[j]) = Remaining(b.orders[j])
  BY RemovalSlots
<1>4. Priced(r, t, p) = Priced(b, s, p) \ {s[n]}
  <2>1. ToSet(t) = ToSet(s) \ {s[n]}
    BY DEF Cut, Shorter
  <2>2. QED
    BY <1>2, <1>3, <2>1 DEF Priced
<1>5. Volume(r, Priced(r, t, p)) = Volume(b, Priced(r, t, p))
  <2>1. Priced(r, t, p) \in SUBSET DOMAIN b.orders
    BY <1>2, <1>4
  <2>2. \A i \in Priced(r, t, p) : Remaining(r.orders[i]) = Remaining(b.orders[i])
    BY <1>3, <2>1
  <2> HIDE DEF Removal
  <2>3. QED
    BY <1>1, <2>1, <2>2, VolumeIs
<1>6. ASSUME NEW i, TailOf(b, s, p, i), i # s[n]
      PROVE  TailOf(r, t, p, i)
  <2>1. PICK e \in 1..Len(s) :
          /\ s[e] = i /\ b.orders[s[e]].price = p
          /\ \A m \in 1..Len(s) : b.orders[s[m]].price = p => m <= e
    BY <1>6 DEF TailOf
  <2>2. /\ Len(t) = Len(s) - 1 /\ Len(s) \in Nat
        /\ \A m \in 1..Len(t) : m < n => t[m] = s[m]
        /\ \A m \in 1..Len(t) : m >= n => t[m] = s[m + 1]
    BY DEF Cut, Shorter
  <2>3. \A m \in 1..Len(s) : r.orders[s[m]].price = b.orders[s[m]].price
    BY <1>1, <1>3, SlotsOf
  <2> DEFINE d == IF e < n THEN e ELSE e - 1
  <2>4. e # n
    BY <1>6, <2>1
  <2>5. d \in 1..Len(t) /\ t[d] = s[e]
    BY <2>1, <2>2, <2>4
  <2>6. ASSUME NEW m \in 1..Len(t), r.orders[t[m]].price = p
        PROVE  m <= d
    <3>1. CASE m < n
      <4>1. m \in 1..Len(s) /\ t[m] = s[m]
        BY <2>2, <3>1
      <4>2. m <= e
        BY <2>1, <2>3, <2>6, <4>1
      <4>3. QED
        BY <2>2, <2>4, <3>1, <4>2
    <3>2. CASE ~(m < n)
      <4>1. m + 1 \in 1..Len(s) /\ t[m] = s[m + 1]
        BY <2>2, <3>2
      <4>2. m + 1 <= e
        BY Zenon, <2>1, <2>3, <2>6, <4>1
      <4>3. QED
        BY <2>2, <3>2, <4>2
    <3>3. QED
      BY <3>1, <3>2
  <2>7. r.orders[t[d]].price = p
    BY <2>1, <2>3, <2>5
  <2> HIDE DEF d
  <2>8. QED
    BY <2>1, <2>5, <2>6, <2>7 DEF TailOf
<1>7. QED
  BY <1>2, <1>4, <1>5, <1>6 DEF StillPriced

\* The buckets and the price levels after the n-th order of a list has left it.
AfterRemoval(r, b, action, s, n) ==
  LET o == b.orders[s[n]]
        p == o.price
        k == o.parent
        bucket == b.buckets[k]
        last == LastAt(b, s, n)
        gone == OnlyAt(b, s, n)
    IN  /\ p \in DOMAIN b.levels[action] /\ k = b.levels[action][p]
        /\ k \in DOMAIN b.buckets /\ o.action = action
        /\ gone => /\ DOMAIN r.buckets = DOMAIN b.buckets \ {k}
                   /\ \A x \in DOMAIN b.buckets \ {k} : r.buckets[x] = b.buckets[x]
                   /\ r.buckets = Without(b.buckets, k)
                   /\ DOMAIN r.levels[action] = DOMAIN b.levels[action] \ {p}
                   /\ \A q \in DOMAIN b.levels[action] \ {p} :
                        r.levels[action][q] = b.levels[action][q]
                   /\ r.levels[action] = Without(b.levels[action], p)
        /\ ~gone => /\ DOMAIN r.buckets = DOMAIN b.buckets
                    /\ \A x \in DOMAIN b.buckets \ {k} : r.buckets[x] = b.buckets[x]
                    /\ r.buckets[k].price = bucket.price
                    /\ r.buckets[k].volume = bucket.volume - Remaining(o)
                    /\ r.buckets[k].orders = bucket.orders - 1
                    /\ r.buckets[k].tail = IF last THEN s[n - 1] ELSE bucket.tail
                    /\ r.buckets \in [DOMAIN b.buckets -> SlabBuckets]
                    /\ r.levels[action] = b.levels[action]
        /\ ~gone /\ last => /\ n - 1 \in 1..Len(s)
                            /\ b.orders[s[n - 1]].price = p
        /\ bucket.tail = s[n] <=> last
        /\ r.levels = [x \in Actions |-> r.levels[x]]
        /\ \A x \in Actions : x # action => r.levels[x] = b.levels[x]
        /\ \A x \in Actions : x # action => r.best[x] = IF b.best[x] = s[n] THEN o.prev ELSE b.best[x]
        /\ r.best \in [Actions -> Nat]
        /\ r.index = b.index /\ IsBook(r)

LEMMA RemovalFields ==
  ASSUME NEW r, NEW b, NEW action, NEW s, NEW n \in 1..Len(s),
         Removal(r, b, action, s, n)
  PROVE  AfterRemoval(r, b, action, s, n)
<1> DEFINE o == b.orders[s[n]]
           p == o.price
           k == o.parent
           bucket == b.buckets[k]
           last == LastAt(b, s, n)
           gone == OnlyAt(b, s, n)
           last0 == IsLast(b, s[n])
           gone0 == IsOnly(b, s[n])
<1>1. /\ Typed(b) /\ Keyed(b) /\ SideSound(b, action, s) /\ action \in Actions
      /\ Unhooked(r, b, s[n])
  BY DEF Removal
<1>2. /\ gone0 <=> gone
      /\ last0 <=> last
      /\ last /\ ~gone => /\ n - 1 \in 1..Len(s) /\ o.next = s[n - 1]
                          /\ b.orders[s[n - 1]].price = p
  <2>1. Typed(b) /\ Keyed(b) /\ action \in Actions /\ SideSound(b, action, s)
    BY <1>1
  <2>2. QED
    BY ONLY <2>1, n \in 1..Len(s), GoneIs
<1>3. s[n] \in DOMAIN b.orders /\ o.action = action
  BY <1>1 DEF SideSound, Linked
<1>4. o.next \in Nat /\ o.prev \in Nat /\ Remaining(o) \in Int
  BY <1>1, <1>3, SlotTypes
<1>5. p \in DOMAIN b.levels[action] /\ k = b.levels[action][p]
  BY <1>1 DEF SideSound, Filed
<1>6. k \in DOMAIN b.buckets
  BY <1>1, <1>5 DEF Typed
<1>7. bucket \in SlabBuckets /\ b.buckets \in [DOMAIN b.buckets -> SlabBuckets] /\ b.best \in [Actions -> Nat]
  BY <1>1, <1>6 DEF Typed

<1>8. /\ IsBook(r) /\ r.index = b.index
      /\ r.best = [x \in Actions |-> IF b.best[x] = s[n] THEN o.prev ELSE b.best[x]]
      /\ r.levels = [x \in Actions |-> IF x = action /\ gone
                                       THEN Without(b.levels[x], p) ELSE b.levels[x]]
      /\ gone => r.buckets = Without(b.buckets, k)
      /\ ~gone => r.buckets = [x \in DOMAIN b.buckets |->
           IF x = k THEN Left(b.buckets[k], o, IF last THEN o.next ELSE b.buckets[k].tail)
           ELSE b.buckets[x]]
  BY Zenon, <1>1, <1>2, <1>3 DEF Unhooked
<1> HIDE DEF o, k
<1>9. r.best \in [Actions -> Nat]
  BY <1>4, <1>7, <1>8
<1>10. /\ r.levels = [x \in Actions |-> r.levels[x]]
       /\ \A x \in Actions : x # action => r.levels[x] = b.levels[x]
       /\ \A x \in Actions : x # action => r.best[x] = IF b.best[x] = s[n] THEN o.prev ELSE b.best[x]
  BY <1>8
<1>11. ASSUME gone
       PROVE  /\ DOMAIN r.buckets = DOMAIN b.buckets \ {k}
              /\ \A x \in DOMAIN b.buckets \ {k} : r.buckets[x] = b.buckets[x]
              /\ r.buckets = Without(b.buckets, k)
              /\ DOMAIN r.levels[action] = DOMAIN b.levels[action] \ {p}
              /\ \A q \in DOMAIN b.levels[action] \ {p} :
                   r.levels[action][q] = b.levels[action][q]
              /\ r.levels[action] = Without(b.levels[action], p)
  <2>1. r.buckets = Without(b.buckets, k) /\ r.levels[action] = Without(b.levels[action], p)
    BY <1>1, <1>8, <1>11
  <2>2. QED
    BY <2>1 DEF Without
<1>12. ASSUME ~gone
       PROVE  /\ DOMAIN r.buckets = DOMAIN b.buckets
              /\ \A x \in DOMAIN b.buckets \ {k} : r.buckets[x] = b.buckets[x]
              /\ r.buckets[k].price = bucket.price
              /\ r.buckets[k].volume = bucket.volume - Remaining(o)
              /\ r.buckets[k].orders = bucket.orders - 1
              /\ r.buckets[k].tail = IF last THEN s[n - 1] ELSE bucket.tail
              /\ r.buckets \in [DOMAIN b.buckets -> SlabBuckets]
              /\ r.levels[action] = b.levels[action]
  <2> DEFINE tail == IF last THEN o.next ELSE bucket.tail
             new == Left(bucket, o, tail)
  <2>1. r.buckets = [x \in DOMAIN b.buckets |-> IF x = k THEN new ELSE b.buckets[x]]
        /\ r.levels[action] = b.levels[action]
    BY <1>1, <1>8, <1>12
  <2>2. tail = (IF last THEN s[n - 1] ELSE bucket.tail) /\ tail \in Nat
    BY <1>2, <1>4, <1>7, <1>12 DEF SlabBuckets
  <2> HIDE DEF tail, bucket
  <2>3. /\ new.price = bucket.price /\ new.volume = bucket.volume - Remaining(o)
        /\ new.orders = bucket.orders - 1 /\ new.tail = tail /\ new \in SlabBuckets
    BY <1>4, <1>7, <2>2 DEF Left, SlabBuckets
  <2> HIDE DEF new
  <2>4. r.buckets[k] = new
    BY <1>6, <2>1
  <2>5. r.buckets \in [DOMAIN b.buckets -> SlabBuckets]
    BY <1>7, <2>1, <2>3
  <2>6. QED
    BY <2>1, <2>2, <2>3, <2>4, <2>5
<1>13. bucket.tail = s[n] <=> last
  BY <1>2 DEF last0, IsLast, o, k, bucket
<1> HIDE DEF p, bucket
<1>14. /\ p \in DOMAIN b.levels[action] /\ k = b.levels[action][p]
       /\ k \in DOMAIN b.buckets /\ o.action = action
       /\ gone => /\ DOMAIN r.buckets = DOMAIN b.buckets \ {k}
                  /\ \A x \in DOMAIN b.buckets \ {k} : r.buckets[x] = b.buckets[x]
                  /\ r.buckets = Without(b.buckets, k)
                  /\ DOMAIN r.levels[action] = DOMAIN b.levels[action] \ {p}
                  /\ \A q \in DOMAIN b.levels[action] \ {p} :
                       r.levels[action][q] = b.levels[action][q]
                  /\ r.levels[action] = Without(b.levels[action], p)
       /\ ~gone => /\ DOMAIN r.buckets = DOMAIN b.buckets
                   /\ \A x \in DOMAIN b.buckets \ {k} : r.buckets[x] = b.buckets[x]
                   /\ r.buckets[k].price = bucket.price
                   /\ r.buckets[k].volume = bucket.volume - Remaining(o)
                   /\ r.buckets[k].orders = bucket.orders - 1
                   /\ r.buckets[k].tail = IF last THEN s[n - 1] ELSE bucket.tail
                   /\ r.buckets \in [DOMAIN b.buckets -> SlabBuckets]
                   /\ r.levels[action] = b.levels[action]
       /\ ~gone /\ last => n - 1 \in 1..Len(s) /\ b.orders[s[n - 1]].price = p
       /\ bucket.tail = s[n] <=> last
       /\ r.levels = [x \in Actions |-> r.levels[x]]
       /\ \A x \in Actions : x # action => r.levels[x] = b.levels[x]
       /\ \A x \in Actions : x # action => r.best[x] = IF b.best[x] = s[n] THEN o.prev ELSE b.best[x]
       /\ r.best \in [Actions -> Nat]
       /\ r.index = b.index /\ IsBook(r)
  BY Zenon, <1>2, <1>3, <1>5, <1>6, <1>8, <1>9, <1>10, <1>11, <1>12, <1>13
<1>15. QED
  BY Zenon, <1>14 DEF o, p, k, bucket, AfterRemoval

LEMMA RemovalFiled ==
  ASSUME NEW r, NEW b, NEW action, NEW s, NEW n \in 1..Len(s),
         Removal(r, b, action, s, n), NEW t, Cut(t, s, n, DOMAIN b.orders)
  PROVE  Filed(r, action, t)
<1> DEFINE o == b.orders[s[n]]
           p == o.price
           k == o.parent
           last == LastAt(b, s, n)
           gone == OnlyAt(b, s, n)
<1>1. /\ Typed(b) /\ Keyed(b) /\ Linked(b, action, s) /\ Filed(b, action, s)
      /\ action \in Actions
  BY DEF Removal, SideSound
<1>2. /\ p \in DOMAIN b.levels[action] /\ k = b.levels[action][p]
      /\ k \in DOMAIN b.buckets
      /\ gone => /\ \A x \in DOMAIN b.buckets \ {k} : r.buckets[x] = b.buckets[x]
                 /\ DOMAIN r.levels[action] = DOMAIN b.levels[action] \ {p}
                 /\ \A q \in DOMAIN b.levels[action] \ {p} :
                      r.levels[action][q] = b.levels[action][q]
      /\ ~gone => /\ \A x \in DOMAIN b.buckets \ {k} : r.buckets[x] = b.buckets[x]
                  /\ r.buckets[k].price = b.buckets[k].price
                  /\ r.buckets[k].volume = b.buckets[k].volume - Remaining(o)
                  /\ r.buckets[k].orders = b.buckets[k].orders - 1
                  /\ r.buckets[k].tail = IF last THEN s[n - 1] ELSE b.buckets[k].tail
                  /\ r.levels[action] = b.levels[action]
      /\ ~gone /\ last => n - 1 \in 1..Len(s) /\ b.orders[s[n - 1]].price = p
      /\ b.buckets[k].tail = s[n] <=> last
  <2>1. AfterRemoval(r, b, action, s, n)
    BY RemovalFields
  <2>2. QED
    BY Zenon, <2>1 DEF AfterRemoval
<1>3. /\ DOMAIN r.levels[action] = IF gone THEN DOMAIN b.levels[action] \ {p}
                                   ELSE DOMAIN b.levels[action]
      /\ \A q \in DOMAIN b.levels[action] \ {p} : r.levels[action][q] = b.levels[action][q]
      /\ \A x \in DOMAIN b.buckets \ {k} : r.buckets[x] = b.buckets[x]
  BY Zenon, <1>2
<1>4. /\ Len(s) \in Nat
      /\ \A m \in 1..Len(s) : s[m] \in DOMAIN b.orders
      /\ \A m, l \in 1..Len(s) : s[m] = s[l] => m = l
      /\ Len(t) = Len(s) - 1
      /\ \A m \in 1..Len(t) : m < n => t[m] = s[m]
      /\ \A m \in 1..Len(t) : m >= n => t[m] = s[m + 1]
  BY <1>1 DEF Linked, Cut, Shorter
<1>5. \A j \in DOMAIN b.orders : /\ r.orders[j].price = b.orders[j].price
                                /\ r.orders[j].parent = b.orders[j].parent
  BY RemovalSlots
<1>55. ASSUME NEW q
       PROVE  /\ Priced(r, t, q) = Priced(b, s, q) \ {s[n]}
              /\ Priced(b, s, q) \subseteq DOMAIN b.orders
              /\ Volume(r, Priced(r, t, q)) = Volume(b, Priced(r, t, q))
              /\ \A i : TailOf(b, s, q, i) /\ i # s[n] => TailOf(r, t, q, i)
  <2>1. StillPriced(r, b, s, n, t, q)
    BY RemovalPriced
  <2>2. QED
    BY ONLY <2>1 DEF StillPriced
<1>6. \A m \in 1..Len(t) : \E l \in 1..Len(s) : l # n /\ t[m] = s[l]
  <2> SUFFICES ASSUME NEW m \in 1..Len(t)
               PROVE  \E l \in 1..Len(s) : l # n /\ t[m] = s[l]
    OBVIOUS
  <2>1. CASE m < n
    <3>1. m \in 1..Len(s) /\ m # n /\ t[m] = s[m]
      BY <1>4, <2>1
    <3>2. QED
      BY <3>1
  <2>2. CASE ~(m < n)
    <3>1. m + 1 \in 1..Len(s) /\ m + 1 # n /\ t[m] = s[m + 1]
      BY <1>4, <2>2
    <3>2. QED
      BY <3>1
  <2>3. QED
    BY <2>1, <2>2
<1>7. ASSUME NEW m \in 1..Len(t)
      PROVE  /\ r.orders[t[m]].price \in DOMAIN r.levels[action]
             /\ r.orders[t[m]].parent = r.levels[action][r.orders[t[m]].price]
  <2>1. PICK l \in 1..Len(s) : l # n /\ t[m] = s[l]
    BY <1>6
  <2> DEFINE q == b.orders[s[l]].price
  <2>2. q \in DOMAIN b.levels[action] /\ b.orders[s[l]].parent = b.levels[action][q]
    BY <1>1 DEF Filed
  <2>3. r.orders[t[m]].price = q /\ r.orders[t[m]].parent = b.levels[action][q]
    BY <1>4, <1>5, <2>1, <2>2
  <2>4. gone => q # p
    BY <2>1 DEF OnlyAt
  <2> HIDE DEF q, p, gone
  <2>5. q \in DOMAIN r.levels[action] /\ r.levels[action][q] = b.levels[action][q]
    BY <1>2, <1>3, <2>2, <2>4
  <2>6. QED
    BY <2>3, <2>5
<1>8. ASSUME NEW q \in DOMAIN r.levels[action], q # p
      PROVE  BucketOf(r, t, q, r.buckets[r.levels[action][q]])
  <2> DEFINE l == b.levels[action][q]
             bucket == b.buckets[l]
  <2>1. q \in DOMAIN b.levels[action] /\ r.levels[action][q] = l
    BY <1>3, <1>8
  <2>2. l # k /\ l \in DOMAIN b.buckets
    <3>1. l \in DOMAIN b.buckets
      BY <1>1, <2>1 DEF Typed
    <3> HIDE DEF p, k
    <3>2. b.levels[action][q] # b.levels[action][p]
      BY <1>1, <1>2, <1>8, <2>1 DEF Keyed
    <3>3. QED
      BY <1>2, <3>1, <3>2
  <2>3. r.buckets[l] = bucket
    BY <1>3, <2>2
  <2>4. BucketOf(b, s, q, bucket)
    BY <1>1, <2>1 DEF Filed
  <2>5. s[n] \notin Priced(b, s, q)
    BY <1>8 DEF Priced
  <2>6. /\ Priced(r, t, q) = Priced(b, s, q)
        /\ Volume(r, Priced(r, t, q)) = Volume(b, Priced(b, s, q))
    <3>1. Priced(b, s, q) \ {s[n]} = Priced(b, s, q)
      BY ONLY <2>5
    <3>2. QED
      BY ONLY Zenon, <3>1, <1>55
  <2>7. bucket.tail # s[n]
    BY <1>8, <2>4 DEF BucketOf, TailOf
  <2>8. TailOf(r, t, q, bucket.tail)
    <3>1. TailOf(b, s, q, bucket.tail)
      BY <2>4 DEF BucketOf
    <3> HIDE DEF bucket
    <3>2. QED
      BY Zenon, <2>7, <3>1, <1>55
  <2>9. QED
    BY <2>1, <2>3, <2>4, <2>6, <2>8 DEF BucketOf
<1>9. ASSUME ~gone
      PROVE  BucketOf(r, t, p, r.buckets[r.levels[action][p]])
  <2> DEFINE bucket == b.buckets[k]
             there == Priced(b, s, p)
  <2>1. r.levels[action][p] = k
    BY Zenon, <1>2, <1>9
  <2>2. BucketOf(b, s, p, bucket)
    BY Zenon, <1>1, <1>2 DEF Filed
  <2>3. s[n] \in there /\ there \in SUBSET DOMAIN b.orders
    <3>1. s[n] \in ToSet(s)
      BY DEF ToSet
    <3>2. QED
      BY Zenon, <3>1, <1>55 DEF Priced
  <2>4. /\ Volume(b, there \ {s[n]}) = Volume(b, there) - Remaining(o)
        /\ Cardinality(there \ {s[n]}) = Cardinality(there) - 1
    <3> HIDE DEF there
    <3>1. QED
      BY <1>1, <2>3, VolumeIs
  <2>5. /\ Priced(r, t, p) = there \ {s[n]}
        /\ Volume(r, Priced(r, t, p)) = Volume(b, there \ {s[n]})
    <3> HIDE DEF p
    <3>1. QED
      BY ONLY Zenon, <1>55 DEF there
  <2>6. TailOf(r, t, p, r.buckets[k].tail)
    <3>1. CASE last
      <4>1. n - 1 \in 1..Len(s) /\ b.orders[s[n - 1]].price = p /\ r.buckets[k].tail = s[n - 1]
        BY Zenon, <1>2, <1>9, <3>1
      <4>2. n - 1 \in 1..Len(t) /\ t[n - 1] = s[n - 1]
        BY <1>4, <4>1
      <4>3. r.orders[t[n - 1]].price = p
        BY <1>4, <1>5, <4>1, <4>2
      <4>4. ASSUME NEW m \in 1..Len(t), r.orders[t[m]].price = p
            PROVE  m <= n - 1
        <5>1. CASE m < n
          BY <5>1
        <5>2. CASE ~(m < n)
          <6>1. m + 1 \in 1..Len(s) /\ t[m] = s[m + 1]
            BY <1>4, <5>2
          <6>2. b.orders[s[m + 1]].price = p
            BY <1>4, <1>5, <4>4, <6>1
          <6>3. m + 1 <= n
            BY <3>1, <6>1, <6>2 DEF LastAt
          <6>4. QED
            BY <5>2, <6>3
        <5>3. QED
          BY <5>1, <5>2
      <4>5. QED
        BY Zenon, <4>1, <4>2, <4>3, <4>4 DEF TailOf
    <3>2. CASE ~last
      <4>1. TailOf(b, s, p, bucket.tail) /\ bucket.tail # s[n] /\ r.buckets[k].tail = bucket.tail
        BY Zenon, <1>2, <1>9, <2>2, <3>2 DEF BucketOf
      <4> HIDE DEF p, bucket
      <4>2. QED
        BY ONLY <4>1, <1>55
    <3>3. QED
      BY <3>1, <3>2
  <2>7. QED
    BY Zenon, <1>2, <1>9, <2>1, <2>2, <2>4, <2>5, <2>6 DEF BucketOf
<1>10. \A q \in DOMAIN r.levels[action] : BucketOf(r, t, q, r.buckets[r.levels[action][q]])
  BY Zenon, <1>3, <1>8, <1>9
<1>11. QED
  BY <1>7, <1>10 DEF Filed

LEMMA RemovalTyped ==
  ASSUME NEW r, NEW b, NEW action, NEW s, NEW n \in 1..Len(s),
         Removal(r, b, action, s, n)
  PROVE  Typed(r) /\ Keyed(r)
<1> DEFINE o == b.orders[s[n]]
           p == o.price
           k == o.parent
           gone == OnlyAt(b, s, n)
<1>1. Typed(b) /\ Keyed(b) /\ action \in Actions
  BY DEF Removal
<1>2. /\ p \in DOMAIN b.levels[action] /\ k = b.levels[action][p]
      /\ k \in DOMAIN b.buckets
      /\ gone => /\ DOMAIN r.buckets = DOMAIN b.buckets \ {k}
                 /\ \A x \in DOMAIN b.buckets \ {k} : r.buckets[x] = b.buckets[x]
                 /\ r.buckets = Without(b.buckets, k)
                 /\ DOMAIN r.levels[action] = DOMAIN b.levels[action] \ {p}
                 /\ \A q \in DOMAIN b.levels[action] \ {p} :
                      r.levels[action][q] = b.levels[action][q]
                 /\ r.levels[action] = Without(b.levels[action], p)
      /\ ~gone => /\ DOMAIN r.buckets = DOMAIN b.buckets
                  /\ r.buckets \in [DOMAIN b.buckets -> SlabBuckets]
                  /\ r.levels[action] = b.levels[action]
      /\ r.levels = [x \in Actions |-> r.levels[x]]
      /\ \A x \in Actions : x # action => r.levels[x] = b.levels[x]
      /\ r.best \in [Actions -> Nat]
      /\ r.index = b.index /\ IsBook(r)
  <2>1. AfterRemoval(r, b, action, s, n)
    BY RemovalFields
  <2>2. QED
    BY Zenon, <2>1 DEF AfterRemoval
<1> HIDE DEF gone, k, p
<1>3. DOMAIN r.orders = DOMAIN b.orders /\ r.orders \in [DOMAIN b.orders -> SlotOrders]
  BY RemovalSlots
<1>4. CASE ~gone
  <2>1. \A x \in Actions : r.levels[x] = b.levels[x]
    BY Zenon, <1>2, <1>4
  <2>2. Typed(r)
    BY <1>1, <1>2, <1>3, <1>4, <2>1 DEF Typed
  <2>3. DOMAIN r.buckets = DOMAIN b.buckets
    BY Zenon, <1>2, <1>4
  <2>4. Keyed(r)
    BY ONLY <1>1, <2>1, <2>3 DEF Keyed
  <2>5. QED
    BY <2>2, <2>4
<1>5. CASE gone
  <2>1. /\ IsFiniteSet(DOMAIN r.buckets) /\ DOMAIN r.buckets \subseteq DOMAIN b.buckets
        /\ r.buckets \in [DOMAIN r.buckets -> SlabBuckets]
    <3>1. IsFiniteSet(DOMAIN b.buckets \ {k})
      BY <1>1, FS_Subset DEF Typed
    <3>2. \A x \in DOMAIN r.buckets : r.buckets[x] \in SlabBuckets
      BY Zenon, <1>1, <1>2, <1>5 DEF Typed
    <3>3. QED
      BY Zenon, <1>2, <1>5, <3>1, <3>2 DEF Without
  <2>2. ASSUME NEW x \in Actions, NEW q \in DOMAIN r.levels[x]
        PROVE  /\ q \in DOMAIN b.levels[x] /\ r.levels[x][q] = b.levels[x][q]
               /\ r.levels[x][q] \in DOMAIN r.buckets
    <3>1. q \in DOMAIN b.levels[x] /\ r.levels[x][q] = b.levels[x][q] /\ (x = action => q # p)
      BY Zenon, <1>2, <1>5
    <3>2. b.levels[x][q] # k
      BY <1>1, <1>2, <3>1 DEF Keyed
    <3>3. b.levels[x][q] \in DOMAIN b.buckets
      BY <1>1, <3>1 DEF Typed
    <3>4. QED
      BY Zenon, <1>2, <1>5, <3>1, <3>2, <3>3
  <2>3. ASSUME NEW x \in Actions
        PROVE  /\ r.levels[x] \in [DOMAIN r.levels[x] -> DOMAIN r.buckets]
               /\ DOMAIN r.levels[x] \subseteq Int
    <3>1. r.levels[x] = [q \in DOMAIN r.levels[x] |-> r.levels[x][q]]
      <4>1. CASE x = action
        BY <1>2, <1>5, <4>1 DEF Without
      <4>2. CASE x # action
        BY <1>1, <1>2, <4>2 DEF Typed
      <4>3. QED
        BY <4>1, <4>2
    <3>2. DOMAIN r.levels[x] \subseteq Int
      BY <1>1, <2>2 DEF Typed
    <3>3. QED
      BY <2>2, <3>1, <3>2
  <2>4. Typed(r)
    BY <1>1, <1>2, <1>3, <2>1, <2>3 DEF Typed
  <2>5. ASSUME NEW x \in Actions, NEW y \in Actions, NEW q \in DOMAIN r.levels[x],
               NEW l \in DOMAIN r.levels[y], r.levels[x][q] = r.levels[y][l]
        PROVE  x = y /\ q = l
    BY <1>1, <2>2, <2>5 DEF Keyed
  <2>6. ASSUME NEW j \in DOMAIN r.buckets
        PROVE  \E x \in Actions : \E q \in DOMAIN r.levels[x] : r.levels[x][q] = j
    <3>1. j \in DOMAIN b.buckets /\ j # k
      BY Zenon, <1>2, <1>5
    <3>2a. PICK x \in Actions : \E q \in DOMAIN b.levels[x] : b.levels[x][q] = j
      BY <1>1, <3>1 DEF Keyed
    <3>2. PICK q \in DOMAIN b.levels[x] : b.levels[x][q] = j
      BY <3>2a
    <3>3. x = action => q # p
      BY <1>2, <3>1, <3>2
    <3>4. q \in DOMAIN r.levels[x] /\ r.levels[x][q] = j
      BY Zenon, <1>2, <1>5, <3>2, <3>3
    <3>5. QED
      BY <3>4
  <2>7. Keyed(r)
    BY <2>5, <2>6 DEF Keyed
  <2>8. QED
    BY <2>4, <2>7
<1>6. QED
  BY <1>4, <1>5

\* No order is in the lists of both sides.
LEMMA Apart ==
  ASSUME NEW b, NEW action \in Actions, NEW s, NEW t, Sound(b, action, s, t)
  PROVE  /\ \A m \in 1..Len(t) : t[m] \notin ToSet(s)
         /\ \A m \in 1..Len(s) : s[m] \notin ToSet(t)
         /\ ToSet(s) \cap ToSet(t) = {}
         /\ ToSet(s) \subseteq DOMAIN b.orders /\ ToSet(t) \subseteq DOMAIN b.orders
<1>1. /\ Typed(b) /\ Linked(b, action, s) /\ Linked(b, Opposite(action), t)
      /\ Opposite(action) # action
  BY Sides DEF Sound, SideSound
<1>2. /\ \A i \in ToSet(s) : b.orders[i].action = action
      /\ \A m \in 1..Len(s) : s[m] \in ToSet(s)
      /\ ToSet(s) \subseteq DOMAIN b.orders
  BY ONLY <1>1, SlotsOf
<1>3. /\ \A i \in ToSet(t) : b.orders[i].action = Opposite(action)
      /\ \A m \in 1..Len(t) : t[m] \in ToSet(t)
      /\ ToSet(t) \subseteq DOMAIN b.orders
  BY ONLY <1>1, SlotsOf
<1>4. QED
  BY ONLY <1>1, <1>2, <1>3

\* An order has left its list for u; it is still in its slot.
TakenOut(r, b, action, t, u) ==
  /\ Sound(r, action, u, t)
  /\ DOMAIN r.orders = DOMAIN b.orders /\ r.index = b.index
  /\ \A j \in DOMAIN b.orders : Plain(r.orders[j]) = Plain(b.orders[j])

LEMMA RemoveKeeps ==
  ASSUME NEW b, NEW action \in Actions, NEW s, NEW t, Sound(b, action, s, t),
         NEW n \in 1..Len(s), NEW u, Cut(u, s, n, DOMAIN b.orders)
  PROVE  TakenOut(RemoveOrder(b, s[n]), b, action, t, u)
<1> DEFINE r == RemoveOrder(b, s[n])
           opposite == Opposite(action)
<1>1. /\ Typed(b) /\ Keyed(b) /\ Indexed(b) /\ SideSound(b, action, s)
      /\ SideSound(b, opposite, t)
  BY DEF Sound
<1>2. Removal(r, b, action, s, n)
  BY <1>1, RemoveIsRemoval
<1> HIDE DEF r
<1>3. Linked(r, action, u) /\ Sorted(r, action, u)
  BY <1>2, RemovalLinked
<1>4. Filed(r, action, u)
  BY <1>2, RemovalFiled
<1>5. Typed(r) /\ Keyed(r)
  BY <1>2, RemovalTyped
<1>6. AfterRemoval(r, b, action, s, n)
  BY <1>2, RemovalFields
<1>7. DOMAIN r.orders = DOMAIN b.orders
  BY ONLY <1>2, RemovalSlots
<1>71. \A j \in DOMAIN b.orders : r.orders[j].id = b.orders[j].id
  BY ONLY <1>2, RemovalSlots
<1>72. \A j \in DOMAIN b.orders : Plain(r.orders[j]) = Plain(b.orders[j])
  BY ONLY <1>2, RemovalSlots
<1>73. \A j \in DOMAIN b.orders : j \notin ToSet(s) => r.orders[j] = b.orders[j]
  BY ONLY <1>2, RemovalSlots
<1>8. r.index = b.index
  BY Zenon, <1>6 DEF AfterRemoval
<1>9. Indexed(r)
  BY <1>1, <1>7, <1>71, <1>8 DEF Indexed
<1>10. /\ opposite \in Actions /\ opposite # action
       /\ \A m \in 1..Len(t) : t[m] \notin ToSet(s) /\ t[m] \in DOMAIN b.orders
       /\ s[n] \in ToSet(s) /\ s[n] # None
  <2>1. \A m \in 1..Len(t) : t[m] \notin ToSet(s)
    BY Zenon, Apart
  <2>2. \A m \in 1..Len(t) : t[m] \in DOMAIN b.orders
    BY <1>1 DEF SideSound, Linked
  <2>3. s[n] \in ToSet(s) /\ s[n] # None
    BY <1>1, SlotsOf DEF SideSound, None
  <2>4. QED
    BY <2>1, <2>2, <2>3, Sides
<1>11. r.best[opposite] = b.best[opposite]
  <2>1. b.best[opposite] # s[n]
    <3>1. b.best[opposite] = Spot(t, 1)
      BY <1>1 DEF SideSound, Linked
    <3>2. QED
      BY <1>10, <3>1 DEF Spot
  <2>2. \A x \in Actions : x # action => r.best[x] = IF b.best[x] = s[n] THEN b.orders[s[n]].prev ELSE b.best[x]
    BY ONLY Zenon, <1>6 DEF AfterRemoval
  <2>3. QED
    BY <1>10, <2>1, <2>2
<1>12. /\ r.levels[opposite] = b.levels[opposite]
       /\ \A x \in DOMAIN b.buckets \ {b.orders[s[n]].parent} : r.buckets[x] = b.buckets[x]
       /\ b.orders[s[n]].parent = b.levels[action][b.orders[s[n]].price]
       /\ b.orders[s[n]].price \in DOMAIN b.levels[action]
  <2>1. OnlyAt(b, s, n) \/ ~OnlyAt(b, s, n)
    OBVIOUS
  <2>2. QED
    BY ONLY Zenon, <1>6, <1>10, <2>1 DEF AfterRemoval
<1>13. ASSUME NEW p \in DOMAIN b.levels[opposite]
       PROVE  r.buckets[b.levels[opposite][p]] = b.buckets[b.levels[opposite][p]]
  <2>1. b.levels[opposite][p] \in DOMAIN b.buckets
    BY <1>1, <1>10 DEF Typed
  <2>2. b.levels[opposite][p] # b.orders[s[n]].parent
    <3>1. Keyed(b) /\ action \in Actions
      BY <1>1
    <3>2. b.levels[opposite][p] = b.levels[action][b.orders[s[n]].price] => opposite = action
      <4>1. \A x, y \in Actions : \A v \in DOMAIN b.levels[x], w \in DOMAIN b.levels[y] :
              b.levels[x][v] = b.levels[y][w] => x = y /\ v = w
        BY ONLY <3>1 DEF Keyed
      <4>2. opposite \in Actions /\ b.orders[s[n]].price \in DOMAIN b.levels[action]
        BY ONLY <1>10, <1>12
      <4>3. QED
        BY ONLY <3>1, <4>1, <4>2, p \in DOMAIN b.levels[opposite]
    <3>3. b.orders[s[n]].parent = b.levels[action][b.orders[s[n]].price] /\ opposite # action
      <4>1. b.orders[s[n]].parent = b.levels[action][b.orders[s[n]].price]
        BY ONLY Zenon, <1>12
      <4>2. opposite # action
        BY ONLY Zenon, <1>10
      <4>3. QED
        BY ONLY Zenon, <4>1, <4>2
    <3>4. QED
      BY ONLY Zenon, <3>2, <3>3
  <2>3. \A x \in DOMAIN b.buckets \ {b.orders[s[n]].parent} : r.buckets[x] = b.buckets[x]
    BY ONLY Zenon, <1>12
  <2>4. QED
    BY ONLY Zenon, <2>1, <2>2, <2>3
<1>14. Agree(r, b, opposite, t)
  <2>1. \A m \in 1..Len(t) : t[m] \in DOMAIN r.orders /\ r.orders[t[m]] = b.orders[t[m]]
    BY ONLY <1>7, <1>73, <1>10
  <2>2. r.levels[opposite] = b.levels[opposite]
    BY ONLY Zenon, <1>12
  <2>3. QED
    BY ONLY Zenon, <1>11, <1>13, <2>1, <2>2 DEF Agree
<1>15. SideSound(r, opposite, t)
  BY <1>1, <1>14, Untouched
<1>16. Sound(r, action, u, t)
  BY <1>3, <1>4, <1>5, <1>9, <1>15 DEF Sound, SideSound
<1>17. TakenOut(r, b, action, t, u)
  BY <1>7, <1>72, <1>8, <1>16 DEF TakenOut
<1>18. QED
  BY <1>17 DEF r

-----------------------------------------------------------------------------
(* Orders that are in no list, and amounts *)

\* An order that is in no list leaves the index and the slab.
Freed(r, b, i) ==
  /\ r.orders = Without(b.orders, i) /\ r.index = Without(b.index, b.orders[i].id)
  /\ r.buckets = b.buckets /\ r.levels = b.levels /\ r.best = b.best /\ IsBook(r)
  /\ DOMAIN r.orders = DOMAIN b.orders \ {i}
  /\ \A j \in DOMAIN b.orders : j # i => r.orders[j] = b.orders[j]

LEMMA FreeIs ==
  ASSUME NEW b, Typed(b), NEW i \in DOMAIN b.orders
  PROVE  Freed(Free(b, i), b, i)
<1> DEFINE x == Without(b.index, b.orders[i].id)
           o == Without(b.orders, i)
           r == SetIndexOrders(b, x, o)
<1>1. Free(b, i) = r
  BY DEF Free, SetIndexOrders
<1>2. DOMAIN o = DOMAIN b.orders \ {i} /\ \A j \in DOMAIN b.orders : j # i => o[j] = b.orders[j]
  BY DEF Without
<1> HIDE DEF x, o
<1>3. r = Book(o, b.buckets, x, b.levels, b.best)
  BY FieldsChanged DEF Typed
<1> HIDE DEF r
<1>4. /\ r.orders = o /\ r.index = x /\ r.buckets = b.buckets /\ r.levels = b.levels
      /\ r.best = b.best /\ IsBook(r)
  BY <1>3, Fields
<1>5. Freed(r, b, i)
  BY <1>2, <1>4 DEF Freed, x, o
<1>6. QED
  BY <1>1, <1>5

LEMMA FreeKeeps ==
  ASSUME NEW b, NEW action \in Actions, NEW s, NEW t, Sound(b, action, s, t),
         NEW i \in DOMAIN b.orders, i \notin ToSet(s), i \notin ToSet(t)
  PROVE  Sound(Free(b, i), action, s, t) /\ Freed(Free(b, i), b, i)
<1> DEFINE r == Free(b, i)
           opposite == Opposite(action)
<1>1. /\ Typed(b) /\ Keyed(b) /\ Indexed(b) /\ SideSound(b, action, s)
      /\ SideSound(b, opposite, t)
  BY DEF Sound
<1>2. Freed(r, b, i)
  BY <1>1, FreeIs
<1> HIDE DEF r
<1>3. /\ r.orders = Without(b.orders, i) /\ r.index = Without(b.index, b.orders[i].id)
      /\ r.buckets = b.buckets /\ r.levels = b.levels /\ r.best = b.best /\ IsBook(r)
      /\ DOMAIN r.orders = DOMAIN b.orders \ {i}
      /\ \A j \in DOMAIN b.orders : j # i => r.orders[j] = b.orders[j]
  BY <1>2 DEF Freed
<1>4. Typed(r)
  <2>1. IsFiniteSet(DOMAIN r.orders) /\ DOMAIN r.orders \subseteq Nat \ {0}
    BY <1>1, <1>3, FS_Subset DEF Typed
  <2>2. r.orders \in [DOMAIN r.orders -> SlotOrders]
    <3>1. \A j \in DOMAIN r.orders : r.orders[j] \in SlotOrders
      BY <1>1, <1>3 DEF Typed
    <3>2. QED
      BY <1>3, <3>1 DEF Without
  <2>3. r.index = [id \in DOMAIN r.index |-> r.index[id]]
    BY <1>3 DEF Without
  <2>4. QED
    BY <1>1, <1>3, <2>1, <2>2, <2>3 DEF Typed
<1>5. Keyed(r)
  BY <1>1, <1>3 DEF Keyed
<1>6. Indexed(r)
  <2> DEFINE x == b.orders[i].id
  <2>1. DOMAIN r.index = DOMAIN b.index \ {x} /\ \A id \in DOMAIN b.index : id # x => r.index[id] = b.index[id]
    BY <1>3 DEF Without
  <2>2. x \in DOMAIN b.index /\ b.index[x] = i
    BY <1>1 DEF Indexed
  <2> HIDE DEF x
  <2>3. ASSUME NEW j \in DOMAIN r.orders
        PROVE  r.orders[j].id \in DOMAIN r.index /\ r.index[r.orders[j].id] = j
    <3>1. j \in DOMAIN b.orders /\ j # i /\ r.orders[j] = b.orders[j]
      BY <1>3
    <3>2. b.orders[j].id \in DOMAIN b.index /\ b.index[b.orders[j].id] = j
      BY <1>1, <3>1 DEF Indexed
    <3>3. QED
      BY <2>1, <2>2, <3>1, <3>2
  <2>4. ASSUME NEW id \in DOMAIN r.index
        PROVE  r.index[id] \in DOMAIN r.orders /\ r.orders[r.index[id]].id = id
    <3>1. id \in DOMAIN b.index /\ id # x /\ r.index[id] = b.index[id]
      BY <2>1
    <3>2. b.index[id] \in DOMAIN b.orders /\ b.orders[b.index[id]].id = id
      BY <1>1, <3>1 DEF Indexed
    <3>3. b.index[id] # i
      BY <3>1, <3>2 DEF x
    <3>4. QED
      BY <1>3, <3>1, <3>2, <3>3
  <2>5. QED
    BY <2>3, <2>4 DEF Indexed
<1>7. Agree(r, b, action, s) /\ Agree(r, b, opposite, t)
  <2>1. \A n \in 1..Len(s) : s[n] \in DOMAIN b.orders /\ s[n] # i
    BY <1>1, SlotsOf DEF SideSound
  <2>2. \A n \in 1..Len(t) : t[n] \in DOMAIN b.orders /\ t[n] # i
    BY <1>1, SlotsOf DEF SideSound
  <2>3. QED
    BY <1>3, <2>1, <2>2 DEF Agree
<1>8. SideSound(r, action, s) /\ SideSound(r, opposite, t)
  BY <1>1, <1>7, Untouched
<1>9. Sound(r, action, s, t)
  BY <1>4, <1>5, <1>6, <1>8 DEF Sound
<1>10. QED
  BY <1>2, <1>9 DEF r

\* An order that is in no list changes its price and what is filled of it, or its slot
\* is new.
Floats(r, b, i, s, t) ==
  /\ IsBook(r) /\ i \in Nat \ {0} /\ i \notin ToSet(s) /\ i \notin ToSet(t)
  /\ DOMAIN r.orders = DOMAIN b.orders \cup {i}
  /\ r.orders = [j \in DOMAIN r.orders |-> r.orders[j]]
  /\ r.orders[i] \in SlotOrders
  /\ \A j \in DOMAIN b.orders : j # i => r.orders[j] = b.orders[j]
  /\ r.buckets = b.buckets /\ r.levels = b.levels /\ r.best = b.best
  /\ r.index = [id \in DOMAIN r.index |-> r.index[id]]
  /\ Indexed(r)

LEMMA FloatKeeps ==
  ASSUME NEW b, NEW action \in Actions, NEW s, NEW t, Sound(b, action, s, t),
         NEW r, NEW i, Floats(r, b, i, s, t)
  PROVE  Sound(r, action, s, t)
<1> DEFINE opposite == Opposite(action)
<1>1. /\ Typed(b) /\ Keyed(b) /\ SideSound(b, action, s) /\ SideSound(b, opposite, t)
  BY DEF Sound
<1>2. Typed(r)
  <2>1. IsFiniteSet(DOMAIN r.orders) /\ DOMAIN r.orders \subseteq Nat \ {0}
    BY <1>1, FS_AddElement DEF Typed, Floats
  <2>2. r.orders \in [DOMAIN r.orders -> SlotOrders]
    <3>1. \A j \in DOMAIN r.orders : r.orders[j] \in SlotOrders
      BY <1>1 DEF Typed, Floats
    <3>2. QED
      BY Zenon, <3>1 DEF Floats
  <2>3. QED
    BY <1>1, <2>1, <2>2 DEF Typed, Floats
<1>3. Keyed(r)
  BY <1>1 DEF Keyed, Floats
<1>4. Agree(r, b, action, s) /\ Agree(r, b, opposite, t)
  <2>1. \A n \in 1..Len(s) : s[n] \in DOMAIN b.orders /\ s[n] # i
    BY <1>1, SlotsOf DEF SideSound, Floats
  <2>2. \A n \in 1..Len(t) : t[n] \in DOMAIN b.orders /\ t[n] # i
    BY <1>1, SlotsOf DEF SideSound, Floats
  <2>3. QED
    BY <2>1, <2>2 DEF Agree, Floats
<1>5. SideSound(r, action, s) /\ SideSound(r, opposite, t)
  BY <1>1, <1>4, Untouched
<1>6. QED
  BY <1>2, <1>3, <1>5 DEF Sound, Floats

\* The order o takes the place of the one in slot i, with `by` less to be filled, and so
\* has its bucket.
Drained(bucket, by) ==
  [price |-> bucket.price, volume |-> bucket.volume - by, orders |-> bucket.orders,
   tail |-> bucket.tail]

SameButAmount(o, p) ==
  /\ o.id = p.id /\ o.uid = p.uid /\ o.action = p.action /\ o.price = p.price
  /\ o.reserve = p.reserve /\ o.next = p.next /\ o.prev = p.prev /\ o.parent = p.parent

Lowered(r, b, i, o, by) ==
  /\ IsBook(r) /\ by \in Int
  /\ o \in SlotOrders /\ SameButAmount(o, b.orders[i])
  /\ Remaining(o) = Remaining(b.orders[i]) - by
  /\ r.orders = [j \in DOMAIN b.orders |-> IF j = i THEN o ELSE b.orders[j]]
  /\ r.buckets = [k \in DOMAIN b.buckets |-> IF k = b.orders[i].parent
                                             THEN Drained(b.buckets[k], by)
                                             ELSE b.buckets[k]]
  /\ r.index = b.index /\ r.levels = b.levels /\ r.best = b.best

LEMMA LoweredKeeps ==
  ASSUME NEW b, NEW action \in Actions, NEW s, NEW t, Sound(b, action, s, t),
         NEW n \in 1..Len(s), NEW r, NEW o, NEW by, Lowered(r, b, s[n], o, by)
  PROVE  Sound(r, action, s, t)
<1> DEFINE opposite == Opposite(action)
           i == s[n]
           k == b.orders[i].parent
           p == b.orders[i].price
<1>1. /\ Typed(b) /\ Keyed(b) /\ Indexed(b) /\ SideSound(b, action, s)
      /\ SideSound(b, opposite, t)
  BY DEF Sound
<1>2. /\ i \in DOMAIN b.orders /\ p \in DOMAIN b.levels[action]
      /\ k = b.levels[action][p] /\ k \in DOMAIN b.buckets
      /\ i \in ToSet(s)
  BY <1>1, RemoveIsRemoval, SlotsOf DEF SideSound
<1> HIDE DEF i
<1>3. /\ IsBook(r) /\ by \in Int /\ o \in SlotOrders /\ SameButAmount(o, b.orders[i])
      /\ Remaining(o) = Remaining(b.orders[i]) - by
      /\ r.orders = [j \in DOMAIN b.orders |-> IF j = i THEN o ELSE b.orders[j]]
      /\ r.buckets = [x \in DOMAIN b.buckets |-> IF x = k THEN Drained(b.buckets[x], by)
                                                 ELSE b.buckets[x]]
      /\ r.index = b.index /\ r.levels = b.levels /\ r.best = b.best
  BY DEF Lowered, i
<1> HIDE DEF k, p
<1>4. /\ DOMAIN r.orders = DOMAIN b.orders /\ r.orders[i] = o
      /\ \A j \in DOMAIN b.orders : j # i => r.orders[j] = b.orders[j]
      /\ DOMAIN r.buckets = DOMAIN b.buckets
      /\ \A x \in DOMAIN b.buckets : x # k => r.buckets[x] = b.buckets[x]
      /\ r.buckets[k] = Drained(b.buckets[k], by)
  BY <1>2, <1>3
<1>5. \A j \in DOMAIN b.orders : SameButAmount(r.orders[j], b.orders[j])
  BY <1>3, <1>4 DEF SameButAmount
<1>6. Typed(r)
  <2>1. \A j \in DOMAIN b.orders : r.orders[j] \in SlotOrders
    BY <1>1, <1>3, <1>4 DEF Typed
  <2>2. r.orders \in [DOMAIN r.orders -> SlotOrders]
    BY <1>3, <1>4, <2>1
  <2>3. \A x \in DOMAIN b.buckets : Drained(b.buckets[x], by) \in SlabBuckets
    <3>1. \A x \in DOMAIN b.buckets : b.buckets[x] \in SlabBuckets
      BY ONLY <1>1 DEF Typed
    <3>2. by \in Int
      BY ONLY <1>3
    <3>3. QED
      BY ONLY <3>1, <3>2 DEF SlabBuckets, Drained
  <2>4. r.buckets \in [DOMAIN r.buckets -> SlabBuckets]
    <3>1. \A x \in DOMAIN b.buckets : b.buckets[x] \in SlabBuckets
      BY <1>1 DEF Typed
    <3>2. QED
      BY <1>3, <1>4, <2>3, <3>1
  <2>5. QED
    BY <1>1, <1>3, <1>4, <2>2, <2>4 DEF Typed
<1>7. Keyed(r)
  BY <1>1, <1>3, <1>4 DEF Keyed
<1>8. Indexed(r)
  <2>1. \A j \in DOMAIN b.orders : r.orders[j].id = b.orders[j].id
    BY <1>5 DEF SameButAmount
  <2>2. QED
    <3>1. DOMAIN r.orders = DOMAIN b.orders /\ r.index = b.index /\ Indexed(b)
      BY <1>1, <1>3, <1>4
    <3>2. QED
      BY ONLY <2>1, <3>1 DEF Indexed
<1>9. SideSound(r, opposite, t)
  <2>1. \A m \in 1..Len(t) : t[m] \in DOMAIN b.orders /\ t[m] # i
    <3>1. \A m \in 1..Len(t) : t[m] \notin ToSet(s)
      BY Zenon, Apart
    <3>2. QED
      BY <1>1, <1>2, <3>1, SlotsOf DEF SideSound
  <2>2. \A q \in DOMAIN b.levels[opposite] :
          b.levels[opposite][q] \in DOMAIN b.buckets /\ b.levels[opposite][q] # k
    BY <1>1, <1>2, Sides DEF Typed, Keyed
  <2>3. Agree(r, b, opposite, t)
    BY <1>3, <1>4, <2>1, <2>2 DEF Agree
  <2>4. QED
    BY <1>1, <2>3, Untouched
<1>10. \A m \in 1..Len(s) : SameButAmount(r.orders[s[m]], b.orders[s[m]])
  BY <1>1, <1>5, SlotsOf DEF SideSound
<1>11. Linked(r, action, s) /\ Sorted(r, action, s)
  <2>1. Linked(b, action, s) /\ Sorted(b, action, s)
    BY <1>1 DEF SideSound
  <2>2. DOMAIN r.orders = DOMAIN b.orders /\ r.best = b.best
    BY <1>3, <1>4
  <2>3. Linked(r, action, s)
    BY ONLY Zenon, <1>10, <2>1, <2>2 DEF Linked, SameButAmount
  <2>4. Sorted(r, action, s)
    BY ONLY <1>10, <2>1 DEF Sorted, SameButAmount
  <2>5. QED
    BY <2>3, <2>4
<1>12. ASSUME NEW q
       PROVE  /\ Priced(r, s, q) = Priced(b, s, q)
              /\ \A e : TailOf(b, s, q, e) => TailOf(r, s, q, e)
              /\ Priced(b, s, q) \in SUBSET DOMAIN b.orders
  <2>1. \A j \in ToSet(s) : j \in DOMAIN b.orders /\ r.orders[j].price = b.orders[j].price
    BY <1>1, <1>5, SlotsOf DEF SideSound, SameButAmount
  <2>2. \A e : TailOf(b, s, q, e) => TailOf(r, s, q, e)
    BY <1>10 DEF TailOf, SameButAmount
  <2>3. QED
    BY <2>1, <2>2 DEF Priced
<1>13. ASSUME NEW q \in DOMAIN b.levels[action]
       PROVE  BucketOf(r, s, q, r.buckets[b.levels[action][q]])
  <2> DEFINE l == b.levels[action][q]
             there == Priced(b, s, q)
  <2>1. l \in DOMAIN b.buckets
    BY <1>1 DEF Typed
  <2>2. BucketOf(b, s, q, b.buckets[l])
    BY <1>1 DEF SideSound, Filed
  <2>3. there \in SUBSET DOMAIN b.orders /\ Priced(r, s, q) = there
    BY <1>12
  <2>4. \A e : TailOf(b, s, q, e) => TailOf(r, s, q, e)
    BY <1>12
  <2>5. CASE q # p
    <3>1. l # k
      BY <1>1, <1>2, <2>5 DEF Keyed
    <3>2. r.buckets[l] = b.buckets[l]
      BY <1>4, <2>1, <3>1
    <3>3. i \notin there
      BY <2>5 DEF Priced, p
    <3> HIDE DEF there, l
    <3>4. \A j \in there : Remaining(r.orders[j]) = Remaining(b.orders[j])
      BY <1>4, <2>3, <3>3
    <3>5. Volume(r, there) = Volume(b, there)
      BY <1>1, <2>3, <3>4, VolumeIs
    <3>6. QED
      <4>1. /\ b.buckets[l].price = q /\ b.buckets[l].volume = Volume(b, there)
            /\ b.buckets[l].orders = Cardinality(there) /\ TailOf(b, s, q, b.buckets[l].tail)
        BY <2>2 DEF BucketOf, there
      <4>2. BucketOf(r, s, q, r.buckets[l])
        BY ONLY <2>3, <2>4, <3>2, <3>5, <4>1 DEF BucketOf
      <4>3. QED
        BY <4>2 DEF l
  <2>6. CASE q = p
    <3>1. r.buckets[l] = Drained(b.buckets[l], by)
      BY <1>2, <1>4, <2>6
    <3>2. i \in there
      BY <1>2, <2>6 DEF Priced, p
    <3> HIDE DEF there, l
    <3>3. /\ Volume(b, there \ {i}) = Volume(b, there) - Remaining(b.orders[i])
          /\ Volume(b, there) \in Int
      BY ONLY <1>1, <2>3, <3>2, VolumeIs
    <3>4. /\ Volume(r, there \ {i}) = Volume(r, there) - Remaining(r.orders[i])
          /\ Volume(r, there) \in Int
      BY ONLY <1>4, <1>6, <2>3, <3>2, VolumeIs
    <3>5. Volume(r, there \ {i}) = Volume(b, there \ {i})
      <4>1. \A j \in there \ {i} : Remaining(r.orders[j]) = Remaining(b.orders[j])
        BY <1>4, <2>3
      <4>2. there \ {i} \in SUBSET DOMAIN b.orders
        BY <2>3
      <4>3. QED
        BY ONLY <1>1, <4>1, <4>2, VolumeIs
    <3>6. Remaining(b.orders[i]) \in Int
      BY <1>1, <1>2, SlotTypes
    <3>7. Volume(r, there) = Volume(b, there) - by
      <4>1. r.orders[i] = o /\ by \in Int /\ Remaining(o) = Remaining(b.orders[i]) - by
        BY <1>3, <1>4
      <4>2. QED
        BY ONLY <3>3, <3>4, <3>5, <3>6, <4>1
    <3>8. /\ r.buckets[l].price = b.buckets[l].price
          /\ r.buckets[l].volume = b.buckets[l].volume - by
          /\ r.buckets[l].orders = b.buckets[l].orders
          /\ r.buckets[l].tail = b.buckets[l].tail
      BY ONLY <3>1 DEF Drained
    <3>9. QED
      <4>1. /\ b.buckets[l].price = q /\ b.buckets[l].volume = Volume(b, there)
            /\ b.buckets[l].orders = Cardinality(there) /\ TailOf(b, s, q, b.buckets[l].tail)
        BY <2>2 DEF BucketOf, there
      <4>2. BucketOf(r, s, q, r.buckets[l])
        BY ONLY <2>3, <2>4, <3>7, <3>8, <4>1 DEF BucketOf
      <4>3. QED
        BY <4>2 DEF l
  <2>7. QED
    BY <2>5, <2>6
<1>14. Filed(r, action, s)
  <2>1. \A m \in 1..Len(s) :
          /\ r.orders[s[m]].price \in DOMAIN r.levels[action]
          /\ r.orders[s[m]].parent = r.levels[action][r.orders[s[m]].price]
    <3>1. \A m \in 1..Len(s) :
            /\ b.orders[s[m]].price \in DOMAIN b.levels[action]
            /\ b.orders[s[m]].parent = b.levels[action][b.orders[s[m]].price]
      BY <1>1 DEF SideSound, Filed
    <3>2. r.levels = b.levels
      BY <1>3
    <3>3. QED
      BY ONLY <1>10, <3>1, <3>2 DEF SameButAmount
  <2>2. \A q \in DOMAIN r.levels[action] : BucketOf(r, s, q, r.buckets[r.levels[action][q]])
    BY <1>3, <1>13
  <2>3. QED
    BY <2>1, <2>2 DEF Filed
<1>15. QED
  BY <1>6, <1>7, <1>8, <1>9, <1>11, <1>14 DEF Sound, SideSound

-----------------------------------------------------------------------------
(* insert_order *)

\* A vacant key is new.
LEMMA VacantIs ==
  ASSUME NEW slab, IsFiniteSet(DOMAIN slab)
  PROVE  Vacant(slab) \in Nat \ {0} /\ Vacant(slab) \notin DOMAIN slab
<1> DEFINE c == Cardinality(DOMAIN slab)
<1>1. c \in Nat
  BY FS_CardinalityType
<1> HIDE DEF c
<1>2. \E i \in 1..c + 1 : i \notin DOMAIN slab
  <2> SUFFICES ASSUME 1..c + 1 \subseteq DOMAIN slab
               PROVE  FALSE
    OBVIOUS
  <2>1. Cardinality(1..c + 1) <= c
    BY Zenon, FS_Subset DEF c
  <2>2. Cardinality(1..c + 1) = c + 1
    <3>1. 1 \in Int /\ c + 1 \in Int /\ ~(1 > c + 1) /\ c + 1 - 1 + 1 = c + 1
      BY <1>1
    <3>2. QED
      BY <3>1, UpTo
  <2>3. QED
    BY <1>1, <2>1, <2>2
<1>3. Vacant(slab) \in 1..c + 1 /\ Vacant(slab) \notin DOMAIN slab
  BY <1>2 DEF Vacant, c
<1>4. QED
  BY <1>1, <1>3

\* An order with other links.
Hung(o, next, prev, parent) ==
  [o EXCEPT !.next = next, !.prev = prev, !.parent = parent]

HungFrom(h, o, next, prev, parent) ==
  /\ h \in SlotOrders
  /\ h.id = o.id /\ h.uid = o.uid /\ h.action = o.action /\ h.price = o.price
  /\ h.size = o.size /\ h.filled = o.filled /\ h.reserve = o.reserve
  /\ h.next = next /\ h.prev = prev /\ h.parent = parent

LEMMA HungIs ==
  ASSUME NEW o \in SlotOrders, NEW next \in Nat, NEW prev \in Nat, NEW parent \in Nat
  PROVE  HungFrom(Hung(o, next, prev, parent), o, next, prev, parent)
  BY Zenon DEF HungFrom, Hung, SlotOrders

\* A list with i as its x+1-st slot.
Widened(u, s, x, i, S) ==
  /\ u \in Seq(S) /\ Len(s) \in Nat /\ x \in 0..Len(s) /\ Len(u) = Len(s) + 1
  /\ u[x + 1] = i
  /\ \A m \in 1..Len(s) : m <= x => u[m] = s[m]
  /\ \A m \in 1..Len(s) : m > x => u[m + 1] = s[m]
  /\ \A m \in 0..Len(s) + 2 : Spot(u, m) = IF m <= x THEN Spot(s, m)
                                           ELSE IF m = x + 1 THEN i ELSE Spot(s, m - 1)
  /\ ToSet(u) = ToSet(s) \cup {i}
  /\ \A m, k \in 1..Len(u) : u[m] = u[k] => m = k

LEMMA InsertedList ==
  ASSUME NEW S, NEW s \in Seq(S), \A m, n \in 1..Len(s) : s[m] = s[n] => m = n,
         NEW i \in S, i \notin ToSet(s), NEW x \in 0..Len(s)
  PROVE  Widened(InsertAt(s, x + 1, i), s, x, i, S)
<1> DEFINE u == InsertAt(s, x + 1, i)
<1>0. Len(s) \in Nat /\ x + 1 \in 1..Len(s) + 1
  OBVIOUS
<1>1. /\ u \in Seq(S) /\ Len(u) = Len(s) + 1
      /\ u[x + 1] = i
      /\ \A j \in 1..Len(s) + 1 : j <= x => u[j] = s[j]
      /\ \A j \in 1..Len(s) + 1 : j > x + 1 => u[j] = s[j - 1]
  <2>1. Inserted(u, S, s, x, i)
    BY InsertAtIs
  <2>2. QED
    BY <2>1 DEF Inserted
<1> HIDE DEF u
<1>2. \A m \in 1..Len(s) : m <= x => u[m] = s[m]
  BY <1>0, <1>1
<1>3. \A m \in 1..Len(s) : m > x => u[m + 1] = s[m]
  <2> SUFFICES ASSUME NEW m \in 1..Len(s), m > x
               PROVE  u[m + 1] = s[m]
    OBVIOUS
  <2>1. m + 1 \in 1..Len(s) + 1 /\ m + 1 > x + 1 /\ (m + 1) - 1 = m
    BY <1>0
  <2>2. QED
    BY <1>1, <2>1
<1>4. ASSUME NEW m \in 0..Len(s) + 2
      PROVE  Spot(u, m) = IF m <= x THEN Spot(s, m)
                          ELSE IF m = x + 1 THEN i ELSE Spot(s, m - 1)
  <2>1. CASE m <= x
    BY <1>0, <1>1, <1>2, <2>1 DEF Spot
  <2>2. CASE m = x + 1
    BY <1>0, <1>1, <2>2 DEF Spot
  <2>3. CASE m > x + 1
    BY <1>0, <1>1, <2>3 DEF Spot
  <2>4. QED
    BY <1>0, <2>1, <2>2, <2>3
<1>5. ASSUME NEW y \in ToSet(u)
      PROVE  y \in ToSet(s) \cup {i}
  <2>1. PICK m \in 1..Len(u) : u[m] = y
    BY DEF ToSet
  <2>2. CASE m <= x
    BY <1>0, <1>1, <1>2, <2>1, <2>2 DEF ToSet
  <2>3. CASE m = x + 1
    BY <1>1, <2>1, <2>3
  <2>4. CASE m > x + 1
    <3>1. m - 1 \in 1..Len(s) /\ s[m - 1] = y
      BY <1>0, <1>1, <2>1, <2>4
    <3>2. QED
      BY <3>1 DEF ToSet
  <2>5. QED
    BY <1>0, <1>1, <2>1, <2>2, <2>3, <2>4
<1>6. ASSUME NEW y \in ToSet(s) \cup {i}
      PROVE  y \in ToSet(u)
  <2>1. CASE y = i
    <3>1. x + 1 \in 1..Len(u)
      BY <1>0, <1>1
    <3>2. QED
      BY <1>1, <2>1, <3>1 DEF ToSet
  <2>2. CASE y \in ToSet(s)
    <3>1. PICK m \in 1..Len(s) : s[m] = y
      BY <2>2 DEF ToSet
    <3>2. m \in 1..Len(u) /\ m + 1 \in 1..Len(u) /\ (u[m] = y \/ u[m + 1] = y)
      BY <1>0, <1>1, <1>2, <1>3, <3>1
    <3>3. QED
      BY <3>2 DEF ToSet
  <2>3. QED
    BY <2>1, <2>2
<1>7. ASSUME NEW m \in 1..Len(u), NEW k \in 1..Len(u), u[m] = u[k]
      PROVE  m = k
  <2>1. \A l \in 1..Len(s) : s[l] # i
    BY DEF ToSet
  <2> DEFINE a == IF m <= x THEN m ELSE m - 1
             c == IF k <= x THEN k ELSE k - 1
  <2>2. ASSUME NEW y \in 1..Len(u), y # x + 1
        PROVE  LET z == IF y <= x THEN y ELSE y - 1
               IN  z \in 1..Len(s) /\ u[y] = s[z]
    BY <1>0, <1>1, <2>2
  <2>3. /\ m # x + 1 => a \in 1..Len(s) /\ u[m] = s[a]
        /\ k # x + 1 => c \in 1..Len(s) /\ u[k] = s[c]
    BY <2>2
  <2>4. CASE m = x + 1 \/ k = x + 1
    BY <1>1, <1>7, <2>1, <2>2, <2>3, <2>4
  <2>5. CASE m # x + 1 /\ k # x + 1
    <3>1. a = c
      BY Zenon, <1>7, <2>2, <2>3, <2>5
    <3>2. QED
      BY <1>0, <1>1, <2>5, <3>1
  <2>6. QED
    BY <2>4, <2>5
<1>8. ToSet(u) = ToSet(s) \cup {i}
  BY <1>5, <1>6
<1>9. QED
  BY <1>0, <1>1, <1>2, <1>3, <1>4, <1>7, <1>8 DEF Widened, u

\* The order in slot i is in no list; its place is behind the x-th one of s.
Awaits(b, action, s, t, i, x) ==
  /\ Sound(b, action, s, t) /\ action \in Actions
  /\ i \in DOMAIN b.orders /\ i \notin ToSet(s) /\ i \notin ToSet(t)
  /\ b.orders[i].action = action
  /\ x \in 0..Len(s)
  /\ \A m \in 1..Len(s) : m <= x <=> ~Ahead(action, b.orders[i].price, b.orders[s[m]].price)

\* The price of order i has a level; its bucket, old or new.
IsKnown(b, i) == b.orders[i].price \in DOMAIN b.levels[b.orders[i].action]

KeyOf(b, i) ==
  IF IsKnown(b, i) THEN b.levels[b.orders[i].action][b.orders[i].price]
  ELSE Vacant(b.buckets)

Better(b, i) ==
  LET o == b.orders[i]
  IN  {p \in DOMAIN b.levels[o.action] : Ahead(o.action, p, o.price)}

Lower(b, i) ==
  CHOOSE p \in Better(b, i) :
    \A q \in Better(b, i) : p = q \/ Ahead(b.orders[i].action, q, p)

\* The slot that order i is put behind.
Found(b, i, s, x) ==
  LET o == b.orders[i]
      levels == b.levels[o.action]
  IN  /\ IsKnown(b, i) => x # 0 /\ b.buckets[levels[o.price]].tail = s[x]
      /\ ~IsKnown(b, i) /\ Better(b, i) # {} =>
           x # 0 /\ b.buckets[levels[Lower(b, i)]].tail = s[x]
      /\ ~IsKnown(b, i) /\ Better(b, i) = {} => x = 0

LEMMA AwaitsBehind ==
  ASSUME NEW b, NEW action, NEW s, NEW t, NEW i, NEW x, Awaits(b, action, s, t, i, x)
  PROVE  Found(b, i, s, x)
<1> DEFINE p == b.orders[i].price
           levels == b.levels[action]
           better == {q \in DOMAIN levels : Ahead(action, q, p)}
           IsLower(q) == \A l \in better : q = l \/ Ahead(action, l, q)
           lower == CHOOSE q \in better : IsLower(q)
           At(m) == b.orders[s[m]].price
<1>1. /\ Typed(b) /\ Linked(b, action, s) /\ Sorted(b, action, s) /\ Filed(b, action, s)
      /\ i \in DOMAIN b.orders /\ b.orders[i].action = action /\ x \in 0..Len(s)
      /\ \A m \in 1..Len(s) : m <= x <=> ~Ahead(action, p, At(m))
      /\ action \in Actions
  BY DEF Awaits, Sound, SideSound
<1>2. Len(s) \in Nat /\ p \in Int /\ (IsKnown(b, i) <=> p \in DOMAIN levels)
  BY <1>1, SlotsOf, SlotTypes DEF IsKnown
<1>3. \A m \in 1..Len(s) : At(m) \in Int /\ At(m) \in DOMAIN levels
  BY <1>1, SlotsOf, SlotTypes DEF Filed
<1>4. ASSUME NEW q \in DOMAIN levels
      PROVE  \E n \in 1..Len(s) : /\ s[n] = b.buckets[levels[q]].tail /\ At(n) = q
                                  /\ \A m \in 1..Len(s) : At(m) = q => m <= n
  BY <1>1 DEF Filed, BucketOf, TailOf
<1>5. \A m, n \in 1..Len(s) : m < n => ~Ahead(action, At(n), At(m))
  BY <1>1 DEF Sorted
<1>6. \A m \in 1..Len(s) : m <= x <=> ~Ahead(action, p, At(m))
  BY <1>1
<1>7. x \in 0..Len(s) /\ \A q \in DOMAIN levels : q \in Int
  BY <1>1 DEF Typed
<1> HIDE DEF p, levels, At
<1>8. ASSUME IsKnown(b, i)
      PROVE  x # 0 /\ b.buckets[levels[p]].tail = s[x]
  <2>1. PICK n \in 1..Len(s) : /\ s[n] = b.buckets[levels[p]].tail /\ At(n) = p
                               /\ \A m \in 1..Len(s) : At(m) = p => m <= n
    BY <1>2, <1>4, <1>8
  <2>2. n <= x
    BY <1>2, <1>6, <2>1 DEF Ahead
  <2>3. ASSUME n < x
        PROVE  FALSE
    <3>1. x \in 1..Len(s) /\ ~Ahead(action, At(x), At(n)) /\ ~Ahead(action, p, At(x))
      BY <1>2, <1>5, <1>6, <1>7, <2>3
    <3>2. At(x) = p
      BY <1>2, <1>3, <2>1, <3>1 DEF Ahead
    <3>3. QED
      BY <2>1, <2>3, <3>1, <3>2
  <2>4. QED
    BY <1>2, <1>7, <2>1, <2>2, <2>3
<1>9. ASSUME ~IsKnown(b, i), x # 0
      PROVE  At(x) \in better /\ x \in 1..Len(s)
  <2>1. x \in 1..Len(s) /\ x <= x
    BY <1>2, <1>7, <1>9
  <2>2. ~Ahead(action, p, At(x)) /\ At(x) \in DOMAIN levels /\ At(x) \in Int
    BY <1>3, <1>6, <2>1
  <2>3. At(x) # p
    BY <1>2, <1>9, <2>2
  <2>4. QED
    BY <1>2, <2>1, <2>2, <2>3 DEF Ahead
<1>10. ASSUME ~IsKnown(b, i), NEW q \in better
       PROVE  /\ x # 0 /\ (q = At(x) \/ Ahead(action, q, At(x)))
              /\ q \in DOMAIN levels /\ q \in Int
  <2>1. q \in DOMAIN levels /\ Ahead(action, q, p) /\ q \in Int
    BY <1>7
  <2>2. PICK n \in 1..Len(s) : At(n) = q
    BY <1>4, <2>1
  <2>3. n <= x
    BY <1>2, <1>6, <2>1, <2>2 DEF Ahead
  <2>4. x # 0 /\ x \in 1..Len(s)
    BY <1>2, <1>7, <2>3
  <2>5. CASE n = x
    BY <2>1, <2>2, <2>4, <2>5
  <2>6. CASE n < x
    <3>1. ~Ahead(action, At(x), At(n)) /\ At(x) \in Int
      BY <1>3, <1>5, <2>4, <2>6
    <3>2. QED
      BY <2>1, <2>2, <2>4, <3>1 DEF Ahead
  <2>7. QED
    BY <1>7, <2>3, <2>5, <2>6
<1>11. ASSUME ~IsKnown(b, i), better # {}
       PROVE  x # 0 /\ b.buckets[levels[lower]].tail = s[x]
  <2>1. x # 0 /\ x \in 1..Len(s) /\ At(x) \in better
    BY <1>9, <1>10, <1>11
  <2>2. IsLower(At(x))
    BY <1>10, <1>11
  <2> HIDE DEF better, IsLower
  <2>3. lower \in better /\ IsLower(lower)
    BY <2>1, <2>2
  <2> HIDE DEF lower
  <2>4. lower = At(x) \/ Ahead(action, At(x), lower)
    BY <2>1, <2>3 DEF IsLower
  <2>5. (lower = At(x) \/ Ahead(action, lower, At(x))) /\ lower \in DOMAIN levels /\ lower \in Int
    BY <1>10, <1>11, <2>3
  <2>6. lower = At(x)
    BY <1>3, <2>1, <2>4, <2>5 DEF Ahead
  <2>7. PICK n \in 1..Len(s) : /\ s[n] = b.buckets[levels[lower]].tail /\ At(n) = lower
                               /\ \A m \in 1..Len(s) : At(m) = lower => m <= n
    BY <1>4, <2>5
  <2>8. x <= n
    BY <2>1, <2>6, <2>7
  <2>9. n <= x
    BY <1>6, <2>1, <2>6, <2>7
  <2>10. QED
    BY <2>1, <2>7, <2>8, <2>9
<1>12. ASSUME ~IsKnown(b, i), better = {}
       PROVE  x = 0
  BY <1>9, <1>12
<1>13. better = Better(b, i) /\ lower = Lower(b, i)
  <2>1. better = Better(b, i)
    BY <1>1 DEF Better, p, levels
  <2> HIDE DEF better
  <2>2. QED
    BY <1>1, <2>1 DEF Lower
<1> HIDE DEF better, lower
<1>14. QED
  BY <1>1, <1>8, <1>11, <1>12, <1>13 DEF p, levels, Found

\* What insert_order makes of each field.
Hook(orders, i, ahead, behind, k) ==
  [j \in DOMAIN orders |->
     CASE j = i      -> Hung(orders[j], ahead, behind, k)
       [] j = ahead  -> [orders[j] EXCEPT !.prev = i]
       [] j = behind -> [orders[j] EXCEPT !.next = i]
       [] OTHER      -> orders[j]]

Hooked(r, b, action, s, i, x) ==
  LET o == b.orders[i]
      k == KeyOf(b, i)
  IN
  /\ IsBook(r) /\ r.index = b.index
  /\ r.orders = Hook(b.orders, i, Spot(s, x), Spot(s, x + 1), k)
  /\ r.best = [y \in Actions |-> IF y = action /\ x = 0 THEN i ELSE b.best[y]]
  /\ IsKnown(b, i) =>
       /\ r.levels = b.levels
       /\ r.buckets = [j \in DOMAIN b.buckets |->
                         IF j = k THEN Joined(b.buckets[k], i, o) ELSE b.buckets[j]]
  /\ ~IsKnown(b, i) =>
       /\ r.levels = [y \in Actions |-> IF y = action THEN With(b.levels[y], o.price, k)
                                        ELSE b.levels[y]]
       /\ r.buckets = With(b.buckets, k, Opened(i, o))

LEMMA LinkBehindIs ==
  ASSUME NEW b, IsBook(b), NEW i, NEW ahead, NEW k
  PROVE  LinkBehind(b, i, ahead, k)
           = Book(Hook(b.orders, i, ahead, b.orders[ahead].prev, k), b.buckets, b.index,
                  b.levels, b.best)
<1> DEFINE o == Hook(b.orders, i, ahead, b.orders[ahead].prev, k)
<1>1. LinkBehind(b, i, ahead, k) = SetOrders(b, o)
  BY DEF LinkBehind, SetOrders, Hook, Hung
<1> HIDE DEF o
<1>2. SetOrders(b, o) = Book(o, b.buckets, b.index, b.levels, b.best)
  BY FieldsChanged
<1>3. QED
  BY <1>1, <1>2 DEF o

LEMMA LinkFirstIs ==
  ASSUME NEW b, IsBook(b), None \notin DOMAIN b.orders, b.best \in [Actions -> Nat],
         NEW i, NEW k, b.orders[i].action \in Actions
  PROVE  LET action == b.orders[i].action
         IN  LinkFirst(b, i, k)
               = Book(Hook(b.orders, i, None, b.best[action], k), b.buckets, b.index,
                      b.levels, [y \in Actions |-> IF y = action THEN i ELSE b.best[y]])
<1> DEFINE action == b.orders[i].action
           o == [j \in DOMAIN b.orders |->
                   CASE j = i -> Hung(b.orders[j], None, b.best[action], k)
                     [] j = b.best[action] -> [b.orders[j] EXCEPT !.next = i]
                     [] OTHER -> b.orders[j]]
           h == Hook(b.orders, i, None, b.best[action], k)
           t == [b.best EXCEPT ![action] = i]
<1>1. LinkFirst(b, i, k) = SetBestOrders(b, t, o)
  BY DEF LinkFirst, SetBestOrders, Hung
<1>2. o = h
  <2>1. \A j \in DOMAIN b.orders : j # None
    OBVIOUS
  <2>2. QED
    BY <2>1 DEF Hook
<1>3. t = [y \in Actions |-> IF y = action THEN i ELSE b.best[y]]
  OBVIOUS
<1> HIDE DEF o, h, t
<1>4. SetBestOrders(b, t, o) = Book(o, b.buckets, b.index, b.levels, t)
  BY FieldsChanged
<1>5. QED
  BY <1>1, <1>2, <1>3, <1>4 DEF h

LEMMA InsertOrderIs ==
  ASSUME NEW b, NEW action, NEW s, NEW t, NEW i, NEW x, Awaits(b, action, s, t, i, x)
  PROVE  Hooked(InsertOrder(b, i), b, action, s, i, x)
<1> DEFINE o == b.orders[i]
           k == KeyOf(b, i)
           p == o.price
           behind == Spot(s, x + 1)
           joinedBuckets == [b.buckets EXCEPT ![b.levels[o.action][p]] = Joined(@, i, o)]
           openedBuckets == With(b.buckets, Vacant(b.buckets), Opened(i, o))
           openedLevels == [b.levels EXCEPT ![o.action] = With(@, p, Vacant(b.buckets))]
           joined == SetBuckets(b, joinedBuckets)
           opened == SetBucketsLevels(b, openedBuckets, openedLevels)
           r == InsertOrder(b, i)
<1>1. /\ Typed(b) /\ Linked(b, action, s) /\ IsBook(b)
      /\ i \in DOMAIN b.orders /\ o.action = action /\ x \in 0..Len(s) /\ action \in Actions
      /\ \A j \in DOMAIN b.orders : j # None
  BY Zenon, SlotTypes DEF Awaits, Sound, SideSound, Typed, None
<1>2. Len(s) \in Nat /\ Found(b, i, s, x)
  BY <1>1, SlotsOf, AwaitsBehind
<1>3. r = IF IsKnown(b, i)
          THEN LinkBehind(joined, i, b.buckets[b.levels[o.action][p]].tail, b.levels[o.action][p])
          ELSE IF Better(b, i) # {}
          THEN LinkBehind(opened, i, b.buckets[b.levels[o.action][Lower(b, i)]].tail, Vacant(b.buckets))
          ELSE LinkFirst(opened, i, Vacant(b.buckets))
  <2> DEFINE joined0 == [b EXCEPT !.buckets[b.levels[o.action][p]] = Joined(@, i, o)]
             opened0 == [b EXCEPT !.buckets = With(@, Vacant(b.buckets), Opened(i, o)),
                                  !.levels[o.action] = With(@, p, Vacant(b.buckets))]
  <2>1. joined0 = joined
    BY DEF SetBuckets
  <2>2. opened0 = opened
    BY DEF SetBucketsLevels
  <2>3. r = IF IsKnown(b, i)
            THEN LinkBehind(joined0, i, b.buckets[b.levels[o.action][p]].tail, b.levels[o.action][p])
            ELSE IF Better(b, i) # {}
            THEN LinkBehind(opened0, i, b.buckets[b.levels[o.action][Lower(b, i)]].tail, Vacant(b.buckets))
            ELSE LinkFirst(opened0, i, Vacant(b.buckets))
    BY Zenon DEF InsertOrder, IsKnown, Better, Lower
  <2> HIDE DEF joined0, opened0, joined, opened, r
  <2>4. QED
    BY ONLY Zenon, <2>1, <2>2, <2>3
<1>4. x # 0 => b.orders[s[x]].prev = behind /\ Spot(s, x) = s[x]
  BY <1>1, <1>2 DEF Linked, Spot
<1>5. x = 0 => /\ b.best[action] = behind /\ Spot(s, x) = None
  BY <1>1, <1>2 DEF Linked, Spot
<1>6. /\ joined = Book(b.orders, joinedBuckets, b.index, b.levels, b.best)
      /\ opened = Book(b.orders, openedBuckets, b.index, openedLevels, b.best)
  <2> HIDE DEF joinedBuckets, openedBuckets, openedLevels
  <2>1. QED
    BY <1>1, FieldsChanged
<1>7. b.best = [y \in Actions |-> IF y = action /\ FALSE THEN i ELSE b.best[y]]
      /\ b.levels = [y \in Actions |-> b.levels[y]]
      /\ b.best \in [Actions -> Nat]
  BY <1>1 DEF Typed
<1>8. CASE IsKnown(b, i)
  <2>1. k = b.levels[action][p] /\ p \in DOMAIN b.levels[action] /\ k \in DOMAIN b.buckets
    BY <1>1, <1>8 DEF KeyOf, IsKnown, Typed
  <2>2. x # 0 /\ b.buckets[k].tail = s[x]
    BY <1>1, <1>2, <1>8, <2>1 DEF Found
  <2>3. joinedBuckets = [j \in DOMAIN b.buckets |->
           IF j = k THEN Joined(b.buckets[k], i, o) ELSE b.buckets[j]]
    <3>1. b.buckets = [j \in DOMAIN b.buckets |-> b.buckets[j]]
      BY <1>1 DEF Typed
    <3> HIDE DEF k, o, p
    <3>2. QED
      BY <1>1, <2>1, <3>1
  <2>4. r = LinkBehind(joined, i, s[x], k)
    BY Zenon, <1>1, <1>3, <1>8, <2>1, <2>2
  <2> HIDE DEF joined, joinedBuckets, r
  <2>5. IsBook(joined) /\ joined.orders = b.orders /\ joined.buckets = joinedBuckets
        /\ joined.index = b.index /\ joined.levels = b.levels /\ joined.best = b.best
    BY <1>6, Fields
  <2>6. r = Book(Hook(b.orders, i, s[x], behind, k), joinedBuckets, b.index, b.levels, b.best)
    BY <1>4, <2>2, <2>4, <2>5, LinkBehindIs
  <2>7. r.orders = Hook(b.orders, i, s[x], behind, k) /\ r.buckets = joinedBuckets
        /\ r.index = b.index /\ r.levels = b.levels /\ r.best = b.best /\ IsBook(r)
    BY <2>6, Fields
  <2>8. QED
    BY <1>4, <1>7, <1>8, <2>2, <2>3, <2>7 DEF Hooked, r
<1>9. CASE ~IsKnown(b, i)
  <2>1. k = Vacant(b.buckets)
    BY <1>9 DEF KeyOf
  <2>2. openedBuckets = With(b.buckets, k, Opened(i, o))
    BY <2>1
  <2>3. openedLevels = [y \in Actions |-> IF y = action THEN With(b.levels[y], p, k)
                                          ELSE b.levels[y]]
    <3> HIDE DEF k, p
    <3>1. QED
      BY Zenon, <1>1, <1>7, <2>1
  <2> HIDE DEF opened, openedBuckets, openedLevels, r
  <2>5. IsBook(opened) /\ opened.orders = b.orders /\ opened.buckets = openedBuckets
        /\ opened.index = b.index /\ opened.levels = openedLevels /\ opened.best = b.best
    <3>1. opened = Book(b.orders, openedBuckets, b.index, openedLevels, b.best)
      BY ONLY Zenon, <1>6
    <3>2. QED
      BY ONLY <3>1, Fields
  <2>6. CASE Better(b, i) # {}
    <3>1. x # 0 /\ b.buckets[b.levels[action][Lower(b, i)]].tail = s[x]
      BY <1>1, <1>2, <1>9, <2>6 DEF Found
    <3>2. r = LinkBehind(opened, i, s[x], k)
      BY <1>1, <1>3, <1>9, <2>1, <2>6, <3>1
    <3>3. r = Book(Hook(b.orders, i, s[x], behind, k), openedBuckets, b.index,
                   openedLevels, b.best)
      BY <1>4, <2>5, <3>1, <3>2, LinkBehindIs
    <3>4. r.orders = Hook(b.orders, i, s[x], behind, k) /\ r.buckets = openedBuckets
          /\ r.index = b.index /\ r.levels = openedLevels /\ r.best = b.best /\ IsBook(r)
      BY <3>3, Fields
    <3>5. QED
      BY <1>4, <1>7, <1>9, <2>2, <2>3, <3>1, <3>4 DEF Hooked, r
  <2>7. CASE Better(b, i) = {}
    <3>1. x = 0
      BY <1>2, <1>9, <2>7 DEF Found
    <3>2. r = LinkFirst(opened, i, k)
      BY <1>3, <1>9, <2>1, <2>7
    <3>3. r = Book(Hook(b.orders, i, None, behind, k), openedBuckets, b.index,
                   openedLevels, [y \in Actions |-> IF y = action THEN i ELSE b.best[y]])
      <4>1. None \notin DOMAIN opened.orders /\ opened.best \in [Actions -> Nat]
            /\ opened.orders[i].action = action
        BY <1>1, <1>7, <2>5
      <4>2. LinkFirst(opened, i, k)
              = Book(Hook(opened.orders, i, None, opened.best[action], k), opened.buckets, opened.index,
                     opened.levels, [y \in Actions |-> IF y = action THEN i ELSE opened.best[y]])
        <5>1. opened.orders[i].action \in Actions
          BY ONLY <1>1, <4>1
        <5>2. IsBook(opened)
          BY <2>5
        <5>3. LET a == opened.orders[i].action
              IN  LinkFirst(opened, i, k)
                    = Book(Hook(opened.orders, i, None, opened.best[a], k), opened.buckets,
                           opened.index, opened.levels,
                           [y \in Actions |-> IF y = a THEN i ELSE opened.best[y]])
          BY ONLY Zenon, <4>1, <5>1, <5>2, LinkFirstIs
        <5>4. QED
          BY ONLY <4>1, <5>3
      <4>3. QED
        BY <1>5, <2>5, <3>1, <3>2, <4>2
    <3>4. r.orders = Hook(b.orders, i, None, behind, k) /\ r.buckets = openedBuckets
          /\ r.index = b.index /\ r.levels = openedLevels /\ IsBook(r)
          /\ r.best = [y \in Actions |-> IF y = action THEN i ELSE b.best[y]]
      BY <3>3, Fields
    <3>5. QED
      BY <1>5, <1>9, <2>2, <2>3, <3>1, <3>4 DEF Hooked, r
  <2>8. QED
    BY <2>6, <2>7
<1>10. QED
  BY <1>8, <1>9

\* What a list is made of.
ListOf(b, action, s) ==
  /\ Len(s) \in Nat
  /\ \A m \in 1..Len(s) :
       /\ s[m] \in DOMAIN b.orders /\ s[m] \in Nat \ {0} /\ s[m] \in ToSet(s)
       /\ b.orders[s[m]].action = action /\ b.orders[s[m]].price \in Int
       /\ b.orders[s[m]].next = Spot(s, m - 1) /\ b.orders[s[m]].prev = Spot(s, m + 1)
  /\ \A m, n \in 1..Len(s) : s[m] = s[n] => m = n
  /\ b.best[action] = Spot(s, 1)
  /\ ToSet(s) \subseteq DOMAIN b.orders
  /\ \A i \in ToSet(s) : \E m \in 1..Len(s) : s[m] = i

LEMMA ListIs ==
  ASSUME NEW b, Typed(b), NEW action, NEW s, Linked(b, action, s)
  PROVE  ListOf(b, action, s)
<1>1. Len(s) \in Nat
  BY DEF Linked
<1>2. ASSUME NEW m \in 1..Len(s)
      PROVE  /\ s[m] \in DOMAIN b.orders /\ s[m] \in Nat \ {0} /\ s[m] \in ToSet(s)
             /\ b.orders[s[m]].action = action /\ b.orders[s[m]].price \in Int
             /\ b.orders[s[m]].next = Spot(s, m - 1)
             /\ b.orders[s[m]].prev = Spot(s, m + 1)
  <2>1. s[m] \in DOMAIN b.orders
    BY DEF Linked
  <2>2. s[m] \in Nat \ {0} /\ b.orders[s[m]].price \in Int
    BY <2>1, SlotTypes
  <2>3. s[m] \in ToSet(s)
    BY DEF ToSet
  <2>4. QED
    BY <2>1, <2>2, <2>3 DEF Linked
<1>3. \A i \in ToSet(s) : \E m \in 1..Len(s) : s[m] = i
  BY DEF ToSet
<1>4. \A m, n \in 1..Len(s) : s[m] = s[n] => m = n
  BY DEF Linked
<1>5. ToSet(s) \subseteq DOMAIN b.orders
  BY <1>2, <1>3
<1>6. b.best[action] = Spot(s, 1)
  BY DEF Linked
<1>7. QED
  BY <1>1, <1>2, <1>3, <1>4, <1>5, <1>6 DEF ListOf

\* Nothing but links changes in the slots.
HungIn(r, b, s, i, x) ==
  /\ DOMAIN r.orders = DOMAIN b.orders
  /\ r.orders \in [DOMAIN b.orders -> SlotOrders]
  /\ \A j \in DOMAIN b.orders :
       /\ r.orders[j].id = b.orders[j].id /\ r.orders[j].uid = b.orders[j].uid
       /\ r.orders[j].action = b.orders[j].action
       /\ r.orders[j].price = b.orders[j].price
       /\ r.orders[j].parent = IF j = i THEN KeyOf(b, i) ELSE b.orders[j].parent
       /\ Remaining(r.orders[j]) = Remaining(b.orders[j])
       /\ Plain(r.orders[j]) = Plain(b.orders[j])
       /\ j # i /\ j \notin ToSet(s) => r.orders[j] = b.orders[j]
       /\ r.orders[j].prev = IF j = i THEN Spot(s, x + 1)
                             ELSE IF j = Spot(s, x) THEN i ELSE b.orders[j].prev
       /\ r.orders[j].next = IF j = i THEN Spot(s, x)
                             ELSE IF j = Spot(s, x + 1) THEN i ELSE b.orders[j].next

LEMMA HookedSlots ==
  ASSUME NEW r, NEW b, NEW action, NEW s, NEW t, NEW i, NEW x,
         Awaits(b, action, s, t, i, x), Hooked(r, b, action, s, i, x)
  PROVE  HungIn(r, b, s, i, x)
<1> DEFINE ahead == Spot(s, x)
           behind == Spot(s, x + 1)
           k == KeyOf(b, i)
<1>1. /\ Typed(b) /\ Linked(b, action, s) /\ i \in DOMAIN b.orders /\ i \notin ToSet(s)
      /\ x \in 0..Len(s) /\ b.orders[i].action = action
  BY DEF Awaits, Sound, SideSound
<1>2. /\ Len(s) \in Nat
      /\ \A m \in 1..Len(s) : s[m] \in Nat \ {0} /\ s[m] \in ToSet(s) /\ s[m] \in DOMAIN b.orders
      /\ \A m, n \in 1..Len(s) : s[m] = s[n] => m = n
  BY <1>1, ListIs DEF ListOf
<1>3. /\ i \in Nat \ {0} /\ ahead \in Nat /\ behind \in Nat
      /\ ahead # i /\ behind # i /\ (ahead = behind => ahead = None)
      /\ ahead \in ToSet(s) \cup {None} /\ behind \in ToSet(s) \cup {None}
  <2>1. i \in Nat \ {0}
    BY <1>1, SlotTypes
  <2>2. /\ ahead = IF x = 0 THEN None ELSE s[x]
        /\ behind = IF x = Len(s) THEN None ELSE s[x + 1]
        /\ x # 0 => x \in 1..Len(s)
        /\ x # Len(s) => x + 1 \in 1..Len(s)
        /\ x # x + 1
    BY <1>1, <1>2 DEF Spot
  <2> HIDE DEF ahead, behind
  <2>3. QED
    BY <1>1, <1>2, <2>1, <2>2 DEF None
<1>4. r.orders = Hook(b.orders, i, ahead, behind, k)
  BY DEF Hooked
<1>5. k \in Nat
  <2>1. CASE IsKnown(b, i)
    BY <1>1, <2>1 DEF KeyOf, IsKnown, Typed, Awaits
  <2>2. CASE ~IsKnown(b, i)
    BY <1>1, <2>2, VacantIs DEF KeyOf, Typed
  <2>3. QED
    BY <2>1, <2>2
<1> HIDE DEF ahead, behind, k
<1>6. DOMAIN r.orders = DOMAIN b.orders
  BY <1>4 DEF Hook
<1>7. ASSUME NEW j \in DOMAIN b.orders
      PROVE  /\ r.orders[j] \in SlotOrders
             /\ r.orders[j].id = b.orders[j].id /\ r.orders[j].uid = b.orders[j].uid
             /\ r.orders[j].action = b.orders[j].action
             /\ r.orders[j].price = b.orders[j].price
             /\ r.orders[j].size = b.orders[j].size
             /\ r.orders[j].filled = b.orders[j].filled
             /\ r.orders[j].reserve = b.orders[j].reserve
             /\ r.orders[j].parent = IF j = i THEN k ELSE b.orders[j].parent
             /\ j # i /\ j \notin ToSet(s) => r.orders[j] = b.orders[j]
             /\ r.orders[j].prev = IF j = i THEN behind
                                   ELSE IF j = ahead THEN i ELSE b.orders[j].prev
             /\ r.orders[j].next = IF j = i THEN ahead
                                   ELSE IF j = behind THEN i ELSE b.orders[j].next
  <2>1. b.orders[j] \in SlotOrders /\ j # None
    BY <1>1, SlotTypes DEF None
  <2>2. r.orders[j] = CASE j = i      -> Hung(b.orders[j], ahead, behind, k)
                        [] j = ahead  -> [b.orders[j] EXCEPT !.prev = i]
                        [] j = behind -> [b.orders[j] EXCEPT !.next = i]
                        [] OTHER      -> b.orders[j]
    BY <1>4 DEF Hook
  <2>3. CASE j = i
    <3>1. r.orders[j] = Hung(b.orders[j], ahead, behind, k)
      BY <1>3, <2>2, <2>3
    <3>2. j \notin ToSet(s) /\ b.orders[j] \in SlotOrders /\ ahead \in Nat /\ behind \in Nat /\ k \in Nat
      BY <1>1, <1>3, <1>5, <2>1, <2>3
    <3>3. HungFrom(r.orders[j], b.orders[j], ahead, behind, k)
      BY ONLY <3>1, <3>2, HungIs
    <3>4. QED
      BY ONLY <2>3, <3>2, <3>3 DEF HungFrom
  <2>4. CASE j # i /\ j = ahead
    <3>1. r.orders[j] = [b.orders[j] EXCEPT !.prev = i] /\ j # behind
      BY <1>3, <2>1, <2>2, <2>4
    <3>2. QED
      BY ONLY <1>3, <2>1, <2>4, <3>1 DEF SlotOrders
  <2>5. CASE j # i /\ j # ahead /\ j = behind
    <3>1. r.orders[j] = [b.orders[j] EXCEPT !.next = i]
      BY <2>2, <2>5
    <3>2. QED
      BY ONLY <1>3, <2>1, <2>5, <3>1 DEF SlotOrders
  <2>6. CASE j # i /\ j # ahead /\ j # behind
    <3>1. r.orders[j] = b.orders[j]
      BY <2>2, <2>6
    <3>2. QED
      BY ONLY <2>1, <2>6, <3>1 DEF SlotOrders
  <2>7. QED
    BY <2>3, <2>4, <2>5, <2>6
<1>8. r.orders \in [DOMAIN b.orders -> SlotOrders]
  BY <1>4, <1>7 DEF Hook
<1>9. \A j \in DOMAIN b.orders : /\ Remaining(r.orders[j]) = Remaining(b.orders[j])
                                /\ Plain(r.orders[j]) = Plain(b.orders[j])
  BY <1>7 DEF Remaining, Plain
<1>10. QED
  BY <1>6, <1>7, <1>8, <1>9 DEF HungIn, ahead, behind, k

LEMMA HookedLinked ==
  ASSUME NEW r, NEW b, NEW action, NEW s, NEW t, NEW i, NEW x,
         Awaits(b, action, s, t, i, x), Hooked(r, b, action, s, i, x),
         NEW u, Widened(u, s, x, i, DOMAIN b.orders)
  PROVE  Linked(r, action, u) /\ Sorted(r, action, u)
<1>1. /\ Typed(b) /\ Linked(b, action, s) /\ Sorted(b, action, s) /\ i \in DOMAIN b.orders
      /\ i \notin ToSet(s) /\ x \in 0..Len(s) /\ b.orders[i].action = action
      /\ action \in Actions
      /\ \A m \in 1..Len(s) : m <= x <=> ~Ahead(action, b.orders[i].price, b.orders[s[m]].price)
  BY DEF Awaits, Sound, SideSound
<1>2. /\ Len(s) \in Nat
      /\ \A m \in 1..Len(s) : s[m] \in Nat \ {0} /\ s[m] \in ToSet(s) /\ s[m] \in DOMAIN b.orders
      /\ \A m, n \in 1..Len(s) : s[m] = s[n] => m = n
      /\ \A m \in 1..Len(s) : /\ b.orders[s[m]].action = action
                             /\ b.orders[s[m]].next = Spot(s, m - 1)
                             /\ b.orders[s[m]].prev = Spot(s, m + 1)
      /\ b.best[action] = Spot(s, 1)
  <2>1. ListOf(b, action, s)
    BY <1>1, ListIs
  <2>2. QED
    BY ONLY Zenon, <2>1 DEF ListOf
<1>3. /\ u \in Seq(DOMAIN b.orders) /\ Len(u) = Len(s) + 1
      /\ u[x + 1] = i
      /\ \A m \in 1..Len(s) : m <= x => u[m] = s[m]
      /\ \A m \in 1..Len(s) : m > x => u[m + 1] = s[m]
      /\ \A m \in 0..Len(s) + 2 : Spot(u, m) = IF m <= x THEN Spot(s, m)
                                               ELSE IF m = x + 1 THEN i ELSE Spot(s, m - 1)
      /\ \A m, k \in 1..Len(u) : u[m] = u[k] => m = k
  BY DEF Widened
<1>4. HungIn(r, b, s, i, x)
  BY HookedSlots
<1>5. /\ DOMAIN r.orders = DOMAIN b.orders
      /\ \A j \in DOMAIN b.orders :
           /\ r.orders[j].action = b.orders[j].action
           /\ r.orders[j].price = b.orders[j].price
           /\ r.orders[j].prev = IF j = i THEN Spot(s, x + 1)
                                 ELSE IF j = Spot(s, x) THEN i ELSE b.orders[j].prev
           /\ r.orders[j].next = IF j = i THEN Spot(s, x)
                                 ELSE IF j = Spot(s, x + 1) THEN i ELSE b.orders[j].next
  BY <1>4 DEF HungIn
<1>6. r.best[action] = Spot(u, 1)
  <2>1. r.best[action] = IF x = 0 THEN i ELSE b.best[action]
    BY <1>1 DEF Hooked
  <2>2. 1 \in 0..Len(s) + 2 /\ (x = 0 <=> 1 = x + 1) /\ (x # 0 <=> 1 <= x)
    BY <1>1, <1>2
  <2>3. QED
    BY <1>2, <1>3, <2>1, <2>2
<1>7. \A m \in 0..Len(s) + 1 : \A l \in 1..Len(s) : s[l] = Spot(s, m) <=> l = m
  BY <1>2 DEF Spot, None
<1>8. ASSUME NEW m \in 1..Len(u)
      PROVE  /\ r.orders[u[m]].action = action
             /\ r.orders[u[m]].next = Spot(u, m - 1)
             /\ r.orders[u[m]].prev = Spot(u, m + 1)
  <2>0. m \in 1..Len(s) + 1 /\ m - 1 \in 0..Len(s) + 2 /\ m + 1 \in 0..Len(s) + 2
    BY <1>2, <1>3
  <2>1. CASE m = x + 1
    <3>1. u[m] = i /\ r.orders[i].action = action /\ r.orders[i].prev = Spot(s, x + 1) /\ r.orders[i].next = Spot(s, x)
      BY <1>1, <1>3, <1>5, <2>1
    <3>2. m - 1 <= x /\ m - 1 = x
      BY <1>1, <2>0, <2>1
    <3>3. Spot(u, m - 1) = Spot(s, x)
      BY <1>3, <2>0, <3>2
    <3>4. ~(m + 1 <= x) /\ m + 1 # x + 1 /\ (m + 1) - 1 = x + 1
      BY <1>1, <2>0, <2>1
    <3>5. Spot(u, m + 1) = Spot(s, x + 1)
      BY <1>3, <2>0, <3>4
    <3>6. QED
      BY <3>1, <3>3, <3>5
  <2>2. CASE m <= x
    <3>1. m \in 1..Len(s) /\ u[m] = s[m] /\ s[m] # i /\ m # x + 1
      BY <1>1, <1>2, <1>3, <2>2
    <3>2. (s[m] = Spot(s, x) <=> m = x) /\ (s[m] = Spot(s, x + 1) <=> m = x + 1)
      <4>1. x \in 0..Len(s) + 1 /\ x + 1 \in 0..Len(s) + 1
        BY <1>1, <1>2
      <4>2. QED
        BY <1>7, <3>1, <4>1
    <3>3. r.orders[s[m]].next = Spot(s, m - 1) /\ r.orders[s[m]].action = action
          /\ r.orders[s[m]].prev = IF m = x THEN i ELSE Spot(s, m + 1)
      <4>1. /\ s[m] \in DOMAIN b.orders
            /\ b.orders[s[m]].action = action /\ b.orders[s[m]].next = Spot(s, m - 1)
            /\ b.orders[s[m]].prev = Spot(s, m + 1)
        BY ONLY Zenon, <1>2, <3>1
      <4>2. QED
        BY ONLY Zenon, <1>5, <3>1, <3>2, <4>1
    <3>4. Spot(u, m - 1) = Spot(s, m - 1)
      <4>1. m - 1 <= x
        BY <1>1, <2>0, <2>2
      <4>2. QED
        BY <1>3, <2>0, <4>1
    <3>5. Spot(u, m + 1) = IF m = x THEN i ELSE Spot(s, m + 1)
      <4>1. m = x => ~(m + 1 <= x) /\ m + 1 = x + 1
        BY <1>1, <2>0
      <4>2. m # x => m + 1 <= x
        BY <1>1, <2>0, <2>2
      <4>3. QED
        BY <1>3, <2>0, <4>1, <4>2
    <3>6. QED
      BY <3>1, <3>3, <3>4, <3>5
  <2>3. CASE m > x + 1
    <3> DEFINE l == m - 1
    <3>1. l \in 1..Len(s) /\ l > x /\ l + 1 = m /\ l # x
      BY <1>1, <1>2, <2>0, <2>3
    <3>2. u[m] = s[l] /\ s[l] # i
      BY <1>1, <1>2, <1>3, <3>1
    <3>3. (s[l] = Spot(s, x) <=> l = x) /\ (s[l] = Spot(s, x + 1) <=> l = x + 1)
      <4>1. x \in 0..Len(s) + 1 /\ x + 1 \in 0..Len(s) + 1
        BY <1>1, <1>2
      <4>2. QED
        BY <1>7, <3>1, <4>1
    <3>4. r.orders[s[l]].next = (IF l = x + 1 THEN i ELSE Spot(s, l - 1)) /\ r.orders[s[l]].action = action
          /\ r.orders[s[l]].prev = Spot(s, l + 1)
      <4>1. /\ s[l] \in DOMAIN b.orders
            /\ b.orders[s[l]].action = action /\ b.orders[s[l]].next = Spot(s, l - 1)
            /\ b.orders[s[l]].prev = Spot(s, l + 1)
        BY ONLY Zenon, <1>2, <3>1
      <4>2. QED
        BY ONLY Zenon, <1>5, <3>1, <3>2, <3>3, <4>1
    <3>5. Spot(u, m - 1) = IF l = x + 1 THEN i ELSE Spot(s, l - 1)
      <4>1. ~(m - 1 <= x) /\ (m - 1 = x + 1 <=> l = x + 1) /\ (m - 1) - 1 = l - 1
        BY <1>1, <2>0, <3>1
      <4>2. QED
        BY <1>3, <2>0, <4>1
    <3>6. Spot(u, m + 1) = Spot(s, l + 1)
      <4>1. ~(m + 1 <= x) /\ m + 1 # x + 1 /\ (m + 1) - 1 = l + 1
        BY <1>1, <2>0, <3>1
      <4>2. QED
        BY <1>3, <2>0, <4>1
    <3>7. QED
      BY <3>2, <3>4, <3>5, <3>6
  <2>4. QED
    BY <1>1, <2>0, <2>1, <2>2, <2>3
<1>9. Linked(r, action, u)
  BY <1>3, <1>5, <1>6, <1>8 DEF Linked
<1>10. ASSUME NEW m \in 1..Len(u), NEW k \in 1..Len(u), m < k
       PROVE  ~Ahead(action, r.orders[u[k]].price, r.orders[u[m]].price)
  <2> DEFINE At(l) == b.orders[l].price
  <2>0. Len(u) = Len(s) + 1 /\ x \in 0..Len(s)
    BY <1>1, <1>3
  <2>1. \A l \in 1..Len(u) : r.orders[u[l]].price = At(u[l])
    BY <1>3, <1>5
  <2>2. /\ \A l \in 1..Len(u) : l <= x => l \in 1..Len(s) /\ u[l] = s[l]
        /\ \A l \in 1..Len(u) : l > x + 1 => l - 1 \in 1..Len(s) /\ u[l] = s[l - 1]
        /\ u[x + 1] = i
    <3>1. \A l \in 1..Len(u) : l <= x => l \in 1..Len(s) /\ u[l] = s[l]
      BY <1>1, <1>2, <1>3, <2>0
    <3>2. ASSUME NEW l \in 1..Len(u), l > x + 1
          PROVE  l - 1 \in 1..Len(s) /\ u[l] = s[l - 1]
      <4>1. l - 1 \in 1..Len(s) /\ l - 1 > x /\ (l - 1) + 1 = l
        BY <1>2, <2>0, <3>2
      <4>2. QED
        BY <1>3, <4>1
    <3>3. QED
      BY <1>3, <3>1, <3>2
  <2>3. /\ \A l \in 1..Len(s) : At(s[l]) \in Int
        /\ At(i) \in Int
        /\ \A l, n \in 1..Len(s) : l < n => ~Ahead(action, At(s[n]), At(s[l]))
        /\ \A l \in 1..Len(s) : l <= x <=> ~Ahead(action, At(i), At(s[l]))
    BY Zenon, <1>1, <1>2, SlotTypes DEF Sorted
  <2> HIDE DEF At
  <2>4. ~Ahead(action, At(u[k]), At(u[m]))
    <3>1. CASE k <= x
      <4>1. m <= x
        BY <1>10, <2>0, <3>1
      <4>2. u[m] = s[m] /\ u[k] = s[k] /\ m \in 1..Len(s) /\ k \in 1..Len(s)
        BY <2>2, <3>1, <4>1
      <4>3. QED
        BY <1>10, <2>3, <4>2
    <3>2. CASE k = x + 1
      <4>1. u[k] = i /\ m <= x /\ u[m] = s[m] /\ m \in 1..Len(s)
        BY <1>2, <1>10, <2>0, <2>2, <3>2
      <4>2. QED
        BY <2>3, <4>1
    <3>3. CASE k > x + 1
      <4>1. u[k] = s[k - 1] /\ k - 1 \in 1..Len(s) /\ k - 1 > x
        BY <2>0, <2>2, <3>3
      <4>2. CASE m <= x
        <5>1. u[m] = s[m] /\ m \in 1..Len(s) /\ m < k - 1
          BY <2>0, <2>2, <4>1, <4>2
        <5>2. QED
          BY Zenon, <2>3, <4>1, <5>1
      <4>3. CASE m = x + 1
        <5>1. u[m] = i /\ Ahead(action, At(i), At(s[k - 1]))
          BY <2>0, <2>2, <2>3, <4>1, <4>3
        <5>2. QED
          BY <2>3, <4>1, <5>1 DEF Ahead
      <4>4. CASE m > x + 1
        <5>1. u[m] = s[m - 1] /\ m - 1 \in 1..Len(s) /\ m - 1 < k - 1
          BY <1>10, <2>0, <2>2, <4>4
        <5>2. QED
          BY Zenon, <2>3, <4>1, <5>1
      <4>5. QED
        BY <2>0, <4>2, <4>3, <4>4
    <3>4. QED
      BY <2>0, <3>1, <3>2, <3>3
  <2>5. QED
    BY <2>1, <2>4
<1>11. QED
  BY <1>9, <1>10 DEF Sorted

\* The orders at the price q, after order i has come into the list.
NowPriced(r, b, s, i, u, q) ==
  LET p == b.orders[i].price IN
  /\ Priced(b, s, q) \in SUBSET DOMAIN b.orders /\ i \notin Priced(b, s, q)
  /\ q # p => /\ Priced(r, u, q) = Priced(b, s, q)
              /\ \A e : TailOf(b, s, q, e) => TailOf(r, u, q, e)
  /\ q = p => /\ Priced(r, u, q) = Priced(b, s, q) \cup {i}
              /\ TailOf(r, u, q, i)
  /\ Volume(r, Priced(r, u, q)) = Volume(b, Priced(r, u, q))

LEMMA HookedPriced ==
  ASSUME NEW r, NEW b, NEW action, NEW s, NEW t, NEW i, NEW x,
         Awaits(b, action, s, t, i, x), Hooked(r, b, action, s, i, x),
         NEW u, Widened(u, s, x, i, DOMAIN b.orders), NEW q
  PROVE  NowPriced(r, b, s, i, u, q)
<1> DEFINE p == b.orders[i].price
           At(l) == b.orders[l].price
<1>1. /\ Typed(b) /\ Linked(b, action, s) /\ i \in DOMAIN b.orders /\ i \notin ToSet(s)
      /\ x \in 0..Len(s)
      /\ \A m \in 1..Len(s) : m <= x <=> ~Ahead(action, p, At(s[m]))
  BY DEF Awaits, Sound, SideSound
<1>2. ListOf(b, action, s)
  BY <1>1, ListIs
<1>3. /\ Len(s) \in Nat /\ \A m \in 1..Len(s) : s[m] \in DOMAIN b.orders
      /\ ToSet(s) \subseteq DOMAIN b.orders
  BY ONLY <1>2 DEF ListOf
<1>4. /\ Len(u) = Len(s) + 1 /\ u[x + 1] = i
      /\ \A m \in 1..Len(s) : m <= x => u[m] = s[m]
      /\ \A m \in 1..Len(s) : m > x => u[m + 1] = s[m]
      /\ ToSet(u) = ToSet(s) \cup {i}
  BY DEF Widened
<1>5. HungIn(r, b, s, i, x)
  BY HookedSlots
<1>6. \A j \in DOMAIN b.orders : /\ r.orders[j].price = At(j)
                                /\ Remaining(r.orders[j]) = Remaining(b.orders[j])
  BY ONLY <1>5 DEF HungIn
<1>7. \A j \in ToSet(u) : j \in DOMAIN b.orders
  BY <1>1, <1>3, <1>4
<1>8. Priced(b, s, q) \in SUBSET DOMAIN b.orders /\ i \notin Priced(b, s, q)
  BY <1>1, <1>3 DEF Priced
<1>9. Priced(r, u, q) = {j \in ToSet(u) : At(j) = q} /\ Priced(r, u, q) \in SUBSET DOMAIN b.orders
  BY ONLY <1>6, <1>7 DEF Priced
<1>10. Volume(r, Priced(r, u, q)) = Volume(b, Priced(r, u, q))
  <2>1. \A j \in Priced(r, u, q) : Remaining(r.orders[j]) = Remaining(b.orders[j])
    BY ONLY <1>6, <1>9
  <2>2. QED
    BY ONLY <1>1, <1>9, <2>1, VolumeIs
<1>11. \A m \in 1..Len(u) : r.orders[u[m]].price = At(u[m])
  <2>1. \A m \in 1..Len(u) : u[m] \in ToSet(u)
    BY DEF ToSet
  <2>2. QED
    BY ONLY <1>6, <1>7, <2>1
<1>12. /\ \A l \in 1..Len(u) : l <= x => l \in 1..Len(s) /\ u[l] = s[l]
       /\ \A l \in 1..Len(u) : l > x + 1 => l - 1 \in 1..Len(s) /\ u[l] = s[l - 1] /\ l - 1 > x
  <2>1. \A l \in 1..Len(u) : l <= x => l \in 1..Len(s) /\ u[l] = s[l]
    BY <1>1, <1>3, <1>4
  <2>2. ASSUME NEW l \in 1..Len(u), l > x + 1
        PROVE  l - 1 \in 1..Len(s) /\ u[l] = s[l - 1] /\ l - 1 > x
    <3>1. l - 1 \in 1..Len(s) /\ l - 1 > x /\ (l - 1) + 1 = l
      BY <1>1, <1>3, <1>4, <2>2
    <3>2. QED
      BY <1>4, <3>1
  <2>3. QED
    BY <2>1, <2>2
<1>13. At(i) = p /\ p \in Int
  BY <1>1, SlotTypes
<1> HIDE DEF At, p
<1>14. ASSUME q # p
       PROVE  /\ Priced(r, u, q) = Priced(b, s, q)
              /\ \A e : TailOf(b, s, q, e) => TailOf(r, u, q, e)
  <2>1. Priced(r, u, q) = Priced(b, s, q)
    BY <1>1, <1>4, <1>9, <1>13, <1>14 DEF Priced, At
  <2>2. ASSUME NEW e, TailOf(b, s, q, e)
        PROVE  TailOf(r, u, q, e)
    <3>1. PICK n \in 1..Len(s) : /\ s[n] = e /\ At(s[n]) = q
                                 /\ \A m \in 1..Len(s) : At(s[m]) = q => m <= n
      BY <2>2 DEF TailOf, At
    <3> DEFINE d == IF n <= x THEN n ELSE n + 1
    <3>2. d \in 1..Len(u) /\ u[d] = s[n]
      BY <1>1, <1>3, <1>4, <3>1
    <3>3. ASSUME NEW m \in 1..Len(u), At(u[m]) = q
          PROVE  m <= d
      <4>1. CASE m <= x
        <5>1. m <= n
          BY <1>12, <3>1, <3>3, <4>1
        <5>2. QED
          BY <1>1, <1>3, <3>1, <4>1, <5>1
      <4>2. CASE m = x + 1
        BY <1>4, <1>13, <1>14, <3>3, <4>2
      <4>3. CASE m > x + 1
        <5>1. m - 1 <= n /\ m - 1 > x
          BY <1>12, <3>1, <3>3, <4>3
        <5>2. QED
          BY <1>1, <1>3, <1>4, <3>1, <5>1
      <4>4. QED
        BY <1>1, <1>3, <1>4, <4>1, <4>2, <4>3
    <3> HIDE DEF d
    <3>4. QED
      BY Zenon, <1>11, <3>1, <3>2, <3>3 DEF TailOf
  <2>3. QED
    BY <2>1, <2>2
<1>15. ASSUME q = p
       PROVE  /\ Priced(r, u, q) = Priced(b, s, q) \cup {i}
              /\ TailOf(r, u, q, i)
  <2>1. Priced(r, u, q) = Priced(b, s, q) \cup {i}
    BY <1>4, <1>9, <1>13, <1>15 DEF Priced, At
  <2>2. x + 1 \in 1..Len(u)
    BY <1>1, <1>3, <1>4
  <2>3. ASSUME NEW m \in 1..Len(u), At(u[m]) = q
        PROVE  m <= x + 1
    <3> SUFFICES ASSUME m > x + 1
                 PROVE  FALSE
      BY <1>1, <1>3, <1>4
    <3>1. m - 1 \in 1..Len(s) /\ u[m] = s[m - 1] /\ m - 1 > x
      BY <1>12
    <3>2. ~(m - 1 <= x)
      BY <1>1, <1>3, <3>1
    <3>3. Ahead(action, p, At(s[m - 1]))
      BY <1>1, <3>1, <3>2
    <3>4. QED
      BY <1>13, <1>15, <2>3, <3>1, <3>3 DEF Ahead
  <2>4. TailOf(r, u, q, i)
    BY <1>4, <1>11, <1>13, <1>15, <2>2, <2>3 DEF TailOf
  <2>5. QED
    BY <2>1, <2>4
<1>16. QED
  BY <1>8, <1>10, <1>14, <1>15 DEF NowPriced, p

\* The buckets and the price levels after order i has come into its list.
AfterInsertion(r, b, action, i, x) ==
  LET o == b.orders[i]
      p == o.price
      k == KeyOf(b, i)
      levels == b.levels[action]
  IN  /\ k \in DOMAIN r.buckets
      /\ DOMAIN r.buckets = DOMAIN b.buckets \cup {k}
      /\ r.buckets \in [DOMAIN r.buckets -> SlabBuckets]
      /\ \A j \in DOMAIN b.buckets : j # k => r.buckets[j] = b.buckets[j]
      /\ r.buckets[k].price = IF IsKnown(b, i) THEN b.buckets[k].price ELSE p
      /\ r.buckets[k].volume
           = (IF IsKnown(b, i) THEN b.buckets[k].volume ELSE 0) + Remaining(o)
      /\ r.buckets[k].orders = (IF IsKnown(b, i) THEN b.buckets[k].orders ELSE 0) + 1
      /\ r.buckets[k].tail = i
      /\ DOMAIN r.levels[action] = DOMAIN levels \cup {p}
      /\ r.levels[action] = [q \in DOMAIN r.levels[action] |-> r.levels[action][q]]
      /\ \A q \in DOMAIN levels : q # p => r.levels[action][q] = levels[q]
      /\ r.levels[action][p] = k
      /\ IF IsKnown(b, i) THEN p \in DOMAIN levels /\ levels[p] = k
         ELSE p \notin DOMAIN levels /\ k \notin DOMAIN b.buckets
      /\ r.levels = [y \in Actions |-> r.levels[y]]
      /\ \A y \in Actions : y # action => r.levels[y] = b.levels[y] /\ r.best[y] = b.best[y]
      /\ r.best \in [Actions -> Nat]
      /\ r.index = b.index /\ IsBook(r) /\ k \in Nat \ {0}

LEMMA HookedFields ==
  ASSUME NEW r, NEW b, NEW action, NEW s, NEW t, NEW i, NEW x,
         Awaits(b, action, s, t, i, x), Hooked(r, b, action, s, i, x)
  PROVE  AfterInsertion(r, b, action, i, x)
<1> DEFINE o == b.orders[i]
           p == o.price
           k == KeyOf(b, i)
           levels == b.levels[action]
<1>1. /\ Typed(b) /\ i \in DOMAIN b.orders /\ o.action = action /\ action \in Actions
  BY DEF Awaits, Sound
<1>2. /\ i \in Nat \ {0} /\ Remaining(o) \in Int /\ p \in Int
  BY <1>1, SlotTypes
<1>3. IF IsKnown(b, i) THEN p \in DOMAIN levels /\ levels[p] = k /\ k \in DOMAIN b.buckets
      ELSE p \notin DOMAIN levels /\ k \notin DOMAIN b.buckets
  BY <1>1, VacantIs DEF IsKnown, KeyOf, Typed
<1>4. k \in Nat \ {0}
  <2>1. CASE IsKnown(b, i)
    BY <1>1, <1>3, <2>1 DEF Typed
  <2>2. CASE ~IsKnown(b, i)
    BY <1>1, <2>2, VacantIs DEF KeyOf, Typed
  <2>3. QED
    BY <2>1, <2>2
<1>5. /\ b.buckets \in [DOMAIN b.buckets -> SlabBuckets] /\ b.best \in [Actions -> Nat]
      /\ b.levels = [y \in Actions |-> b.levels[y]]
      /\ levels = [q \in DOMAIN levels |-> levels[q]]
  BY <1>1 DEF Typed
<1>6. /\ IsBook(r) /\ r.index = b.index
      /\ r.best = [y \in Actions |-> IF y = action /\ x = 0 THEN i ELSE b.best[y]]
      /\ IsKnown(b, i) =>
           /\ r.levels = b.levels
           /\ r.buckets = [j \in DOMAIN b.buckets |->
                             IF j = k THEN Joined(b.buckets[k], i, o) ELSE b.buckets[j]]
      /\ ~IsKnown(b, i) =>
           /\ r.levels = [y \in Actions |-> IF y = action THEN With(b.levels[y], p, k)
                                            ELSE b.levels[y]]
           /\ r.buckets = With(b.buckets, k, Opened(i, o))
  BY DEF Hooked
<1>7. r.best \in [Actions -> Nat] /\ \A y \in Actions : y # action => r.best[y] = b.best[y]
  <2>1. r.best = [y \in Actions |-> IF y = action /\ x = 0 THEN i ELSE b.best[y]]
    BY <1>6
  <2>2. i \in Nat /\ b.best \in [Actions -> Nat]
    BY Zenon, <1>2, <1>5
  <2>3. QED
    BY ONLY <2>1, <2>2
<1> HIDE DEF k, p, o, levels
<1>8. CASE IsKnown(b, i)
  <2> DEFINE new == Joined(b.buckets[k], i, o)
  <2>1. b.buckets[k] \in SlabBuckets
    BY <1>3, <1>5, <1>8
  <2>2. /\ new.price = b.buckets[k].price /\ new.volume = b.buckets[k].volume + Remaining(o)
        /\ new.orders = b.buckets[k].orders + 1 /\ new.tail = i /\ new \in SlabBuckets
    BY ONLY <1>2, <2>1 DEF Joined, SlabBuckets
  <2> HIDE DEF new
  <2>3. r.buckets = [j \in DOMAIN b.buckets |-> IF j = k THEN new ELSE b.buckets[j]]
    BY <1>6, <1>8 DEF new
  <2>4. /\ DOMAIN r.buckets = DOMAIN b.buckets \cup {k} /\ k \in DOMAIN r.buckets
        /\ r.buckets[k] = new
        /\ \A j \in DOMAIN b.buckets : j # k => r.buckets[j] = b.buckets[j]
        /\ r.buckets \in [DOMAIN r.buckets -> SlabBuckets]
    BY <1>3, <1>5, <1>8, <2>2, <2>3
  <2>5. r.levels = b.levels /\ DOMAIN levels = DOMAIN levels \cup {p} /\ levels[p] = k
        /\ p \in DOMAIN levels
    BY <1>3, <1>6, <1>8
  <2>6. /\ DOMAIN r.levels[action] = DOMAIN levels \cup {p}
        /\ r.levels[action] = [q \in DOMAIN r.levels[action] |-> r.levels[action][q]]
        /\ \A q \in DOMAIN levels : q # p => r.levels[action][q] = levels[q]
        /\ r.levels[action][p] = k
        /\ r.levels = [y \in Actions |-> r.levels[y]]
        /\ \A y \in Actions : y # action => r.levels[y] = b.levels[y]
    BY Zenon, <1>5, <2>5 DEF levels
  <2>7. QED
    BY Zenon, <1>4, <1>6, <1>7, <1>8, <2>2, <2>4, <2>5, <2>6 DEF AfterInsertion, k, p, o,
       levels
<1>9. CASE ~IsKnown(b, i)
  <2> DEFINE new == Opened(i, o)
  <2>1. p = o.price
    BY DEF p
  <2>2. /\ new.price = p /\ new.volume = 0 + Remaining(o)
        /\ new.orders = 0 + 1 /\ new.tail = i /\ new \in SlabBuckets
    BY ONLY <1>2, <2>1 DEF Opened, SlabBuckets
  <2> HIDE DEF new
  <2>3. r.buckets = With(b.buckets, k, new) /\ k \notin DOMAIN b.buckets
    BY <1>3, <1>6, <1>9 DEF new
  <2>4. /\ DOMAIN r.buckets = DOMAIN b.buckets \cup {k} /\ k \in DOMAIN r.buckets
        /\ r.buckets[k] = new
        /\ \A j \in DOMAIN b.buckets : j # k => r.buckets[j] = b.buckets[j]
        /\ r.buckets \in [DOMAIN r.buckets -> SlabBuckets]
    BY <1>5, <2>2, <2>3 DEF With
  <2>5. r.levels[action] = With(levels, p, k) /\ p \notin DOMAIN levels
        /\ r.levels = [y \in Actions |-> r.levels[y]]
        /\ \A y \in Actions : y # action => r.levels[y] = b.levels[y]
    BY <1>1, <1>3, <1>6, <1>9 DEF levels
  <2>6. /\ DOMAIN r.levels[action] = DOMAIN levels \cup {p}
        /\ r.levels[action] = [q \in DOMAIN r.levels[action] |-> r.levels[action][q]]
        /\ \A q \in DOMAIN levels : q # p => r.levels[action][q] = levels[q]
        /\ r.levels[action][p] = k
    BY <2>5 DEF With
  <2>7. QED
    BY <1>4, <1>6, <1>7, <1>9, <2>2, <2>3, <2>4, <2>5, <2>6 DEF AfterInsertion, k, p, o,
       levels
<1>10. QED
  BY <1>8, <1>9

\* An order has come into its list, which is u now.
PutIn(r, b, action, t, u) ==
  /\ Sound(r, action, u, t)
  /\ DOMAIN r.orders = DOMAIN b.orders /\ r.index = b.index
  /\ \A j \in DOMAIN b.orders : Plain(r.orders[j]) = Plain(b.orders[j])

LEMMA InsertKeeps ==
  ASSUME NEW b, NEW action, NEW s, NEW t, NEW i, NEW x, Awaits(b, action, s, t, i, x),
         NEW u, Widened(u, s, x, i, DOMAIN b.orders)
  PROVE  PutIn(InsertOrder(b, i), b, action, t, u)
<1> DEFINE r == InsertOrder(b, i)
           opposite == Opposite(action)
           p == b.orders[i].price
           k == KeyOf(b, i)
           levels == b.levels[action]
<1>1. Hooked(r, b, action, s, i, x)
  BY InsertOrderIs
<1> HIDE DEF r
<1>2. /\ Typed(b) /\ Keyed(b) /\ Indexed(b) /\ action \in Actions
      /\ Linked(b, action, s) /\ Filed(b, action, s) /\ SideSound(b, opposite, t)
      /\ i \in DOMAIN b.orders /\ i \notin ToSet(s) /\ i \notin ToSet(t)
      /\ b.orders[i].action = action /\ Sound(b, action, s, t)
  BY DEF Awaits, Sound, SideSound
<1>3. Linked(r, action, u) /\ Sorted(r, action, u)
  BY <1>1, HookedLinked
<1>4. HungIn(r, b, s, i, x)
  BY <1>1, HookedSlots
<1>5. AfterInsertion(r, b, action, i, x)
  BY <1>1, HookedFields
<1>6. /\ DOMAIN r.orders = DOMAIN b.orders /\ r.orders \in [DOMAIN b.orders -> SlotOrders]
      /\ \A j \in DOMAIN b.orders :
           /\ r.orders[j].id = b.orders[j].id /\ r.orders[j].price = b.orders[j].price
           /\ r.orders[j].parent = IF j = i THEN k ELSE b.orders[j].parent
  BY ONLY <1>4 DEF HungIn
<1>7. \A j \in DOMAIN b.orders : Plain(r.orders[j]) = Plain(b.orders[j])
  BY ONLY <1>4 DEF HungIn
<1>8. \A j \in DOMAIN b.orders : j # i /\ j \notin ToSet(s) => r.orders[j] = b.orders[j]
  BY ONLY <1>4 DEF HungIn
<1>9. /\ k \in DOMAIN r.buckets
      /\ DOMAIN r.buckets = DOMAIN b.buckets \cup {k}
      /\ r.buckets \in [DOMAIN r.buckets -> SlabBuckets]
      /\ \A j \in DOMAIN b.buckets : j # k => r.buckets[j] = b.buckets[j]
      /\ k \in Nat \ {0}
  BY ONLY Zenon, <1>5 DEF AfterInsertion
<1>10. /\ DOMAIN r.levels[action] = DOMAIN levels \cup {p}
       /\ r.levels[action] = [q \in DOMAIN r.levels[action] |-> r.levels[action][q]]
       /\ \A q \in DOMAIN levels : q # p => r.levels[action][q] = levels[q]
       /\ r.levels[action][p] = k
  BY ONLY Zenon, <1>5 DEF AfterInsertion
<1>11. IF IsKnown(b, i) THEN p \in DOMAIN levels /\ levels[p] = k
       ELSE p \notin DOMAIN levels /\ k \notin DOMAIN b.buckets
  BY ONLY Zenon, <1>5 DEF AfterInsertion
<1>12. /\ r.levels = [y \in Actions |-> r.levels[y]]
       /\ \A y \in Actions : y # action => r.levels[y] = b.levels[y] /\ r.best[y] = b.best[y]
       /\ r.best \in [Actions -> Nat]
       /\ r.index = b.index /\ IsBook(r)
  BY ONLY Zenon, <1>5 DEF AfterInsertion
<1>13. /\ r.buckets[k].price = IF IsKnown(b, i) THEN b.buckets[k].price ELSE p
       /\ r.buckets[k].volume
            = (IF IsKnown(b, i) THEN b.buckets[k].volume ELSE 0) + Remaining(b.orders[i])
       /\ r.buckets[k].orders = (IF IsKnown(b, i) THEN b.buckets[k].orders ELSE 0) + 1
       /\ r.buckets[k].tail = i
  BY ONLY Zenon, <1>5 DEF AfterInsertion
<1>14. p \in Int /\ Remaining(b.orders[i]) \in Int
  BY <1>2, SlotTypes
<1> HIDE DEF k, levels, p
<1>15. /\ \A q \in DOMAIN levels : levels[q] \in DOMAIN b.buckets
       /\ \A q \in DOMAIN levels : levels[q] = k => q = p
       /\ opposite \in Actions /\ opposite # action
       /\ \A q \in DOMAIN b.levels[opposite] :
            b.levels[opposite][q] \in DOMAIN b.buckets /\ b.levels[opposite][q] # k
  <2>1. \A q \in DOMAIN levels : levels[q] \in DOMAIN b.buckets
    BY <1>2 DEF Typed, levels
  <2>2. opposite \in Actions /\ opposite # action
    BY <1>2, Sides
  <2>3. \A q \in DOMAIN b.levels[opposite] : b.levels[opposite][q] \in DOMAIN b.buckets
    BY <1>2, <2>2 DEF Typed
  <2>4. CASE IsKnown(b, i)
    <3>1. p \in DOMAIN levels /\ levels[p] = k
      BY <1>11, <2>4
    <3>2. \A q \in DOMAIN levels : levels[q] = k => q = p
      BY <1>2, <3>1 DEF Keyed, levels
    <3>3. \A q \in DOMAIN b.levels[opposite] : b.levels[opposite][q] # k
      BY <1>2, <2>2, <3>1 DEF Keyed, levels
    <3>4. QED
      BY <2>1, <2>2, <2>3, <3>2, <3>3
  <2>5. CASE ~IsKnown(b, i)
    BY <1>11, <2>1, <2>2, <2>3, <2>5
  <2>6. QED
    BY <2>4, <2>5
<1>16. Typed(r)
  <2>1. IsFiniteSet(DOMAIN r.buckets) /\ DOMAIN r.buckets \subseteq Nat \ {0}
    <3>1. IsFiniteSet(DOMAIN b.buckets) /\ DOMAIN b.buckets \subseteq Nat \ {0}
      BY <1>2 DEF Typed
    <3>2. IsFiniteSet(DOMAIN b.buckets \cup {k})
      BY ONLY <3>1, FS_AddElement
    <3>3. QED
      BY ONLY <1>9, <3>1, <3>2
  <2>2. ASSUME NEW y \in Actions
        PROVE  /\ r.levels[y] \in [DOMAIN r.levels[y] -> DOMAIN r.buckets]
               /\ DOMAIN r.levels[y] \subseteq Int
    <3>1. b.levels[y] \in [DOMAIN b.levels[y] -> DOMAIN b.buckets] /\ DOMAIN b.levels[y] \subseteq Int
      BY <1>2 DEF Typed
    <3>2. CASE y # action
      BY <1>9, <1>12, <3>1, <3>2
    <3>3. CASE y = action
      <4>1. \A q \in DOMAIN r.levels[action] : r.levels[action][q] \in DOMAIN r.buckets
        BY <1>9, <1>10, <1>15
      <4>2. DOMAIN r.levels[action] \subseteq Int
        BY <1>10, <1>14, <3>1, <3>3 DEF levels
      <4>3. QED
        BY <1>10, <3>3, <4>1, <4>2
    <3>4. QED
      BY <3>2, <3>3
  <2>3. IsFiniteSet(DOMAIN r.orders) /\ DOMAIN r.orders \subseteq Nat \ {0}
        /\ r.index = [id \in DOMAIN r.index |-> r.index[id]]
    BY <1>2, <1>6, <1>12 DEF Typed
  <2>4. r.orders \in [DOMAIN r.orders -> SlotOrders]
    BY <1>6
  <2>5. QED
    BY ONLY <1>9, <1>12, <2>1, <2>2, <2>3, <2>4 DEF Typed
<1>17. Keyed(r)
  <2>1. ASSUME NEW y \in Actions, NEW q \in DOMAIN r.levels[y]
        PROVE  IF y = action /\ q = p THEN r.levels[y][q] = k
               ELSE /\ q \in DOMAIN b.levels[y] /\ r.levels[y][q] = b.levels[y][q]
                    /\ b.levels[y][q] # k
    <3>1. CASE y = action
      BY <1>10, <1>15, <3>1 DEF levels
    <3>2. CASE y # action
      <4>1. y = opposite
        BY <1>2, <3>2, Sides
      <4>2. QED
        BY <1>12, <1>15, <3>2, <4>1
    <3>3. QED
      BY <3>1, <3>2
  <2>2. ASSUME NEW y \in Actions, NEW z \in Actions, NEW q \in DOMAIN r.levels[y],
               NEW l \in DOMAIN r.levels[z], r.levels[y][q] = r.levels[z][l]
        PROVE  y = z /\ q = l
    <3>1. CASE (y = action /\ q = p) \/ (z = action /\ l = p)
      BY <2>1, <2>2, <3>1
    <3>2. CASE ~(y = action /\ q = p) /\ ~(z = action /\ l = p)
      <4>1. q \in DOMAIN b.levels[y] /\ l \in DOMAIN b.levels[z] /\ b.levels[y][q] = b.levels[z][l]
        BY <2>1, <2>2, <3>2
      <4>2. QED
        BY <1>2, <4>1 DEF Keyed
    <3>3. QED
      BY <3>1, <3>2
  <2>3. ASSUME NEW j \in DOMAIN r.buckets
        PROVE  \E y \in Actions : \E q \in DOMAIN r.levels[y] : r.levels[y][q] = j
    <3>1. CASE j = k
      BY <1>2, <1>10, <3>1
    <3>2. CASE j # k
      <4>1. j \in DOMAIN b.buckets
        BY <1>9, <3>2
      <4>2. PICK y \in Actions : \E q \in DOMAIN b.levels[y] : b.levels[y][q] = j
        BY <1>2, <4>1 DEF Keyed
      <4>3. PICK q \in DOMAIN b.levels[y] : b.levels[y][q] = j
        BY <4>2
      <4>4. CASE y = action
        <5>1. q # p
          BY <1>11, <3>2, <4>1, <4>3, <4>4 DEF levels
        <5>2. q \in DOMAIN r.levels[action] /\ r.levels[action][q] = j
          BY <1>10, <4>3, <4>4, <5>1 DEF levels
        <5>3. QED
          BY <1>2, <5>2
      <4>5. CASE y # action
        BY <1>12, <4>3, <4>5
      <4>6. QED
        BY <4>4, <4>5
    <3>3. QED
      BY <3>1, <3>2
  <2>4. QED
    BY ONLY <2>2, <2>3 DEF Keyed
<1>18. Indexed(r)
  <2>1. DOMAIN r.orders = DOMAIN b.orders /\ r.index = b.index /\ Indexed(b)
        /\ \A j \in DOMAIN b.orders : r.orders[j].id = b.orders[j].id
    BY <1>2, <1>6, <1>12
  <2>2. QED
    BY ONLY <2>1 DEF Indexed
<1>19. SideSound(r, opposite, t)
  <2>1. \A m \in 1..Len(t) : t[m] \notin ToSet(s)
    BY ONLY <1>2, Apart
  <2>2. \A m \in 1..Len(t) : t[m] \in DOMAIN b.orders /\ t[m] # i
    <3>1. ListOf(b, opposite, t)
      BY <1>2, ListIs DEF SideSound
    <3>2. \A m \in 1..Len(t) : t[m] \in DOMAIN b.orders /\ t[m] \in ToSet(t)
      BY ONLY <3>1 DEF ListOf
    <3>3. QED
      BY <1>2, <3>2
  <2>3. \A m \in 1..Len(t) : t[m] \in DOMAIN r.orders /\ r.orders[t[m]] = b.orders[t[m]]
    BY <1>6, <1>8, <2>1, <2>2
  <2>4. \A q \in DOMAIN b.levels[opposite] :
           r.buckets[b.levels[opposite][q]] = b.buckets[b.levels[opposite][q]]
    BY <1>9, <1>15
  <2>5. r.best[opposite] = b.best[opposite] /\ r.levels[opposite] = b.levels[opposite]
    BY <1>12, <1>15
  <2>6. Agree(r, b, opposite, t)
    BY ONLY <2>3, <2>4, <2>5 DEF Agree
  <2>7. QED
    BY <1>2, <2>6, Untouched
<1>20. ASSUME NEW q
       PROVE  NowPriced(r, b, s, i, u, q)
  BY <1>1, HookedPriced
<1>21. ASSUME NEW q \in DOMAIN r.levels[action]
       PROVE  BucketOf(r, u, q, r.buckets[r.levels[action][q]])
  <2> DEFINE there == Priced(b, s, q)
  <2>1. /\ there \in SUBSET DOMAIN b.orders /\ i \notin there
        /\ q # p => /\ Priced(r, u, q) = there
                    /\ \A e : TailOf(b, s, q, e) => TailOf(r, u, q, e)
        /\ q = p => Priced(r, u, q) = there \cup {i} /\ TailOf(r, u, q, i)
        /\ Volume(r, Priced(r, u, q)) = Volume(b, Priced(r, u, q))
    <3>1. NowPriced(r, b, s, i, u, q)
      BY <1>20
    <3>2. QED
      BY ONLY <3>1 DEF NowPriced, p
  <2>2. ASSUME q \in DOMAIN levels
        PROVE  /\ b.buckets[levels[q]].price = q
               /\ b.buckets[levels[q]].volume = Volume(b, there)
               /\ b.buckets[levels[q]].orders = Cardinality(there)
               /\ TailOf(b, s, q, b.buckets[levels[q]].tail)
    BY <1>2, <2>2 DEF Filed, BucketOf, levels
  <2>3. ASSUME q = p, ~IsKnown(b, i)
        PROVE  there = {}
    <3>1. p \notin DOMAIN levels
      BY <1>11, <2>3
    <3>2. ASSUME NEW j \in there
          PROVE  FALSE
      <4>1. j \in ToSet(s) /\ b.orders[j].price = q
        BY DEF Priced
      <4>2. PICK m \in 1..Len(s) : s[m] = j
        BY <4>1 DEF ToSet
      <4>3. b.orders[s[m]].price \in DOMAIN levels
        BY <1>2 DEF Filed, levels
      <4>4. QED
        BY <2>3, <3>1, <4>1, <4>2, <4>3
    <3>3. QED
      BY <3>2
  <2> HIDE DEF there
  <2>4. CASE q # p
    <3>1. q \in DOMAIN levels /\ r.levels[action][q] = levels[q]
      BY <1>10, <2>4
    <3>2. r.buckets[levels[q]] = b.buckets[levels[q]]
      BY <1>9, <1>15, <2>4, <3>1
    <3>3. /\ b.buckets[levels[q]].price = q
          /\ b.buckets[levels[q]].volume = Volume(b, there)
          /\ b.buckets[levels[q]].orders = Cardinality(there)
          /\ TailOf(b, s, q, b.buckets[levels[q]].tail)
      BY <2>2, <3>1
    <3>4. QED
      BY ONLY <2>1, <2>4, <3>1, <3>2, <3>3 DEF BucketOf
  <2>5. CASE q = p
    <3>1. r.levels[action][q] = k
      BY <1>10, <2>5
    <3>2. /\ Volume(b, there \cup {i}) = Volume(b, there) + Remaining(b.orders[i])
          /\ Cardinality(there \cup {i}) = Cardinality(there) + 1
          /\ Volume(b, there) \in Int /\ Cardinality(there) \in Nat
      BY ONLY <1>2, <2>1, VolumeIs
    <3>3. /\ r.buckets[k].price = q
          /\ r.buckets[k].volume = Volume(b, there) + Remaining(b.orders[i])
          /\ r.buckets[k].orders = Cardinality(there) + 1
          /\ r.buckets[k].tail = i
      <4>1. CASE IsKnown(b, i)
        <5>1. /\ b.buckets[k].price = q
              /\ b.buckets[k].volume = Volume(b, there)
              /\ b.buckets[k].orders = Cardinality(there)
          BY <1>11, <2>2, <2>5, <4>1
        <5>2. QED
          BY ONLY <1>13, <4>1, <5>1
      <4>2. CASE ~IsKnown(b, i)
        <5>1. there = {}
          BY <2>3, <2>5, <4>2
        <5>2. Volume(b, {}) = 0 /\ Cardinality({}) = 0
          BY SumEmpty, FS_EmptySet DEF Volume
        <5>3. QED
          BY ONLY <1>13, <2>5, <4>2, <5>1, <5>2
      <4>3. QED
        BY <4>1, <4>2
    <3>4. QED
      BY ONLY <2>1, <2>5, <3>1, <3>2, <3>3 DEF BucketOf
  <2>6. QED
    BY <2>4, <2>5
<1>22. Filed(r, action, u)
  <2>1. ASSUME NEW m \in 1..Len(u)
        PROVE  /\ r.orders[u[m]].price \in DOMAIN r.levels[action]
               /\ r.orders[u[m]].parent = r.levels[action][r.orders[u[m]].price]
    <3>1. u[m] \in ToSet(s) \cup {i}
      <4>1. ToSet(u) = ToSet(s) \cup {i}
        BY DEF Widened
      <4>2. u[m] \in ToSet(u)
        BY DEF ToSet
      <4>3. QED
        BY <4>1, <4>2
    <3>2. CASE u[m] = i
      BY <1>2, <1>6, <1>10, <3>2 DEF p
    <3>3. CASE u[m] # i
      <4>1. PICK n \in 1..Len(s) : s[n] = u[m]
        BY <3>1, <3>3 DEF ToSet
      <4> DEFINE q == b.orders[s[n]].price
      <4>2. s[n] \in DOMAIN b.orders /\ q \in DOMAIN levels /\ b.orders[s[n]].parent = levels[q]
        BY <1>2 DEF Filed, Linked, levels
      <4>3. r.orders[u[m]].price = q /\ r.orders[u[m]].parent = levels[q]
        BY <1>6, <3>3, <4>1, <4>2
      <4> HIDE DEF q
      <4>4. q \in DOMAIN r.levels[action] /\ r.levels[action][q] = levels[q]
        BY <1>10, <1>11, <1>15, <4>2
      <4>5. QED
        BY <4>3, <4>4
    <3>4. QED
      BY <3>2, <3>3
  <2>2. QED
    BY <1>21, <2>1 DEF Filed
<1>23. Sound(r, action, u, t)
  BY <1>3, <1>16, <1>17, <1>18, <1>19, <1>22 DEF Sound, SideSound
<1>24. PutIn(r, b, action, t, u)
  BY <1>6, <1>7, <1>12, <1>23 DEF PutIn
<1>25. QED
  BY <1>24 DEF r

-----------------------------------------------------------------------------
(* Following the links *)

\* f[n] is the n-th slot met.
IsChain(f, b, action) ==
  f = [n \in 1..Cardinality(DOMAIN b.orders) |->
         IF n = 1 THEN b.best[action]
         ELSE LET ahead == f[n - 1]
              IN  IF ahead = None THEN None ELSE b.orders[ahead].prev]

\* The walk finds the list.
LEMMA ChainIs ==
  ASSUME NEW b, Typed(b), NEW action, NEW s, Linked(b, action, s)
  PROVE  Chain(b, action) = s
<1> DEFINE c == Cardinality(DOMAIN b.orders)
           g == [n \in 1..c |-> Spot(s, n)]
<1>1. ListOf(b, action, s)
  BY ListIs
<1>2. /\ Len(s) \in Nat
      /\ \A m \in 1..Len(s) : /\ s[m] \in DOMAIN b.orders /\ s[m] # None
                             /\ b.orders[s[m]].prev = Spot(s, m + 1)
      /\ \A m, n \in 1..Len(s) : s[m] = s[n] => m = n
      /\ b.best[action] = Spot(s, 1)
  BY ONLY <1>1 DEF ListOf, None
<1>3. c \in Nat /\ Len(s) <= c
  <2>1. IsFiniteSet(DOMAIN b.orders) /\ c \in Nat
    BY FS_CardinalityType DEF Typed
  <2>2. IsFiniteSet(1..Len(s)) /\ Cardinality(1..Len(s)) = Len(s)
    <3>1. Len(s) \in Nat
      BY <1>2
    <3>2. QED
      BY ONLY <3>1, UpTo
  <2> DEFINE f == [n \in 1..Len(s) |-> s[n]]
  <2>3. f \in [1..Len(s) -> DOMAIN b.orders] /\ \A m, n \in 1..Len(s) : f[m] = f[n] => m = n
    BY <1>2
  <2> HIDE DEF f
  <2>4. ~(c < Len(s))
    BY <2>1, <2>2, <2>3, FS_PigeonHole
  <2>5. QED
    BY <1>2, <2>1, <2>4
<1> HIDE DEF c
<1>4. ASSUME NEW n \in Nat, n > 1
      PROVE  Spot(s, n) = IF Spot(s, n - 1) = None THEN None ELSE b.orders[Spot(s, n - 1)].prev
  <2>1. CASE n - 1 \in 1..Len(s)
    BY <1>2, <1>4, <2>1 DEF Spot
  <2>2. CASE n - 1 \notin 1..Len(s)
    BY <1>2, <1>4, <2>2 DEF Spot
  <2>3. QED
    BY <2>1, <2>2
<1>5. IsChain(g, b, action)
  <2>1. \A n \in 1..c : g[n] = IF n = 1 THEN b.best[action]
                               ELSE LET ahead == g[n - 1]
                                    IN  IF ahead = None THEN None ELSE b.orders[ahead].prev
    <3> SUFFICES ASSUME NEW n \in 1..c
                 PROVE  g[n] = IF n = 1 THEN b.best[action]
                               ELSE LET ahead == g[n - 1]
                                    IN  IF ahead = None THEN None ELSE b.orders[ahead].prev
      OBVIOUS
    <3>1. CASE n = 1
      BY <1>2, <3>1
    <3>2. CASE n # 1
      <4>1. n > 1 /\ n \in Nat /\ n - 1 \in 1..c
        BY <1>3, <3>2
      <4>2. g[n] = Spot(s, n) /\ g[n - 1] = Spot(s, n - 1)
        BY <4>1
      <4> HIDE DEF g
      <4>3. QED
        BY <1>4, <3>2, <4>1, <4>2
    <3>3. QED
      BY <3>1, <3>2
  <2>2. g = [n \in 1..c |-> g[n]]
    OBVIOUS
  <2> HIDE DEF g
  <2>3. QED
    BY Zenon, <2>1, <2>2 DEF IsChain, c
<1> DEFINE h == CHOOSE f : IsChain(f, b, action)
<1>6. IsChain(h, b, action)
  <2> HIDE DEF g
  <2>1. \E f : IsChain(f, b, action)
    BY <1>5
  <2>2. QED
    BY <2>1
<1> HIDE DEF h
<1>7. /\ h = [n \in 1..c |-> h[n]]
      /\ \A n \in 1..c : h[n] = IF n = 1 THEN b.best[action]
                                ELSE IF h[n - 1] = None THEN None ELSE b.orders[h[n - 1]].prev
  <2>1. h = [n \in 1..c |-> IF n = 1 THEN b.best[action]
                            ELSE IF h[n - 1] = None THEN None ELSE b.orders[h[n - 1]].prev]
    BY Zenon, <1>6 DEF IsChain, c
  <2>2. QED
    BY Zenon, <2>1
<1>8. \A n \in 1..c : h[n] = Spot(s, n)
  <2> DEFINE T == {n \in Nat : n \in 1..c => h[n] = Spot(s, n)}
  <2>1. 0 \in T
    OBVIOUS
  <2>2. ASSUME NEW n \in Nat, n \in T
        PROVE  n + 1 \in T
    <3>1. CASE n + 1 \in 1..c /\ n = 0
      BY <1>2, <1>7, <3>1
    <3>2. CASE n + 1 \in 1..c /\ n # 0
      <4>1. n \in 1..c /\ n + 1 # 1 /\ (n + 1) - 1 = n /\ n + 1 > 1
        BY <1>3, <3>2
      <4>2. h[n] = Spot(s, n)
        BY <2>2, <4>1
      <4>3. h[n + 1] = IF h[n] = None THEN None ELSE b.orders[h[n]].prev
        BY <1>7, <3>2, <4>1
      <4>4. Spot(s, n + 1) = IF Spot(s, n) = None THEN None ELSE b.orders[Spot(s, n)].prev
        BY <1>4, <4>1
      <4>5. QED
        BY <4>2, <4>3, <4>4
    <3>3. QED
      BY <3>1, <3>2
  <2>3. \A n \in Nat : n \in T
    <3> HIDE DEF T
    <3>1. QED
      BY <2>1, <2>2, SetInduction
  <2>4. QED
    BY <1>3, <2>3
<1>9. DOMAIN h = 1..c
  BY <1>7
<1>10. {n \in DOMAIN h : h[n] # None} = 1..Len(s)
  BY <1>2, <1>3, <1>8, <1>9 DEF Spot
<1>11. Cardinality({n \in DOMAIN h : h[n] # None}) = Len(s)
  <2>1. Len(s) \in Nat
    BY <1>2
  <2>2. Cardinality(1..Len(s)) = Len(s)
    BY ONLY <2>1, UpTo
  <2>3. QED
    BY ONLY Zenon, <2>2, <1>10
<1>12. Chain(b, action) = SubSeq(h, 1, Cardinality({n \in DOMAIN h : h[n] # None}))
  BY Zenon DEF Chain, h, IsChain
<1>13. SubSeq(h, 1, Len(s)) = s
  <2>1. SubSeq(h, 1, Len(s)) = [n \in 1..Len(s) |-> h[1 + n - 1]]
    BY <1>2
  <2>2. \A n \in 1..Len(s) : h[1 + n - 1] = s[n]
    BY <1>2, <1>3, <1>8 DEF Spot
  <2>3. s = [n \in 1..Len(s) |-> s[n]]
    BY DEF Linked
  <2>4. QED
    BY <2>1, <2>2, <2>3
<1>14. QED
  BY Zenon, <1>11, <1>12, <1>13

-----------------------------------------------------------------------------
(* Lists of slots as lists of orders *)

\* The words of the abstract book mean the same.
SameWords ==
  /\ P!Actions = Actions
  /\ \A action : P!Opposite(action) = Opposite(action)
  /\ \A o : P!Remaining(o) = Remaining(o)
  /\ \A action, p, q : P!Ahead(action, p, q) <=> Ahead(action, p, q)
  /\ \A taker, price : P!WithinLimit(taker, price) <=> WithinLimit(taker, price)
  /\ \A taker, maker, stp : P!Own(taker, maker, stp) <=> Own(taker, maker, stp)
  /\ \A taker, maker, size : P!Trade(taker, maker, size) = Trade(taker, maker, size)
  /\ \A size, hold : P!Reject(size, hold) = Reject(size, hold)
  /\ \A maker : P!RejectMaker(maker) = RejectMaker(maker)

LEMMA Translated ==
  SameWords
<1>1. P!Actions = Actions
  BY DEF P!Actions, Actions
<1>2. \A action : P!Opposite(action) = Opposite(action)
  BY DEF P!Opposite, Opposite
<1>3. \A o : P!Remaining(o) = Remaining(o)
  BY DEF P!Remaining, Remaining
<1>4. \A action, p, q : P!Ahead(action, p, q) <=> Ahead(action, p, q)
  BY Zenon DEF P!Ahead, Ahead
<1>5. \A taker, price : P!WithinLimit(taker, price) <=> WithinLimit(taker, price)
  BY Zenon DEF P!WithinLimit, WithinLimit
<1>6. \A taker, maker, stp : P!Own(taker, maker, stp) <=> Own(taker, maker, stp)
  BY DEF P!Own, Own
<1>7. \A taker, maker, size : P!Trade(taker, maker, size) = Trade(taker, maker, size)
  BY Zenon DEF P!Trade, Trade
<1>8. \A size, hold : P!Reject(size, hold) = Reject(size, hold)
  BY Zenon DEF P!Reject, Reject
<1>9. \A maker : P!RejectMaker(maker) = RejectMaker(maker)
  BY Zenon DEF P!RejectMaker, RejectMaker, P!Remaining, Remaining
<1>10. QED
  BY ONLY <1>1, <1>2, <1>3, <1>4, <1>5, <1>6, <1>7, <1>8, <1>9 DEF SameWords

PlainOf(p, o) ==
  /\ p \in P!OrdersOf(Users, OrderIds)
  /\ p.id = o.id /\ p.uid = o.uid /\ p.action = o.action /\ p.price = o.price
  /\ p.size = o.size /\ p.filled = o.filled /\ p.reserve = o.reserve
  /\ Remaining(p) = Remaining(o)

LEMMA PlainIs ==
  ASSUME NEW o \in SlotOrders
  PROVE  PlainOf(Plain(o), o)
<1>1. P!Actions = Actions
  BY Translated DEF SameWords
<1>2. QED
  BY <1>1 DEF PlainOf, Plain, SlotOrders, P!OrdersOf, Remaining

Plains(b, s) == [n \in 1..Len(s) |-> Plain(b.orders[s[n]])]

PlainList(b, s) ==
  /\ Plains(b, s) \in Seq(P!OrdersOf(Users, OrderIds))
  /\ Len(Plains(b, s)) = Len(s) /\ Len(s) \in Nat
  /\ \A n \in 1..Len(s) : /\ Plains(b, s)[n] = Plain(b.orders[s[n]])
                         /\ s[n] \in DOMAIN b.orders
                         /\ PlainOf(Plain(b.orders[s[n]]), b.orders[s[n]])

LEMMA PlainsAre ==
  ASSUME NEW b, Typed(b), NEW s \in Seq(DOMAIN b.orders)
  PROVE  PlainList(b, s)
<1>1. Len(s) \in Nat /\ \A n \in 1..Len(s) : s[n] \in DOMAIN b.orders
  OBVIOUS
<1>2. \A n \in 1..Len(s) : PlainOf(Plain(b.orders[s[n]]), b.orders[s[n]])
  BY <1>1, SlotTypes, PlainIs
<1>3. \A n \in 1..Len(s) : Plain(b.orders[s[n]]) \in P!OrdersOf(Users, OrderIds)
  BY <1>2 DEF PlainOf
<1>4. Plains(b, s) \in Seq(P!OrdersOf(Users, OrderIds)) /\ Len(Plains(b, s)) = Len(s)
  BY <1>1, <1>3 DEF Plains
<1>5. \A n \in 1..Len(s) : Plains(b, s)[n] = Plain(b.orders[s[n]])
  BY DEF Plains
<1>6. QED
  BY ONLY <1>1, <1>2, <1>4, <1>5 DEF PlainList

\* Different slots hold different orders.
LEMMA PlainsDiffer ==
  ASSUME NEW b, Typed(b), Indexed(b), NEW i \in DOMAIN b.orders, NEW j \in DOMAIN b.orders,
         Plain(b.orders[i]).id = Plain(b.orders[j]).id
  PROVE  i = j
<1>1. b.orders[i].id = b.orders[j].id
  BY DEF Plain
<1>2. QED
  BY <1>1 DEF Indexed

\* The n-th order of a list has left the list, the index and the slab.
Expelled(r, b, action, s, t, n, u) ==
  /\ Sound(r, action, u, t)
  /\ DOMAIN r.orders = DOMAIN b.orders \ {s[n]}
  /\ \A j \in DOMAIN r.orders : Plain(r.orders[j]) = Plain(b.orders[j])
  /\ r.best[action] = IF n = 1 THEN b.orders[s[n]].prev ELSE b.best[action]

LEMMA ExpelKeeps ==
  ASSUME NEW b, NEW action \in Actions, NEW s, NEW t, Sound(b, action, s, t),
         NEW n \in 1..Len(s), NEW u, Cut(u, s, n, DOMAIN b.orders)
  PROVE  Expelled(Free(RemoveOrder(b, s[n]), s[n]), b, action, s, t, n, u)
<1> DEFINE m == RemoveOrder(b, s[n])
           r == Free(m, s[n])
<1>1. TakenOut(m, b, action, t, u)
  BY RemoveKeeps
<1>2. ListOf(b, action, s)
  BY ListIs DEF Sound, SideSound
<1>3. /\ s[n] \in DOMAIN b.orders /\ Len(s) \in Nat /\ s[n] \in ToSet(s)
      /\ b.orders[s[n]].prev = Spot(s, n + 1)
      /\ b.best[action] = Spot(s, 1)
  BY ONLY <1>2, n \in 1..Len(s) DEF ListOf
<1>4. s[n] \notin ToSet(t)
  BY Zenon, Apart
<1>5. ToSet(u) = ToSet(s) \ {s[n]}
  BY DEF Cut, Shorter
<1> HIDE DEF m
<1>6. /\ Sound(m, action, u, t) /\ DOMAIN m.orders = DOMAIN b.orders
      /\ \A j \in DOMAIN b.orders : Plain(m.orders[j]) = Plain(b.orders[j])
  BY ONLY <1>1 DEF TakenOut
<1>7. Sound(r, action, u, t) /\ Freed(r, m, s[n])
  BY <1>3, <1>4, <1>5, <1>6, FreeKeeps
<1> HIDE DEF r
<1>8. /\ DOMAIN r.orders = DOMAIN m.orders \ {s[n]}
      /\ \A j \in DOMAIN m.orders : j # s[n] => r.orders[j] = m.orders[j]
  BY ONLY <1>7 DEF Freed
<1>9. r.best[action] = Spot(u, 1)
  BY ONLY <1>7 DEF Sound, SideSound, Linked
<1>10. Spot(u, 1) = IF n = 1 THEN Spot(s, 2) ELSE Spot(s, 1)
  <2>1. /\ \A k \in 0..Len(s) : k < n => Spot(u, k) = Spot(s, k)
        /\ \A k \in 0..Len(s) : k >= n => Spot(u, k) = Spot(s, k + 1)
    BY DEF Cut, Shorter
  <2>2. 1 \in 0..Len(s) /\ n \in Int
    BY <1>3
  <2>3. CASE n = 1
    BY <2>1, <2>2, <2>3
  <2>4. CASE n # 1
    BY <2>1, <2>2, <2>4
  <2>5. QED
    BY <2>3, <2>4
<1>11. r.best[action] = IF n = 1 THEN b.orders[s[n]].prev ELSE b.best[action]
  BY <1>3, <1>9, <1>10
<1>12. \A j \in DOMAIN r.orders : Plain(r.orders[j]) = Plain(b.orders[j])
  BY <1>6, <1>8
<1>13. Expelled(r, b, action, s, t, n, u)
  BY ONLY <1>6, <1>7, <1>8, <1>11, <1>12 DEF Expelled
<1>14. QED
  BY <1>13 DEF r, m

-----------------------------------------------------------------------------
(* The walk of try_match, visit by visit *)

Run(b, events, filled, aborted, newBest, intact, stopped) ==
  [b |-> b, events |-> events, filled |-> filled, aborted |-> aborted,
   newBest |-> newBest, intact |-> intact, stopped |-> stopped]

IsRun(s) ==
  s = Run(s.b, s.events, s.filled, s.aborted, s.newBest, s.intact, s.stopped)

LEMMA RunFields ==
  ASSUME NEW b, NEW events, NEW filled, NEW aborted, NEW newBest, NEW intact, NEW stopped
  PROVE  LET s == Run(b, events, filled, aborted, newBest, intact, stopped)
         IN  /\ s.b = b /\ s.events = events /\ s.filled = filled /\ s.aborted = aborted
             /\ s.newBest = newBest /\ s.intact = intact /\ s.stopped = stopped
             /\ IsRun(s)
  BY DEF Run, IsRun

\* The fields of a run that is changed in some of them.
SetStopped(s, x) ==
  [s EXCEPT !.stopped = x]
SetIntact(s, x) ==
  [s EXCEPT !.intact = x]
SetNewBest(s, x) ==
  [s EXCEPT !.newBest = x]
SetAborted(s, x, y) ==
  [s EXCEPT !.aborted = x, !.stopped = y]
SetRunBook(s, b) ==
  [s EXCEPT !.b = b]
SetBookEvents(s, b, e) ==
  [s EXCEPT !.b = b, !.events = e]

SetsRun(s) ==
  /\ \A x : SetStopped(s, x)
       = Run(s.b, s.events, s.filled, s.aborted, s.newBest, s.intact, x)
  /\ \A x : SetIntact(s, x)
       = Run(s.b, s.events, s.filled, s.aborted, s.newBest, x, s.stopped)
  /\ \A x : SetNewBest(s, x)
       = Run(s.b, s.events, s.filled, s.aborted, x, s.intact, s.stopped)
  /\ \A x, y : SetAborted(s, x, y)
       = Run(s.b, s.events, s.filled, x, s.newBest, s.intact, y)
  /\ \A b : SetRunBook(s, b)
       = Run(b, s.events, s.filled, s.aborted, s.newBest, s.intact, s.stopped)
  /\ \A b, e : SetBookEvents(s, b, e)
       = Run(b, e, s.filled, s.aborted, s.newBest, s.intact, s.stopped)

LEMMA RunChanged ==
  ASSUME NEW s, IsRun(s)
  PROVE  SetsRun(s)
<1>1. ASSUME NEW x
      PROVE  SetStopped(s, x)
               = Run(s.b, s.events, s.filled, s.aborted, s.newBest, s.intact, x)
  BY DEF IsRun, Run, SetStopped
<1>2. ASSUME NEW x
      PROVE  SetIntact(s, x)
               = Run(s.b, s.events, s.filled, s.aborted, s.newBest, x, s.stopped)
  BY DEF IsRun, Run, SetIntact
<1>3. ASSUME NEW x
      PROVE  SetNewBest(s, x)
               = Run(s.b, s.events, s.filled, s.aborted, x, s.intact, s.stopped)
  BY DEF IsRun, Run, SetNewBest
<1>4. ASSUME NEW x, NEW y
      PROVE  SetAborted(s, x, y)
               = Run(s.b, s.events, s.filled, x, s.newBest, s.intact, y)
  <2> DEFINE s1 == [s EXCEPT !.aborted = x]
             s2 == [s1 EXCEPT !.stopped = y]
  <2>1. SetAborted(s, x, y) = s2
    BY DEF SetAborted
  <2>2. s1 = Run(s.b, s.events, s.filled, x, s.newBest, s.intact, s.stopped)
    BY DEF IsRun, Run
  <2> HIDE DEF s1
  <2>3. s2 = Run(s.b, s.events, s.filled, x, s.newBest, s.intact, y)
    BY ONLY <2>2 DEF Run
  <2>4. QED
    BY <2>1, <2>3
<1>5. ASSUME NEW b
      PROVE  SetRunBook(s, b)
               = Run(b, s.events, s.filled, s.aborted, s.newBest, s.intact, s.stopped)
  BY DEF IsRun, Run, SetRunBook
<1>6. ASSUME NEW b, NEW e
      PROVE  SetBookEvents(s, b, e)
               = Run(b, e, s.filled, s.aborted, s.newBest, s.intact, s.stopped)
  <2> DEFINE s1 == [s EXCEPT !.b = b]
             s2 == [s1 EXCEPT !.events = e]
  <2>1. SetBookEvents(s, b, e) = s2
    BY DEF SetBookEvents
  <2>2. s1 = Run(b, s.events, s.filled, s.aborted, s.newBest, s.intact, s.stopped)
    BY DEF IsRun, Run
  <2> HIDE DEF s1
  <2>3. s2 = Run(b, e, s.filled, s.aborted, s.newBest, s.intact, s.stopped)
    BY ONLY <2>2 DEF Run
  <2>4. QED
    BY <2>1, <2>3
<1>7. QED
  BY ONLY <1>1, <1>2, <1>3, <1>4, <1>5, <1>6 DEF SetsRun

SetTraded(s, b, f, e) ==
  [s EXCEPT !.b = b, !.filled = f, !.events = e]

LEMMA RunTraded ==
  ASSUME NEW s, IsRun(s), NEW b, NEW f, NEW e
  PROVE  SetTraded(s, b, f, e)
           = Run(b, e, f, s.aborted, s.newBest, s.intact, s.stopped)
<1> DEFINE s1 == [s EXCEPT !.b = b]
           s2 == [s1 EXCEPT !.filled = f]
           s3 == [s2 EXCEPT !.events = e]
<1>1. SetTraded(s, b, f, e) = s3
  BY DEF SetTraded
<1>2. s1 = Run(b, s.events, s.filled, s.aborted, s.newBest, s.intact, s.stopped)
  BY DEF IsRun, Run
<1> HIDE DEF s1
<1>3. s2 = Run(b, s.events, f, s.aborted, s.newBest, s.intact, s.stopped)
  BY ONLY <1>2 DEF Run
<1> HIDE DEF s2
<1>4. s3 = Run(b, e, f, s.aborted, s.newBest, s.intact, s.stopped)
  BY ONLY <1>3 DEF Run
<1>5. QED
  BY <1>1, <1>4

\* A trade with the order in slot i, as it changes the slot and its bucket; and the
\* reduction of that order.
Grown(o, size) ==
  [o EXCEPT !.filled = @ + size]
Shrunk(o, by) ==
  [o EXCEPT !.size = @ - by]

WithLess(b, i, o, by) ==
  Book([j \in DOMAIN b.orders |-> IF j = i THEN o ELSE b.orders[j]],
       [k \in DOMAIN b.buckets |-> IF k = b.orders[i].parent
                                   THEN Drained(b.buckets[k], by) ELSE b.buckets[k]],
       b.index, b.levels, b.best)

LEMMA WithLessIs ==
  ASSUME NEW b, Typed(b), NEW i, NEW by
  PROVE  /\ Fill(b, i, by) = WithLess(b, i, Grown(b.orders[i], by), by)
         /\ Shrink(b, i, by) = WithLess(b, i, Shrunk(b.orders[i], by), by)
<1> DEFINE k == b.orders[i].parent
           Drain(bucket) == [bucket EXCEPT !.volume = @ - by]
           O(o) == [b.orders EXCEPT ![i] = o]
           K == [b.buckets EXCEPT ![k] = Drain(b.buckets[k])]
<1>1. \A o : O(o) = [j \in DOMAIN b.orders |-> IF j = i THEN o ELSE b.orders[j]]
  OBVIOUS
<1>2. K = [x \in DOMAIN b.buckets |-> IF x = k THEN Drained(b.buckets[x], by)
                                      ELSE b.buckets[x]]
  <2>1. \A x \in DOMAIN b.buckets : Drain(b.buckets[x]) = Drained(b.buckets[x], by)
    BY DEF Drained, SlabBuckets, Typed
  <2> HIDE DEF Drain, k
  <2>2. K = [x \in DOMAIN b.buckets |-> IF x = k THEN Drain(b.buckets[k]) ELSE b.buckets[x]]
    OBVIOUS
  <2>3. QED
    BY <2>1, <2>2
<1>3. ASSUME NEW o
      PROVE  SetOrdersBuckets(b, O(o), K) = WithLess(b, i, o, by)
  <2>1. SetOrdersBuckets(b, O(o), K) = Book(O(o), K, b.index, b.levels, b.best)
    <3> HIDE DEF K, O
    <3>1. QED
      BY FieldsChanged DEF Typed
  <2>2. QED
    <3> HIDE DEF K, O
    <3>1. QED
      BY <1>1, <1>2, <2>1 DEF WithLess, k
<1>4. Fill(b, i, by) = SetOrdersBuckets(b, O(Grown(b.orders[i], by)), K)
  BY Zenon DEF Fill, SetOrdersBuckets, Grown
<1>5. Shrink(b, i, by) = SetOrdersBuckets(b, O(Shrunk(b.orders[i], by)), K)
  BY Zenon DEF Shrink, SetOrdersBuckets, Shrunk
<1>6. QED
  BY <1>3, <1>4, <1>5

\* The fields of a run.
RunHas(s, b, events, filled, aborted, newBest, intact, stopped) ==
  /\ s.b = b /\ s.events = events /\ s.filled = filled /\ s.aborted = aborted
  /\ s.newBest = newBest /\ s.intact = intact /\ s.stopped = stopped
  /\ IsRun(s)

LEMMA RunOf ==
  ASSUME NEW s, NEW b, NEW events, NEW filled, NEW aborted, NEW newBest, NEW intact,
         NEW stopped, s = Run(b, events, filled, aborted, newBest, intact, stopped)
  PROVE  RunHas(s, b, events, filled, aborted, newBest, intact, stopped)
  BY DEF RunHas, Run, IsRun

\* The next order is met.
Meets(s, i, taker) ==
  ~s.stopped /\ s.filled # taker.size /\ WithinLimit(taker, s.b.orders[i].price)

\* One visit, case by case.
Visited(v, s, i, taker, stp) ==
  LET o == s.b.orders[i]
      left == taker.size - s.filled
      own == Own(taker, o, stp)
      r == Remaining(o)
      best == IF s.intact THEN o.prev ELSE s.newBest
  IN
  /\ ~Meets(s, i, taker) =>
       v = Run(s.b, s.events, s.filled, s.aborted, s.newBest, s.intact, TRUE)
  /\ Meets(s, i, taker) /\ own /\ stp = "Skip" =>
       v = Run(s.b, s.events, s.filled, s.aborted, s.newBest, FALSE, s.stopped)
  /\ Meets(s, i, taker) /\ own /\ stp = "CancelTaker" =>
       v = Run(s.b, s.events, s.filled, TRUE, s.newBest, FALSE, TRUE)
  /\ Meets(s, i, taker) /\ own /\ stp = "CancelMaker" =>
       v = Run(Free(RemoveOrder(s.b, i), i), Append(s.events, RejectMaker(o)), s.filled,
               s.aborted, best, s.intact, s.stopped)
  /\ Meets(s, i, taker) /\ own /\ stp = "CancelBoth" =>
       v = Run(Free(RemoveOrder(s.b, i), i), Append(s.events, RejectMaker(o)), s.filled,
               TRUE, best, s.intact, TRUE)
  /\ Meets(s, i, taker) /\ ~own /\ left < r =>
       v = Run(Fill(s.b, i, left), Append(s.events, Trade(taker, o, left)),
               s.filled + left, s.aborted, s.newBest, s.intact, TRUE)
  /\ Meets(s, i, taker) /\ ~own /\ ~(left < r) =>
       v = Run(Free(RemoveOrder(Fill(s.b, i, r), i), i),
               Append(s.events, Trade(taker, o, r)), s.filled + r, s.aborted, best,
               s.intact, s.stopped)

LEMMA AdvanceIs ==
  ASSUME NEW s, IsRun(s), NEW prev
  PROVE  Advance(s, prev)
           = Run(s.b, s.events, s.filled, s.aborted, IF s.intact THEN prev ELSE s.newBest,
                 s.intact, s.stopped)
<1>1. Advance(s, prev) = IF s.intact THEN SetNewBest(s, prev) ELSE s
  BY Zenon DEF Advance, SetNewBest
<1>2. SetNewBest(s, prev)
        = Run(s.b, s.events, s.filled, s.aborted, prev, s.intact, s.stopped)
  BY RunChanged, Zenon DEF SetsRun
<1>3. s = Run(s.b, s.events, s.filled, s.aborted, s.newBest, s.intact, s.stopped)
  BY DEF IsRun
<1>4. QED
  BY ONLY <1>1, <1>2, <1>3, Zenon

LEMMA VisitIs ==
  ASSUME NEW s, IsRun(s), NEW i, NEW taker, NEW stp, Remaining(s.b.orders[i]) \in Int
  PROVE  Visited(Visit(s, i, taker, stp), s, i, taker, stp)
<1> DEFINE o == s.b.orders[i]
           left == taker.size - s.filled
           own == Own(taker, o, stp)
           rem == Remaining(o)
           best == IF s.intact THEN o.prev ELSE s.newBest
           v == Visit(s, i, taker, stp)
           cut == SetBookEvents(s, Free(RemoveOrder(s.b, i), i), Append(s.events, RejectMaker(o)))
           size == IF left < rem THEN left ELSE rem
           traded == SetTraded(s, Fill(s.b, i, size), s.filled + size,
                               Append(s.events, Trade(taker, o, size)))
<1>0. SetsRun(s)
  BY RunChanged
<1>1. ~Meets(s, i, taker) => v = SetStopped(s, TRUE)
  BY Zenon DEF Visit, Meets, SetStopped
<1>2. Meets(s, i, taker) /\ own => v = MeetOwn(s, i, stp)
  BY Zenon DEF Visit, Meets
<1>3. Meets(s, i, taker) /\ ~own => v = TradeWith(s, i, taker)
  BY Zenon DEF Visit, Meets
<1>4. MeetOwn(s, i, stp)
        = LET met == IF stp \in {"CancelMaker", "CancelBoth"} THEN Advance(cut, o.prev)
                     ELSE SetIntact(s, FALSE)
          IN  IF stp \in {"CancelTaker", "CancelBoth"} THEN SetAborted(met, TRUE, TRUE)
              ELSE met
  BY Zenon DEF MeetOwn, SetBookEvents, SetIntact, SetAborted
<1>5. TradeWith(s, i, taker)
        = IF size < rem THEN SetStopped(traded, TRUE)
          ELSE Advance(SetRunBook(traded, Free(RemoveOrder(traded.b, i), i)), o.prev)
  BY Zenon DEF TradeWith, SetTraded, SetStopped, SetRunBook
<1>6. cut = Run(Free(RemoveOrder(s.b, i), i), Append(s.events, RejectMaker(o)), s.filled,
                s.aborted, s.newBest, s.intact, s.stopped)
  BY <1>0, Zenon DEF SetsRun
<1>7. traded = Run(Fill(s.b, i, size), Append(s.events, Trade(taker, o, size)),
                   s.filled + size, s.aborted, s.newBest, s.intact, s.stopped)
  BY RunTraded, Zenon
<1> HIDE DEF cut, traded, v
<1>8. Advance(cut, o.prev)
        = Run(Free(RemoveOrder(s.b, i), i), Append(s.events, RejectMaker(o)), s.filled,
              s.aborted, best, s.intact, s.stopped)
  <2>1. /\ cut.b = Free(RemoveOrder(s.b, i), i)
        /\ cut.events = Append(s.events, RejectMaker(o)) /\ cut.filled = s.filled
        /\ cut.aborted = s.aborted /\ cut.newBest = s.newBest /\ cut.intact = s.intact
        /\ cut.stopped = s.stopped /\ IsRun(cut)
    <3>1. RunHas(cut, Free(RemoveOrder(s.b, i), i), Append(s.events, RejectMaker(o)),
                 s.filled, s.aborted, s.newBest, s.intact, s.stopped)
      BY ONLY <1>6, RunOf
    <3>2. QED
      BY ONLY <3>1 DEF RunHas
  <2>2. Advance(cut, o.prev)
          = Run(cut.b, cut.events, cut.filled, cut.aborted,
                IF cut.intact THEN o.prev ELSE cut.newBest, cut.intact, cut.stopped)
    BY <2>1, AdvanceIs, Zenon
  <2>3. QED
    BY ONLY <2>1, <2>2, Zenon
<1>9. ASSUME Meets(s, i, taker), own
      PROVE  /\ stp = "Skip" =>
                  v = Run(s.b, s.events, s.filled, s.aborted, s.newBest, FALSE, s.stopped)
             /\ stp = "CancelTaker" =>
                  v = Run(s.b, s.events, s.filled, TRUE, s.newBest, FALSE, TRUE)
             /\ stp = "CancelMaker" =>
                  v = Run(Free(RemoveOrder(s.b, i), i), Append(s.events, RejectMaker(o)),
                          s.filled, s.aborted, best, s.intact, s.stopped)
             /\ stp = "CancelBoth" =>
                  v = Run(Free(RemoveOrder(s.b, i), i), Append(s.events, RejectMaker(o)),
                          s.filled, TRUE, best, s.intact, TRUE)
  <2> DEFINE kept == SetIntact(s, FALSE)
             gone == Advance(cut, o.prev)
  <2>1. kept = Run(s.b, s.events, s.filled, s.aborted, s.newBest, FALSE, s.stopped)
    BY <1>0, Zenon DEF SetsRun
  <2>2. SetAborted(kept, TRUE, TRUE)
          = Run(s.b, s.events, s.filled, TRUE, s.newBest, FALSE, TRUE)
    <3> HIDE DEF kept
    <3>1. /\ kept.b = s.b /\ kept.events = s.events /\ kept.filled = s.filled
          /\ kept.newBest = s.newBest /\ kept.intact = FALSE /\ IsRun(kept)
      <4>1. RunHas(kept, s.b, s.events, s.filled, s.aborted, s.newBest, FALSE, s.stopped)
        BY ONLY Zenon, <2>1, RunOf
      <4>2. QED
        BY ONLY <4>1 DEF RunHas
    <3>2. SetAborted(kept, TRUE, TRUE)
            = Run(kept.b, kept.events, kept.filled, TRUE, kept.newBest, kept.intact, TRUE)
      <4>1. SetsRun(kept)
        BY <3>1, RunChanged
      <4>2. QED
        BY ONLY Zenon, <4>1 DEF SetsRun
    <3>3. QED
      BY ONLY <3>1, <3>2, Zenon
  <2>3. SetAborted(gone, TRUE, TRUE)
          = Run(Free(RemoveOrder(s.b, i), i), Append(s.events, RejectMaker(o)),
                s.filled, TRUE, best, s.intact, TRUE)
    <3> HIDE DEF gone
    <3>1. /\ gone.b = Free(RemoveOrder(s.b, i), i)
          /\ gone.events = Append(s.events, RejectMaker(o)) /\ gone.filled = s.filled
          /\ gone.newBest = best /\ gone.intact = s.intact /\ IsRun(gone)
      <4>1. gone = Run(Free(RemoveOrder(s.b, i), i), Append(s.events, RejectMaker(o)), s.filled,
                       s.aborted, best, s.intact, s.stopped)
        BY <1>8 DEF gone
      <4>2. QED
        <5>1. RunHas(gone, Free(RemoveOrder(s.b, i), i), Append(s.events, RejectMaker(o)),
                     s.filled, s.aborted, best, s.intact, s.stopped)
          BY ONLY <4>1, RunOf
        <5>2. QED
          BY ONLY <5>1 DEF RunHas
    <3>2. SetAborted(gone, TRUE, TRUE)
            = Run(gone.b, gone.events, gone.filled, TRUE, gone.newBest, gone.intact, TRUE)
      <4>1. SetsRun(gone)
        BY <3>1, RunChanged
      <4>2. QED
        BY ONLY Zenon, <4>1 DEF SetsRun
    <3>3. QED
      BY ONLY <3>1, <3>2, Zenon
  <2> HIDE DEF kept
  <2>4. v = LET met == IF stp \in {"CancelMaker", "CancelBoth"} THEN gone ELSE kept
            IN  IF stp \in {"CancelTaker", "CancelBoth"} THEN SetAborted(met, TRUE, TRUE)
                ELSE met
    BY <1>2, <1>4, <1>9, Zenon DEF kept
  <2> HIDE DEF gone
  <2>5. /\ stp = "Skip" => v = kept
        /\ stp = "CancelTaker" => v = SetAborted(kept, TRUE, TRUE)
        /\ stp = "CancelMaker" => v = gone
        /\ stp = "CancelBoth" => v = SetAborted(gone, TRUE, TRUE)
    BY ONLY Zenon, <2>4
  <2>6. gone = Run(Free(RemoveOrder(s.b, i), i), Append(s.events, RejectMaker(o)),
                   s.filled, s.aborted, best, s.intact, s.stopped)
    BY <1>8 DEF gone
  <2>7. QED
    BY ONLY <2>1, <2>2, <2>3, <2>5, <2>6, Zenon
<1>10. /\ traded.b = Fill(s.b, i, size)
       /\ traded.events = Append(s.events, Trade(taker, o, size))
       /\ traded.filled = s.filled + size
       /\ traded.aborted = s.aborted /\ traded.newBest = s.newBest
       /\ traded.intact = s.intact /\ traded.stopped = s.stopped /\ IsRun(traded)
  <2>1. RunHas(traded, Fill(s.b, i, size), Append(s.events, Trade(taker, o, size)),
               s.filled + size, s.aborted, s.newBest, s.intact, s.stopped)
    BY ONLY <1>7, RunOf
  <2> HIDE DEF size
  <2>2. QED
    BY ONLY <2>1 DEF RunHas
<1>11. SetsRun(traded)
  BY <1>10, RunChanged
<1>12. ASSUME Meets(s, i, taker), ~own, left < rem
       PROVE  v = Run(Fill(s.b, i, left), Append(s.events, Trade(taker, o, left)),
                      s.filled + left, s.aborted, s.newBest, s.intact, TRUE)
  <2>1. size = left
    BY <1>12
  <2>2. v = SetStopped(traded, TRUE)
    <3>1. size < rem
      BY <1>12
    <3>2. QED
      BY <1>3, <1>5, <1>12, <3>1, Zenon
  <2>3. SetStopped(traded, TRUE)
          = Run(traded.b, traded.events, traded.filled, traded.aborted, traded.newBest,
                traded.intact, TRUE)
    BY <1>11, Zenon DEF SetsRun
  <2> HIDE DEF size
  <2>4. QED
    BY ONLY <2>1, <2>2, <2>3, <1>10, Zenon
<1>13. ASSUME Meets(s, i, taker), ~own, ~(left < rem)
       PROVE  v = Run(Free(RemoveOrder(Fill(s.b, i, rem), i), i),
                      Append(s.events, Trade(taker, o, rem)), s.filled + rem, s.aborted, best,
                      s.intact, s.stopped)
  <2>1. size = rem
    BY <1>13
  <2> DEFINE out == SetRunBook(traded, Free(RemoveOrder(traded.b, i), i))
  <2>2. v = Advance(out, o.prev)
    <3>1. ~(rem < rem)
      <4>1. size = rem /\ ~(left < rem)
        BY <1>13, <2>1
      <4>2. QED
        BY DEF Remaining
    <3>2. QED
      BY <1>3, <1>5, <1>13, <2>1, <3>1, Zenon
  <2>3. out = Run(Free(RemoveOrder(traded.b, i), i), traded.events, traded.filled,
                  traded.aborted, traded.newBest, traded.intact, traded.stopped)
    BY <1>11, Zenon DEF SetsRun
  <2> HIDE DEF out, size
  <2>4. /\ out.b = Free(RemoveOrder(traded.b, i), i) /\ out.events = traded.events
        /\ out.filled = traded.filled /\ out.aborted = traded.aborted
        /\ out.newBest = traded.newBest /\ out.intact = traded.intact
        /\ out.stopped = traded.stopped /\ IsRun(out)
    <3>1. RunHas(out, Free(RemoveOrder(traded.b, i), i), traded.events, traded.filled,
                 traded.aborted, traded.newBest, traded.intact, traded.stopped)
      BY ONLY <2>3, RunOf
    <3>2. QED
      BY ONLY <3>1 DEF RunHas
  <2>5. Advance(out, o.prev)
          = Run(out.b, out.events, out.filled, out.aborted,
                IF out.intact THEN o.prev ELSE out.newBest, out.intact, out.stopped)
    BY <2>4, AdvanceIs, Zenon
  <2>6. QED
    BY ONLY <2>1, <2>2, <2>4, <2>5, <1>10, Zenon
<1>14. ~Meets(s, i, taker) =>
         v = Run(s.b, s.events, s.filled, s.aborted, s.newBest, s.intact, TRUE)
  BY <1>0, <1>1, Zenon DEF SetsRun
<1>15. Visited(v, s, i, taker, stp)
  BY ONLY <1>9, <1>12, <1>13, <1>14, Zenon DEF Visited
<1>16. QED
  BY <1>15 DEF v

\* The same of the abstract walk: k is what it comes to from the next order on.
ReadAs(v, side, events, filled, aborted) ==
  v.side = side /\ v.events = events /\ v.filled = filled /\ v.aborted = aborted

Goes(S, taker, i, left) ==
  i <= Len(S) /\ left > 0 /\ WithinLimit(taker, S[i].price)

Reads(v, S, taker, stp, i, left, d) ==
  LET maker == S[i]
      own == Own(taker, maker, stp)
      r == Remaining(maker)
  IN
  /\ ~Goes(S, taker, i, left) =>
       ReadAs(v, P!From(S, i), <<>>, taker.size - left, FALSE)
  /\ Goes(S, taker, i, left) /\ own /\ stp = "Skip" =>
       LET k == d[left] IN ReadAs(v, <<maker>> \o k.side, k.events, k.filled, k.aborted)
  /\ Goes(S, taker, i, left) /\ own /\ stp = "CancelTaker" =>
       ReadAs(v, P!From(S, i), <<>>, taker.size - left, TRUE)
  /\ Goes(S, taker, i, left) /\ own /\ stp = "CancelMaker" =>
       LET k == d[left]
       IN  ReadAs(v, k.side, <<RejectMaker(maker)>> \o k.events, k.filled, k.aborted)
  /\ Goes(S, taker, i, left) /\ own /\ stp = "CancelBoth" =>
       ReadAs(v, P!From(S, i + 1), <<RejectMaker(maker)>>, taker.size - left, TRUE)
  /\ Goes(S, taker, i, left) /\ ~own /\ left < r =>
       ReadAs(v, <<Grown(maker, left)>> \o P!From(S, i + 1), <<Trade(taker, maker, left)>>,
              taker.size - 0, FALSE)
  /\ Goes(S, taker, i, left) /\ ~own /\ ~(left < r) =>
       LET k == d[left - r]
       IN  ReadAs(v, k.side, <<Trade(taker, maker, r)>> \o k.events, k.filled, k.aborted)

LEMMA StopReads ==
  ASSUME NEW taker, NEW left, NEW kept, NEW events, NEW aborted
  PROVE  ReadAs(P!Stop(taker, left, kept, events, aborted), kept, events, taker.size - left,
                aborted)
  BY DEF P!Stop, ReadAs

LEMMA KeepReads ==
  ASSUME NEW k, P!IsResult(k), NEW maker
  PROVE  ReadAs(P!Keep(maker, k), <<maker>> \o k.side, k.events, k.filled, k.aborted)
<1> DEFINE side == <<maker>> \o k.side
<1>1. P!Keep(maker, k) = [k EXCEPT !.side = side]
  BY DEF P!Keep
<1> HIDE DEF side
<1>2. ReadAs([k EXCEPT !.side = side], side, k.events, k.filled, k.aborted)
  BY DEF ReadAs, P!IsResult
<1>3. QED
  BY ONLY <1>1, <1>2 DEF side

LEMMA EmitReads ==
  ASSUME NEW k, P!IsResult(k), NEW e
  PROVE  ReadAs(P!Emit(e, k), k.side, <<e>> \o k.events, k.filled, k.aborted)
<1> DEFINE events == <<e>> \o k.events
<1>1. P!Emit(e, k) = [k EXCEPT !.events = events]
  BY DEF P!Emit
<1> HIDE DEF events
<1>2. ReadAs([k EXCEPT !.events = events], k.side, events, k.filled, k.aborted)
  BY DEF ReadAs, P!IsResult
<1>3. QED
  BY ONLY <1>1, <1>2 DEF events

LEMMA VisitReads ==
  ASSUME NEW S, NEW taker, NEW stp, P!Setting(S, taker, stp, Users, OrderIds),
         NEW i \in 1..Len(S) + 1, NEW left \in 0..taker.size, NEW d,
         i <= Len(S) => \A l \in 0..taker.size : P!IsResult(d[l])
  PROVE  Reads(P!Visit(S, taker, stp, i, left, d), S, taker, stp, i, left, d)
<1> DEFINE maker == S[i]
           own == Own(taker, maker, stp)
           r == Remaining(maker)
           v == P!Visit(S, taker, stp, i, left, d)
           goes == Goes(S, taker, i, left)
<1>0. SameWords
  BY Translated
<1>1. /\ Len(S) \in Nat /\ taker.size \in Nat
      /\ i <= Len(S) => r \in Nat \ {0}
  <2>1. \A j \in 1..Len(S) : P!Remaining(S[j]) \in Nat \ {0}
    BY P!Makers
  <2>2. Len(S) \in Nat /\ taker.size \in Nat
    BY P!Makers
  <2>3. QED
    BY <1>0, <2>1, <2>2 DEF SameWords
<1>2. goes <=> i <= Len(S) /\ left # 0 /\ P!WithinLimit(taker, maker.price)
  BY <1>0, <1>1 DEF SameWords, Goes
<1>3. ~(i <= Len(S)) <=> i > Len(S)
  BY <1>1
<1>4. own <=> P!Own(taker, maker, stp)
  BY <1>0 DEF SameWords
<1>5. r = P!Remaining(maker)
  BY <1>0 DEF SameWords
<1>6. /\ P!RejectMaker(maker) = RejectMaker(maker)
      /\ \A size : P!Trade(taker, maker, size) = Trade(taker, maker, size)
  BY <1>0 DEF SameWords
<1> HIDE DEF own, goes, r
<1>7. ~goes => v = P!Stop(taker, left, P!From(S, i), <<>>, FALSE)
  BY <1>2, <1>3, Zenon DEF P!Visit
<1>8. goes /\ own /\ stp = "Skip" => v = P!Keep(maker, d[left])
  BY Zenon, <1>2, <1>3, <1>4 DEF P!Visit
<1>9. goes /\ own /\ stp = "CancelTaker" => v = P!Stop(taker, left, P!From(S, i), <<>>, TRUE)
  BY Zenon, <1>2, <1>3, <1>4 DEF P!Visit
<1>10. goes /\ own /\ stp = "CancelMaker" => v = P!Emit(RejectMaker(maker), d[left])
  BY Zenon, <1>2, <1>3, <1>4, <1>6 DEF P!Visit
<1>11. goes /\ own /\ stp = "CancelBoth" =>
         v = P!Stop(taker, left, P!From(S, i + 1), <<RejectMaker(maker)>>, TRUE)
  BY Zenon, <1>2, <1>3, <1>4, <1>6 DEF P!Visit
<1>12. goes /\ ~own /\ left < r =>
         v = P!Stop(taker, 0, <<Grown(maker, left)>> \o P!From(S, i + 1),
                    <<Trade(taker, maker, left)>>, FALSE)
  BY <1>2, <1>3, <1>4, <1>5, <1>6, Zenon DEF P!Visit, Grown
<1>13. goes /\ ~own /\ ~(left < r) => v = P!Emit(Trade(taker, maker, r), d[left - r])
  BY <1>2, <1>3, <1>4, <1>5, <1>6, Zenon DEF P!Visit
<1>14. goes => P!IsResult(d[left])
  BY <1>1, <1>2
<1>15. goes /\ ~(left < r) => P!IsResult(d[left - r])
  BY <1>1, <1>2
<1> HIDE DEF v
<1>16. ~goes => ReadAs(v, P!From(S, i), <<>>, taker.size - left, FALSE)
  BY Zenon, <1>7, StopReads
<1>17. goes /\ own /\ stp = "Skip" =>
         LET k == d[left] IN ReadAs(v, <<maker>> \o k.side, k.events, k.filled, k.aborted)
  BY <1>8, <1>14, KeepReads
<1>18. goes /\ own /\ stp = "CancelTaker" =>
         ReadAs(v, P!From(S, i), <<>>, taker.size - left, TRUE)
  BY Zenon, <1>9, StopReads
<1>19. goes /\ own /\ stp = "CancelMaker" =>
         LET k == d[left]
         IN  ReadAs(v, k.side, <<RejectMaker(maker)>> \o k.events, k.filled, k.aborted)
  BY <1>10, <1>14, EmitReads
<1>20. goes /\ own /\ stp = "CancelBoth" =>
         ReadAs(v, P!From(S, i + 1), <<RejectMaker(maker)>>, taker.size - left, TRUE)
  BY Zenon, <1>11, StopReads
<1>21. goes /\ ~own /\ left < r =>
         ReadAs(v, <<Grown(maker, left)>> \o P!From(S, i + 1), <<Trade(taker, maker, left)>>,
                taker.size - 0, FALSE)
  BY Zenon, <1>12, StopReads
<1>22. goes /\ ~own /\ ~(left < r) =>
         LET k == d[left - r]
         IN  ReadAs(v, k.side, <<Trade(taker, maker, r)>> \o k.events, k.filled, k.aborted)
  BY <1>13, <1>15, EmitReads
<1>23. Reads(v, S, taker, stp, i, left, d)
  BY ONLY <1>16, <1>17, <1>18, <1>19, <1>20, <1>21, <1>22, Zenon
  DEF Reads, goes, own, r
<1>24. QED
  BY <1>23 DEF v

\* The first q elements of a sequence.
Before(z, q) == [m \in 1..q |-> z[m]]

LEMMA BeforeIs ==
  ASSUME NEW S, NEW z \in Seq(S), NEW q \in 0..Len(z)
  PROVE  /\ Before(z, q) \in Seq(S) /\ Len(Before(z, q)) = q
         /\ \A m \in 1..q : Before(z, q)[m] = z[m]
  BY DEF Before

LEMMA BeforeGrows ==
  ASSUME NEW S, NEW z \in Seq(S), NEW q \in 0..Len(z), q + 1 \in 1..Len(z)
  PROVE  Before(z, q + 1) = Before(z, q) \o <<z[q + 1]>>
<1>1. /\ Before(z, q) \in Seq(S) /\ Len(Before(z, q)) = q
      /\ \A m \in 1..q : Before(z, q)[m] = z[m]
  BY BeforeIs
<1>2. /\ Before(z, q + 1) \in Seq(S) /\ Len(Before(z, q + 1)) = q + 1
      /\ \A m \in 1..q + 1 : Before(z, q + 1)[m] = z[m]
  <2>1. q + 1 \in 0..Len(z)
    OBVIOUS
  <2>2. QED
    BY <2>1, BeforeIs
<1> DEFINE x == Before(z, q)
           y == Before(z, q + 1)
           e == z[q + 1]
<1>3. x \in Seq(S) /\ e \in S /\ <<e>> \in Seq(S) /\ Len(<<e>>) = 1 /\ <<e>>[1] = e
  BY <1>1
<1> HIDE DEF x, y, e
<1>4. /\ x \o <<e>> \in Seq(S) /\ Len(x \o <<e>>) = Len(x) + Len(<<e>>)
      /\ \A m \in 1..Len(x) + Len(<<e>>) :
           (x \o <<e>>)[m] = IF m <= Len(x) THEN x[m] ELSE <<e>>[m - Len(x)]
  BY <1>3, ConcatProperties
<1>5. y \in Seq(S) /\ Len(y) = Len(x \o <<e>>)
  BY <1>1, <1>2, <1>3, <1>4 DEF x, y
<1>6. \A m \in 1..Len(y) : y[m] = (x \o <<e>>)[m]
  <2> SUFFICES ASSUME NEW m \in 1..Len(y)
               PROVE  y[m] = (x \o <<e>>)[m]
    OBVIOUS
  <2>1. Len(x) = q /\ Len(y) = q + 1 /\ y[m] = z[m]
    BY <1>1, <1>2 DEF x, y
  <2>2. CASE m <= q
    <3>1. x[m] = z[m]
      BY <1>1, <2>2, <2>1 DEF x
    <3>2. QED
      BY <1>3, <1>4, <2>1, <2>2, <3>1
  <2>3. CASE m = q + 1
    BY <1>3, <1>4, <2>1, <2>3 DEF e
  <2>4. QED
    BY <2>1, <2>2, <2>3
<1>7. x \o <<e>> = y
  BY <1>4, <1>5, <1>6, SeqEqual
<1>8. QED
  BY <1>7 DEF x, y, e

\* z is q elements, and then what side holds from position j on.
Continues(z, q, side, j) ==
  /\ q \in 0..Len(z) /\ j \in 1..Len(side) + 1 /\ Len(z) = q + (Len(side) + 1 - j)
  /\ \A m \in j..Len(side) : z[m - j + 1 + q] = side[m]

LEMMA Pieces ==
  ASSUME NEW S, NEW z \in Seq(S), NEW side \in Seq(S), NEW q, NEW j,
         Continues(z, q, side, j)
  PROVE  z = Before(z, q) \o P!From(side, j)
<1>1. q \in 0..Len(z) /\ j \in 1..Len(side) + 1 /\ Len(z) = q + (Len(side) + 1 - j)
  BY DEF Continues
<1> DEFINE x == Before(z, q)
           y == P!From(side, j)
<1>2. x \in Seq(S) /\ Len(x) = q /\ \A m \in 1..q : x[m] = z[m]
  BY <1>1, BeforeIs
<1>3. /\ y \in Seq(S) /\ Len(y) = Len(side) + 1 - j
      /\ \A a \in 1..(Len(side) + 1 - j) : y[a] = side[j + a - 1]
  BY Zenon, <1>1, P!Rest
<1> HIDE DEF x, y
<1>4. /\ x \o y \in Seq(S) /\ Len(x \o y) = Len(x) + Len(y)
      /\ \A m \in 1..Len(x) + Len(y) :
           (x \o y)[m] = IF m <= Len(x) THEN x[m] ELSE y[m - Len(x)]
  BY <1>2, <1>3, ConcatProperties
<1>5. \A m \in 1..Len(z) : z[m] = (x \o y)[m]
  <2> SUFFICES ASSUME NEW m \in 1..Len(z)
               PROVE  z[m] = (x \o y)[m]
    OBVIOUS
  <2>1. CASE m <= q
    BY <1>1, <1>2, <1>3, <1>4, <2>1
  <2>2. CASE m > q
    <3> DEFINE a == m - q
               n == j + a - 1
    <3>1. a \in 1..(Len(side) + 1 - j) /\ n \in j..Len(side) /\ n - j + 1 + q = m
      BY <1>1, <2>2
    <3>2. z[m] = side[n]
      BY <3>1 DEF Continues
    <3>3. y[a] = side[n]
      BY <1>3, <3>1
    <3>4. (x \o y)[m] = y[a]
      BY <1>1, <1>2, <1>3, <1>4, <2>2
    <3>5. QED
      BY <3>2, <3>3, <3>4
  <2>3. m <= q \/ m > q
    BY <1>1
  <2>4. QED
    BY ONLY Zenon, <2>1, <2>2, <2>3
<1>6. Len(z) = Len(x \o y)
  BY <1>1, <1>2, <1>3, <1>4
<1>7. z = x \o y
  BY Zenon, <1>4, <1>5, <1>6, SeqEqual
<1>8. QED
  BY <1>7 DEF x, y

\* A taker meets the side with the list s of a sound book.
Entering(b, s, t, taker, stp) ==
  /\ taker.action \in Actions
  /\ Sound(b, Opposite(taker.action), s, t)
  /\ P!Setting(Plains(b, s), taker, stp, Users, OrderIds)

\* Slots of other lists keep their orders, and those of s that are in u are there.
Elsewhere(r, b, s, u) ==
  /\ DOMAIN r.orders = (DOMAIN b.orders \ ToSet(s)) \cup ToSet(u)
  /\ \A j \in DOMAIN b.orders \ ToSet(s) : Plain(r.orders[j]) = Plain(b.orders[j])

\* What the abstract walk comes to from position n on, with `left` unfilled.
At(b, s, taker, stp, n, left) == P!Visits(Plains(b, s), taker, stp)[n][left]

Whole(b, s, taker, stp) == At(b, s, taker, stp, 1, taker.size)

AllOrders == P!OrdersOf(Users, OrderIds)
AllEvents == P!EventsOf(Users, OrderIds)

\* What both cases of a run have in common; u is the list now.
Running(st, u, b, s, t, taker) ==
  /\ IsRun(st) /\ st.filled \in 0..taker.size /\ st.events \in Seq(AllEvents)
  /\ Sound(st.b, Opposite(taker.action), u, t)
  /\ Elsewhere(st.b, b, s, u)
  /\ st.newBest = st.b.best[Opposite(taker.action)]

\* After n visits q orders have stayed, and the rest of the list is as it was.
Going(st, n, q, u, b, s, t, taker, stp) ==
  /\ Running(st, u, b, s, t, taker)
  /\ st.stopped = FALSE /\ st.aborted = FALSE /\ st.intact = (q = 0)
  /\ n \in 0..Len(s) /\ q \in Nat /\ Len(u) = q + (Len(s) - n)
  /\ \A m \in n + 1..Len(s) :
       u[m - n + q] = s[m] /\ Plain(st.b.orders[s[m]]) = Plain(b.orders[s[m]])
  /\ LET whole == Whole(b, s, taker, stp)
         k == At(b, s, taker, stp, n + 1, taker.size - st.filled)
     IN  /\ whole.side = Before(Plains(st.b, u), q) \o k.side
         /\ whole.events = st.events \o k.events
         /\ whole.filled = k.filled /\ whole.aborted = k.aborted

\* The run has come to what the abstract walk comes to.
Ended(st, u, b, s, t, taker, stp) ==
  /\ Running(st, u, b, s, t, taker)
  /\ ReadAs(Whole(b, s, taker, stp), Plains(st.b, u), st.events, st.filled, st.aborted)

LEMMA WalkReads ==
  ASSUME NEW b, NEW s, NEW t, NEW taker, NEW stp, Entering(b, s, t, taker, stp),
         NEW n \in 1..Len(s) + 1, NEW left \in 0..taker.size
  PROVE  LET k == At(b, s, taker, stp, n, left)
         IN  /\ k.side \in Seq(AllOrders) /\ k.events \in Seq(AllEvents)
             /\ Reads(k, Plains(b, s), taker, stp, n, left,
                      P!Visits(Plains(b, s), taker, stp)[n + 1])
<1> DEFINE S == Plains(b, s)
           at == P!Visits(S, taker, stp)
<1>1. Len(S) = Len(s) /\ Len(S) \in Nat
  <2>1. ListOf(b, Opposite(taker.action), s)
    BY ListIs DEF Entering, Sound, SideSound
  <2>2. Len(s) \in Nat
    BY <2>1 DEF ListOf
  <2>3. QED
    BY <2>2 DEF Plains
<1>2. P!Setting(S, taker, stp, Users, OrderIds)
  BY DEF Entering
<1>3. taker.size \in Nat
  BY <1>2, P!Makers
<1> HIDE DEF S
<1>4. \A i \in 1..Len(S) + 1 : \A l \in 0..taker.size :
        /\ P!IsResult(at[i][l]) /\ P!Outcome(at[i][l], S, taker, stp, Users, OrderIds, i, l)
  BY <1>2, P!WalkOutcome
<1>5. \A i \in 1..Len(S) + 1 : \A l \in 0..taker.size :
        at[i][l] = P!Visit(S, taker, stp, i, l, at[i + 1])
  BY <1>1, P!WalkIsDefined
<1> HIDE DEF at
<1>6. n \in 1..Len(S) + 1
  BY <1>1
<1> DEFINE d == at[n + 1]
<1>7. n <= Len(S) => \A l \in 0..taker.size : P!IsResult(d[l])
  <2>1. n <= Len(S) => n + 1 \in 1..Len(S) + 1
    BY <1>1, <1>6
  <2>2. QED
    BY <1>4, <2>1
<1> HIDE DEF d
<1>8. Reads(P!Visit(S, taker, stp, n, left, d), S, taker, stp, n, left, d)
  BY <1>2, <1>6, <1>7, VisitReads
<1>9. at[n][left] = P!Visit(S, taker, stp, n, left, d)
  BY <1>5, <1>6 DEF d
<1>10. P!Outcome(at[n][left], S, taker, stp, Users, OrderIds, n, left)
  BY <1>4, <1>6
<1>11. at[n][left].side \in Seq(AllOrders) /\ at[n][left].events \in Seq(AllEvents)
  BY ONLY <1>10 DEF P!Outcome, P!Typed, AllOrders, AllEvents
<1>12. QED
  BY <1>8, <1>9, <1>11 DEF At, at, d, S

\* Orders in slots take part in the same conditions and events as plain ones.
LEMMA PlainActs ==
  ASSUME NEW o \in SlotOrders
  PROVE  /\ Plain(o).price = o.price /\ Remaining(Plain(o)) = Remaining(o)
         /\ \A taker, stp : Own(taker, Plain(o), stp) <=> Own(taker, o, stp)
         /\ \A taker, size : Trade(taker, Plain(o), size) = Trade(taker, o, size)
         /\ RejectMaker(Plain(o)) = RejectMaker(o)
<1>1. /\ Plain(o).id = o.id /\ Plain(o).uid = o.uid /\ Plain(o).action = o.action
      /\ Plain(o).price = o.price /\ Plain(o).size = o.size /\ Plain(o).filled = o.filled
      /\ Plain(o).reserve = o.reserve
  BY DEF Plain
<1> DEFINE p == Plain(o)
<1> HIDE DEF p
<1>2. Remaining(p) = Remaining(o)
  BY <1>1 DEF Remaining, p
<1>3. \A taker, stp : Own(taker, p, stp) <=> Own(taker, o, stp)
  BY <1>1 DEF Own, p
<1>4. \A taker, size : Trade(taker, p, size) = Trade(taker, o, size)
  BY <1>1 DEF Trade, p
<1>5. RejectMaker(p) = RejectMaker(o)
  BY <1>1, <1>2 DEF RejectMaker, p
<1>6. QED
  BY <1>1, <1>2, <1>3, <1>4, <1>5 DEF p

\* The next visit: slot i, and the amount unfilled.
Turn(st, n, q, u, b, s, taker, stp) ==
  LET i == s[n + 1]
      o == st.b.orders[i]
      left == taker.size - st.filled
      S == Plains(b, s)
      z == Plains(st.b, u)
  IN  /\ n + 1 \in 1..Len(s) /\ n + 2 \in 1..Len(s) + 1 /\ q + 1 \in 1..Len(u) /\ q \in Nat
      /\ Len(S) = Len(s) /\ Len(z) = Len(u) /\ Len(s) \in Nat /\ Len(u) \in Nat
      /\ S \in Seq(AllOrders) /\ z \in Seq(AllOrders)
      /\ u[q + 1] = i /\ i \in DOMAIN st.b.orders /\ i \in ToSet(s)
      /\ o \in SlotOrders /\ S[n + 1] = Plain(o) /\ z[q + 1] = Plain(o)
      /\ Remaining(o) \in Nat \ {0} /\ Remaining(S[n + 1]) = Remaining(o)
      /\ left \in 0..taker.size /\ taker.size \in Nat
      /\ Goes(S, taker, n + 1, left) <=> Meets(st, i, taker)
      /\ Own(taker, S[n + 1], stp) <=> Own(taker, o, stp)
      /\ RejectMaker(S[n + 1]) = RejectMaker(o) /\ RejectMaker(o) \in AllEvents
      /\ \A size \in Int : /\ Trade(taker, S[n + 1], size) = Trade(taker, o, size)
                           /\ Trade(taker, o, size) \in AllEvents
      /\ Continues(z, q, S, n + 1) /\ Continues(z, q + 1, S, n + 2)

LEMMA TurnIs ==
  ASSUME NEW b, NEW s, NEW t, NEW taker, NEW stp, Entering(b, s, t, taker, stp),
         NEW st, NEW n, NEW q, NEW u, Going(st, n, q, u, b, s, t, taker, stp), n < Len(s)
  PROVE  Turn(st, n, q, u, b, s, taker, stp)
<1> DEFINE side == Opposite(taker.action)
           i == s[n + 1]
           o == st.b.orders[i]
           left == taker.size - st.filled
           S == Plains(b, s)
           z == Plains(st.b, u)
<1>1. ListOf(b, side, s) /\ s \in Seq(DOMAIN b.orders)
  BY Zenon, ListIs DEF Entering, Sound, SideSound, Linked
<1>2. ListOf(st.b, side, u) /\ u \in Seq(DOMAIN st.b.orders) /\ Typed(st.b)
  BY Zenon, ListIs DEF Going, Running, Sound, SideSound, Linked
<1>3. /\ Len(s) \in Nat /\ Len(u) \in Nat
      /\ \A m \in 1..Len(s) : s[m] \in ToSet(s)
      /\ \A m \in 1..Len(u) : u[m] \in DOMAIN st.b.orders
  BY <1>1, <1>2 DEF ListOf
<1>4. /\ st.stopped = FALSE
      /\ n \in 0..Len(s) /\ q \in Nat /\ Len(u) = q + (Len(s) - n)
  BY DEF Going
<1>5. \A m \in n + 1..Len(s) :
        u[m - n + q] = s[m] /\ Plain(st.b.orders[s[m]]) = Plain(b.orders[s[m]])
  BY DEF Going
<1>6. /\ n + 1 \in 1..Len(s) /\ n + 2 \in 1..Len(s) + 1 /\ q + 1 \in 1..Len(u)
      /\ n + 1 \in n + 1..Len(s) /\ n + 1 - n + q = q + 1
  BY <1>3, <1>4
<1>7. u[q + 1] = i /\ Plain(o) = Plain(b.orders[i])
  <2>1. n + 1 \in n + 1..Len(s) /\ n + 1 - n + q = q + 1
    BY <1>6
  <2>2. ASSUME NEW m \in n + 1..Len(s), m = n + 1
        PROVE  u[q + 1] = s[m] /\ Plain(st.b.orders[s[m]]) = Plain(b.orders[s[m]])
    <3>1. m - n + q = q + 1
      BY <1>3, <1>4, <2>2
    <3>2. u[m - n + q] = s[m] /\ Plain(st.b.orders[s[m]]) = Plain(b.orders[s[m]])
      BY <1>5
    <3>3. QED
      BY ONLY <3>1, <3>2
  <2>3. QED
    BY <2>1, <2>2
<1>8. i \in DOMAIN st.b.orders /\ i \in ToSet(s)
  BY <1>3, <1>6, <1>7
<1>9. o \in SlotOrders
  BY <1>2, <1>8, SlotTypes
<1>10. PlainList(b, s) /\ PlainList(st.b, u)
  BY <1>1, <1>2, PlainsAre DEF Entering, Sound
<1>11. /\ S \in Seq(AllOrders) /\ Len(S) = Len(s)
       /\ \A m \in 1..Len(s) : S[m] = Plain(b.orders[s[m]])
       /\ z \in Seq(AllOrders) /\ Len(z) = Len(u)
       /\ \A m \in 1..Len(u) : z[m] = Plain(st.b.orders[u[m]])
  BY ONLY <1>10 DEF PlainList, AllOrders
<1> HIDE DEF S, z
<1>12. S[n + 1] = Plain(o) /\ z[q + 1] = Plain(o)
  BY <1>6, <1>7, <1>11
<1>13. SameWords
  BY Translated
<1>14. P!Setting(S, taker, stp, Users, OrderIds)
  BY DEF Entering, S
<1>15. /\ taker.size \in Nat /\ P!Remaining(S[n + 1]) \in Nat \ {0}
       /\ P!RejectMaker(S[n + 1]) \in AllEvents
       /\ \A size \in Int : P!Trade(taker, S[n + 1], size) \in AllEvents
  <2>1. taker.size \in Nat /\ \A j \in 1..Len(S) : P!Remaining(S[j]) \in Nat \ {0}
    BY <1>14, P!Makers
  <2>2. n + 1 \in 1..Len(S)
    BY <1>6, <1>11
  <2>3. /\ \A size \in Int : P!Trade(taker, S[n + 1], size) \in P!EventsOf(Users, OrderIds)
        /\ P!RejectMaker(S[n + 1]) \in P!EventsOf(Users, OrderIds)
    BY <1>14, <2>2, P!EventsTyped
  <2>4. QED
    BY <2>1, <2>2, <2>3 DEF AllEvents
<1> DEFINE p == Plain(o)
<1>16. /\ p.price = o.price /\ Remaining(p) = Remaining(o)
       /\ Own(taker, p, stp) <=> Own(taker, o, stp)
       /\ \A size : Trade(taker, p, size) = Trade(taker, o, size)
       /\ RejectMaker(p) = RejectMaker(o)
  BY <1>9, PlainActs
<1> HIDE DEF p
<1>17. S[n + 1] = p
  BY <1>12 DEF p
<1>18. Remaining(o) \in Nat \ {0} /\ Remaining(S[n + 1]) = Remaining(o)
  BY <1>13, <1>15, <1>16, <1>17 DEF SameWords
<1>19. left \in 0..taker.size
  <2>1. st.filled \in 0..taker.size
    BY DEF Going, Running
  <2>2. QED
    BY <1>15, <2>1
<1>20. Goes(S, taker, n + 1, left) <=> Meets(st, i, taker)
  <2>1. left > 0 <=> st.filled # taker.size
    <3>1. st.filled \in 0..taker.size
      BY DEF Going, Running
    <3>2. QED
      BY <1>15, <3>1
  <2>2. WithinLimit(taker, S[n + 1].price) <=> WithinLimit(taker, o.price)
    BY <1>16, <1>17
  <2>3. n + 1 <= Len(S)
    BY <1>6, <1>11
  <2> HIDE DEF left
  <2>4. QED
    BY ONLY <2>1, <2>2, <2>3, <1>4 DEF Goes, Meets, left, o
<1>21. /\ RejectMaker(S[n + 1]) = RejectMaker(o) /\ RejectMaker(o) \in AllEvents
       /\ \A size \in Int : /\ Trade(taker, S[n + 1], size) = Trade(taker, o, size)
                            /\ Trade(taker, o, size) \in AllEvents
  BY <1>13, <1>15, <1>16, <1>17 DEF SameWords
<1>22. \A m \in n + 1..Len(s) : z[m - n + q] = S[m]
  <2> SUFFICES ASSUME NEW m \in n + 1..Len(s)
               PROVE  z[m - n + q] = S[m]
    OBVIOUS
  <2>1. m \in 1..Len(s) /\ m - n + q \in 1..Len(u)
    BY <1>3, <1>4
  <2>2. u[m - n + q] = s[m] /\ Plain(st.b.orders[s[m]]) = Plain(b.orders[s[m]])
    BY <1>5
  <2>3. QED
    BY <1>11, <2>1, <2>2
<1>23. Continues(z, q, S, n + 1) /\ Continues(z, q + 1, S, n + 2)
  <2>1. \A m \in n + 1..Len(S) : z[m - (n + 1) + 1 + q] = S[m]
    <3> SUFFICES ASSUME NEW m \in n + 1..Len(S)
                 PROVE  z[m - (n + 1) + 1 + q] = S[m]
      OBVIOUS
    <3>1. m \in n + 1..Len(s) /\ m - (n + 1) + 1 + q = m - n + q
      BY <1>3, <1>4, <1>11
    <3>2. QED
      BY ONLY <1>22, <3>1
  <2>2. \A m \in n + 2..Len(S) : z[m - (n + 2) + 1 + (q + 1)] = S[m]
    <3> SUFFICES ASSUME NEW m \in n + 2..Len(S)
                 PROVE  z[m - (n + 2) + 1 + (q + 1)] = S[m]
      OBVIOUS
    <3>1. m \in n + 1..Len(s) /\ m - (n + 2) + 1 + (q + 1) = m - n + q
      BY <1>3, <1>4, <1>11
    <3>2. QED
      BY ONLY <1>22, <3>1
  <2>3. /\ q \in 0..Len(z) /\ n + 1 \in 1..Len(S) + 1 /\ Len(z) = q + (Len(S) + 1 - (n + 1))
        /\ q + 1 \in 0..Len(z) /\ n + 2 \in 1..Len(S) + 1
        /\ Len(z) = q + 1 + (Len(S) + 1 - (n + 2))
    BY <1>3, <1>4, <1>6, <1>11
  <2>4. QED
    BY ONLY <2>1, <2>2, <2>3 DEF Continues
<1> HIDE DEF o, i, left
<1>24. /\ n + 1 \in 1..Len(s) /\ n + 2 \in 1..Len(s) + 1 /\ q + 1 \in 1..Len(u) /\ q \in Nat
       /\ Len(S) = Len(s) /\ Len(z) = Len(u) /\ Len(s) \in Nat /\ Len(u) \in Nat
       /\ S \in Seq(AllOrders) /\ z \in Seq(AllOrders)
  BY <1>3, <1>4, <1>6, <1>11
<1>25. Own(taker, S[n + 1], stp) <=> Own(taker, o, stp)
  BY <1>16, <1>17
<1>26. taker.size \in Nat
  BY <1>15
<1>27. QED
  BY ONLY Zenon, <1>7, <1>8, <1>9, <1>12, <1>18, <1>19, <1>20, <1>21, <1>23, <1>24, <1>25,
          <1>26
  DEF Turn, o, i, left, S, z

\* The fields of a book.
BookHas(r, orders, buckets, index, levels, best) ==
  /\ r.orders = orders /\ r.buckets = buckets /\ r.index = index /\ r.levels = levels
  /\ r.best = best /\ IsBook(r)

LEMMA BookOf ==
  ASSUME NEW r, NEW orders, NEW buckets, NEW index, NEW levels, NEW best,
         r = Book(orders, buckets, index, levels, best)
  PROVE  BookHas(r, orders, buckets, index, levels, best)
  BY DEF BookHas, Book, IsBook

\* The order in slot i of a sound book is o now, with less to be filled.
LessIn(r, b, action, s, t, i, o) ==
  /\ Sound(r, action, s, t)
  /\ DOMAIN r.orders = DOMAIN b.orders /\ r.best = b.best
  /\ \A j \in DOMAIN b.orders : r.orders[j] = IF j = i THEN o ELSE b.orders[j]

LEMMA WithLessKeeps ==
  ASSUME NEW b, NEW action \in Actions, NEW s, NEW t, Sound(b, action, s, t),
         NEW n \in 1..Len(s), NEW by \in Int, NEW o \in SlotOrders,
         SameButAmount(o, b.orders[s[n]]), Remaining(o) = Remaining(b.orders[s[n]]) - by
  PROVE  LessIn(WithLess(b, s[n], o, by), b, action, s, t, s[n], o)
<1> DEFINE r == WithLess(b, s[n], o, by)
<1>1. /\ IsBook(r)
      /\ r.orders = [j \in DOMAIN b.orders |-> IF j = s[n] THEN o ELSE b.orders[j]]
      /\ r.buckets = [k \in DOMAIN b.buckets |-> IF k = b.orders[s[n]].parent
                                                 THEN Drained(b.buckets[k], by)
                                                 ELSE b.buckets[k]]
      /\ r.index = b.index /\ r.levels = b.levels /\ r.best = b.best
  <2> DEFINE orders == [j \in DOMAIN b.orders |-> IF j = s[n] THEN o ELSE b.orders[j]]
             buckets == [k \in DOMAIN b.buckets |-> IF k = b.orders[s[n]].parent
                                                    THEN Drained(b.buckets[k], by)
                                                    ELSE b.buckets[k]]
  <2>1. r = Book(orders, buckets, b.index, b.levels, b.best)
    BY Zenon DEF WithLess
  <2> HIDE DEF r, orders, buckets
  <2>2. BookHas(r, orders, buckets, b.index, b.levels, b.best)
    BY ONLY <2>1, BookOf
  <2>3. QED
    BY ONLY <2>2, Zenon DEF BookHas, orders, buckets
<1> HIDE DEF r
<1>2. Lowered(r, b, s[n], o, by)
  BY <1>1 DEF Lowered
<1>3. Sound(r, action, s, t)
  BY <1>2, LoweredKeeps
<1>4. /\ DOMAIN r.orders = DOMAIN b.orders
      /\ \A j \in DOMAIN b.orders : r.orders[j] = IF j = s[n] THEN o ELSE b.orders[j]
  BY <1>1
<1>5. LessIn(r, b, action, s, t, s[n], o)
  BY ONLY <1>1, <1>3, <1>4 DEF LessIn
<1>6. QED
  BY <1>5 DEF r

LEMMA AmountsIs ==
  ASSUME NEW o \in SlotOrders, NEW by \in Int
  PROVE  /\ Grown(o, by) \in SlotOrders /\ SameButAmount(Grown(o, by), o)
         /\ Remaining(Grown(o, by)) = Remaining(o) - by
         /\ Plain(Grown(o, by)) = Grown(Plain(o), by)
         /\ Shrunk(o, by) \in SlotOrders /\ SameButAmount(Shrunk(o, by), o)
         /\ Remaining(Shrunk(o, by)) = Remaining(o) - by
         /\ Plain(Shrunk(o, by)) = Shrunk(Plain(o), by)
<1>1. /\ Grown(o, by) \in SlotOrders /\ SameButAmount(Grown(o, by), o)
      /\ Remaining(Grown(o, by)) = Remaining(o) - by
  BY DEF Grown, SlotOrders, SameButAmount, Remaining
<1>2. Plain(Grown(o, by)) = Grown(Plain(o), by)
  BY DEF Grown, SlotOrders, Plain
<1>3. /\ Shrunk(o, by) \in SlotOrders /\ SameButAmount(Shrunk(o, by), o)
      /\ Remaining(Shrunk(o, by)) = Remaining(o) - by
  BY DEF Shrunk, SlotOrders, SameButAmount, Remaining
<1>4. Plain(Shrunk(o, by)) = Shrunk(Plain(o), by)
  BY DEF Shrunk, SlotOrders, Plain
<1>5. QED
  BY <1>1, <1>2, <1>3, <1>4

LEMMA FillKeeps ==
  ASSUME NEW b, NEW action \in Actions, NEW s, NEW t, Sound(b, action, s, t),
         NEW n \in 1..Len(s), NEW by \in Int
  PROVE  /\ LessIn(Fill(b, s[n], by), b, action, s, t, s[n], Grown(b.orders[s[n]], by))
         /\ LessIn(Shrink(b, s[n], by), b, action, s, t, s[n], Shrunk(b.orders[s[n]], by))
<1>1. Typed(b) /\ s[n] \in DOMAIN b.orders
  <2>1. ListOf(b, action, s)
    BY ListIs DEF Sound, SideSound
  <2>2. s[n] \in DOMAIN b.orders
    BY <2>1 DEF ListOf
  <2>3. QED
    BY <2>2 DEF Sound
<1> DEFINE o == b.orders[s[n]]
<1>2. o \in SlotOrders
  BY <1>1, SlotTypes
<1>3. /\ Grown(o, by) \in SlotOrders /\ SameButAmount(Grown(o, by), o)
      /\ Remaining(Grown(o, by)) = Remaining(o) - by
      /\ Shrunk(o, by) \in SlotOrders /\ SameButAmount(Shrunk(o, by), o)
      /\ Remaining(Shrunk(o, by)) = Remaining(o) - by
  <2> HIDE DEF o
  <2>1. QED
    BY <1>2, AmountsIs
<1>4. /\ LessIn(WithLess(b, s[n], Grown(o, by), by), b, action, s, t, s[n], Grown(o, by))
      /\ LessIn(WithLess(b, s[n], Shrunk(o, by), by), b, action, s, t, s[n], Shrunk(o, by))
  BY <1>3, WithLessKeeps
<1>5. /\ Fill(b, s[n], by) = WithLess(b, s[n], Grown(o, by), by)
      /\ Shrink(b, s[n], by) = WithLess(b, s[n], Shrunk(o, by), by)
  BY <1>1, WithLessIs
<1>6. QED
  BY <1>4, <1>5

\* The order of the next visit has left the book, after the amounts in its slot have
\* changed perhaps; q orders stay in front.
Removed(r, st, n, q, u, v, b, s, t, taker) ==
  LET side == Opposite(taker.action)
      i == s[n + 1]
  IN  /\ Sound(r, side, v, t)
      /\ Elsewhere(r, b, s, v)
      /\ r.best[side] = IF st.intact THEN st.b.orders[i].prev ELSE st.newBest
      /\ v \in Seq(DOMAIN r.orders) /\ Len(v) = q + (Len(s) - (n + 1))
      /\ \A m \in n + 2..Len(s) :
           v[m - (n + 1) + q] = s[m] /\ Plain(r.orders[s[m]]) = Plain(b.orders[s[m]])
      /\ Before(Plains(r, v), q) = Before(Plains(st.b, u), q)
      /\ Continues(Plains(r, v), q, Plains(b, s), n + 2)

\* c is the book before the order leaves it.
Ready(c, st, i, u, t, taker) ==
  /\ Sound(c, Opposite(taker.action), u, t)
  /\ DOMAIN c.orders = DOMAIN st.b.orders /\ c.best = st.b.best
  /\ c.orders[i].prev = st.b.orders[i].prev
  /\ \A j \in DOMAIN st.b.orders : j # i => c.orders[j] = st.b.orders[j]

LEMMA RemovedIs ==
  ASSUME NEW b, NEW s, NEW t, NEW taker, NEW stp, Entering(b, s, t, taker, stp),
         NEW st, NEW n, NEW q, NEW u, Going(st, n, q, u, b, s, t, taker, stp), n < Len(s),
         NEW c, Ready(c, st, s[n + 1], u, t, taker)
  PROVE  Removed(Free(RemoveOrder(c, s[n + 1]), s[n + 1]), st, n, q, u, RemoveAt(u, q + 1),
                 b, s, t, taker)
<1> DEFINE side == Opposite(taker.action)
           i == s[n + 1]
           v == RemoveAt(u, q + 1)
           r == Free(RemoveOrder(c, i), i)
           S == Plains(b, s)
<1>1. Turn(st, n, q, u, b, s, taker, stp)
  BY TurnIs
<1>2. /\ q + 1 \in 1..Len(u) /\ u[q + 1] = i /\ i \in DOMAIN st.b.orders /\ i \in ToSet(s)
      /\ q \in Nat /\ Len(s) \in Nat /\ Len(u) \in Nat /\ n + 1 \in 1..Len(s)
      /\ Len(S) = Len(s) /\ n + 2 \in 1..Len(s) + 1
  BY ONLY <1>1 DEF Turn
<1>3. side \in Actions
  BY Sides DEF Entering
<1>4. /\ Sound(c, side, u, t) /\ DOMAIN c.orders = DOMAIN st.b.orders /\ c.best = st.b.best
      /\ c.orders[i].prev = st.b.orders[i].prev
      /\ \A j \in DOMAIN st.b.orders : j # i => c.orders[j] = st.b.orders[j]
  BY DEF Ready
<1>5. ListOf(c, side, u) /\ u \in Seq(DOMAIN c.orders)
  BY Zenon, <1>4, ListIs DEF Sound, SideSound, Linked
<1>6. \A m, k \in 1..Len(u) : u[m] = u[k] => m = k
  BY <1>5 DEF ListOf
<1>7. Cut(v, u, q + 1, DOMAIN c.orders)
  BY <1>2, <1>5, <1>6, RemovedList
<1> HIDE DEF v
<1>8. Expelled(Free(RemoveOrder(c, u[q + 1]), u[q + 1]), c, side, u, t, q + 1, v)
  BY Zenon, <1>2, <1>3, <1>4, <1>7, ExpelKeeps
<1>9. Expelled(r, c, side, u, t, q + 1, v)
  BY <1>2, <1>8
<1> HIDE DEF r
<1>10. /\ Sound(r, side, v, t)
       /\ DOMAIN r.orders = DOMAIN c.orders \ {i}
       /\ \A j \in DOMAIN r.orders : Plain(r.orders[j]) = Plain(c.orders[j])
       /\ r.best[side] = IF q + 1 = 1 THEN c.orders[i].prev ELSE c.best[side]
  BY <1>2, <1>9 DEF Expelled
<1>11. /\ v \in Seq(DOMAIN c.orders)
       /\ Len(v) = Len(u) - 1 /\ ToSet(v) = ToSet(u) \ {i}
       /\ \A m \in 1..Len(v) : m < q + 1 => v[m] = u[m]
       /\ \A m \in 1..Len(v) : m >= q + 1 => v[m] = u[m + 1]
  BY <1>2, <1>7 DEF Cut, Shorter
<1>12. /\ st.intact = (q = 0) /\ st.newBest = st.b.best[side]
       /\ Len(u) = q + (Len(s) - n) /\ n \in 0..Len(s) /\ Elsewhere(st.b, b, s, u)
  BY DEF Going, Running
<1>13. \A m \in n + 1..Len(s) :
         u[m - n + q] = s[m] /\ Plain(st.b.orders[s[m]]) = Plain(b.orders[s[m]])
  BY DEF Going
<1>14. \A j \in DOMAIN r.orders : j # i /\ Plain(r.orders[j]) = Plain(st.b.orders[j])
  BY <1>4, <1>10
<1>15. r.best[side] = IF st.intact THEN st.b.orders[i].prev ELSE st.newBest
  <2>1. q + 1 = 1 <=> q = 0
    BY <1>2
  <2>2. /\ r.best[side] = IF q + 1 = 1 THEN c.orders[i].prev ELSE c.best[side]
        /\ c.orders[i].prev = st.b.orders[i].prev /\ c.best[side] = st.newBest
    BY <1>4, <1>10, <1>12
  <2>3. st.intact = (q = 0)
    BY <1>12
  <2>4. QED
    BY ONLY Zenon, <2>1, <2>2, <2>3
<1>16. Elsewhere(r, b, s, v)
  <2>1. DOMAIN r.orders = (DOMAIN b.orders \ ToSet(s)) \cup ToSet(v)
    BY Zenon, <1>2, <1>4, <1>10, <1>11, <1>12 DEF Elsewhere
  <2>2. ASSUME NEW j \in DOMAIN b.orders \ ToSet(s)
        PROVE  Plain(r.orders[j]) = Plain(b.orders[j])
    <3>1. j \in DOMAIN r.orders
      BY <2>1
    <3>2. Plain(st.b.orders[j]) = Plain(b.orders[j])
      BY <1>12, <2>2 DEF Elsewhere
    <3>3. QED
      BY <1>14, <3>1, <3>2
  <2>3. QED
    BY <2>1, <2>2 DEF Elsewhere
<1>17. Len(v) = q + (Len(s) - (n + 1))
  <2>1. Len(v) = Len(u) - 1 /\ Len(u) = q + (Len(s) - n)
    BY ONLY <1>11, <1>12
  <2>2. q \in Int /\ n \in Int /\ Len(s) \in Int
    BY <1>2, <1>12
  <2>3. QED
    BY ONLY <2>1, <2>2
<1>18. ListOf(r, side, v) /\ v \in Seq(DOMAIN r.orders) /\ Typed(r)
  BY Zenon, <1>10, ListIs DEF Sound, SideSound, Linked
<1>19. \A m \in 1..Len(v) : v[m] \in DOMAIN r.orders
  BY <1>18 DEF ListOf
<1>20. ASSUME NEW m \in n + 2..Len(s)
       PROVE  /\ m - (n + 1) + q \in 1..Len(v) /\ v[m - (n + 1) + q] = s[m]
              /\ Plain(r.orders[s[m]]) = Plain(b.orders[s[m]])
  <2> DEFINE a == m - (n + 1) + q
  <2>1. /\ m \in n + 1..Len(s) /\ a \in 1..Len(v) /\ a >= q + 1 /\ a + 1 = m - n + q
        /\ m \in 1..Len(s)
    BY <1>2, <1>12, <1>17
  <2>2. v[a] = u[a + 1]
    <3> HIDE DEF a
    <3>1. QED
      BY <1>11, <2>1
  <2>3. u[m - n + q] = s[m] /\ Plain(st.b.orders[s[m]]) = Plain(b.orders[s[m]])
    BY <1>13, <2>1
  <2>4. v[a] = s[m]
    <3> HIDE DEF a
    <3>1. QED
      BY <2>1, <2>2, <2>3
  <2>5. v[a] \in DOMAIN r.orders
    BY <1>19, <2>1
  <2>6. Plain(r.orders[s[m]]) = Plain(st.b.orders[s[m]])
    BY <1>14, <2>4, <2>5
  <2>7. QED
    BY <2>1, <2>3, <2>4, <2>6
<1>21. PlainList(r, v)
  BY <1>18, PlainsAre
<1> DEFINE z == Plains(r, v)
<1>22. Len(z) = Len(v) /\ \A m \in 1..Len(v) : z[m] = Plain(r.orders[v[m]])
  BY <1>21 DEF PlainList
<1>23. Before(z, q) = Before(Plains(st.b, u), q)
  <2>1. ASSUME NEW m \in 1..q
        PROVE  z[m] = Plains(st.b, u)[m]
    <3>1. m \in 1..Len(v) /\ m < q + 1 /\ m \in 1..Len(u)
      BY ONLY <1>2, <1>11, m \in 1..q
    <3>2. v[m] = u[m] /\ v[m] \in DOMAIN r.orders
      BY <1>11, <1>19, <3>1
    <3>3. z[m] = Plain(st.b.orders[u[m]])
      BY <1>14, <1>22, <3>1, <3>2
    <3>4. QED
      BY <3>1, <3>3 DEF Plains
  <2> HIDE DEF z
  <2>2. QED
    BY <2>1 DEF Before
<1>24. Continues(z, q, S, n + 2)
  <2>1. ASSUME NEW m \in n + 2..Len(S)
        PROVE  z[m - (n + 2) + 1 + q] = S[m]
    <3>1. m \in n + 2..Len(s)
      BY <1>2
    <3>2. /\ m - (n + 1) + q \in 1..Len(v) /\ v[m - (n + 1) + q] = s[m]
          /\ Plain(r.orders[s[m]]) = Plain(b.orders[s[m]])
      BY <1>20, <3>1
    <3>3. m - (n + 2) + 1 + q = m - (n + 1) + q /\ m \in 1..Len(s)
      BY <1>2, <1>12, <3>1
    <3>4. z[m - (n + 1) + q] = Plain(b.orders[s[m]])
      BY <1>22, <3>2
    <3>5. S[m] = Plain(b.orders[s[m]])
      BY <3>3 DEF Plains
    <3>6. QED
      BY <3>3, <3>4, <3>5
  <2> HIDE DEF z
  <2>2. q \in 0..Len(z) /\ Len(z) = q + (Len(S) + 1 - (n + 2)) /\ n + 2 \in 1..Len(S) + 1
    BY <1>2, <1>12, <1>17, <1>22
  <2>3. QED
    BY <2>1, <2>2 DEF Continues
<1>25. \A m \in n + 2..Len(s) :
         v[m - (n + 1) + q] = s[m] /\ Plain(r.orders[s[m]]) = Plain(b.orders[s[m]])
  BY <1>20
<1>26. Removed(r, st, n, q, u, v, b, s, t, taker)
  BY ONLY <1>10, <1>15, <1>16, <1>17, <1>18, <1>23, <1>24, <1>25 DEF Removed
<1>27. QED
  BY <1>26 DEF r, v

\* After one more visit the run goes on or has ended.
Onward(v, n, b, s, t, taker, stp) ==
  \/ \E q, u : Going(v, n, q, u, b, s, t, taker, stp)
  \/ v.stopped = TRUE /\ \E u : Ended(v, u, b, s, t, taker, stp)

\* The abstract walk from the next position on.
Next1(st, n, b, s, taker, stp) == At(b, s, taker, stp, n + 1, taker.size - st.filled)

LEMMA WholeIs ==
  ASSUME NEW b, NEW s, NEW t, NEW taker, NEW stp, NEW st, NEW n, NEW q, NEW u,
         Going(st, n, q, u, b, s, t, taker, stp),
         NEW side, NEW events, NEW filled, NEW aborted,
         ReadAs(Next1(st, n, b, s, taker, stp), side, events, filled, aborted)
  PROVE  ReadAs(Whole(b, s, taker, stp), Before(Plains(st.b, u), q) \o side,
                st.events \o events, filled, aborted)
  BY Zenon DEF Going, ReadAs, Next1

\* The walk stops in front of the next order, or at it.
LEMMA StopsHere ==
  ASSUME NEW b, NEW s, NEW t, NEW taker, NEW stp, Entering(b, s, t, taker, stp),
         NEW st, NEW n, NEW q, NEW u, Going(st, n, q, u, b, s, t, taker, stp), n < Len(s),
         NEW aborted, NEW intact, NEW v,
         v = Run(st.b, st.events, st.filled, aborted, st.newBest, intact, TRUE),
         ReadAs(Next1(st, n, b, s, taker, stp), P!From(Plains(b, s), n + 1), <<>>,
                taker.size - (taker.size - st.filled), aborted)
  PROVE  Onward(v, n + 1, b, s, t, taker, stp)
<1> DEFINE S == Plains(b, s)
           z == Plains(st.b, u)
<1>1. Turn(st, n, q, u, b, s, taker, stp)
  BY TurnIs
<1>2. S \in Seq(AllOrders) /\ z \in Seq(AllOrders) /\ Continues(z, q, S, n + 1)
  BY ONLY <1>1 DEF Turn
<1>3. Running(st, u, b, s, t, taker)
  BY DEF Going
<1>4. st.events \in Seq(AllEvents) /\ st.filled \in 0..taker.size /\ taker.size \in Nat
  BY <1>1, <1>3 DEF Running, Turn
<1>5. ReadAs(Whole(b, s, taker, stp), Before(z, q) \o P!From(S, n + 1), st.events \o <<>>,
             taker.size - (taker.size - st.filled), aborted)
  BY Zenon, WholeIs
<1> HIDE DEF S, z
<1>6. z = Before(z, q) \o P!From(S, n + 1)
  BY <1>2, Pieces
<1>7. st.events \o <<>> = st.events
  BY <1>4, ConcatEmptySeq
<1>8. taker.size - (taker.size - st.filled) = st.filled
  BY <1>4
<1>9. ReadAs(Whole(b, s, taker, stp), z, st.events, st.filled, aborted)
  BY ONLY Zenon, <1>5, <1>6, <1>7, <1>8
<1>10. RunHas(v, st.b, st.events, st.filled, aborted, st.newBest, intact, TRUE)
  BY Zenon, RunOf
<1>11. /\ v.b = st.b /\ v.events = st.events /\ v.filled = st.filled /\ v.aborted = aborted
       /\ v.newBest = st.newBest /\ v.stopped = TRUE /\ IsRun(v)
  BY ONLY <1>10 DEF RunHas
<1>12. Running(v, u, b, s, t, taker)
  BY ONLY <1>3, <1>11 DEF Running
<1>13. Ended(v, u, b, s, t, taker, stp)
  BY ONLY <1>9, <1>11, <1>12 DEF Ended, z
<1>14. QED
  BY Zenon, <1>11, <1>13 DEF Onward

\* The order is skipped.
LEMMA SkipsIt ==
  ASSUME NEW b, NEW s, NEW t, NEW taker, NEW stp, Entering(b, s, t, taker, stp),
         NEW st, NEW n, NEW q, NEW u, Going(st, n, q, u, b, s, t, taker, stp), n < Len(s),
         NEW v,
         v = Run(st.b, st.events, st.filled, st.aborted, st.newBest, FALSE, st.stopped),
         LET k == At(b, s, taker, stp, n + 2, taker.size - st.filled)
         IN  ReadAs(Next1(st, n, b, s, taker, stp), <<Plain(st.b.orders[s[n + 1]])>> \o k.side,
                    k.events, k.filled, k.aborted)
  PROVE  Onward(v, n + 1, b, s, t, taker, stp)
<1> DEFINE z == Plains(st.b, u)
           k == At(b, s, taker, stp, n + 2, taker.size - st.filled)
           maker == Plain(st.b.orders[s[n + 1]])
<1>1. Turn(st, n, q, u, b, s, taker, stp)
  BY TurnIs
<1>2. /\ z \in Seq(AllOrders) /\ Len(z) = Len(u) /\ z[q + 1] = maker
      /\ q + 1 \in 1..Len(u) /\ q \in Nat /\ n + 2 \in 1..Len(s) + 1
      /\ taker.size - st.filled \in 0..taker.size /\ Len(s) \in Nat
  BY ONLY <1>1 DEF Turn
<1>3. k.side \in Seq(AllOrders) /\ k.events \in Seq(AllEvents)
  BY <1>2, WalkReads
<1>4. ReadAs(Whole(b, s, taker, stp), Before(z, q) \o (<<maker>> \o k.side),
             st.events \o k.events, k.filled, k.aborted)
  BY WholeIs
<1> HIDE DEF z, k, maker
<1>5. Before(z, q) \o (<<maker>> \o k.side) = Before(z, q + 1) \o k.side
  <2>1. q \in 0..Len(z) /\ q + 1 \in 1..Len(z)
    BY <1>2
  <2>2. Before(z, q + 1) = Before(z, q) \o <<maker>>
    BY Zenon, <1>2, <2>1, BeforeGrows
  <2>3. Before(z, q) \in Seq(AllOrders)
    BY <1>2, <2>1, BeforeIs
  <2>4. <<maker>> \in Seq(AllOrders)
    <3>1. z[q + 1] \in AllOrders
      BY <1>2, <2>1, ElementOfSeq
    <3>2. QED
      BY <1>2, <3>1
  <2> DEFINE x == Before(z, q)
             y == <<maker>>
             w == k.side
  <2>5. x \in Seq(AllOrders) /\ y \in Seq(AllOrders) /\ w \in Seq(AllOrders)
    BY <1>3, <2>3, <2>4
  <2>6. Before(z, q + 1) = x \o y
    BY <2>2
  <2> HIDE DEF x, y, w
  <2>7. (x \o y) \o w = x \o (y \o w)
    BY ONLY <2>5, ConcatAssociative
  <2>8. x \o (y \o w) = Before(z, q + 1) \o w
    BY Zenon, <2>6, <2>7
  <2>9. QED
    BY Zenon, <2>8 DEF x, y, w
<1>6. ReadAs(Whole(b, s, taker, stp), Before(z, q + 1) \o k.side, st.events \o k.events,
             k.filled, k.aborted)
  BY ONLY Zenon, <1>4, <1>5
<1>7. RunHas(v, st.b, st.events, st.filled, st.aborted, st.newBest, FALSE, st.stopped)
  BY Zenon, RunOf
<1>8. /\ v.b = st.b /\ v.events = st.events /\ v.filled = st.filled
      /\ v.aborted = st.aborted /\ v.newBest = st.newBest /\ v.intact = FALSE
      /\ v.stopped = st.stopped /\ IsRun(v)
  BY ONLY <1>7 DEF RunHas
<1>9. Running(v, u, b, s, t, taker)
  <2>1. Running(st, u, b, s, t, taker)
    BY DEF Going
  <2>2. QED
    BY ONLY <1>8, <2>1 DEF Running
<1>10. /\ v.stopped = FALSE /\ v.aborted = FALSE /\ v.intact = (q + 1 = 0)
       /\ n + 1 \in 0..Len(s) /\ q + 1 \in Nat /\ Len(u) = q + 1 + (Len(s) - (n + 1))
  <2>1. /\ st.stopped = FALSE /\ st.aborted = FALSE
        /\ n \in 0..Len(s) /\ Len(u) = q + (Len(s) - n)
    BY DEF Going
  <2>2. (q + 1 = 0) = FALSE
    BY <1>2
  <2>3. /\ n + 1 \in 0..Len(s) /\ q + 1 \in Nat /\ Len(u) = q + 1 + (Len(s) - (n + 1))
    BY <1>2, <2>1
  <2>4. QED
    BY ONLY Zenon, <1>8, <2>1, <2>2, <2>3
<1>11. \A m \in n + 2..Len(s) :
         u[m - (n + 1) + (q + 1)] = s[m] /\ Plain(v.b.orders[s[m]]) = Plain(b.orders[s[m]])
  <2>1. \A m \in n + 1..Len(s) :
          u[m - n + q] = s[m] /\ Plain(st.b.orders[s[m]]) = Plain(b.orders[s[m]])
    BY DEF Going
  <2>2. n \in Int /\ q \in Int
    BY <1>2 DEF Going
  <2>3. \A m \in n + 2..Len(s) : m \in n + 1..Len(s) /\ m - (n + 1) + (q + 1) = m - n + q
    BY <1>2, <2>2
  <2>4. QED
    BY Zenon, <1>8, <2>1, <2>3
<1>12. /\ Whole(b, s, taker, stp).side = Before(Plains(v.b, u), q + 1) \o k.side
       /\ Whole(b, s, taker, stp).events = v.events \o k.events
       /\ Whole(b, s, taker, stp).filled = k.filled
       /\ Whole(b, s, taker, stp).aborted = k.aborted
  BY Zenon, <1>6, <1>8 DEF ReadAs, z
<1>13. k = At(b, s, taker, stp, (n + 1) + 1, taker.size - v.filled)
  <2>1. (n + 1) + 1 = n + 2
    BY DEF Going
  <2>2. QED
    BY Zenon, <1>8, <2>1 DEF k
<1>14. (n + 1) + 1 = n + 2
  BY DEF Going
<1>15. Going(v, n + 1, q + 1, u, b, s, t, taker, stp)
  BY ONLY <1>9, <1>10, <1>11, <1>12, <1>13, <1>14 DEF Going
<1>16. QED
  BY Zenon, <1>15 DEF Onward

LEMMA EventsGrow ==
  ASSUME NEW S, NEW x \in Seq(S), NEW e \in S, NEW y \in Seq(S)
  PROVE  /\ Append(x, e) \in Seq(S) /\ x \o <<e>> = Append(x, e)
         /\ x \o (<<e>> \o y) = Append(x, e) \o y
<1>1. Append(x, e) = x \o <<e>>
  BY AppendIsConcat
<1> DEFINE z == <<e>>
<1>2. z \in Seq(S)
  OBVIOUS
<1> HIDE DEF z
<1>3. (x \o z) \o y = x \o (z \o y)
  BY <1>2, ConcatAssociative
<1>4. Append(x, e) \in Seq(S)
  BY AppendProperties
<1>5. QED
  BY <1>1, <1>3, <1>4 DEF z

\* The order leaves the book, cancelled or traded in full.
LEMMA LeavesIt ==
  ASSUME NEW b, NEW s, NEW t, NEW taker, NEW stp, Entering(b, s, t, taker, stp),
         NEW st, NEW n, NEW q, NEW u, Going(st, n, q, u, b, s, t, taker, stp), n < Len(s),
         NEW c, Ready(c, st, s[n + 1], u, t, taker),
         NEW e \in AllEvents, NEW f \in 0..taker.size, NEW v,
         v = Run(Free(RemoveOrder(c, s[n + 1]), s[n + 1]), Append(st.events, e), f, st.aborted,
                 IF st.intact THEN st.b.orders[s[n + 1]].prev ELSE st.newBest, st.intact,
                 st.stopped),
         LET k == At(b, s, taker, stp, n + 2, taker.size - f)
         IN  ReadAs(Next1(st, n, b, s, taker, stp), k.side, <<e>> \o k.events, k.filled,
                    k.aborted)
  PROVE  Onward(v, n + 1, b, s, t, taker, stp)
<1> DEFINE k == At(b, s, taker, stp, n + 2, taker.size - f)
           r == Free(RemoveOrder(c, s[n + 1]), s[n + 1])
           w == RemoveAt(u, q + 1)
           best == IF st.intact THEN st.b.orders[s[n + 1]].prev ELSE st.newBest
           side == Opposite(taker.action)
<1>1. Turn(st, n, q, u, b, s, taker, stp)
  BY TurnIs
<1>2. /\ q \in Nat /\ n + 2 \in 1..Len(s) + 1 /\ taker.size \in Nat /\ Len(s) \in Nat
  BY ONLY <1>1 DEF Turn
<1>3. k.side \in Seq(AllOrders) /\ k.events \in Seq(AllEvents)
  BY <1>2, WalkReads
<1>4. ReadAs(Whole(b, s, taker, stp), Before(Plains(st.b, u), q) \o k.side,
             st.events \o (<<e>> \o k.events), k.filled, k.aborted)
  BY WholeIs
<1>5. Removed(r, st, n, q, u, w, b, s, t, taker)
  BY RemovedIs
<1> HIDE DEF k, r, w, best
<1>6. /\ Sound(r, side, w, t) /\ Elsewhere(r, b, s, w) /\ r.best[side] = best
      /\ Len(w) = q + (Len(s) - (n + 1))
      /\ Before(Plains(r, w), q) = Before(Plains(st.b, u), q)
  BY ONLY <1>5 DEF Removed, best
<1>7. \A m \in n + 2..Len(s) :
         w[m - (n + 1) + q] = s[m] /\ Plain(r.orders[s[m]]) = Plain(b.orders[s[m]])
  BY ONLY <1>5 DEF Removed
<1>8. Running(st, u, b, s, t, taker)
  BY DEF Going
<1>9. /\ Append(st.events, e) \in Seq(AllEvents)
      /\ st.events \o (<<e>> \o k.events) = Append(st.events, e) \o k.events
  <2>1. st.events \in Seq(AllEvents)
    BY <1>8 DEF Running
  <2> DEFINE x == st.events
             y == k.events
  <2>2. x \in Seq(AllEvents) /\ y \in Seq(AllEvents) /\ e \in AllEvents
    BY <1>3, <2>1
  <2> HIDE DEF x, y
  <2>3. Append(x, e) \in Seq(AllEvents) /\ x \o (<<e>> \o y) = Append(x, e) \o y
    BY ONLY <2>2, EventsGrow
  <2>4. QED
    BY Zenon, <2>3 DEF x, y
<1>10. RunHas(v, r, Append(st.events, e), f, st.aborted, best, st.intact, st.stopped)
  BY RunOf DEF r, best
<1>11. /\ v.b = r /\ v.events = Append(st.events, e) /\ v.filled = f
       /\ v.aborted = st.aborted /\ v.newBest = best /\ v.intact = st.intact
       /\ v.stopped = st.stopped /\ IsRun(v)
  BY ONLY <1>10 DEF RunHas
<1>12. Running(v, w, b, s, t, taker)
  BY ONLY <1>6, <1>9, <1>11, f \in 0..taker.size DEF Running, side
<1>13. /\ v.stopped = FALSE /\ v.aborted = FALSE /\ v.intact = (q = 0)
       /\ n + 1 \in 0..Len(s) /\ (n + 1) + 1 = n + 2
  <2>1. /\ st.stopped = FALSE /\ st.aborted = FALSE /\ st.intact = (q = 0) /\ n \in 0..Len(s)
    BY DEF Going
  <2>2. n + 1 \in 0..Len(s) /\ (n + 1) + 1 = n + 2
    BY <1>2, <2>1
  <2>3. QED
    BY ONLY <1>11, <2>1, <2>2
<1>14. ReadAs(Whole(b, s, taker, stp), Before(Plains(v.b, w), q) \o k.side, v.events \o k.events,
              k.filled, k.aborted)
  BY ONLY Zenon, <1>4, <1>6, <1>9, <1>11
<1>15. k = At(b, s, taker, stp, (n + 1) + 1, taker.size - v.filled)
  BY Zenon, <1>11, <1>13 DEF k
<1>16. \A m \in (n + 1) + 1..Len(s) :
         w[m - (n + 1) + q] = s[m] /\ Plain(v.b.orders[s[m]]) = Plain(b.orders[s[m]])
  BY ONLY <1>7, <1>11, <1>13
<1>17. Going(v, n + 1, q, w, b, s, t, taker, stp)
  BY ONLY <1>2, <1>6, <1>12, <1>13, <1>14, <1>15, <1>16 DEF Going, ReadAs
<1>18. QED
  BY <1>17 DEF Onward

\* The order is cancelled together with the taker.
LEMMA LeavesAndStops ==
  ASSUME NEW b, NEW s, NEW t, NEW taker, NEW stp, Entering(b, s, t, taker, stp),
         NEW st, NEW n, NEW q, NEW u, Going(st, n, q, u, b, s, t, taker, stp), n < Len(s),
         Ready(st.b, st, s[n + 1], u, t, taker), NEW e \in AllEvents, NEW v,
         v = Run(Free(RemoveOrder(st.b, s[n + 1]), s[n + 1]), Append(st.events, e), st.filled,
                 TRUE, IF st.intact THEN st.b.orders[s[n + 1]].prev ELSE st.newBest, st.intact,
                 TRUE),
         ReadAs(Next1(st, n, b, s, taker, stp), P!From(Plains(b, s), n + 2), <<e>>,
                taker.size - (taker.size - st.filled), TRUE)
  PROVE  Onward(v, n + 1, b, s, t, taker, stp)
<1> DEFINE S == Plains(b, s)
           r == Free(RemoveOrder(st.b, s[n + 1]), s[n + 1])
           w == RemoveAt(u, q + 1)
           best == IF st.intact THEN st.b.orders[s[n + 1]].prev ELSE st.newBest
           side == Opposite(taker.action)
           z == Plains(r, w)
<1>1. Turn(st, n, q, u, b, s, taker, stp)
  BY TurnIs
<1>2. S \in Seq(AllOrders) /\ taker.size \in Nat
  BY ONLY <1>1 DEF Turn
<1>3. ReadAs(Whole(b, s, taker, stp), Before(Plains(st.b, u), q) \o P!From(S, n + 2),
             st.events \o <<e>>, taker.size - (taker.size - st.filled), TRUE)
  BY Zenon, WholeIs
<1>4. Removed(r, st, n, q, u, w, b, s, t, taker)
  BY RemovedIs
<1> HIDE DEF r, w, best
<1>5. /\ Sound(r, side, w, t) /\ Elsewhere(r, b, s, w) /\ r.best[side] = best
      /\ w \in Seq(DOMAIN r.orders)
      /\ Before(z, q) = Before(Plains(st.b, u), q)
      /\ Continues(z, q, S, n + 2)
  BY ONLY <1>4 DEF Removed, best
<1>6. Running(st, u, b, s, t, taker)
  BY DEF Going
<1>7. st.events \in Seq(AllEvents) /\ st.filled \in 0..taker.size
  BY <1>6 DEF Running
<1>8. Append(st.events, e) \in Seq(AllEvents) /\ st.events \o <<e>> = Append(st.events, e)
  BY <1>7, AppendIsConcat, AppendProperties
<1>9. taker.size - (taker.size - st.filled) = st.filled
  BY <1>2, <1>7
<1>10. z \in Seq(AllOrders)
  <2>1. PlainList(r, w)
    BY <1>5, PlainsAre DEF Sound
  <2>2. QED
    BY ONLY <2>1 DEF PlainList, AllOrders
<1> HIDE DEF z, S
<1>11. z = Before(z, q) \o P!From(S, n + 2)
  BY <1>2, <1>5, <1>10, Pieces
<1>12. ReadAs(Whole(b, s, taker, stp), z, Append(st.events, e), st.filled, TRUE)
  BY ONLY Zenon, <1>3, <1>5, <1>8, <1>9, <1>11
<1>13. RunHas(v, r, Append(st.events, e), st.filled, TRUE, best, st.intact, TRUE)
  BY Zenon, RunOf DEF r, best
<1>14. /\ v.b = r /\ v.events = Append(st.events, e) /\ v.filled = st.filled
       /\ v.aborted = TRUE /\ v.newBest = best /\ v.stopped = TRUE /\ IsRun(v)
  BY ONLY <1>13 DEF RunHas
<1>15. Running(v, w, b, s, t, taker)
  BY ONLY <1>5, <1>7, <1>8, <1>14 DEF Running, side
<1>16. Ended(v, w, b, s, t, taker, stp)
  BY ONLY Zenon, <1>12, <1>14, <1>15 DEF Ended, z
<1>17. QED
  BY Zenon, <1>14, <1>16 DEF Onward

\* What is left of the taker goes into the order.
LEMMA TradesPart ==
  ASSUME NEW b, NEW s, NEW t, NEW taker, NEW stp, Entering(b, s, t, taker, stp),
         NEW st, NEW n, NEW q, NEW u, Going(st, n, q, u, b, s, t, taker, stp), n < Len(s),
         NEW left, left = taker.size - st.filled, NEW e \in AllEvents, NEW v,
         v = Run(Fill(st.b, s[n + 1], left), Append(st.events, e), st.filled + left,
                 st.aborted, st.newBest, st.intact, TRUE),
         ReadAs(Next1(st, n, b, s, taker, stp),
                <<Grown(Plain(st.b.orders[s[n + 1]]), left)>> \o P!From(Plains(b, s), n + 2),
                <<e>>, taker.size - 0, FALSE)
  PROVE  Onward(v, n + 1, b, s, t, taker, stp)
<1> DEFINE i == s[n + 1]
           o == st.b.orders[i]
           S == Plains(b, s)
           y == Plains(st.b, u)
           r == Fill(st.b, i, left)
           z == Plains(r, u)
           side == Opposite(taker.action)
           g == Grown(Plain(o), left)
<1>1. Turn(st, n, q, u, b, s, taker, stp)
  BY TurnIs
<1>2. /\ S \in Seq(AllOrders) /\ taker.size \in Nat /\ q + 1 \in 1..Len(u) /\ q \in Nat
      /\ u[q + 1] = i /\ Continues(y, q + 1, S, n + 2) /\ Len(u) \in Nat /\ o \in SlotOrders
      /\ left \in Int /\ n + 2 \in 1..Len(s) + 1 /\ Len(S) = Len(s) /\ Len(s) \in Nat
      /\ i \in DOMAIN st.b.orders /\ i \in ToSet(s)
  <2>1. left \in 0..taker.size /\ taker.size \in Nat
    BY ONLY <1>1, left = taker.size - st.filled DEF Turn
  <2>2. /\ S \in Seq(AllOrders) /\ q + 1 \in 1..Len(u) /\ q \in Nat /\ u[q + 1] = i
        /\ Continues(y, q + 1, S, n + 2) /\ Len(u) \in Nat /\ o \in SlotOrders
        /\ n + 2 \in 1..Len(s) + 1 /\ Len(S) = Len(s) /\ Len(s) \in Nat
        /\ i \in DOMAIN st.b.orders /\ i \in ToSet(s)
    BY ONLY <1>1 DEF Turn
  <2>3. left \in Int
    BY ONLY <2>1
  <2>4. QED
    BY ONLY <2>1, <2>2, <2>3
<1>3. Running(st, u, b, s, t, taker) /\ st.aborted = FALSE
  BY DEF Going
<1>4. /\ st.events \in Seq(AllEvents) /\ st.filled \in 0..taker.size
      /\ Sound(st.b, side, u, t) /\ Elsewhere(st.b, b, s, u)
      /\ st.newBest = st.b.best[side]
  BY <1>3 DEF Running
<1>5. ListOf(st.b, side, u) /\ u \in Seq(DOMAIN st.b.orders)
  BY Zenon, <1>4, ListIs DEF Sound, SideSound, Linked
<1>6. LessIn(r, st.b, side, u, t, i, Grown(o, left))
  <2>1. side \in Actions
    BY Sides DEF Entering
  <2>2. LessIn(Fill(st.b, u[q + 1], left), st.b, side, u, t, u[q + 1],
               Grown(st.b.orders[u[q + 1]], left))
    BY Zenon, <1>2, <1>4, <2>1, FillKeeps
  <2>3. QED
    BY <1>2, <2>2
<1> HIDE DEF r
<1>7. /\ Sound(r, side, u, t) /\ DOMAIN r.orders = DOMAIN st.b.orders /\ r.best = st.b.best
      /\ \A j \in DOMAIN st.b.orders : r.orders[j] = IF j = i THEN Grown(o, left)
                                                     ELSE st.b.orders[j]
  BY ONLY <1>6 DEF LessIn
<1>8. Plain(Grown(o, left)) = g
  BY <1>2, AmountsIs
<1>9. /\ Len(u) \in Nat
      /\ \A m \in 1..Len(u) : u[m] \in DOMAIN st.b.orders
      /\ \A m, k \in 1..Len(u) : u[m] = u[k] => m = k
  BY <1>5 DEF ListOf
<1>10. /\ z \in Seq(AllOrders) /\ Len(z) = Len(u)
       /\ \A m \in 1..Len(u) : z[m] = Plain(r.orders[u[m]])
       /\ Len(y) = Len(u) /\ \A m \in 1..Len(u) : y[m] = Plain(st.b.orders[u[m]])
  <2>1. PlainList(r, u)
    BY <1>5, <1>7, PlainsAre DEF Sound
  <2>2. PlainList(st.b, u)
    BY <1>4, <1>5, PlainsAre DEF Sound
  <2>3. QED
    BY ONLY <2>1, <2>2 DEF PlainList, AllOrders
<1> HIDE DEF z, y, g, o, i, S
<1>11. z[q + 1] = g
  BY <1>2, <1>7, <1>8, <1>10
<1>12. \A m \in 1..Len(u) : m # q + 1 => z[m] = y[m]
  <2> SUFFICES ASSUME NEW m \in 1..Len(u), m # q + 1
               PROVE  z[m] = y[m]
    OBVIOUS
  <2>1. u[m] \in DOMAIN st.b.orders /\ u[m] # i
    BY <1>2, <1>9
  <2>2. r.orders[u[m]] = st.b.orders[u[m]]
    BY <1>7, <2>1
  <2>3. QED
    BY <1>10, <2>2
<1>13. Continues(z, q + 1, S, n + 2)
  <2>1. /\ q + 1 \in 0..Len(y) /\ n + 2 \in 1..Len(S) + 1
        /\ Len(y) = q + 1 + (Len(S) + 1 - (n + 2))
        /\ \A m \in n + 2..Len(S) : y[m - (n + 2) + 1 + (q + 1)] = S[m]
    BY <1>2 DEF Continues
  <2>2. \A m \in n + 2..Len(S) : /\ m - (n + 2) + 1 + (q + 1) \in 1..Len(u)
                                 /\ m - (n + 2) + 1 + (q + 1) # q + 1
    <3>1. q \in Int /\ n \in Int /\ Len(S) \in Int /\ Len(u) \in Int
      <4>1. n \in 0..Len(s)
        BY DEF Going
      <4>2. QED
        BY ONLY <1>2, <4>1
    <3>2. Len(u) = q + 1 + (Len(S) + 1 - (n + 2)) /\ q + 1 >= 0
      BY <1>2, <1>10, <2>1
    <3>3. QED
      BY ONLY <3>1, <3>2
  <2>3. \A m \in n + 2..Len(S) : z[m - (n + 2) + 1 + (q + 1)] = S[m]
    BY Zenon, <1>12, <2>1, <2>2
  <2>4. QED
    BY <1>10, <2>1, <2>3 DEF Continues
<1>14. z = Before(z, q + 1) \o P!From(S, n + 2)
  BY Zenon, <1>2, <1>10, <1>13, Pieces
<1>15. q \in 0..Len(z) /\ q + 1 \in 1..Len(z) /\ q \in 0..Len(y)
  BY <1>2, <1>10
<1>16. Before(z, q + 1) = Before(z, q) \o <<g>>
  BY Zenon, <1>10, <1>11, <1>15, BeforeGrows
<1>17. Before(z, q) = Before(y, q)
  <2>1. \A m \in 1..q : z[m] = y[m]
    BY <1>10, <1>12, <1>15
  <2>2. QED
    BY <2>1 DEF Before
<1>18. (Before(y, q) \o <<g>>) \o P!From(S, n + 2) = Before(y, q) \o (<<g>> \o P!From(S, n + 2))
  <2>1. Before(z, q) \in Seq(AllOrders)
    BY <1>10, <1>15, BeforeIs
  <2>2. <<g>> \in Seq(AllOrders)
    <3>1. z[q + 1] \in AllOrders
      BY <1>10, <1>15, ElementOfSeq
    <3>2. QED
      BY <1>11, <3>1
  <2>3. P!From(S, n + 2) \in Seq(AllOrders)
    <3>1. n + 2 \in 1..Len(S) + 1
      BY <1>2
    <3>2. QED
      BY <1>2, <3>1, P!Rest
  <2> DEFINE x1 == Before(z, q)
             x2 == <<g>>
             x3 == P!From(S, n + 2)
  <2>4. x1 \in Seq(AllOrders) /\ x2 \in Seq(AllOrders) /\ x3 \in Seq(AllOrders)
    BY <2>1, <2>2, <2>3
  <2>5. x1 = Before(y, q)
    BY <1>17
  <2> HIDE DEF x1, x2, x3
  <2>6. (x1 \o x2) \o x3 = x1 \o (x2 \o x3)
    BY ONLY <2>4, ConcatAssociative
  <2>7. QED
    BY <2>5, <2>6 DEF x2, x3
<1>19. ReadAs(Whole(b, s, taker, stp), Before(y, q) \o (<<g>> \o P!From(S, n + 2)),
              st.events \o <<e>>, taker.size - 0, FALSE)
  BY Zenon, WholeIs DEF y, g, S, o, i
<1>20. Append(st.events, e) \in Seq(AllEvents) /\ st.events \o <<e>> = Append(st.events, e)
  BY <1>4, AppendIsConcat, AppendProperties
<1>21. /\ taker.size - 0 = st.filled + left /\ st.filled + left \in 0..taker.size
  <2>1. taker.size \in Nat
    BY ONLY <1>2
  <2>2. st.filled \in 0..taker.size
    BY ONLY <1>4
  <2>3. QED
    BY ONLY <2>1, <2>2, left = taker.size - st.filled
<1>22. ReadAs(Whole(b, s, taker, stp), z, Append(st.events, e), st.filled + left, FALSE)
  BY ONLY Zenon, <1>14, <1>16, <1>17, <1>18, <1>19, <1>20, <1>21
<1>23. RunHas(v, r, Append(st.events, e), st.filled + left, st.aborted, st.newBest, st.intact,
              TRUE)
  BY Zenon, RunOf DEF r, i
<1>24. /\ v.b = r /\ v.events = Append(st.events, e) /\ v.filled = st.filled + left
       /\ v.aborted = FALSE /\ v.newBest = st.newBest /\ v.stopped = TRUE /\ IsRun(v)
  BY ONLY <1>3, <1>23 DEF RunHas
<1>25. Elsewhere(r, b, s, u)
  <2>1. DOMAIN st.b.orders = (DOMAIN b.orders \ ToSet(s)) \cup ToSet(u)
    BY <1>4 DEF Elsewhere
  <2>2. ASSUME NEW j \in DOMAIN b.orders \ ToSet(s)
        PROVE  Plain(r.orders[j]) = Plain(b.orders[j])
    <3>1. j \in DOMAIN st.b.orders /\ j # i
      BY <1>2, <2>1, <2>2
    <3>2. r.orders[j] = st.b.orders[j]
      BY <1>7, <3>1
    <3>3. Plain(st.b.orders[j]) = Plain(b.orders[j])
      BY <1>4 DEF Elsewhere
    <3>4. QED
      BY <3>2, <3>3
  <2>3. QED
    BY <1>7, <2>1, <2>2 DEF Elsewhere
<1>26. r.best[side] = st.newBest
  BY <1>4, <1>7
<1>27. Running(v, u, b, s, t, taker)
  BY ONLY <1>7, <1>20, <1>21, <1>24, <1>25, <1>26 DEF Running, side
<1>28. Ended(v, u, b, s, t, taker, stp)
  BY ONLY Zenon, <1>22, <1>24, <1>27 DEF Ended, z
<1>29. QED
  BY Zenon, <1>24, <1>28 DEF Onward

\* Before it leaves the book the order is as it is, or filled.
LEMMA ReadyAsIs ==
  ASSUME NEW b, NEW s, NEW t, NEW taker, NEW stp, NEW st, NEW n, NEW q, NEW u,
         Going(st, n, q, u, b, s, t, taker, stp)
  PROVE  Ready(st.b, st, s[n + 1], u, t, taker)
  BY DEF Going, Running, Ready

LEMMA ReadyFilled ==
  ASSUME NEW b, NEW s, NEW t, NEW taker, NEW stp, Entering(b, s, t, taker, stp),
         NEW st, NEW n, NEW q, NEW u, Going(st, n, q, u, b, s, t, taker, stp), n < Len(s),
         NEW by \in Int
  PROVE  Ready(Fill(st.b, s[n + 1], by), st, s[n + 1], u, t, taker)
<1> DEFINE i == s[n + 1]
           o == st.b.orders[i]
           r == Fill(st.b, i, by)
           side == Opposite(taker.action)
<1>1. Turn(st, n, q, u, b, s, taker, stp)
  BY TurnIs
<1>2. q + 1 \in 1..Len(u) /\ u[q + 1] = i /\ i \in DOMAIN st.b.orders /\ o \in SlotOrders
  BY ONLY <1>1 DEF Turn
<1>3. Sound(st.b, side, u, t)
  BY DEF Going, Running
<1>4. LessIn(r, st.b, side, u, t, i, Grown(o, by))
  <2>1. side \in Actions
    BY Sides DEF Entering
  <2>2. LessIn(Fill(st.b, u[q + 1], by), st.b, side, u, t, u[q + 1],
               Grown(st.b.orders[u[q + 1]], by))
    BY Zenon, <1>2, <1>3, <2>1, FillKeeps
  <2>3. QED
    BY <1>2, <2>2
<1>5. Grown(o, by).prev = o.prev
  BY Zenon, <1>2, AmountsIs DEF SameButAmount
<1> HIDE DEF r
<1>6. Ready(r, st, i, u, t, taker)
  BY ONLY <1>2, <1>4, <1>5 DEF LessIn, Ready, side, o
<1>7. QED
  BY <1>6 DEF r

LEMMA VisitKeeps ==
  ASSUME NEW b, NEW s, NEW t, NEW taker, NEW stp, Entering(b, s, t, taker, stp),
         NEW st, NEW n, NEW q, NEW u, Going(st, n, q, u, b, s, t, taker, stp), n < Len(s)
  PROVE  Onward(Visit(st, s[n + 1], taker, stp), n + 1, b, s, t, taker, stp)
<1> DEFINE i == s[n + 1]
           o == st.b.orders[i]
           S == Plains(b, s)
           left == taker.size - st.filled
           v == Visit(st, i, taker, stp)
           k == Next1(st, n, b, s, taker, stp)
           d == P!Visits(S, taker, stp)[n + 2]
           maker == S[n + 1]
           r == Remaining(o)
           own == Own(taker, o, stp)
           best == IF st.intact THEN o.prev ELSE st.newBest
<1>1. Turn(st, n, q, u, b, s, taker, stp)
  BY TurnIs
<1>2. /\ o \in SlotOrders /\ maker = Plain(o) /\ r \in Nat \ {0} /\ Remaining(maker) = r
      /\ left \in 0..taker.size /\ taker.size \in Nat
      /\ Goes(S, taker, n + 1, left) <=> Meets(st, i, taker)
      /\ Own(taker, maker, stp) <=> own
      /\ n + 1 \in 1..Len(s)
  BY ONLY <1>1 DEF Turn
<1>3. /\ RejectMaker(maker) = RejectMaker(o) /\ RejectMaker(o) \in AllEvents
      /\ \A size \in Int : /\ Trade(taker, maker, size) = Trade(taker, o, size)
                           /\ Trade(taker, o, size) \in AllEvents
  BY ONLY <1>1 DEF Turn
<1>4. IsRun(st) /\ st.filled \in 0..taker.size /\ st.aborted = FALSE /\ st.stopped = FALSE
  BY DEF Going, Running
<1>5. Visited(v, st, i, taker, stp)
  <2>1. Remaining(st.b.orders[i]) \in Int
    BY <1>2
  <2>2. QED
    BY <1>4, <2>1, VisitIs
<1>6. Reads(k, S, taker, stp, n + 1, left, d)
  <2>1. n + 1 \in 1..Len(s) + 1 /\ (n + 1) + 1 = n + 2
    BY <1>2 DEF Going
  <2>2. Reads(At(b, s, taker, stp, n + 1, left), S, taker, stp, n + 1, left,
              P!Visits(S, taker, stp)[(n + 1) + 1])
    BY <1>2, <2>1, WalkReads
  <2>3. QED
    BY <2>1, <2>2 DEF Next1
<1>7. stp \in P!Modes
  BY DEF Entering, P!Setting
<1>8. own => stp \in {"Skip", "CancelTaker", "CancelMaker", "CancelBoth"}
  BY <1>7 DEF P!Modes, Own
<1>9. \A l : d[l] = At(b, s, taker, stp, n + 2, l)
  BY DEF At
<1>10. Ready(st.b, st, i, u, t, taker) /\ Ready(Fill(st.b, i, r), st, i, u, t, taker)
  BY <1>2, ReadyAsIs, ReadyFilled
<1> HIDE DEF v, k, r, own, d, left, S, best
<1>11. CASE ~Meets(st, i, taker)
  <2>1. v = Run(st.b, st.events, st.filled, st.aborted, st.newBest, st.intact, TRUE)
    BY ONLY <1>5, <1>11 DEF Visited
  <2>2. ReadAs(k, P!From(S, n + 1), <<>>, taker.size - left, FALSE)
    BY ONLY Zenon, <1>6, <1>2, <1>11 DEF Reads
  <2>3. Onward(v, n + 1, b, s, t, taker, stp)
    BY Zenon, <1>4, <2>1, <2>2, StopsHere DEF k, S, left
  <2>4. QED
    BY <2>3 DEF v
<1>12. CASE Meets(st, i, taker) /\ own /\ stp = "Skip"
  <2>1. v = Run(st.b, st.events, st.filled, st.aborted, st.newBest, FALSE, st.stopped)
    BY ONLY <1>5, <1>12 DEF Visited, own, o
  <2>2. ReadAs(k, <<maker>> \o d[left].side, d[left].events, d[left].filled, d[left].aborted)
    BY ONLY <1>6, <1>2, <1>12 DEF Reads
  <2>3. LET a == At(b, s, taker, stp, n + 2, taker.size - st.filled)
        IN  ReadAs(Next1(st, n, b, s, taker, stp), <<Plain(st.b.orders[s[n + 1]])>> \o a.side,
                   a.events, a.filled, a.aborted)
    BY ONLY <1>2, <1>9, <2>2 DEF k, left, o, i
  <2>4. Onward(v, n + 1, b, s, t, taker, stp)
    BY Zenon, <2>1, <2>3, SkipsIt
  <2>5. QED
    BY <2>4 DEF v
<1>13. CASE Meets(st, i, taker) /\ own /\ stp = "CancelTaker"
  <2>1. v = Run(st.b, st.events, st.filled, TRUE, st.newBest, FALSE, TRUE)
    BY ONLY <1>5, <1>13 DEF Visited, own, o
  <2>2. ReadAs(k, P!From(S, n + 1), <<>>, taker.size - left, TRUE)
    BY ONLY Zenon, <1>6, <1>2, <1>13 DEF Reads
  <2>3. Onward(v, n + 1, b, s, t, taker, stp)
    BY Zenon, <2>1, <2>2, StopsHere DEF k, S, left
  <2>4. QED
    BY <2>3 DEF v
<1>14. CASE Meets(st, i, taker) /\ own /\ stp = "CancelMaker"
  <2>1. v = Run(Free(RemoveOrder(st.b, i), i), Append(st.events, RejectMaker(o)), st.filled,
                st.aborted, best, st.intact, st.stopped)
    BY ONLY <1>5, <1>14 DEF Visited, own, o, best
  <2>2. ReadAs(k, d[left].side, <<RejectMaker(o)>> \o d[left].events, d[left].filled,
               d[left].aborted)
    BY ONLY <1>6, <1>2, <1>3, <1>14 DEF Reads
  <2>3. LET a == At(b, s, taker, stp, n + 2, taker.size - st.filled)
        IN  ReadAs(Next1(st, n, b, s, taker, stp), a.side, <<RejectMaker(o)>> \o a.events,
                   a.filled, a.aborted)
    BY ONLY <1>9, <2>2 DEF k, left
  <2>4. Onward(v, n + 1, b, s, t, taker, stp)
    BY Zenon, <1>3, <1>4, <1>10, <2>1, <2>3, LeavesIt DEF best
  <2>5. QED
    BY <2>4 DEF v
<1>15. CASE Meets(st, i, taker) /\ own /\ stp = "CancelBoth"
  <2>1. v = Run(Free(RemoveOrder(st.b, i), i), Append(st.events, RejectMaker(o)), st.filled,
                TRUE, best, st.intact, TRUE)
    BY ONLY <1>5, <1>15 DEF Visited, own, o, best
  <2>2. ReadAs(k, P!From(S, (n + 1) + 1), <<RejectMaker(o)>>, taker.size - left, TRUE)
    BY ONLY Zenon, <1>6, <1>2, <1>3, <1>15 DEF Reads
  <2>3. (n + 1) + 1 = n + 2
    BY DEF Going
  <2>4. ReadAs(Next1(st, n, b, s, taker, stp), P!From(Plains(b, s), n + 2), <<RejectMaker(o)>>,
               taker.size - (taker.size - st.filled), TRUE)
    BY ONLY Zenon, <2>2, <2>3 DEF k, S, left
  <2>5. Onward(v, n + 1, b, s, t, taker, stp)
    BY Zenon, <1>3, <1>10, <2>1, <2>4, LeavesAndStops DEF best
  <2>6. QED
    BY <2>5 DEF v
<1>16. CASE Meets(st, i, taker) /\ ~own /\ left < r
  <2>1. v = Run(Fill(st.b, i, left), Append(st.events, Trade(taker, o, left)),
                st.filled + left, st.aborted, st.newBest, st.intact, TRUE)
    BY ONLY <1>5, <1>16 DEF Visited, own, o, left, r
  <2>2. Trade(taker, maker, left) = Trade(taker, o, left) /\ Trade(taker, o, left) \in AllEvents
    BY <1>2, <1>3
  <2>3. ReadAs(k, <<Grown(maker, left)>> \o P!From(S, (n + 1) + 1), <<Trade(taker, maker, left)>>,
               taker.size - 0, FALSE)
    BY ONLY Zenon, <1>6, <1>2, <1>16 DEF Reads
  <2>4. (n + 1) + 1 = n + 2
    BY DEF Going
  <2>5. ReadAs(Next1(st, n, b, s, taker, stp),
               <<Grown(Plain(st.b.orders[s[n + 1]]), left)>> \o P!From(Plains(b, s), n + 2),
               <<Trade(taker, o, left)>>, taker.size - 0, FALSE)
    BY ONLY Zenon, <1>2, <2>2, <2>3, <2>4 DEF k, S, o, i
  <2>6. Onward(v, n + 1, b, s, t, taker, stp)
    <3>1. left = taker.size - st.filled
      BY DEF left
    <3>2. QED
      BY Zenon, <2>1, <2>2, <2>5, <3>1, TradesPart
  <2>7. QED
    BY <2>6 DEF v
<1>17. CASE Meets(st, i, taker) /\ ~own /\ ~(left < r)
  <2>1. v = Run(Free(RemoveOrder(Fill(st.b, i, r), i), i),
                Append(st.events, Trade(taker, o, r)), st.filled + r, st.aborted, best,
                st.intact, st.stopped)
    BY ONLY <1>5, <1>17 DEF Visited, own, o, left, r, best
  <2>2. Trade(taker, maker, r) = Trade(taker, o, r) /\ Trade(taker, o, r) \in AllEvents
    BY <1>2, <1>3
  <2>3. ReadAs(k, d[left - r].side, <<Trade(taker, o, r)>> \o d[left - r].events,
               d[left - r].filled, d[left - r].aborted)
    BY ONLY <1>6, <1>2, <2>2, <1>17 DEF Reads
  <2>4. st.filled + r \in 0..taker.size /\ left - r = taker.size - (st.filled + r)
    BY <1>2, <1>4, <1>17 DEF left
  <2>5. LET a == At(b, s, taker, stp, n + 2, taker.size - (st.filled + r))
        IN  ReadAs(Next1(st, n, b, s, taker, stp), a.side, <<Trade(taker, o, r)>> \o a.events,
                   a.filled, a.aborted)
    BY ONLY <1>9, <2>3, <2>4 DEF k
  <2>6. Onward(v, n + 1, b, s, t, taker, stp)
    BY Zenon, <1>10, <2>1, <2>2, <2>4, <2>5, LeavesIt DEF best
  <2>7. QED
    BY <2>6 DEF v
<1>18. QED
  BY <1>8, <1>11, <1>12, <1>13, <1>14, <1>15, <1>16, <1>17

\* A run that has stopped stays as it is.
LEMMA StoppedStays ==
  ASSUME NEW st, IsRun(st), st.stopped = TRUE, NEW i, NEW taker, NEW stp
  PROVE  Visit(st, i, taker, stp) = st
<1>1. Visit(st, i, taker, stp) = SetStopped(st, TRUE)
  BY Zenon DEF Visit, SetStopped
<1>2. SetStopped(st, TRUE)
        = Run(st.b, st.events, st.filled, st.aborted, st.newBest, st.intact, TRUE)
  BY RunChanged, Zenon DEF SetsRun
<1>3. QED
  BY Zenon, <1>1, <1>2 DEF IsRun

\* The visits of the walk are what their definition says.
IsVisits(f, b, chain, taker, stp) ==
  f = [n \in 0..Len(chain) |->
         IF n = 0 THEN Start(b, Opposite(taker.action))
         ELSE Visit(f[n - 1], chain[n], taker, stp)]

LEMMA VisitsExist ==
  ASSUME NEW b, NEW chain, Len(chain) \in Nat, NEW taker, NEW stp
  PROVE  \E f : IsVisits(f, b, chain, taker, stp)
<1> DEFINE Row(f, m) == IF m = 0 THEN Start(b, Opposite(taker.action))
                        ELSE Visit(f[m - 1], chain[m], taker, stp)
           T == {n \in Nat : \E f : f = [m \in 0..n |-> Row(f, m)]}
<1>1. \A f, g : Row(f, 0) = Row(g, 0)
  OBVIOUS
<1>2. \A f, g, m : f[m - 1] = g[m - 1] => Row(f, m) = Row(g, m)
  OBVIOUS
<1> HIDE DEF Row
<1>3. 0 \in T
  <2> DEFINE f == [m \in 0..0 |-> Row(<<>>, 0)]
  <2>1. \A m \in 0..0 : m = 0
    OBVIOUS
  <2>2. \A m \in 0..0 : Row(<<>>, 0) = Row(f, m)
    <3> HIDE DEF f
    <3>1. QED
      BY <1>1, <2>1
  <2>3. f = [m \in 0..0 |-> Row(f, m)]
    BY <2>2
  <2> HIDE DEF f
  <2>4. QED
    BY <2>3
<1>4. ASSUME NEW n \in Nat, n \in T
      PROVE  n + 1 \in T
  <2>1. PICK f : f = [m \in 0..n |-> Row(f, m)]
    BY <1>4
  <2> DEFINE g == [m \in 0..n + 1 |-> IF m = n + 1 THEN Row(f, n + 1) ELSE f[m]]
  <2>2. ASSUME NEW m \in 0..n + 1
        PROVE  g[m] = Row(g, m)
    <3>1. g[m] = IF m = n + 1 THEN Row(f, n + 1) ELSE f[m]
      OBVIOUS
    <3>2. m # n + 1 => m \in 0..n /\ f[m] = Row(f, m)
      BY <2>1
    <3>3. m # 0 => m - 1 \in 0..n + 1 /\ m - 1 # n + 1
      OBVIOUS
    <3>4. m # 0 => g[m - 1] = f[m - 1]
      BY <3>3
    <3> HIDE DEF g
    <3>5. Row(f, m) = Row(g, m)
      BY <3>4, <1>1, <1>2
    <3>6. QED
      BY <3>1, <3>2, <3>5
  <2>3. g = [m \in 0..n + 1 |-> Row(g, m)]
    BY <2>2
  <2> HIDE DEF g
  <2>4. QED
    BY <2>3
<1>5. \A n \in Nat : n \in T
  <2> HIDE DEF T
  <2>1. QED
    BY <1>3, <1>4, SetInduction
<1>6. PICK f : f = [m \in 0..Len(chain) |-> Row(f, m)]
  BY <1>5
<1>7. IsVisits(f, b, chain, taker, stp)
  BY ONLY <1>6 DEF IsVisits, Row
<1>8. QED
  BY <1>7

\* The first run and every next one.
VisitsHave(at, b, chain, taker, stp) ==
  /\ at[0] = Start(b, Opposite(taker.action))
  /\ \A n \in 1..Len(chain) : at[n] = Visit(at[n - 1], chain[n], taker, stp)

LEMMA VisitsAre ==
  ASSUME NEW b, NEW chain, Len(chain) \in Nat, NEW taker, NEW stp
  PROVE  VisitsHave(Visits(b, chain, taker, stp), b, chain, taker, stp)
<1> DEFINE at == Visits(b, chain, taker, stp)
<1>1. PICK f : IsVisits(f, b, chain, taker, stp)
  BY Zenon, VisitsExist
<1>2. at = CHOOSE g : IsVisits(g, b, chain, taker, stp)
  BY Zenon DEF Visits, IsVisits
<1>3. IsVisits(at, b, chain, taker, stp)
  <2> HIDE DEF at
  <2>1. QED
    BY <1>1, <1>2
<1> HIDE DEF at
<1>4. \A n \in 0..Len(chain) :
        at[n] = IF n = 0 THEN Start(b, Opposite(taker.action))
                ELSE Visit(at[n - 1], chain[n], taker, stp)
  BY <1>3 DEF IsVisits
<1>5. 0 \in 0..Len(chain) /\ \A n \in 1..Len(chain) : n \in 0..Len(chain) /\ n # 0
  OBVIOUS
<1>6. VisitsHave(at, b, chain, taker, stp)
  BY ONLY <1>4, <1>5 DEF VisitsHave
<1>7. QED
  BY <1>6 DEF at

\* At its start the run is going on.
LEMMA StartGoes ==
  ASSUME NEW b, NEW s, NEW t, NEW taker, NEW stp, Entering(b, s, t, taker, stp)
  PROVE  Going(Start(b, Opposite(taker.action)), 0, 0, s, b, s, t, taker, stp)
<1> DEFINE side == Opposite(taker.action)
           st == Start(b, side)
           whole == Whole(b, s, taker, stp)
<1>1. /\ Typed(b) /\ Sound(b, side, s, t) /\ side \in Actions /\ Linked(b, side, s)
      /\ P!Setting(Plains(b, s), taker, stp, Users, OrderIds)
  BY Sides DEF Entering, Sound, SideSound
<1>2. /\ Len(s) \in Nat /\ s \in Seq(DOMAIN b.orders) /\ taker.size \in Nat
  BY ONLY <1>1, SlotsOf DEF Linked, P!Setting
<1>3. RunHas(st, b, <<>>, 0, FALSE, b.best[side], TRUE, FALSE)
  BY Zenon, RunOf DEF Start, Run
<1>4. /\ st.b = b /\ st.events = <<>> /\ st.filled = 0 /\ st.aborted = FALSE
      /\ st.newBest = b.best[side] /\ st.intact = TRUE /\ st.stopped = FALSE /\ IsRun(st)
  BY ONLY <1>3 DEF RunHas
<1> HIDE DEF st
<1>5. Elsewhere(b, b, s, s)
  <2>1. ToSet(s) \subseteq DOMAIN b.orders
    BY Zenon, <1>1, Apart
  <2>2. QED
    BY <2>1 DEF Elsewhere
<1>6. <<>> \in Seq(AllEvents) /\ 0 \in 0..taker.size /\ taker.size \in 0..taker.size
      /\ 1 \in 1..Len(s) + 1 /\ taker.size - 0 = taker.size /\ 0 + 1 = 1
  BY <1>2
<1>7. Running(st, s, b, s, t, taker)
  BY ONLY <1>1, <1>4, <1>5, <1>6 DEF Running, side
<1>8. whole.side \in Seq(AllOrders) /\ whole.events \in Seq(AllEvents)
  BY <1>6, WalkReads DEF Whole
<1> HIDE DEF whole
<1>9. Before(Plains(b, s), 0) = <<>>
  BY DEF Before
<1>10. whole.side = <<>> \o whole.side /\ whole.events = <<>> \o whole.events
  BY ONLY <1>8, ConcatEmptySeq
<1>11. whole = At(b, s, taker, stp, 0 + 1, taker.size - st.filled)
  BY ONLY <1>4, <1>6 DEF whole, Whole
<1>12. /\ 0 \in 0..Len(s) /\ 0 \in Nat /\ Len(s) = 0 + (Len(s) - 0)
       /\ \A m \in 0 + 1..Len(s) : m - 0 + 0 = m
  BY <1>2
<1>13. QED
  BY ONLY Zenon, <1>4, <1>7, <1>9, <1>10, <1>11, <1>12 DEF Going, whole, st, side

\* At the end of the list the run has ended.
LEMMA EndOfList ==
  ASSUME NEW b, NEW s, NEW t, NEW taker, NEW stp, Entering(b, s, t, taker, stp),
         NEW st, NEW n, n = Len(s), NEW q, NEW u, Going(st, n, q, u, b, s, t, taker, stp)
  PROVE  Ended(st, u, b, s, t, taker, stp)
<1> DEFINE z == Plains(st.b, u)
           S == Plains(b, s)
           left == taker.size - st.filled
           k == At(b, s, taker, stp, n + 1, left)
           side == Opposite(taker.action)
<1>1. /\ Running(st, u, b, s, t, taker) /\ q \in Nat /\ Len(u) = q + (Len(s) - n)
      /\ st.aborted = FALSE /\ st.filled \in 0..taker.size
      /\ st.events \in Seq(AllEvents) /\ Sound(st.b, side, u, t) /\ side \in Actions
  BY Sides DEF Going, Running, Entering
<1>2. /\ Typed(b) /\ Linked(b, side, s) /\ taker.size \in Nat
  BY DEF Entering, Sound, SideSound, P!Setting
<1>3. PlainList(b, s)
  BY <1>2, PlainsAre DEF Linked
<1>4. Len(S) = Len(s) /\ Len(s) \in Nat /\ S \in Seq(AllOrders)
  BY ONLY <1>3 DEF PlainList, AllOrders
<1>5. Typed(st.b) /\ Linked(st.b, side, u)
  BY <1>1 DEF Sound, SideSound
<1>6. PlainList(st.b, u)
  BY <1>5, PlainsAre DEF Linked
<1>7. Len(z) = Len(u) /\ Len(u) \in Nat /\ z \in Seq(AllOrders)
  BY ONLY <1>6 DEF PlainList, AllOrders
<1>8. n + 1 \in 1..Len(s) + 1 /\ left \in 0..taker.size
  BY <1>1, <1>2, <1>4
<1>9. Reads(k, S, taker, stp, n + 1, left, P!Visits(S, taker, stp)[(n + 1) + 1])
  BY <1>8, WalkReads
<1>10. ~Goes(S, taker, n + 1, left)
  BY <1>4 DEF Goes
<1>11. ReadAs(k, P!From(S, n + 1), <<>>, taker.size - left, FALSE)
  BY ONLY Zenon, <1>9, <1>10 DEF Reads
<1>12. ReadAs(Whole(b, s, taker, stp), Before(z, q) \o P!From(S, n + 1),
              st.events \o <<>>, taker.size - left, FALSE)
  BY Zenon, <1>11, WholeIs DEF Next1
<1> HIDE DEF z, S
<1>13. Continues(z, q, S, n + 1)
  <2>1. /\ q \in 0..Len(z) /\ n + 1 \in 1..Len(S) + 1 /\ Len(z) = q + (Len(S) + 1 - (n + 1))
        /\ \A m \in n + 1..Len(S) : FALSE
    BY ONLY <1>1, <1>4, <1>7, n = Len(s)
  <2>2. QED
    BY <2>1 DEF Continues
<1>14. z = Before(z, q) \o P!From(S, n + 1)
  BY <1>4, <1>7, <1>13, Pieces
<1>15. st.events \o <<>> = st.events
  BY <1>1, ConcatEmptySeq
<1>16. taker.size - left = st.filled
  BY <1>1, <1>2
<1>17. ReadAs(Whole(b, s, taker, stp), z, st.events, st.filled, st.aborted)
  BY ONLY Zenon, <1>1, <1>12, <1>14, <1>15, <1>16
<1>18. QED
  BY ONLY <1>1, <1>17 DEF Ended, z

\* The run after the n-th visit.
LEMMA RunKeeps ==
  ASSUME NEW b, NEW s, NEW t, NEW taker, NEW stp, Entering(b, s, t, taker, stp)
  PROVE  \A n \in 0..Len(s) : Onward(Visits(b, s, taker, stp)[n], n, b, s, t, taker, stp)
<1> DEFINE at == Visits(b, s, taker, stp)
           T == {n \in Nat : n <= Len(s) => Onward(at[n], n, b, s, t, taker, stp)}
<1>1. Len(s) \in Nat
  <2>1. Typed(b) /\ Linked(b, Opposite(taker.action), s)
    BY DEF Entering, Sound, SideSound
  <2>2. QED
    BY <2>1, SlotsOf
<1>2. VisitsHave(at, b, s, taker, stp)
  BY <1>1, VisitsAre
<1> HIDE DEF at
<1>3. 0 \in T
  <2>1. at[0] = Start(b, Opposite(taker.action))
    BY ONLY <1>2 DEF VisitsHave
  <2>2. Going(at[0], 0, 0, s, b, s, t, taker, stp)
    BY <2>1, StartGoes
  <2>3. QED
    BY <2>2 DEF Onward
<1>4. ASSUME NEW n \in Nat, n \in T
      PROVE  n + 1 \in T
  <2> SUFFICES ASSUME n + 1 <= Len(s)
               PROVE  Onward(at[n + 1], n + 1, b, s, t, taker, stp)
    OBVIOUS
  <2>1. n < Len(s) /\ Onward(at[n], n, b, s, t, taker, stp)
    BY <1>1, <1>4
  <2>2. at[n + 1] = Visit(at[n], s[n + 1], taker, stp)
    <3>1. \A m \in 1..Len(s) : at[m] = Visit(at[m - 1], s[m], taker, stp)
      BY ONLY <1>2 DEF VisitsHave
    <3>2. n + 1 \in 1..Len(s) /\ (n + 1) - 1 = n
      BY <1>1
    <3>3. at[n + 1] = Visit(at[(n + 1) - 1], s[n + 1], taker, stp)
      BY ONLY <3>1, <3>2
    <3>4. QED
      BY ONLY <3>2, <3>3
  <2>3. CASE \E q, u : Going(at[n], n, q, u, b, s, t, taker, stp)
    <3>1. PICK q, u : Going(at[n], n, q, u, b, s, t, taker, stp)
      BY <2>3
    <3>2. Onward(Visit(at[n], s[n + 1], taker, stp), n + 1, b, s, t, taker, stp)
      BY <2>1, <3>1, VisitKeeps
    <3>3. QED
      BY <3>2, <2>2
  <2>4. CASE at[n].stopped = TRUE /\ \E u : Ended(at[n], u, b, s, t, taker, stp)
    <3>1. IsRun(at[n])
      BY <2>4 DEF Ended, Running
    <3>4. at[n].stopped = TRUE
      BY ONLY <2>4
    <3> DEFINE a == at[n]
    <3>5. IsRun(a) /\ a.stopped = TRUE
      BY ONLY <3>1, <3>4
    <3> HIDE DEF a
    <3>6. Visit(a, s[n + 1], taker, stp) = a
      BY ONLY Zenon, <3>5, StoppedStays
    <3>2. Visit(at[n], s[n + 1], taker, stp) = at[n]
      BY ONLY <3>6 DEF a
    <3>3. QED
      BY ONLY <2>2, <2>4, <3>2 DEF Onward
  <2>5. QED
    BY Zenon, <2>1, <2>3, <2>4 DEF Onward
<1>5. \A n \in Nat : n \in T
  <2> HIDE DEF T
  <2>1. QED
    BY <1>3, <1>4, SetInduction
<1>6. QED
  BY <1>1, <1>5 DEF at

\* The best pointer has followed the list all along.
LEMMA BestStands ==
  ASSUME NEW st, NEW u, NEW b, NEW s, NEW t, NEW taker, Running(st, u, b, s, t, taker)
  PROVE  [st EXCEPT !.b.best[Opposite(taker.action)] = st.newBest] = st
<1> DEFINE side == Opposite(taker.action)
           x == [st.b.best EXCEPT ![side] = st.newBest]
<1>1. /\ IsRun(st) /\ IsBook(st.b) /\ st.b.best \in [Actions -> Nat]
      /\ st.newBest = st.b.best[side]
  BY DEF Running, Sound, Typed
<1>2. x = st.b.best
  BY ONLY <1>1
<1>3. [st EXCEPT !.b.best[side] = st.newBest] = SetRunBook(st, SetBest(st.b, x))
  BY DEF SetRunBook, SetBest
<1> HIDE DEF x
<1>4. SetBest(st.b, x) = st.b
  <2>1. SetBest(st.b, x) = Book(st.b.orders, st.b.buckets, st.b.index, st.b.levels, x)
    BY <1>1, FieldsChanged
  <2>2. QED
    BY ONLY <1>1, <1>2, <2>1 DEF IsBook
<1>5. SetRunBook(st, st.b) = st
  <2>1. SetsRun(st)
    BY <1>1, RunChanged
  <2>2. SetRunBook(st, st.b) = Run(st.b, st.events, st.filled, st.aborted, st.newBest,
                                   st.intact, st.stopped)
    BY ONLY <2>1 DEF SetsRun
  <2>3. QED
    BY ONLY <1>1, <2>2 DEF IsRun
<1>6. QED
  BY ONLY <1>3, <1>4, <1>5 DEF side

\* try_match makes of the side what the abstract walk makes of it, with the same events
\* and the same fill; u is the list then.
LEMMA TryMatchEnds ==
  ASSUME NEW b, NEW s, NEW t, NEW taker, NEW stp, Entering(b, s, t, taker, stp)
  PROVE  \E u : Ended(TryMatch(b, taker, stp), u, b, s, t, taker, stp)
<1> DEFINE side == Opposite(taker.action)
           end == Visits(b, s, taker, stp)[Len(s)]
<1>1. Typed(b) /\ Linked(b, side, s)
  BY DEF Entering, Sound, SideSound
<1>2. Chain(b, side) = s
  BY <1>1, ChainIs
<1>3. TryMatch(b, taker, stp) = [end EXCEPT !.b.best[side] = end.newBest]
  <2>1. TryMatch(b, taker, stp)
          = [Visits(b, Chain(b, side), taker, stp)[Len(Chain(b, side))] EXCEPT
               !.b.best[side]
                 = Visits(b, Chain(b, side), taker, stp)[Len(Chain(b, side))].newBest]
    BY Zenon DEF TryMatch
  <2>2. QED
    BY Zenon, <1>2, <2>1
<1>4. Len(s) \in 0..Len(s)
  <2>1. Len(s) \in Nat
    BY <1>1, SlotsOf
  <2>2. QED
    BY <2>1
<1>5. Onward(end, Len(s), b, s, t, taker, stp)
  <2>1. \A n \in 0..Len(s) : Onward(Visits(b, s, taker, stp)[n], n, b, s, t, taker, stp)
    BY RunKeeps
  <2>2. QED
    BY ONLY <1>4, <2>1
<1> HIDE DEF end
<1>6. \E u : Ended(end, u, b, s, t, taker, stp)
  <2>1. CASE \E q, u : Going(end, Len(s), q, u, b, s, t, taker, stp)
    <3>1. PICK q, u : Going(end, Len(s), q, u, b, s, t, taker, stp)
      BY <2>1
    <3>2. Ended(end, u, b, s, t, taker, stp)
      BY <3>1, EndOfList
    <3>3. QED
      BY <3>2
  <2>2. QED
    BY ONLY <1>5, <2>1 DEF Onward
<1>7. PICK u : Ended(end, u, b, s, t, taker, stp)
  BY <1>6
<1>8. Running(end, u, b, s, t, taker)
  BY ONLY <1>7 DEF Ended
<1>9. TryMatch(b, taker, stp) = end
  BY ONLY <1>3, <1>8, BestStands DEF side
<1>10. QED
  BY ONLY <1>7, <1>9

=============================================================================
