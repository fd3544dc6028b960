----------------------------- MODULE ServerProofs -----------------------------
(***************************************************************************)
(* Proofs about Server, for every set of clients, every number of requests, *)
(* deposits and deaths, and every loss a death may cause.                   *)
(***************************************************************************)
EXTENDS Server, Integers, TLAPS, FiniteSetTheorems, SequenceTheorems

-----------------------------------------------------------------------------
(* The balance of a history *)

Credited(h, c) == {i \in 1..Len(h) : h[i].uid = c /\ Credits(h, i)}

LEMMA BalanceIs ==
  ASSUME NEW h, NEW c
  PROVE  Balance(h, c) = Cardinality(Credited(h, c))
BY DEF Balance, Credited

LEMMA BalanceType ==
  ASSUME NEW h \in Seq(Deposits), NEW c
  PROVE  IsFiniteSet(Credited(h, c)) /\ Balance(h, c) \in Nat
<1>1. Len(h) \in Nat
  BY LenProperties
<1>2. IsFiniteSet(1..Len(h))
  BY <1>1, FS_Interval
<1>3. Credited(h, c) \in SUBSET (1..Len(h))
  BY DEF Credited
<1>4. IsFiniteSet(Credited(h, c))
  BY <1>2, <1>3, FS_Subset
<1>5. QED
  BY <1>4, FS_CardinalityType, BalanceIs

\* What is credited in a history is credited in its prefixes, as far as they reach.
LEMMA CreditedPrefix ==
  ASSUME NEW h \in Seq(Deposits), NEW c, NEW n \in 0..Len(h)
  PROVE  Credited(SubSeq(h, 1, n), c) = Credited(h, c) \cap (1..n)
<1>1. Len(h) \in Nat
  BY LenProperties
<1>2. Len(SubSeq(h, 1, n)) = n /\ \A i \in 1..n : SubSeq(h, 1, n)[i] = h[i]
  BY <1>1, SubSeqProperties
<1>3. \A i \in 1..n : Credits(SubSeq(h, 1, n), i) <=> Credits(h, i)
  <2> SUFFICES ASSUME NEW i \in 1..n
               PROVE  Credits(SubSeq(h, 1, n), i) <=> Credits(h, i)
    OBVIOUS
  <2>1. \A j \in 1..(i - 1) : j \in 1..n
    BY <1>1
  <2>2. SubSeq(h, 1, n)[i] = h[i] /\ \A j \in 1..(i - 1) : SubSeq(h, 1, n)[j] = h[j]
    BY <1>2, <2>1
  <2>3. QED
    BY <2>2 DEF Credits
<1>4. \A i \in 1..n : i \in 1..Len(h)
  BY <1>1
<1>5. QED
  BY <1>2, <1>3, <1>4 DEF Credited

\* Taking m commands from the end of a history costs at most m deposits.
LEMMA BalancePrefix ==
  ASSUME NEW h \in Seq(Deposits), NEW c, NEW n \in 0..Len(h)
  PROVE  /\ SubSeq(h, 1, n) \in Seq(Deposits)
         /\ Balance(SubSeq(h, 1, n), c) \in Nat
         /\ Balance(SubSeq(h, 1, n), c) <= Balance(h, c)
         /\ Balance(h, c) <= Balance(SubSeq(h, 1, n), c) + (Len(h) - n)
<1> DEFINE P == Credited(h, c) \cap (1..n)
           R == Credited(h, c) \cap ((n + 1)..Len(h))
<1>1. Len(h) \in Nat
  BY LenProperties
<1>2. SubSeq(h, 1, n) \in Seq(Deposits)
  BY <1>1, SubSeqProperties
<1>3. Balance(SubSeq(h, 1, n), c) = Cardinality(P) /\ Balance(h, c) = Cardinality(Credited(h, c))
  BY CreditedPrefix, BalanceIs
<1>4. IsFiniteSet(Credited(h, c)) /\ P \in SUBSET Credited(h, c)
  BY BalanceType
<1>5. IsFiniteSet(P) /\ Cardinality(P) <= Cardinality(Credited(h, c))
  BY <1>4, FS_Subset
<1>6. IsFiniteSet(R) /\ Cardinality(R) <= Len(h) - n
  <2>1. IsFiniteSet((n + 1)..Len(h)) /\ Cardinality((n + 1)..Len(h)) = Len(h) - n
    <3>1. n + 1 \in Int /\ Len(h) \in Int /\ n \in Int /\ n <= Len(h)
      BY <1>1
    <3>2. /\ IsFiniteSet((n + 1)..Len(h))
          /\ Cardinality((n + 1)..Len(h)) = IF n + 1 > Len(h) THEN 0 ELSE Len(h) - (n + 1) + 1
      BY <3>1, FS_Interval, Zenon
    <3>3. (IF n + 1 > Len(h) THEN 0 ELSE Len(h) - (n + 1) + 1) = Len(h) - n
      BY <3>1
    <3>4. QED
      BY <3>2, <3>3
  <2>2. R \in SUBSET ((n + 1)..Len(h))
    OBVIOUS
  <2>3. QED
    BY <2>1, <2>2, FS_Subset
<1>7. Credited(h, c) = P \cup R
  BY <1>1 DEF Credited
<1>8. Cardinality(Credited(h, c)) = Cardinality(P) + Cardinality(R) - Cardinality(P \cap R)
  BY <1>5, <1>6, <1>7, FS_Union
<1>9. IsFiniteSet(P \cap R)
  BY <1>5, FS_Subset
<1>10. Cardinality(P) \in Nat /\ Cardinality(R) \in Nat /\ Cardinality(P \cap R) \in Nat
  BY <1>5, <1>6, <1>9, FS_CardinalityType
<1>11. QED
  BY <1>1, <1>2, <1>3, <1>5, <1>6, <1>8, <1>10

\* Balances stand still or grow by one.
LEMMA BalanceAppend ==
  ASSUME NEW h \in Seq(Deposits), NEW d \in Deposits, NEW c
  PROVE  /\ Append(h, d) \in Seq(Deposits)
         /\ Len(Append(h, d)) = Len(h) + 1
         /\ SubSeq(Append(h, d), 1, Len(h)) = h
         /\ Balance(h, c) <= Balance(Append(h, d), c)
         /\ d.uid = c /\ Credits(Append(h, d), Len(h) + 1) =>
              Balance(Append(h, d), c) = Balance(h, c) + 1
<1> DEFINE g == Append(h, d)
<1>1. Len(h) \in Nat
  BY LenProperties
<1>2. g \in Seq(Deposits) /\ Len(g) = Len(h) + 1 /\ g[Len(h) + 1] = d
  BY AppendProperties
<1>3. SubSeq(g, 1, Len(h)) = h
  <2>1. \A i \in 1..Len(h) : g[i] = h[i]
    BY AppendProperties
  <2>2. SubSeq(g, 1, Len(h)) \in Seq(Deposits) /\ Len(SubSeq(g, 1, Len(h))) = Len(h)
        /\ \A i \in 1..Len(h) : SubSeq(g, 1, Len(h))[i] = g[i]
    BY <1>1, <1>2, SubSeqProperties
  <2>3. QED
    BY <2>1, <2>2, SeqEqual
<1>4. Len(h) \in 0..Len(g)
  BY <1>1, <1>2
<1>5. Balance(h, c) <= Balance(g, c)
  BY <1>2, <1>3, <1>4, BalancePrefix
<1> HIDE DEF g
<1>6. ASSUME d.uid = c, Credits(g, Len(h) + 1)
      PROVE  Balance(g, c) = Balance(h, c) + 1
  <2>1. Credited(h, c) = Credited(g, c) \cap (1..Len(h))
    <3>1. Credited(SubSeq(g, 1, Len(h)), c) = Credited(g, c) \cap (1..Len(h))
      BY <1>2, <1>4, CreditedPrefix
    <3>2. QED
      BY <1>3, <3>1
  <2>2. Len(h) + 1 \in Credited(g, c)
    BY <1>1, <1>2, <1>6 DEF Credited
  <2>3. Credited(g, c) \subseteq 1..(Len(h) + 1)
    BY <1>2 DEF Credited
  <2>4. Credited(g, c) = Credited(h, c) \cup {Len(h) + 1} /\ Len(h) + 1 \notin Credited(h, c)
    BY <1>1, <2>1, <2>2, <2>3
  <2>5. IsFiniteSet(Credited(h, c))
    BY BalanceType
  <2>6. Cardinality(Credited(g, c)) = Cardinality(Credited(h, c)) + 1
    BY <2>4, <2>5, FS_AddElement
  <2>7. QED
    BY <2>6, BalanceIs
<1>7. QED
  BY <1>2, <1>3, <1>5, <1>6 DEF g

\* The credited deposits of a client have rising transaction ids: there are at most
\* as many of them as the highest one says.
LEMMA BalanceBound ==
  ASSUME NEW h \in Seq(Deposits), NEW c, NEW b \in Nat,
         \A i \in 1..Len(h) : h[i].uid = c => h[i].tx <= b
  PROVE  Balance(h, c) <= b
<1> DEFINE f == [i \in Credited(h, c) |-> h[i].tx]
<1>1. Len(h) \in Nat /\ \A i \in 1..Len(h) : h[i] \in Deposits
  BY LenProperties, ElementOfSeq
<1>2. \A i \in 1..Len(h) : h[i].tx \in Nat /\ h[i].tx >= 1
  BY <1>1, ServerAssumption DEF Deposits
<1>3. f \in [Credited(h, c) -> 1..b]
  BY <1>2 DEF Credited
<1>4. \A i, j \in Credited(h, c) : i < j => f[i] < f[j]
  BY <1>1 DEF Credited, Credits
<1>5. \A i, j \in Credited(h, c) : f[i] = f[j] => i = j
  <2> SUFFICES ASSUME NEW i \in Credited(h, c), NEW j \in Credited(h, c), f[i] = f[j], i # j
               PROVE  FALSE
    OBVIOUS
  <2>1. i \in Nat /\ j \in Nat /\ f[i] \in Nat /\ f[j] \in Nat
    BY <1>1, <1>3 DEF Credited
  <2>2. f[i] < f[j] \/ f[j] < f[i]
    BY <1>4, <2>1
  <2>3. QED
    BY <2>1, <2>2
<1>6. f \in Injection(Credited(h, c), 1..b)
  BY <1>3, <1>5 DEF Injection, IsInjective
<1>7. IsFiniteSet(1..b) /\ Cardinality(1..b) = b
  BY FS_Interval
<1>8. Cardinality(Credited(h, c)) <= Cardinality(1..b)
  BY <1>6, <1>7, FS_Injection
<1>9. QED
  BY <1>7, <1>8, BalanceIs

-----------------------------------------------------------------------------
(* The channel *)

Messages == Requests \cup {ShutdownMessage}

\* The requests in a channel.
Of(ch) == {ch[i] : i \in {j \in DOMAIN ch : ch[j].kind # "shutdown"}}

\* No request is in a channel twice.
Single(ch) ==
  \A i, j \in DOMAIN ch :
    ch[i] # ShutdownMessage /\ ch[j] # ShutdownMessage /\ SameRequest(ch[i], ch[j]) => i = j

LEMMA MessageKinds ==
  /\ ShutdownMessage.kind = "shutdown"
  /\ \A r \in Requests : r.kind \in {"deposit", "query"} /\ r # ShutdownMessage
BY DEF Requests, ShutdownMessage

LEMMA OfTyped ==
  ASSUME NEW ch \in Seq(Messages)
  PROVE  /\ Of(ch) \subseteq Requests
         /\ \A i \in 1..Len(ch) : ch[i] # ShutdownMessage => ch[i] \in Of(ch)
         /\ \A r \in Of(ch) : \E i \in 1..Len(ch) : ch[i] = r /\ r # ShutdownMessage
<1>1. DOMAIN ch = 1..Len(ch) /\ \A i \in 1..Len(ch) : ch[i] \in Messages
  BY LenProperties, ElementOfSeq
<1>2. \A i \in 1..Len(ch) : ch[i].kind # "shutdown" <=> ch[i] # ShutdownMessage
  BY <1>1, MessageKinds DEF Messages
<1>3. QED
  BY <1>1, <1>2, MessageKinds DEF Of, Messages

LEMMA OfNone == Of(<<>>) = {} /\ Single(<<>>)
BY DEF Of, Single

LEMMA OfAppend ==
  ASSUME NEW ch \in Seq(Messages), NEW m \in Messages
  PROVE  /\ Append(ch, m) \in Seq(Messages)
         /\ Of(Append(ch, m)) = Of(ch) \cup (IF m = ShutdownMessage THEN {} ELSE {m})
         /\ Single(ch) /\ (m # ShutdownMessage => \A q \in Of(ch) : ~SameRequest(m, q))
              => Single(Append(ch, m))
<1> DEFINE g == Append(ch, m)
<1>1. Len(ch) \in Nat /\ DOMAIN ch = 1..Len(ch)
  BY LenProperties
<1>2. g \in Seq(Messages) /\ Len(g) = Len(ch) + 1 /\ DOMAIN g = 1..(Len(ch) + 1)
      /\ g[Len(ch) + 1] = m /\ \A i \in 1..Len(ch) : g[i] = ch[i]
  BY AppendProperties, LenProperties
<1> HIDE DEF g
<1>3. Of(g) \subseteq Of(ch) \cup (IF m = ShutdownMessage THEN {} ELSE {m})
  <2> SUFFICES ASSUME NEW r \in Of(g)
               PROVE  r \in Of(ch) \cup (IF m = ShutdownMessage THEN {} ELSE {m})
    OBVIOUS
  <2>1. PICK i \in 1..Len(g) : g[i] = r /\ r # ShutdownMessage
    BY <1>2, OfTyped
  <2>2. CASE i = Len(ch) + 1
    BY <2>1, <2>2, <1>2
  <2>3. CASE i \in 1..Len(ch)
    BY <2>1, <2>3, <1>2, OfTyped
  <2>4. QED
    BY <1>1, <1>2, <2>1, <2>2, <2>3
<1>4. Of(ch) \subseteq Of(g)
  <2> SUFFICES ASSUME NEW r \in Of(ch)
               PROVE  r \in Of(g)
    OBVIOUS
  <2>1. PICK i \in 1..Len(ch) : ch[i] = r /\ r # ShutdownMessage
    BY OfTyped
  <2>2. i \in 1..Len(g) /\ g[i] = r
    BY <1>1, <1>2, <2>1
  <2>3. QED
    BY <1>2, <2>1, <2>2, OfTyped
<1>5. m # ShutdownMessage => m \in Of(g)
  <2>1. Len(ch) + 1 \in 1..Len(g)
    BY <1>1, <1>2
  <2>2. QED
    BY <1>2, <2>1, OfTyped
<1>6. ASSUME Single(ch), m # ShutdownMessage => \A q \in Of(ch) : ~SameRequest(m, q)
      PROVE  Single(g)
  <2> SUFFICES ASSUME NEW i \in 1..Len(g), NEW j \in 1..Len(g),
                      g[i] # ShutdownMessage, g[j] # ShutdownMessage, SameRequest(g[i], g[j])
               PROVE  i = j
    BY <1>2 DEF Single
  <2>1. \A k \in 1..Len(ch) : g[k] # ShutdownMessage => g[k] \in Of(ch)
    BY <1>2, OfTyped
  <2>2. CASE i \in 1..Len(ch) /\ j \in 1..Len(ch)
    BY <1>1, <1>2, <1>6, <2>2 DEF Single
  <2>3. CASE i = Len(ch) + 1 /\ j = Len(ch) + 1
    BY <2>3
  <2>4. CASE i = Len(ch) + 1 /\ j \in 1..Len(ch)
    <3>1. g[i] = m /\ g[j] \in Of(ch)
      BY <1>2, <2>1, <2>4
    <3>2. QED
      BY <3>1, <1>6
  <2>5. CASE j = Len(ch) + 1 /\ i \in 1..Len(ch)
    <3>1. g[j] = m /\ g[i] \in Of(ch) /\ SameRequest(m, g[i])
      BY <1>2, <2>1, <2>5 DEF SameRequest
    <3>2. QED
      BY <3>1, <1>6
  <2>6. QED
    BY <1>1, <1>2, <2>2, <2>3, <2>4, <2>5
<1>7. QED
  BY <1>2, <1>3, <1>4, <1>5, <1>6 DEF g

LEMMA OfTail ==
  ASSUME NEW ch \in Seq(Messages), ch # <<>>
  PROVE  /\ Tail(ch) \in Seq(Messages) /\ Head(ch) \in Messages
         /\ Of(Tail(ch)) \subseteq Of(ch)
         /\ Head(ch) # ShutdownMessage => Head(ch) \in Of(ch)
         /\ \A i \in DOMAIN Tail(ch) : \E j \in DOMAIN ch : Tail(ch)[i] = ch[j]
         /\ Single(ch) =>
              /\ Single(Tail(ch))
              /\ Head(ch) # ShutdownMessage =>
                   \A q \in Of(Tail(ch)) : ~SameRequest(Head(ch), q)
<1> DEFINE g == Tail(ch)
<1>1. Len(ch) \in Nat /\ Len(ch) # 0 /\ DOMAIN ch = 1..Len(ch)
  BY LenProperties, EmptySeq
<1>2. Head(ch) = ch[1] /\ 1 \in 1..Len(ch) /\ Head(ch) \in Messages
  BY <1>1, HeadTailProperties
<1>3. g \in Seq(Messages) /\ Len(g) = Len(ch) - 1 /\ DOMAIN g = 1..(Len(ch) - 1)
      /\ \A i \in 1..Len(g) : g[i] = ch[i + 1]
  BY <1>1, HeadTailProperties, LenProperties
<1>4. \A i \in 1..Len(g) : i + 1 \in 1..Len(ch) /\ i + 1 # 1
  BY <1>1, <1>3
<1> HIDE DEF g
<1>5. \A r \in Of(g) : \E i \in 1..Len(g) : ch[i + 1] = r /\ r # ShutdownMessage
  BY <1>3, OfTyped
<1>6. Of(g) \subseteq Of(ch)
  BY <1>4, <1>5, OfTyped
<1>7. Head(ch) # ShutdownMessage => Head(ch) \in Of(ch)
  BY <1>2, OfTyped
<1>8. \A i \in DOMAIN g : \E j \in DOMAIN ch : g[i] = ch[j]
  BY <1>1, <1>3, <1>4
<1>9. ASSUME Single(ch)
      PROVE  Single(g)
  <2> SUFFICES ASSUME NEW i \in 1..Len(g), NEW j \in 1..Len(g),
                      g[i] # ShutdownMessage, g[j] # ShutdownMessage, SameRequest(g[i], g[j])
               PROVE  i = j
    BY <1>3 DEF Single
  <2>1. i + 1 = j + 1
    BY <1>1, <1>3, <1>4, <1>9 DEF Single
  <2>2. QED
    BY <1>1, <1>3, <2>1
<1>10. ASSUME Single(ch), Head(ch) # ShutdownMessage, NEW q \in Of(g)
       PROVE  ~SameRequest(Head(ch), q)
  <2>1. PICK i \in 1..Len(g) : ch[i + 1] = q /\ q # ShutdownMessage
    BY <1>5
  <2>2. SameRequest(ch[1], ch[i + 1]) => 1 = i + 1
    BY <1>1, <1>2, <1>4, <1>10, <2>1 DEF Single
  <2>3. QED
    BY <1>2, <1>4, <2>1, <2>2
<1>11. QED
  BY <1>2, <1>3, <1>6, <1>7, <1>8, <1>9, <1>10 DEF g

-----------------------------------------------------------------------------
(* What the actions have in common *)

LEMMA QueuedIs ==
  /\ Queued = Of(channel) /\ Queued' = Of(channel')
  /\ InOnePlace =>
       Single(channel)
BY DEF Queued, Of, InOnePlace, Single

\* What is known of the channel, and of what is in flight, in a state of the invariant.
LEMMA Given ==
  ASSUME ServerInv
  PROVE  /\ TypeOK /\ Lifecycle /\ InOnePlace /\ NextDeposit /\ Backed
         /\ DepositsCountOnce /\ ReadsSeeConfirmed /\ StopTurnsNobodyAway
         /\ channel \in Seq(Messages) /\ Of(channel) = Queued /\ Single(channel)
         /\ Queued \subseteq Requests /\ InFlight \subseteq Requests
         /\ \A r \in Requests : r.client \in Clients /\ r.n \in Nat /\ r.n # 0
                                /\ r.tx \in Nat /\ r.tx # 0
         /\ \A a \in answers : a.to \in Requests /\ a.to \in InFlight
                               /\ waiting[a.to.client] = a.to.n
<1>1. /\ TypeOK /\ Lifecycle /\ InOnePlace /\ NextDeposit /\ Backed
      /\ DepositsCountOnce /\ ReadsSeeConfirmed /\ StopTurnsNobodyAway
  BY DEF ServerInv
<1>2. channel \in Seq(Messages) /\ Of(channel) = Queued /\ Single(channel)
  BY <1>1, QueuedIs DEF TypeOK, Messages
<1>3. Queued \subseteq Requests
  BY <1>2, OfTyped
<1>4. \A a \in answers : a.to \in Requests
  BY <1>1 DEF TypeOK, Answers
<1>5. \A a \in answers : a.to \in InFlight /\ waiting[a.to.client] = a.to.n
  BY <1>1 DEF TypeOK, InFlight, Awaited
<1>6. InFlight \subseteq Requests
  BY <1>1, <1>3, <1>4 DEF TypeOK, InFlight
<1>7. QED
  BY <1>1, <1>2, <1>3, <1>4, <1>5, <1>6 DEF Requests

LEMMA Assembled ==
  ASSUME TypeOK', Lifecycle', InOnePlace', NextDeposit', Backed',
         DepositsCountOnce', ReadsSeeConfirmed', StopTurnsNobodyAway'
  PROVE  ServerInv'
BY DEF ServerInv

\* Requests that come to nothing disturb no request.
LEMMA NextKept ==
  ASSUME ServerInv, UNCHANGED <<history, confirmed>>,
         \A r \in InFlight' : r \in InFlight /\ (Awaited(r)' => Awaited(r)),
         \A i \in DOMAIN pending' : pending'[i].tx <= confirmed[pending'[i].uid] + 1
  PROVE  NextDeposit'
<1>1. NextDeposit
  BY DEF ServerInv
<1>2. QED
  BY <1>1 DEF NextDeposit

\* A history in which every transaction id is backed by the deposits made up to it and
\* by m that may have been taken away.
BackedBy(h, m) ==
  \A i \in DOMAIN h : h[i].tx <= Balance(SubSeq(h, 1, i), h[i].uid) + m

\* Backed and DepositsCountOnce of given values of the variables.
BackedFor(h, given, known, m, died) ==
  /\ BackedBy(h, m)
  /\ \A a \in given : a.code \in {"Success", "Duplicate"} =>
       a.to.tx <= Balance(h, a.to.client) + m
  /\ died => \A c \in Clients : known[c] + MaxLoss <= Balance(h, c) + m

CountedFor(h, known, m) ==
  \A c \in Clients :
    Balance(h, c) <= known[c] + 1 /\ known[c] <= Balance(h, c) + m

LEMMA LedgerIs ==
  /\ Backed <=> BackedFor(history, answers, confirmed, MaxLoss * deaths,
                          server = "dead" /\ engine # "panicked")
  /\ Backed' <=> BackedFor(history', answers', confirmed', MaxLoss * deaths',
                           server' = "dead" /\ engine' # "panicked")
  /\ DepositsCountOnce <=> CountedFor(history, confirmed, MaxLoss * deaths)
  /\ DepositsCountOnce' <=> CountedFor(history', confirmed', MaxLoss * deaths')
<1>1. Backed <=> BackedFor(history, answers, confirmed, MaxLoss * deaths,
                           server = "dead" /\ engine # "panicked")
  BY DEF Backed, BackedFor, BackedBy
<1>2. DepositsCountOnce <=> CountedFor(history, confirmed, MaxLoss * deaths)
  BY DEF DepositsCountOnce, CountedFor
<1>3. (BackedFor(history, answers, confirmed, MaxLoss * deaths,
                 server = "dead" /\ engine # "panicked"))'
        <=> BackedFor(history', answers', confirmed', MaxLoss * deaths',
                      server' = "dead" /\ engine' # "panicked")
  BY DEF BackedFor, BackedBy, Balance, Credits
<1>4. CountedFor(history, confirmed, MaxLoss * deaths)'
        <=> CountedFor(history', confirmed', MaxLoss * deaths')
  BY DEF CountedFor, Balance, Credits
<1>5. Backed' <=> (BackedFor(history, answers, confirmed, MaxLoss * deaths,
                             server = "dead" /\ engine # "panicked"))'
  BY <1>1, PTL
<1>6. DepositsCountOnce' <=> CountedFor(history, confirmed, MaxLoss * deaths)'
  BY <1>2, PTL
<1>7. QED
  BY <1>1, <1>2, <1>3, <1>4, <1>5, <1>6

LEMMA BalancesKept ==
  ASSUME ServerInv, UNCHANGED <<history, confirmed, deaths>>,
         \A a \in answers' : a.code \in {"Success", "Duplicate"} => a \in answers,
         server' = "dead" => server = "dead" /\ engine' = engine
  PROVE  Backed' /\ DepositsCountOnce'
<1>1. Backed /\ DepositsCountOnce
  BY DEF ServerInv
<1>2. Backed'
  BY <1>1, LedgerIs DEF BackedFor
<1>3. DepositsCountOnce'
  BY <1>1, LedgerIs DEF CountedFor
<1>4. QED
  BY <1>2, <1>3

\* Nor the ledger, as long as nothing is executed and nobody dies.
LEMMA LedgerKept ==
  ASSUME ServerInv, UNCHANGED <<history, confirmed, deaths>>,
         \A a \in answers' : a \in answers \/ (a.code = "503" /\ engine' = "panicked"),
         engine = "panicked" => engine' = "panicked",
         server' = "dead" => server = "dead" /\ engine' = engine
  PROVE  Backed' /\ DepositsCountOnce' /\ ReadsSeeConfirmed' /\ StopTurnsNobodyAway'
<1>1. Backed /\ DepositsCountOnce /\ ReadsSeeConfirmed /\ StopTurnsNobodyAway
  BY DEF ServerInv
<1>2. \A a \in answers' : a.code # "503" => a \in answers
  OBVIOUS
<1>3. \A a \in answers' : a.code \in {"Success", "Duplicate"} => a \in answers
  BY <1>2
<1>4. Backed' /\ DepositsCountOnce'
  BY <1>3, BalancesKept
<1>5. ReadsSeeConfirmed'
  BY <1>1, <1>2 DEF ReadsSeeConfirmed
<1>6. StopTurnsNobodyAway'
  BY <1>1 DEF StopTurnsNobodyAway
<1>7. QED
  BY <1>4, <1>5, <1>6

-----------------------------------------------------------------------------
(* Clients and network *)

LEMMA SendStep ==
  ASSUME ServerInv, NEW c \in Clients, NEW kind \in {"deposit", "query"}, Send(c, kind)
  PROVE  ServerInv'
<1> DEFINE r == [kind |-> kind, client |-> c, tx |-> confirmed[c] + 1, n |-> sent[c] + 1]
<1>1. /\ UNCHANGED <<historyVars, server, engine, channel, answers, confirmed, deaths>>
      /\ server = "up" /\ waiting[c] = 0 /\ (kind = "deposit" => confirmed[c] < MaxTx)
      /\ arriving' = arriving \cup {r}
      /\ sent' = [sent EXCEPT ![c] = @ + 1]
      /\ waiting' = [waiting EXCEPT ![c] = sent[c] + 1]
  BY Zenon DEF Send
<1>2. TypeOK /\ Lifecycle /\ InOnePlace /\ NextDeposit
  BY Given
<1>3. confirmed[c] \in Nat /\ sent[c] \in Nat
  BY <1>2 DEF TypeOK
<1>4. r \in Requests /\ r.client = c /\ r.n = sent[c] + 1 /\ r.tx = confirmed[c] + 1 /\ r.kind = kind
  BY <1>3 DEF Requests
<1>5. \A q \in Requests : q.client # c => waiting'[q.client] = waiting[q.client]
                                          /\ sent'[q.client] = sent[q.client]
  BY <1>1, <1>2 DEF TypeOK
<1>6. waiting'[c] = sent[c] + 1 /\ sent'[c] = sent[c] + 1
  BY <1>1, <1>2 DEF TypeOK
<1>7. \A a \in answers : a.to.client # c
  BY <1>1, Given
<1>8. Queued' = Queued
  BY <1>1, QueuedIs
<1> HIDE DEF r
<1>9. \A q \in arriving \cup Queued : q \in Requests /\ q.n \in Nat /\ q.n <= sent[q.client]
  BY <1>2, Given DEF InOnePlace, TypeOK
<1>10. TypeOK'
  <2>1. arriving' \subseteq Requests /\ waiting' \in [Clients -> Nat] /\ sent' \in [Clients -> Nat]
    BY <1>1, <1>2, <1>3, <1>4 DEF TypeOK
  <2>2. \A a \in answers : waiting'[a.to.client] = a.to.n
    BY <1>5, <1>7, Given
  <2>3. QED
    BY <1>1, <1>2, <2>1, <2>2 DEF TypeOK, historyVars, Awaited
<1>11. Lifecycle'
  BY <1>1, <1>2, <1>8 DEF Lifecycle, historyVars
<1>12. InOnePlace'
  <2>1. \A q \in arriving \cup Queued : ~SameRequest(r, q) /\ ~SameRequest(q, r)
    BY <1>3, <1>4, <1>9 DEF SameRequest
  <2>2. \A q, p \in arriving' : SameRequest(q, p) => q = p
    BY <1>1, <1>2, <2>1 DEF InOnePlace
  <2>3. \A q \in arriving', p \in Queued : ~SameRequest(q, p)
    BY <1>1, <1>2, <2>1 DEF InOnePlace
  <2>4. \A a \in answers, q \in arriving' \cup Queued : ~SameRequest(a.to, q)
    BY <1>1, <1>2, <1>4, <1>7 DEF InOnePlace, SameRequest
  <2>5. \A q \in arriving' \cup Queued : q.n <= sent'[q.client]
    <3> SUFFICES ASSUME NEW q \in arriving' \cup Queued
                 PROVE  q.n <= sent'[q.client]
      OBVIOUS
    <3>1. CASE q = r
      BY <1>4, <1>6, <3>1, <1>3
    <3>2. CASE q \in arriving \cup Queued /\ q.client = c
      BY <1>3, <1>6, <1>9, <3>2
    <3>3. CASE q \in arriving \cup Queued /\ q.client # c
      BY <1>5, <1>9, <3>3
    <3>4. QED
      BY <1>1, <3>1, <3>2, <3>3
  <2>6. QED
    BY <1>1, <1>2, <1>8, <2>2, <2>3, <2>4, <2>5 DEF InOnePlace
<1>13. NextDeposit'
  <2>1. InFlight' = InFlight \cup {r}
    BY <1>1, <1>8 DEF InFlight
  <2>2. \A q \in InFlight : q \in Requests /\ (waiting'[q.client] = q.n => waiting[q.client] = q.n)
    <3> SUFFICES ASSUME NEW q \in InFlight, waiting'[q.client] = q.n
                 PROVE  q \in Requests /\ waiting[q.client] = q.n
      BY Given
    <3>1. q \in Requests
      BY Given
    <3>2. CASE q.client # c
      BY <1>5, <3>1, <3>2
    <3>3. CASE q.client = c
      <4>1. q \in arriving \cup Queued
        BY <1>7, <3>3 DEF InFlight
      <4>2. q.n <= sent[c] /\ q.n = sent[c] + 1 /\ q.n \in Nat
        BY <1>6, <1>9, <3>3, <4>1
      <4>3. QED
        BY <1>3, <4>2
    <3>4. QED
      BY <3>1, <3>2, <3>3
  <2>3. \A q \in InFlight' :
          /\ q.tx <= confirmed[q.client] + 1
          /\ Awaited(q)' => q.tx = confirmed[q.client] + 1
          /\ q.kind = "deposit" => q.tx <= MaxTx
    <3> SUFFICES ASSUME NEW q \in InFlight \cup {r}
                 PROVE  /\ q.tx <= confirmed[q.client] + 1
                        /\ Awaited(q)' => q.tx = confirmed[q.client] + 1
                        /\ q.kind = "deposit" => q.tx <= MaxTx
      BY <2>1
    <3>1. CASE q = r
      BY <1>1, <1>3, <1>4, <3>1, ServerAssumption
    <3>2. CASE q \in InFlight
      BY <1>2, <2>2, <3>2 DEF NextDeposit, Awaited
    <3>3. QED
      BY <3>1, <3>2
  <2>4. QED
    BY <1>1, <1>2, <2>3 DEF NextDeposit, historyVars
<1>14. Backed' /\ DepositsCountOnce' /\ ReadsSeeConfirmed' /\ StopTurnsNobodyAway'
  <2>1. UNCHANGED <<history, confirmed, deaths, answers, engine, server>> /\ server = "up"
    BY <1>1 DEF historyVars
  <2>2. QED
    BY <2>1, LedgerKept
<1>15. QED
  BY <1>10, <1>11, <1>12, <1>13, <1>14, Assembled

LEMMA GiveUpStep ==
  ASSUME ServerInv, NEW c \in Clients, GiveUp(c)
  PROVE  ServerInv'
<1>1. /\ UNCHANGED <<history, pending, phase, server, engine, arriving, channel, sent,
                     confirmed, deaths>>
      /\ waiting' = [waiting EXCEPT ![c] = 0]
      /\ answers' = {a \in answers : a.to.client # c}
  BY DEF GiveUp, historyVars
<1>2. TypeOK /\ Lifecycle /\ InOnePlace
  BY Given
<1>3. Queued' = Queued /\ InFlight' \subseteq InFlight
  BY <1>1, QueuedIs DEF InFlight
<1>4. \A r \in Requests : waiting'[r.client] = IF r.client = c THEN 0 ELSE waiting[r.client]
  BY <1>1, <1>2, Given DEF TypeOK
<1>5. \A r \in Requests : Awaited(r)' => Awaited(r)
  BY <1>4, Given DEF Awaited
<1>6. TypeOK'
  <2>1. \A a \in answers' : Awaited(a.to)'
    BY <1>1, <1>2, <1>4, Given DEF TypeOK, Awaited
  <2>2. waiting' \in [Clients -> Nat]
    BY <1>1, <1>2 DEF TypeOK
  <2>3. QED
    BY <1>1, <1>2, <2>1, <2>2 DEF TypeOK
<1>7. Lifecycle'
  BY <1>1, <1>2, <1>3, <1>5, Given DEF Lifecycle
<1>8. InOnePlace'
  BY <1>1, <1>2, <1>3 DEF InOnePlace
<1>9. \A r \in InFlight' : r \in InFlight /\ (Awaited(r)' => Awaited(r))
  BY <1>3, <1>5, Given
<1>10. NextDeposit'
  BY <1>1, <1>9, NextKept, Given DEF NextDeposit
<1>11. Backed' /\ DepositsCountOnce' /\ ReadsSeeConfirmed' /\ StopTurnsNobodyAway'
  BY <1>1, LedgerKept
<1>12. QED
  BY <1>6, <1>7, <1>8, <1>10, <1>11, Assembled

LEMMA LoseStep ==
  ASSUME ServerInv, NEW r \in arriving, Lose(r)
  PROVE  ServerInv'
<1>1. /\ UNCHANGED <<history, pending, phase, server, engine, channel, answers, sent,
                     confirmed, deaths>>
      /\ arriving' = arriving \ {r}
      /\ waiting' = [waiting EXCEPT ![r.client] = IF Awaited(r) THEN 0 ELSE @]
  BY DEF Lose, historyVars
<1>2. TypeOK /\ Lifecycle /\ InOnePlace /\ r \in Requests
  BY Given DEF TypeOK
<1>3. Queued' = Queued /\ InFlight' \subseteq InFlight
  BY <1>1, QueuedIs DEF InFlight
<1>4. \A q \in Requests : waiting'[q.client] = IF q.client = r.client /\ Awaited(r) THEN 0
                                               ELSE waiting[q.client]
  BY <1>1, <1>2, Given DEF TypeOK, Awaited
<1>5. \A q \in Requests : Awaited(q)' => Awaited(q)
  BY <1>4, Given DEF Awaited
<1>6. TypeOK'
  <2>1. ASSUME NEW a \in answers
        PROVE  Awaited(a.to)'
    <3>1. ~SameRequest(a.to, r) /\ a.to \in Requests /\ waiting[a.to.client] = a.to.n
      BY <1>2, Given DEF InOnePlace
    <3>2. ~(a.to.client = r.client /\ Awaited(r))
      BY <3>1 DEF SameRequest, Awaited
    <3>3. QED
      BY <1>4, <3>1, <3>2 DEF Awaited
  <2>2. waiting' \in [Clients -> Nat]
    BY <1>1, <1>2, Given DEF TypeOK
  <2>3. arriving' \subseteq Requests
    BY <1>1, <1>2 DEF TypeOK
  <2>4. QED
    BY <1>1, <1>2, <2>1, <2>2, <2>3 DEF TypeOK
<1>7. Lifecycle'
  BY <1>1, <1>2, <1>3, <1>5, Given DEF Lifecycle
<1>8. InOnePlace'
  BY <1>1, <1>2, <1>3 DEF InOnePlace
<1>9. \A q \in InFlight' : q \in InFlight /\ (Awaited(q)' => Awaited(q))
  BY <1>3, <1>5, Given
<1>10. NextDeposit'
  BY <1>1, <1>9, NextKept, Given DEF NextDeposit
<1>11. Backed' /\ DepositsCountOnce' /\ ReadsSeeConfirmed' /\ StopTurnsNobodyAway'
  BY <1>1, LedgerKept
<1>12. QED
  BY <1>6, <1>7, <1>8, <1>10, <1>11, Assembled

\* An answer moves its client at most to the deposit it was waiting for.
LEMMA DeliverStep ==
  ASSUME ServerInv, NEW a \in answers, Deliver(a)
  PROVE  ServerInv'
<1> DEFINE c == a.to.client
           made == a.code \in {"Success", "Duplicate"}
<1>1. /\ UNCHANGED <<history, pending, phase, server, engine, arriving, channel, sent, deaths>>
      /\ answers' = answers \ {a}
      /\ waiting' = [waiting EXCEPT ![c] = 0]
      /\ confirmed' = [confirmed EXCEPT ![c] = IF made THEN a.to.tx ELSE @]
  BY DEF Deliver, historyVars
<1>2. TypeOK /\ Lifecycle /\ InOnePlace /\ NextDeposit /\ Backed
      /\ DepositsCountOnce /\ ReadsSeeConfirmed /\ StopTurnsNobodyAway
  BY Given
<1>3. a.to \in Requests /\ a.to \in InFlight /\ waiting[c] = a.to.n /\ c \in Clients
      /\ a.to.tx \in Nat /\ a.to.tx = confirmed[c] + 1
  BY <1>2, Given DEF NextDeposit, Awaited
<1> HIDE DEF c, made
<1>4. Queued' = Queued /\ InFlight' \subseteq InFlight
  BY <1>1, QueuedIs DEF InFlight
<1>5. \A r \in Requests : /\ waiting'[r.client] = IF r.client = c THEN 0 ELSE waiting[r.client]
                          /\ r.client # c => confirmed'[r.client] = confirmed[r.client]
  BY <1>1, <1>2, Given DEF TypeOK
<1>6. /\ confirmed' \in [Clients -> Nat]
      /\ confirmed'[c] = IF made THEN confirmed[c] + 1 ELSE confirmed[c]
      /\ \A d \in Clients : d # c => confirmed'[d] = confirmed[d]
  BY <1>1, <1>2, <1>3 DEF TypeOK
<1>7. \A d \in Clients : confirmed[d] \in Nat /\ confirmed[d] <= confirmed'[d]
  <2>1. \A d \in Clients : confirmed[d] \in Nat
    BY <1>2 DEF TypeOK
  <2>2. \A d \in Clients : confirmed[d] <= confirmed'[d]
    BY <1>6, <2>1
  <2>3. QED
    BY <2>1, <2>2
<1>8. \A r \in Requests : Awaited(r)' => r.client # c /\ Awaited(r)
  BY <1>5, Given DEF Awaited
<1>9. \A b \in answers' : b \in answers /\ b.to.client # c /\ b.to \in Requests
  BY <1>1, <1>2, Given DEF TypeOK, c
<1>10. TypeOK'
  <2>1. \A b \in answers' : Awaited(b.to)'
    BY <1>5, <1>9, Given DEF Awaited
  <2>2. waiting' \in [Clients -> Nat]
    BY <1>1, <1>2 DEF TypeOK
  <2>3. QED
    BY <1>1, <1>2, <1>6, <2>1, <2>2 DEF TypeOK
<1>11. Lifecycle'
  BY <1>1, <1>2, <1>4, <1>8, Given DEF Lifecycle
<1>12. InOnePlace'
  BY <1>1, <1>2, <1>4 DEF InOnePlace
<1>13. NextDeposit'
  <2>1. ASSUME NEW r \in InFlight'
        PROVE  /\ r.tx <= confirmed'[r.client] + 1
               /\ Awaited(r)' => r.tx = confirmed'[r.client] + 1
               /\ r.kind = "deposit" => r.tx <= MaxTx
    <3>1. r \in InFlight /\ r \in Requests /\ r.client \in Clients /\ r.tx \in Nat
      BY <1>4, Given
    <3>2. /\ r.tx <= confirmed[r.client] + 1 /\ (r.kind = "deposit" => r.tx <= MaxTx)
          /\ Awaited(r) => r.tx = confirmed[r.client] + 1
      BY <1>2, <3>1 DEF NextDeposit
    <3>3. confirmed'[r.client] \in Nat
      BY <1>6, <3>1
    <3>4. QED
      BY <1>5, <1>7, <1>8, <3>1, <3>2, <3>3
  <2>2. ASSUME NEW s \in Seq(Deposits),
               \A i \in DOMAIN s : s[i].tx <= confirmed[s[i].uid] + 1
        PROVE  \A i \in DOMAIN s : s[i].tx <= confirmed'[s[i].uid] + 1
    <3> TAKE i \in DOMAIN s
    <3>1. s[i] \in Deposits
      BY LenProperties, ElementOfSeq
    <3>2. s[i].uid \in Clients /\ s[i].tx \in Nat
      BY <3>1, ServerAssumption DEF Deposits
    <3>3. confirmed'[s[i].uid] \in Nat
      BY <1>6, <3>2
    <3>4. QED
      BY <1>7, <2>2, <3>2, <3>3
  <2>3. history \in Seq(Deposits) /\ pending \in Seq(Deposits)
    BY <1>2 DEF TypeOK
  <2>4. /\ \A i \in DOMAIN history : history[i].tx <= confirmed'[history[i].uid] + 1
        /\ \A i \in DOMAIN pending : pending[i].tx <= confirmed'[pending[i].uid] + 1
    BY <1>2, <2>2, <2>3 DEF NextDeposit
  <2>5. QED
    BY <1>1, <2>1, <2>4 DEF NextDeposit
<1>14. Backed'
  <2>1. ASSUME server = "dead" PROVE FALSE
    BY <1>2, <2>1 DEF Lifecycle
  <2>2. QED
    BY <1>1, <1>2, <2>1, LedgerIs DEF BackedFor
<1>15. DepositsCountOnce'
  <2>1. ASSUME NEW d \in Clients
        PROVE  /\ Balance(history, d) <= confirmed'[d] + 1
               /\ confirmed'[d] <= Balance(history, d) + MaxLoss * deaths
    <3>1. /\ Balance(history, d) <= confirmed[d] + 1
          /\ confirmed[d] <= Balance(history, d) + MaxLoss * deaths
      BY <1>2 DEF DepositsCountOnce
    <3>2. Balance(history, d) \in Nat /\ confirmed'[d] \in Nat
      BY <1>2, <1>6, BalanceType DEF TypeOK
    <3>3. Balance(history, d) <= confirmed'[d] + 1
      BY <1>7, <3>1, <3>2
    <3>4. CASE made /\ d = c
      <4>1. a.to.tx <= Balance(history, d) + MaxLoss * deaths
        BY <1>2, <3>4 DEF Backed, made, c
      <4>2. confirmed'[d] = a.to.tx
        BY <1>3, <1>6, <3>4
      <4>3. QED
        BY <3>3, <4>1, <4>2
    <3>5. CASE ~(made /\ d = c)
      BY <1>6, <3>1, <3>5
    <3>6. QED
      BY <3>3, <3>4, <3>5
  <2>2. QED
    BY <1>1, <2>1, LedgerIs DEF CountedFor
<1>16. ReadsSeeConfirmed'
  BY <1>1, <1>2, <1>5, <1>9 DEF ReadsSeeConfirmed
<1>17. StopTurnsNobodyAway'
  BY <1>1, <1>2 DEF StopTurnsNobodyAway
<1>18. QED
  BY <1>10, <1>11, <1>12, <1>13, <1>14, <1>15, <1>16, <1>17, Assembled

-----------------------------------------------------------------------------
(* Handlers and engine thread *)

LEMMA OnlyOne ==
  ASSUME ServerInv, NEW r \in arriving \cup Queued, NEW q \in arriving \cup Queued,
         SameRequest(r, q)
  PROVE  r = q
<1>1. InOnePlace /\ channel \in Seq(Messages) /\ Of(channel) = Queued /\ Single(channel)
  BY Given
<1>2. CASE r \in arriving /\ q \in arriving
  BY <1>1, <1>2 DEF InOnePlace
<1>3. CASE r \in arriving /\ q \in Queued
  BY <1>1, <1>3 DEF InOnePlace
<1>4. CASE r \in Queued /\ q \in arriving
  <2>1. SameRequest(q, r)
    BY DEF SameRequest
  <2>2. QED
    BY <1>1, <1>4, <2>1 DEF InOnePlace
<1>5. CASE r \in Queued /\ q \in Queued
  <2>1. PICK i \in 1..Len(channel) : channel[i] = r /\ r # ShutdownMessage
    BY <1>1, <1>5, OfTyped
  <2>2. PICK j \in 1..Len(channel) : channel[j] = q /\ q # ShutdownMessage
    BY <1>1, <1>5, OfTyped
  <2>3. i = j
    BY <1>1, <2>1, <2>2, LenProperties DEF Single
  <2>4. QED
    BY <2>1, <2>2, <2>3
<1>6. QED
  BY <1>2, <1>3, <1>4, <1>5

\* Requests leave the handlers or the channel, and who still waits is answered.
AnswersWith(rs, code, balance) ==
  answers \cup {[to |-> r, code |-> code, balance |-> balance] : r \in {q \in rs : Awaited(q)}}

Answered(rs, code, balance) ==
  /\ answers' \subseteq Answers
  /\ \A a \in answers' : Awaited(a.to)'
  /\ \A a, b \in answers' : a.to.client = b.to.client => a = b
  /\ \A a \in answers' : \/ a \in answers
           \/ /\ a.to \in rs /\ Awaited(a.to)
              /\ a.code = code /\ a.balance = balance
  /\ server \notin {"up", "closing"} => answers' = {}
  /\ InOnePlace' /\ InFlight' \subseteq InFlight
  /\ \A r \in Requests : Awaited(r)' <=> Awaited(r)

LEMMA AnsweringStep ==
  ASSUME ServerInv, NEW rs \in SUBSET (arriving \cup Queued),
         NEW code \in {"Success", "Duplicate", "Ok", "503"}, NEW balance \in Nat,
         answers' = AnswersWith(rs, code, balance), UNCHANGED clientVars,
         arriving' \subseteq arriving,
         channel' \in Seq(Messages), Of(channel') \subseteq Queued, Single(channel'),
         \A r \in rs : r \notin arriving' /\ r \notin Of(channel')
  PROVE  Answered(rs, code, balance)
<1>1. TypeOK /\ Lifecycle /\ InOnePlace
  BY Given
<1>2. UNCHANGED <<waiting, sent, confirmed>>
  BY DEF clientVars
<1>3. arriving \cup Queued \subseteq Requests
  BY Given DEF InFlight
<1>4. \A r : Awaited(r)' <=> Awaited(r)
  BY <1>2 DEF Awaited
<1>5. ASSUME NEW a \in answers'
      PROVE  \/ a \in answers
             \/ /\ a = [to |-> a.to, code |-> code, balance |-> balance]
                /\ a.to \in rs /\ Awaited(a.to)
                /\ a.code = code /\ a.balance = balance
  BY <1>5 DEF AnswersWith
<1>6. answers' \subseteq Answers
  BY <1>1, <1>3, <1>5 DEF TypeOK, Answers
<1>7. \A a \in answers' : Awaited(a.to)
  BY <1>1, <1>5 DEF TypeOK
<1>8. \A a \in answers, r \in rs : Awaited(r) => a.to.client # r.client
  <2> SUFFICES ASSUME NEW a \in answers, NEW r \in rs, Awaited(r), a.to.client = r.client
               PROVE  FALSE
    OBVIOUS
  <2>1. SameRequest(a.to, r)
    BY <1>7, Given DEF SameRequest, Awaited
  <2>2. QED
    BY <1>1, <2>1 DEF InOnePlace
<1>9. ASSUME NEW a \in answers', NEW b \in answers', a.to.client = b.to.client
      PROVE  a = b
  <2>1. CASE a \in answers /\ b \in answers
    BY <1>1, <1>9, <2>1 DEF TypeOK
  <2>2. CASE a \in answers /\ b \notin answers
    BY <1>5, <1>8, <1>9, <2>2
  <2>3. CASE a \notin answers /\ b \in answers
    BY <1>5, <1>8, <1>9, <2>3
  <2>4. CASE a \notin answers /\ b \notin answers
    <3>1. a.to \in rs /\ b.to \in rs /\ Awaited(a.to) /\ Awaited(b.to)
      BY <1>5, <2>4
    <3>2. SameRequest(a.to, b.to)
      BY <1>9, <3>1 DEF SameRequest, Awaited
    <3>3. a.to = b.to
      BY <3>1, <3>2, OnlyOne
    <3>4. QED
      BY <1>5, <2>4, <3>3
  <2>5. QED
    BY <2>1, <2>2, <2>3, <2>4
<1>10. server \notin {"up", "closing"} => answers' = {}
  BY <1>1, <1>5 DEF Lifecycle
<1>11. Queued' = Of(channel')
  BY QueuedIs
<1>12. InFlight' \subseteq InFlight
  BY <1>5, <1>11 DEF InFlight
<1>13. InOnePlace'
  <2>1. \A r, q \in arriving' : SameRequest(r, q) => r = q
    BY <1>1 DEF InOnePlace
  <2>2. \A r \in arriving', q \in Queued' : ~SameRequest(r, q)
    BY <1>1, <1>11 DEF InOnePlace
  <2>3. \A a \in answers', r \in arriving' \cup Queued' : ~SameRequest(a.to, r)
    <3> SUFFICES ASSUME NEW a \in answers', NEW r \in arriving' \cup Queued', SameRequest(a.to, r)
                 PROVE  FALSE
      OBVIOUS
    <3>1. r \in arriving \cup Queued
      BY <1>11
    <3>2. CASE a \in answers
      BY <1>1, <3>1, <3>2 DEF InOnePlace
    <3>3. CASE a \notin answers
      <4>1. a.to \in rs
        BY <1>5, <3>3
      <4>2. a.to = r
        BY <3>1, <4>1, OnlyOne
      <4>3. QED
        BY <1>11, <4>1, <4>2
    <3>4. QED
      BY <3>2, <3>3
  <2>4. \A r \in arriving' \cup Queued' : r.n <= sent'[r.client]
    BY <1>1, <1>2, <1>11 DEF InOnePlace
  <2>5. \A i, j \in DOMAIN channel' :
          /\ channel'[i] # ShutdownMessage /\ channel'[j] # ShutdownMessage
          /\ SameRequest(channel'[i], channel'[j])
          => i = j
    BY DEF Single
  <2>6. QED
    BY <2>1, <2>2, <2>3, <2>4, <2>5 DEF InOnePlace
<1>14. QED
  BY <1>4, <1>5, <1>6, <1>7, <1>9, <1>10, <1>12, <1>13 DEF Answered

LEMMA AnsweringIs ==
  ASSUME NEW r, NEW rs, NEW code, NEW balance
  PROVE  /\ Answer(r, code, balance) = AnswersWith({r}, code, balance)
         /\ Unavailable(rs) = AnswersWith(rs, "503", 0)
<1>1. {a \in {[to |-> r, code |-> code, balance |-> balance]} : Awaited(r)}
        = {[to |-> q, code |-> code, balance |-> balance] : q \in {p \in {r} : Awaited(p)}}
  OBVIOUS
<1>2. QED
  BY <1>1 DEF Answer, Unavailable, AnswersWith

LEMMA EnqueueStep ==
  ASSUME ServerInv, NEW r \in arriving, Enqueue(r)
  PROVE  ServerInv'
<1>1. /\ UNCHANGED <<history, pending, phase, server, engine, deaths>> /\ UNCHANGED clientVars
      /\ server \in {"up", "closing", "stopping"}
      /\ arriving' = arriving \ {r}
  BY DEF Enqueue, historyVars
<1>2. UNCHANGED <<waiting, sent, confirmed>>
  BY <1>1 DEF clientVars
<1>3. TypeOK /\ Lifecycle /\ InOnePlace /\ NextDeposit /\ r \in Requests /\ r # ShutdownMessage
      /\ channel \in Seq(Messages) /\ Of(channel) = Queued /\ Single(channel)
  BY Given, MessageKinds DEF TypeOK
<1>4. server \in {"up", "closing"}
  BY <1>1, <1>3 DEF Lifecycle
<1>5. \A q : Awaited(q)' <=> Awaited(q)
  BY <1>2 DEF Awaited
<1>6. CASE engine = "running"
  <2>1. channel' = Append(channel, r) /\ answers' = answers
    BY <1>6 DEF Enqueue
  <2>2. \A q \in Queued : ~SameRequest(r, q) /\ ~SameRequest(q, r)
    BY <1>3 DEF InOnePlace, SameRequest
  <2>3. channel' \in Seq(Messages) /\ Of(channel') = Queued \cup {r} /\ Single(channel')
    BY <1>3, <2>1, <2>2, OfAppend DEF Messages
  <2>4. Queued' = Queued \cup {r} /\ InFlight' = InFlight
    BY <1>1, <2>1, <2>3, QueuedIs DEF InFlight
  <2>5. TypeOK'
    <3>1. arriving' \subseteq Requests /\ channel' \in Seq(Requests \cup {ShutdownMessage})
      BY <1>1, <1>3, <2>3 DEF TypeOK, Messages
    <3>2. QED
      BY <1>1, <1>2, <1>3, <1>5, <2>1, <3>1 DEF TypeOK
  <2>6. Lifecycle'
    <3>1. \A i \in DOMAIN channel' : channel'[i] # ShutdownMessage
      <4>1. \A i \in DOMAIN channel : channel[i] # ShutdownMessage
        BY <1>3, <1>4 DEF Lifecycle
      <4>2. Len(channel) \in Nat /\ DOMAIN channel = 1..Len(channel)
            /\ DOMAIN channel' = 1..(Len(channel) + 1) /\ channel'[Len(channel) + 1] = r
            /\ \A i \in 1..Len(channel) : channel'[i] = channel[i]
        BY <1>3, <2>1, <2>3, AppendProperties, LenProperties DEF Messages
      <4>3. QED
        BY <1>3, <4>1, <4>2
    <3>2. QED
      BY <1>1, <1>3, <1>4, <1>6, <3>1 DEF Lifecycle
  <2>7. InOnePlace'
    <3>1. \A i, j \in DOMAIN channel' :
            /\ channel'[i] # ShutdownMessage /\ channel'[j] # ShutdownMessage
            /\ SameRequest(channel'[i], channel'[j])
            => i = j
      BY <2>3 DEF Single
    <3>2. \A q \in arriving', p \in Queued' : ~SameRequest(q, p)
      <4> SUFFICES ASSUME NEW q \in arriving', NEW p \in Queued', SameRequest(q, p)
                   PROVE  FALSE
        OBVIOUS
      <4>1. q \in arriving /\ q # r /\ p \in Queued \cup {r}
        BY <1>1, <2>4
      <4>2. QED
        BY <1>3, <4>1 DEF InOnePlace
    <3>3. QED
      BY <1>1, <1>2, <1>3, <2>1, <2>4, <3>1, <3>2 DEF InOnePlace
  <2>8. NextDeposit'
    BY <1>1, <1>2, <1>3, <1>5, <2>4 DEF NextDeposit
  <2>9. Backed' /\ DepositsCountOnce' /\ ReadsSeeConfirmed' /\ StopTurnsNobodyAway'
    BY <1>1, <1>2, <2>1, LedgerKept
  <2>10. QED
    BY <2>5, <2>6, <2>7, <2>8, <2>9, Assembled
<1>7. CASE engine # "running"
  <2>1. channel' = channel /\ answers' = AnswersWith({r}, "503", 0)
    BY <1>7, AnsweringIs DEF Enqueue
  <2>2. engine = "panicked" /\ channel = <<>>
    BY <1>3, <1>4, <1>7 DEF Lifecycle, TypeOK
  <2>3. r \notin arriving' /\ r \notin Of(channel')
    BY <1>1, <2>1, <2>2, OfNone
  <2>4. {r} \in SUBSET (arriving \cup Queued) /\ arriving' \subseteq arriving
        /\ channel' \in Seq(Messages) /\ Of(channel') \subseteq Queued /\ Single(channel')
    BY <1>1, <1>3, <2>1
  <2>5. /\ answers' \subseteq Answers
        /\ \A a \in answers' : Awaited(a.to)'
        /\ \A a, b \in answers' : a.to.client = b.to.client => a = b
        /\ \A a \in answers' : a \in answers \/ a.code = "503"
        /\ InOnePlace' /\ InFlight' \subseteq InFlight
    <3>1. Answered({r}, "503", 0)
      BY <1>1, <2>1, <2>3, <2>4, AnsweringStep
    <3>2. QED
      BY <3>1 DEF Answered
  <2>6. TypeOK'
    <3>1. arriving' \subseteq Requests
      BY <1>1, <1>3 DEF TypeOK
    <3>2. QED
      BY <1>1, <1>2, <1>3, <2>1, <2>5, <3>1 DEF TypeOK
  <2>7. Lifecycle'
    BY <1>1, <1>3, <1>4, <2>1, <2>2 DEF Lifecycle
  <2>8. NextDeposit'
    BY <1>1, <1>2, <1>3, <1>5, <2>5, NextKept DEF NextDeposit
  <2>9. Backed' /\ DepositsCountOnce' /\ ReadsSeeConfirmed' /\ StopTurnsNobodyAway'
    BY <1>1, <1>2, <1>4, <2>2, <2>5, LedgerKept
  <2>10. QED
    BY <2>5, <2>6, <2>7, <2>8, <2>9, Assembled
<1>8. QED
  BY <1>6, <1>7

\* What HandleCommand and HandleQuery have in common: the first request of the channel
\* is answered.
LEMMA TakenStep ==
  ASSUME ServerInv, NEW kind \in {"deposit", "query"}, EngineTakes(kind),
         NEW code \in {"Success", "Duplicate", "Ok", "503"}, NEW balance \in Nat,
         answers' = Answer(Head(channel), code, balance), channel' = Tail(channel),
         history' \in Seq(Deposits),
         UNCHANGED <<pending, phase, server, engine, arriving, deaths>>, UNCHANGED clientVars
  PROVE  /\ TypeOK' /\ Lifecycle' /\ InOnePlace' /\ InFlight' \subseteq InFlight
         /\ \A a \in answers' : \/ a \in answers
                                \/ /\ a.to = Head(channel) /\ Awaited(a.to)
                                   /\ a.code = code /\ a.balance = balance
<1> DEFINE r == Head(channel)
           rs == {r}
<1>1. UNCHANGED <<waiting, sent, confirmed>>
  BY DEF clientVars
<1>2. TypeOK /\ Lifecycle /\ InOnePlace
      /\ channel \in Seq(Messages) /\ Of(channel) = Queued /\ Single(channel)
  BY Given
<1>3. channel # <<>> /\ r.kind \in {"deposit", "query"} /\ r # ShutdownMessage
      /\ server \in {"up", "closing", "stopping"} /\ engine = "running"
  BY MessageKinds DEF EngineTakes
<1>4. /\ channel' \in Seq(Messages) /\ Of(channel') \subseteq Queued /\ Single(channel')
      /\ r \in Queued /\ \A q \in Of(channel') : ~SameRequest(r, q)
      /\ \A i \in DOMAIN channel' : \E j \in DOMAIN channel : channel'[i] = channel[j]
  BY <1>2, <1>3, OfTail
<1>5. r \notin Of(channel') /\ r \notin arriving
  BY <1>2, <1>4 DEF InOnePlace, SameRequest
<1>6. answers' = AnswersWith(rs, code, balance)
  BY AnsweringIs
<1>7. rs \in SUBSET (arriving \cup Queued)
      /\ \A q \in rs : q \notin arriving' /\ q \notin Of(channel')
      /\ arriving' \subseteq arriving
  BY <1>4, <1>5
<1> HIDE DEF r, rs
<1>8. /\ answers' \subseteq Answers
      /\ \A a \in answers' : Awaited(a.to)'
      /\ \A a, b \in answers' : a.to.client = b.to.client => a = b
      /\ \A a \in answers' : \/ a \in answers
                             \/ /\ a.to \in rs /\ Awaited(a.to)
                                /\ a.code = code /\ a.balance = balance
      /\ server \notin {"up", "closing"} => answers' = {}
      /\ InOnePlace' /\ InFlight' \subseteq InFlight
      /\ \A q \in Requests : Awaited(q)' <=> Awaited(q)
  <2>1. Answered(rs, code, balance)
    BY <1>4, <1>6, <1>7, AnsweringStep
  <2>2. QED
    BY <2>1 DEF Answered
<1>9. TypeOK'
  BY <1>1, <1>2, <1>4, <1>8 DEF TypeOK, Messages
<1>10. Lifecycle'
  <2>1. server # "stopping" => \A i \in DOMAIN channel' : channel'[i] # ShutdownMessage
    BY <1>2, <1>4 DEF Lifecycle
  <2>2. server \notin {"up", "closing"} =>
          arriving' = {} /\ answers' = {} /\ \A q \in Queued' : ~Awaited(q)'
    BY <1>2, <1>4, <1>8, QueuedIs, Given DEF Lifecycle
  <2>3. QED
    BY <1>2, <1>3, <2>1, <2>2 DEF Lifecycle
<1>11. QED
  BY <1>8, <1>9, <1>10 DEF r, rs

LEMMA HandleQueryStep ==
  ASSUME ServerInv, HandleQuery
  PROVE  ServerInv'
<1> DEFINE r == Head(channel)
           b == Balance(history, r.client)
<1>1. /\ EngineTakes("query") /\ channel' = Tail(channel) /\ answers' = Answer(r, "Ok", b)
      /\ UNCHANGED <<history, pending, phase, server, engine, arriving, deaths>>
      /\ UNCHANGED clientVars
  BY DEF HandleQuery, historyVars
<1>2. UNCHANGED <<waiting, sent, confirmed>>
  BY <1>1 DEF clientVars
<1>3. /\ TypeOK /\ Lifecycle /\ NextDeposit /\ Backed
      /\ DepositsCountOnce /\ ReadsSeeConfirmed /\ StopTurnsNobodyAway
      /\ channel \in Seq(Messages) /\ Of(channel) = Queued
  BY Given
<1>4. b \in Nat /\ history' \in Seq(Deposits)
  BY <1>1, <1>3, BalanceType DEF TypeOK
<1>5. server \in {"up", "closing", "stopping"} /\ channel # <<>> /\ r # ShutdownMessage
  BY <1>1, MessageKinds DEF EngineTakes
<1>6. r \in Requests /\ r.client \in Clients
  BY <1>3, <1>5, OfTail, Given
<1> HIDE DEF r, b
<1>7. /\ TypeOK' /\ Lifecycle' /\ InOnePlace' /\ InFlight' \subseteq InFlight
      /\ \A a \in answers' : \/ a \in answers
                             \/ /\ a.to = r /\ a.code = "Ok" /\ a.balance = b
  BY <1>1, <1>4, TakenStep DEF r
<1>8. NextDeposit'
  BY <1>1, <1>2, <1>3, <1>7, NextKept DEF NextDeposit, Awaited
<1>9. Backed' /\ DepositsCountOnce'
  <2>1. \A a \in answers' : a.code \in {"Success", "Duplicate"} => a \in answers
    BY <1>7
  <2>2. server' # "dead"
    BY <1>1, <1>5
  <2>3. QED
    BY <1>1, <1>2, <2>1, <2>2, BalancesKept
<1>10. ReadsSeeConfirmed'
  <2>1. b <= confirmed[r.client] + 1 /\ confirmed[r.client] <= b + MaxLoss * deaths
    BY <1>3, <1>6 DEF DepositsCountOnce, b
  <2>2. QED
    BY <1>1, <1>2, <1>3, <1>7, <2>1 DEF ReadsSeeConfirmed
<1>11. StopTurnsNobodyAway'
  BY <1>1, <1>3, <1>7 DEF StopTurnsNobodyAway
<1>12. QED
  BY <1>7, <1>8, <1>9, <1>10, <1>11, Assembled

LEMMA PrefixOfPrefix ==
  ASSUME NEW h \in Seq(Deposits), NEW n \in 0..Len(h), NEW i \in 0..n
  PROVE  SubSeq(SubSeq(h, 1, n), 1, i) = SubSeq(h, 1, i)
<1> DEFINE g == SubSeq(h, 1, n)
<1>1. Len(h) \in Nat
  BY LenProperties
<1>2. g \in Seq(Deposits) /\ Len(g) = n /\ \A j \in 1..n : g[j] = h[j]
  BY <1>1, SubSeqProperties
<1> HIDE DEF g
<1>3. SubSeq(g, 1, i) \in Seq(Deposits) /\ Len(SubSeq(g, 1, i)) = i
      /\ \A j \in 1..i : SubSeq(g, 1, i)[j] = g[j]
  BY <1>1, <1>2, SubSeqProperties
<1>4. SubSeq(h, 1, i) \in Seq(Deposits) /\ Len(SubSeq(h, 1, i)) = i
      /\ \A j \in 1..i : SubSeq(h, 1, i)[j] = h[j]
  BY <1>1, SubSeqProperties
<1>5. \A j \in 1..i : j \in 1..n
  BY <1>1
<1>6. SubSeq(g, 1, i) = SubSeq(h, 1, i)
  BY <1>2, <1>3, <1>4, <1>5, SeqEqual
<1>7. QED
  BY <1>6 DEF g

LEMMA WholeSeq ==
  ASSUME NEW h \in Seq(Deposits)
  PROVE  SubSeq(h, 1, Len(h)) = h
<1>1. Len(h) \in Nat
  BY LenProperties
<1>2. SubSeq(h, 1, Len(h)) \in Seq(Deposits) /\ Len(SubSeq(h, 1, Len(h))) = Len(h)
      /\ \A j \in 1..Len(h) : SubSeq(h, 1, Len(h))[j] = h[j]
  BY <1>1, SubSeqProperties
<1>3. QED
  BY <1>2, SeqEqual

\* One more command, the next deposit of its client or an earlier one, is backed too:
\* if it is not credited, the one in its way is.
LEMMA BackedAppend ==
  ASSUME NEW h \in Seq(Deposits), NEW d \in Deposits, NEW m \in Nat, BackedBy(h, m),
         d.tx <= Balance(h, d.uid) + m + 1
  PROVE  /\ BackedBy(Append(h, d), m)
         /\ d.tx <= Balance(Append(h, d), d.uid) + m
<1> DEFINE g == Append(h, d)
           c == d.uid
<1>1. Len(h) \in Nat /\ DOMAIN h = 1..Len(h) /\ \A i \in 1..Len(h) : h[i] \in Deposits
  BY LenProperties, ElementOfSeq
<1>2. /\ g \in Seq(Deposits) /\ Len(g) = Len(h) + 1 /\ DOMAIN g = 1..(Len(h) + 1)
      /\ g[Len(h) + 1] = d /\ \A i \in 1..Len(h) : g[i] = h[i]
  BY AppendProperties, LenProperties
<1>3. SubSeq(g, 1, Len(h)) = h
  BY BalanceAppend
<1>4. Len(h) \in 0..Len(g)
  BY <1>1, <1>2
<1>5. Balance(h, c) <= Balance(g, c)
      /\ (Credits(g, Len(h) + 1) => Balance(g, c) = Balance(h, c) + 1)
  BY BalanceAppend
<1>6. Balance(h, c) \in Nat /\ Balance(g, c) \in Nat
  BY <1>2, BalanceType
<1>7. d.tx \in Nat /\ \A i \in 1..Len(h) : h[i].tx \in Nat
  BY <1>1, ServerAssumption DEF Deposits
<1> HIDE DEF g, c
<1>8. d.tx <= Balance(g, c) + m
  <2>1. CASE Credits(g, Len(h) + 1)
    BY <1>5, <1>6, <1>7, <2>1 DEF c
  <2>2. CASE ~Credits(g, Len(h) + 1)
    <3>1. PICK j \in 1..((Len(h) + 1) - 1) : g[j].uid = g[Len(h) + 1].uid
                                             /\ ~(g[j].tx < g[Len(h) + 1].tx)
      BY <2>2 DEF Credits
    <3>2. j \in 1..Len(h) /\ j \in 0..Len(h) /\ h[j].uid = c /\ ~(h[j].tx < d.tx)
      BY <1>1, <1>2, <3>1 DEF c
    <3>3. h[j].tx <= Balance(SubSeq(h, 1, j), c) + m
      BY <1>1, <3>2 DEF BackedBy
    <3>4. Balance(SubSeq(h, 1, j), c) \in Nat /\ Balance(SubSeq(h, 1, j), c) <= Balance(h, c)
      BY <3>2, BalancePrefix
    <3>5. QED
      BY <1>5, <1>6, <1>7, <3>2, <3>3, <3>4
  <2>3. QED
    BY <2>1, <2>2
<1>9. ASSUME NEW i \in 1..(Len(h) + 1)
      PROVE  g[i].tx <= Balance(SubSeq(g, 1, i), g[i].uid) + m
  <2>1. CASE i = Len(h) + 1
    <3>1. SubSeq(g, 1, i) = g
      BY <1>2, <2>1, WholeSeq
    <3>2. QED
      BY <1>2, <1>8, <2>1, <3>1 DEF c
  <2>2. CASE i \in 1..Len(h)
    <3>1. i \in 0..Len(h)
      BY <2>2
    <3>2. SubSeq(SubSeq(g, 1, Len(h)), 1, i) = SubSeq(g, 1, i)
      BY <1>2, <1>4, <3>1, PrefixOfPrefix
    <3>3. SubSeq(g, 1, i) = SubSeq(h, 1, i)
      BY <1>3, <3>2
    <3>4. g[i] = h[i] /\ h[i].tx <= Balance(SubSeq(h, 1, i), h[i].uid) + m
      BY <1>1, <1>2, <2>2 DEF BackedBy
    <3>5. QED
      BY <3>3, <3>4
  <2>3. QED
    BY <1>1, <2>1, <2>2
<1>10. BackedBy(g, m)
  BY <1>2, <1>9 DEF BackedBy
<1>11. QED
  BY <1>8, <1>10 DEF g, c

\* Every piece of a backed history is backed.
LEMMA BackedPrefix ==
  ASSUME NEW h \in Seq(Deposits), NEW m, BackedBy(h, m), NEW n \in 0..Len(h)
  PROVE  BackedBy(SubSeq(h, 1, n), m)
<1> DEFINE g == SubSeq(h, 1, n)
<1>1. Len(h) \in Nat /\ DOMAIN h = 1..Len(h)
  BY LenProperties
<1>2. g \in Seq(Deposits) /\ DOMAIN g = 1..n /\ \A j \in 1..n : g[j] = h[j]
  BY <1>1, SubSeqProperties, LenProperties
<1>3. ASSUME NEW i \in 1..n
      PROVE  g[i].tx <= Balance(SubSeq(g, 1, i), g[i].uid) + m
  <2>1. i \in 0..n /\ i \in 1..Len(h)
    BY <1>1
  <2>2. SubSeq(g, 1, i) = SubSeq(h, 1, i)
    BY <2>1, PrefixOfPrefix
  <2>3. g[i] = h[i] /\ h[i].tx <= Balance(SubSeq(h, 1, i), h[i].uid) + m
    BY <1>1, <1>2, <2>1 DEF BackedBy
  <2>4. QED
    BY <2>2, <2>3
<1>4. QED
  BY <1>2, <1>3 DEF BackedBy

LEMMA LossType == ServerInv => MaxLoss * deaths \in Nat
BY ServerAssumption, Given DEF TypeOK

\* A history that asks for nothing beyond the next deposit holds no more than that.
LEMMA BalanceOfNext ==
  ASSUME NEW h \in Seq(Deposits), NEW known \in [Clients -> Nat],
         \A i \in DOMAIN h : h[i].tx <= known[h[i].uid] + 1, NEW c \in Clients
  PROVE  Balance(h, c) <= known[c] + 1
<1>1. DOMAIN h = 1..Len(h)
  BY LenProperties
<1>2. \A i \in 1..Len(h) : h[i].uid = c => h[i].tx <= known[c] + 1
  BY <1>1
<1>3. known[c] + 1 \in Nat
  OBVIOUS
<1>4. QED
  BY <1>2, <1>3, BalanceBound

LEMMA HandleCommandStep ==
  ASSUME ServerInv, HandleCommand
  PROVE  ServerInv'
<1> DEFINE r == Head(channel)
           d == [uid |-> r.client, tx |-> r.tx]
           c == r.client
           m == MaxLoss * deaths
           code == IF Credits(history', Len(history')) THEN "Success" ELSE "Duplicate"
<1>1. /\ EngineTakes("deposit") /\ channel' = Tail(channel) /\ answers' = Answer(r, code, 0)
      /\ phase = "serving" /\ history' = Append(history, d)
      /\ UNCHANGED <<pending, phase, server, engine, arriving, deaths>>
      /\ UNCHANGED clientVars
  BY DEF HandleCommand, Engine!Apply
<1>2. UNCHANGED <<waiting, sent, confirmed>>
  BY <1>1 DEF clientVars
<1>3. /\ TypeOK /\ Lifecycle /\ NextDeposit /\ Backed
      /\ DepositsCountOnce /\ ReadsSeeConfirmed /\ StopTurnsNobodyAway
      /\ channel \in Seq(Messages) /\ Of(channel) = Queued
  BY Given
<1>4. server \in {"up", "closing", "stopping"} /\ channel # <<>> /\ r # ShutdownMessage
      /\ r.kind = "deposit"
  BY <1>1, MessageKinds DEF EngineTakes
<1>5. r \in Queued /\ r \in InFlight /\ r \in Requests /\ c \in Clients /\ r.tx \in Nat /\ r.tx # 0
  BY <1>3, <1>4, OfTail, Given DEF InFlight
<1>6. r.tx <= confirmed[c] + 1 /\ r.tx <= MaxTx
  BY <1>3, <1>4, <1>5 DEF NextDeposit
<1>7. d \in Deposits /\ d.uid = c /\ d.tx = r.tx
  BY <1>5, <1>6, ServerAssumption DEF Deposits
<1>8. history \in Seq(Deposits) /\ confirmed \in [Clients -> Nat] /\ m \in Nat
  BY <1>3, LossType DEF TypeOK
<1>9. code \in {"Success", "Duplicate", "Ok", "503"} /\ 0 \in Nat
      /\ code \in {"Success", "Duplicate"}
  OBVIOUS
<1> HIDE DEF r, d, c, m, code
<1>10. history' \in Seq(Deposits) /\ Len(history') = Len(history) + 1
       /\ \A e : Balance(history, e) <= Balance(history', e)
  BY <1>1, <1>7, <1>8, BalanceAppend
<1>11. /\ TypeOK' /\ Lifecycle' /\ InOnePlace' /\ InFlight' \subseteq InFlight
       /\ \A a \in answers' : \/ a \in answers
                              \/ /\ a.to = r /\ a.code \in {"Success", "Duplicate"}
  BY <1>1, <1>9, <1>10, TakenStep DEF r
<1>12. \A i \in DOMAIN history' : history'[i].tx <= confirmed[history'[i].uid] + 1
  <2>1. /\ DOMAIN history' = 1..(Len(history) + 1) /\ DOMAIN history = 1..Len(history)
        /\ history'[Len(history) + 1] = d /\ Len(history) \in Nat
        /\ \A i \in 1..Len(history) : history'[i] = history[i]
    BY <1>1, <1>7, <1>8, <1>10, AppendProperties, LenProperties
  <2>2. \A i \in 1..Len(history) : history[i].tx <= confirmed[history[i].uid] + 1
    BY <1>3, <2>1 DEF NextDeposit
  <2>3. d.tx <= confirmed[d.uid] + 1
    BY <1>6, <1>7
  <2>4. QED
    BY <2>1, <2>2, <2>3
<1>13. NextDeposit'
  BY <1>1, <1>2, <1>3, <1>11, <1>12 DEF NextDeposit, Awaited
<1>14. BackedBy(history', m) /\ r.tx <= Balance(history', c) + m
  <2>1. confirmed[c] <= Balance(history, c) + m
    BY <1>3, <1>5 DEF DepositsCountOnce, m
  <2>2. Balance(history, c) \in Nat /\ confirmed[c] \in Nat
    BY <1>5, <1>8, BalanceType
  <2>3. d.tx <= Balance(history, d.uid) + m + 1
    BY <1>5, <1>6, <1>7, <1>8, <2>1, <2>2
  <2>4. BackedBy(history, m)
    BY <1>3, LedgerIs DEF BackedFor, m
  <2>5. QED
    BY <1>1, <1>7, <1>8, <2>3, <2>4, BackedAppend
<1>15. \A e : Balance(history, e) \in Nat /\ Balance(history', e) \in Nat
  BY <1>8, <1>10, BalanceType
<1>16. ASSUME NEW a \in answers', a.code \in {"Success", "Duplicate"}
       PROVE  a.to.tx <= Balance(history', a.to.client) + m
  <2>1. CASE a \in answers
    <3>1. a.to.tx <= Balance(history, a.to.client) + m /\ a.to.tx \in Nat
      BY <1>3, <1>16, <2>1, Given DEF Backed, m
    <3>2. QED
      BY <1>8, <1>10, <1>15, <3>1
  <2>2. CASE a \notin answers
    BY <1>11, <1>14, <2>2 DEF c
  <2>3. QED
    BY <2>1, <2>2
<1>17. ASSUME NEW e \in Clients
       PROVE  /\ Balance(history', e) <= confirmed[e] + 1
              /\ confirmed[e] <= Balance(history', e) + m
  <2>1. Balance(history', e) <= confirmed[e] + 1
    BY <1>8, <1>10, <1>12, BalanceOfNext
  <2>2. confirmed[e] <= Balance(history, e) + m
    BY <1>3 DEF DepositsCountOnce, m
  <2>3. confirmed[e] \in Nat
    BY <1>8
  <2>4. QED
    BY <1>8, <1>10, <1>15, <2>1, <2>2, <2>3
<1>18. m' = m /\ confirmed' = confirmed /\ server' # "dead"
  BY <1>1, <1>2, <1>4 DEF m
<1>19. Backed'
  BY <1>14, <1>16, <1>18, LedgerIs DEF BackedFor, m
<1>20. DepositsCountOnce'
  BY <1>17, <1>18, LedgerIs DEF CountedFor, m
<1>21. ReadsSeeConfirmed'
  BY <1>1, <1>2, <1>3, <1>11 DEF ReadsSeeConfirmed
<1>22. StopTurnsNobodyAway'
  BY <1>1, <1>3, <1>11 DEF StopTurnsNobodyAway
<1>23. QED
  BY <1>11, <1>13, <1>19, <1>20, <1>21, <1>22, Assembled

\* The engine thread leaves its loop or unwinds: who still waits is turned away.
LEMMA DrainStep ==
  ASSUME ServerInv, answers' = Unavailable(Queued), channel' = <<>>,
         UNCHANGED <<history, server, arriving, deaths>>, UNCHANGED clientVars,
         pending' \in Seq(Deposits), Len(pending') <= 1, phase' \in {"stopped", "dead"},
         engine' \in {"stopped", "panicked"}, engine # "panicked", server # "dead",
         phase' # "dead" => pending' = <<>>,
         engine' = "stopped" => phase' = "stopped" /\ server = "stopping",
         engine' = "panicked" => phase' = "dead",
         \A i \in DOMAIN pending' : pending'[i].tx <= confirmed[pending'[i].uid] + 1
  PROVE  ServerInv'
<1>1. UNCHANGED <<waiting, sent, confirmed>>
  BY DEF clientVars
<1>2. /\ TypeOK /\ Lifecycle /\ NextDeposit /\ InOnePlace
      /\ channel \in Seq(Messages) /\ Of(channel) = Queued
  BY Given
<1>3. answers' = AnswersWith(Queued, "503", 0)
  BY AnsweringIs
<1>4. <<>> \in Seq(Messages)
  BY EmptySeq
<1>5. /\ channel' \in Seq(Messages) /\ Of(channel') = {} /\ Single(channel')
      /\ Queued \in SUBSET (arriving \cup Queued)
      /\ \A r \in Queued : r \notin arriving' /\ r \notin Of(channel')
  <2>1. \A r \in Queued : r \notin arriving
    BY <1>2 DEF InOnePlace, SameRequest
  <2>2. QED
    BY <1>4, <2>1, OfNone
<1>6. /\ answers' \subseteq Answers
      /\ \A a \in answers' : Awaited(a.to)'
      /\ \A a, b \in answers' : a.to.client = b.to.client => a = b
      /\ \A a \in answers' : a \in answers \/ a.code = "503"
      /\ server \notin {"up", "closing"} => answers' = {}
      /\ InOnePlace' /\ InFlight' \subseteq InFlight
  <2>1. Answered(Queued, "503", 0)
    BY <1>3, <1>5, AnsweringStep
  <2>2. QED
    BY <2>1 DEF Answered
<1>7. TypeOK'
  BY <1>1, <1>2, <1>4, <1>5, <1>6 DEF TypeOK, Messages
<1>8. Lifecycle'
  <2>1. Queued' = {} /\ DOMAIN <<>> = {}
    BY <1>5, QueuedIs
  <2>2. QED
    BY <1>2, <1>6, <2>1 DEF Lifecycle
<1>9. NextDeposit'
  BY <1>1, <1>6, NextKept DEF Awaited
<1>10. \A a \in answers' : a \in answers \/ (a.code = "503" /\ engine' = "panicked")
  <2>1. engine' = "stopped" => answers' = {}
    BY <1>6
  <2>2. QED
    BY <1>6, <2>1
<1>11. Backed' /\ DepositsCountOnce' /\ ReadsSeeConfirmed' /\ StopTurnsNobodyAway'
  BY <1>1, <1>10, LedgerKept
<1>12. QED
  BY <1>6, <1>7, <1>8, <1>9, <1>11, Assembled

LEMMA HandleShutdownStep ==
  ASSUME ServerInv, HandleShutdown
  PROVE  ServerInv'
<1>1. /\ EngineTakes("shutdown") /\ engine' = "stopped" /\ phase' = "stopped"
      /\ answers' = Unavailable(Queued) /\ channel' = <<>>
      /\ UNCHANGED <<history, pending, server, arriving, deaths>> /\ UNCHANGED clientVars
      /\ phase = "serving"
  BY DEF HandleShutdown, Engine!Shutdown
<1>2. TypeOK /\ Lifecycle /\ NextDeposit /\ channel \in Seq(Messages)
  BY Given
<1>3. engine = "running" /\ channel # <<>> /\ Head(channel).kind = "shutdown"
      /\ server \in {"up", "closing", "stopping"}
  BY <1>1 DEF EngineTakes
<1>4. server = "stopping"
  <2>1. Head(channel) \in Messages
    BY <1>2, <1>3, OfTail
  <2>2. Head(channel) = ShutdownMessage
    BY <1>3, <2>1, MessageKinds DEF Messages
  <2>3. Head(channel) = channel[1] /\ 1 \in DOMAIN channel
    BY <1>2, <1>3, HeadTailProperties, EmptySeq, LenProperties
  <2>4. QED
    BY <1>2, <2>2, <2>3 DEF Lifecycle
<1>5. pending = <<>>
  BY <1>1, <1>2 DEF Lifecycle
<1>6. pending' \in Seq(Deposits) /\ Len(pending') <= 1
      /\ \A i \in DOMAIN pending' : pending'[i].tx <= confirmed[pending'[i].uid] + 1
  BY <1>1, <1>2 DEF TypeOK, NextDeposit
<1>7. QED
  BY <1>1, <1>3, <1>4, <1>5, <1>6, DrainStep

\* The command an engine dies with is the one at the head of its channel.
LEMMA Interrupted ==
  ASSUME ServerInv, EngineTakes("deposit"),
         NEW d, d.uid = Head(channel).client, d.tx = Head(channel).tx, d \in Deposits
  PROVE  /\ <<d>> \in Seq(Deposits) /\ Len(<<d>>) = 1
         /\ \A i \in DOMAIN <<d>> : <<d>>[i].tx <= confirmed[<<d>>[i].uid] + 1
<1>1. NextDeposit /\ channel \in Seq(Messages) /\ Of(channel) = Queued
  BY Given
<1>2. channel # <<>> /\ Head(channel) # ShutdownMessage
  BY MessageKinds DEF EngineTakes
<1>3. Head(channel) \in InFlight
  BY <1>1, <1>2, OfTail DEF InFlight
<1>4. d.tx <= confirmed[d.uid] + 1
  BY <1>1, <1>3 DEF NextDeposit
<1>5. QED
  BY <1>4

LEMMA EnginePanicsStep ==
  ASSUME ServerInv, EnginePanics
  PROVE  ServerInv'
<1> DEFINE d == [uid |-> Head(channel).client, tx |-> Head(channel).tx]
<1>1. /\ EngineTakes("deposit") /\ Engine!Die /\ pending' = <<d>> /\ engine' = "panicked"
      /\ answers' = Unavailable(Queued) /\ channel' = <<>>
      /\ UNCHANGED <<server, arriving, deaths>> /\ UNCHANGED clientVars
  BY DEF EnginePanics
<1>2. TypeOK /\ Lifecycle
  BY Given
<1>3. engine = "running" /\ server \in {"up", "closing", "stopping"}
  BY <1>1 DEF EngineTakes
<1>4. phase = "serving"
  BY <1>2, <1>3 DEF Lifecycle
<1>5. phase' = "dead" /\ UNCHANGED history /\ \E e \in Deposits : pending' = <<e>> \/ pending' = <<>>
  BY <1>1, <1>4 DEF Engine!Die
<1>6. d \in Deposits
  <2>1. pending' # <<>>
    BY <1>1
  <2>2. PICK e \in Deposits : pending' = <<e>>
    BY <1>5, <2>1
  <2>3. QED
    BY <1>1, <2>2
<1>7. pending' \in Seq(Deposits) /\ Len(pending') = 1
      /\ \A i \in DOMAIN pending' : pending'[i].tx <= confirmed[pending'[i].uid] + 1
  BY <1>1, <1>6, Interrupted
<1>8. QED
  BY <1>1, <1>3, <1>5, <1>7, DrainStep

-----------------------------------------------------------------------------
(* main *)

\* The process goes from one stage to the next; requests and clients stay as they are.
LEMMA StageStep ==
  ASSUME ServerInv, TypeOK', Lifecycle',
         UNCHANGED <<history, pending, engine, arriving, answers, deaths>>, UNCHANGED clientVars,
         Single(channel'), Of(channel') = Queued,
         server' = "dead" => server = "dead"
  PROVE  ServerInv'
<1>1. UNCHANGED <<waiting, sent, confirmed>>
  BY DEF clientVars
<1>2. InOnePlace /\ NextDeposit
  BY Given
<1>3. Queued' = Queued
  BY QueuedIs
<1>4. InOnePlace'
  BY <1>1, <1>2, <1>3 DEF InOnePlace, Single
<1>5. NextDeposit'
  BY <1>1, <1>2, <1>3 DEF NextDeposit, InFlight, Awaited
<1>6. Backed' /\ DepositsCountOnce' /\ ReadsSeeConfirmed' /\ StopTurnsNobodyAway'
  BY <1>1, LedgerKept
<1>7. QED
  BY <1>4, <1>5, <1>6, Assembled

LEMMA SigtermStep ==
  ASSUME ServerInv, Sigterm
  PROVE  ServerInv'
<1>1. /\ server = "up" /\ server' = "closing"
      /\ UNCHANGED <<history, pending, phase, engine, arriving, channel, answers, deaths>>
      /\ UNCHANGED clientVars
  BY DEF Sigterm, historyVars
<1>2. TypeOK /\ Lifecycle /\ Of(channel) = Queued /\ Single(channel)
  BY Given
<1>3. TypeOK'
  BY <1>1, <1>2 DEF TypeOK, clientVars, Awaited
<1>4. Lifecycle'
  BY <1>1, <1>2 DEF Lifecycle
<1>5. QED
  BY <1>1, <1>2, <1>3, <1>4, StageStep

LEMMA HttpStoppedStep ==
  ASSUME ServerInv, HttpStopped
  PROVE  ServerInv'
<1>1. /\ server = "closing" /\ arriving = {} /\ answers = {}
      /\ \A r \in Queued : ~Awaited(r)
      /\ UNCHANGED <<history, pending, phase, engine, arriving, answers, deaths>>
      /\ UNCHANGED clientVars
  BY DEF HttpStopped, historyVars
<1>2. TypeOK /\ Lifecycle /\ channel \in Seq(Messages)
      /\ Of(channel) = Queued /\ Single(channel)
  BY Given
<1>3. \A r : Awaited(r)' <=> Awaited(r)
  BY <1>1 DEF Awaited, clientVars
<1>4. CASE engine = "running"
  <2>1. server' = "stopping" /\ channel' = Append(channel, ShutdownMessage)
    BY <1>4 DEF HttpStopped
  <2>2. channel' \in Seq(Messages) /\ Of(channel') = Queued /\ Single(channel')
    BY <1>2, <2>1, OfAppend DEF Messages
  <2>3. TypeOK'
    BY <1>1, <1>2, <2>1, <2>2 DEF TypeOK, clientVars, Awaited, Messages
  <2>4. Lifecycle'
    BY <1>1, <1>2, <1>3, <1>4, <2>1, <2>2, QueuedIs DEF Lifecycle
  <2>5. QED
    BY <1>1, <2>1, <2>2, <2>3, <2>4, StageStep
<1>5. CASE engine # "running"
  <2>1. server' = "exited" /\ channel' = channel
    BY <1>5 DEF HttpStopped
  <2>2. TypeOK'
    BY <1>1, <1>2, <2>1 DEF TypeOK, clientVars, Awaited
  <2>3. Lifecycle'
    BY <1>1, <1>2, <1>3, <1>5, <2>1, QueuedIs DEF Lifecycle, TypeOK
  <2>4. QED
    BY <1>1, <1>2, <2>1, <2>2, <2>3, StageStep
<1>6. QED
  BY <1>4, <1>5

LEMMA ExitStep ==
  ASSUME ServerInv, Exit
  PROVE  ServerInv'
<1>1. /\ server = "stopping" /\ engine # "running" /\ server' = "exited"
      /\ UNCHANGED <<engine, arriving, channel, answers, deaths>> /\ UNCHANGED clientVars
  BY DEF Exit
<1>2. TypeOK /\ Lifecycle /\ Of(channel) = Queued /\ Single(channel)
  BY Given
<1>3. \A r : Awaited(r)' <=> Awaited(r)
  BY <1>1 DEF Awaited, clientVars
<1>4. /\ UNCHANGED <<history, pending>>
      /\ engine = "stopped" => phase' = "gone"
      /\ engine # "stopped" => phase' = phase
  <2>1. CASE engine = "stopped"
    <3>1. phase = "stopped" /\ pending = <<>> /\ pending' = <<>> /\ Engine!Die
      BY <1>1, <1>2, <2>1 DEF Exit, Lifecycle
    <3>2. QED
      BY <2>1, <3>1 DEF Engine!Die
  <2>2. CASE engine # "stopped"
    BY <2>2 DEF Exit, historyVars
  <2>3. QED
    BY <2>1, <2>2
<1>5. TypeOK'
  <2>1. phase' \in {"serving", "stopped", "dead", "gone"}
    BY <1>2, <1>4 DEF TypeOK
  <2>2. QED
    BY <1>1, <1>2, <1>4, <2>1 DEF TypeOK, clientVars, Awaited
<1>6. Lifecycle'
  BY <1>1, <1>2, <1>3, <1>4, QueuedIs DEF Lifecycle, TypeOK
<1>7. QED
  BY <1>1, <1>2, <1>4, <1>5, <1>6, StageStep

\* The process is killed; what it may have lost is what MaxLoss says of one death.
LEMMA DieStep ==
  ASSUME ServerInv, Die
  PROVE  ServerInv'
<1> DEFINE m == MaxLoss * deaths
<1>1. /\ server \in {"up", "closing", "stopping"} /\ server' = "dead"
      /\ deaths' = deaths + 1 /\ UNCHANGED <<engine, sent, confirmed>>
      /\ arriving' = {} /\ channel' = <<>> /\ answers' = {}
      /\ waiting' = [c \in Clients |-> 0]
  BY DEF Die
<1>2. TypeOK /\ Lifecycle /\ NextDeposit /\ Backed /\ DepositsCountOnce
  BY Given
<1>3. deaths \in Nat /\ m \in Nat /\ MaxLoss \in Nat
  BY <1>2, LossType, ServerAssumption DEF TypeOK
<1>4. MaxLoss * deaths' = m + MaxLoss /\ m + MaxLoss \in Nat
  BY <1>1, <1>3
<1>5. /\ UNCHANGED history /\ pending' \in Seq(Deposits) /\ Len(pending') <= 1
      /\ \A i \in DOMAIN pending' : pending'[i].tx <= confirmed[pending'[i].uid] + 1
      /\ phase' \in {"dead", "gone"}
      /\ engine = "panicked" => phase' = "dead"
      /\ engine = "running" => phase' = "dead"
      /\ engine = "stopped" => phase' = "gone"
      /\ phase' # "dead" => pending' = <<>>
  <2>1. CASE engine = "panicked"
    BY <1>2, <2>1 DEF Die, historyVars, TypeOK, Lifecycle, NextDeposit
  <2>2. CASE engine # "panicked"
    <3>1. Engine!Die
          /\ (pending' # <<>> => /\ EngineTakes("deposit")
                                 /\ pending'[1].uid = Head(channel).client
                                 /\ pending'[1].tx = Head(channel).tx)
      BY <2>2 DEF Die
    <3>2. UNCHANGED history /\ phase' \in {"dead", "gone"}
          /\ (engine = "running" => phase' = "dead") /\ (engine = "stopped" => phase' = "gone")
          /\ (phase' # "dead" => pending' = <<>>)
      BY <1>1, <1>2, <3>1 DEF Engine!Die, Lifecycle
    <3>3. CASE pending' = <<>>
      <4>1. pending' \in Seq(Deposits) /\ Len(pending') <= 1 /\ DOMAIN pending' = {}
        BY <3>3, EmptySeq
      <4>2. QED
        BY <2>2, <3>2, <4>1
    <3>4. CASE pending' # <<>>
      <4>1. PICK d \in Deposits : pending' = <<d>>
        BY <3>1, <3>4 DEF Engine!Die
      <4>2. pending'[1] = d /\ EngineTakes("deposit")
            /\ d.uid = Head(channel).client /\ d.tx = Head(channel).tx
        BY <3>1, <3>4, <4>1
      <4>3. pending' \in Seq(Deposits) /\ Len(pending') = 1
            /\ \A i \in DOMAIN pending' : pending'[i].tx <= confirmed[pending'[i].uid] + 1
        BY <4>1, <4>2, Interrupted
      <4>4. QED
        BY <2>2, <3>2, <4>3
    <3>5. QED
      BY <3>3, <3>4
  <2>3. QED
    BY <2>1, <2>2
<1> HIDE DEF m
<1>6. <<>> \in Seq(Messages) /\ Queued' = {} /\ Single(channel') /\ DOMAIN channel' = {}
  BY <1>1, OfNone, QueuedIs, EmptySeq
<1>7. TypeOK'
  <2>1. waiting' \in [Clients -> Nat] /\ deaths' \in Nat
    BY <1>1, <1>3
  <2>2. phase' \in {"serving", "stopped", "dead", "gone"}
    BY <1>5
  <2>3. arriving' \subseteq Requests /\ answers' \subseteq Answers
        /\ channel' \in Seq(Requests \cup {ShutdownMessage})
    BY <1>1, <1>6 DEF Messages
  <2>4. QED
    BY <1>1, <1>2, <1>5, <2>1, <2>2, <2>3 DEF TypeOK
<1>8. Lifecycle'
  BY <1>1, <1>2, <1>5, <1>6 DEF Lifecycle, TypeOK
<1>9. InOnePlace'
  BY <1>1, <1>6 DEF InOnePlace, Single
<1>10. NextDeposit'
  <2>1. InFlight' = {}
    BY <1>1, <1>6 DEF InFlight
  <2>2. QED
    BY <1>1, <1>2, <1>5, <2>1 DEF NextDeposit
<1>11. /\ history \in Seq(Deposits) /\ \A c : Balance(history, c) \in Nat
       /\ \A c \in Clients : confirmed[c] \in Nat
  BY <1>2, BalanceType DEF TypeOK
<1>12. ASSUME NEW c \in Clients
       PROVE  /\ Balance(history, c) <= confirmed[c] + 1
              /\ confirmed[c] <= Balance(history, c) + (m + MaxLoss)
              /\ confirmed[c] + MaxLoss <= Balance(history, c) + (m + MaxLoss)
  <2>1. /\ Balance(history, c) <= confirmed[c] + 1
        /\ confirmed[c] <= Balance(history, c) + m
    BY <1>2 DEF DepositsCountOnce, m
  <2>2. QED
    BY <1>3, <1>11, <2>1
<1>13. ASSUME NEW i \in DOMAIN history
       PROVE  history[i].tx <= Balance(SubSeq(history, 1, i), history[i].uid) + (m + MaxLoss)
  <2>1. history[i].tx <= Balance(SubSeq(history, 1, i), history[i].uid) + m
    BY <1>2 DEF Backed, m
  <2>2. i \in 0..Len(history) /\ history[i].tx \in Nat
    <3>1. i \in 1..Len(history) /\ history[i] \in Deposits /\ Len(history) \in Nat
      BY <1>11, LenProperties, ElementOfSeq
    <3>2. QED
      BY <3>1, ServerAssumption DEF Deposits
  <2>3. Balance(SubSeq(history, 1, i), history[i].uid) \in Nat
    BY <1>11, <2>2, BalancePrefix
  <2>4. QED
    BY <1>3, <2>1, <2>2, <2>3
<1>14. history' = history /\ confirmed' = confirmed /\ answers' = {}
       /\ MaxLoss * deaths' = m + MaxLoss
  BY <1>1, <1>4, <1>5
<1>15. Backed'
  BY <1>12, <1>13, <1>14, LedgerIs DEF BackedFor, BackedBy
<1>16. DepositsCountOnce'
  BY <1>12, <1>14, LedgerIs DEF CountedFor
<1>17. ReadsSeeConfirmed' /\ StopTurnsNobodyAway'
  BY <1>14 DEF ReadsSeeConfirmed, StopTurnsNobodyAway
<1>18. QED
  BY <1>7, <1>8, <1>9, <1>10, <1>15, <1>16, <1>17, Assembled

\* What a restart makes of a history: a piece of it, or all of it and the command
\* that was interrupted.
LEMMA RestartedHistory ==
  ASSUME NEW h \in Seq(Deposits), NEW p \in Seq(Deposits), Len(p) <= 1,
         NEW n \in 0..Len(h \o p)
  PROVE  \/ n \in 0..Len(h) /\ SubSeq(h \o p, 1, n) = SubSeq(h, 1, n)
         \/ /\ Len(p) = 1 /\ n = Len(h) + 1 /\ SubSeq(h \o p, 1, n) = Append(h, p[1])
<1>1. Len(h) \in Nat /\ Len(p) \in Nat
  BY LenProperties
<1>2. /\ h \o p \in Seq(Deposits) /\ Len(h \o p) = Len(h) + Len(p)
      /\ \A i \in 1..(Len(h) + Len(p)) : (h \o p)[i] = IF i <= Len(h) THEN h[i] ELSE p[i - Len(h)]
  BY ConcatProperties
<1>3. SubSeq(h \o p, 1, n) \in Seq(Deposits) /\ Len(SubSeq(h \o p, 1, n)) = n
      /\ \A i \in 1..n : SubSeq(h \o p, 1, n)[i] = (h \o p)[i]
  BY <1>1, <1>2, SubSeqProperties
<1>4. CASE n \in 0..Len(h)
  <2>1. SubSeq(h, 1, n) \in Seq(Deposits) /\ Len(SubSeq(h, 1, n)) = n
        /\ \A i \in 1..n : SubSeq(h, 1, n)[i] = h[i]
    BY <1>1, <1>4, SubSeqProperties
  <2>2. \A i \in 1..n : (h \o p)[i] = h[i]
    BY <1>1, <1>2, <1>4
  <2>3. SubSeq(h \o p, 1, n) = SubSeq(h, 1, n)
    BY <1>3, <2>1, <2>2, SeqEqual
  <2>4. QED
    BY <1>4, <2>3
<1>5. CASE n \notin 0..Len(h)
  <2>1. n = Len(h) + 1 /\ Len(p) = 1
    <3>1. n \in 0..(Len(h) + Len(p))
      BY <1>2
    <3>2. n \in Nat /\ n <= Len(h) + Len(p)
      BY <1>1, <3>1
    <3>3. ~(n <= Len(h))
      BY <1>1, <1>5, <3>2
    <3>4. Len(p) = 0 \/ Len(p) = 1
      <4>1. \A k \in Nat : k <= 1 => k = 0 \/ k = 1
        OBVIOUS
      <4>2. QED
        BY <1>1, <4>1, Zenon
    <3>5. QED
      BY <1>1, <3>2, <3>3, <3>4
  <2>2. p[1] \in Deposits
    BY <2>1, ElementOfSeq
  <2>3. Append(h, p[1]) \in Seq(Deposits) /\ Len(Append(h, p[1])) = Len(h) + 1
        /\ Append(h, p[1])[Len(h) + 1] = p[1]
        /\ \A i \in 1..Len(h) : Append(h, p[1])[i] = h[i]
    BY <2>2, AppendProperties
  <2>4. ASSUME NEW i \in 1..n
        PROVE  SubSeq(h \o p, 1, n)[i] = Append(h, p[1])[i]
    <3>1. CASE i <= Len(h)
      <4>1. i \in 1..Len(h) /\ i \in 1..(Len(h) + Len(p))
        BY <1>1, <2>1, <3>1
      <4>2. (h \o p)[i] = h[i]
        BY <1>2, <3>1, <4>1
      <4>3. QED
        BY <1>3, <2>3, <4>1, <4>2
    <3>2. CASE ~(i <= Len(h))
      <4>1. i = Len(h) + 1 /\ i - Len(h) = 1 /\ i \in 1..(Len(h) + Len(p))
        BY <1>1, <2>1, <3>2
      <4>2. (h \o p)[i] = p[1]
        BY <1>2, <3>2, <4>1
      <4>3. QED
        BY <1>3, <2>3, <4>1, <4>2
    <3>3. QED
      BY <3>1, <3>2
  <2>5. SubSeq(h \o p, 1, n) = Append(h, p[1])
    BY <1>3, <2>1, <2>3, <2>4, SeqEqual
  <2>6. QED
    BY <2>1, <2>5
<1>6. QED
  BY <1>4, <1>5

\* build_engine
LEMMA RestartStep ==
  ASSUME ServerInv, Restart
  PROVE  ServerInv'
<1> DEFINE m == MaxLoss * deaths
<1>1. /\ server \in {"exited", "dead"} /\ engine # "panicked"
      /\ server' = "up" /\ engine' = "running"
      /\ UNCHANGED <<arriving, channel, answers, deaths>> /\ UNCHANGED clientVars
  BY DEF Restart
<1>2. UNCHANGED <<waiting, sent, confirmed>>
  BY <1>1 DEF clientVars
<1>3. PICK n \in 0..Len(history \o pending) : Engine!Restart(n)
  BY DEF Restart
<1>4. /\ n + (IF phase = "gone" THEN 0 ELSE MaxLoss) >= Len(history)
      /\ history' = SubSeq(history \o pending, 1, n) /\ pending' = <<>> /\ phase' = "serving"
  BY <1>3 DEF Engine!Restart
<1>5. TypeOK /\ Lifecycle /\ InOnePlace /\ NextDeposit /\ Backed /\ DepositsCountOnce
  BY Given
<1>6. /\ history \in Seq(Deposits) /\ pending \in Seq(Deposits) /\ Len(pending) <= 1
      /\ Len(history) \in Nat /\ m \in Nat /\ MaxLoss \in Nat
      /\ confirmed \in [Clients -> Nat] /\ \A c \in Clients : confirmed[c] \in Nat
  BY <1>5, LossType, ServerAssumption, LenProperties DEF TypeOK
<1>7. arriving = {} /\ answers = {} /\ channel = <<>>
  BY <1>1, <1>5 DEF Lifecycle, TypeOK
<1>8. (phase # "gone" => server = "dead")
  BY <1>1, <1>5 DEF Lifecycle, TypeOK
<1>9. /\ BackedBy(history, m)
      /\ \A i \in DOMAIN history : history[i].tx <= confirmed[history[i].uid] + 1
      /\ \A i \in DOMAIN pending : pending[i].tx <= confirmed[pending[i].uid] + 1
      /\ \A c \in Clients : confirmed[c] <= Balance(history, c) + m
      /\ server = "dead" => \A c \in Clients : confirmed[c] + MaxLoss <= Balance(history, c) + m
  BY <1>1, <1>5, LedgerIs DEF NextDeposit, DepositsCountOnce, BackedFor, m
<1>10. \A c : Balance(history, c) \in Nat
  BY <1>6, BalanceType
<1> HIDE DEF m
<1>11. /\ history' \in Seq(Deposits) /\ BackedBy(history', m)
       /\ \A i \in DOMAIN history' : history'[i].tx <= confirmed[history'[i].uid] + 1
       /\ \A c \in Clients : confirmed[c] <= Balance(history', c) + m
  <2>1. CASE n \in 0..Len(history) /\ history' = SubSeq(history, 1, n)
    <3>1. BackedBy(history', m)
      BY <1>6, <1>9, <2>1, BackedPrefix
    <3>2. history' \in Seq(Deposits) /\ Len(history') = n
          /\ \A i \in 1..n : history'[i] = history[i]
      BY <1>6, <2>1, SubSeqProperties
    <3>3. \A i \in DOMAIN history' : history'[i].tx <= confirmed[history'[i].uid] + 1
      <4>1. DOMAIN history' = 1..n /\ DOMAIN history = 1..Len(history)
        BY <1>6, <3>2, LenProperties
      <4>2. \A i \in 1..n : i \in 1..Len(history)
        BY <1>6, <2>1
      <4>3. QED
        BY <1>9, <3>2, <4>1, <4>2
    <3>4. ASSUME NEW c \in Clients
          PROVE  confirmed[c] <= Balance(history', c) + m
      <4>1. Balance(history', c) \in Nat
            /\ Balance(history, c) <= Balance(history', c) + (Len(history) - n)
        BY <1>6, <2>1, BalancePrefix
      <4>2. CASE phase = "gone"
        BY <1>4, <1>6, <1>9, <1>10, <2>1, <4>1, <4>2
      <4>3. CASE phase # "gone"
        <5>1. confirmed[c] + MaxLoss <= Balance(history, c) + m
          BY <1>8, <1>9, <4>3
        <5>2. n + MaxLoss >= Len(history)
          BY <1>4, <4>3
        <5>3. QED
          BY <1>6, <1>10, <2>1, <4>1, <5>1, <5>2
      <4>4. QED
        BY <4>2, <4>3
    <3>5. QED
      BY <3>1, <3>2, <3>3, <3>4
  <2>2. CASE Len(pending) = 1 /\ history' = Append(history, pending[1])
    <3> DEFINE d == pending[1]
    <3>1. d \in Deposits /\ d.uid \in Clients /\ d.tx \in Nat /\ d.tx <= confirmed[d.uid] + 1
      <4>1. d \in Deposits /\ 1 \in DOMAIN pending
        <5>1. 1 \in 1..Len(pending) /\ DOMAIN pending = 1..Len(pending)
          BY <1>6, <2>2, LenProperties
        <5>2. QED
          BY <1>6, <5>1, ElementOfSeq
      <4>2. QED
        BY <1>9, <4>1, ServerAssumption DEF Deposits
    <3> HIDE DEF d
    <3>2. history' = Append(history, d)
      BY <2>2 DEF d
    <3>3. d.tx <= Balance(history, d.uid) + m + 1
      BY <1>6, <1>9, <1>10, <3>1
    <3>4. BackedBy(history', m)
      BY <1>6, <1>9, <3>1, <3>2, <3>3, BackedAppend
    <3>5. history' \in Seq(Deposits) /\ \A c : Balance(history, c) <= Balance(history', c)
      BY <1>6, <3>1, <3>2, BalanceAppend
    <3>6. \A i \in DOMAIN history' : history'[i].tx <= confirmed[history'[i].uid] + 1
      <4>1. /\ DOMAIN history' = 1..(Len(history) + 1) /\ DOMAIN history = 1..Len(history)
            /\ history'[Len(history) + 1] = d
            /\ \A i \in 1..Len(history) : history'[i] = history[i]
        BY <1>6, <3>1, <3>2, <3>5, AppendProperties, LenProperties
      <4>2. QED
        BY <1>6, <1>9, <3>1, <4>1
    <3>7. \A c \in Clients : confirmed[c] <= Balance(history', c) + m
      BY <1>6, <1>9, <1>10, <3>5, BalanceType
    <3>8. QED
      BY <3>4, <3>5, <3>6, <3>7
  <2>3. QED
    BY <1>4, <1>6, <2>1, <2>2, RestartedHistory
<1>12. Queued' = {} /\ Queued = {} /\ InFlight' = {} /\ DOMAIN <<>> = {} /\ <<>> \in Seq(Deposits)
       /\ Len(<<>>) = 0
  BY <1>1, <1>7, OfNone, QueuedIs, EmptySeq DEF InFlight
<1>13. TypeOK'
  <2>1. pending' \in Seq(Deposits) /\ Len(pending') <= 1
    BY <1>4, <1>12
  <2>2. QED
    BY <1>1, <1>2, <1>4, <1>5, <1>7, <1>11, <2>1 DEF TypeOK
<1>14. Lifecycle'
  BY <1>1, <1>4, <1>7, <1>12 DEF Lifecycle
<1>15. InOnePlace'
  BY <1>1, <1>7, <1>12 DEF InOnePlace
<1>16. NextDeposit'
  BY <1>2, <1>4, <1>11, <1>12 DEF NextDeposit
<1>17. m' = m /\ confirmed' = confirmed /\ answers' = {} /\ server' # "dead"
  BY <1>1, <1>2, <1>7 DEF m
<1>18. Backed'
  BY <1>11, <1>17, LedgerIs DEF BackedFor, m
<1>19. DepositsCountOnce'
  <2>1. ASSUME NEW c \in Clients
        PROVE  /\ Balance(history', c) <= confirmed[c] + 1
               /\ confirmed[c] <= Balance(history', c) + m
    BY <1>6, <1>11, BalanceOfNext
  <2>2. QED
    BY <1>17, <2>1, LedgerIs DEF CountedFor, m
<1>20. ReadsSeeConfirmed' /\ StopTurnsNobodyAway'
  BY <1>17 DEF ReadsSeeConfirmed, StopTurnsNobodyAway
<1>21. QED
  BY <1>13, <1>14, <1>15, <1>16, <1>18, <1>19, <1>20, Assembled

-----------------------------------------------------------------------------
(* The invariant *)

LEMMA ServerInit == Init => ServerInv
<1> SUFFICES ASSUME Init
             PROVE  ServerInv
  OBVIOUS
<1>1. /\ history = <<>> /\ pending = <<>> /\ phase = "serving"
      /\ server = "up" /\ engine = "running"
      /\ arriving = {} /\ channel = <<>> /\ answers = {} /\ deaths = 0
      /\ waiting = [c \in Clients |-> 0] /\ sent = [c \in Clients |-> 0]
      /\ confirmed = [c \in Clients |-> 0]
  BY DEF Init, Engine!Init
<1>2. /\ \A S : <<>> \in Seq(S)
      /\ Len(<<>>) = 0 /\ DOMAIN <<>> = {}
  BY EmptySeq
<1>3. Queued = {} /\ InFlight = {}
  BY <1>1, OfNone, QueuedIs DEF InFlight
<1>4. \A c : Balance(history, c) = 0
  <2>1. \A c : Credited(history, c) = {}
    BY <1>1, <1>2 DEF Credited
  <2>2. QED
    BY <2>1, FS_EmptySet, BalanceIs
<1>5. TypeOK
  BY <1>1, <1>2 DEF TypeOK
<1>6. Lifecycle /\ InOnePlace /\ NextDeposit
  BY <1>1, <1>2, <1>3 DEF Lifecycle, InOnePlace, NextDeposit
<1>7. MaxLoss * deaths = 0
  BY <1>1, ServerAssumption
<1>8. Backed
  BY <1>1, <1>2 DEF Backed
<1>9. DepositsCountOnce
  BY <1>1, <1>4, <1>7 DEF DepositsCountOnce
<1>10. ReadsSeeConfirmed /\ StopTurnsNobodyAway
  BY <1>1 DEF ReadsSeeConfirmed, StopTurnsNobodyAway
<1>11. QED
  BY <1>5, <1>6, <1>8, <1>9, <1>10 DEF ServerInv

LEMMA ServerStutter ==
  ASSUME ServerInv, UNCHANGED vars
  PROVE  ServerInv'
<1>1. UNCHANGED <<history, pending, phase, server, engine, arriving, channel, answers, deaths>>
      /\ UNCHANGED clientVars
  BY DEF vars, historyVars
<1>2. TypeOK /\ Lifecycle /\ Of(channel) = Queued /\ Single(channel)
  BY Given
<1>3. TypeOK'
  BY <1>1, <1>2 DEF TypeOK, clientVars, Awaited
<1>4. Lifecycle'
  BY <1>1, <1>2, QueuedIs DEF Lifecycle, Awaited, clientVars
<1>5. QED
  BY <1>1, <1>2, <1>3, <1>4, StageStep

LEMMA ServerNext ==
  ASSUME ServerInv, [Next]_vars
  PROVE  ServerInv'
<1>1. ASSUME NEW c \in Clients, NEW kind \in {"deposit", "query"}, Send(c, kind)
      PROVE  ServerInv'
  BY <1>1, SendStep
<1>2. ASSUME NEW c \in Clients, GiveUp(c)
      PROVE  ServerInv'
  BY <1>2, GiveUpStep
<1>3. ASSUME NEW r \in arriving, Lose(r)
      PROVE  ServerInv'
  BY <1>3, LoseStep
<1>4. ASSUME NEW a \in answers, Deliver(a)
      PROVE  ServerInv'
  BY <1>4, DeliverStep
<1>5. ASSUME NEW r \in arriving, Enqueue(r)
      PROVE  ServerInv'
  BY <1>5, EnqueueStep
<1>6. CASE HandleCommand
  BY <1>6, HandleCommandStep
<1>7. CASE HandleQuery
  BY <1>7, HandleQueryStep
<1>8. CASE HandleShutdown
  BY <1>8, HandleShutdownStep
<1>9. CASE EnginePanics
  BY <1>9, EnginePanicsStep
<1>10. CASE Sigterm
  BY <1>10, SigtermStep
<1>11. CASE HttpStopped
  BY <1>11, HttpStoppedStep
<1>12. CASE Exit
  BY <1>12, ExitStep
<1>13. CASE Die
  BY <1>13, DieStep
<1>14. CASE Restart
  BY <1>14, RestartStep
<1>15. CASE UNCHANGED vars
  BY <1>15, ServerStutter
<1>16. QED
  BY <1>1, <1>2, <1>3, <1>4, <1>5, <1>6, <1>7, <1>8, <1>9, <1>10, <1>11, <1>12, <1>13,
     <1>14, <1>15 DEF Next

\* Whatever clients, network, signals and deaths do to matching-server, the inductive
\* invariant holds: the process, its engine thread and the durable history agree on
\* who is alive, a request is in one place, and the ledger is backed.
THEOREM ServerInvariantHolds == Spec => []ServerInv
<1>1. Init => ServerInv
  BY ServerInit
<1>2. ServerInv /\ [Next]_vars => ServerInv'
  BY ServerNext
<1>3. QED
  BY <1>1, <1>2, PTL DEF Spec

\* Every deposit a client has an answer for is in its balance exactly once, over lost
\* answers, repeated requests, deaths and restarts (BalanceReq and its transaction id).
THEOREM DepositsAreCountedOnce == Spec => []DepositsCountOnce
<1>1. ServerInv => DepositsCountOnce
  BY DEF ServerInv
<1>2. QED
  BY <1>1, ServerInvariantHolds, PTL

\* A balance a client reads contains all its confirmed deposits (EngineReq::Balance goes
\* through the channel of the commands).
THEOREM ReadsAreCurrent == Spec => []ReadsSeeConfirmed
<1>1. ServerInv => ReadsSeeConfirmed
  BY DEF ServerInv
<1>2. QED
  BY <1>1, ServerInvariantHolds, PTL

\* 503 is for a panicked engine thread only: main ends the handlers before the engine.
THEOREM StopIsOrderly == Spec => []StopTurnsNobodyAway
<1>1. ServerInv => StopTurnsNobodyAway
  BY DEF ServerInv
<1>2. QED
  BY <1>1, ServerInvariantHolds, PTL

\* A process that has exited by itself is followed by one with the whole history.
LEMMA ExitedRestart ==
  ASSUME ServerInv, Restart, server = "exited"
  PROVE  history' = history
<1>1. engine # "panicked"
  BY DEF Restart
<1>2. PICK n \in 0..Len(history \o pending) : Engine!Restart(n)
  BY DEF Restart
<1>3. TypeOK /\ Lifecycle
  BY Given
<1>4. phase = "gone" /\ pending = <<>> /\ history \in Seq(Deposits) /\ Len(history) \in Nat
  BY <1>1, <1>3, LenProperties DEF Lifecycle, TypeOK
<1>5. history \o pending = history
  BY <1>4, ConcatEmptySeq
<1>6. n + 0 >= Len(history) /\ history' = SubSeq(history, 1, n) /\ n \in 0..Len(history)
  BY <1>2, <1>4, <1>5 DEF Engine!Restart
<1>7. n = Len(history)
  BY <1>4, <1>6
<1>8. QED
  BY <1>4, <1>6, <1>7, WholeSeq

\* An orderly exit leaves nothing behind (main: Shutdown, join, exit).
THEOREM ExitLosesNothing == Spec => ExitKeepsAll
<1>1. ASSUME ServerInv, [Next]_vars, server = "exited", server' = "up"
      PROVE  history' = history
  <2>1. Restart
    BY <1>1 DEF Next, vars, Send, GiveUp, Lose, Deliver, Enqueue, EngineTakes, HandleCommand,
                HandleQuery, HandleShutdown, EnginePanics, Sigterm, HttpStopped, Exit, Die
  <2>2. QED
    BY <1>1, <2>1, ExitedRestart
<1>2. ServerInv /\ [Next]_vars => [server = "exited" /\ server' = "up" => history' = history]_vars
  BY <1>1
<1>3. QED
  BY <1>2, ServerInvariantHolds, PTL DEF Spec, ExitKeepsAll
=============================================================================
