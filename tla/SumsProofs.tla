------------------------------ MODULE SumsProofs ------------------------------
(***************************************************************************)
(* Sums do not depend on the order in which they are made, and sums along a  *)
(* sequence follow what is done to the sequence.                             *)
(***************************************************************************)
EXTENDS Sums, Sequences, SequencesExt, SequenceTheorems, FiniteSetTheorems,
        WellFoundedInduction, TLAPS

-----------------------------------------------------------------------------
(* Induction.  The induction theorems of the library are about operators; these *)
(* are about sets.                                                             *)

Below == {pair \in Nat \X Nat : pair[1] < pair[2]}

LEMMA BelowIsWellFounded == IsWellFoundedOn(Below, Nat)
  BY NatLessThanWellFounded DEF OpToRel, Below

LEMMA LeastNumber ==
  ASSUME NEW T \in SUBSET Nat, T # {}
  PROVE  \E n \in T : \A m \in T : n <= m
<1>1. PICK n \in T : \A m \in T : ~ (<<m, n>> \in Below)
  BY BelowIsWellFounded, WFMin
<1>2. ASSUME NEW m \in T
      PROVE  n <= m
  <2>1. m \in Nat /\ n \in Nat
    OBVIOUS
  <2>2. m < n => <<m, n>> \in Below
    BY <2>1 DEF Below
  <2>3. QED
    BY <1>1, <2>1, <2>2
<1>3. QED
  BY <1>2

LEMMA SetInduction ==
  ASSUME NEW T, 0 \in T, \A n \in Nat : n \in T => n + 1 \in T
  PROVE  \A n \in Nat : n \in T
<1> SUFFICES ASSUME Nat \ T # {}
             PROVE  FALSE
  OBVIOUS
<1>1. PICK n \in Nat \ T : \A m \in Nat \ T : n <= m
  BY LeastNumber
<1>2. n # 0 /\ n - 1 \in Nat
  BY <1>1
<1>3. n - 1 \in T
  BY <1>1, <1>2
<1>4. QED
  BY <1>1, <1>2, <1>3

\* Downwards from n + 1 to 1, as a walk along a side is defined.
LEMMA WalkInduction ==
  ASSUME NEW n \in Nat, NEW T, n + 1 \in T,
         \A i \in 1..n : i + 1 \in T => i \in T
  PROVE  \A i \in 1..n + 1 : i \in T
<1> DEFINE U == {k \in Nat : k <= n => n + 1 - k \in T}
<1>1. 0 \in U
  OBVIOUS
<1>2. ASSUME NEW k \in Nat, k \in U
      PROVE  k + 1 \in U
  <2>1. CASE k + 1 <= n
    <3>1. n - k \in 1..n /\ (n - k) + 1 = n + 1 - k /\ n + 1 - (k + 1) = n - k /\ k <= n
      BY <2>1
    <3>2. QED
      BY <1>2, <3>1
  <2>2. CASE ~(k + 1 <= n)
    BY <2>2
  <2>3. QED
    BY <2>1, <2>2
<1>3. \A k \in Nat : k \in U
  <2> HIDE DEF U
  <2>1. QED
    BY <1>1, <1>2, SetInduction
<1>4. ASSUME NEW i \in 1..n + 1
      PROVE  i \in T
  <2>1. CASE i = n + 1
    BY <2>1
  <2>2. CASE i # n + 1
    <3>1. n + 1 - i \in Nat /\ n + 1 - i <= n /\ n + 1 - (n + 1 - i) = i
      BY <2>2
    <3>2. n + 1 - i \in U
      BY <3>1, <1>3
    <3>3. QED
      BY <3>1, <3>2
  <2>3. QED
    BY <2>1, <2>2
<1>5. QED
  BY <1>4

-----------------------------------------------------------------------------
(* Sequences with an element more or less. *)

LEMMA InFront ==
  ASSUME NEW S, NEW s \in Seq(S), NEW x \in S
  PROVE  /\ <<x>> \o s \in Seq(S) /\ Len(<<x>> \o s) = Len(s) + 1
         /\ (<<x>> \o s)[1] = x
         /\ \A a \in 1..Len(s) : (<<x>> \o s)[a + 1] = s[a]
         /\ \A a \in 1..Len(s) + 1 : a # 1 => a - 1 \in 1..Len(s) /\ (<<x>> \o s)[a] = s[a - 1]
<1>1. <<x>> \in Seq(S) /\ Len(<<x>>) = 1 /\ <<x>>[1] = x
  OBVIOUS
<1>2. Len(s) \in Nat
  OBVIOUS
<1> DEFINE t == <<x>> \o s
<1>3. /\ t \in Seq(S) /\ Len(t) = 1 + Len(s)
      /\ \A a \in 1..1 + Len(s) : t[a] = IF a <= 1 THEN <<x>>[a] ELSE s[a - 1]
  BY <1>1, ConcatProperties
<1> HIDE DEF t
<1>4. t[1] = x
  BY <1>1, <1>2, <1>3
<1>5. \A a \in 1..Len(s) : t[a + 1] = s[a]
  BY <1>2, <1>3
<1>6. \A a \in 1..Len(s) + 1 : a # 1 => a - 1 \in 1..Len(s) /\ t[a] = s[a - 1]
  BY <1>2, <1>3
<1>7. QED
  BY <1>2, <1>3, <1>4, <1>5, <1>6 DEF t

\* u is s, m long, and then t, n long.
Concatenates(u, S, s, m, t, n) ==
  /\ u \in Seq(S) /\ Len(u) = m + n
  /\ \A a \in 1..(m + n) : u[a] = IF a <= m THEN s[a] ELSE t[a - m]

LEMMA Concatenated ==
  ASSUME NEW S, NEW s \in Seq(S), NEW t \in Seq(S), NEW m \in Int, NEW n \in Int,
         Len(s) = m, Len(t) = n
  PROVE  Concatenates(s \o t, S, s, m, t, n)
<1> DEFINE u == s \o t
<1>1. /\ u \in Seq(S) /\ Len(u) = Len(s) + Len(t)
      /\ \A a \in 1..Len(s) + Len(t) : u[a] = IF a <= Len(s) THEN s[a] ELSE t[a - Len(s)]
  BY ConcatProperties
<1> HIDE DEF u
<1>2. Concatenates(u, S, s, m, t, n)
  BY <1>1 DEF Concatenates
<1>3. QED
  BY <1>2 DEF u

\* t is s with x behind its first c elements.
Inserted(t, S, s, c, x) ==
  /\ t \in Seq(S) /\ Len(t) = Len(s) + 1 /\ t[c + 1] = x
  /\ \A a \in 1..Len(s) + 1 : a <= c => t[a] = s[a]
  /\ \A a \in 1..Len(s) + 1 : a > c + 1 => t[a] = s[a - 1]

LEMMA InsertAtIs ==
  ASSUME NEW S, NEW s \in Seq(S), NEW c \in 0..Len(s), NEW x \in S
  PROVE  Inserted(InsertAt(s, c + 1, x), S, s, c, x)
<1> DEFINE front == SubSeq(s, 1, (c + 1) - 1)
           back == SubSeq(s, c + 1, Len(s))
           one == <<x>>
           both == front \o one
           t == both \o back
<1>1. Len(s) \in Nat /\ c \in Nat /\ (c + 1) - 1 = c /\ \A j \in 1..Len(s) : s[j] \in S
  OBVIOUS
<1>2. front \in Seq(S) /\ Len(front) = c /\ \A a \in 1..c : front[a] = s[a]
  <2>1. \A j \in 1..c : s[j] \in S
    BY <1>1
  <2>2. /\ SubSeq(s, 1, c) \in Seq(S)
        /\ Len(SubSeq(s, 1, c)) = IF 1 <= c THEN c - 1 + 1 ELSE 0
        /\ \A a \in 1..(c - 1 + 1) : SubSeq(s, 1, c)[a] = s[1 + a - 1]
    BY <1>1, <2>1, SubSeqProperties
  <2>3. QED
    BY <1>1, <2>2
<1>3. /\ back \in Seq(S) /\ Len(back) = Len(s) - c
      /\ \A a \in 1..(Len(s) - c) : back[a] = s[c + a]
  <2>1. \A j \in (c + 1)..Len(s) : s[j] \in S
    BY <1>1
  <2>2. /\ back \in Seq(S)
        /\ Len(back) = IF c + 1 <= Len(s) THEN Len(s) - (c + 1) + 1 ELSE 0
        /\ \A a \in 1..(Len(s) - (c + 1) + 1) : back[a] = s[c + 1 + a - 1]
    BY <1>1, <2>1, SubSeqProperties
  <2> HIDE DEF back
  <2>3. QED
    BY <1>1, <2>2
<1>4. one \in Seq(S) /\ Len(one) = 1 /\ one[1] = x
  OBVIOUS
<1>5. InsertAt(s, c + 1, x) = t
  BY Zenon DEF InsertAt
<1> HIDE DEF front, back, one
<1>6. /\ both \in Seq(S) /\ Len(both) = c + 1
      /\ \A a \in 1..c + 1 : both[a] = IF a <= c THEN front[a] ELSE one[a - c]
  <2>1. c \in Int /\ 1 \in Int
    BY <1>1
  <2>2. Concatenates(both, S, front, c, one, 1)
    BY <2>1, <1>2, <1>4, Concatenated
  <2> HIDE DEF both
  <2>3. QED
    BY <2>2 DEF Concatenates
<1> HIDE DEF both
<1>7. /\ t \in Seq(S) /\ Len(t) = Len(s) + 1
      /\ \A a \in 1..Len(s) + 1 : t[a] = IF a <= c + 1 THEN both[a] ELSE back[a - (c + 1)]
  <2>1. /\ c + 1 \in Int /\ Len(s) - c \in Int
        /\ (c + 1) + (Len(s) - c) = Len(s) + 1
    BY <1>1
  <2>2. Concatenates(t, S, both, c + 1, back, Len(s) - c)
    BY <2>1, <1>3, <1>6, Concatenated
  <2> HIDE DEF t
  <2>3. QED
    BY <2>1, <2>2 DEF Concatenates
<1> HIDE DEF t
<1>8. t[c + 1] = x
  <2>1. /\ c + 1 \in 1..Len(s) + 1 /\ c + 1 <= c + 1 /\ c + 1 \in 1..c + 1 /\ ~(c + 1 <= c)
        /\ (c + 1) - c = 1
    BY <1>1
  <2>2. t[c + 1] = both[c + 1] /\ both[c + 1] = one[(c + 1) - c]
    BY <1>6, <1>7, <2>1
  <2>3. QED
    BY <1>4, <2>1, <2>2
<1>9. ASSUME NEW a \in 1..Len(s) + 1, a <= c
      PROVE  t[a] = s[a]
  <2>1. a \in 1..c /\ a \in 1..c + 1 /\ a <= c + 1
    BY <1>1, <1>9
  <2>2. t[a] = both[a] /\ both[a] = front[a]
    BY <1>6, <1>7, <1>9, <2>1
  <2>3. QED
    BY <1>2, <2>1, <2>2
<1>10. ASSUME NEW a \in 1..Len(s) + 1, a > c + 1
       PROVE  t[a] = s[a - 1]
  <2>1. a - (c + 1) \in 1..(Len(s) - c) /\ c + (a - (c + 1)) = a - 1 /\ ~(a <= c + 1)
    BY <1>1, <1>10
  <2>2. QED
    BY <1>3, <1>7, <2>1
<1>11. QED
  BY <1>5, <1>7, <1>8, <1>9, <1>10 DEF Inserted

LEMMA RemoveAtIs ==
  ASSUME NEW S, NEW s \in Seq(S), NEW c \in 1..Len(s)
  PROVE  LET t == RemoveAt(s, c)
         IN  /\ t \in Seq(S) /\ Len(t) = Len(s) - 1
             /\ \A a \in 1..Len(s) - 1 : a < c => t[a] = s[a]
             /\ \A a \in 1..Len(s) - 1 : a >= c => t[a] = s[a + 1]
<1> DEFINE front == SubSeq(s, 1, c - 1)
           back == SubSeq(s, c + 1, Len(s))
           t == front \o back
<1>1. Len(s) \in Nat /\ c \in Nat \ {0} /\ \A j \in 1..Len(s) : s[j] \in S
  OBVIOUS
<1>2. front \in Seq(S) /\ Len(front) = c - 1 /\ \A a \in 1..(c - 1) : front[a] = s[a]
  <2>1. \A j \in 1..(c - 1) : s[j] \in S
    BY <1>1
  <2>2. /\ front \in Seq(S)
        /\ Len(front) = IF 1 <= c - 1 THEN c - 1 - 1 + 1 ELSE 0
        /\ \A a \in 1..(c - 1 - 1 + 1) : front[a] = s[1 + a - 1]
    BY <1>1, <2>1, SubSeqProperties
  <2> HIDE DEF front
  <2>3. QED
    BY <1>1, <2>2
<1>3. /\ back \in Seq(S) /\ Len(back) = Len(s) - c
      /\ \A a \in 1..(Len(s) - c) : back[a] = s[c + a]
  <2>1. \A j \in (c + 1)..Len(s) : s[j] \in S
    BY <1>1
  <2>2. /\ back \in Seq(S)
        /\ Len(back) = IF c + 1 <= Len(s) THEN Len(s) - (c + 1) + 1 ELSE 0
        /\ \A a \in 1..(Len(s) - (c + 1) + 1) : back[a] = s[c + 1 + a - 1]
    BY <1>1, <2>1, SubSeqProperties
  <2> HIDE DEF back
  <2>3. QED
    BY <1>1, <2>2
<1>4. RemoveAt(s, c) = t
  BY DEF RemoveAt
<1> HIDE DEF front, back
<1>5. /\ t \in Seq(S) /\ Len(t) = Len(s) - 1
      /\ \A a \in 1..Len(s) - 1 : t[a] = IF a <= c - 1 THEN front[a] ELSE back[a - (c - 1)]
  <2>1. /\ c - 1 \in Int /\ Len(s) - c \in Int
        /\ (c - 1) + (Len(s) - c) = Len(s) - 1
    BY <1>1
  <2>2. Concatenates(t, S, front, c - 1, back, Len(s) - c)
    BY <2>1, <1>2, <1>3, Concatenated
  <2> HIDE DEF t
  <2>3. QED
    BY <2>1, <2>2 DEF Concatenates
<1> HIDE DEF t
<1>6. ASSUME NEW a \in 1..Len(s) - 1, a < c
      PROVE  t[a] = s[a]
  <2>1. a \in 1..(c - 1) /\ a <= c - 1
    BY <1>1, <1>6
  <2>2. t[a] = front[a]
    BY <1>5, <2>1
  <2>3. QED
    BY <1>2, <2>1, <2>2
<1>7. ASSUME NEW a \in 1..Len(s) - 1, a >= c
      PROVE  t[a] = s[a + 1]
  <2>1. a - (c - 1) \in 1..(Len(s) - c) /\ c + (a - (c - 1)) = a + 1 /\ ~(a <= c - 1)
    BY <1>1, <1>7
  <2>2. QED
    BY <1>3, <1>5, <2>1
<1>8. QED
  BY <1>4, <1>5, <1>6, <1>7

-----------------------------------------------------------------------------
(* A sum is what its definition says. *)

Some(s) == CHOOSE x \in s : TRUE

IsSum(f, it) ==
  it = [s \in SUBSET DOMAIN f |->
          IF s = {} THEN 0 ELSE LET x == CHOOSE x \in s : TRUE IN f[x] + it[s \ {x}]]

\* Subsets of a finite set, and what is left of them without an element.
LEMMA Subsets ==
  ASSUME NEW D, IsFiniteSet(D), NEW s \in SUBSET D
  PROVE  /\ IsFiniteSet(s) /\ Cardinality(s) \in Nat /\ Cardinality(s) <= Cardinality(D)
         /\ Cardinality(D) \in Nat
         /\ Cardinality(s) = 0 <=> s = {}
         /\ \A x \in s : Cardinality(s \ {x}) = Cardinality(s) - 1
         /\ s # {} => Some(s) \in s
<1>1. IsFiniteSet(s) /\ Cardinality(s) <= Cardinality(D)
  BY FS_Subset
<1>2. Cardinality(s) \in Nat /\ Cardinality(D) \in Nat
  BY <1>1, FS_CardinalityType
<1>3. \A x \in s : Cardinality(s \ {x}) = Cardinality(s) - 1
  BY <1>1, FS_RemoveElement
<1>4. Cardinality(s) = 0 <=> s = {}
  BY <1>1, FS_EmptySet
<1>5. QED
  BY <1>1, <1>2, <1>3, <1>4 DEF Some

LEMMA SumExists ==
  ASSUME NEW f, IsFiniteSet(DOMAIN f)
  PROVE  \E it : IsSum(f, it)
<1> DEFINE D == DOMAIN f
           Small(k) == {s \in SUBSET D : Cardinality(s) <= k}
           Step(it, s) == IF s = {} THEN 0 ELSE f[Some(s)] + it[s \ {Some(s)}]
           Upto(it, k) == it = [s \in Small(k) |-> Step(it, s)]
           T == {k \in Nat : \E it : Upto(it, k)}
<1>1. ASSUME NEW k \in Nat, NEW s \in Small(k + 1), s # {}
      PROVE  s \ {Some(s)} \in Small(k)
  BY <1>1, Subsets
<1>2. \A it, g, s : (s # {} => it[s \ {Some(s)}] = g[s \ {Some(s)}]) => Step(it, s) = Step(g, s)
  OBVIOUS
<1>3. 0 \in T
  <2> DEFINE g == [s \in Small(0) |-> 0]
  <2>1. \A s \in Small(0) : s = {}
    BY Subsets
  <2>2. g = [s \in Small(0) |-> Step(g, s)]
    BY <2>1
  <2> HIDE DEF g, Small, Step
  <2>3. QED
    BY <2>2
<1>4. ASSUME NEW k \in Nat, k \in T
      PROVE  k + 1 \in T
  <2>1. PICK it : Upto(it, k)
    BY <1>4
  <2> DEFINE g == [s \in Small(k + 1) |-> Step(it, s)]
  <2>2. \A s \in Small(k) : s \in Small(k + 1)
    BY Subsets
  <2>3. \A s \in Small(k) : g[s] = it[s]
    <3> HIDE DEF Small, Step
    <3>1. QED
      BY <2>1, <2>2
  <2>4. ASSUME NEW s \in Small(k + 1)
        PROVE  Step(it, s) = Step(g, s)
    <3> HIDE DEF g, Small, Step
    <3>1. QED
      BY <1>1, <1>2, <2>3
  <2>5. g = [s \in Small(k + 1) |-> Step(g, s)]
    <3> HIDE DEF Small, Step
    <3>1. \A s \in Small(k + 1) : g[s] = Step(it, s)
      OBVIOUS
    <3>2. QED
      BY <2>4
  <2> HIDE DEF g, Small, Step
  <2>6. QED
    BY <2>5
<1>5. \A k \in Nat : k \in T
  <2> HIDE DEF T
  <2>1. QED
    BY <1>3, <1>4, SetInduction
<1>6. Cardinality(D) \in Nat /\ Small(Cardinality(D)) = SUBSET D
  <2>1. D \in SUBSET D
    OBVIOUS
  <2>2. QED
    BY <2>1, Subsets
<1>7. PICK it : Upto(it, Cardinality(D))
  BY <1>5, <1>6
<1>8. it = [s \in SUBSET D |-> Step(it, s)]
  <2> HIDE DEF Step, Small, D
  <2>1. QED
    BY <1>6, <1>7
<1>9. QED
  BY <1>8 DEF IsSum, Some

\* The sums over every part of the domain, by taking away some element.
Sums(it, f) ==
  /\ it[{}] = 0 /\ it[DOMAIN f] = SumOf(f)
  /\ \A s \in SUBSET DOMAIN f : s # {} => it[s] = f[Some(s)] + it[s \ {Some(s)}]

LEMMA SumIsDefined ==
  ASSUME NEW f, IsFiniteSet(DOMAIN f)
  PROVE  \E it : Sums(it, f)
<1>1. \E it : IsSum(f, it)
  BY SumExists
<1> DEFINE it == CHOOSE it : IsSum(f, it)
<1>2. IsSum(f, it)
  BY <1>1
<1>3. it[DOMAIN f] = SumOf(f)
  BY Zenon DEF SumOf, IsSum, MapThenSumSet, MapThenFoldSet
<1>4. it = [s \in SUBSET DOMAIN f |->
              IF s = {} THEN 0 ELSE f[Some(s)] + it[s \ {Some(s)}]]
  BY <1>2 DEF IsSum, Some
<1> HIDE DEF it
<1>5. it[{}] = 0
  <2>1. {} \in SUBSET DOMAIN f
    OBVIOUS
  <2>2. QED
    BY <1>4, <2>1
<1>6. QED
  BY <1>3, <1>4, <1>5 DEF Sums

-----------------------------------------------------------------------------
(* The order does not matter. *)

LEMMA AnyOrder ==
  ASSUME NEW D, IsFiniteSet(D), NEW f \in [D -> Int], NEW it, Sums(it, f)
  PROVE  \A s \in SUBSET D : it[s] \in Int /\ \A x \in s : it[s] = f[x] + it[s \ {x}]
<1> DEFINE Small(k) == {s \in SUBSET D : Cardinality(s) <= k}
           Good(s) == it[s] \in Int /\ \A x \in s : it[s] = f[x] + it[s \ {x}]
           T == {k \in Nat : \A s \in Small(k) : Good(s)}
<1>1. /\ DOMAIN f = D /\ it[{}] = 0
      /\ \A s \in SUBSET D : s # {} => it[s] = f[Some(s)] + it[s \ {Some(s)}]
  BY DEF Sums
<1>2. ASSUME NEW k \in Nat, NEW s \in Small(k + 1), NEW x \in s
      PROVE  s \ {x} \in Small(k)
  BY <1>2, Subsets
<1>3. 0 \in T
  <2>1. \A s \in Small(0) : s = {}
    BY Subsets
  <2>2. Good({})
    BY <1>1
  <2> HIDE DEF Good, Small
  <2>3. QED
    BY <2>1, <2>2
<1>4. ASSUME NEW k \in Nat, k \in T
      PROVE  k + 1 \in T
  <2>1. ASSUME NEW s \in Small(k + 1)
        PROVE  Good(s)
    <3>1. CASE s = {}
      BY <1>1, <3>1
    <3>2. CASE s # {}
      <4> DEFINE c == Some(s)
      <4>1. c \in s /\ c \in D /\ f[c] \in Int /\ s \in SUBSET D
        BY <3>2, Subsets
      <4> HIDE DEF c, Small
      <4>2. it[s] = f[c] + it[s \ {c}]
        BY <1>1, <3>2 DEF c, Small
      <4>3. Good(s \ {c})
        BY <1>2, <1>4, <4>1
      <4>4. it[s] \in Int
        BY <4>1, <4>2, <4>3
      <4>5. ASSUME NEW x \in s
            PROVE  it[s] = f[x] + it[s \ {x}]
        <5>1. CASE x = c
          BY <4>2, <5>1
        <5>2. CASE x # c
          <6>1. x \in s \ {c} /\ c \in s \ {x} /\ f[x] \in Int
            BY <4>1, <5>2
          <6>2. it[s \ {c}] = f[x] + it[(s \ {c}) \ {x}]
            BY <4>3, <6>1
          <6>3. Good(s \ {x})
            BY <1>2, <1>4
          <6>4. it[s \ {x}] = f[c] + it[(s \ {x}) \ {c}]
            BY <6>1, <6>3
          <6>5. (s \ {c}) \ {x} = (s \ {x}) \ {c}
            OBVIOUS
          <6> DEFINE rest == it[(s \ {x}) \ {c}]
          <6>6. (s \ {x}) \ {c} \in Small(k) /\ rest \in Int
            <7>1. s \ {x} \in Small(k)
              BY <1>2
            <7>2. s \ {x} \in SUBSET D /\ (s \ {x}) \ {c} \in SUBSET D
              BY <4>1
            <7>3. (s \ {x}) \ {c} \in Small(k)
              BY <6>1, <7>1, <7>2, Subsets DEF Small
            <7>4. QED
              BY <1>4, <7>3
          <6> HIDE DEF rest
          <6>7. it[s \ {c}] = f[x] + rest /\ it[s \ {x}] = f[c] + rest
            BY <6>2, <6>4, <6>5 DEF rest
          <6>8. QED
            BY <4>1, <4>2, <6>1, <6>6, <6>7
        <5>3. QED
          BY <5>1, <5>2
      <4>6. QED
        BY <4>4, <4>5
    <3>3. QED
      BY <3>1, <3>2
  <2> HIDE DEF Good, Small
  <2>2. QED
    BY <2>1
<1>5. \A k \in Nat : k \in T
  <2> HIDE DEF T
  <2>1. QED
    BY <1>3, <1>4, SetInduction
<1>6. \A s \in SUBSET D : Cardinality(D) \in Nat /\ s \in Small(Cardinality(D))
  BY Subsets
<1> HIDE DEF Good, Small
<1>7. \A s \in SUBSET D : Good(s)
  BY <1>5, <1>6
<1>8. QED
  BY <1>7 DEF Good

\* A function on a part of its domain.
Only(f, E) == [x \in E |-> f[x]]

\* The sum over a part of the domain is a sum of its own.
LEMMA PartSum ==
  ASSUME NEW D, IsFiniteSet(D), NEW f \in [D -> Int], NEW it, Sums(it, f),
         NEW E \in SUBSET D
  PROVE  it[E] = SumOf(Only(f, E))
<1> DEFINE g == Only(f, E)
<1>1. IsFiniteSet(E) /\ DOMAIN g = E /\ (\A x \in E : g[x] = f[x]) /\ DOMAIN f = D
  BY FS_Subset DEF Only
<1> HIDE DEF g
<1>2. PICK jt : Sums(jt, g)
  BY <1>1, SumIsDefined
<1> DEFINE T == {k \in Nat : \A s \in SUBSET E : Cardinality(s) <= k => jt[s] = it[s]}
<1>3. 0 \in T
  <2>1. \A s \in SUBSET E : Cardinality(s) <= 0 => s = {}
    BY <1>1, Subsets
  <2>2. QED
    BY <1>2, <2>1 DEF Sums
<1>4. ASSUME NEW k \in Nat, k \in T
      PROVE  k + 1 \in T
  <2>1. ASSUME NEW s \in SUBSET E, Cardinality(s) <= k + 1
        PROVE  jt[s] = it[s]
    <3>1. CASE s = {}
      BY <1>2, <3>1 DEF Sums
    <3>2. CASE s # {}
      <4>1. /\ Some(s) \in s /\ Cardinality(s \ {Some(s)}) = Cardinality(s) - 1
            /\ Cardinality(s) \in Nat
        BY <1>1, <3>2, Subsets
      <4>2. jt[s \ {Some(s)}] = it[s \ {Some(s)}]
        <5>1. Cardinality(s \ {Some(s)}) <= k
          BY <2>1, <4>1
        <5>2. QED
          BY <1>4, <5>1
      <4>3. /\ jt[s] = g[Some(s)] + jt[s \ {Some(s)}]
            /\ it[s] = f[Some(s)] + it[s \ {Some(s)}]
        BY <1>1, <1>2, <3>2 DEF Sums
      <4>4. QED
        BY <1>1, <4>1, <4>2, <4>3
    <3>3. QED
      BY <3>1, <3>2
  <2>2. QED
    BY <2>1
<1>5. \A k \in Nat : k \in T
  <2> HIDE DEF T
  <2>1. QED
    BY <1>3, <1>4, SetInduction
<1>6. Cardinality(E) \in Nat /\ Cardinality(E) <= Cardinality(E)
  BY <1>1, FS_CardinalityType
<1>7. jt[E] = it[E]
  BY <1>5, <1>6
<1>8. QED
  BY <1>1, <1>2, <1>7 DEF Sums, g

\* A sum can be made by taking away any element.
LEMMA SumSplit ==
  ASSUME NEW D, IsFiniteSet(D), NEW f \in [D -> Int]
  PROVE  /\ SumOf(f) \in Int
         /\ \A x \in D : SumOf(f) = f[x] + SumOf(Only(f, D \ {x}))
<1>1. DOMAIN f = D
  OBVIOUS
<1>2. PICK it : Sums(it, f)
  BY <1>1, SumIsDefined
<1>3. it[D] = SumOf(f) /\ D \in SUBSET D
  BY <1>1, <1>2 DEF Sums
<1>4. \A E \in SUBSET D : it[E] = SumOf(Only(f, E))
  BY <1>2, PartSum
<1>5. it[D] \in Int /\ \A x \in D : it[D] = f[x] + it[D \ {x}]
  BY <1>2, <1>3, AnyOrder
<1>6. \A x \in D : it[D \ {x}] = SumOf(Only(f, D \ {x}))
  BY <1>4
<1>7. QED
  BY <1>3, <1>5, <1>6

LEMMA SumEmpty ==
  ASSUME NEW f, DOMAIN f = {}
  PROVE  SumOf(f) = 0
<1>1. IsFiniteSet(DOMAIN f)
  BY FS_EmptySet
<1>2. QED
  BY <1>1, SumIsDefined DEF Sums

\* One value changes.
ButFor(x, g, f, D) == \A y \in D : y # x => g[y] = f[y]

LEMMA SumChanged ==
  ASSUME NEW D, IsFiniteSet(D), NEW f \in [D -> Int], NEW g \in [D -> Int], NEW x \in D,
         ButFor(x, g, f, D)
  PROVE  SumOf(g) = SumOf(f) - f[x] + g[x]
<1> DEFINE rest == Only(f, D \ {x})
<1>1. rest = Only(g, D \ {x})
  BY DEF Only, ButFor
<1>2. SumOf(rest) \in Int
  <2>1. IsFiniteSet(D \ {x}) /\ rest \in [D \ {x} -> Int]
    BY FS_Subset DEF Only
  <2> HIDE DEF rest
  <2>2. QED
    BY <2>1, SumSplit
<1>3. SumOf(f) = f[x] + SumOf(rest)
  BY SumSplit
<1>4. SumOf(g) = g[x] + SumOf(rest)
  BY <1>1, SumSplit
<1> HIDE DEF rest
<1>5. QED
  BY <1>2, <1>3, <1>4

\* One value more.
LEMMA SumExtended ==
  ASSUME NEW D, IsFiniteSet(D), NEW f \in [D -> Int], NEW x, x \notin D,
         NEW g \in [D \cup {x} -> Int], \A y \in D : g[y] = f[y]
  PROVE  SumOf(g) = SumOf(f) + g[x] /\ SumOf(f) \in Int
<1>1. IsFiniteSet(D \cup {x}) /\ x \in D \cup {x} /\ (D \cup {x}) \ {x} = D
  BY FS_AddElement
<1>2. f = Only(g, (D \cup {x}) \ {x})
  BY <1>1 DEF Only
<1>3. SumOf(g) = g[x] + SumOf(f)
  BY <1>1, <1>2, SumSplit
<1>4. SumOf(f) \in Int /\ g[x] \in Int
  BY <1>1, SumSplit
<1>5. QED
  BY <1>3, <1>4

\* Each of some amounts is part of their sum.
LEMMA SumOfAmounts ==
  ASSUME NEW D, IsFiniteSet(D), NEW f \in [D -> Nat]
  PROVE  SumOf(f) \in Nat /\ \A x \in D : f[x] <= SumOf(f)
<1> DEFINE Part(s) == SumOf(Only(f, s))
           T == {k \in Nat : \A s \in SUBSET D : Cardinality(s) <= k => Part(s) \in Nat}
<1>1. ASSUME NEW s \in SUBSET D
      PROVE  Part(s) \in Int /\ \A x \in s : Part(s) = f[x] + Part(s \ {x})
  <2> DEFINE g == Only(f, s)
  <2>1. IsFiniteSet(s) /\ g \in [s -> Int] /\ \A y \in s : g[y] = f[y]
    BY FS_Subset DEF Only
  <2>2. \A x \in s : Only(g, s \ {x}) = Only(f, s \ {x})
    BY DEF Only
  <2> HIDE DEF g
  <2>3. SumOf(g) \in Int /\ \A x \in s : SumOf(g) = g[x] + SumOf(Only(g, s \ {x}))
    BY <2>1, SumSplit
  <2>4. QED
    BY <2>1, <2>2, <2>3 DEF g
<1>2. Part({}) = 0
  <2> DEFINE g == Only(f, {})
  <2>1. DOMAIN g = {}
    BY DEF Only
  <2> HIDE DEF g
  <2>2. SumOf(g) = 0
    BY <2>1, SumEmpty
  <2>3. QED
    BY <2>2 DEF g
<1> HIDE DEF Part
<1>3. 0 \in T
  BY <1>2, Subsets
<1>4. ASSUME NEW k \in Nat, k \in T
      PROVE  k + 1 \in T
  <2>1. ASSUME NEW s \in SUBSET D, Cardinality(s) <= k + 1
        PROVE  Part(s) \in Nat
    <3>1. CASE s = {}
      BY <1>2, <3>1
    <3>2. CASE s # {}
      <4>1. PICK x \in s : Cardinality(s \ {x}) = Cardinality(s) - 1 /\ Cardinality(s) \in Nat
        BY <3>2, Subsets
      <4>2. Cardinality(s \ {x}) <= k
        BY <2>1, <4>1
      <4>3. Part(s \ {x}) \in Nat /\ f[x] \in Nat
        BY <1>4, <4>2
      <4>4. QED
        BY <1>1, <4>3
    <3>3. QED
      BY <3>1, <3>2
  <2>2. QED
    BY <2>1
<1>5. \A k \in Nat : k \in T
  <2> HIDE DEF T
  <2>1. QED
    BY <1>3, <1>4, SetInduction
<1>6. ASSUME NEW s \in SUBSET D
      PROVE  Part(s) \in Nat
  BY <1>5, Subsets
<1>7. ASSUME NEW x \in D
      PROVE  f[x] <= Part(D)
  <2>1. f[x] \in Nat /\ Part(D \ {x}) \in Nat /\ Part(D) = f[x] + Part(D \ {x})
    BY <1>1, <1>6
  <2>2. QED
    BY <2>1
<1>8. Only(f, D) = f
  BY DEF Only
<1>9. Part(D) = SumOf(f) /\ Part(D) \in Nat
  BY <1>6, <1>8 DEF Part
<1>10. QED
  BY <1>7, <1>9

\* Nothing adds up to nothing.
LEMMA SumOfZeros ==
  ASSUME NEW D, IsFiniteSet(D), NEW f \in [D -> Int], \A x \in D : f[x] = 0
  PROVE  SumOf(f) = 0
<1> DEFINE T == {k \in Nat : \A E, g :
                   /\ IsFiniteSet(E) /\ Cardinality(E) <= k
                   /\ g \in [E -> Int] /\ \A x \in E : g[x] = 0
                   => SumOf(g) = 0}
<1>1. ASSUME NEW k \in Nat, k = 0 \/ k - 1 \in T
      PROVE  k \in T
  <2>1. ASSUME NEW E, NEW g, IsFiniteSet(E), Cardinality(E) <= k,
               g \in [E -> Int], \A x \in E : g[x] = 0
        PROVE  SumOf(g) = 0
    <3>1. CASE E = {}
      BY <2>1, <3>1, SumEmpty
    <3>2. CASE E # {}
      <4>1. PICK x \in E : TRUE
        BY <3>2
      <4> DEFINE F == E \ {x}
                 h == Only(g, F)
      <4>2. /\ IsFiniteSet(F) /\ Cardinality(F) = Cardinality(E) - 1
            /\ Cardinality(E) \in Nat /\ Cardinality(F) \in Nat
        BY <2>1, Subsets
      <4>3. SumOf(g) = g[x] + SumOf(h)
        BY <2>1, SumSplit
      <4>4. h \in [F -> Int] /\ \A y \in F : h[y] = 0
        BY <2>1 DEF Only
      <4> HIDE DEF h, F
      <4>5. k # 0 /\ Cardinality(F) <= k - 1
        BY <2>1, <4>2
      <4>6. SumOf(h) = 0
        BY <1>1, <4>2, <4>4, <4>5
      <4>7. QED
        BY <2>1, <4>3, <4>6
    <3>3. QED
      BY <3>1, <3>2
  <2>2. QED
    BY <2>1
<1>2. 0 \in T /\ \A k \in Nat : k \in T => k + 1 \in T
  <2>1. \A k \in Nat : k + 1 \in Nat /\ (k + 1) - 1 = k
    OBVIOUS
  <2> HIDE DEF T
  <2>2. QED
    BY <1>1, <2>1
<1>3. \A k \in Nat : k \in T
  <2> HIDE DEF T
  <2>1. QED
    BY <1>2, SetInduction
<1>4. Cardinality(D) \in Nat
  BY FS_CardinalityType
<1>5. Cardinality(D) \in T
  BY <1>3, <1>4
<1>6. QED
  BY <1>4, <1>5

-----------------------------------------------------------------------------
(* Sums along sequences *)

\* The sum of the values of the elements of a sequence.
Along(v, s) == SumOf([i \in 1..Len(s) |-> v[s[i]]])

LEMMA FirstNumbers == \A n \in Nat : IsFiniteSet(1..n)
<1>1. \A n \in Nat : n \in Int /\ 1 \in Int
  OBVIOUS
<1>2. QED
  BY <1>1, FS_Interval

\* g is f with one more value, behind the c-th.
OneMore(g, f, n, c) ==
  /\ \A a \in 1..n : a <= c => g[a] = f[a]
  /\ \A a \in 1..n + 1 : a > c + 1 => g[a] = f[a - 1]

LEMMA SumOneMore ==
  ASSUME NEW n \in Nat, NEW f \in [1..n -> Int], NEW g \in [1..n + 1 -> Int], NEW c \in 0..n,
         OneMore(g, f, n, c)
  PROVE  SumOf(g) = SumOf(f) + g[c + 1]
<1> DEFINE Good(k) == \A f1 \in [1..k -> Int], g1 \in [1..k + 1 -> Int], c1 \in 0..k :
             OneMore(g1, f1, k, c1) => SumOf(g1) = SumOf(f1) + g1[c1 + 1]
           T == {k \in Nat : Good(k)}
<1>1. ASSUME NEW k \in Nat, NEW f1 \in [1..k -> Int], NEW g1 \in [1..k + 1 -> Int],
             OneMore(g1, f1, k, k)
      PROVE  SumOf(g1) = SumOf(f1) + g1[k + 1] /\ SumOf(f1) \in Int
  <2> DEFINE D == 1..k
             x == k + 1
  <2>1. IsFiniteSet(D)
    BY FirstNumbers
  <2>2. 1..x = D \cup {x} /\ x \notin D
    OBVIOUS
  <2>3. \A a \in D : g1[a] = f1[a]
    BY <1>1 DEF OneMore
  <2>4. f1 \in [D -> Int] /\ g1 \in [1..x -> Int]
    OBVIOUS
  <2> HIDE DEF D, x
  <2>5. /\ IsFiniteSet(D) /\ x \notin D
        /\ f1 \in [D -> Int] /\ g1 \in [D \cup {x} -> Int]
        /\ \A y \in D : g1[y] = f1[y]
    BY <2>1, <2>2, <2>3, <2>4
  <2>6. SumOf(g1) = SumOf(f1) + g1[x] /\ SumOf(f1) \in Int
    BY ONLY <2>5, SumExtended, ZenonT(60)
  <2>7. QED
    BY <2>6 DEF x
<1>2. 0 \in T
  <2>1. ASSUME NEW k \in Nat, k = 0, NEW f1 \in [1..k -> Int], NEW g1 \in [1..k + 1 -> Int],
               NEW c1 \in 0..k, OneMore(g1, f1, k, c1)
        PROVE  SumOf(g1) = SumOf(f1) + g1[c1 + 1]
    <3>1. c1 = k
      BY <2>1
    <3>2. QED
      BY <1>1, <2>1, <3>1
  <2>2. \A k \in Nat : k = 0 => Good(k)
    BY <2>1
  <2> HIDE DEF Good
  <2>3. QED
    BY <2>2
<1>3. ASSUME NEW k \in Nat, k \in T
      PROVE  k + 1 \in T
  <2>1. ASSUME NEW f1 \in [1..k + 1 -> Int], NEW g1 \in [1..(k + 1) + 1 -> Int],
               NEW c1 \in 0..k + 1, OneMore(g1, f1, k + 1, c1)
        PROVE  SumOf(g1) = SumOf(f1) + g1[c1 + 1]
    <3>1. CASE c1 = k + 1
      <4>1. k + 1 \in Nat
        OBVIOUS
      <4>2. QED
        BY <1>1, <2>1, <3>1, <4>1
    <3>2. CASE c1 # k + 1
      <4> DEFINE f2 == Only(f1, 1..k)
                 g2 == Only(g1, 1..k + 1)
      <4>1. /\ f2 \in [1..k -> Int] /\ \A a \in 1..k : f2[a] = f1[a]
            /\ g2 \in [1..k + 1 -> Int] /\ \A a \in 1..k + 1 : g2[a] = g1[a]
            /\ c1 \in 0..k
        BY <3>2 DEF Only
      <4> HIDE DEF f2, g2
      <4>2. OneMore(g2, f2, k, c1)
        <5>1. \A a \in 1..k : a \in 1..k + 1
          OBVIOUS
        <5>2. ASSUME NEW a \in 1..k, a <= c1
              PROVE  g2[a] = f2[a]
          BY <2>1, <4>1, <5>1, <5>2 DEF OneMore
        <5>3. ASSUME NEW a \in 1..k + 1, a > c1 + 1
              PROVE  g2[a] = f2[a - 1]
          <6>1. a - 1 \in 1..k /\ a \in 1..(k + 1) + 1
            BY <4>1, <5>3
          <6>2. g1[a] = f1[a - 1]
            BY <2>1, <5>3, <6>1 DEF OneMore
          <6>3. QED
            BY <4>1, <6>1, <6>2
        <5>4. QED
          BY <5>2, <5>3 DEF OneMore
      <4>3. SumOf(g2) = SumOf(f2) + g1[c1 + 1]
        <5>1. g2[c1 + 1] = g1[c1 + 1]
          BY <4>1
        <5>2. QED
          BY <1>3, <4>1, <4>2, <5>1
      <4>4. SumOf(f1) = SumOf(f2) + f1[k + 1] /\ SumOf(f2) \in Int
        <5>1. OneMore(f1, f2, k, k)
          BY <4>1 DEF OneMore
        <5>2. QED
          BY <1>1, <4>1, <5>1
      <4>5. SumOf(g1) = SumOf(g2) + g1[(k + 1) + 1] /\ SumOf(g2) \in Int
        <5>1. OneMore(g1, g2, k + 1, k + 1) /\ k + 1 \in Nat
          BY <4>1 DEF OneMore
        <5>2. QED
          BY <1>1, <4>1, <5>1
      <4>6. g1[(k + 1) + 1] = f1[k + 1]
        <5>1. (k + 1) + 1 \in 1..(k + 1) + 1 /\ (k + 1) + 1 > c1 + 1 /\ ((k + 1) + 1) - 1 = k + 1
          BY <4>1
        <5>2. QED
          BY <2>1, <5>1 DEF OneMore
      <4>7. g1[c1 + 1] \in Int /\ f1[k + 1] \in Int
        BY <4>1
      <4>8. QED
        BY <4>3, <4>4, <4>5, <4>6, <4>7
    <3>3. QED
      BY <3>1, <3>2
  <2>2. Good(k + 1)
    BY <2>1
  <2> HIDE DEF Good
  <2>3. QED
    BY <2>2
<1>4. \A k \in Nat : k \in T
  <2> HIDE DEF T
  <2>1. QED
    BY <1>2, <1>3, SetInduction
<1>5. Good(n)
  BY <1>4
<1>6. QED
  BY <1>5

\* The values along a sequence.
Values(v, s) == [i \in 1..Len(s) |-> v[s[i]]]

LEMMA ValuesAre ==
  ASSUME NEW S, NEW s \in Seq(S), NEW v \in [S -> Int]
  PROVE  /\ Len(s) \in Nat /\ IsFiniteSet(1..Len(s)) /\ Values(v, s) \in [1..Len(s) -> Int]
         /\ v \in [S -> Nat] => Values(v, s) \in [1..Len(s) -> Nat]
         /\ \A i \in 1..Len(s) : Values(v, s)[i] = v[s[i]]
         /\ Along(v, s) = SumOf(Values(v, s))
<1>1. Len(s) \in Nat /\ \A i \in 1..Len(s) : s[i] \in S
  OBVIOUS
<1>2. IsFiniteSet(1..Len(s))
  BY <1>1, FirstNumbers
<1>3. QED
  BY <1>1, <1>2 DEF Values, Along

LEMMA AlongIsNumber ==
  ASSUME NEW S, NEW s \in Seq(S)
  PROVE  /\ \A v \in [S -> Int] : Along(v, s) \in Int
         /\ \A v \in [S -> Nat] : Along(v, s) \in Nat
<1>1. ASSUME NEW v \in [S -> Int]
      PROVE  Along(v, s) \in Int
  <2> DEFINE f == Values(v, s)
  <2>1. IsFiniteSet(1..Len(s)) /\ f \in [1..Len(s) -> Int] /\ Along(v, s) = SumOf(f)
    BY ValuesAre
  <2> HIDE DEF f
  <2>2. QED
    BY <2>1, SumSplit
<1>2. ASSUME NEW v \in [S -> Nat]
      PROVE  Along(v, s) \in Nat
  <2> DEFINE f == Values(v, s)
  <2>1. v \in [S -> Int]
    OBVIOUS
  <2>2. IsFiniteSet(1..Len(s)) /\ f \in [1..Len(s) -> Nat] /\ Along(v, s) = SumOf(f)
    BY <2>1, ValuesAre
  <2> HIDE DEF f
  <2>3. QED
    BY <2>2, SumOfAmounts
<1>3. QED
  BY <1>1, <1>2

LEMMA AlongNothing ==
  ASSUME NEW v
  PROVE  Along(v, <<>>) = 0
<1> DEFINE f == [i \in 1..Len(<<>>) |-> v[<<>>[i]]]
<1>1. DOMAIN f = {}
  OBVIOUS
<1> HIDE DEF f
<1>2. SumOf(f) = 0
  BY <1>1, SumEmpty
<1>3. QED
  BY <1>2 DEF Along, f

\* One element more.
LEMMA AlongInserted ==
  ASSUME NEW S, NEW s \in Seq(S), NEW c \in 0..Len(s), NEW x \in S, NEW t,
         Inserted(t, S, s, c, x), NEW v \in [S -> Int]
  PROVE  Along(v, t) = Along(v, s) + v[x]
<1> DEFINE f == Values(v, s)
           g == Values(v, t)
           n == Len(s)
<1>1. t \in Seq(S) /\ Len(t) = n + 1
  BY DEF Inserted
<1>2. /\ n \in Nat /\ f \in [1..n -> Int] /\ (\A i \in 1..n : f[i] = v[s[i]])
      /\ Along(v, s) = SumOf(f)
  BY ValuesAre
<1>3. /\ g \in [1..n + 1 -> Int] /\ (\A i \in 1..n + 1 : g[i] = v[t[i]])
      /\ Along(v, t) = SumOf(g)
  BY <1>1, ValuesAre
<1> HIDE DEF f, g
<1>4. OneMore(g, f, n, c)
  <2>1. ASSUME NEW a \in 1..n, a <= c
        PROVE  g[a] = f[a]
    <3>1. a \in 1..n + 1
      BY <1>2
    <3>2. t[a] = s[a]
      BY <2>1, <3>1 DEF Inserted
    <3>3. QED
      BY <1>2, <1>3, <3>1, <3>2
  <2>2. ASSUME NEW a \in 1..n + 1, a > c + 1
        PROVE  g[a] = f[a - 1]
    <3>1. a - 1 \in 1..n
      BY <1>2, <2>2
    <3>2. t[a] = s[a - 1]
      BY <2>2 DEF Inserted
    <3>3. QED
      BY <1>2, <1>3, <3>1, <3>2
  <2>3. QED
    BY <2>1, <2>2 DEF OneMore
<1>5. c + 1 \in 1..n + 1 /\ t[c + 1] = x
  BY <1>2 DEF Inserted
<1>6. SumOf(g) = SumOf(f) + g[c + 1]
  BY <1>2, <1>3, <1>4, SumOneMore
<1>7. QED
  BY <1>2, <1>3, <1>5, <1>6

LEMMA AlongFront ==
  ASSUME NEW S, NEW s \in Seq(S), NEW x \in S, NEW v \in [S -> Int]
  PROVE  Along(v, <<x>> \o s) = v[x] + Along(v, s)
<1> DEFINE t == <<x>> \o s
<1>1. /\ t \in Seq(S) /\ Len(t) = Len(s) + 1 /\ t[1] = x /\ Len(s) \in Nat
      /\ \A a \in 1..Len(s) + 1 : a # 1 => t[a] = s[a - 1]
  BY InFront
<1> HIDE DEF t
<1>2. Inserted(t, S, s, 0, x) /\ 0 \in 0..Len(s)
  BY <1>1 DEF Inserted
<1>3. Along(v, t) = Along(v, s) + v[x]
  BY <1>2, AlongInserted
<1>4. Along(v, s) \in Int /\ v[x] \in Int
  BY AlongIsNumber
<1>5. QED
  BY <1>3, <1>4 DEF t

LEMMA AlongBack ==
  ASSUME NEW S, NEW s \in Seq(S), NEW x \in S, NEW v \in [S -> Int]
  PROVE  Along(v, s \o <<x>>) = Along(v, s) + v[x]
<1> DEFINE t == s \o <<x>>
<1>1. Len(s) \in Nat /\ <<x>> \in Seq(S) /\ Len(<<x>>) = 1 /\ <<x>>[1] = x
  OBVIOUS
<1>2. Concatenates(t, S, s, Len(s), <<x>>, 1)
  <2>1. Len(s) \in Int /\ 1 \in Int
    BY <1>1
  <2>2. QED
    BY <1>1, <2>1, Concatenated
<1> HIDE DEF t
<1>3. Inserted(t, S, s, Len(s), x) /\ Len(s) \in 0..Len(s)
  BY <1>1, <1>2 DEF Inserted, Concatenates
<1>4. QED
  BY <1>3, AlongInserted DEF t

LEMMA AlongOne ==
  ASSUME NEW S, NEW x \in S, NEW v \in [S -> Int]
  PROVE  Along(v, <<x>>) = v[x]
<1>1. <<>> \in Seq(S) /\ <<x>> \o <<>> = <<x>> /\ v[x] \in Int
  OBVIOUS
<1>2. Along(v, <<x>> \o <<>>) = v[x] + Along(v, <<>>)
  BY <1>1, AlongFront
<1>3. QED
  BY <1>1, <1>2, AlongNothing

LEMMA AlongRemoved ==
  ASSUME NEW S, NEW s \in Seq(S), NEW c \in 1..Len(s), NEW v \in [S -> Int]
  PROVE  Along(v, s) = Along(v, RemoveAt(s, c)) + v[s[c]]
<1> DEFINE t == RemoveAt(s, c)
<1>1. /\ t \in Seq(S) /\ Len(t) = Len(s) - 1
      /\ \A a \in 1..Len(s) - 1 : a < c => t[a] = s[a]
      /\ \A a \in 1..Len(s) - 1 : a >= c => t[a] = s[a + 1]
  BY RemoveAtIs
<1> HIDE DEF t
<1>2. s[c] \in S /\ c - 1 \in 0..Len(t) /\ Len(s) = Len(t) + 1 /\ Len(t) \in Nat /\ (c - 1) + 1 = c
  BY <1>1
<1>3. ASSUME NEW a \in 1..Len(t) + 1, a > c
      PROVE  s[a] = t[a - 1]
  BY <1>1, <1>2, <1>3
<1>4. Inserted(s, S, t, c - 1, s[c])
  BY <1>1, <1>2, <1>3 DEF Inserted
<1> DEFINE d == c - 1
           x == s[c]
<1>5. t \in Seq(S) /\ d \in 0..Len(t) /\ x \in S /\ Inserted(s, S, t, d, x)
  BY <1>1, <1>2, <1>4
<1> HIDE DEF d, x
<1>6. Along(v, s) = Along(v, t) + v[x]
  BY <1>5, AlongInserted
<1>7. QED
  BY <1>6 DEF t, x

\* One element changes.
LEMMA AlongChanged ==
  ASSUME NEW S, NEW s \in Seq(S), NEW t \in Seq(S), Len(t) = Len(s), NEW c \in 1..Len(s),
         ButFor(c, t, s, 1..Len(s)), NEW v \in [S -> Int]
  PROVE  Along(v, t) = Along(v, s) - v[s[c]] + v[t[c]]
<1> DEFINE f == Values(v, s)
           g == Values(v, t)
<1>1. /\ IsFiniteSet(1..Len(s)) /\ f \in [1..Len(s) -> Int]
      /\ (\A i \in 1..Len(s) : f[i] = v[s[i]]) /\ Along(v, s) = SumOf(f)
  BY ValuesAre
<1>2. /\ g \in [1..Len(s) -> Int]
      /\ (\A i \in 1..Len(s) : g[i] = v[t[i]]) /\ Along(v, t) = SumOf(g)
  BY ValuesAre
<1> HIDE DEF f, g
<1>3. ASSUME NEW i \in 1..Len(s), i # c
      PROVE  g[i] = f[i]
  <2>1. t[i] = s[i]
    BY ONLY <1>3, ButFor(c, t, s, 1..Len(s)) DEF ButFor
  <2>2. QED
    BY ONLY <1>1, <1>2, <1>3, <2>1
<1>4. SumOf(g) = SumOf(f) - f[c] + g[c]
  <2> DEFINE D == 1..Len(s)
  <2>1. IsFiniteSet(D) /\ f \in [D -> Int] /\ g \in [D -> Int] /\ c \in D
        /\ ButFor(c, g, f, D)
    BY <1>1, <1>2, <1>3 DEF ButFor
  <2> HIDE DEF D
  <2>2. QED
    BY <2>1, SumChanged, ZenonT(30)
<1>5. QED
  BY <1>1, <1>2, <1>4

\* The sum of the first elements.
SumUpto(v, s, n) == SumOf(Only(Values(v, s), 1..n))

LEMMA AlongStepByStep ==
  ASSUME NEW S, NEW s \in Seq(S), NEW v \in [S -> Nat]
  PROVE  /\ SumUpto(v, s, 0) = 0 /\ SumUpto(v, s, Len(s)) = Along(v, s)
         /\ \A n \in 0..Len(s) : SumUpto(v, s, n) \in Nat /\ SumUpto(v, s, n) <= Along(v, s)
         /\ \A n \in 1..Len(s) : SumUpto(v, s, n) = SumUpto(v, s, n - 1) + v[s[n]]
<1> DEFINE f == Values(v, s)
           Part(n) == SumOf(Only(f, 1..n))
<1>1. /\ Len(s) \in Nat /\ IsFiniteSet(1..Len(s)) /\ f \in [1..Len(s) -> Nat]
      /\ (\A i \in 1..Len(s) : f[i] = v[s[i]]) /\ Along(v, s) = SumOf(f)
  <2>1. v \in [S -> Int] /\ v \in [S -> Nat]
    OBVIOUS
  <2>2. /\ Len(s) \in Nat /\ IsFiniteSet(1..Len(s))
        /\ v \in [S -> Nat] => f \in [1..Len(s) -> Nat]
        /\ (\A i \in 1..Len(s) : f[i] = v[s[i]]) /\ Along(v, s) = SumOf(f)
    BY <2>1, ValuesAre
  <2> HIDE DEF f
  <2>3. QED
    BY <2>1, <2>2
<1> HIDE DEF f
<1>2. ASSUME NEW n \in 0..Len(s)
      PROVE  Part(n) \in Nat
  <2> DEFINE g == Only(f, 1..n)
  <2>1. g \in [1..n -> Nat] /\ IsFiniteSet(1..n)
    BY <1>1, FirstNumbers DEF Only
  <2> HIDE DEF g
  <2>2. SumOf(g) \in Nat
    BY <2>1, SumOfAmounts
  <2>3. QED
    BY <2>2 DEF g
<1>3. ASSUME NEW n \in 1..Len(s)
      PROVE  Part(n) = Part(n - 1) + v[s[n]]
  <2> DEFINE g == Only(f, 1..n)
             h == Only(f, 1..(n - 1))
             k == n - 1
  <2>1. k \in Nat /\ k + 1 = n
    OBVIOUS
  <2>2. /\ g \in [1..k + 1 -> Int] /\ (\A i \in 1..k + 1 : g[i] = f[i])
        /\ h \in [1..k -> Int] /\ (\A i \in 1..k : h[i] = f[i])
    BY <1>1, <2>1 DEF Only
  <2> HIDE DEF g, h, k
  <2>3. OneMore(g, h, k, k) /\ k \in 0..k
    <3>1. \A a \in 1..k : a \in 1..k + 1
      BY <2>1
    <3>2. \A a \in 1..k : g[a] = h[a]
      BY <2>2, <3>1
    <3>3. \A a \in 1..k + 1 : ~(a > k + 1)
      BY <2>1
    <3>4. QED
      BY <2>1, <3>2, <3>3 DEF OneMore
  <2>4. SumOf(g) = SumOf(h) + g[k + 1]
    BY <2>1, <2>2, <2>3, SumOneMore
  <2>5. g[k + 1] = v[s[n]]
    BY <1>1, <2>1, <2>2
  <2>6. QED
    BY <2>4, <2>5 DEF g, h
<1>4. Part(0) = 0
  <2> DEFINE g == Only(f, 1..0)
  <2>1. DOMAIN g = {}
    BY DEF Only
  <2> HIDE DEF g
  <2>2. SumOf(g) = 0
    BY <2>1, SumEmpty
  <2>3. QED
    BY <2>2 DEF g
<1>5. Part(Len(s)) = SumOf(f)
  <2>1. Only(f, 1..Len(s)) = f
    BY <1>1 DEF Only
  <2>2. QED
    BY <2>1
<1> HIDE DEF Part
<1>6. \A n \in 0..Len(s) : Part(n) <= Part(Len(s))
  <2> DEFINE T == {k \in Nat : k <= Len(s) => Part(Len(s) - k) <= Part(Len(s))}
  <2>1. 0 \in T
    BY <1>1, <1>2
  <2>2. ASSUME NEW k \in Nat, k \in T
        PROVE  k + 1 \in T
    <3> SUFFICES ASSUME k + 1 <= Len(s)
                 PROVE  Part(Len(s) - (k + 1)) <= Part(Len(s))
      OBVIOUS
    <3> DEFINE n == Len(s) - k
    <3>1. n \in 1..Len(s) /\ n - 1 \in 0..Len(s) /\ n \in 0..Len(s) /\ Len(s) - (k + 1) = n - 1
          /\ k <= Len(s) /\ Len(s) \in 0..Len(s)
      BY <1>1
    <3>2. Part(n) <= Part(Len(s))
      BY <2>2, <3>1
    <3> HIDE DEF n
    <3>3. Part(n) = Part(n - 1) + v[s[n]] /\ v[s[n]] \in Nat
      BY <1>1, <1>3, <3>1
    <3>4. Part(n) \in Nat /\ Part(n - 1) \in Nat /\ Part(Len(s)) \in Nat
      BY <1>2, <3>1
    <3>5. Part(n - 1) <= Part(n)
      <4>1. \A a, b, c \in Int : a = b + c /\ c >= 0 => b <= a
        OBVIOUS
      <4>2. QED
        BY ONLY <3>3, <3>4, <4>1
    <3>6. Part(n - 1) <= Part(Len(s))
      BY ONLY <3>2, <3>4, <3>5
    <3>7. QED
      BY ONLY <3>1, <3>6
  <2>3. \A k \in Nat : k \in T
    <3> HIDE DEF T
    <3>1. QED
      BY <2>1, <2>2, SetInduction
  <2>4. ASSUME NEW n \in 0..Len(s)
        PROVE  Part(n) <= Part(Len(s))
    <3>1. Len(s) - n \in Nat /\ Len(s) - n <= Len(s) /\ Len(s) - (Len(s) - n) = n
      BY <1>1
    <3>2. QED
      BY <2>3, <3>1
  <2>5. QED
    BY <2>4
<1>7. \A n : SumUpto(v, s, n) = Part(n)
  BY DEF SumUpto, Part, f
<1>8. QED
  BY <1>1, <1>2, <1>3, <1>4, <1>5, <1>6, <1>7
=============================================================================
