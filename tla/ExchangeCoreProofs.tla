-------------------------- MODULE ExchangeCoreProofs --------------------------
(***************************************************************************)
(* Proofs about ExchangeCore, for every set of commands, every sync policy   *)
(* and every bound.                                                         *)
(***************************************************************************)
EXTENDS ExchangeCore, TLAPS, SequenceTheorems

-----------------------------------------------------------------------------
(* Reading the log *)

\* The prefix before the first member of S, when that member is known.
LEMMA LeadingAt ==
  ASSUME NEW n \in Nat, NEW S \in SUBSET (1..n), NEW i \in S,
         \A j \in S : i <= j
  PROVE  Leading(n, S) = i - 1
<1>1. S # {}
  OBVIOUS
<1>2. ASSUME NEW k \in S, \A j \in S : k <= j
      PROVE  k = i
  BY <1>2
<1>3. (CHOOSE k \in S : \A j \in S : k <= j) = i
  BY <1>2
<1>4. QED
  BY <1>1, <1>3 DEF Leading

LEMMA LeadingNone ==
  ASSUME NEW n
  PROVE  Leading(n, {}) = n
BY DEF Leading

\* A log whose records are all complete, or all but the last, is read up to the
\* damage, whichever way it is read.
LEMMA CleanEnd ==
  ASSUME NEW f \in Seq(Record),
         \A i \in 1..Len(f) : f[i].st = "ok" \/ (i = Len(f) /\ f[i].st = "torn")
  PROVE  /\ ScanEnd(f) = ReadEnd(f)
         /\ ReadEnd(f) = IF Len(f) > 0 /\ f[Len(f)].st = "torn"
                         THEN Len(f) - 1 ELSE Len(f)
<1> DEFINE T == {i \in 1..Len(f) : f[i].st = "torn"}
           B == {i \in 1..Len(f) : f[i].st # "ok"}
<1>1. T = B
  OBVIOUS
<1>2. CASE Len(f) > 0 /\ f[Len(f)].st = "torn"
  <2>1. Len(f) \in B /\ \A j \in B : Len(f) <= j
    BY <1>2
  <2>2. Leading(Len(f), B) = Len(f) - 1
    BY <2>1, LeadingAt
  <2>3. QED
    BY <1>1, <1>2, <2>2 DEF ScanEnd, ReadEnd
<1>3. CASE ~(Len(f) > 0 /\ f[Len(f)].st = "torn")
  <2>1. B = {}
    BY <1>3
  <2>2. QED
    BY <1>1, <1>3, <2>1, LeadingNone DEF ScanEnd, ReadEnd
<1>4. QED
  BY <1>2, <1>3

\* In a log whose numbers are consecutive the records up to number k are found
\* by subtraction.
LEMMA CoveredCount ==
  ASSUME NEW f \in Seq(Record), NEW e \in 0..Len(f), NEW k \in Nat,
         \A i \in 1..e : f[i].seq = f[1].seq + (i - 1)
  PROVE  Covered(f, e, k) =
           IF e = 0 \/ f[e].seq <= k THEN e
           ELSE IF f[1].seq > k THEN 0 ELSE k - f[1].seq + 1
<1> DEFINE S == {i \in 1..e : f[i].seq > k}
<1>0. \A i \in 1..e : f[i].seq \in Nat
  <2>1. \A i \in 1..e : i \in 1..Len(f)
    OBVIOUS
  <2>2. \A i \in 1..Len(f) : f[i] \in Record
    OBVIOUS
  <2>3. QED
    BY <2>1, <2>2 DEF Record
<1>1. CASE e = 0 \/ f[e].seq <= k
  <2>1. ASSUME NEW i \in 1..e
        PROVE  f[i].seq <= k
    <3>1. i \in Nat /\ e \in Nat /\ i <= e /\ e \in 1..e /\ 1 \in 1..e
      OBVIOUS
    <3>2. f[i].seq = f[1].seq + (i - 1) /\ f[e].seq = f[1].seq + (e - 1)
      BY <3>1
    <3>3. QED
      BY <1>0, <1>1, <3>1, <3>2
  <2>3. S = {}
    BY <2>1, <1>0
  <2>4. QED
    BY <1>1, <2>3, LeadingNone DEF Covered
<1>2. CASE e > 0 /\ f[e].seq > k /\ f[1].seq > k
  <2>1. 1 \in S /\ \A j \in S : 1 <= j
    BY <1>2
  <2>2. Leading(e, S) = 0
    BY <2>1, LeadingAt, SMTT(30)
  <2>3. QED
    BY <1>0, <1>2, <2>2 DEF Covered
<1>3. CASE e > 0 /\ f[e].seq > k /\ f[1].seq <= k
  <2>1. e \in Nat /\ e \in 1..e /\ 1 \in 1..e
    BY <1>3
  <2>2. PICK a \in Nat : a = f[1].seq
    BY <1>0, <2>1
  <2>3. PICK m \in Int : m = k - a + 2
    OBVIOUS
  <2>4. \A j \in 1..e : j \in Nat /\ f[j].seq = a + (j - 1)
    BY <2>2
  <2>5. a + (e - 1) > k /\ a <= k
    BY <1>3, <2>1, <2>2, <2>4
  <2>6. m \in 1..e
    BY <2>1, <2>3, <2>5
  <2>7. a + (m - 1) > k /\ \A j \in 1..e : a + (j - 1) > k => m <= j
    BY <2>3
  <2>8. m \in S /\ \A j \in S : m <= j
    BY <2>4, <2>6, <2>7
  <2>9. Leading(e, S) = m - 1
    BY <2>1, <2>8, LeadingAt, ZenonT(40)
  <2>10. Covered(f, e, k) = k - a + 1
    BY <2>3, <2>9 DEF Covered
  <2>11. f[e].seq = a + (e - 1)
    BY <2>1, <2>4
  <2>12. ~(e = 0 \/ f[e].seq <= k)
    BY <2>1, <2>5, <2>11
  <2>13. ~(a > k)
    BY <2>5
  <2>14. QED
    BY <2>2, <2>10, <2>12, <2>13
<1>4. QED
  BY <1>0, <1>1, <1>2, <1>3
-----------------------------------------------------------------------------
(* Recovery *)

\* The newest snapshot is known by being in the directory and above the others.
LEMMA NewestIs ==
  ASSUME NEW ids \in SUBSET Nat, NEW k \in ids, \A j \in ids : j <= k
  PROVE  Newest(ids) = k
<1>1. ASSUME NEW i \in ids, \A j \in ids : j <= i
      PROVE  i = k
  BY <1>1
<1>2. QED
  BY <1>1 DEF Newest

\* The newest snapshot is a file of the directory, and no file has a higher
\* number.
LEMMA LatestProperties ==
  ASSUME DOMAIN snaps \subseteq Nat, NewestExists
  PROVE  /\ Latest \in Nat
         /\ DOMAIN snaps # {} => Latest \in DOMAIN snaps
         /\ \A k \in DOMAIN snaps : k <= Latest
         /\ DOMAIN snaps = {} => Latest = 0
BY DEF Latest, Newest, NewestExists

\* A log agrees with a history when its readable part carries consecutive
\* numbers and each record holds the command of that number.
Agrees(f, h) ==
  /\ ReadEnd(f) \in 0..Len(f)
  /\ \A i \in 1..ReadEnd(f) :
       /\ f[i].seq = f[1].seq + (i - 1)
       /\ f[i].seq \in 1..Len(h)
       /\ f[i].cmd = h[f[i].seq]

\* How far snapshots and log f together reach.
Reach(f) == IF SeqAt(f, ReadEnd(f)) > Latest THEN SeqAt(f, ReadEnd(f)) ELSE Latest

\* What the log holds after number k is the piece of the history after k.
LEMMA ReplayedPiece ==
  ASSUME NEW f \in Seq(Record), NEW h \in Seq(Commands), NEW k \in 0..Len(h),
         Agrees(f, h),
         ReadEnd(f) > 0 => f[1].seq <= k + 1
  PROVE  LET n == SeqAt(f, ReadEnd(f))
         IN  /\ n \in 0..Len(h)
             /\ ReadAfter(f, k) = SubSeq(h, k + 1, IF n > k THEN n ELSE k)
<1> DEFINE e == ReadEnd(f)
           n == SeqAt(f, e)
           s == Covered(f, e, k)
<1>1. e \in Nat /\ e \in 0..Len(f) /\ k \in Nat
  BY DEF Agrees
<1>2. s = IF e = 0 \/ f[e].seq <= k THEN e
          ELSE IF f[1].seq > k THEN 0 ELSE k - f[1].seq + 1
  BY <1>1, CoveredCount DEF Agrees
<1>3. CASE e = 0
  <2>1. n = 0 /\ s = 0
    BY <1>2, <1>3 DEF SeqAt
  <2>2. ReadAfter(f, k) = <<>>
    BY <2>1, <1>3 DEF ReadAfter
  <2>3. SubSeq(h, k + 1, k) = <<>>
    BY <1>1
  <2>4. QED
    BY <1>1, <2>1, <2>2, <2>3
<1>4. CASE e > 0
  <2>1. PICK a \in Nat : a = f[1].seq /\ a >= 1
    BY <1>1, <1>4 DEF Agrees
  <2>2. \A i \in 1..e : f[i].seq = a + (i - 1) /\ a + (i - 1) \in 1..Len(h)
                        /\ f[i].cmd = h[a + (i - 1)]
    BY <2>1 DEF Agrees
  <2>3. n = a + (e - 1) /\ n \in 1..Len(h) /\ a <= k + 1
    BY <1>1, <1>4, <2>1, <2>2, SMTT(30) DEF SeqAt
  <2>4. CASE n <= k
    <3>1. s = e
      BY <1>1, <1>2, <1>4, <2>2, <2>3, <2>4
    <3>2. ReadAfter(f, k) = <<>>
      BY <1>1, <3>1 DEF ReadAfter
    <3>3. SubSeq(h, k + 1, k) = <<>>
      BY <1>1
    <3>4. QED
      BY <1>1, <2>3, <2>4, <3>2, <3>3
  <2>5. CASE n > k
    <3>1. f[e].seq = n
      BY <1>1, <1>4, <2>2, <2>3
    <3>2. s = k + 1 - a
      <4>1. ~(e = 0 \/ f[e].seq <= k)
        BY <1>1, <1>4, <2>3, <2>5, <3>1
      <4>2. s = IF a > k THEN 0 ELSE k - a + 1
        BY <1>2, <2>1, <4>1
      <4>3. QED
        BY <1>1, <2>3, <4>2
    <3>3. e - s = n - k
      BY <1>1, <2>3, <3>2
    <3>4. ReadAfter(f, k) = [i \in 1..(n - k) |-> f[s + i].cmd]
      BY <3>3 DEF ReadAfter
    <3>5. \A i \in 1..(n - k) : f[s + i].cmd = h[k + i]
      <4>1. TAKE i \in 1..(n - k)
      <4>2. s + i \in 1..e /\ a + ((s + i) - 1) = k + i
        BY <1>1, <2>3, <3>2, <3>3
      <4>3. QED
        BY <2>2, <4>2
    <3>6. SubSeq(h, k + 1, n) = [i \in 1..(n - k) |-> h[k + i]]
      BY <1>1, <2>3, <2>5
    <3>7. ReadAfter(f, k) = SubSeq(h, k + 1, n)
      BY <3>4, <3>5, <3>6
    <3>8. n \in 0..Len(h) /\ (IF n > k THEN n ELSE k) = n
      BY <2>3, <2>5
    <3>9. QED
      BY <3>7, <3>8
  <2>6. QED
    BY <1>1, <2>3, <2>4, <2>5
<1>5. QED
  BY <1>1, <1>3, <1>4

\* Recovery is exact: what comes out of the snapshots and a log that agrees with
\* the history is the history, in order and without repetition, up to the point
\* they reach.
LEMMA RecoveryExact ==
  ASSUME NEW f \in Seq(Record), NEW h \in Seq(Commands),
         DOMAIN snaps \subseteq Nat, NewestExists,
         \A k \in DOMAIN snaps : k <= Len(h) /\ snaps[k] = SubSeq(h, 1, k),
         Agrees(f, h),
         ReadEnd(f) > 0 => f[1].seq <= Latest + 1
  PROVE  /\ Reach(f) \in 0..Len(h)
         /\ RecoverFrom(f) = SubSeq(h, 1, Reach(f))
<1> DEFINE n == SeqAt(f, ReadEnd(f))
           start == IF DOMAIN snaps = {} THEN <<>> ELSE snaps[Latest]
<1>1. Latest \in 0..Len(h)
  <2>1. CASE DOMAIN snaps = {}
    BY <2>1, LatestProperties
  <2>2. CASE DOMAIN snaps # {}
    <3>1. Latest \in Nat /\ Latest <= Len(h)
      BY <2>2, LatestProperties
    <3>2. QED
      BY <3>1
  <2>3. QED
    BY <2>1, <2>2
<1>2. start = SubSeq(h, 1, Latest)
  <2>1. CASE DOMAIN snaps = {}
    BY <2>1, LatestProperties
  <2>2. CASE DOMAIN snaps # {}
    BY <2>2, LatestProperties
  <2>3. QED
    BY <2>1, <2>2
<1>3. /\ n \in 0..Len(h)
      /\ ReadAfter(f, Latest) = SubSeq(h, Latest + 1, IF n > Latest THEN n ELSE Latest)
  BY <1>1, ReplayedPiece
<1>4. Reach(f) \in 0..Len(h) /\ Latest <= Reach(f)
  BY <1>1, <1>3 DEF Reach
<1>5. RecoverFrom(f) = SubSeq(h, 1, Latest) \o SubSeq(h, Latest + 1, Reach(f))
  BY <1>2, <1>3 DEF RecoverFrom, Reach
<1>6. SubSeq(h, 1, Latest) \o SubSeq(h, Latest + 1, Reach(f)) = SubSeq(h, 1, Reach(f))
  BY <1>1, <1>4, ConcatAdjacentSubSeq
<1>7. QED
  BY <1>4, <1>5, <1>6
-----------------------------------------------------------------------------
(* The invariant is preserved: what the steps do to the log *)

LEMMA LogTyped ==
  ASSUME TypeOK
  PROVE  /\ Len(wal) \in Nat
         /\ \A i \in 1..Len(wal) :
              /\ wal[i] \in Record
              /\ wal[i].seq \in Nat /\ wal[i].cmd \in Commands
<1>1. wal \in Seq(Record)
  BY DEF TypeOK, JournalTypeOK
<1>2. \A i \in 1..Len(wal) : wal[i] \in Record
  BY <1>1
<1>3. QED
  BY <1>1, <1>2 DEF Record

\* The log of a running core is whole and ends with its last command.
LEMMA RunningLog ==
  ASSUME CoreInv, up
  PROVE  /\ Submitted = applied
         /\ \A i \in 1..Len(wal) : wal[i].st = "ok"
         /\ ScanEnd(wal) = Len(wal)
         /\ ReadEnd(wal) = Len(wal)
         /\ Agrees(wal, applied)
<1>1. Submitted = applied
  BY DEF CoreInv, RunningAligned, Submitted, TypeOK
<1>2. \A i \in 1..Len(wal) : wal[i].st = "ok"
  BY DEF CoreInv, LogClean
<1>3. ScanEnd(wal) = Len(wal) /\ ReadEnd(wal) = Len(wal)
  <2>1. wal \in Seq(Record)
    BY DEF CoreInv, TypeOK, JournalTypeOK
  <2>2. ~(Len(wal) > 0 /\ wal[Len(wal)].st = "torn")
    BY <1>2, <2>1
  <2>3. QED
    BY <1>2, <2>1, <2>2, CleanEnd
<1>4. Agrees(wal, applied)
  <2>1. TypeOK
    BY DEF CoreInv
  <2>2. Len(applied) \in Nat
    BY <2>1 DEF TypeOK
  <2>3. ASSUME NEW i \in 1..Len(wal)
        PROVE  /\ wal[i].seq = wal[1].seq + (i - 1)
               /\ wal[i].seq \in 1..Len(applied)
               /\ wal[i].cmd = applied[wal[i].seq]
    BY <1>1, <1>2, <2>1, <2>2, LogTyped DEF CoreInv, LogNumbered, LogIsHistory
  <2>4. QED
    BY <1>3, <2>1, <2>3, LogTyped DEF Agrees
<1>5. QED
  BY <1>1, <1>2, <1>3, <1>4

\* submit_command
LEMMA SubmitStep ==
  ASSUME Disciplined, CoreInv, NEW c \in Commands, Submit(c)
  PROVE  CoreInv'
<1> DEFINE r == [seq |-> nextSeq, cmd |-> c, st |-> "ok"]
<1>1. up /\ up' /\ TypeOK /\ inflight = <<>> /\ inflight' = <<>> /\ halted = "no"
  BY DEF Submit, Serving, CoreInv, RunningAligned
<1>2. /\ wal' = Append(wal, r) /\ nextSeq' = nextSeq + 1 /\ lastSeq' = nextSeq
      /\ applied' = Append(applied, c) /\ snaps' = snaps /\ halted' = halted
      /\ sink' = sink
  BY DEF Submit, WriteCommand
<1>3. wal \in Seq(Record) /\ applied \in Seq(Commands) /\ nextSeq \in Nat
  BY <1>1 DEF TypeOK, JournalTypeOK
<1>4. r \in Record /\ nextSeq = Len(applied) + 1
  BY <1>1, <1>3 DEF Record, Status, CoreInv, RunningAligned
<1>5. /\ wal' \in Seq(Record) /\ Len(wal') = Len(wal) + 1 /\ wal'[Len(wal) + 1] = r
      /\ \A i \in 1..Len(wal) : wal'[i] = wal[i]
  BY <1>2, <1>3, <1>4
<1>6. /\ applied' \in Seq(Commands) /\ Len(applied') = Len(applied) + 1
      /\ applied'[Len(applied) + 1] = c
      /\ \A i \in 1..Len(applied) : applied'[i] = applied[i]
  BY <1>2, <1>3
<1>7. Submitted' = applied' /\ Submitted = applied
  BY <1>1, <1>3, <1>6 DEF Submitted
<1>8. Len(wal) \in Nat /\ Len(applied) \in Nat
  BY <1>3
<1>9. TypeOK'
  <2>1. osLen' \in 0..Len(wal') /\ diskLen' \in 0..osLen' /\ sinceSync' \in Nat
    BY <1>1, <1>5, <1>8 DEF Submit, WriteCommand, Buffered, TypeOK, JournalTypeOK
  <2>2. QED
    BY <1>1, <1>2, <1>3, <1>5, <1>6, <2>1 DEF TypeOK, JournalTypeOK
<1>10. Len(Submitted)' <= MaxCommands /\ (halted # "err")'
  BY <1>1, <1>2, <1>6, <1>7, <1>8, EnvironmentAssumption DEF Submit, Serving
<1>11. SnapshotsFaithful' /\ NewestExists'
  <2>1. ASSUME NEW k \in DOMAIN snaps
        PROVE  k <= Len(applied') /\ SubSeq(applied', 1, k) = SubSeq(applied, 1, k)
    <3>1. k \in Nat /\ k <= Len(applied)
      BY <1>1 DEF CoreInv, SnapshotsFaithful, TypeOK
    <3>2. QED
      BY <1>3, <1>6, <1>8, <3>1
  <2>2. QED
    BY <1>2, <2>1 DEF CoreInv, SnapshotsFaithful, NewestExists
<1>12. LogClean'
  <2>1. \A i \in 1..Len(wal) : wal[i].st = "ok"
    BY <1>1, RunningLog
  <2>2. QED
    BY <1>5, <1>8, <2>1 DEF LogClean
<1>13. LogNumbered'
  <2>1. CASE Len(wal) = 0
    BY <1>3, <1>4, <1>5, <1>8, <2>1 DEF LogNumbered
  <2>2. CASE Len(wal) > 0
    <3>1. wal[Len(wal)].seq = Len(applied) /\ 1 \in 1..Len(wal) /\ Len(wal) \in 1..Len(wal)
      BY <1>1, <1>8, <2>2 DEF CoreInv, RunningAligned
    <3>2. PICK a \in Nat : a = wal[1].seq /\ a > 0
      BY <1>1, <3>1, LogTyped DEF CoreInv, LogNumbered
    <3>3. \A i \in 1..Len(wal) : wal[i].seq = a + (i - 1)
      BY <3>2 DEF CoreInv, LogNumbered
    <3>4. nextSeq = a + Len(wal)
      BY <1>4, <1>8, <3>1, <3>3
    <3>5. wal'[1].seq = a
      BY <1>5, <3>1, <3>2
    <3>6. \A i \in 1..Len(wal') : wal'[i].seq = a + (i - 1) /\ wal'[i].seq > 0
      <4>1. TAKE i \in 1..Len(wal')
      <4>2. CASE i \in 1..Len(wal)
        BY <1>5, <1>8, <3>2, <3>3, <4>2
      <4>3. CASE i = Len(wal) + 1
        BY <1>5, <1>8, <3>2, <3>4, <4>3
      <4>4. QED
        BY <1>5, <1>8, <4>2, <4>3
    <3>7. QED
      BY <3>5, <3>6 DEF LogNumbered
  <2>3. QED
    BY <1>8, <2>1, <2>2
<1>14. LogIsHistory'
  <2>1. ASSUME NEW i \in 1..Len(wal)
        PROVE  /\ wal'[i].seq <= Len(applied')
               /\ wal'[i].cmd = applied'[wal'[i].seq]
    <3>1. wal[i].seq \in 1..Len(applied) /\ wal[i].cmd = applied[wal[i].seq]
      BY <1>1, RunningLog DEF Agrees
    <3>2. QED
      BY <1>5, <1>6, <1>8, <3>1
  <2>2. r.seq = Len(applied') /\ r.cmd = applied'[r.seq]
    BY <1>4, <1>6
  <2>3. QED
    BY <1>5, <1>6, <1>7, <1>8, <2>1, <2>2 DEF LogIsHistory
<1>15. LogMeetsSnapshot'
  <2>1. Latest' = Latest
    BY <1>2 DEF Latest
  <2>2. CASE Len(wal) = 0
    BY <1>1, <1>4, <1>5, <2>1, <2>2 DEF LogMeetsSnapshot, CoreInv, RunningAligned
  <2>3. CASE Len(wal) > 0
    <3>1. 1 \in 1..Len(wal) /\ wal[1].st = "ok" /\ wal'[1] = wal[1]
      BY <1>1, <1>5, <1>8, <2>3, RunningLog
    <3>2. QED
      BY <2>1, <2>3, <3>1 DEF LogMeetsSnapshot, CoreInv
  <2>4. QED
    BY <1>8, <2>2, <2>3
<1>16. RunningAligned'
  BY <1>1, <1>2, <1>4, <1>5, <1>6, <1>8 DEF RunningAligned
<1>17. RunningDurable'
  <2>1. Len(wal) <= diskLen + sinceSync /\ (Policy # "Never" => sinceSync <= MaxLoss)
    BY <1>1 DEF CoreInv, RunningDurable
  <2>2. diskLen \in Nat /\ sinceSync \in Nat
    BY <1>1 DEF TypeOK, JournalTypeOK
  <2>3. CASE ShouldSync(sinceSync + 1)
    <3>1. diskLen' = Len(wal') /\ sinceSync' = 0
      BY <2>3 DEF Submit, WriteCommand
    <3>2. QED
      BY <1>5, <1>8, <3>1, PolicyAssumption DEF RunningDurable, MaxLoss
  <2>4. CASE ~ShouldSync(sinceSync + 1)
    <3>1. diskLen' = diskLen /\ sinceSync' = sinceSync + 1
      BY <2>4 DEF Submit, WriteCommand, Buffered
    <3>2. Policy # "Never" => sinceSync + 1 <= MaxLoss
      BY <2>2, <2>4, PolicyAssumption DEF ShouldSync, MaxLoss
    <3>3. QED
      BY <1>1, <1>2, <1>5, <1>8, <2>1, <2>2, <3>1, <3>2 DEF RunningDurable, MaxLoss
  <2>5. QED
    BY <2>3, <2>4
<1>18. DeadReaches'
  BY <1>1 DEF DeadReaches
<1>19. QED
  BY <1>9, <1>10, <1>11, <1>12, <1>13, <1>14, <1>15, <1>16, <1>17, <1>18 DEF CoreInv
\* Saving a snapshot of the first k commands under the number k keeps every
\* snapshot faithful.
LEMMA SavedBelow ==
  ASSUME CoreInv, up, applied' = applied,
         NEW k \in 0..Len(applied), snaps' = Saved(k, SubSeq(applied, 1, k))
  PROVE  /\ DOMAIN snaps' = DOMAIN snaps \cup {k}
         /\ Latest' = IF k > Latest THEN k ELSE Latest
         /\ SnapshotsFaithful' /\ NewestExists'
         /\ \A j \in DOMAIN snaps' : snaps'[j] \in Seq(Commands)
<1>1. /\ applied \in Seq(Commands) /\ Len(applied) \in Nat /\ k \in Nat /\ k <= Len(applied)
      /\ DOMAIN snaps \subseteq Nat /\ NewestExists
      /\ \A j \in DOMAIN snaps : j <= Len(applied) /\ snaps[j] = SubSeq(applied, 1, j)
                                 /\ snaps[j] \in Seq(Commands)
  BY DEF CoreInv, TypeOK, SnapshotsFaithful
<1>2. /\ DOMAIN snaps' = DOMAIN snaps \cup {k}
      /\ \A j \in DOMAIN snaps' :
           snaps'[j] = IF j = k THEN SubSeq(applied, 1, k) ELSE snaps[j]
  BY DEF Saved
<1>3. PICK m \in DOMAIN snaps' : m = (IF k > Latest THEN k ELSE Latest)
                               /\ \A j \in DOMAIN snaps' : j <= m
  <2>1. CASE DOMAIN snaps = {}
    <3>1. Latest = 0 /\ DOMAIN snaps' = {k}
      BY <1>1, <1>2, <2>1, LatestProperties
    <3>2. QED
      BY <1>1, <3>1
  <2>2. CASE DOMAIN snaps # {}
    <3>1. Latest \in DOMAIN snaps /\ \A j \in DOMAIN snaps : j <= Latest
      BY <1>1, <2>2, LatestProperties
    <3>2. QED
      BY <1>1, <1>2, <3>1
  <2>3. QED
    BY <2>1, <2>2
<1>4. Latest' = m
  <2>1. DOMAIN snaps' \in SUBSET Nat
    BY <1>1, <1>2
  <2>2. QED
    BY <1>3, <2>1, NewestIs DEF Latest
<1>5. SubSeq(applied, 1, k) \in Seq(Commands)
  BY <1>1
<1>6. SnapshotsFaithful'
  BY <1>1, <1>2 DEF SnapshotsFaithful
<1>7. NewestExists'
  BY <1>3 DEF NewestExists
<1>8. QED
  BY <1>1, <1>2, <1>3, <1>4, <1>5, <1>6, <1>7

\* Saving one at the last command makes it the newest.
LEMMA SavedProperties ==
  ASSUME CoreInv, up, snaps' = Saved(lastSeq, applied), applied' = applied
  PROVE  /\ DOMAIN snaps' = DOMAIN snaps \cup {lastSeq}
         /\ Latest' = lastSeq
         /\ SnapshotsFaithful' /\ NewestExists'
         /\ \A k \in DOMAIN snaps' : snaps'[k] \in Seq(Commands)
<1>1. /\ lastSeq \in 0..Len(applied) /\ lastSeq = Len(applied)
      /\ applied \in Seq(Commands) /\ DOMAIN snaps \subseteq Nat /\ NewestExists
      /\ \A k \in DOMAIN snaps : k <= Len(applied)
  BY DEF CoreInv, RunningAligned, TypeOK, SnapshotsFaithful
<1>2. SubSeq(applied, 1, lastSeq) = applied
  BY <1>1, SubSeqFull
<1>3. Latest \in Nat /\ ~(Latest > lastSeq)
  <2>1. CASE DOMAIN snaps = {}
    BY <1>1, <2>1, LatestProperties
  <2>2. CASE DOMAIN snaps # {}
    BY <1>1, <2>2, LatestProperties
  <2>3. QED
    BY <2>1, <2>2
<1>4. lastSeq \in Nat
  BY <1>1
<1>5. /\ DOMAIN snaps' = DOMAIN snaps \cup {lastSeq}
      /\ Latest' = IF lastSeq > Latest THEN lastSeq ELSE Latest
      /\ SnapshotsFaithful' /\ NewestExists'
      /\ \A k \in DOMAIN snaps' : snaps'[k] \in Seq(Commands)
  BY <1>1, <1>2, SavedBelow
<1>6. QED
  BY <1>3, <1>4, <1>5

\* Every step of a running core other than a submission leaves its history
\* alone, may save a snapshot of it or of a prefix of it, and may drop a prefix
\* of the log that the newest snapshot covers.
LEMMA MaintenanceStep ==
  ASSUME CoreInv, up, up', TypeOK', halted' # "err",
         UNCHANGED <<applied, inflight, nextSeq, lastSeq>>,
         \/ snaps' = snaps
         \/ snaps' = Saved(lastSeq, applied)
         \/ \E k \in 0..Len(applied) : snaps' = Saved(k, SubSeq(applied, 1, k)),
         \E s \in 0..Len(wal) : /\ wal' = SubSeq(wal, s + 1, Len(wal))
                                /\ s > 0 => wal[s].seq <= Latest',
         RunningDurable'
  PROVE  CoreInv'
<1> PICK s \in 0..Len(wal) : /\ wal' = SubSeq(wal, s + 1, Len(wal))
                             /\ s > 0 => wal[s].seq <= Latest'
  OBVIOUS
<1>1. /\ TypeOK /\ inflight = <<>> /\ lastSeq = Len(applied)
      /\ nextSeq = Len(applied) + 1
  BY DEF CoreInv, RunningAligned
<1>2. /\ wal \in Seq(Record) /\ Len(wal) \in Nat /\ applied \in Seq(Commands)
      /\ Len(applied) \in Nat
  BY <1>1 DEF TypeOK, JournalTypeOK
<1>3. /\ Len(wal') = Len(wal) - s
      /\ \A i \in 1..Len(wal') : s + i \in 1..Len(wal) /\ wal'[i] = wal[s + i]
  BY <1>2, SMTT(30)
<1>4. Submitted' = Submitted /\ Submitted = applied
  BY RunningLog DEF Submitted
<1>5. \A i \in 1..Len(wal) : wal[i].st = "ok" /\ wal[i].seq \in 1..Len(applied)
                              /\ wal[i].cmd = applied[wal[i].seq]
  BY RunningLog DEF Agrees
<1>6. SnapshotsFaithful' /\ NewestExists' /\ Latest <= Latest'
      /\ Latest' \in Nat /\ Latest \in Nat /\ Latest' <= Len(applied)
      /\ (Latest = Len(applied) => Latest' = Len(applied))
  <2>0. Latest \in Nat /\ Latest <= Len(applied)
    <3>1. DOMAIN snaps \subseteq Nat /\ NewestExists
      BY <1>1 DEF CoreInv, TypeOK
    <3>2. \A k \in DOMAIN snaps : k <= Len(applied)
      BY DEF CoreInv, SnapshotsFaithful
    <3>3. CASE DOMAIN snaps = {}
      BY <1>2, <3>1, <3>3, LatestProperties
    <3>4. CASE DOMAIN snaps # {}
      BY <3>1, <3>2, <3>4, LatestProperties
    <3>5. QED
      BY <3>3, <3>4
  <2>1. CASE snaps' = snaps
    <3>1. SnapshotsFaithful' /\ NewestExists' /\ Latest' = Latest
      BY <2>1 DEF CoreInv, SnapshotsFaithful, NewestExists, Latest
    <3>2. QED
      BY <2>0, <3>1
  <2>2. CASE snaps' = Saved(lastSeq, applied)
    BY <1>1, <1>2, <2>0, <2>2, SavedProperties
  <2>3. CASE \E k \in 0..Len(applied) : snaps' = Saved(k, SubSeq(applied, 1, k))
    <3>1. PICK k \in 0..Len(applied) : snaps' = Saved(k, SubSeq(applied, 1, k))
      BY <2>3
    <3>2. /\ SnapshotsFaithful' /\ NewestExists'
          /\ Latest' = IF k > Latest THEN k ELSE Latest
      BY <3>1, SavedBelow
    <3>3. QED
      BY <1>2, <2>0, <3>2
  <2>4. QED
    BY <2>1, <2>2, <2>3
<1>7. PICK a \in Nat : \A i \in 1..Len(wal) : wal[i].seq = a + (i - 1) /\ wal[i].seq > 0
  <2>1. CASE Len(wal) = 0
    BY <1>2, <2>1
  <2>2. CASE Len(wal) > 0
    <3>1. 1 \in 1..Len(wal)
      BY <1>2, <2>2
    <3>2. PICK a \in Nat : a = wal[1].seq
      BY <1>5, <3>1
    <3>3. \A i \in 1..Len(wal) : wal[i].seq = a + (i - 1) /\ wal[i].seq > 0
      BY <3>2 DEF CoreInv, LogNumbered
    <3>4. QED
      BY <3>3
  <2>3. Len(wal) = 0 \/ Len(wal) > 0
    BY <1>2
  <2>4. QED
    BY <2>1, <2>2, <2>3
<1>8. LogClean'
  BY <1>3, <1>5 DEF LogClean
<1>9. LogNumbered'
  <2>1. ASSUME NEW i \in 1..Len(wal')
        PROVE  wal'[i].seq = wal'[1].seq + (i - 1) /\ wal'[i].seq > 0
    <3>1. /\ i \in Nat /\ s \in Nat /\ s + i \in 1..Len(wal) /\ s + 1 \in 1..Len(wal)
          /\ wal'[i] = wal[s + i] /\ wal'[1] = wal[s + 1]
      <4>1. i \in Nat /\ s \in Nat /\ Len(wal') \in Nat /\ 1 \in 1..Len(wal')
        BY <1>2, <1>3
      <4>2. QED
        BY <1>3, <4>1
    <3>2. wal'[i].seq = a + ((s + i) - 1) /\ wal'[1].seq = a + ((s + 1) - 1)
          /\ wal'[i].seq > 0
      BY <1>7, <3>1
    <3>3. QED
      BY <3>1, <3>2
  <2>2. QED
    BY <2>1 DEF LogNumbered
<1>10. LogIsHistory'
  <2>1. ASSUME NEW i \in 1..Len(wal')
        PROVE  /\ wal'[i].seq <= Len(applied)
               /\ wal'[i].cmd = applied[wal'[i].seq]
    <3>1. s + i \in 1..Len(wal) /\ wal'[i] = wal[s + i]
      BY <1>3
    <3>2. QED
      BY <1>2, <1>5, <3>1
  <2>2. QED
    BY <1>4, <2>1 DEF LogIsHistory
<1>11. LogMeetsSnapshot'
  <2>1. SUFFICES ASSUME Len(wal') > 0
                 PROVE  wal'[1].seq <= Latest' + 1
    BY DEF LogMeetsSnapshot
  <2>2. s \in Nat /\ s + 1 \in 1..Len(wal) /\ wal'[1] = wal[s + 1]
    BY <1>2, <1>3, <2>1
  <2>2a. wal'[1].seq = a + s
    <3>1. wal[s + 1].seq = a + ((s + 1) - 1)
      BY <1>7, <2>2
    <3>2. (s + 1) - 1 = s
      BY <2>2
    <3>3. QED
      BY <2>2, <3>1, <3>2
  <2>3. CASE s = 0
    <3>1. wal[1].seq <= Latest + 1 /\ wal'[1] = wal[1] /\ wal[1].seq = a
      BY <1>2, <1>5, <1>7, <2>2, <2>3 DEF CoreInv, LogMeetsSnapshot
    <3>2. a <= Latest + 1
      BY <3>1
    <3>3. \A x, y \in Nat : x <= y /\ a <= x + 1 => a + s <= y + 1
      BY <2>3
    <3>3a. a + s <= Latest' + 1
      BY <1>6, <3>2, <3>3
    <3>4. QED
      BY <2>2a, <3>3a
  <2>4. CASE s > 0
    <3>1. s \in 1..Len(wal) /\ wal[s].seq = a + (s - 1) /\ wal[s].seq <= Latest'
      BY <1>2, <1>7, <2>4, SMTT(30)
    <3>2. QED
      BY <1>6, <2>2, <2>2a, <3>1
  <2>5. QED
    BY <2>2, <2>3, <2>4
<1>12. RunningAligned'
  <2>1. CASE Len(wal') > 0
    <3>1. wal[Len(wal)].seq = Len(applied)
      BY <1>2, <1>3, <2>1 DEF CoreInv, RunningAligned
    <3>2. wal'[Len(wal')] = wal[Len(wal)]
      <4>1. Len(wal') \in 1..Len(wal') /\ s + Len(wal') = Len(wal)
        BY <1>2, <1>3, <2>1
      <4>2. QED
        BY <1>3, <4>1
    <3>3. QED
      BY <1>1, <2>1, <3>1, <3>2 DEF RunningAligned
  <2>2. CASE Len(wal') = 0
    <3>1. s = Len(wal)
      BY <1>2, <1>3, <2>2
    <3>2. Latest' = Len(applied)
      <4>1. CASE s = 0
        BY <1>2, <1>6, <3>1, <4>1 DEF CoreInv, RunningAligned
      <4>2. CASE s > 0
        <5>1. wal[s].seq = Len(applied)
          BY <1>2, <3>1, <4>2 DEF CoreInv, RunningAligned
        <5>2. QED
          BY <1>2, <1>6, <4>2, <5>1
      <4>3. QED
        BY <4>1, <4>2
    <3>3. ~(Len(wal') > 0) /\ Len(applied') = Len(applied)
      BY <2>2
    <3>4. QED
      BY <1>1, <3>2, <3>3 DEF RunningAligned
  <2>3. QED
    BY <1>2, <1>3, <2>1, <2>2
<1>13. DeadReaches'
  BY DEF DeadReaches
<1>14. Len(Submitted)' <= MaxCommands
  BY <1>4 DEF CoreInv
<1>15. QED
  BY <1>6, <1>8, <1>9, <1>10, <1>11, <1>12, <1>13, <1>14 DEF CoreInv
\* compact_before drops a prefix of the log, nothing numbered after k.
LEMMA CompactEffect ==
  ASSUME CoreInv, up, NEW k \in Nat, CompactBefore(k)
  PROVE  /\ nextSeq' = nextSeq /\ sinceSync' = 0
         /\ osLen' = Len(wal') /\ diskLen' = Len(wal')
         /\ \E s \in 0..Len(wal) : /\ wal' = SubSeq(wal, s + 1, Len(wal))
                                   /\ s > 0 => wal[s].seq <= k
<1> DEFINE s == Covered(wal, Len(wal), k)
<1>1. TypeOK /\ wal \in Seq(Record) /\ Len(wal) \in Nat /\ ScanEnd(wal) = Len(wal)
  BY RunningLog DEF CoreInv, TypeOK, JournalTypeOK
<1>2. s = IF Len(wal) = 0 \/ wal[Len(wal)].seq <= k THEN Len(wal)
          ELSE IF wal[1].seq > k THEN 0 ELSE k - wal[1].seq + 1
  <2>1. \A i \in 1..Len(wal) : wal[i].seq = wal[1].seq + (i - 1)
    BY DEF CoreInv, LogNumbered
  <2>2. QED
    BY <1>1, <2>1, CoveredCount
<1>3. s \in 0..Len(wal) /\ (s > 0 => wal[s].seq <= k)
  <2>1. CASE Len(wal) = 0 \/ wal[Len(wal)].seq <= k
    <3>1. s = Len(wal)
      BY <1>2, <2>1
    <3>2. QED
      BY <1>1, <2>1, <3>1
  <2>2. CASE ~(Len(wal) = 0 \/ wal[Len(wal)].seq <= k)
    <3>1. Len(wal) > 0 /\ 1 \in 1..Len(wal) /\ Len(wal) \in 1..Len(wal)
      BY <1>1, <2>2
    <3>2. PICK a \in Nat : a = wal[1].seq
      BY <1>1, <3>1, LogTyped
    <3>3. \A i \in 1..Len(wal) : wal[i].seq = a + (i - 1)
      BY <3>2 DEF CoreInv, LogNumbered
    <3>4. a + (Len(wal) - 1) > k
      BY <1>1, <2>2, <3>1, <3>3
    <3>5. s = IF a > k THEN 0 ELSE k - a + 1
      BY <1>2, <2>2, <3>2
    <3>6. s \in 0..Len(wal)
      BY <1>1, <3>4, <3>5
    <3>7. s > 0 => s \in 1..Len(wal) /\ a + (s - 1) = k
      BY <1>1, <3>5, <3>6
    <3>8. s > 0 => wal[s].seq = k
      BY <3>3, <3>7
    <3>9. QED
      BY <3>6, <3>8
  <2>3. QED
    BY <2>1, <2>2
<1>4. CASE s = 0 /\ ScanEnd(wal) = Len(wal)
  <2>1. Sync
    BY <1>1, <1>4 DEF CompactBefore
  <2>2. wal' = SubSeq(wal, 0 + 1, Len(wal))
    BY <1>1, <2>1, SubSeqFull DEF Sync
  <2>3. QED
    BY <1>1, <1>4, <2>1, <2>2 DEF Sync
<1>5. CASE ~(s = 0 /\ ScanEnd(wal) = Len(wal))
  <2>1. /\ wal' = SubSeq(wal, s + 1, Len(wal))
        /\ osLen' = Len(wal) - s /\ diskLen' = Len(wal) - s
        /\ sinceSync' = 0 /\ nextSeq' = nextSeq
    BY <1>1, <1>5 DEF CompactBefore
  <2>2. Len(wal') = Len(wal) - s
    BY <1>1, <1>3, <2>1
  <2>3. QED
    BY <1>3, <2>1, <2>2
<1>6. QED
  BY <1>4, <1>5

LEMMA SuffixType ==
  ASSUME NEW w \in Seq(Record), NEW s \in 0..Len(w)
  PROVE  SubSeq(w, s + 1, Len(w)) \in Seq(Record)
<1>1. Len(w) \in Nat /\ s \in Nat
  OBVIOUS
<1>2. \A i \in (s + 1)..Len(w) : w[i] \in Record
  BY <1>1
<1>3. s + 1 \in Int /\ Len(w) \in Int
  BY <1>1
<1>4. QED
  BY <1>2, <1>3, SubSeqProperties

\* A log that was just made durable satisfies what is asked of a running core.
LEMMA JustSynced ==
  ASSUME wal' \in Seq(Record), diskLen' = Len(wal'), sinceSync' = 0
  PROVE  RunningDurable'
<1>1. Len(wal') \in Nat
  OBVIOUS
<1>2. MaxLoss \in Nat
  BY PolicyAssumption, EnvironmentAssumption DEF MaxLoss
<1>3. MaxLoss' = MaxLoss
  BY DEF MaxLoss
<1>4. QED
  BY <1>1, <1>2, <1>3 DEF RunningDurable

\* sync_journal, compact_journal, checkpoint, take_snapshot and request_snapshot
LEMMA MaintenanceOps ==
  ASSUME CoreInv,
         SyncJournal \/ TakeSnapshot \/ RequestSnapshot \/ CompactJournal \/ Checkpoint
  PROVE  CoreInv'
<1>1. /\ up /\ up' /\ TypeOK /\ halted' = halted /\ halted # "err"
      /\ UNCHANGED <<applied, inflight, lastSeq, sink>>
  BY DEF SyncJournal, TakeSnapshot, RequestSnapshot, CompactJournal, Checkpoint,
         coreVars, CoreInv
<1>2. /\ wal \in Seq(Record) /\ Len(wal) \in Nat /\ lastSeq \in Nat
      /\ DOMAIN snaps \subseteq Nat /\ NewestExists
  BY <1>1 DEF TypeOK, JournalTypeOK, CoreInv
<1>3. wal' = wal => \E s \in 0..Len(wal) : /\ wal' = SubSeq(wal, s + 1, Len(wal))
                                           /\ s > 0 => wal[s].seq <= Latest'
  <2>1. wal = SubSeq(wal, 0 + 1, Len(wal)) /\ 0 \in 0..Len(wal)
    BY <1>2, SubSeqFull
  <2>2. QED
    BY <2>1
<1>4. CASE SyncJournal
  <2>1. Sync /\ snaps' = snaps /\ wal' = wal /\ nextSeq' = nextSeq
    BY <1>4 DEF SyncJournal, Sync, coreVars
  <2>2. TypeOK'
    BY <1>1, <1>2, <2>1 DEF TypeOK, JournalTypeOK, Sync
  <2>3. RunningDurable'
    BY <1>2, <2>1, JustSynced DEF Sync
  <2>4. QED
    BY <1>1, <1>2, <1>3, <2>1, <2>2, <2>3, MaintenanceStep
<1>5. CASE TakeSnapshot \/ RequestSnapshot
  <2>1. snaps' = Saved(lastSeq, applied) /\ UNCHANGED journalVars
    BY <1>5 DEF TakeSnapshot, RequestSnapshot
  <2>2. TypeOK'
    BY <1>1, <1>2, <2>1, SavedProperties DEF TypeOK, JournalTypeOK, journalVars
  <2>3. RunningDurable'
    BY <1>1, <2>1 DEF RunningDurable, journalVars, CoreInv, MaxLoss
  <2>4. QED
    BY <1>1, <1>2, <1>3, <2>1, <2>2, <2>3, MaintenanceStep DEF journalVars
<1>6. CASE CompactJournal
  <2>1. snaps' = snaps /\ CompactBefore(Latest) /\ Latest' = Latest /\ Latest \in Nat
    BY <1>2, <1>6, LatestProperties DEF CompactJournal, coreVars, Latest
  <2>2. PICK s \in 0..Len(wal) : /\ wal' = SubSeq(wal, s + 1, Len(wal))
                                 /\ s > 0 => wal[s].seq <= Latest
    BY <1>1, <2>1, CompactEffect
  <2>3. wal' \in Seq(Record)
    BY <1>2, <2>2, SuffixType
  <2>4. nextSeq' = nextSeq /\ sinceSync' = 0 /\ osLen' = Len(wal') /\ diskLen' = Len(wal')
    BY <1>1, <2>1, CompactEffect
  <2>5. TypeOK'
    BY <1>1, <2>1, <2>3, <2>4 DEF TypeOK, JournalTypeOK
  <2>6. RunningDurable'
    BY <2>3, <2>4, JustSynced
  <2>7. QED
    BY <1>1, <2>1, <2>2, <2>3, <2>4, <2>5, <2>6, MaintenanceStep
<1>7. CASE Checkpoint
  <2>1. snaps' = Saved(lastSeq, applied) /\ CompactBefore(Latest')
    BY <1>7 DEF Checkpoint
  <2>2. Latest' = lastSeq
    BY <1>1, <2>1, SavedProperties
  <2>3. CompactBefore(lastSeq)
    BY <2>1, <2>2
  <2>4. PICK s \in 0..Len(wal) : /\ wal' = SubSeq(wal, s + 1, Len(wal))
                                 /\ s > 0 => wal[s].seq <= lastSeq
    BY <1>1, <1>2, <2>3, CompactEffect
  <2>5. wal' \in Seq(Record)
    BY <1>2, <2>4, SuffixType
  <2>6. nextSeq' = nextSeq /\ sinceSync' = 0 /\ osLen' = Len(wal') /\ diskLen' = Len(wal')
    BY <1>1, <1>2, <2>3, CompactEffect
  <2>7. TypeOK'
    BY <1>1, <1>2, <2>1, <2>5, <2>6, SavedProperties DEF TypeOK, JournalTypeOK
  <2>8. RunningDurable'
    BY <2>5, <2>6, JustSynced
  <2>9. QED
    BY <1>1, <2>1, <2>2, <2>4, <2>6, <2>7, <2>8, MaintenanceStep
<1>8. QED
  BY <1>4, <1>5, <1>6, <1>7

\* shutdown
LEMMA ShutdownStep ==
  ASSUME Disciplined, CoreInv, Shutdown
  PROVE  CoreInv'
<1>1. /\ up /\ up' /\ TypeOK /\ halted # "err"
      /\ UNCHANGED <<applied, inflight, lastSeq, sink>>
  BY DEF Shutdown, CoreInv
<1>2. /\ wal \in Seq(Record) /\ Len(wal) \in Nat
      /\ wal' = wal => \E s \in 0..Len(wal) : /\ wal' = SubSeq(wal, s + 1, Len(wal))
                                              /\ s > 0 => wal[s].seq <= Latest'
  <2>1. wal \in Seq(Record) /\ Len(wal) \in Nat
    BY <1>1 DEF TypeOK, JournalTypeOK
  <2>2. wal = SubSeq(wal, 0 + 1, Len(wal)) /\ 0 \in 0..Len(wal)
    BY <2>1, SubSeqFull
  <2>3. QED
    BY <2>1, <2>2
<1>3. CASE halted = "no"
  <2>1. Sync /\ halted' = "ok" /\ wal' = wal /\ nextSeq' = nextSeq
    BY <1>3 DEF Shutdown, Sync, Disciplined
  <2>2. snaps' = snaps \/ snaps' = Saved(lastSeq, applied)
    BY <1>3 DEF Shutdown
  <2>3. DOMAIN snaps' \subseteq Nat /\ \A k \in DOMAIN snaps' : snaps'[k] \in Seq(Commands)
    BY <1>1, <2>2, SavedProperties DEF TypeOK
  <2>4. TypeOK'
    BY <1>1, <1>2, <2>1, <2>3 DEF TypeOK, JournalTypeOK, Sync
  <2>5. RunningDurable'
    BY <1>2, <2>1, JustSynced DEF Sync
  <2>6. QED
    BY <1>1, <1>2, <2>1, <2>2, <2>4, <2>5, MaintenanceStep
<1>4. CASE halted # "no"
  <2>1. halted' = "ok" /\ UNCHANGED <<journalVars, snaps>> /\ halted = "ok"
    BY <1>1, <1>4 DEF Shutdown, TypeOK
  <2>2. TypeOK'
    BY <1>1, <2>1 DEF TypeOK, JournalTypeOK, journalVars
  <2>3. RunningDurable'
    BY <1>1, <2>1 DEF RunningDurable, journalVars, CoreInv, MaxLoss
  <2>4. QED
    BY <1>1, <1>2, <2>1, <2>2, <2>3, MaintenanceStep DEF journalVars
<1>5. QED
  BY <1>3, <1>4

-----------------------------------------------------------------------------
(* The invariant is preserved: failure and recovery *)

\* Where the log of a running core stands: it numbers the last commands executed,
\* and starts no later than the snapshots end.
LEMMA RunningNumbers ==
  ASSUME CoreInv, up
  PROVE  /\ Latest \in Nat
         /\ \E b \in Nat : /\ b > 0 /\ b + Len(wal) = Len(applied) + 1 /\ b <= Latest + 1
                          /\ \A i \in 1..Len(wal) : wal[i].seq = b + (i - 1)
<1>1. TypeOK /\ Len(wal) \in Nat /\ Len(applied) \in Nat /\ Latest \in Nat
  BY LatestProperties DEF CoreInv, TypeOK, JournalTypeOK
<1>2. CASE Len(wal) = 0
  <2>1. Latest = Len(applied)
    BY <1>1, <1>2 DEF CoreInv, RunningAligned
  <2>2. PICK b \in Nat : b = Latest + 1
    BY <1>1
  <2>3. b > 0 /\ b + Len(wal) = Len(applied) + 1 /\ b <= Latest + 1
    BY <1>1, <1>2, <2>1, <2>2
  <2>4. \A i \in 1..Len(wal) : wal[i].seq = b + (i - 1)
    BY <1>2
  <2>5. QED
    BY <1>1, <2>3, <2>4
<1>3. CASE Len(wal) > 0
  <2>1. 1 \in 1..Len(wal) /\ Len(wal) \in 1..Len(wal)
    BY <1>1, <1>3
  <2>2. PICK b \in Nat : b = wal[1].seq
    BY <1>1, <2>1, LogTyped
  <2>3. \A i \in 1..Len(wal) : wal[i].seq = b + (i - 1)
    BY <2>2 DEF CoreInv, LogNumbered
  <2>4. b > 0 /\ wal[1].st = "ok"
    BY <2>1, <2>2, RunningLog DEF CoreInv, LogNumbered
  <2>5. b <= Latest + 1
    BY <1>3, <2>2, <2>4 DEF CoreInv, LogMeetsSnapshot
  <2>6. wal[Len(wal)].seq = Len(applied)
    BY <1>3 DEF CoreInv, RunningAligned
  <2>7. b + (Len(wal) - 1) = Len(applied)
    BY <2>1, <2>3, <2>6
  <2>8. QED
    BY <1>1, <2>3, <2>4, <2>5, <2>7
<1>4. QED
  BY <1>1, <1>2, <1>3

\* The stream of a core that dies: its log, or its log and the record of the
\* submission under way.
Stream(f) ==
  \/ f = wal /\ inflight' = <<>>
  \/ \E c \in Commands :
       /\ Serving
       /\ f = Append(wal, [seq |-> nextSeq, cmd |-> c, st |-> "ok"])
       /\ inflight' = <<c>>

\* Every record of the stream is the command of its number among those submitted.
LEMMA StreamIsHistory ==
  ASSUME CoreInv, up, applied' = applied, NEW f, Stream(f),
         NEW b \in Nat, b > 0, b + Len(wal) = Len(applied) + 1,
         \A i \in 1..Len(wal) : wal[i].seq = b + (i - 1)
  PROVE  /\ f \in Seq(Record) /\ Len(f) \in Nat /\ Len(f) >= Len(wal)
         /\ inflight' \in Seq(Commands)
         /\ Submitted' \in Seq(Commands) /\ Len(Submitted') <= MaxCommands
         /\ \A i \in 1..Len(f) : /\ f[i] \in Record /\ f[i].st = "ok"
                                 /\ f[i].seq = b + (i - 1)
                                 /\ f[i].seq \in 1..Len(Submitted')
                                 /\ f[i].cmd = Submitted'[f[i].seq]
<1>1. /\ wal \in Seq(Record) /\ Len(wal) \in Nat /\ applied \in Seq(Commands)
      /\ Len(applied) \in Nat /\ Len(applied) <= MaxCommands /\ MaxCommands \in Nat
      /\ Submitted = applied /\ nextSeq = Len(applied) + 1
  BY RunningLog, EnvironmentAssumption
     DEF CoreInv, TypeOK, JournalTypeOK, RunningAligned
<1>2. \A i \in 1..Len(wal) : /\ wal[i] \in Record /\ wal[i].st = "ok"
                              /\ wal[i].seq = b + (i - 1)
                              /\ wal[i].seq \in 1..Len(applied)
                              /\ wal[i].cmd = applied[wal[i].seq]
  BY <1>1, RunningLog, SMTT(30) DEF Agrees
<1>3. CASE f = wal /\ inflight' = <<>>
  <2>1. Submitted' = applied
    BY <1>1, <1>3 DEF Submitted
  <2>2. QED
    BY <1>1, <1>2, <1>3, <2>1
<1>4. ASSUME NEW c \in Commands, Serving, inflight' = <<c>>,
             f = Append(wal, [seq |-> nextSeq, cmd |-> c, st |-> "ok"])
      PROVE  /\ f \in Seq(Record) /\ Len(f) \in Nat /\ Len(f) >= Len(wal)
             /\ inflight' \in Seq(Commands)
             /\ Submitted' \in Seq(Commands) /\ Len(Submitted') <= MaxCommands
             /\ \A i \in 1..Len(f) : /\ f[i] \in Record /\ f[i].st = "ok"
                                     /\ f[i].seq = b + (i - 1)
                                     /\ f[i].seq \in 1..Len(Submitted')
                                     /\ f[i].cmd = Submitted'[f[i].seq]
  <2> DEFINE r == [seq |-> nextSeq, cmd |-> c, st |-> "ok"]
  <2>1. r \in Record
    BY <1>1 DEF Record, Status
  <2>2. /\ f \in Seq(Record) /\ Len(f) = Len(wal) + 1 /\ f[Len(wal) + 1] = r
        /\ \A i \in 1..Len(wal) : f[i] = wal[i]
    BY <1>1, <1>4, <2>1
  <2>3. /\ Submitted' \in Seq(Commands) /\ Len(Submitted') = Len(applied) + 1
        /\ Submitted'[Len(applied) + 1] = c
        /\ \A i \in 1..Len(applied) : Submitted'[i] = applied[i]
    BY <1>1, <1>4 DEF Submitted
  <2>4. Len(Submitted') <= MaxCommands
    BY <1>1, <1>4, <2>3 DEF Serving
  <2>5. ASSUME NEW i \in 1..Len(f)
        PROVE  /\ f[i] \in Record /\ f[i].st = "ok"
               /\ f[i].seq = b + (i - 1)
               /\ f[i].seq \in 1..Len(Submitted')
               /\ f[i].cmd = Submitted'[f[i].seq]
    <3>1. CASE i \in 1..Len(wal)
      <4>1. PICK n \in 1..Len(applied) : n = wal[i].seq
        BY <1>2, <3>1
      <4>2. Submitted'[n] = applied[n] /\ n \in 1..Len(Submitted')
        BY <1>1, <2>3
      <4>3. f[i] = wal[i]
        BY <2>2, <3>1
      <4>4. QED
        BY <1>2, <3>1, <4>1, <4>2, <4>3
    <3>2. CASE i = Len(wal) + 1
      <4>1. f[i] = r
        BY <2>2, <3>2
      <4>2. r.seq = b + (i - 1) /\ r.seq = Len(applied) + 1
        BY <1>1, <3>2
      <4>3. QED
        BY <1>1, <2>1, <2>3, <4>1, <4>2
    <3>3. QED
      BY <1>1, <2>2, <3>1, <3>2
  <2>6. QED
    BY <1>1, <1>4, <2>2, <2>3, <2>4, <2>5
<1>5. QED
  BY <1>3, <1>4 DEF Stream

\* What a crash leaves on the file: a prefix of the stream, and at most one
\* torn record after it.
LEMMA SurvivesEffect ==
  ASSUME NEW f \in Seq(Record), NEW k \in 0..Len(f), NEW damage \in {"none", "torn"},
         Survives(f, k, damage),
         \A i \in 1..Len(f) : f[i].st = "ok"
  PROVE  /\ wal' \in Seq(Record) /\ osLen' = Len(wal')
         /\ k <= Len(wal') /\ Len(wal') <= Len(f) /\ Len(wal') <= k + 1
         /\ \A i \in 1..Len(wal') : /\ wal'[i] \in Record
                                    /\ wal'[i].seq = f[i].seq /\ wal'[i].cmd = f[i].cmd
                                    /\ wal'[i].st = IF i <= k THEN "ok" ELSE "torn"
<1> DEFINE p == SubSeq(f, 1, k)
<1>1. /\ k \in Nat /\ Len(f) \in Nat /\ p \in Seq(Record) /\ Len(p) = k
      /\ \A i \in 1..k : p[i] = f[i]
  OBVIOUS
<1>2. \A i \in 1..Len(f) : f[i] \in Record
  OBVIOUS
<1>3. CASE damage = "none"
  <2>1. wal' = p /\ osLen' = Len(wal')
    BY <1>3 DEF Survives
  <2>2. QED
    BY <1>1, <1>2, <2>1
<1>4. CASE damage = "torn"
  <2> DEFINE t == [f[k + 1] EXCEPT !.st = "torn"]
  <2>1. wal' = Append(p, t) /\ osLen' = Len(wal') /\ k < Len(f)
    BY <1>4 DEF Survives
  <2>2. k + 1 \in 1..Len(f) /\ f[k + 1] \in Record
    BY <1>1, <1>2, <2>1
  <2>3. /\ t \in Record /\ t.seq = f[k + 1].seq /\ t.cmd = f[k + 1].cmd
        /\ t.st = "torn"
    BY <2>2 DEF Record, Status
  <2>4. /\ wal' \in Seq(Record) /\ Len(wal') = k + 1 /\ wal'[k + 1] = t
        /\ \A i \in 1..k : wal'[i] = f[i]
    BY <1>1, <2>1, <2>3
  <2>5. ASSUME NEW i \in 1..Len(wal')
        PROVE  /\ wal'[i] \in Record
               /\ wal'[i].seq = f[i].seq /\ wal'[i].cmd = f[i].cmd
               /\ wal'[i].st = IF i <= k THEN "ok" ELSE "torn"
    <3>1. CASE i \in 1..k
      BY <1>1, <1>2, <2>4, <3>1
    <3>2. CASE i = k + 1
      <4>1. wal'[i] = t /\ f[i] = f[k + 1] /\ ~(i <= k)
        BY <1>1, <2>4, <3>2
      <4>2. QED
        BY <2>3, <4>1
    <3>3. QED
      BY <1>1, <2>4, <3>1, <3>2
  <2>6. /\ wal' \in Seq(Record) /\ osLen' = Len(wal')
        /\ k <= Len(wal') /\ Len(wal') <= Len(f) /\ Len(wal') <= k + 1
    <3>1. k < Len(f) /\ Len(wal') = k + 1
      BY <2>1, <2>4
    <3>2. QED
      BY <1>1, <2>1, <2>4, <3>1
  <2>7. QED
    BY <2>5, <2>6
<1>5. QED
  BY <1>3, <1>4

\* The death of the core: between two operations, within a submission, or by
\* being dropped.
LEMMA DeathStep ==
  ASSUME CoreInv, up, up' = FALSE,
         UNCHANGED <<halted, applied, lastSeq, sink, snaps, nextSeq, sinceSync>>,
         NEW f, Stream(f), NEW k \in 0..Len(f), NEW damage \in {"none", "torn"},
         Survives(f, k, damage),
         diskLen' \in 0..Len(wal'),
         k + (IF halted = "ok" THEN 0 ELSE MaxLoss) >= Len(wal)
  PROVE  CoreInv'
<1>0. TypeOK /\ halted # "err" /\ Len(wal) \in Nat /\ Len(applied) \in Nat
  BY DEF CoreInv, TypeOK, JournalTypeOK
<1>1. Latest \in Nat /\ Latest' = Latest
  BY RunningNumbers DEF Latest
<1>2. PICK b \in Nat : /\ b > 0 /\ b + Len(wal) = Len(applied) + 1 /\ b <= Latest + 1
                        /\ \A i \in 1..Len(wal) : wal[i].seq = b + (i - 1)
  BY RunningNumbers
<1>3. /\ f \in Seq(Record) /\ Len(f) \in Nat /\ Len(f) >= Len(wal)
      /\ inflight' \in Seq(Commands)
      /\ Submitted' \in Seq(Commands) /\ Len(Submitted') <= MaxCommands
      /\ \A i \in 1..Len(f) : /\ f[i] \in Record /\ f[i].st = "ok"
                              /\ f[i].seq = b + (i - 1)
                              /\ f[i].seq \in 1..Len(Submitted')
                              /\ f[i].cmd = Submitted'[f[i].seq]
  BY <1>2, StreamIsHistory
<1>4. /\ wal' \in Seq(Record) /\ Len(wal') \in Nat /\ osLen' = Len(wal')
      /\ k \in Nat /\ k <= Len(wal') /\ Len(wal') <= Len(f) /\ Len(wal') <= k + 1
      /\ \A i \in 1..Len(wal') : /\ wal'[i] \in Record
                                 /\ wal'[i].seq = f[i].seq /\ wal'[i].cmd = f[i].cmd
                                 /\ wal'[i].st = IF i <= k THEN "ok" ELSE "torn"
  BY <1>3, SurvivesEffect, SMTT(30)
<1>5. \A i \in 1..Len(wal') : i \in Nat /\ i \in 1..Len(f)
  BY <1>3, <1>4
<1>6. \A i \in 1..Len(wal') : wal'[i].seq = b + (i - 1)
  BY <1>3, <1>4, <1>5
<1>7. TypeOK'
  <2>1. DOMAIN snaps' \subseteq Nat /\ \A j \in DOMAIN snaps' : snaps'[j] \in Seq(Commands)
    BY <1>0 DEF TypeOK
  <2>2. osLen' \in 0..Len(wal') /\ diskLen' \in 0..osLen'
    BY <1>4
  <2>3. QED
    BY <1>0, <1>3, <1>4, <2>1, <2>2 DEF TypeOK, JournalTypeOK
<1>8. LogClean'
  <2>1. ASSUME NEW i \in 1..Len(wal')
        PROVE  wal'[i].st = "ok" \/ (i = Len(wal') /\ wal'[i].st = "torn")
    BY <1>4, <1>5
  <2>2. QED
    BY <2>1 DEF LogClean
<1>9. LogNumbered'
  <2>1. \A i \in 1..Len(wal') : 1 \in 1..Len(wal')
    BY <1>4
  <2>2. \A i \in 1..Len(wal') : wal'[1].seq = b
    BY <1>6, <2>1
  <2>3. QED
    BY <1>2, <1>5, <1>6, <2>2 DEF LogNumbered
<1>10. LogIsHistory'
  <2>1. Len(Submitted') \in Nat
    BY <1>3
  <2>2. \A i \in 1..Len(wal') : /\ wal'[i].seq \in 1..Len(Submitted')
                               /\ wal'[i].cmd = Submitted'[wal'[i].seq]
    BY <1>3, <1>4, <1>5
  <2>3. QED
    BY <2>1, <2>2 DEF LogIsHistory
<1>11. LogMeetsSnapshot'
  <2>1. Len(wal') > 0 => wal'[1].seq = b
    BY <1>4, <1>6
  <2>2. QED
    BY <1>1, <1>2, <2>1 DEF LogMeetsSnapshot
<1>12. ReadEnd(wal') = k
  <2>1. \A i \in 1..Len(wal') : wal'[i].st = "ok" \/ (i = Len(wal') /\ wal'[i].st = "torn")
    BY <1>4, <1>5
  <2>2. ReadEnd(wal') = IF Len(wal') > 0 /\ wal'[Len(wal')].st = "torn"
                        THEN Len(wal') - 1 ELSE Len(wal')
    BY <1>4, <2>1, CleanEnd
  <2>3. CASE Len(wal') = k
    BY <1>4, <2>2, <2>3
  <2>4. CASE Len(wal') = k + 1
    <3>1. wal'[Len(wal')].st = "torn"
      BY <1>4, <2>4
    <3>2. QED
      BY <1>4, <2>2, <2>4, <3>1
  <2>5. QED
    BY <1>4, <2>3, <2>4
<1>13. DeadReaches'
  <2>1. halted' = "ok" => inflight' = <<>>
    BY DEF Stream, Serving
  <2>2. PICK m \in Nat : m = IF halted = "ok" THEN 0 ELSE MaxLoss
    BY PolicyAssumption, EnvironmentAssumption DEF MaxLoss
  <2>3. MaxLoss' = MaxLoss
    BY DEF MaxLoss
  <2>4. (IF k = 0 THEN Latest ELSE wal'[k].seq) + m >= Len(applied)
    <3>1. k + m >= Len(wal)
      BY <2>2
    <3>2. CASE k = 0
      BY <1>0, <1>1, <1>2, <3>1, <3>2
    <3>3. CASE k > 0
      <4>1. wal'[k].seq = b + (k - 1)
        BY <1>4, <1>6, <3>3
      <4>2. QED
        BY <1>0, <1>2, <1>4, <3>1, <3>3, <4>1
    <3>4. QED
      BY <1>4, <3>2, <3>3
  <2>5. QED
    BY <1>1, <1>12, <2>1, <2>2, <2>3, <2>4 DEF DeadReaches
<1>14. SnapshotsFaithful' /\ NewestExists'
  BY DEF CoreInv, SnapshotsFaithful, NewestExists
<1>15. RunningAligned' /\ RunningDurable'
  BY DEF RunningAligned, RunningDurable
<1>16. QED
  BY <1>0, <1>3, <1>7, <1>8, <1>9, <1>10, <1>11, <1>13, <1>14, <1>15 DEF CoreInv

\* What is on the disk is behind by what the sync policy allows, and by nothing
\* after a shutdown.
LEMMA DiskBehind ==
  ASSUME CoreInv, up
  PROVE  /\ diskLen \in Nat /\ osLen \in Nat /\ diskLen <= osLen /\ osLen <= Len(wal)
         /\ \A k \in Nat : k >= diskLen =>
               k + (IF halted = "ok" THEN 0 ELSE MaxLoss) >= Len(wal)
<1>1. /\ Len(wal) \in Nat /\ diskLen \in Nat /\ osLen \in Nat /\ sinceSync \in Nat
      /\ diskLen <= osLen /\ osLen <= Len(wal)
  BY DEF CoreInv, TypeOK, JournalTypeOK
<1>2. Len(wal) <= diskLen + sinceSync /\ (halted = "ok" => diskLen = Len(wal))
  BY DEF CoreInv, RunningDurable
<1>3. PICK m \in Nat : m = MaxLoss
  BY PolicyAssumption, EnvironmentAssumption DEF MaxLoss
<1>4. CASE Policy # "Never"
  <2>1. sinceSync <= m
    BY <1>3, <1>4 DEF CoreInv, RunningDurable
  <2>2. \A k \in Nat : k >= diskLen => k + m >= Len(wal)
    BY <1>1, <1>2, <2>1
  <2>3. QED
    BY <1>1, <1>2, <1>3, <2>2
<1>5. CASE Policy = "Never"
  <2>1. m = MaxCommands
    BY <1>3, <1>5 DEF MaxLoss
  <2>2. PICK b \in Nat : b > 0 /\ b + Len(wal) = Len(applied) + 1
    BY RunningNumbers
  <2>3. Len(applied) <= m /\ Len(applied) \in Nat
    BY <2>1, RunningLog DEF CoreInv, TypeOK
  <2>4. \A k \in Nat : k + m >= Len(wal)
    BY <1>1, <2>2, <2>3
  <2>5. QED
    BY <1>1, <1>2, <1>3, <2>4
<1>6. QED
  BY <1>4, <1>5

LEMMA CrashStep ==
  ASSUME Disciplined, CoreInv,
         \/ \E kind \in Failures : Crash(kind)
         \/ \E kind \in Failures, c \in Commands : CrashInSubmit(kind, c)
  PROVE  CoreInv'
<1>1. ASSUME NEW kind \in Failures, Crash(kind)
      PROVE  CoreInv'
  <2>1. /\ up /\ up' = FALSE /\ inflight' = inflight
        /\ UNCHANGED <<halted, applied, lastSeq, sink, snaps>>
    BY <1>1 DEF Crash
  <2>2. PICK k \in (IF kind = "power" THEN diskLen ELSE osLen)..osLen,
             damage \in {"none"} \cup (TailDamage \cap
                     (IF kind = "power" THEN {"torn", "crc"} ELSE {"torn"})) :
             /\ Survives(wal, k, damage)
             /\ diskLen' = IF kind = "power" THEN Len(wal') ELSE diskLen
    BY <1>1 DEF Crash
  <2>3. Stream(wal)
    BY <2>1 DEF Stream, CoreInv, RunningAligned
  <2>4. /\ damage \in {"none", "torn"} /\ k \in 0..Len(wal) /\ k \in Nat /\ k >= diskLen
        /\ (kind # "power" => diskLen <= k)
    BY <2>1, DiskBehind DEF Disciplined
  <2>5. wal \in Seq(Record) /\ \A i \in 1..Len(wal) : wal[i].st = "ok"
    BY <2>1, RunningLog DEF CoreInv, TypeOK, JournalTypeOK
  <2>6. wal' \in Seq(Record) /\ k <= Len(wal')
    BY <2>2, <2>4, <2>5, SurvivesEffect
  <2>7. diskLen' \in 0..Len(wal')
    <3>1. Len(wal') \in Nat /\ diskLen \in Nat
      BY <2>1, <2>6, DiskBehind
    <3>2. QED
      BY <2>2, <2>4, <2>6, <3>1
  <2>8. k + (IF halted = "ok" THEN 0 ELSE MaxLoss) >= Len(wal)
    BY <2>1, <2>4, DiskBehind
  <2>9. UNCHANGED <<nextSeq, sinceSync>>
    BY <2>2 DEF Survives
  <2>10. QED
    BY <2>1, <2>2, <2>3, <2>4, <2>7, <2>8, <2>9, DeathStep
<1>2. ASSUME NEW kind \in Failures, NEW c \in Commands, CrashInSubmit(kind, c)
      PROVE  CoreInv'
  <2> DEFINE f == Append(wal, [seq |-> nextSeq, cmd |-> c, st |-> "ok"])
  <2>1. /\ up /\ up' = FALSE /\ Serving /\ inflight' = <<c>>
        /\ UNCHANGED <<halted, applied, lastSeq, sink, snaps>>
    BY <1>2 DEF CrashInSubmit, Serving
  <2>2. PICK k \in (IF kind = "power" THEN diskLen ELSE osLen)..Len(f),
             damage \in {"none"} \cup (TailDamage \cap
                     (IF kind = "power" THEN {"torn", "crc"} ELSE {"torn"})) :
             /\ Survives(f, k, damage)
             /\ diskLen' = IF kind = "power" THEN Len(wal') ELSE diskLen
    BY <1>2 DEF CrashInSubmit
  <2>3. Stream(f)
    BY <2>1 DEF Stream
  <2>4. PICK b \in Nat : /\ b > 0 /\ b + Len(wal) = Len(applied) + 1
                          /\ \A i \in 1..Len(wal) : wal[i].seq = b + (i - 1)
    BY <2>1, RunningNumbers
  <2>5. f \in Seq(Record) /\ \A i \in 1..Len(f) : f[i].st = "ok"
    BY <2>1, <2>3, <2>4, StreamIsHistory
  <2> HIDE DEF f
  <2>6. /\ damage \in {"none", "torn"} /\ k \in 0..Len(f) /\ k \in Nat /\ k >= diskLen
    BY <2>1, <2>5, DiskBehind DEF Disciplined
  <2>7. wal' \in Seq(Record) /\ k <= Len(wal')
    BY <2>2, <2>5, <2>6, SurvivesEffect
  <2>8. diskLen' \in 0..Len(wal')
    <3>1. Len(wal') \in Nat /\ diskLen \in Nat
      BY <2>1, <2>7, DiskBehind
    <3>2. QED
      BY <2>2, <2>6, <2>7, <3>1
  <2>9. k + (IF halted = "ok" THEN 0 ELSE MaxLoss) >= Len(wal)
    BY <2>1, <2>6, DiskBehind
  <2>10. UNCHANGED <<nextSeq, sinceSync>>
    BY <2>2 DEF Survives
  <2>11. QED
    BY <2>1, <2>2, <2>3, <2>6, <2>8, <2>9, <2>10, DeathStep
<1>3. QED
  BY <1>1, <1>2

\* Dropping the core is a death that leaves the whole log.
LEMMA DropStep ==
  ASSUME CoreInv, Drop
  PROVE  CoreInv'
<1>1. /\ up /\ up' = FALSE /\ inflight' = inflight /\ wal' = wal /\ osLen' = Len(wal)
      /\ diskLen' = diskLen
      /\ UNCHANGED <<halted, applied, lastSeq, sink, snaps, nextSeq, sinceSync>>
  BY DEF Drop
<1>2. Stream(wal)
  BY <1>1 DEF Stream, CoreInv, RunningAligned
<1>3. wal \in Seq(Record) /\ Len(wal) \in Nat
  BY DEF CoreInv, TypeOK, JournalTypeOK
<1>4. Survives(wal, Len(wal), "none") /\ Len(wal) \in 0..Len(wal)
  BY <1>1, <1>3, SubSeqFull DEF Survives
<1>5. diskLen' \in 0..Len(wal')
  BY <1>1, <1>3, DiskBehind
<1>6. Len(wal) + (IF halted = "ok" THEN 0 ELSE MaxLoss) >= Len(wal)
  BY <1>1, <1>3, DiskBehind
<1>7. "none" \in {"none", "torn"}
  OBVIOUS
<1>8. QED
  BY <1>1, <1>2, <1>4, <1>5, <1>6, <1>7, DeathStep

\* The log of a dead core agrees with what was submitted to it.
LEMMA DeadLog ==
  ASSUME CoreInv, ~up
  PROVE  /\ ScanEnd(wal) = ReadEnd(wal)
         /\ ReadEnd(wal) = IF Len(wal) > 0 /\ wal[Len(wal)].st = "torn"
                           THEN Len(wal) - 1 ELSE Len(wal)
         /\ Submitted \in Seq(Commands)
         /\ Agrees(wal, Submitted)
<1>1. TypeOK /\ wal \in Seq(Record) /\ Len(wal) \in Nat /\ Submitted \in Seq(Commands)
      /\ Len(Submitted) \in Nat
  BY DEF CoreInv, TypeOK, JournalTypeOK, Submitted
<1>2. \A i \in 1..Len(wal) : wal[i].st = "ok" \/ (i = Len(wal) /\ wal[i].st = "torn")
  BY DEF CoreInv, LogClean
<1>3. /\ ScanEnd(wal) = ReadEnd(wal)
      /\ ReadEnd(wal) = IF Len(wal) > 0 /\ wal[Len(wal)].st = "torn"
                        THEN Len(wal) - 1 ELSE Len(wal)
  BY <1>1, <1>2, CleanEnd
<1>4. ReadEnd(wal) \in 0..Len(wal)
  BY <1>1, <1>3
<1>5. \A i \in 1..ReadEnd(wal) : i \in 1..Len(wal) /\ wal[i].st = "ok"
  <2>1. TAKE i \in 1..ReadEnd(wal)
  <2>2. i \in 1..Len(wal)
    BY <1>1, <1>4
  <2>3. CASE i < Len(wal)
    BY <1>2, <2>2, <2>3
  <2>4. CASE i = Len(wal)
    BY <1>1, <1>2, <1>3, <2>2, <2>4
  <2>5. QED
    BY <1>1, <2>2, <2>3, <2>4
<1>6. ASSUME NEW i \in 1..ReadEnd(wal)
      PROVE  /\ wal[i].seq = wal[1].seq + (i - 1)
             /\ wal[i].seq \in 1..Len(Submitted)
             /\ wal[i].cmd = Submitted[wal[i].seq]
  <2>1. i \in 1..Len(wal) /\ wal[i].st = "ok" /\ wal[i].seq \in Nat
    BY <1>1, <1>5, LogTyped
  <2>2. wal[i].seq > 0 /\ wal[i].seq = wal[1].seq + (i - 1)
    BY <2>1 DEF CoreInv, LogNumbered
  <2>3. wal[i].seq <= Len(Submitted) /\ wal[i].cmd = Submitted[wal[i].seq]
    BY <2>1 DEF CoreInv, LogIsHistory
  <2>4. QED
    BY <1>1, <2>1, <2>2, <2>3
<1>7. QED
  BY <1>1, <1>3, <1>4, <1>6 DEF Agrees

\* truncate_to_last_valid
LEMMA TruncateStep ==
  ASSUME CoreInv, Truncate
  PROVE  CoreInv'
<1> DEFINE e == ScanEnd(wal)
<1>1. /\ ~up /\ UNCHANGED <<up, halted, applied, inflight, lastSeq, sink, snaps>>
      /\ UNCHANGED <<nextSeq, sinceSync>>
      /\ e < Len(wal) /\ wal' = SubSeq(wal, 1, e) /\ osLen' = e /\ diskLen' = e
  BY DEF Truncate, TruncateToLastValid, coreVars
<1>2. TypeOK /\ wal \in Seq(Record) /\ Len(wal) \in Nat
  BY DEF CoreInv, TypeOK, JournalTypeOK
<1>3. e \in Nat /\ Len(wal) = e + 1 /\ ReadEnd(wal) = e
  BY <1>1, <1>2, DeadLog
<1> HIDE DEF e
<1>4. /\ wal' \in Seq(Record) /\ Len(wal') = e
      /\ \A i \in 1..e : i \in 1..Len(wal) /\ i # Len(wal) /\ wal'[i] = wal[i]
  BY <1>1, <1>2, <1>3
<1>5. \A i \in 1..e : wal'[i].st = "ok"
  BY <1>4 DEF CoreInv, LogClean
<1>6. TypeOK'
  BY <1>1, <1>2, <1>3, <1>4 DEF TypeOK, JournalTypeOK
<1>7. LogClean'
  BY <1>4, <1>5 DEF LogClean
<1>8. LogNumbered'
  <2>1. \A i \in 1..e : 1 \in 1..e
    BY <1>3
  <2>2. QED
    BY <1>4, <2>1 DEF CoreInv, LogNumbered
<1>9. Submitted' = Submitted
  BY <1>1 DEF Submitted
<1>10. LogIsHistory'
  BY <1>4, <1>9 DEF CoreInv, LogIsHistory
<1>11. Latest' = Latest
  BY <1>1 DEF Latest
<1>12. LogMeetsSnapshot'
  <2>1. Len(wal') > 0 => wal'[1] = wal[1] /\ Len(wal) > 0
    BY <1>3, <1>4
  <2>2. QED
    BY <1>11, <2>1 DEF CoreInv, LogMeetsSnapshot
<1>13. ReadEnd(wal') = e
  <2>1. \A i \in 1..Len(wal') : wal'[i].st = "ok" \/ (i = Len(wal') /\ wal'[i].st = "torn")
    BY <1>4, <1>5
  <2>2. ~(Len(wal') > 0 /\ wal'[Len(wal')].st = "torn")
    BY <1>3, <1>4, <1>5
  <2>3. QED
    BY <1>4, <2>1, <2>2, CleanEnd
<1>14. DeadReaches'
  <2>1. MaxLoss' = MaxLoss
    BY DEF MaxLoss
  <2>2. e # 0 => wal'[e] = wal[e]
    BY <1>3, <1>4
  <2>3. QED
    BY <1>1, <1>3, <1>11, <1>13, <2>1, <2>2 DEF CoreInv, DeadReaches
<1>15. SnapshotsFaithful' /\ NewestExists' /\ RunningAligned' /\ RunningDurable'
  BY <1>1 DEF CoreInv, SnapshotsFaithful, NewestExists, RunningAligned, RunningDurable
<1>16. QED
  BY <1>1, <1>6, <1>7, <1>8, <1>9, <1>10, <1>12, <1>14, <1>15 DEF CoreInv

\* What a restart brings back: a prefix of what was submitted, the whole of the log.
LEMMA StartEffect ==
  ASSUME Disciplined, CoreInv, Start
  PROVE  /\ ~up /\ up' /\ ReadEnd(wal) = Len(wal) /\ Len(wal) \in Nat
         /\ Submitted \in Seq(Commands)
         /\ Latest \in Nat /\ Latest <= SeqAt(wal, Len(wal))
         /\ SeqAt(wal, Len(wal)) \in 0..Len(Submitted)
         /\ applied' = SubSeq(Submitted, 1, SeqAt(wal, Len(wal)))
         /\ lastSeq' = SeqAt(wal, Len(wal)) /\ nextSeq' = SeqAt(wal, Len(wal)) + 1
<1>1. /\ ~up /\ up' /\ ScanEnd(wal) = Len(wal)
      /\ Latest <= SeqAt(wal, ReadEnd(wal))
      /\ Open /\ applied' = RecoverFrom(wal)
      /\ lastSeq' = IF SeqAt(wal, ReadEnd(wal)) > Latest
                    THEN SeqAt(wal, ReadEnd(wal)) ELSE Latest
  BY DEF Start, Disciplined
<1>2. TypeOK /\ wal \in Seq(Record) /\ Len(wal) \in Nat
  BY DEF CoreInv, TypeOK, JournalTypeOK
<1>3. ReadEnd(wal) = Len(wal) /\ Submitted \in Seq(Commands) /\ Agrees(wal, Submitted)
  BY <1>1, DeadLog
<1>4. DOMAIN snaps \subseteq Nat /\ NewestExists /\ Latest \in Nat
  BY <1>2, LatestProperties DEF CoreInv, TypeOK
<1>5. \A k \in DOMAIN snaps : k <= Len(Submitted) /\ snaps[k] = SubSeq(Submitted, 1, k)
  <2>1. TAKE k \in DOMAIN snaps
  <2>2. k \in Nat /\ k <= Len(applied) /\ snaps[k] = SubSeq(applied, 1, k)
    BY <1>4 DEF CoreInv, SnapshotsFaithful
  <2>3. /\ applied \in Seq(Commands) /\ inflight \in Seq(Commands)
        /\ Len(applied) \in Nat /\ Len(inflight) \in Nat
    BY <1>2 DEF TypeOK
  <2>4. Len(Submitted) = Len(applied) + Len(inflight)
        /\ \A i \in 1..Len(applied) : Submitted[i] = applied[i]
    BY <2>3 DEF Submitted
  <2>5. SubSeq(Submitted, 1, k) = SubSeq(applied, 1, k)
    BY <1>3, <2>2, <2>3, <2>4
  <2>6. QED
    BY <2>2, <2>3, <2>4, <2>5
<1>6. ReadEnd(wal) > 0 => wal[1].seq <= Latest + 1
  <2>1. ReadEnd(wal) > 0 => Len(wal) > 0 /\ wal[1].st = "ok"
    <3>1. ASSUME ReadEnd(wal) > 0
          PROVE  Len(wal) > 0 /\ wal[1].st = "ok"
      <4>1. Len(wal) > 0 /\ 1 \in 1..Len(wal)
        BY <1>2, <1>3, <3>1
      <4>2. ~(wal[Len(wal)].st = "torn")
        BY <1>1, <1>2, <1>3, <4>1, DeadLog
      <4>3. QED
        BY <4>1, <4>2 DEF CoreInv, LogClean
    <3>2. QED
      BY <3>1
  <2>2. QED
    BY <2>1 DEF CoreInv, LogMeetsSnapshot
<1>7. Reach(wal) \in 0..Len(Submitted) /\ RecoverFrom(wal) = SubSeq(Submitted, 1, Reach(wal))
  BY <1>2, <1>3, <1>4, <1>5, <1>6, RecoveryExact
<1>8. SeqAt(wal, Len(wal)) \in Nat
  <2>1. Len(wal) > 0 => wal[Len(wal)].seq \in Nat
    BY <1>2, LogTyped
  <2>2. QED
    BY <1>2, <2>1 DEF SeqAt
<1>9. Reach(wal) = SeqAt(wal, Len(wal)) /\ lastSeq' = SeqAt(wal, Len(wal))
  BY <1>1, <1>3, <1>4, <1>8 DEF Reach
<1>10. nextSeq' = SeqAt(wal, Len(wal)) + 1
  BY <1>1 DEF Open
<1>11. QED
  BY <1>1, <1>2, <1>3, <1>4, <1>7, <1>9, <1>10

\* build_engine
LEMMA StartStep ==
  ASSUME Disciplined, CoreInv, Start
  PROVE  CoreInv'
<1>1. PICK n \in Nat : n = SeqAt(wal, Len(wal))
  BY StartEffect
<1>2. /\ ~up /\ up' = TRUE /\ ReadEnd(wal) = Len(wal) /\ Len(wal) \in Nat
      /\ Submitted \in Seq(Commands) /\ Len(Submitted) \in Nat
      /\ Latest \in Nat /\ Latest <= n /\ n <= Len(Submitted)
      /\ applied' = SubSeq(Submitted, 1, n) /\ lastSeq' = n /\ nextSeq' = n + 1
  BY <1>1, StartEffect DEF Start
<1>3. /\ wal' = wal /\ snaps' = snaps /\ halted' = "no" /\ inflight' = <<>>
      /\ osLen' = Len(wal) /\ diskLen' = Len(wal) /\ sinceSync' = 0 /\ sink' \in BOOLEAN
  BY DEF Start, Open, Disciplined
<1>4. TypeOK /\ wal \in Seq(Record) /\ DOMAIN snaps \subseteq Nat
      /\ Len(Submitted) <= MaxCommands /\ MaxCommands \in Nat
  BY EnvironmentAssumption DEF CoreInv, TypeOK, JournalTypeOK
<1>5. /\ applied' \in Seq(Commands) /\ Len(applied') = n
      /\ \A i \in 1..n : applied'[i] = Submitted[i]
  BY <1>2
<1>6. Submitted' = applied'
  BY <1>3, <1>5 DEF Submitted
<1>7. \A i \in 1..Len(wal) : /\ wal[i].seq = wal[1].seq + (i - 1)
                              /\ wal[i].seq \in 1..Len(Submitted)
                              /\ wal[i].cmd = Submitted[wal[i].seq]
  BY <1>2, DeadLog DEF Agrees
<1>8. \A i \in 1..Len(wal) : wal[i].st = "ok"
  <2>1. ~(Len(wal) > 0 /\ wal[Len(wal)].st = "torn")
    BY <1>2, DeadLog
  <2>2. QED
    BY <1>2, <2>1 DEF CoreInv, LogClean
<1>9. \A i \in 1..Len(wal) : wal[i].seq <= n
  <2>1. TAKE i \in 1..Len(wal)
  <2>2. i \in Nat /\ i <= Len(wal) /\ 1 \in 1..Len(wal) /\ Len(wal) \in 1..Len(wal)
        /\ Len(wal) # 0
    BY <1>2
  <2>3. PICK a \in Nat : a = wal[1].seq
    BY <1>4, <2>2, LogTyped
  <2>4. wal[i].seq = a + (i - 1) /\ wal[Len(wal)].seq = a + (Len(wal) - 1)
    BY <1>7, <2>2, <2>3
  <2>5. n = wal[Len(wal)].seq
    BY <1>1, <2>2 DEF SeqAt
  <2>6. QED
    BY <1>2, <2>2, <2>4, <2>5
<1>10. TypeOK'
  BY <1>2, <1>3, <1>4, <1>5 DEF TypeOK, JournalTypeOK
<1>11. SnapshotsFaithful' /\ NewestExists'
  <2>1. ASSUME NEW k \in DOMAIN snaps
        PROVE  k <= Len(applied') /\ snaps[k] = SubSeq(applied', 1, k)
    <3>1. k \in Nat /\ k <= n
      BY <1>2, <1>4, <2>1, LatestProperties DEF CoreInv
    <3>2. /\ k <= Len(applied) /\ snaps[k] = SubSeq(applied, 1, k)
          /\ applied \in Seq(Commands) /\ inflight \in Seq(Commands)
          /\ Len(applied) \in Nat
      BY <1>4 DEF CoreInv, SnapshotsFaithful, TypeOK
    <3>3. \A i \in 1..Len(applied) : Submitted[i] = applied[i]
      BY <3>2 DEF Submitted
    <3>4. SubSeq(applied', 1, k) = SubSeq(applied, 1, k)
      BY <1>2, <1>5, <3>1, <3>2, <3>3
    <3>5. QED
      BY <1>5, <3>1, <3>2, <3>4
  <2>2. QED
    BY <1>3, <2>1 DEF CoreInv, SnapshotsFaithful, NewestExists
<1>12. LogClean'
  BY <1>3, <1>8 DEF LogClean
<1>13. LogNumbered'
  BY <1>3 DEF CoreInv, LogNumbered
<1>14. LogIsHistory'
  <2>1. ASSUME NEW i \in 1..Len(wal)
        PROVE  wal[i].seq <= Len(applied') /\ wal[i].cmd = applied'[wal[i].seq]
    <3>1. wal[i].seq \in 1..n
      BY <1>7, <1>9, <1>2
    <3>2. QED
      BY <1>5, <1>7, <1>9, <3>1
  <2>2. QED
    BY <1>3, <1>6, <2>1 DEF LogIsHistory
<1>15. LogMeetsSnapshot'
  BY <1>3 DEF CoreInv, LogMeetsSnapshot, Latest
<1>16. RunningAligned'
  <2>1. Latest' = Latest
    BY <1>3 DEF Latest
  <2>2. CASE Len(wal) > 0
    <3>1. wal[Len(wal)].seq = n
      BY <1>1, <2>2 DEF SeqAt
    <3>2. QED
      BY <1>2, <1>3, <1>5, <2>2, <3>1 DEF RunningAligned
  <2>3. CASE Len(wal) = 0
    <3>1. n = 0 /\ Latest = n
      BY <1>1, <1>2, <2>3 DEF SeqAt
    <3>2. ~(Len(wal') > 0)
      BY <1>3, <2>3
    <3>3. QED
      BY <1>2, <1>3, <1>5, <2>1, <3>1, <3>2 DEF RunningAligned
  <2>4. QED
    BY <1>2, <2>2, <2>3
<1>17. RunningDurable'
  BY <1>3, <1>4, JustSynced
<1>18. DeadReaches'
  BY <1>2 DEF DeadReaches
<1>19. Len(Submitted)' <= MaxCommands
  BY <1>2, <1>4, <1>5, <1>6
<1>20. QED
  BY <1>3, <1>10, <1>11, <1>12, <1>13, <1>14, <1>15, <1>16, <1>17, <1>18, <1>19 DEF CoreInv

LEMMA InitStep ==
  ASSUME Init
  PROVE  CoreInv
<1>1. /\ wal = <<>> /\ osLen = 0 /\ diskLen = 0 /\ nextSeq = 1 /\ sinceSync = 0
      /\ up = TRUE /\ halted = "no" /\ applied = <<>> /\ inflight = <<>> /\ lastSeq = 0
      /\ sink = TRUE /\ snaps = [k \in {} |-> <<>>] /\ DOMAIN snaps = {}
  BY DEF Init, JournalInit
<1>2. TypeOK
  BY <1>1 DEF TypeOK, JournalTypeOK
<1>3. Latest = 0
  BY <1>1, <1>2, LatestProperties DEF NewestExists, TypeOK
<1>4. Submitted = <<>> /\ Len(wal) = 0 /\ Len(applied) = 0 /\ Len(Submitted) = 0
  BY <1>1 DEF Submitted
<1>5. SnapshotsFaithful /\ NewestExists
  BY <1>1 DEF SnapshotsFaithful, NewestExists
<1>6. LogClean /\ LogNumbered /\ LogIsHistory /\ LogMeetsSnapshot
  BY <1>1, <1>4 DEF LogClean, LogNumbered, LogIsHistory, LogMeetsSnapshot
<1>7. RunningAligned
  BY <1>1, <1>3, <1>4 DEF RunningAligned
<1>8. MaxLoss \in Nat
  BY PolicyAssumption, EnvironmentAssumption DEF MaxLoss
<1>9. RunningDurable /\ DeadReaches
  BY <1>1, <1>4, <1>8 DEF RunningDurable, DeadReaches
<1>10. QED
  BY <1>1, <1>2, <1>4, <1>5, <1>6, <1>7, <1>9, EnvironmentAssumption DEF CoreInv

LEMMA StutterStep ==
  ASSUME CoreInv, UNCHANGED vars
  PROVE  CoreInv'
<1>1. UNCHANGED <<wal, osLen, diskLen, nextSeq, sinceSync>>
      /\ UNCHANGED <<up, halted, applied, inflight, lastSeq, sink, snaps>>
  BY DEF vars, journalVars, coreVars
<1>2. TypeOK' /\ SnapshotsFaithful' /\ NewestExists'
  BY <1>1 DEF CoreInv, TypeOK, JournalTypeOK, SnapshotsFaithful, NewestExists
<1>3. LogClean' /\ LogNumbered' /\ LogIsHistory' /\ LogMeetsSnapshot'
  BY <1>1 DEF CoreInv, LogClean, LogNumbered, LogIsHistory, LogMeetsSnapshot, Latest,
              Submitted
<1>4. RunningAligned' /\ RunningDurable' /\ DeadReaches'
  BY <1>1 DEF CoreInv, RunningAligned, RunningDurable, DeadReaches, Latest, MaxLoss,
              ReadEnd
<1>5. Len(Submitted)' <= MaxCommands
  BY <1>1 DEF CoreInv, Submitted
<1>6. QED
  BY <1>1, <1>2, <1>3, <1>4, <1>5 DEF CoreInv

\* A disciplined journal does not fail a write.
LEMMA NoUnloggedSubmission ==
  ASSUME Disciplined, NEW c, SubmitUnlogged(c)
  PROVE  FALSE
BY DEF Disciplined, SubmitUnlogged

LEMMA NextStep ==
  ASSUME Disciplined, CoreInv, [Next]_vars
  PROVE  CoreInv'
<1>1. CASE \E c \in Commands : Submit(c)
  BY <1>1, SubmitStep
<1>2. CASE \E c \in Commands : SubmitUnlogged(c)
  BY <1>2, NoUnloggedSubmission
<1>3. CASE SyncJournal \/ TakeSnapshot \/ RequestSnapshot \/ CompactJournal \/ Checkpoint
  BY <1>3, MaintenanceOps
<1>4. CASE Shutdown
  BY <1>4, ShutdownStep
<1>5. CASE \/ \E kind \in Failures : Crash(kind)
           \/ \E kind \in Failures, c \in Commands : CrashInSubmit(kind, c)
  BY <1>5, CrashStep
<1>6. CASE Drop
  BY <1>6, DropStep
<1>7. CASE Truncate
  BY <1>7, TruncateStep
<1>8. CASE Start
  BY <1>8, StartStep
<1>9. CASE UNCHANGED vars
  BY <1>9, StutterStep
<1>10. QED
  BY <1>1, <1>2, <1>3, <1>4, <1>5, <1>6, <1>7, <1>8, <1>9 DEF Next

-----------------------------------------------------------------------------
(* Theorems *)

\* In a disciplined environment (the journal's writes succeed, crashes tear at
\* most the last record, a torn tail is truncated before the restart and the log
\* reaches the newest snapshot) every reachable state satisfies the inductive
\* invariant.
THEOREM InvariantHolds == Disciplined => (Spec => []CoreInv)
<1> SUFFICES ASSUME Disciplined
             PROVE  Spec => []CoreInv
  OBVIOUS
<1>1. Init => CoreInv
  BY InitStep
<1>2. CoreInv /\ [Next]_vars => CoreInv'
  BY NextStep
<1>3. QED
  BY <1>1, <1>2, PTL DEF Spec

\* Type correctness.
THEOREM TypeCorrect == Disciplined => (Spec => []TypeOK)
<1>1. CoreInv => TypeOK
  BY DEF CoreInv
<1>2. QED
  BY <1>1, InvariantHolds, PTL

\* A snapshot file numbered k always holds the effect of exactly the first k
\* commands of the history, whatever crashes, restarts, checkpoints and shutdowns
\* have happened: save_snapshot is always given the number of the last command.
THEOREM SnapshotsAreFaithful == Disciplined => (Spec => []SnapshotsFaithful)
<1>1. CoreInv => SnapshotsFaithful
  BY DEF CoreInv
<1>2. QED
  BY <1>1, InvariantHolds, PTL

\* The journal's numbering follows last_seq, across compaction and restarts.
THEOREM NumberingIsAligned == Disciplined => (Spec => []NumberingAligned)
<1>1. CoreInv => NumberingAligned
  BY DEF CoreInv, RunningAligned, NumberingAligned
<1>2. QED
  BY <1>1, InvariantHolds, PTL

LEMMA CoveredByInvariant ==
  ASSUME CoreInv
  PROVE  HistoryCovered
<1> SUFFICES ASSUME up, NEW i \in 1..Len(applied)
             PROVE  \/ i <= Latest
                    \/ \E j \in 1..ReadEnd(wal) : wal[j].seq = i /\ wal[j].cmd = applied[i]
  BY DEF HistoryCovered
<1>1. /\ Latest \in Nat /\ ReadEnd(wal) = Len(wal) /\ Len(wal) \in Nat
      /\ Len(applied) \in Nat /\ i \in Nat
  BY RunningNumbers, RunningLog DEF CoreInv, TypeOK, JournalTypeOK
<1>2. PICK b \in Nat : /\ b > 0 /\ b + Len(wal) = Len(applied) + 1 /\ b <= Latest + 1
                        /\ \A j \in 1..Len(wal) : wal[j].seq = b + (j - 1)
  BY RunningNumbers
<1>3. CASE i > Latest
  <2>1. PICK j \in 1..Len(wal) : b + (j - 1) = i
    <3>1. i - b + 1 \in 1..Len(wal) /\ b + ((i - b + 1) - 1) = i
      BY <1>1, <1>2, <1>3
    <3>2. QED
      BY <3>1
  <2>2. wal[j].seq = i /\ wal[j].cmd = applied[wal[j].seq]
    BY <1>1, <1>2, <2>1, RunningLog DEF Agrees
  <2>3. QED
    BY <1>1, <2>1, <2>2
<1>4. QED
  BY <1>1, <1>3

\* Nothing a running core has executed is ever out of reach of both the newest
\* snapshot and the log.
THEOREM HistoryIsCovered == Disciplined => (Spec => []HistoryCovered)
<1>1. CoreInv => HistoryCovered
  BY CoveredByInvariant
<1>2. QED
  BY <1>1, InvariantHolds, PTL

\* Snapshots and log of a running core give back what it has executed.
LEMMA RunningRecovers ==
  ASSUME CoreInv, up
  PROVE  RecoverFrom(wal) = applied
<1>1. /\ TypeOK /\ wal \in Seq(Record) /\ Len(wal) \in Nat
      /\ applied \in Seq(Commands) /\ Len(applied) \in Nat
      /\ DOMAIN snaps \subseteq Nat /\ NewestExists
  BY DEF CoreInv, TypeOK, JournalTypeOK
<1>3. ReadEnd(wal) = Len(wal) /\ Agrees(wal, applied)
  BY RunningLog
<1>4. PICK b \in Nat : /\ b > 0 /\ b + Len(wal) = Len(applied) + 1 /\ b <= Latest + 1
                        /\ \A j \in 1..Len(wal) : wal[j].seq = b + (j - 1)
  BY RunningNumbers
<1>5. Len(wal) > 0 => wal[1].seq = b /\ wal[Len(wal)].seq = Len(applied)
  BY <1>1, <1>4
<1>6. Latest \in Nat /\ Latest <= Len(applied)
  <2>1. Latest \in Nat
    BY RunningNumbers
  <2>2. CASE DOMAIN snaps = {}
    <3>1. Latest = 0
      BY <1>1, <2>2, LatestProperties
    <3>2. QED
      BY <1>1, <3>1
  <2>3. CASE DOMAIN snaps # {}
    BY <1>1, <2>1, <2>3, LatestProperties DEF CoreInv, SnapshotsFaithful
  <2>4. QED
    BY <2>1, <2>2, <2>3
<1>7. RecoverFrom(wal) = SubSeq(applied, 1, Reach(wal))
  <2>1. \A k \in DOMAIN snaps : k <= Len(applied) /\ snaps[k] = SubSeq(applied, 1, k)
    BY DEF CoreInv, SnapshotsFaithful
  <2>2. ReadEnd(wal) > 0 => wal[1].seq <= Latest + 1
    BY <1>3, <1>4, <1>5
  <2>3. QED
    BY <1>1, <1>3, <2>1, <2>2, RecoveryExact
<1>8. Reach(wal) = Len(applied)
  <2>1. CASE Len(wal) > 0
    BY <1>1, <1>3, <1>5, <1>6, <2>1 DEF Reach, SeqAt
  <2>2. CASE Len(wal) = 0
    <3>1. SeqAt(wal, ReadEnd(wal)) = 0 /\ Latest = Len(applied)
      BY <1>3, <2>2 DEF SeqAt, CoreInv, RunningAligned
    <3>2. QED
      BY <1>1, <3>1 DEF Reach
  <2>3. QED
    BY <1>1, <2>1, <2>2
<1>9. SubSeq(applied, 1, Len(applied)) = applied
  BY <1>1, SubSeqFull
<1>10. QED
  BY <1>7, <1>8, <1>9

LEMMA RecoverableByInvariant ==
  ASSUME CoreInv
  PROVE  StoppedIsRecoverable
<1> SUFFICES ASSUME up, halted = "ok"
             PROVE  RecoverFrom(SubSeq(wal, 1, diskLen)) = applied
  BY DEF StoppedIsRecoverable
<1>1. wal \in Seq(Record) /\ diskLen = Len(wal)
  BY DEF CoreInv, TypeOK, JournalTypeOK, RunningDurable
<1>2. SubSeq(wal, 1, diskLen) = wal
  BY <1>1, SubSeqFull
<1>3. QED
  BY <1>2, RunningRecovers

\* After shutdown() has returned Ok, no failure of process or machine can take
\* anything away.
THEOREM StoppedCoreIsRecoverable == Disciplined => (Spec => []StoppedIsRecoverable)
<1>1. CoreInv => StoppedIsRecoverable
  BY RecoverableByInvariant
<1>2. QED
  BY <1>1, InvariantHolds, PTL

\* Every step of the engine is a step of the durable history, or changes nothing
\* of it.
LEMMA StepImplements ==
  ASSUME Disciplined, CoreInv, [Next]_vars
  PROVE  [History!Next]_(History!vars)
<1> USE DEF History!vars
<1>1. CASE \E c \in Commands : Submit(c)
  <2>1. PICK c \in Commands : Submit(c)
    BY <1>1
  <2>2. History!Apply(c)
    BY <2>1 DEF Submit, Serving, History!Apply
  <2>3. QED
    BY <2>2 DEF History!Next
<1>2. CASE \E c \in Commands : SubmitUnlogged(c)
  BY <1>2, NoUnloggedSubmission
<1>3. CASE SyncJournal \/ TakeSnapshot \/ RequestSnapshot \/ CompactJournal \/ Checkpoint
  BY <1>3 DEF SyncJournal, TakeSnapshot, RequestSnapshot, CompactJournal, Checkpoint,
              coreVars
<1>4. CASE Shutdown
  <2>1. CASE halted = "no"
    <3>1. History!Shutdown
      BY <1>4, <2>1 DEF Shutdown, Disciplined, History!Shutdown
    <3>2. QED
      BY <3>1 DEF History!Next
  <2>2. CASE halted # "no"
    BY <1>4, <2>2 DEF Shutdown
  <2>3. QED
    BY <2>1, <2>2
<1>5. CASE (\E kind \in Failures : Crash(kind)) \/ Drop
  <2>1. up /\ up' = FALSE /\ UNCHANGED <<halted, applied>> /\ inflight' = <<>>
    BY <1>5 DEF Crash, Drop, CoreInv, RunningAligned
  <2>2. History!Die
    BY <2>1 DEF History!Die
  <2>3. QED
    BY <2>2 DEF History!Next
<1>6. CASE \E kind \in Failures, c \in Commands : CrashInSubmit(kind, c)
  <2>1. PICK kind \in Failures, c \in Commands : CrashInSubmit(kind, c)
    BY <1>6
  <2>2. /\ up /\ up' = FALSE /\ halted = "no" /\ UNCHANGED <<halted, applied>>
        /\ inflight' = <<c>>
    BY <2>1 DEF CrashInSubmit, Serving
  <2>3. History!Die
    BY <2>2 DEF History!Die
  <2>4. QED
    BY <2>3 DEF History!Next
<1>7. CASE Truncate
  BY <1>7 DEF Truncate, coreVars
<1>8. CASE Start
  <2>1. PICK n \in 0..Len(Submitted) : n = SeqAt(wal, Len(wal))
    BY <1>8, StartEffect
  <2>2. /\ ~up /\ up' /\ halted' = "no" /\ inflight' = <<>>
        /\ applied' = SubSeq(applied \o inflight, 1, n)
    BY <1>8, <2>1, StartEffect DEF Start, Submitted
  <2>3. n + (IF halted = "ok" THEN 0 ELSE MaxLoss) >= Len(applied)
    <3>1. ReadEnd(wal) = Len(wal) /\ Len(wal) \in Nat /\ Latest \in Nat /\ Latest <= n
      BY <1>8, <2>1, StartEffect
    <3>2. PICK reach \in Nat : reach = IF ReadEnd(wal) = 0 THEN Latest ELSE wal[ReadEnd(wal)].seq
      BY <2>1, <3>1 DEF SeqAt
    <3>3. reach <= n
      BY <2>1, <3>1, <3>2 DEF SeqAt
    <3>4. PICK m \in Nat : m = IF halted = "ok" THEN 0 ELSE MaxLoss
      BY PolicyAssumption, EnvironmentAssumption DEF MaxLoss
    <3>5. reach + m >= Len(applied)
      BY <2>2, <3>2, <3>4 DEF CoreInv, DeadReaches
    <3>6. Len(applied) \in Nat
      BY DEF CoreInv, TypeOK
    <3>7. QED
      BY <3>3, <3>4, <3>5, <3>6
  <2>4. halted \in {"no", "ok"}
    BY DEF CoreInv, TypeOK
  <2>5. History!Restart(n)
    BY <2>2, <2>3, <2>4 DEF History!Restart
  <2>6. QED
    BY <2>1, <2>5 DEF History!Next, Submitted
<1>9. CASE UNCHANGED vars
  BY <1>9 DEF vars, coreVars
<1>10. QED
  BY <1>1, <1>2, <1>3, <1>4, <1>5, <1>6, <1>7, <1>8, <1>9 DEF Next

\* The engine over journal and snapshots implements the durable history: what a
\* restart brings back is the executed commands in order, each once, short of at
\* most MaxLoss of the last ones, and complete after an orderly shutdown.
THEOREM EngineIsDurable == Disciplined => (Spec => ImplementsDurableHistory)
<1> SUFFICES ASSUME Disciplined
             PROVE  Spec => ImplementsDurableHistory
  OBVIOUS
<1>1. Init => History!Init
  BY DEF Init, History!Init
<1>2. CoreInv /\ [Next]_vars => [History!Next]_(History!vars)
  BY StepImplements
<1>3. Spec => []CoreInv
  BY InvariantHolds
<1>4. QED
  BY <1>1, <1>2, <1>3, PTL DEF Spec, ImplementsDurableHistory, History!Spec
=============================================================================
