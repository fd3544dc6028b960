---------------------------- MODULE AsyncCoreProofs ----------------------------
(***************************************************************************)
(* Proofs about AsyncCore, for every ring size, every set of commands that   *)
(* may panic, every sync policy and every bound.                            *)
(*                                                                          *)
(* Nothing about journal, snapshots, crashes and recovery is proved a second *)
(* time.  The lemmas of ExchangeCoreProofs are used through the instance     *)
(* Core, which takes what was accepted for what was executed: each action of *)
(* AsyncCore is an operation of that core, or leaves it as it is.            *)
(***************************************************************************)
EXTENDS AsyncCore, TLAPS, SequenceTheorems

Core == INSTANCE ExchangeCoreProofs WITH applied <- accepted, halted <- Reported

\* The invariant of AsyncCore speaks of the instance AsIfExecuted; the lemmas are
\* about the instance Core of the same module.
LEMMA SameInvariant == AsIfExecuted!CoreInv <=> Core!CoreInv
<1>1. AsIfExecuted!TypeOK <=> Core!TypeOK
  BY DEF AsIfExecuted!TypeOK, Core!TypeOK, AsIfExecuted!JournalTypeOK, Core!JournalTypeOK,
         AsIfExecuted!Record, Core!Record, AsIfExecuted!Status, Core!Status
<1>2. AsIfExecuted!MaxLoss = Core!MaxLoss
  BY DEF AsIfExecuted!MaxLoss, Core!MaxLoss
<1>3. AsIfExecuted!Latest = Core!Latest
  BY DEF AsIfExecuted!Latest, Core!Latest, AsIfExecuted!Newest, Core!Newest
<1>4. AsIfExecuted!ReadEnd(wal) = Core!ReadEnd(wal)
  BY DEF AsIfExecuted!ReadEnd, Core!ReadEnd, AsIfExecuted!Leading, Core!Leading
<1>5. AsIfExecuted!Submitted = Core!Submitted
  BY DEF AsIfExecuted!Submitted, Core!Submitted
<1>6. QED
  BY <1>1, <1>2, <1>3, <1>4, <1>5
     DEF AsIfExecuted!CoreInv, Core!CoreInv,
         AsIfExecuted!SnapshotsFaithful, Core!SnapshotsFaithful,
         AsIfExecuted!NewestExists, Core!NewestExists,
         AsIfExecuted!LogClean, Core!LogClean,
         AsIfExecuted!LogNumbered, Core!LogNumbered,
         AsIfExecuted!LogIsHistory, Core!LogIsHistory,
         AsIfExecuted!LogMeetsSnapshot, Core!LogMeetsSnapshot,
         AsIfExecuted!RunningAligned, Core!RunningAligned,
         AsIfExecuted!RunningDurable, Core!RunningDurable,
         AsIfExecuted!DeadReaches, Core!DeadReaches

\* The state that both cores share is typed by the invariant of the one.
LEMMA Typing ==
  Core!CoreInv /\ applied \in Seq(Commands) /\ halted \in {"no", "ok", "err"} => TypeOK
BY DEF Core!CoreInv, Core!TypeOK, TypeOK, Core!JournalTypeOK, JournalTypeOK,
       Core!Record, Record, Core!Status, Status

-----------------------------------------------------------------------------
(* What the actions are to a core that executes at once *)

LEMMA SameSync == Sync <=> Core!Sync
BY DEF Sync, Core!Sync

LEMMA SameReading ==
  ASSUME NEW f, NEW n, NEW k
  PROVE  /\ ScanEnd(f) = Core!ScanEnd(f) /\ ReadEnd(f) = Core!ReadEnd(f)
         /\ SeqAt(f, n) = Core!SeqAt(f, n) /\ Covered(f, n, k) = Core!Covered(f, n, k)
         /\ ReadAfter(f, k) = Core!ReadAfter(f, k)
         /\ Latest = Core!Latest /\ MaxLoss = Core!MaxLoss
         /\ RecoverFrom(f) = Core!RecoverFrom(f)
<1>1. \A S : Leading(n, S) = Core!Leading(n, S)
  BY DEF Leading, Core!Leading
<1>2. \A S : Leading(Len(f), S) = Core!Leading(Len(f), S)
  BY DEF Leading, Core!Leading
<1>3. ScanEnd(f) = Core!ScanEnd(f) /\ ReadEnd(f) = Core!ReadEnd(f)
  BY <1>2 DEF ScanEnd, Core!ScanEnd, ReadEnd, Core!ReadEnd
<1>4. SeqAt(f, n) = Core!SeqAt(f, n)
  BY DEF SeqAt, Core!SeqAt
<1>5. \A m, j : Covered(f, m, j) = Core!Covered(f, m, j)
  BY DEF Covered, Core!Covered, Leading, Core!Leading
<1>6. \A j : ReadAfter(f, j) = Core!ReadAfter(f, j)
  BY <1>3, <1>5 DEF ReadAfter, Core!ReadAfter
<1>7. Latest = Core!Latest
  BY DEF Latest, Core!Latest, Newest, Core!Newest
<1>8. RecoverFrom(f) = Core!RecoverFrom(f)
  BY <1>6, <1>7 DEF RecoverFrom, Core!RecoverFrom
<1>9. MaxLoss = Core!MaxLoss
  BY DEF MaxLoss, Core!MaxLoss
<1>10. QED
  BY <1>3, <1>4, <1>5, <1>6, <1>7, <1>8, <1>9

LEMMA SameCompaction ==
  ASSUME NEW k
  PROVE  CompactBefore(k) <=> Core!CompactBefore(k)
<1>1. ScanEnd(wal) = Core!ScanEnd(wal)
      /\ Covered(wal, ScanEnd(wal), k) = Core!Covered(wal, ScanEnd(wal), k)
  BY SameReading
<1>2. QED
  BY <1>1, SameSync DEF CompactBefore, Core!CompactBefore

LEMMA SubmitAsyncIs ==
  ASSUME Disciplined, AsyncInv, NEW c \in Commands, SubmitAsync(c)
  PROVE  Core!Submit(c)
<1>1. WriteCommand(c) /\ lastSeq' = nextSeq /\ accepted' = Append(accepted, c)
  BY DEF SubmitAsync, Disciplined
<1>2. Core!WriteCommand(c)
  BY <1>1 DEF WriteCommand, Core!WriteCommand, ShouldSync, Core!ShouldSync,
              Buffered, Core!Buffered
<1>3. Core!Serving
  BY DEF SubmitAsync, Admits, Core!Serving, Reported
<1>4. UNCHANGED <<up, halted, inflight, sink, snaps>> /\ Reported' = Reported
  BY DEF SubmitAsync, Reported
<1>5. QED
  BY <1>1, <1>2, <1>3, <1>4 DEF Core!Submit

LEMMA CompactAsyncIs ==
  ASSUME CompactAsync
  PROVE  Core!CompactJournal
<1>1. /\ up /\ DOMAIN snaps # {} /\ CompactBefore(Latest)
      /\ UNCHANGED <<up, halted, inflight, lastSeq, sink, snaps, accepted>>
  BY DEF CompactAsync, CompactJournal, coreVars, asyncVars
<1>2. Latest = Core!Latest
  BY SameReading
<1>3. QED
  BY <1>1, <1>2, SameCompaction DEF Core!CompactJournal, Core!coreVars, Reported

\* Before the pipeline is handed over everything accepted has been executed.
LEMMA BeforeStartup ==
  ASSUME AsyncInv, ~started
  PROVE  applied = accepted /\ Pending = <<>> /\ ~poisoned /\ halted = "no"
<1>1. ring = <<>> /\ owner = "free" /\ ~poisoned /\ halted = "no" /\ Len(entry) = 0
  BY DEF AsyncInv, OwnerInPlace
<1>2. Pending = <<>>
  BY <1>1 DEF Pending, AsyncInv, AsyncTypeOK
<1>3. Len(applied) = Len(accepted)
  BY <1>1, <1>2 DEF AsyncInv, ConsumerIsNext
<1>4. accepted \in Seq(Commands)
  BY DEF AsyncInv, AsyncTypeOK
<1>5. SubSeq(accepted, 1, Len(accepted)) = accepted
  BY <1>4, SubSeqFull
<1>6. QED
  BY <1>1, <1>2, <1>3, <1>5 DEF AsyncInv, ExecutesInOrder

LEMMA SyncCheckpointIs ==
  ASSUME AsyncInv, SyncCheckpoint
  PROVE  Core!Checkpoint
<1>1. /\ up /\ snaps' = Saved(lastSeq, applied) /\ CompactBefore(Latest')
      /\ UNCHANGED <<up, halted, inflight, lastSeq, sink, accepted>>
  BY DEF SyncCheckpoint, Checkpoint, asyncVars
<1>2. applied = accepted
  BY BeforeStartup DEF SyncCheckpoint
<1>3. Saved(lastSeq, applied) = Core!Saved(lastSeq, accepted)
  BY <1>2 DEF Saved, Core!Saved
<1>4. Latest' = Core!Latest'
  BY DEF Latest, Core!Latest, Newest, Core!Newest
<1>5. Core!CompactBefore(Core!Latest')
  BY <1>1, <1>4, SameCompaction
<1>6. QED
  BY <1>1, <1>3, <1>5 DEF Core!Checkpoint, Reported

LEMMA CrashAsyncIs ==
  ASSUME CrashAsync
  PROVE  \E kind \in Failures : Core!Crash(kind)
<1>1. PICK kind \in Failures : Crash(kind)
  BY DEF CrashAsync
<1>2. \A f, k, damage : Survives(f, k, damage) <=> Core!Survives(f, k, damage)
  BY DEF Survives, Core!Survives
<1>3. UNCHANGED <<accepted, halted>> /\ Reported' = Reported
  BY <1>1 DEF CrashAsync, Crash, asyncVars, Reported
<1>4. Core!Crash(kind)
  BY <1>1, <1>2, <1>3 DEF Crash, Core!Crash
<1>5. QED
  BY <1>4

LEMMA CrashInSubmitAsyncIs ==
  ASSUME CrashInSubmitAsync
  PROVE  \E kind \in Failures, c \in Commands : Core!CrashInSubmit(kind, c)
<1>1. PICK kind \in Failures, c \in Commands : CrashInSubmit(kind, c)
  BY DEF CrashInSubmitAsync
<1>2. \A f, k, damage : Survives(f, k, damage) <=> Core!Survives(f, k, damage)
  BY DEF Survives, Core!Survives
<1>3. UNCHANGED <<accepted, halted>> /\ Reported' = Reported /\ Core!Serving
  BY <1>1 DEF CrashInSubmitAsync, CrashInSubmit, asyncVars, Admits, Core!Serving, Reported
<1>4. Core!CrashInSubmit(kind, c)
  BY <1>1, <1>2, <1>3 DEF CrashInSubmit, Core!CrashInSubmit
<1>5. QED
  BY <1>4

LEMMA EndDropIs ==
  ASSUME EndDrop
  PROVE  Core!Drop
BY DEF EndDrop, Drop, Core!Drop, asyncVars, Reported

LEMMA RepairIs ==
  ASSUME Repair
  PROVE  Core!Truncate
<1>1. ScanEnd(wal) = Core!ScanEnd(wal)
  BY SameReading
<1>2. QED
  BY <1>1 DEF Repair, Truncate, Core!Truncate, TruncateToLastValid,
              Core!TruncateToLastValid, coreVars, Core!coreVars, asyncVars, Reported

LEMMA RecoverIs ==
  ASSUME Recover
  PROVE  Core!Start
<1>1. /\ ScanEnd(wal) = Core!ScanEnd(wal) /\ ReadEnd(wal) = Core!ReadEnd(wal)
      /\ Latest = Core!Latest /\ RecoverFrom(wal) = Core!RecoverFrom(wal)
      /\ \A n : SeqAt(wal, n) = Core!SeqAt(wal, n)
  BY SameReading
<1>2. Start /\ accepted' = applied'
  BY DEF Recover
<1>3. Open <=> Core!Open
  BY <1>1 DEF Open, Core!Open
<1>4. accepted' = Core!RecoverFrom(wal) /\ Reported' = "no"
  BY <1>1, <1>2 DEF Start, Reported
<1>5. QED
  BY <1>1, <1>2, <1>3, <1>4 DEF Start, Core!Start

LEMMA DisciplinedToo == Disciplined => Core!Disciplined
BY DEF Disciplined, Core!Disciplined

-----------------------------------------------------------------------------
(* The invariant of the core that executes at once is preserved *)

LEMMA CoreTypes ==
  ASSUME Core!CoreInv
  PROVE  /\ wal \in Seq(Record) /\ Len(wal) \in Nat
         /\ osLen \in 0..Len(wal) /\ diskLen \in 0..osLen
         /\ nextSeq \in Nat /\ sinceSync \in Nat
         /\ up \in BOOLEAN /\ sink \in BOOLEAN /\ lastSeq \in Nat
         /\ inflight \in Seq(Commands)
         /\ accepted \in Seq(Commands) /\ Len(accepted) \in Nat
         /\ DOMAIN snaps \subseteq Nat
         /\ \A k \in DOMAIN snaps : snaps[k] \in Seq(Commands)
         /\ \A k \in DOMAIN snaps : k <= Len(accepted) /\ snaps[k] = SubSeq(accepted, 1, k)
BY DEF Core!CoreInv, Core!TypeOK, Core!JournalTypeOK, Core!Record, Record, Core!Status,
       Status, Core!SnapshotsFaithful

\* A running core has given its last command the number lastSeq.
LEMMA CoreRunning ==
  ASSUME Core!CoreInv, up
  PROVE  /\ inflight = <<>> /\ lastSeq = Len(accepted) /\ nextSeq = Len(accepted) + 1
BY DEF Core!CoreInv, Core!RunningAligned

\* Whatever happens to ring, consumer and the owner's place in a call.
LEMMA CoreUntouched ==
  ASSUME Core!CoreInv, UNCHANGED journalVars, Reported' = Reported,
         UNCHANGED <<up, inflight, lastSeq, sink, snaps, accepted>>
  PROVE  Core!CoreInv'
<1>1. UNCHANGED Core!vars
  BY DEF Core!vars, Core!journalVars, Core!coreVars, journalVars
<1>2. QED
  BY <1>1, Core!StutterStep, PolicyAssumption, EnvironmentAssumption

\* A snapshot of a prefix of the history is saved, the log is fsynced, the sink is
\* set: none of it disturbs a running core.
LEMMA CoreMaintained ==
  ASSUME Core!CoreInv, up, UNCHANGED <<up, inflight, nextSeq, lastSeq, accepted, wal>>,
         sink' \in BOOLEAN,
         \/ snaps' = snaps
         \/ \E k \in 0..Len(accepted) : snaps' = Saved(k, SubSeq(accepted, 1, k)),
         \/ Reported' = Reported /\ UNCHANGED <<osLen, diskLen, sinceSync>>
         \/ Sync
  PROVE  Core!CoreInv'
<1> USE PolicyAssumption, EnvironmentAssumption
<1>1. \/ snaps' = snaps
      \/ \E k \in 0..Len(accepted) : snaps' = Core!Saved(k, SubSeq(accepted, 1, k))
  BY DEF Saved, Core!Saved
<1>2. \E s \in 0..Len(wal) : /\ wal' = SubSeq(wal, s + 1, Len(wal))
                             /\ s > 0 => wal[s].seq <= Core!Latest'
  <2>1. wal = SubSeq(wal, 0 + 1, Len(wal)) /\ 0 \in 0..Len(wal)
    BY CoreTypes, SubSeqFull
  <2>2. QED
    BY <2>1
<1>3. wal \in Seq(Core!Record) /\ Core!TypeOK
  BY DEF Core!CoreInv, Core!TypeOK, Core!JournalTypeOK
<1>4. DOMAIN snaps' \subseteq Nat /\ \A k \in DOMAIN snaps' : snaps'[k] \in Seq(Commands)
  <2>1. CASE snaps' = snaps
    BY <2>1, CoreTypes
  <2>2. ASSUME NEW k \in 0..Len(accepted), snaps' = Core!Saved(k, SubSeq(accepted, 1, k))
        PROVE  DOMAIN snaps' \subseteq Nat /\ \A j \in DOMAIN snaps' : snaps'[j] \in Seq(Commands)
    <3>1. /\ DOMAIN snaps' = DOMAIN snaps \cup {k}
          /\ \A j \in DOMAIN snaps' : snaps'[j] \in Seq(Commands)
      BY <2>2, Core!SavedBelow
    <3>2. k \in Nat
      BY CoreTypes
    <3>3. QED
      BY <3>1, <3>2, CoreTypes
  <2>3. QED
    BY <1>1, <2>1, <2>2
<1>5. Reported' \in {"no", "ok"}
  BY DEF Reported
<1>6. Core!TypeOK' /\ Core!RunningDurable'
  <2>1. CASE Reported' = Reported /\ UNCHANGED <<osLen, diskLen, sinceSync>>
    <3>1. Core!TypeOK'
      BY <1>3, <1>4, <1>5, <2>1 DEF Core!TypeOK, Core!JournalTypeOK
    <3>2. Core!RunningDurable'
      BY <2>1 DEF Core!CoreInv, Core!RunningDurable, Core!MaxLoss
    <3>3. QED
      BY <3>1, <3>2
  <2>2. CASE Sync
    <3>1. osLen' = Len(wal') /\ diskLen' = Len(wal') /\ sinceSync' = 0
      BY <2>2 DEF Sync
    <3>2. Core!TypeOK'
      BY <1>3, <1>4, <1>5, <3>1, CoreTypes DEF Core!TypeOK, Core!JournalTypeOK
    <3>3. Core!RunningDurable'
      BY <1>3, <3>1, Core!JustSynced
    <3>4. QED
      BY <3>2, <3>3
  <2>3. QED
    BY <2>1, <2>2
<1>7. QED
  BY <1>1, <1>2, <1>5, <1>6, Core!MaintenanceStep

-----------------------------------------------------------------------------
(* The entries on their way and the place of the consumer *)

Order == ExecutesInOrder /\ PendingNumbered /\ ConsumerIsNext

LEMMA PendingTypes ==
  ASSUME AsyncTypeOK
  PROVE  /\ ring \in Seq(Entry) /\ entry \in Seq(Entry) /\ Pending \in Seq(Entry)
         /\ Len(ring) \in Nat /\ Len(entry) \in Nat /\ Len(Pending) = Len(ring) + Len(entry)
         /\ \A i \in 1..Len(ring) : Pending[i] = ring[i]
         /\ \A i \in 1..Len(entry) : Pending[Len(ring) + i] = entry[i]
         /\ \A i \in 1..Len(Pending) : Pending[i] \in Entry /\ Pending[i].seq \in Nat
         /\ applied \in Seq(Commands) /\ Len(applied) \in Nat
         /\ accepted \in Seq(Commands) /\ Len(accepted) \in Nat
<1>1. /\ ring \in Seq(Entry) /\ entry \in Seq(Entry) /\ applied \in Seq(Commands)
      /\ accepted \in Seq(Commands)
  BY DEF AsyncTypeOK, TypeOK
<1>2. Pending \in Seq(Entry)
  BY <1>1 DEF Pending
<1>3. \A e \in Entry : e.seq \in Nat
  BY DEF Entry
<1>4. QED
  BY <1>1, <1>2, <1>3 DEF Pending

LEMMA OrderKept ==
  ASSUME Order, UNCHANGED <<Pending, applied, accepted>>, poisoned \/ ~poisoned',
         poisoned' \/ ~poisoned
  PROVE  Order'
BY DEF Order, ExecutesInOrder, PendingNumbered, ConsumerIsNext, Follows

\* An entry is put behind the others: a new command under the next number, or a
\* control entry under the number of the last one.
LEMMA OrderGrown ==
  ASSUME AsyncTypeOK, Order, NEW e \in Entry, Pending' = Append(Pending, e),
         applied' = applied, poisoned' = poisoned,
         \/ e.kind # "command" /\ e.seq = Len(accepted) /\ accepted' = accepted
         \/ /\ e.kind = "command" /\ e.seq = Len(accepted) + 1
            /\ accepted' = Append(accepted, e.cmd) /\ e.cmd \in Commands
  PROVE  Order'
<1>1. /\ Pending \in Seq(Entry) /\ Len(Pending) \in Nat
      /\ applied \in Seq(Commands) /\ accepted \in Seq(Commands)
      /\ Len(applied) \in Nat /\ Len(accepted) \in Nat
      /\ \A i \in 1..Len(Pending) : Pending[i].seq \in Nat
  BY PendingTypes
<1>2. /\ Len(Pending') = Len(Pending) + 1 /\ Pending'[Len(Pending) + 1] = e
      /\ \A i \in 1..Len(Pending) : Pending'[i] = Pending[i]
  BY <1>1
<1>3. /\ Len(accepted') \in Nat /\ Len(accepted') >= Len(accepted) /\ e.seq = Len(accepted')
      /\ \A i \in 1..Len(accepted) : accepted'[i] = accepted[i]
      /\ accepted' \in Seq(Commands)
      /\ e.kind = "command" => e.seq > 0 /\ accepted'[e.seq] = e.cmd
      /\ Follows(e, Len(accepted))
  <2>1. CASE e.kind # "command" /\ e.seq = Len(accepted) /\ accepted' = accepted
    BY <1>1, <2>1 DEF Follows
  <2>2. CASE /\ e.kind = "command" /\ e.seq = Len(accepted) + 1
             /\ accepted' = Append(accepted, e.cmd) /\ e.cmd \in Commands
    <3>1. /\ accepted' \in Seq(Commands) /\ Len(accepted') = Len(accepted) + 1
          /\ accepted'[Len(accepted) + 1] = e.cmd
          /\ \A i \in 1..Len(accepted) : accepted'[i] = accepted[i]
      BY <1>1, <2>2
    <3>2. QED
      BY <1>1, <2>2, <3>1 DEF Follows
  <2>3. QED
    BY <2>1, <2>2
<1>4. ExecutesInOrder'
  <2>1. Len(applied) <= Len(accepted) /\ applied = SubSeq(accepted, 1, Len(applied))
    BY DEF Order, ExecutesInOrder
  <2>2. SubSeq(accepted', 1, Len(applied)) = SubSeq(accepted, 1, Len(applied))
    BY <1>1, <1>3, <2>1
  <2>3. QED
    BY <1>1, <1>3, <2>1, <2>2, SMTT(30) DEF ExecutesInOrder
<1>5. PendingNumbered'
  <2>1. ASSUME NEW i \in 1..Len(Pending')
        PROVE  /\ Pending'[i].seq <= Len(accepted')
               /\ Pending'[i].kind = "command" =>
                    Pending'[i].seq > 0 /\ Pending'[i].cmd = accepted'[Pending'[i].seq]
               /\ i > 1 => Follows(Pending'[i], Pending'[i - 1].seq)
    <3>1. CASE i \in 1..Len(Pending)
      <4>1. /\ Pending[i].seq <= Len(accepted) /\ Pending[i].seq \in Nat
            /\ Pending[i].kind = "command" =>
                 Pending[i].seq > 0 /\ Pending[i].cmd = accepted[Pending[i].seq]
            /\ i > 1 => Follows(Pending[i], Pending[i - 1].seq)
        BY <1>1, <3>1 DEF Order, PendingNumbered
      <4>2. Pending'[i] = Pending[i] /\ (i > 1 => Pending'[i - 1] = Pending[i - 1])
        BY <1>1, <1>2, <3>1
      <4>3. QED
        BY <1>1, <1>3, <4>1, <4>2
    <3>2. CASE i = Len(Pending) + 1
      <4>1. Pending'[i] = e
        BY <1>2, <3>2
      <4>2. ASSUME i > 1
            PROVE  Pending'[i - 1].seq = Len(accepted)
        <5>1. Len(Pending) > 0 /\ i - 1 = Len(Pending) /\ Pending'[i - 1] = Pending[i - 1]
          BY <1>1, <1>2, <3>2, <4>2
        <5>2. QED
          BY <5>1 DEF Order, PendingNumbered
      <4>3. QED
        BY <1>3, <4>1, <4>2
    <3>3. QED
      BY <1>1, <1>2, <3>1, <3>2
  <2>2. Pending'[Len(Pending')].seq = Len(accepted')
    BY <1>2, <1>3
  <2>3. QED
    BY <2>1, <2>2 DEF PendingNumbered, Follows
<1>6. ConsumerIsNext'
  <2>1. SUFFICES ASSUME ~poisoned
                 PROVE  Follows(Pending'[1], Len(applied))
    BY <1>1, <1>2 DEF ConsumerIsNext, Follows
  <2>2. CASE Len(Pending) > 0
    BY <1>1, <1>2, <2>1, <2>2 DEF Order, ConsumerIsNext
  <2>3. CASE Len(Pending) = 0
    <3>1. Len(applied) = Len(accepted)
      BY <2>1, <2>3 DEF Order, ConsumerIsNext
    <3>2. QED
      BY <1>2, <1>3, <2>3, <3>1
  <2>4. QED
    BY <1>1, <2>2, <2>3
<1>7. QED
  BY <1>4, <1>5, <1>6 DEF Order

\* The consumer takes the first entry off the ring.
LEMMA Consumed ==
  ASSUME AsyncTypeOK, Consuming, ring' = Tail(ring), entry' = entry
  PROVE  /\ ring' \in Seq(Entry) /\ Len(ring') = Len(ring) - 1
         /\ \A i \in 1..Len(ring') : ring'[i] = ring[i + 1]
         /\ Head(ring) = Pending[1] /\ Len(Pending) > 0
         /\ Len(Pending') = Len(Pending) - 1
         /\ \A i \in 1..Len(Pending') : Pending'[i] = Pending[i + 1]
<1>1. ring # <<>> /\ ring \in Seq(Entry) /\ entry \in Seq(Entry) /\ Len(ring) > 0
      /\ Len(ring) \in Nat /\ Len(entry) \in Nat
  BY PendingTypes DEF Consuming
<1>2. /\ ring' \in Seq(Entry) /\ Len(ring') = Len(ring) - 1
      /\ \A i \in 1..Len(ring') : ring'[i] = ring[i + 1]
  BY <1>1
<1>3. /\ Len(Pending') = Len(ring') + Len(entry)
      /\ \A i \in 1..Len(Pending') :
           Pending'[i] = IF i <= Len(ring') THEN ring'[i] ELSE entry[i - Len(ring')]
  BY <1>1, <1>2 DEF Pending
<1>4. /\ Len(Pending) = Len(ring) + Len(entry)
      /\ \A i \in 1..Len(Pending) :
           Pending[i] = IF i <= Len(ring) THEN ring[i] ELSE entry[i - Len(ring)]
  BY <1>1 DEF Pending
<1>5. ASSUME NEW i \in 1..Len(Pending')
      PROVE  Pending'[i] = Pending[i + 1]
  <2>1. i + 1 \in 1..Len(Pending) /\ (i <= Len(ring') <=> i + 1 <= Len(ring))
        /\ i - Len(ring') = (i + 1) - Len(ring)
    BY <1>1, <1>2, <1>3, <1>4
  <2>2. QED
    BY <1>2, <1>3, <1>4, <2>1
<1>6. Head(ring) = ring[1] /\ Pending[1] = ring[1]
  BY <1>1, <1>4
<1>7. QED
  BY <1>1, <1>2, <1>3, <1>4, <1>5, <1>6

LEMMA OrderShrunk ==
  ASSUME AsyncTypeOK, Order, Consuming, ring' = Tail(ring), entry' = entry,
         accepted' = accepted,
         \/ poisoned' /\ applied' = applied
         \/ /\ ~poisoned /\ Head(ring).kind = "command"
            /\ applied' = Append(applied, Head(ring).cmd)
         \/ ~poisoned /\ Head(ring).kind # "command" /\ applied' = applied
  PROVE  Order'
<1> DEFINE h == Head(ring)
<1>1. /\ Pending \in Seq(Entry) /\ Len(Pending) \in Nat
      /\ applied \in Seq(Commands) /\ accepted \in Seq(Commands)
      /\ Len(applied) \in Nat /\ Len(accepted) \in Nat
      /\ \A i \in 1..Len(Pending) : Pending[i].seq \in Nat
  BY PendingTypes
<1>2. /\ h = Pending[1] /\ Len(Pending) > 0 /\ Len(Pending') = Len(Pending) - 1
      /\ \A i \in 1..Len(Pending') : Pending'[i] = Pending[i + 1]
  BY Consumed
<1>3. /\ h.seq \in Nat /\ h.seq <= Len(accepted)
      /\ h.kind = "command" => h.seq > 0 /\ h.cmd = accepted[h.seq]
      /\ ~poisoned => Follows(h, Len(applied))
  <2>1. 1 \in 1..Len(Pending)
    BY <1>1, <1>2
  <2>2. QED
    BY <1>1, <1>2, <2>1 DEF Order, PendingNumbered, ConsumerIsNext
<1> HIDE DEF h
<1>4. ExecutesInOrder' /\ (~poisoned' => Len(applied') = h.seq)
  <2>1. Len(applied) <= Len(accepted) /\ applied = SubSeq(accepted, 1, Len(applied))
    BY DEF Order, ExecutesInOrder
  <2>2. CASE poisoned' /\ applied' = applied
    BY <2>1, <2>2 DEF ExecutesInOrder
  <2>3. CASE ~poisoned /\ h.kind = "command" /\ applied' = Append(applied, h.cmd)
    <3>1. h.seq = Len(applied) + 1 /\ h.cmd = accepted[Len(applied) + 1]
      BY <1>3, <2>3 DEF Follows
    <3>2. Len(applied') = Len(applied) + 1
      BY <1>1, <2>3
    <3>3. Append(SubSeq(accepted, 1, Len(applied)), accepted[Len(applied) + 1])
            = SubSeq(accepted, 1, Len(applied) + 1)
      BY <1>1, <1>3, <3>1
    <3>4. QED
      BY <1>3, <2>1, <2>3, <3>1, <3>2, <3>3 DEF ExecutesInOrder
  <2>4. CASE ~poisoned /\ h.kind # "command" /\ applied' = applied
    <3>1. h.seq = Len(applied)
      BY <1>3, <2>4 DEF Follows
    <3>2. QED
      BY <2>1, <2>4, <3>1 DEF ExecutesInOrder
  <2>5. QED
    BY <2>2, <2>3, <2>4 DEF h
<1>5. PendingNumbered'
  <2>1. ASSUME NEW i \in 1..Len(Pending')
        PROVE  /\ Pending'[i].seq <= Len(accepted')
               /\ Pending'[i].kind = "command" =>
                    Pending'[i].seq > 0 /\ Pending'[i].cmd = accepted'[Pending'[i].seq]
               /\ i > 1 => Follows(Pending'[i], Pending'[i - 1].seq)
    <3>1. i + 1 \in 1..Len(Pending) /\ i + 1 > 1 /\ (i + 1) - 1 = i
      BY <1>1, <1>2
    <3>2. /\ Pending[i + 1].seq <= Len(accepted)
          /\ Pending[i + 1].kind = "command" =>
               Pending[i + 1].seq > 0 /\ Pending[i + 1].cmd = accepted[Pending[i + 1].seq]
          /\ Follows(Pending[i + 1], Pending[i].seq)
      BY <3>1 DEF Order, PendingNumbered
    <3>3. i > 1 => Pending'[i - 1] = Pending[i]
      <4>1. i > 1 => i - 1 \in 1..Len(Pending') /\ (i - 1) + 1 = i
        BY <1>1, <1>2
      <4>2. QED
        BY <1>2, <4>1
    <3>4. QED
      BY <1>2, <3>2, <3>3
  <2>2. Len(Pending') > 0 => Pending'[Len(Pending')].seq = Len(accepted')
    <3>1. Len(Pending') > 0 => /\ Len(Pending') \in 1..Len(Pending')
                               /\ Len(Pending') + 1 = Len(Pending)
      BY <1>1, <1>2
    <3>2. QED
      BY <1>2, <3>1 DEF Order, PendingNumbered
  <2>3. QED
    BY <2>1, <2>2 DEF PendingNumbered, Follows
<1>6. ConsumerIsNext'
  <2>1. SUFFICES ASSUME ~poisoned'
                 PROVE  IF Len(Pending') > 0 THEN Follows(Pending'[1], Len(applied'))
                                             ELSE Len(applied') = Len(accepted)
    BY DEF ConsumerIsNext, Follows
  <2>2. Len(applied') = h.seq
    BY <1>4, <2>1
  <2>3. CASE Len(Pending') > 0
    <3>1. 1 \in 1..Len(Pending') /\ 2 \in 1..Len(Pending) /\ 2 > 1 /\ 1 + 1 = 2 /\ 2 - 1 = 1
      BY <1>1, <1>2, <2>3
    <3>2. Follows(Pending[2], Pending[1].seq) /\ Pending'[1] = Pending[2]
      BY <1>2, <3>1 DEF Order, PendingNumbered
    <3>3. QED
      BY <1>2, <2>2, <2>3, <3>2
  <2>4. CASE ~(Len(Pending') > 0)
    <3>1. Len(Pending) = 1
      BY <1>1, <1>2, <2>4
    <3>2. QED
      BY <1>2, <2>2, <2>4, <3>1 DEF Order, PendingNumbered
  <2>5. QED
    BY <2>3, <2>4
<1>7. QED
  BY <1>4, <1>5, <1>6 DEF Order

-----------------------------------------------------------------------------
(* Each action preserves the invariant *)

LEMMA InvariantIs ==
  AsyncInv <=> /\ AsyncTypeOK /\ Core!CoreInv /\ Order
               /\ OwnerInPlace /\ FinalSnapshotComes
BY SameInvariant DEF AsyncInv, Order

\* The control variables of the two threads, typed.
ThreadsTyped ==
  /\ applied \in Seq(Commands)
  /\ halted \in {"no", "ok", "err"}
  /\ started \in BOOLEAN
  /\ poisoned \in BOOLEAN
  /\ owner \in {"free", "publishing", "signalling", "joining", "dropping"}
  /\ ring \in Seq(Entry) /\ Len(ring) <= RingSize
  /\ entry \in Seq(Entry) /\ Len(entry) <= 1

LEMMA ThreadTypes == Core!CoreInv => (AsyncTypeOK <=> ThreadsTyped)
BY Typing, CoreTypes DEF AsyncTypeOK, ThreadsTyped, TypeOK

\* What is left to show of a step.
LEMMA Assembled ==
  ASSUME Core!CoreInv', ThreadsTyped', Order', OwnerInPlace', FinalSnapshotComes'
  PROVE  AsyncInv'
<1>1. Core!CoreInv' => (AsyncTypeOK' <=> ThreadsTyped')
  BY ThreadTypes, PTL
<1>2. AsyncInv' <=> /\ AsyncTypeOK' /\ Core!CoreInv' /\ Order'
                    /\ OwnerInPlace' /\ FinalSnapshotComes'
  BY InvariantIs, PTL
<1>3. QED
  BY <1>1, <1>2

\* What there is before it.
LEMMA Given ==
  ASSUME AsyncInv
  PROVE  /\ AsyncTypeOK /\ Core!CoreInv /\ ThreadsTyped /\ Order
         /\ OwnerInPlace /\ FinalSnapshotComes
BY InvariantIs, ThreadTypes

LEMMA ControlIsEntry ==
  ASSUME AsyncInv, up, NEW kind \in {"snapshot", "shutdown"}
  PROVE  /\ Control(kind) \in Entry /\ Control(kind).kind = kind
         /\ Control(kind).kind # "command" /\ Control(kind).seq = Len(accepted)
<1>1. lastSeq = Len(accepted) /\ lastSeq \in Nat
  BY Given, CoreRunning, CoreTypes
<1>2. QED
  BY <1>1 DEF Control, Entry

\* startup, and the beginning of a drop
LEMMA StartupStep ==
  ASSUME AsyncInv, Startup \/ BeginDrop
  PROVE  AsyncInv'
<1>1. /\ UNCHANGED <<journalVars, up, halted, applied, inflight, lastSeq, sink, snaps>>
      /\ UNCHANGED <<ring, entry, poisoned, accepted>>
      /\ up /\ started' \in BOOLEAN
      /\ started' = TRUE
      /\ owner' = owner \/ (owner = "free" /\ owner' = "dropping")
  BY Given DEF Startup, BeginDrop, vars, coreVars, OwnerInPlace, ThreadsTyped
<1>2. Core!CoreInv'
  BY <1>1, Given, CoreUntouched DEF Reported
<1>3. ThreadsTyped'
  BY <1>1, Given DEF ThreadsTyped
<1>4. Order'
  BY <1>1, Given, OrderKept DEF Pending
<1>5. OwnerInPlace' /\ FinalSnapshotComes'
  BY <1>1, Given DEF OwnerInPlace, FinalSnapshotComes
<1>6. QED
  BY <1>2, <1>3, <1>4, <1>5, Assembled

\* enable_snapshotting
LEMMA EnableStep ==
  ASSUME AsyncInv, EnableSnapshotting
  PROVE  AsyncInv'
<1>1. /\ UNCHANGED <<journalVars, up, halted, applied, inflight, lastSeq, snaps>>
      /\ UNCHANGED <<started, ring, owner, entry, poisoned, accepted>>
      /\ up /\ ~started /\ sink' \in BOOLEAN
  BY DEF EnableSnapshotting, asyncVars
<1>2. Core!CoreInv'
  BY <1>1, Given, CoreMaintained DEF Reported, journalVars
<1>3. ThreadsTyped'
  BY <1>1, Given DEF ThreadsTyped
<1>4. Order'
  BY <1>1, Given, OrderKept DEF Pending
<1>5. OwnerInPlace' /\ FinalSnapshotComes'
  BY <1>1, Given DEF OwnerInPlace, FinalSnapshotComes
<1>6. QED
  BY <1>2, <1>3, <1>4, <1>5, Assembled

\* checkpoint of a core that has not been started, and compact_journal of one that has
LEMMA CheckpointStep ==
  ASSUME AsyncInv, SyncCheckpoint \/ CompactAsync
  PROVE  AsyncInv'
<1>1. /\ UNCHANGED <<up, halted, applied, inflight, lastSeq, sink>>
      /\ UNCHANGED <<started, ring, owner, entry, poisoned, accepted>>
      /\ up /\ (~started \/ snaps' = snaps)
  BY DEF SyncCheckpoint, CompactAsync, Checkpoint, CompactJournal, coreVars, asyncVars
<1>2. Core!CoreInv'
  BY Given, SyncCheckpointIs, CompactAsyncIs, Core!MaintenanceOps, PolicyAssumption,
     EnvironmentAssumption
<1>3. ThreadsTyped'
  BY <1>1, Given DEF ThreadsTyped
<1>4. Order'
  BY <1>1, Given, OrderKept DEF Pending
<1>5. OwnerInPlace' /\ FinalSnapshotComes'
  BY <1>1, Given DEF OwnerInPlace, FinalSnapshotComes
<1>6. QED
  BY <1>2, <1>3, <1>4, <1>5, Assembled

\* submit_command
LEMMA SubmitAsyncStep ==
  ASSUME Disciplined, AsyncInv, NEW c \in Commands, SubmitAsync(c)
  PROVE  AsyncInv'
<1> DEFINE e == Command(c, lastSeq')
<1>1. /\ UNCHANGED <<up, halted, applied, inflight, sink, snaps, started, ring, poisoned>>
      /\ up /\ started /\ owner = "free" /\ halted = "no" /\ ~poisoned
      /\ owner' = "publishing" /\ entry' = <<e>> /\ accepted' = Append(accepted, c)
      /\ lastSeq' = nextSeq
  BY DEF SubmitAsync, Admits, Disciplined
<1>2. Core!CoreInv'
  BY Given, DisciplinedToo, SubmitAsyncIs, Core!SubmitStep, PolicyAssumption,
     EnvironmentAssumption
<1>3. nextSeq \in Nat /\ nextSeq = Len(accepted) + 1
  BY <1>1, Given, CoreRunning, CoreTypes
<1>4. /\ e \in Entry /\ e.kind = "command" /\ e.seq = Len(accepted) + 1 /\ e.cmd = c
  BY <1>1, <1>3 DEF Command, Entry
<1> HIDE DEF e
<1>5. ThreadsTyped'
  BY <1>1, <1>4, Given DEF ThreadsTyped
<1>6. Order'
  <2>1. entry = <<>>
    BY <1>1, Given DEF OwnerInPlace, ThreadsTyped
  <2>2. Pending' = Append(Pending, e)
    BY <1>1, <1>4, <2>1, Given DEF Pending, ThreadsTyped
  <2>3. QED
    BY <1>1, <1>4, <2>2, Given, OrderGrown
<1>7. OwnerInPlace' /\ FinalSnapshotComes'
  BY <1>1, Given DEF OwnerInPlace, FinalSnapshotComes
<1>8. QED
  BY <1>2, <1>5, <1>6, <1>7, Assembled

\* request_snapshot, and shutdown up to its first wait
LEMMA SignalStep ==
  ASSUME AsyncInv, RequestAsync \/ ShutdownAsync
  PROVE  AsyncInv'
<1>1. /\ UNCHANGED <<journalVars, up, halted, applied, inflight, lastSeq, sink, snaps>>
      /\ UNCHANGED <<started, ring, poisoned, accepted>>
      /\ up /\ started /\ owner = "free" /\ halted = "no"
      /\ \/ poisoned /\ owner' = "joining" /\ entry' = entry
         \/ owner' = "publishing" /\ entry' = <<Control("snapshot")>>
         \/ owner' = "signalling" /\ entry' = <<Control("shutdown")>>
  BY DEF RequestAsync, ShutdownAsync, Admits, vars, coreVars
<1>2. Core!CoreInv'
  BY <1>1, Given, CoreUntouched DEF Reported
<1>3. entry = <<>>
  BY <1>1, Given DEF OwnerInPlace, ThreadsTyped
<1>4. CASE poisoned /\ owner' = "joining" /\ entry' = entry
  <2>1. ThreadsTyped'
    BY <1>1, <1>4, Given DEF ThreadsTyped
  <2>2. Order'
    BY <1>1, <1>4, Given, OrderKept DEF Pending
  <2>3. OwnerInPlace' /\ FinalSnapshotComes'
    BY <1>1, <1>4, Given DEF OwnerInPlace, FinalSnapshotComes
  <2>4. QED
    BY <1>2, <2>1, <2>2, <2>3, Assembled
<1>5. ASSUME NEW kind \in {"snapshot", "shutdown"}, entry' = <<Control(kind)>>,
             owner' = IF kind = "snapshot" THEN "publishing" ELSE "signalling"
      PROVE  AsyncInv'
  <2> DEFINE e == Control(kind)
  <2>1. e \in Entry /\ e.kind = kind /\ e.kind # "command" /\ e.seq = Len(accepted)
    BY <1>1, ControlIsEntry
  <2> HIDE DEF e
  <2>2. entry' = <<e>> /\ entry'[1] = e
    BY <1>5 DEF e
  <2>3. ThreadsTyped'
    BY <1>1, <1>5, <2>1, <2>2, Given DEF ThreadsTyped
  <2>4. Pending' = Append(Pending, e)
    BY <1>1, <1>3, <2>1, <2>2, Given DEF Pending, ThreadsTyped
  <2>5. Order'
    BY <1>1, <2>1, <2>4, Given, OrderGrown
  <2>6. OwnerInPlace'
    BY <1>1, <1>5, <2>2, Given DEF OwnerInPlace
  <2>7. FinalSnapshotComes'
    BY <1>1, <1>5, <2>1, <2>2, Given DEF FinalSnapshotComes
  <2>8. QED
    BY <1>2, <2>3, <2>5, <2>6, <2>7, Assembled
<1>6. QED
  BY <1>1, <1>4, <1>5

LEMMA OneBehind ==
  ASSUME NEW S, NEW s \in Seq(S), NEW t \in Seq(S), Len(t) = 1
  PROVE  /\ s \o t \in Seq(S) /\ Len(s \o t) = Len(s) + 1
         /\ (s \o t)[Len(s \o t)] = t[1]
<1> DEFINE n == Len(s)
           m == Len(t)
<1>1. n \in Nat /\ m = 1
  BY LenProperties
<1>2. /\ s \o t \in Seq(S) /\ Len(s \o t) = n + m
      /\ \A i \in 1..(n + m) : (s \o t)[i] = IF i <= n THEN s[i] ELSE t[i - n]
  BY ConcatProperties, Zenon
<1> HIDE DEF n, m
<1>3. n + 1 \in 1..(n + m) /\ ~(n + 1 <= n) /\ (n + 1) - n = 1
  BY <1>1
<1>4. (s \o t)[n + 1] = t[1]
  BY <1>2, <1>3
<1>5. s \o t \in Seq(S) /\ Len(s \o t) = n + 1 /\ (s \o t)[Len(s \o t)] = t[1]
  BY <1>1, <1>2, <1>4
<1>6. QED
  BY <1>5 DEF n

\* publish
LEMMA PublishStep ==
  ASSUME AsyncInv, Publish
  PROVE  AsyncInv'
<1>1. /\ UNCHANGED <<journalVars, up, halted, applied, inflight, lastSeq, sink, snaps>>
      /\ UNCHANGED <<started, poisoned, accepted>>
      /\ owner \in {"publishing", "signalling"} /\ Len(ring) < RingSize
      /\ ring' = ring \o entry /\ entry' = <<>>
      /\ owner' = IF owner = "publishing" THEN "free" ELSE "joining"
  BY DEF Publish, vars, coreVars
<1>2. Core!CoreInv'
  BY <1>1, Given, CoreUntouched DEF Reported
<1>3. /\ ring \in Seq(Entry) /\ entry \in Seq(Entry) /\ Len(entry) = 1
      /\ Len(ring) \in Nat /\ RingSize \in Nat /\ started
      /\ halted = "no"
  BY <1>1, Given, AsyncAssumption DEF ThreadsTyped, OwnerInPlace
<1>4. /\ ring' \in Seq(Entry) /\ Len(ring') = Len(ring) + 1
      /\ ring'[Len(ring')] = entry[1]
  BY <1>1, <1>3, OneBehind
<1>5. ThreadsTyped'
  BY <1>1, <1>3, <1>4, Given DEF ThreadsTyped
<1>6. Pending' = Pending
  BY <1>1, <1>3, <1>4 DEF Pending
<1>7. Order'
  BY <1>1, <1>6, Given, OrderKept
<1>8. OwnerInPlace'
  BY <1>1, <1>3, Given DEF OwnerInPlace
<1>9. FinalSnapshotComes'
  BY <1>1, <1>3, <1>4, Given DEF FinalSnapshotComes
<1>10. QED
  BY <1>2, <1>5, <1>7, <1>8, <1>9, Assembled

\* shutdown, once the consumer has gone; its repetition
LEMMA ShutdownReturnsStep ==
  ASSUME AsyncInv, ShutdownReturns \/ ShutdownAgain
  PROVE  AsyncInv'
<1>1. /\ UNCHANGED <<wal, nextSeq, up, applied, inflight, lastSeq, sink, snaps>>
      /\ UNCHANGED <<started, ring, entry, poisoned, accepted>>
      /\ up /\ owner' = "free"
      /\ \/ owner = "joining" /\ ring = <<>>
         \/ owner = "free" /\ halted # "no"
      /\ halted' \in {"ok", "err"} /\ (halted' = "err" => FinalSyncFails)
      /\ Sync \/ (FinalSyncFails /\ UNCHANGED journalVars)
  BY Given DEF ShutdownReturns, ShutdownAgain, Sync, OwnerInPlace, journalVars, asyncVars
<1>2. Core!CoreInv'
  BY <1>1, Given, CoreMaintained, CoreTypes DEF Reported, journalVars
<1>3. ThreadsTyped'
  BY <1>1, Given DEF ThreadsTyped
<1>4. Order'
  BY <1>1, Given, OrderKept DEF Pending
<1>5. OwnerInPlace'
  BY <1>1, Given DEF OwnerInPlace
<1>6. FinalSnapshotComes'
  BY <1>1, Given DEF FinalSnapshotComes
<1>7. QED
  BY <1>2, <1>3, <1>4, <1>5, <1>6, Assembled

-----------------------------------------------------------------------------
(* The consumer's actions *)

\* A command is executed, panics, or is skipped.
LEMMA ExecuteStep ==
  ASSUME AsyncInv, Execute \/ Panic \/ Skip
  PROVE  AsyncInv'
<1>1. /\ UNCHANGED <<journalVars, up, halted, inflight, lastSeq, sink, snaps>>
      /\ UNCHANGED <<started, owner, entry, accepted>>
      /\ Consuming /\ ring' = Tail(ring)
      /\ poisoned' \in BOOLEAN /\ (poisoned => poisoned')
      /\ ~poisoned => Head(ring).kind = "command"
      /\ \/ poisoned' /\ applied' = applied
         \/ ~poisoned /\ applied' = Append(applied, Head(ring).cmd)
  <2>1. CASE Execute
    BY <2>1, Given DEF Execute, ThreadsTyped
  <2>2. CASE Panic
    BY <2>2 DEF Panic, vars, coreVars
  <2>3. CASE Skip
    BY <2>3, Given DEF Skip, vars, coreVars, ThreadsTyped
  <2>4. QED
    BY <2>1, <2>2, <2>3
<1>2. Core!CoreInv'
  BY <1>1, Given, CoreUntouched DEF Reported
<1>3. /\ ring \in Seq(Entry) /\ Len(ring) \in Nat /\ Len(ring) > 0
      /\ ring' \in Seq(Entry) /\ Len(ring') = Len(ring) - 1
      /\ \A i \in 1..Len(ring') : ring'[i] = ring[i + 1]
      /\ Head(ring) = ring[1] /\ Head(ring) \in Entry
  BY <1>1, Given, Consumed, PendingTypes DEF Consuming
<1>4. RingSize \in Nat /\ Len(ring') <= RingSize
  BY <1>3, Given, AsyncAssumption DEF ThreadsTyped
<1>5. ThreadsTyped'
  <2>1. applied' \in Seq(Commands)
    <3>1. Head(ring).kind = "command" => Head(ring).cmd \in Commands
      BY <1>3 DEF Entry
    <3>2. QED
      BY <1>1, <3>1, Given DEF ThreadsTyped
  <2>2. QED
    BY <1>1, <1>3, <1>4, <2>1, Given DEF ThreadsTyped
<1>6. Order'
  BY <1>1, Given, OrderShrunk
<1>7. OwnerInPlace'
  <2>1. started
    BY <1>3, Given DEF OwnerInPlace
  <2>2. QED
    BY <1>1, <2>1, Given DEF OwnerInPlace
<1>8. FinalSnapshotComes'
  <2>1. SUFFICES ASSUME ~poisoned'
                 PROVE  owner = "joining" =>
                          Len(ring') > 0 /\ ring'[Len(ring')].kind = "shutdown"
    BY <1>1, Given DEF FinalSnapshotComes
  <2>2. ~poisoned /\ ring[1].kind = "command"
    BY <1>1, <1>3, <2>1
  <2>3. owner = "joining" => ring[Len(ring)].kind = "shutdown"
    BY <1>3, <2>2, Given DEF FinalSnapshotComes
  <2>4. owner = "joining" => Len(ring) # 1
    BY <2>2, <2>3
  <2>5. Len(ring) # 1 => Len(ring') > 0 /\ ring'[Len(ring')] = ring[Len(ring)]
    <3>1. Len(ring) # 1 => Len(ring') \in 1..Len(ring') /\ Len(ring') + 1 = Len(ring)
      BY <1>3
    <3>2. QED
      BY <1>3, <3>1
  <2>6. QED
    BY <2>3, <2>4, <2>5
<1>9. QED
  BY <1>2, <1>5, <1>6, <1>7, <1>8, Assembled

\* A snapshot is written, in answer to a request or to the shutdown signal: the
\* consumer has executed what comes before the entry, and nothing more.
LEMMA PersistStep ==
  ASSUME AsyncInv, Persist
  PROVE  AsyncInv'
<1>1. /\ UNCHANGED <<journalVars, up, halted, applied, inflight, lastSeq, sink>>
      /\ UNCHANGED <<started, owner, entry, poisoned, accepted>>
      /\ up /\ Consuming /\ ~poisoned /\ ring' = Tail(ring)
      /\ Head(ring).kind # "command"
      /\ snaps' = IF sink THEN Saved(Head(ring).seq, applied) ELSE snaps
  BY DEF Persist, Consuming
<1>2. /\ ring \in Seq(Entry) /\ Len(ring) \in Nat /\ Len(ring) > 0
      /\ ring' \in Seq(Entry) /\ Len(ring') = Len(ring) - 1
      /\ \A i \in 1..Len(ring') : ring'[i] = ring[i + 1]
      /\ Head(ring) = ring[1] /\ Head(ring) = Pending[1]
      /\ Len(Pending) \in Nat /\ Len(Pending) > 0 /\ 1 \in 1..Len(Pending)
      /\ Len(applied) \in Nat /\ Len(accepted) \in Nat
  BY <1>1, Given, Consumed, PendingTypes DEF Consuming
<1>3. Head(ring).seq = Len(applied) /\ Len(applied) \in 0..Len(accepted)
      /\ applied = SubSeq(accepted, 1, Len(applied))
  BY <1>1, <1>2, Given DEF Order, ConsumerIsNext, ExecutesInOrder, Follows
<1>4. \/ snaps' = snaps
      \/ \E k \in 0..Len(accepted) : snaps' = Saved(k, SubSeq(accepted, 1, k))
  BY <1>1, <1>3
<1>5. Core!CoreInv'
  <2>1. sink' \in BOOLEAN
    BY <1>1, Given, CoreTypes
  <2>2. QED
    BY <1>1, <1>4, <2>1, Given, CoreMaintained DEF Reported, journalVars
<1>6. RingSize \in Nat /\ Len(ring') <= RingSize
  BY <1>2, Given, AsyncAssumption DEF ThreadsTyped
<1>7. ThreadsTyped'
  BY <1>1, <1>2, <1>6, Given DEF ThreadsTyped
<1>8. Order'
  BY <1>1, Given, OrderShrunk
<1>9. OwnerInPlace'
  <2>1. started
    BY <1>2, Given DEF OwnerInPlace
  <2>2. QED
    BY <1>1, <2>1, Given DEF OwnerInPlace
<1>10. FinalSnapshotComes'
  <2>1. sink /\ lastSeq \in DOMAIN snaps => lastSeq \in DOMAIN snaps'
    BY <1>1 DEF Saved
  <2>2. CASE Len(ring) = 1
    <3>1. owner = "joining" => entry = <<>>
      BY Given DEF OwnerInPlace, ThreadsTyped
    <3>2. owner = "joining" => Len(Pending) = 1
      BY <2>2, <3>1, Given, PendingTypes
    <3>3. owner = "joining" => Head(ring).seq = Len(accepted)
      BY <1>2, <3>2, Given DEF Order, PendingNumbered
    <3>4. lastSeq = Len(accepted)
      BY <1>1, Given, CoreRunning
    <3>5. owner = "joining" => (sink => lastSeq \in DOMAIN snaps')
      BY <1>1, <3>3, <3>4 DEF Saved
    <3>6. ~(Len(ring') > 0)
      BY <1>2, <2>2
    <3>7. QED
      BY <1>1, <2>1, <3>5, <3>6, Given DEF FinalSnapshotComes
  <2>3. CASE Len(ring) # 1
    <3>1. Len(ring') \in 1..Len(ring') /\ Len(ring') + 1 = Len(ring) /\ Len(ring') > 0
      BY <1>2, <2>3
    <3>2. ring'[Len(ring')] = ring[Len(ring)]
      BY <1>2, <3>1
    <3>3. QED
      BY <1>1, <1>2, <2>1, <3>1, <3>2, Given DEF FinalSnapshotComes
  <2>4. QED
    BY <2>2, <2>3
<1>11. QED
  BY <1>5, <1>7, <1>8, <1>9, <1>10, Assembled

-----------------------------------------------------------------------------
(* Death and recovery *)

LEMMA DeathAsyncStep ==
  ASSUME Disciplined, AsyncInv, CrashAsync \/ CrashInSubmitAsync \/ EndDrop \/ Repair
  PROVE  AsyncInv'
<1> USE PolicyAssumption, EnvironmentAssumption
<1>1. /\ UNCHANGED <<halted, applied, lastSeq, sink, snaps>>
      /\ UNCHANGED <<started, ring, owner, entry, poisoned, accepted>>
  BY DEF CrashAsync, CrashInSubmitAsync, EndDrop, Repair, Crash, CrashInSubmit, Drop,
         Truncate, coreVars, asyncVars
<1>5. Core!CoreInv'
  <2>1. CASE CrashAsync \/ CrashInSubmitAsync
    <3>1. \/ \E kind \in Failures : Core!Crash(kind)
          \/ \E kind \in Failures, c \in Commands : Core!CrashInSubmit(kind, c)
      BY <2>1, CrashAsyncIs, CrashInSubmitAsyncIs
    <3>2. QED
      BY <3>1, Given, DisciplinedToo, Core!CrashStep
  <2>2. CASE EndDrop
    BY <2>2, Given, EndDropIs, Core!DropStep
  <2>3. CASE Repair
    BY <2>3, Given, RepairIs, Core!TruncateStep
  <2>4. QED
    BY <2>1, <2>2, <2>3
<1>6. ThreadsTyped'
  BY <1>1, Given DEF ThreadsTyped
<1>7. Order'
  BY <1>1, Given, OrderKept DEF Pending
<1>8. OwnerInPlace' /\ FinalSnapshotComes'
  BY <1>1, Given DEF OwnerInPlace, FinalSnapshotComes
<1>9. QED
  BY <1>5, <1>6, <1>7, <1>8, Assembled

LEMMA NothingTyped ==
  /\ <<>> \in Seq(Entry) /\ <<>> \in Seq(Commands)
  /\ Len(<<>>) = 0 /\ 0 <= RingSize /\ 0 <= 1
BY AsyncAssumption

\* After a restart nothing is on its way, and what was recovered is the history.
LEMMA RecoverStep ==
  ASSUME Disciplined, AsyncInv, Recover
  PROVE  AsyncInv'
<1>1. /\ started' = FALSE /\ ring' = <<>> /\ owner' = "free" /\ entry' = <<>>
      /\ poisoned' = FALSE /\ accepted' = applied' /\ halted' = "no"
  BY DEF Recover, Start
<1>2. Core!CoreInv'
  BY Given, DisciplinedToo, RecoverIs, Core!StartStep, PolicyAssumption,
     EnvironmentAssumption
<1>3. accepted' \in Seq(Commands)
  BY <1>2 DEF Core!CoreInv, Core!TypeOK
<1>4. ThreadsTyped'
  BY <1>1, <1>3, NothingTyped DEF ThreadsTyped
<1>5. Order'
  <2>1. Pending' = <<>>
    BY <1>1 DEF Pending
  <2>2. ExecutesInOrder'
    BY <1>1, <1>3, SubSeqFull DEF ExecutesInOrder
  <2>3. QED
    BY <1>1, <2>1, <2>2 DEF Order, PendingNumbered, ConsumerIsNext
<1>6. OwnerInPlace' /\ FinalSnapshotComes'
  BY <1>1 DEF OwnerInPlace, FinalSnapshotComes
<1>7. QED
  BY <1>2, <1>4, <1>5, <1>6, Assembled

LEMMA AsyncStutterStep ==
  ASSUME AsyncInv, UNCHANGED allVars
  PROVE  AsyncInv'
<1>1. /\ UNCHANGED <<journalVars, up, halted, applied, inflight, lastSeq, sink, snaps>>
      /\ UNCHANGED <<started, ring, owner, entry, poisoned, accepted>>
  BY DEF allVars, vars, coreVars, asyncVars
<1>2. Core!CoreInv'
  BY <1>1, Given, CoreUntouched DEF Reported
<1>3. ThreadsTyped'
  BY <1>1, Given DEF ThreadsTyped
<1>4. Order'
  BY <1>1, Given, OrderKept DEF Pending
<1>5. OwnerInPlace' /\ FinalSnapshotComes'
  BY <1>1, Given DEF OwnerInPlace, FinalSnapshotComes
<1>6. QED
  BY <1>2, <1>3, <1>4, <1>5, Assembled

LEMMA AsyncInitStep ==
  ASSUME AsyncInit
  PROVE  AsyncInv
<1>1. /\ Init /\ started = FALSE /\ ring = <<>> /\ owner = "free" /\ entry = <<>>
      /\ poisoned = FALSE /\ accepted = <<>> /\ applied = <<>> /\ halted = "no"
  BY DEF AsyncInit, Init
<1>2. Core!Init
  BY <1>1 DEF Init, Core!Init, JournalInit, Core!JournalInit, Reported
<1>3. Core!CoreInv
  BY <1>2, Core!InitStep, PolicyAssumption, EnvironmentAssumption
<1>4. ThreadsTyped
  BY <1>1, NothingTyped DEF ThreadsTyped
<1>5. Pending = <<>>
  BY <1>1 DEF Pending
<1>6. Order
  BY <1>1, <1>5 DEF Order, ExecutesInOrder, PendingNumbered, ConsumerIsNext
<1>7. OwnerInPlace /\ FinalSnapshotComes
  BY <1>1 DEF OwnerInPlace, FinalSnapshotComes
<1>8. QED
  BY <1>3, <1>4, <1>6, <1>7, InvariantIs, ThreadTypes

LEMMA AsyncNextStep ==
  ASSUME Disciplined, AsyncInv, [AsyncNext]_allVars
  PROVE  AsyncInv'
<1>1. CASE Owner
  <2>1. CASE \E c \in Commands : SubmitAsync(c)
    BY <2>1, SubmitAsyncStep
  <2>2. CASE EndDrop
    BY <2>2, DeathAsyncStep
  <2>3. QED
    BY <1>1, <2>1, <2>2, EnableStep, CheckpointStep, StartupStep, SignalStep, PublishStep,
       ShutdownReturnsStep DEF Owner
<1>2. CASE Consumer
  BY <1>2, ExecuteStep, PersistStep DEF Consumer
<1>3. CASE CrashAsync \/ CrashInSubmitAsync \/ Repair
  BY <1>3, DeathAsyncStep
<1>4. CASE Recover
  BY <1>4, RecoverStep
<1>5. CASE UNCHANGED allVars
  BY <1>5, AsyncStutterStep
<1>6. QED
  BY <1>1, <1>2, <1>3, <1>4, <1>5 DEF AsyncNext

-----------------------------------------------------------------------------
(* Theorems *)

\* In a disciplined environment every reachable state of the asynchronous core
\* satisfies the inductive invariant; in particular journal, snapshots and numbers
\* are at any time those of a synchronous core that has executed all that was
\* accepted, and every entry on the ring carries its place in that history.
THEOREM AsyncInvariantHolds == Disciplined => (AsyncSpec => []AsyncInv)
<1> SUFFICES ASSUME Disciplined
             PROVE  AsyncSpec => []AsyncInv
  OBVIOUS
<1>1. AsyncInit => AsyncInv
  BY AsyncInitStep
<1>2. AsyncInv /\ [AsyncNext]_allVars => AsyncInv'
  BY AsyncNextStep
<1>3. QED
  BY <1>1, <1>2, PTL DEF AsyncSpec

\* A snapshot numbered k holds exactly the first k accepted commands, although its
\* number is fixed by the owner's thread and its content read by the consumer's.
THEOREM AsyncSnapshotsAreFaithful ==
  Disciplined => (AsyncSpec => []SnapshotsMatchTheirNumber)
<1>1. AsyncInv => SnapshotsMatchTheirNumber
  BY Given, CoreTypes DEF SnapshotsMatchTheirNumber
<1>2. QED
  BY <1>1, AsyncInvariantHolds, PTL

\* Whatever the consumer has not come to yet, and whatever it skips, is in the
\* snapshots and the log.
THEOREM NothingAcceptedIsLost == Disciplined => (AsyncSpec => []AcceptedIsRecoverable)
<1>1. ASSUME AsyncInv, up
      PROVE  RecoverFrom(wal) = accepted
  <2>1. Core!RecoverFrom(wal) = accepted
    BY <1>1, Given, Core!RunningRecovers, PolicyAssumption, EnvironmentAssumption
  <2>2. QED
    BY <2>1, SameReading
<1>2. AsyncInv => AcceptedIsRecoverable
  BY <1>1 DEF AcceptedIsRecoverable
<1>3. QED
  BY <1>2, AsyncInvariantHolds, PTL

\* The last snapshot of an orderly shutdown holds everything that was accepted.
THEOREM ShutdownCovers == Disciplined => (AsyncSpec => []ShutdownCoversEverything)
<1>1. ASSUME AsyncInv, up, halted # "no", started, sink, ~poisoned
      PROVE  lastSeq \in DOMAIN snaps /\ snaps[lastSeq] = accepted
  <2>1. lastSeq \in DOMAIN snaps
    BY <1>1, Given DEF FinalSnapshotComes
  <2>2. /\ accepted \in Seq(Commands) /\ lastSeq = Len(accepted)
        /\ snaps[lastSeq] = SubSeq(accepted, 1, lastSeq)
    BY <1>1, <2>1, Given, CoreTypes, CoreRunning
  <2>3. QED
    BY <2>1, <2>2, SubSeqFull
<1>2. AsyncInv => ShutdownCoversEverything
  BY <1>1 DEF ShutdownCoversEverything
<1>3. QED
  BY <1>2, AsyncInvariantHolds, PTL

\* The durable history is promised where the closing fsync of shutdown() cannot
\* fail, and where its failure costs nothing because every command is fsynced: a
\* second call of shutdown() answers Ok whatever the first one answered.
AsyncDisciplined == Disciplined /\ (FinalSyncFails => Policy = "EveryCommand")

\* A restart brings back a prefix of what was accepted and of the submission that
\* was cut short, short of at most what the sync policy allows.
LEMMA RecoverImplements ==
  ASSUME AsyncDisciplined, AsyncInv, Recover
  PROVE  AsyncHistory!Next
<1> USE PolicyAssumption, EnvironmentAssumption
<1>1. Disciplined /\ Core!Disciplined /\ Core!CoreInv /\ Core!Start
  BY DisciplinedToo, Given, RecoverIs DEF AsyncDisciplined
<1>2. PICK n \in 0..Len(Core!Submitted) : n = Core!SeqAt(wal, Len(wal))
  BY <1>1, Core!StartEffect
<1>3. /\ ~up /\ up' /\ Core!ReadEnd(wal) = Len(wal) /\ Len(wal) \in Nat
      /\ Core!Latest \in Nat /\ Core!Latest <= n
      /\ accepted' = SubSeq(Core!Submitted, 1, n)
  BY <1>1, <1>2, Core!StartEffect
<1>4. halted' = "no" /\ inflight' = <<>>
  BY DEF Recover, Start
<1>5. Core!Submitted = accepted \o inflight
  BY DEF Core!Submitted
<1>6. Len(accepted) \in Nat /\ n \in Nat /\ halted \in {"no", "ok", "err"}
  BY <1>1, CoreTypes, Given DEF Core!Submitted, ThreadsTyped
<1>7. MaxLoss = Core!MaxLoss /\ MaxLoss \in Nat
      /\ (FinalSyncFails => MaxLoss = 0)
  <2>1. MaxLoss \in Nat /\ (FinalSyncFails => MaxLoss = 0)
    BY DEF MaxLoss, AsyncDisciplined
  <2>2. QED
    BY <2>1, SameReading
<1>8. n + (IF halted = "no" THEN MaxLoss ELSE 0) >= Len(accepted)
  <2>1. PICK reach \in Nat : reach = (IF Core!ReadEnd(wal) = 0 THEN Core!Latest
                                                         ELSE wal[Core!ReadEnd(wal)].seq)
    BY <1>2, <1>3, <1>6 DEF Core!SeqAt
  <2>2. reach <= n
    BY <1>2, <1>3, <2>1, <1>6 DEF Core!SeqAt
  <2>3. reach + (IF Reported = "ok" THEN 0 ELSE MaxLoss) >= Len(accepted)
    BY <1>1, <1>3, <1>7, <2>1 DEF Core!CoreInv, Core!DeadReaches
  <2>4. Reported = "ok" <=> halted # "no" /\ ~FinalSyncFails
    BY DEF Reported
  <2>5. CASE FinalSyncFails
    BY <1>6, <1>7, <2>2, <2>3, <2>5
  <2>6. CASE ~FinalSyncFails
    BY <1>6, <1>7, <2>2, <2>3, <2>4, <2>6
  <2>7. QED
    BY <2>5, <2>6
<1>9. n \in 0..Len(accepted \o inflight)
  BY <1>5
<1>10. AsyncHistory!Restart(n)
  BY <1>3, <1>4, <1>5, <1>6, <1>8 DEF AsyncHistory!Restart
<1>11. QED
  BY <1>9, <1>10 DEF AsyncHistory!Next

LEMMA AsyncStepImplements ==
  ASSUME AsyncDisciplined, AsyncInv, [AsyncNext]_allVars
  PROVE  [AsyncHistory!Next]_(AsyncHistory!vars)
<1> USE DEF AsyncHistory!vars
<1>1. CASE \E c \in Commands : SubmitAsync(c)
  <2>1. PICK c \in Commands : SubmitAsync(c)
    BY <1>1
  <2>2. AsyncHistory!Apply(c)
    BY <2>1 DEF SubmitAsync, Admits, AsyncHistory!Apply
  <2>3. QED
    BY <2>2 DEF AsyncHistory!Next
<1>2. CASE ShutdownReturns
  <2>1. halted = "no"
    BY <1>2, Given DEF OwnerInPlace, ShutdownReturns
  <2>2. AsyncHistory!Shutdown
    BY <1>2, <2>1 DEF ShutdownReturns, AsyncHistory!Shutdown
  <2>3. QED
    BY <2>2 DEF AsyncHistory!Next
<1>3. CASE CrashAsync \/ EndDrop
  <2>1. up /\ up' = FALSE /\ UNCHANGED <<halted, accepted, inflight>>
    BY <1>3 DEF CrashAsync, EndDrop, Crash, Drop, asyncVars
  <2>2. inflight = <<>>
    BY <2>1, Given, CoreRunning
  <2>3. AsyncHistory!Die
    BY <2>1, <2>2 DEF AsyncHistory!Die
  <2>4. QED
    BY <2>3 DEF AsyncHistory!Next
<1>4. CASE CrashInSubmitAsync
  <2>1. PICK kind \in Failures, c \in Commands : CrashInSubmit(kind, c)
    BY <1>4 DEF CrashInSubmitAsync
  <2>2. /\ up /\ up' = FALSE /\ halted = "no" /\ UNCHANGED <<halted, accepted>>
        /\ inflight' = <<c>>
    BY <1>4, <2>1 DEF CrashInSubmitAsync, CrashInSubmit, Serving, asyncVars
  <2>3. AsyncHistory!Die
    BY <2>2 DEF AsyncHistory!Die
  <2>4. QED
    BY <2>3 DEF AsyncHistory!Next
<1>5. CASE Recover
  BY <1>5, RecoverImplements
<1>6. CASE \/ EnableSnapshotting \/ SyncCheckpoint \/ Startup \/ RequestAsync \/ Publish
           \/ CompactAsync \/ ShutdownAsync \/ BeginDrop
  BY <1>6 DEF EnableSnapshotting, SyncCheckpoint, Startup, RequestAsync, Publish,
              CompactAsync, ShutdownAsync, BeginDrop, Checkpoint, CompactJournal,
              vars, coreVars, asyncVars
<1>7. CASE ShutdownAgain
  BY <1>7 DEF ShutdownAgain, asyncVars
<1>8. CASE Consumer
  BY <1>8 DEF Consumer, Execute, Panic, Skip, Persist, vars, coreVars
<1>9. CASE Repair
  BY <1>9 DEF Repair, Truncate, coreVars, asyncVars
<1>10. CASE UNCHANGED allVars
  BY <1>10 DEF allVars, vars, coreVars, asyncVars
<1>11. QED
  BY <1>1, <1>2, <1>3, <1>4, <1>5, <1>6, <1>7, <1>8, <1>9, <1>10 DEF AsyncNext, Owner

\* The two threads together implement the durable history: what was accepted comes
\* back after a restart in order, each command once, short of at most MaxLoss of the
\* last ones, whether the consumer had executed it, had skipped it or had not come
\* to it.
THEOREM AsyncEngineIsDurable ==
  AsyncDisciplined => (AsyncSpec => AsyncImplementsDurableHistory)
<1> SUFFICES ASSUME AsyncDisciplined
             PROVE  AsyncSpec => AsyncImplementsDurableHistory
  OBVIOUS
<1>1. AsyncInit => AsyncHistory!Init
  BY DEF AsyncInit, Init, AsyncHistory!Init
<1>2. AsyncInv /\ [AsyncNext]_allVars => [AsyncHistory!Next]_(AsyncHistory!vars)
  BY AsyncStepImplements
<1>3. AsyncSpec => []AsyncInv
  BY AsyncInvariantHolds DEF AsyncDisciplined
<1>4. QED
  BY <1>1, <1>2, <1>3, PTL DEF AsyncSpec, AsyncImplementsDurableHistory, AsyncHistory!Spec
=============================================================================
