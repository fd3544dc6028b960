----------------------------- MODULE ExchangeCore -----------------------------
(***************************************************************************)
(* ExchangeCore (src/src/core/exchange.rs) in its synchronous mode, which   *)
(* is how matching-server runs it: every command is written to the journal  *)
(* and then executed in place.  The module composes the journal with the    *)
(* snapshot store (src/src/core/snapshot.rs), the in-band snapshot of the   *)
(* pipeline, shutdown, the death of the process or of the machine at any    *)
(* point of a submission, and recovery as build_engine of                   *)
(* src/src/bin/server.rs performs it.                                       *)
(*                                                                          *)
(* Executing a command is deterministic, so the state of the pipeline is    *)
(* represented by the sequence of commands it has executed: `applied`.  A   *)
(* snapshot is such a sequence too.                                         *)
(***************************************************************************)
EXTENDS Journal

CONSTANTS
  MaxCommands,           \* bound on the length of applied
  Failures,              \* subset of {"process", "power"}: how the program dies
  WriteFaults,           \* subset of {"lost", "torn", "fsync"}
  TailDamage,            \* subset of {"torn", "crc"}: what a crash leaves behind
  RepairTail,            \* TRUE: a damaged tail is truncated before a restart
  RestartBehindSnapshot, \* TRUE: a restart may find a log that ends before the
                         \* newest snapshot
  InheritedTailAtRisk    \* TRUE: records a dead process left in the page cache
                         \* may still be lost after the restart

ASSUME EnvironmentAssumption ==
  /\ MaxCommands \in Nat
  /\ Failures \subseteq {"process", "power"}
  /\ WriteFaults \subseteq {"lost", "torn", "fsync"}
  /\ TailDamage \subseteq {"torn", "crc"}
  /\ RepairTail \in BOOLEAN
  /\ RestartBehindSnapshot \in BOOLEAN
  /\ InheritedTailAtRisk \in BOOLEAN

VARIABLES
  up,         \* is the process running
  halted,     \* what the last shutdown() returned: "no" (not called), "ok", "err"
  applied,    \* the commands the pipeline has executed; while the process is
              \* down, those the dead one had executed (history)
  inflight,   \* the command whose submission the crash interrupted (history)
  lastSeq,    \* ExchangeCore.last_seq
  sink,       \* does the pipeline hold a snapshot_sink
  snaps       \* the snapshot directory: snapshot number -> content

coreVars == <<up, halted, applied, inflight, lastSeq, sink, snaps>>
vars == <<journalVars, coreVars>>

\* The largest of a set of snapshot numbers; 0 stands for None.
Newest(ids) ==
  IF ids = {} THEN 0 ELSE CHOOSE k \in ids : \A j \in ids : j <= k

\* get_latest_seq_id
Latest == Newest(DOMAIN snaps)

\* What load_latest_snapshot and replay_journal make of the log f: the content of
\* the newest snapshot, then every readable command numbered after it.
RecoverFrom(f) ==
  (IF DOMAIN snaps = {} THEN <<>> ELSE snaps[Latest]) \o ReadAfter(f, Latest)

\* save_snapshot: atomic (temporary file, fsync, rename, fsync of the directory),
\* and a file of the same number is replaced.
Saved(k, state) ==
  [j \in DOMAIN snaps \cup {k} |-> IF j = k THEN state ELSE snaps[j]]

Init ==
  /\ JournalInit
  /\ up = TRUE
  /\ halted = "no"
  /\ applied = <<>>
  /\ inflight = <<>>
  /\ lastSeq = 0
  /\ sink = TRUE
  /\ snaps = [k \in {} |-> <<>>]

-----------------------------------------------------------------------------
(* Operations of a running core *)

Serving == up /\ halted = "no" /\ Len(applied) < MaxCommands

\* submit_command: journal first, then execute.
Submit(c) ==
  /\ Serving
  /\ WriteCommand(c)
  /\ lastSeq' = nextSeq
  /\ applied' = Append(applied, c)
  /\ UNCHANGED <<up, halted, inflight, sink, snaps>>

\* submit_command when the journal reports an error: the command is executed
\* all the same and last_seq stays.
SubmitUnlogged(c) ==
  /\ Serving
  /\ \E fault \in WriteFaults : WriteFails(c, fault)
  /\ applied' = Append(applied, c)
  /\ UNCHANGED <<up, halted, inflight, lastSeq, sink, snaps>>

\* sync_journal
SyncJournal ==
  /\ up
  /\ Sync
  /\ UNCHANGED coreVars

\* take_snapshot.  It does not touch the journal.
TakeSnapshot ==
  /\ up
  /\ snaps' = Saved(lastSeq, applied)
  /\ UNCHANGED <<journalVars, up, halted, applied, inflight, lastSeq, sink>>

\* request_snapshot: the control command is not journalled and is answered with
\* an error when the pipeline has no sink (that case changes nothing).
RequestSnapshot ==
  /\ up /\ halted = "no"
  /\ sink
  /\ snaps' = Saved(lastSeq, applied)
  /\ UNCHANGED <<journalVars, up, halted, applied, inflight, lastSeq, sink>>

\* Faulty variant: compaction up to the last command instead of the last snapshot.
CompactJournalToLast ==
  /\ up
  /\ DOMAIN snaps # {}
  /\ CompactBefore(lastSeq)
  /\ UNCHANGED coreVars

\* compact_journal
CompactJournal ==
  /\ up
  /\ DOMAIN snaps # {}
  /\ CompactBefore(Latest)
  /\ UNCHANGED coreVars

\* checkpoint: the snapshot first, then the compaction up to the newest one.
Checkpoint ==
  /\ up
  /\ snaps' = Saved(lastSeq, applied)
  /\ CompactBefore(Latest')
  /\ UNCHANGED <<up, halted, applied, inflight, lastSeq, sink>>

\* Faulty variant: shutdown without the closing fsync.
ShutdownUnsynced ==
  /\ up
  /\ UNCHANGED <<up, applied, inflight, lastSeq, sink, journalVars>>
  /\ halted' = "ok"
  /\ snaps' = IF halted = "no" /\ sink THEN Saved(lastSeq, applied) ELSE snaps

\* shutdown: a final snapshot through the pipeline, then fsync of the journal.
\* A second call returns Ok without doing anything.
Shutdown ==
  /\ up
  /\ UNCHANGED <<up, applied, inflight, lastSeq, sink>>
  /\ IF halted = "no"
     THEN /\ snaps' = IF sink THEN Saved(lastSeq, applied) ELSE snaps
          /\ \/ Sync /\ halted' = "ok"
             \/ /\ "fsync" \in WriteFaults
                /\ halted' = "err"
                /\ UNCHANGED journalVars
     ELSE halted' = "ok" /\ UNCHANGED <<journalVars, snaps>>

-----------------------------------------------------------------------------
(* Failure and recovery *)

\* The machine or the process dies between two operations.  A dying process
\* leaves exactly what had left its buffer; a power failure may also take what
\* was not fsynced.
Crash(kind) ==
  /\ up
  /\ up' = FALSE
  /\ \E k \in (IF kind = "power" THEN diskLen ELSE osLen)..osLen :
     \E damage \in {"none"} \cup (TailDamage \cap
                     (IF kind = "power" THEN {"torn", "crc"} ELSE {"torn"})) :
       /\ Survives(wal, k, damage)
       /\ diskLen' = IF kind = "power" THEN Len(wal') ELSE diskLen
  /\ UNCHANGED <<halted, applied, inflight, lastSeq, sink, snaps>>

\* It dies inside submit_command: the record may have got anywhere between the
\* buffer and the disk, and the command is not executed.
CrashInSubmit(kind, c) ==
  /\ Serving
  /\ up' = FALSE
  /\ inflight' = <<c>>
  /\ LET f == Append(wal, [seq |-> nextSeq, cmd |-> c, st |-> "ok"]) IN
     \E k \in (IF kind = "power" THEN diskLen ELSE osLen)..Len(f) :
     \E damage \in {"none"} \cup (TailDamage \cap
                     (IF kind = "power" THEN {"torn", "crc"} ELSE {"torn"})) :
       /\ Survives(f, k, damage)
       /\ diskLen' = IF kind = "power" THEN Len(wal') ELSE diskLen
  /\ UNCHANGED <<halted, applied, lastSeq, sink, snaps>>

\* The core is dropped: the BufWriter flushes what it holds.
Drop ==
  /\ up
  /\ up' = FALSE
  /\ osLen' = Len(wal)
  /\ UNCHANGED <<wal, diskLen, nextSeq, sinceSync>>
  /\ UNCHANGED <<halted, applied, inflight, lastSeq, sink, snaps>>

\* Journaler::truncate_to_last_valid, called while no core has the log open.
Truncate ==
  /\ ~up
  /\ TruncateToLastValid
  /\ UNCHANGED coreVars

\* build_engine: open the journal, load the newest snapshot, replay the rest.
\* A pipeline rebuilt from a snapshot has no snapshot_sink.
Start ==
  /\ ~up
  /\ RepairTail => ScanEnd(wal) = Len(wal)
  /\ RestartBehindSnapshot \/ Latest <= SeqAt(wal, ReadEnd(wal))
  /\ up' = TRUE
  /\ halted' = "no"
  /\ inflight' = <<>>
  /\ Open
  /\ diskLen' = IF InheritedTailAtRisk THEN diskLen ELSE Len(wal)
  /\ applied' = RecoverFrom(wal)
  /\ lastSeq' = IF SeqAt(wal, ReadEnd(wal)) > Latest
                THEN SeqAt(wal, ReadEnd(wal)) ELSE Latest
  /\ sink' = (DOMAIN snaps = {})
  /\ UNCHANGED <<wal, snaps>>

Next ==
  \/ \E c \in Commands : Submit(c)
  \/ \E c \in Commands : SubmitUnlogged(c)
  \/ SyncJournal
  \/ TakeSnapshot
  \/ RequestSnapshot
  \/ CompactJournal
  \/ Checkpoint
  \/ Shutdown
  \/ \E kind \in Failures : Crash(kind)
  \/ \E kind \in Failures, c \in Commands : CrashInSubmit(kind, c)
  \/ Drop
  \/ Truncate
  \/ Start

Spec == Init /\ [][Next]_vars

-----------------------------------------------------------------------------
(* Properties *)

TypeOK ==
  /\ JournalTypeOK
  /\ up \in BOOLEAN
  /\ halted \in {"no", "ok", "err"}
  /\ applied \in Seq(Commands)
  /\ inflight \in Seq(Commands)
  /\ lastSeq \in Nat
  /\ sink \in BOOLEAN
  /\ DOMAIN snaps \subseteq Nat
  /\ \A k \in DOMAIN snaps : snaps[k] \in Seq(Commands)

\* A snapshot numbered k holds the effect of exactly the first k commands of
\* the history: never one more (it would be executed twice by the replay that
\* starts after k) and never one less (it would be skipped).
SnapshotsFaithful ==
  \A k \in DOMAIN snaps :
    k <= Len(applied) /\ snaps[k] = SubSeq(applied, 1, k)

\* Compaction, checkpoints, snapshots by either route, shutdown and restarts
\* together never open a gap: at any moment of a running core, every command
\* it has executed is covered by the newest snapshot or still has its record in
\* the log, under its own number.
HistoryCovered ==
  up => \A i \in 1..Len(applied) :
          \/ i <= Latest
          \/ \E j \in 1..ReadEnd(wal) : wal[j].seq = i /\ wal[j].cmd = applied[i]

\* The number the next record gets follows the number of the last executed
\* command: what ties the numbers of snapshots to positions in the log.
NumberingAligned == up => nextSeq = lastSeq + 1

\* A core that has been shut down has nothing left to lose: whatever happens to
\* the process or the machine, the snapshots and the part of the log that is on
\* stable storage give back the whole history.
StoppedIsRecoverable ==
  up /\ halted = "ok" =>
    RecoverFrom(SubSeq(wal, 1, diskLen)) = applied

\* The commands a crash may take away: none when every command is fsynced, up
\* to N-1 with group commit (SyncPolicy, journal.rs:52-60).  Without fsync the
\* journal promises nothing and the bound is the length of the history.
MaxLoss ==
  CASE Policy = "EveryCommand" -> 0
    [] Policy = "EveryN" -> IF N = 0 THEN 0 ELSE N - 1
    [] OTHER -> MaxCommands

\* The engine over journal, snapshots and restarts is a durable history.
History == INSTANCE DurableHistory WITH
  history <- applied,
  pending <- inflight,
  phase <- IF up THEN IF halted = "no" THEN "serving" ELSE "stopped"
                 ELSE IF halted = "no" THEN "dead" ELSE "gone"

\* Recovery returns the executed commands in order, each once, short of at
\* most MaxLoss of the last ones.
ImplementsDurableHistory == History!Spec

(***************************************************************************)
(* The inductive invariant behind these properties.  It is about the        *)
(* disciplined environments: the journal's writes succeed, a damaged tail   *)
(* is at most one torn record and is truncated before the restart, and the  *)
(* log reaches the newest snapshot.  SnapshotsFaithful, HistoryCovered and  *)
(* StoppedIsRecoverable are not inductive: they need to know that the       *)
(* numbers in the log are consecutive, where they stand relative to the     *)
(* snapshots, and how far the disk is behind.                               *)
(***************************************************************************)
Disciplined ==
  /\ WriteFaults = {}
  /\ TailDamage \subseteq {"torn"}
  /\ RepairTail
  /\ ~RestartBehindSnapshot
  /\ ~InheritedTailAtRisk

\* Everything that was submitted: what was executed and what a crash cut short.
Submitted == applied \o inflight

\* Only a crash damages a record, and only the last one.
LogClean ==
  \A i \in 1..Len(wal) :
    wal[i].st = "ok" \/ (~up /\ i = Len(wal) /\ wal[i].st = "torn")

\* The numbers in the log are consecutive.
LogNumbered ==
  \A i \in 1..Len(wal) : wal[i].seq = wal[1].seq + (i - 1)  /\ wal[i].seq > 0

\* Record number k is the k-th command of the history.
LogIsHistory ==
  \A i \in 1..Len(wal) :
    wal[i].st = "ok" =>
      wal[i].seq <= Len(Submitted) /\ wal[i].cmd = Submitted[wal[i].seq]

\* The log takes over where the newest snapshot ends, or earlier.
LogMeetsSnapshot ==
  Len(wal) > 0 /\ wal[1].st = "ok" => wal[1].seq <= Latest + 1

\* The snapshot directory is empty or has a newest file.
NewestExists ==
  DOMAIN snaps # {} => \E k \in DOMAIN snaps : \A j \in DOMAIN snaps : j <= k

\* A running core knows where it is.
RunningAligned ==
  up =>
    /\ inflight = <<>>
    /\ lastSeq = Len(applied)
    /\ nextSeq = Len(applied) + 1
    /\ IF Len(wal) > 0 THEN wal[Len(wal)].seq = Len(applied)
                       ELSE Latest = Len(applied)

\* How far the disk may be behind the log of a running core.
RunningDurable ==
  up =>
    /\ Len(wal) <= diskLen + sinceSync
    /\ Policy # "Never" => sinceSync <= MaxLoss
    /\ halted = "ok" => diskLen = Len(wal)

\* How far a dead core's log still reaches.
DeadReaches ==
  ~up =>
    /\ halted = "ok" => inflight = <<>>
    /\ LET reach == IF ReadEnd(wal) = 0 THEN Latest ELSE wal[ReadEnd(wal)].seq
       IN  reach + (IF halted = "ok" THEN 0 ELSE MaxLoss) >= Len(applied)

CoreInv ==
  /\ TypeOK
  /\ halted # "err"
  /\ Len(Submitted) <= MaxCommands
  /\ SnapshotsFaithful
  /\ NewestExists
  /\ LogClean
  /\ LogNumbered
  /\ LogIsHistory
  /\ LogMeetsSnapshot
  /\ RunningAligned
  /\ RunningDurable
  /\ DeadReaches

\* A restart never makes the core execute more than was submitted: no command
\* comes back twice (exchange.rs:501-502, "replaying again would place and
\* charge the order twice").
NeverTwice ==
  [][~up /\ up' => Len(applied') <= Len(applied) + Len(inflight)]_vars

\* What the core has executed with every command fsynced is there after a
\* restart.
NothingAcknowledgedIsLost ==
  [][~up /\ up' => Len(applied') >= Len(applied)]_vars

\* The commands that have a record in the journal come back, short of at most
\* MaxLoss: last_seq after a restart says how far.
LoggedComesBack == [][~up /\ up' => lastSeq' + MaxLoss >= lastSeq]_vars

\* shutdown() leaves a snapshot that covers the whole log, so that the log can
\* be compacted away (exchange.rs:129, 146).
FinalSnapshotCoversLog == up /\ halted = "ok" => lastSeq \in DOMAIN snaps
=============================================================================
