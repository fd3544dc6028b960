------------------------------- MODULE Journal -------------------------------
(***************************************************************************)
(* The write-ahead log of src/src/core/journal.rs: one append-only file of  *)
(* checksummed records, written through a BufWriter, made durable by the    *)
(* sync policy, shortened from the front by compaction and from the back    *)
(* by truncation.                                                           *)
(*                                                                          *)
(* A record is [seq, cmd, st].  st says what a reader finds there:          *)
(*   "ok"    a complete record with a valid checksum                        *)
(*   "torn"  bytes whose header or length cannot be parsed                  *)
(*   "crc"   a complete record whose payload fails its checksum             *)
(*                                                                          *)
(* wal is the byte stream the process has produced, record by record.  Its  *)
(* first osLen records have left the BufWriter for the OS file (they        *)
(* survive the death of the process) and its first diskLen records have     *)
(* been fsynced (they survive the loss of power).                           *)
(***************************************************************************)
EXTENDS Naturals, Sequences

CONSTANTS
  Commands,     \* the order commands a client can submit
  Policy,       \* SyncPolicy: "EveryCommand", "EveryN" or "Never"
  N             \* the parameter of SyncPolicy::EveryN

ASSUME PolicyAssumption ==
  Policy \in {"EveryCommand", "EveryN", "Never"} /\ N \in Nat

VARIABLES
  wal,          \* the records written so far, oldest first
  osLen,        \* how many of them have reached the OS file
  diskLen,      \* how many of them have reached stable storage
  nextSeq,      \* Journaler.next_seq
  sinceSync     \* Journaler.since_sync

journalVars == <<wal, osLen, diskLen, nextSeq, sinceSync>>

Status == {"ok", "torn", "crc"}
Record == [seq : Nat, cmd : Commands, st : Status]

-----------------------------------------------------------------------------
(* Reading the log *)

\* How many of the positions 1..n come before the first position in S.
Leading(n, S) ==
  IF S = {} THEN n ELSE (CHOOSE i \in S : \A j \in S : i <= j) - 1

\* scan_headers: headers and lengths only, so a record with a bad checksum
\* still counts as complete.
ScanEnd(f) == Leading(Len(f), {i \in 1..Len(f) : f[i].st = "torn"})

\* read_commands_after: stops at the first record it cannot trust.
ReadEnd(f) == Leading(Len(f), {i \in 1..Len(f) : f[i].st # "ok"})

\* The last sequence number among the first n records, 0 when there is none.
SeqAt(f, n) == IF n = 0 THEN 0 ELSE f[n].seq

\* How many of the first n records have a sequence number up to k.  Sequence
\* numbers grow along the file, so these records are a prefix of it.
Covered(f, n, k) == Leading(n, {i \in 1..n : f[i].seq > k})

\* Faulty variant: the records a snapshot covers are replayed as well.
ReadAll(f, k) == [i \in 1..ReadEnd(f) |-> f[i].cmd]

\* The commands read_commands_after(k) returns.
ReadAfter(f, k) ==
  LET n == ReadEnd(f)
      s == Covered(f, n, k)
  IN  [i \in 1..(n - s) |-> f[s + i].cmd]

-----------------------------------------------------------------------------
(* Operations of the Journaler.  Each fixes every variable of journalVars. *)

\* Faulty variant: the numbering starts afresh with every opening.
OpenAfresh ==
  /\ nextSeq' = 1
  /\ sinceSync' = 0
  /\ osLen' = Len(wal)

\* with_sync_policy: the numbering goes on from what the header scan finds.
Open ==
  /\ nextSeq' = SeqAt(wal, ScanEnd(wal)) + 1
  /\ sinceSync' = 0
  /\ osLen' = Len(wal)

\* Journaler::sync
Sync ==
  /\ osLen' = Len(wal)
  /\ diskLen' = Len(wal)
  /\ sinceSync' = 0
  /\ UNCHANGED <<wal, nextSeq>>

\* Faulty variant: the counter is compared with > instead of >=.
ShouldSyncLate(s) ==
  \/ Policy = "EveryCommand"
  \/ Policy = "EveryN" /\ s > (IF N = 0 THEN 1 ELSE N)

\* The condition of maybe_sync.
ShouldSync(s) ==
  \/ Policy = "EveryCommand"
  \/ Policy = "EveryN" /\ s >= (IF N = 0 THEN 1 ELSE N)

\* The BufWriter hands its whole content over when the next piece does not fit,
\* and keeps everything otherwise.
Buffered == osLen' \in {osLen, Len(wal)} /\ diskLen' = diskLen

\* write_command, every step of it succeeding.
WriteCommand(c) ==
  /\ wal' = Append(wal, [seq |-> nextSeq, cmd |-> c, st |-> "ok"])
  /\ nextSeq' = nextSeq + 1
  /\ IF ShouldSync(sinceSync + 1)
     THEN osLen' = Len(wal') /\ diskLen' = Len(wal') /\ sinceSync' = 0
     ELSE Buffered /\ sinceSync' = sinceSync + 1

\* write_command returning an error.
\* A piece can fail to be buffered only when the buffer is full, so the first two
\* need records that wait in it.
\*   "lost"  nothing of the record was written
\*   "torn"  a piece of it was buffered before the error
\*   "fsync" it was appended and numbered, and flush or fsync failed
WriteFails(c, fault) ==
  \/ /\ fault = "lost"
     /\ osLen < Len(wal)
     /\ UNCHANGED journalVars
  \/ /\ fault = "torn"
     /\ osLen < Len(wal)
     /\ wal' = Append(wal, [seq |-> nextSeq, cmd |-> c, st |-> "torn"])
     /\ Buffered
     /\ UNCHANGED <<nextSeq, sinceSync>>
  \/ /\ fault = "fsync"
     /\ ShouldSync(sinceSync + 1)
     /\ wal' = Append(wal, [seq |-> nextSeq, cmd |-> c, st |-> "ok"])
     /\ nextSeq' = nextSeq + 1
     /\ sinceSync' = sinceSync + 1
     /\ osLen' \in {osLen, Len(wal')} /\ diskLen' = diskLen

\* compact_before(k): what has to be kept is copied to a new file that
\* atomically replaces the old one; a damaged tail is cut off on the way.
CompactBefore(k) ==
  LET e == ScanEnd(wal)
      s == Covered(wal, e, k)
  IN  IF s = 0 /\ e = Len(wal)
      THEN Sync
      ELSE /\ wal' = SubSeq(wal, s + 1, e)
           /\ osLen' = e - s
           /\ diskLen' = e - s
           /\ sinceSync' = 0
           /\ UNCHANGED nextSeq

\* truncate_to_last_valid, on the file of a process that is not running.
TruncateToLastValid ==
  /\ ScanEnd(wal) < Len(wal)
  /\ wal' = SubSeq(wal, 1, ScanEnd(wal))
  /\ osLen' = ScanEnd(wal)
  /\ diskLen' = ScanEnd(wal)
  /\ UNCHANGED <<nextSeq, sinceSync>>

\* A crash leaves k records of the stream f on the file, and possibly a damaged
\* piece of the next one; `damage` is "none", "torn" or "crc".
Survives(f, k, damage) ==
  /\ damage # "none" => k < Len(f)
  /\ wal' = IF damage = "none" THEN SubSeq(f, 1, k)
            ELSE Append(SubSeq(f, 1, k), [f[k + 1] EXCEPT !.st = damage])
  /\ osLen' = Len(wal')
  /\ UNCHANGED <<nextSeq, sinceSync>>

-----------------------------------------------------------------------------
JournalInit ==
  /\ wal = <<>>
  /\ osLen = 0
  /\ diskLen = 0
  /\ nextSeq = 1
  /\ sinceSync = 0

JournalTypeOK ==
  /\ wal \in Seq(Record)
  /\ osLen \in 0..Len(wal)
  /\ diskLen \in 0..osLen
  /\ nextSeq \in Nat
  /\ sinceSync \in Nat
=============================================================================
