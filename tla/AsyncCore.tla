------------------------------- MODULE AsyncCore -------------------------------
(***************************************************************************)
(* ExchangeCore in its asynchronous mode: startup() hands the pipeline to a *)
(* consumer thread behind a bounded ring (the disruptor crate), and the     *)
(* thread that owns the core journals, numbers and publishes commands the   *)
(* consumer executes later.  The two threads share the ring, the poison     *)
(* flag the consumer raises when a command panics, and the snapshot         *)
(* directory, which the consumer fills while the owner compacts the log by  *)
(* it.                                                                      *)
(*                                                                          *)
(* Before startup() the core is the one of ExchangeCore, from which journal,*)
(* snapshot directory, recovery and the deaths of the process are taken.    *)
(***************************************************************************)
EXTENDS ExchangeCore

CONSTANTS
  RingSize,       \* slots of the ring buffer
  Fragile,        \* the commands whose execution may panic in the consumer: the
                  \* result consumer panics, and a replay has none
  Deadly,         \* the commands whose execution always panics
  FinalSyncFails  \* TRUE: the fsync that ends shutdown() may fail

ASSUME AsyncAssumption ==
  /\ RingSize \in Nat \ {0}
  /\ Fragile \subseteq Commands
  /\ Deadly \subseteq Commands
  /\ FinalSyncFails \in BOOLEAN

VARIABLES
  started,    \* has the pipeline been handed to the consumer thread
  ring,       \* the entries published and not yet consumed
  owner,      \* where the owner's thread is: "free" (between two calls),
              \* "publishing" (in submit_command), "signalling" (shutdown is
              \* publishing its signal), "joining" (shutdown waits for the consumer)
              \* or "dropping" (the core is dropped and waits for the consumer)
  entry,      \* what the owner is publishing: no entry or one
  poisoned,   \* the flag `poisoned`
  accepted    \* every command the core has accepted, in order: executed, skipped
              \* by a poisoned consumer, or on its way to it (history)

asyncVars == <<started, ring, owner, entry, poisoned, accepted>>
allVars == <<vars, asyncVars>>

\* Entries carry the number submit_command gave them.
Command(c, k) == [kind |-> "command", cmd |-> c, seq |-> k]
Control(kind) == [kind |-> kind, seq |-> lastSeq]

Entry == [kind : {"command"}, cmd : Commands, seq : Nat]
           \cup [kind : {"snapshot", "shutdown"}, seq : Nat]

AsyncInit ==
  /\ Init
  /\ started = FALSE
  /\ ring = <<>>
  /\ owner = "free"
  /\ entry = <<>>
  /\ poisoned = FALSE
  /\ accepted = <<>>

-----------------------------------------------------------------------------
(* The owner's thread, before startup() *)

\* enable_snapshotting, called once more after the snapshot was loaded: the
\* pipeline gets its snapshot_sink back.
EnableSnapshotting ==
  /\ up /\ ~started /\ ~sink
  /\ sink' = TRUE
  /\ UNCHANGED <<journalVars, up, halted, applied, inflight, lastSeq, snaps, asyncVars>>

SyncCheckpoint == ~started /\ Checkpoint /\ UNCHANGED asyncVars

\* startup
Startup ==
  /\ up /\ ~started
  /\ started' = TRUE
  /\ UNCHANGED <<vars, ring, owner, entry, poisoned, accepted>>

-----------------------------------------------------------------------------
(* The owner's thread, after startup() *)

\* A call that submit_command does not refuse (EngineStopped, EnginePoisoned).
Admits == up /\ started /\ owner = "free" /\ halted = "no" /\ ~poisoned

\* submit_command up to the call of publish.  A command the journal refused keeps
\* the number of the one before.
SubmitAsync(c) ==
  /\ Admits
  /\ Len(accepted) < MaxCommands
  /\ accepted' = Append(accepted, c)
  /\ \/ WriteCommand(c) /\ lastSeq' = nextSeq
     \/ (\E fault \in WriteFaults : WriteFails(c, fault)) /\ UNCHANGED lastSeq
  /\ entry' = <<Command(c, lastSeq')>>
  /\ owner' = "publishing"
  /\ UNCHANGED <<up, halted, applied, inflight, sink, snaps>>
  /\ UNCHANGED <<started, ring, poisoned>>

\* request_snapshot: a control command is not journalled.
RequestAsync ==
  /\ Admits
  /\ entry' = <<Control("snapshot")>>
  /\ owner' = "publishing"
  /\ UNCHANGED <<vars, started, ring, poisoned, accepted>>

\* Faulty variant: publish does not wait for a free slot.
PublishAtOnce ==
  /\ up /\ owner \in {"publishing", "signalling"}
  /\ ring' = ring \o entry
  /\ entry' = <<>>
  /\ owner' = IF owner = "publishing" THEN "free" ELSE "joining"
  /\ UNCHANGED <<vars, started, poisoned, accepted>>

\* Producer::publish: waits for a free slot.  submit_command returns Accepted
\* then; shutdown goes on to drop the producer.
Publish ==
  /\ up /\ owner \in {"publishing", "signalling"}
  /\ Len(ring) < RingSize
  /\ ring' = ring \o entry
  /\ entry' = <<>>
  /\ owner' = IF owner = "publishing" THEN "free" ELSE "joining"
  /\ UNCHANGED <<vars, started, poisoned, accepted>>

\* compact_journal, while the consumer may be writing snapshots.
CompactAsync ==
  /\ started /\ owner = "free"
  /\ CompactJournal
  /\ UNCHANGED asyncVars

\* shutdown up to its first wait: a poisoned engine gets no signal, the producer
\* is dropped at once.
ShutdownAsync ==
  /\ up /\ started /\ owner = "free" /\ halted = "no"
  /\ IF poisoned
     THEN owner' = "joining" /\ UNCHANGED entry
     ELSE owner' = "signalling" /\ entry' = <<Control("shutdown")>>
  /\ UNCHANGED <<vars, started, ring, poisoned, accepted>>

\* Faulty variant: the consumer is stopped where it is.
ShutdownReturnsEarly ==
  /\ up /\ owner = "joining"
  /\ owner' = "free"
  /\ \/ Sync /\ halted' = "ok"
     \/ FinalSyncFails /\ halted' = "err" /\ UNCHANGED journalVars
  /\ UNCHANGED <<up, applied, inflight, lastSeq, sink, snaps>>
  /\ UNCHANGED <<started, ring, entry, poisoned, accepted>>

\* The drop of the producer returns when the ring is drained and the consumer has
\* ended; the fsync of the journal follows.
ShutdownReturns ==
  /\ up /\ owner = "joining"
  /\ ring = <<>>
  /\ owner' = "free"
  /\ \/ Sync /\ halted' = "ok"
     \/ FinalSyncFails /\ halted' = "err" /\ UNCHANGED journalVars
  /\ UNCHANGED <<up, applied, inflight, lastSeq, sink, snaps>>
  /\ UNCHANGED <<started, ring, entry, poisoned, accepted>>

\* A second call of shutdown returns Ok and does nothing.
ShutdownAgain ==
  /\ up /\ started /\ owner = "free"
  /\ halted = "err"
  /\ halted' = "ok"
  /\ UNCHANGED <<journalVars, up, applied, inflight, lastSeq, sink, snaps, asyncVars>>

\* The core is dropped without shutdown(): the producer is dropped first and
\* drains the ring, then the journal's buffer is flushed.
BeginDrop ==
  /\ up /\ started /\ owner = "free"
  /\ owner' = "dropping"
  /\ UNCHANGED <<vars, started, ring, entry, poisoned, accepted>>

EndDrop ==
  /\ owner = "dropping" /\ ring = <<>>
  /\ Drop
  /\ UNCHANGED asyncVars

-----------------------------------------------------------------------------
(* The consumer thread: the handler startup() installs *)

Consuming == up /\ ring # <<>>

\* Faulty variant: the consumer waits until the ring is full.
ExecuteBatch ==
  /\ Consuming /\ ~poisoned
  /\ Len(ring) = RingSize
  /\ Head(ring).kind = "command"
  /\ Head(ring).cmd \notin Deadly
  /\ ring' = Tail(ring)
  /\ applied' = Append(applied, Head(ring).cmd)
  /\ UNCHANGED <<journalVars, up, halted, inflight, lastSeq, sink, snaps>>
  /\ UNCHANGED <<started, owner, entry, poisoned, accepted>>

\* A command is executed.
Execute ==
  /\ Consuming /\ ~poisoned
  /\ Head(ring).kind = "command"
  /\ Head(ring).cmd \notin Deadly
  /\ ring' = Tail(ring)
  /\ applied' = Append(applied, Head(ring).cmd)
  /\ UNCHANGED <<journalVars, up, halted, inflight, lastSeq, sink, snaps>>
  /\ UNCHANGED <<started, owner, entry, poisoned, accepted>>

\* Its execution panics.  The state may be half updated and is not touched again.
Panic ==
  /\ Consuming /\ ~poisoned
  /\ Head(ring).kind = "command"
  /\ Head(ring).cmd \in Fragile \cup Deadly
  /\ ring' = Tail(ring)
  /\ poisoned' = TRUE
  /\ UNCHANGED <<vars, started, owner, entry, accepted>>

\* Faulty variant: the consumer thread ends with the panic.
SkipNothing == FALSE

\* A poisoned consumer goes on taking entries off the ring.
Skip ==
  /\ Consuming /\ poisoned
  /\ ring' = Tail(ring)
  /\ UNCHANGED <<vars, started, owner, entry, poisoned, accepted>>

\* Faulty variant: the number is read when the snapshot is written.
PersistLate ==
  /\ Consuming /\ ~poisoned
  /\ Head(ring).kind # "command"
  /\ ring' = Tail(ring)
  /\ snaps' = IF sink THEN Saved(lastSeq, applied) ELSE snaps
  /\ UNCHANGED <<journalVars, up, halted, applied, inflight, lastSeq, sink>>
  /\ UNCHANGED <<started, owner, entry, poisoned, accepted>>

\* persist_state, for a snapshot request and for the shutdown signal: the state
\* as it is now, under the number the entry brought.  Without a snapshot_sink
\* nothing is written.
Persist ==
  /\ Consuming /\ ~poisoned
  /\ Head(ring).kind # "command"
  /\ ring' = Tail(ring)
  /\ snaps' = IF sink THEN Saved(Head(ring).seq, applied) ELSE snaps
  /\ UNCHANGED <<journalVars, up, halted, applied, inflight, lastSeq, sink>>
  /\ UNCHANGED <<started, owner, entry, poisoned, accepted>>

-----------------------------------------------------------------------------
(* Death and recovery.  The ring dies with the process: what the dead one had  *)
(* in it is kept as history until the next start.                              *)

CrashAsync ==
  /\ \E kind \in Failures : Crash(kind)
  /\ UNCHANGED asyncVars

CrashInSubmitAsync ==
  /\ Admits
  /\ Len(accepted) < MaxCommands
  /\ \E kind \in Failures, c \in Commands : CrashInSubmit(kind, c)
  /\ UNCHANGED asyncVars

\* Faulty variant: the poison flag outlives the restart.
RecoverPoisoned ==
  /\ \A i \in DOMAIN RecoverFrom(wal) : RecoverFrom(wal)[i] \notin Deadly
  /\ Start
  /\ started' = FALSE
  /\ ring' = <<>>
  /\ owner' = "free"
  /\ entry' = <<>>
  /\ accepted' = applied'
  /\ UNCHANGED poisoned

\* Recovery as in ExchangeCore.  Replay executes in the caller's thread, where a
\* panic is not caught and ends it.
Recover ==
  /\ \A i \in DOMAIN RecoverFrom(wal) : RecoverFrom(wal)[i] \notin Deadly
  /\ Start
  /\ started' = FALSE
  /\ ring' = <<>>
  /\ owner' = "free"
  /\ entry' = <<>>
  /\ poisoned' = FALSE
  /\ accepted' = applied'

Repair == Truncate /\ UNCHANGED asyncVars

Consumer == Execute \/ Panic \/ Skip \/ Persist

Owner ==
  \/ EnableSnapshotting
  \/ SyncCheckpoint
  \/ Startup
  \/ \E c \in Commands : SubmitAsync(c)
  \/ RequestAsync
  \/ Publish
  \/ CompactAsync
  \/ ShutdownAsync
  \/ ShutdownReturns
  \/ ShutdownAgain
  \/ BeginDrop
  \/ EndDrop

AsyncNext ==
  \/ Owner
  \/ Consumer
  \/ CrashAsync
  \/ CrashInSubmitAsync
  \/ Recover
  \/ Repair

\* The consumer busy-spins, so it takes every entry that is there (BusySpin); the
\* owner's thread goes on inside a call.  Nobody is obliged to make a call.
Fairness ==
  /\ WF_allVars(Consumer)
  /\ WF_allVars(Publish)
  /\ WF_allVars(ShutdownReturns)
  /\ WF_allVars(EndDrop)

AsyncSpec == AsyncInit /\ [][AsyncNext]_allVars /\ Fairness

\* Somebody who shuts a poisoned engine down and restarts it, as the log message
\* of the poisoned consumer asks for.
Operator ==
  /\ WF_allVars(poisoned /\ ShutdownAsync)
  /\ WF_allVars(poisoned /\ halted # "no" /\ BeginDrop)
  /\ WF_allVars(Repair)
  /\ WF_allVars(Recover)

-----------------------------------------------------------------------------
(* Properties *)

\* Types; the ring never holds more than its slots.
AsyncTypeOK ==
  /\ TypeOK
  /\ started \in BOOLEAN
  /\ poisoned \in BOOLEAN
  /\ owner \in {"free", "publishing", "signalling", "joining", "dropping"}
  /\ ring \in Seq(Entry) /\ Len(ring) <= RingSize
  /\ entry \in Seq(Entry) /\ Len(entry) <= 1
  /\ accepted \in Seq(Commands)

\* However snapshot requests, commands, panics and compactions of the two threads
\* interleave, the snapshot numbered k holds exactly the first k accepted
\* commands (the number is fixed when the request is made, exchange.rs:471-473,
\* the state is read when it comes off the ring): a half-executed command is in
\* none of them.
SnapshotsMatchTheirNumber ==
  \A k \in DOMAIN snaps : snaps[k] = SubSeq(accepted, 1, k) /\ k <= Len(accepted)

\* Everything the core accepted and neither the newest snapshot nor the log holds
\* would be lost with the ring.  There is no such command: journalling comes
\* before publishing, and compaction stays below the newest snapshot although the
\* consumer keeps writing them.
AcceptedIsRecoverable ==
  up => RecoverFrom(wal) = accepted

\* After an orderly shutdown of an unpoisoned engine with a snapshot_sink the
\* newest snapshot holds everything it ever accepted (exchange.rs:129, 146): the
\* ring was drained before the last snapshot was written.  It holds as well when
\* the closing fsync failed and shutdown was called again.
ShutdownCoversEverything ==
  up /\ halted # "no" /\ started /\ sink /\ ~poisoned =>
    lastSeq \in DOMAIN snaps /\ snaps[lastSeq] = accepted

\* Over crashes, shutdowns and restarts, what was accepted is a durable history:
\* a command still in the ring when the process died, or skipped because an
\* earlier one panicked, is executed after the restart, in its place.
AsyncHistory == INSTANCE DurableHistory WITH
  history <- accepted,
  pending <- inflight,
  phase <- IF up THEN IF halted = "no" THEN "serving" ELSE "stopped"
                 ELSE IF halted = "no" THEN "dead" ELSE "gone"

AsyncImplementsDurableHistory == AsyncHistory!Spec

(***************************************************************************)
(* The inductive invariant behind the safety properties, in a disciplined   *)
(* environment.  Journal, snapshots and numbers do not notice that commands *)
(* are executed later: they are those of a synchronous core that has        *)
(* executed all that was accepted (AsIfExecuted), whose invariant the        *)
(* asynchronous one inherits.  What is left to say is where the consumer is *)
(* in the history, and what the entries on their way to it hold.            *)
(*                                                                          *)
(* Where the closing fsync may fail, shutdown() promises nothing about the   *)
(* disk and is no operation of the synchronous core (Reported).             *)
(***************************************************************************)
Reported == IF halted = "no" \/ FinalSyncFails THEN "no" ELSE "ok"

AsIfExecuted == INSTANCE ExchangeCore WITH applied <- accepted, halted <- Reported

\* The entries on their way to the consumer.
Pending == ring \o entry

\* The consumer has executed a prefix of what was accepted.
ExecutesInOrder ==
  /\ Len(applied) <= Len(accepted)
  /\ applied = SubSeq(accepted, 1, Len(applied))

\* A command carries its place in the history, a control entry that of the last
\* command before it; nothing is missing between two entries, nor behind the last.
Follows(e, k) == e.seq = IF e.kind = "command" THEN k + 1 ELSE k

PendingNumbered ==
  /\ \A i \in 1..Len(Pending) :
       /\ Pending[i].seq <= Len(accepted)
       /\ Pending[i].kind = "command" =>
            Pending[i].seq > 0 /\ Pending[i].cmd = accepted[Pending[i].seq]
       /\ i > 1 => Follows(Pending[i], Pending[i - 1].seq)
  /\ Len(Pending) > 0 => Pending[Len(Pending)].seq = Len(accepted)

\* A consumer that is not poisoned has executed all that comes before the ring.
ConsumerIsNext ==
  ~poisoned =>
    IF Len(Pending) > 0 THEN Follows(Pending[1], Len(applied))
                        ELSE Len(applied) = Len(accepted)

\* Where the owner's thread can be.
OwnerInPlace ==
  /\ Len(entry) = IF owner \in {"publishing", "signalling"} THEN 1 ELSE 0
  /\ ~started => owner = "free" /\ ring = <<>> /\ ~poisoned /\ halted = "no"
  /\ halted # "no" => owner \in {"free", "dropping"}
  /\ halted = "err" => FinalSyncFails

\* The shutdown signal is the last entry of the ring, and the snapshot it makes
\* is the last one.
FinalSnapshotComes ==
  ~poisoned =>
    LET done == sink => lastSeq \in DOMAIN snaps IN
    /\ owner = "signalling" => entry[1].kind = "shutdown"
    /\ owner = "joining" =>
         IF Len(ring) > 0 THEN ring[Len(ring)].kind = "shutdown" ELSE done
    /\ halted # "no" => done

AsyncInv ==
  /\ AsyncTypeOK
  /\ AsIfExecuted!CoreInv
  /\ ExecutesInOrder
  /\ PendingNumbered
  /\ ConsumerIsNext
  /\ OwnerInPlace
  /\ FinalSnapshotComes

\* shutdown() returns: the ring drains whether or not the engine is poisoned, and
\* a full ring does not keep the signal out for ever.
ShutdownEnds ==
  owner \in {"signalling", "joining"} ~> (halted # "no" \/ ~up)

\* Every accepted command is executed, unless a panic or a death comes first.
AcceptedIsExecuted ==
  \A n \in 1..MaxCommands :
    Len(accepted) >= n ~> (Len(applied) >= n \/ poisoned \/ ~up)

\* A poisoned engine works again once somebody shuts it down and restarts it from
\* snapshot and journal (exchange.rs:246-247).
PoisonIsCured == Operator => (poisoned ~> (up /\ ~poisoned))
=============================================================================
