---------------------------- MODULE DurableHistory ----------------------------
(***************************************************************************)
(* What the persistent engine promises, without saying how: the state of   *)
(* the exchange is the effect of a history of commands.  Commands extend    *)
(* the history while the engine serves; when the process dies and is        *)
(* started again the history comes back in order and without repetition,    *)
(* short of at most MaxLoss of its last commands, and complete after an     *)
(* orderly shutdown.  A command that was being submitted when the process   *)
(* died (pending) may or may not be part of what comes back.                *)
(***************************************************************************)
EXTENDS Naturals, Sequences

CONSTANTS Commands, MaxLoss

VARIABLES history, pending, phase

vars == <<history, pending, phase>>

Init == history = <<>> /\ pending = <<>> /\ phase = "serving"

Apply(c) ==
  /\ phase = "serving"
  /\ history' = Append(history, c)
  /\ UNCHANGED <<pending, phase>>

Shutdown ==
  /\ phase = "serving"
  /\ phase' = "stopped"
  /\ UNCHANGED <<history, pending>>

\* Only a serving engine can die with a command in its hands.
Die ==
  /\ \/ phase = "serving" /\ phase' = "dead"
     \/ phase = "stopped" /\ phase' = "gone"
  /\ \/ pending' = <<>>
     \/ phase = "serving" /\ \E c \in Commands : pending' = <<c>>
  /\ UNCHANGED history

\* n commands of the history come back, or all of it and the pending one.
Restart(n) ==
  /\ phase \in {"dead", "gone"}
  /\ n + (IF phase = "gone" THEN 0 ELSE MaxLoss) >= Len(history)
  /\ history' = SubSeq(history \o pending, 1, n)
  /\ pending' = <<>>
  /\ phase' = "serving"

Next ==
  \/ \E c \in Commands : Apply(c)
  \/ Shutdown
  \/ Die
  \/ \E n \in 0..Len(history \o pending) : Restart(n)

Spec == Init /\ [][Next]_vars
=============================================================================
