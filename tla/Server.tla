-------------------------------- MODULE Server --------------------------------
(***************************************************************************)
(* matching-server (src/src/bin/server.rs): HTTP handlers hand requests to  *)
(* one engine thread through an unbounded FIFO channel and wait for the     *)
(* answer on a channel of their own (ask); on SIGTERM the HTTP side ends    *)
(* first, then the engine is asked to shut down, then the process exits.    *)
(*                                                                          *)
(* The engine is taken for what ExchangeCore is shown to be, a              *)
(* DurableHistory.  The clients are those the interface asks for            *)
(* (BalanceReq): each deposits with transaction ids 1, 2, ... and repeats a *)
(* deposit until it has an answer; any number of its requests may have lost *)
(* their answer and may still be on their way.                              *)
(***************************************************************************)
EXTENDS Naturals, Sequences, FiniteSets

CONSTANTS
  Clients,
  MaxTx,        \* deposits each client wants to make
  MaxRequests,  \* client -> bound on the requests it sends
  MaxDeaths,    \* bound on how often the process dies
  MaxLoss       \* commands a death may take away: 0 with
                \* WAL_SYNC=always, up to N - 1 with WAL_SYNC=N

ASSUME ServerAssumption ==
  /\ MaxTx \in Nat /\ MaxDeaths \in Nat /\ MaxLoss \in Nat
  /\ MaxRequests \in [Clients -> Nat]

VARIABLES
  history,    \* the commands the engine has executed
  pending,    \* the command a death of the process interrupted
  phase,      \* of the engine as a durable history
  server,     \* the process: "up", "closing" (SIGTERM received, HTTP is finishing),
              \* "stopping" (Shutdown sent to the engine), "exited" or "dead"
  engine,     \* its engine thread: "running", "stopped" (left its loop) or "panicked"
  arriving,   \* requests on their way to a handler
  channel,    \* requests in the channel of the engine thread
  answers,    \* answers on their way back to a client that still waits
  waiting,    \* client -> number of the request it waits for, 0: none
  sent,       \* client -> requests sent so far
  confirmed,  \* client -> the last transaction it has an answer for
  deaths      \* how often the process has died

historyVars == <<history, pending, phase>>
clientVars == <<waiting, sent, confirmed>>
vars == <<historyVars, server, engine, arriving, channel, answers, clientVars, deaths>>

Deposits == [uid : Clients, tx : 1..MaxTx]
Requests == [kind : {"deposit", "query"}, client : Clients, tx : Nat \ {0}, n : Nat \ {0}]
ShutdownMessage == [kind |-> "shutdown"]
Answers ==
  [to : Requests, code : {"Success", "Duplicate", "Ok", "503"}, balance : Nat]

Engine == INSTANCE DurableHistory WITH Commands <- Deposits

\* Faulty variant: a transaction id may be repeated.
CreditsAgain(h, i) ==
  \A j \in 1..(i - 1) : h[j].uid = h[i].uid => h[j].tx <= h[i].tx

\* balance_adjustment: the i-th command of h takes effect unless its transaction id
\* is not above the last one of its user.
Credits(h, i) ==
  \A j \in 1..(i - 1) : h[j].uid = h[i].uid => h[j].tx < h[i].tx

\* The balance of c after the commands of h, each deposit being of 1.
Balance(h, c) == Cardinality({i \in 1..Len(h) : h[i].uid = c /\ Credits(h, i)})

Awaited(r) == waiting[r.client] = r.n
SameRequest(r, q) == r.client = q.client /\ r.n = q.n

Init ==
  /\ Engine!Init
  /\ server = "up" /\ engine = "running"
  /\ arriving = {} /\ channel = <<>> /\ answers = {}
  /\ waiting = [c \in Clients |-> 0]
  /\ sent = [c \in Clients |-> 0]
  /\ confirmed = [c \in Clients |-> 0]
  /\ deaths = 0

-----------------------------------------------------------------------------
(* Clients and network *)

\* A client sends its next deposit (again), or asks for its balance.
Send(c, kind) ==
  /\ server = "up"
  /\ waiting[c] = 0 /\ sent[c] < MaxRequests[c]
  /\ kind = "deposit" => confirmed[c] < MaxTx
  /\ arriving' = arriving \cup
       {[kind |-> kind, client |-> c, tx |-> confirmed[c] + 1, n |-> sent[c] + 1]}
  /\ sent' = [sent EXCEPT ![c] = @ + 1]
  /\ waiting' = [waiting EXCEPT ![c] = sent[c] + 1]
  /\ UNCHANGED <<historyVars, server, engine, channel, answers, confirmed, deaths>>

\* Faulty variant: the answer stays on its way.
GiveUpOnly(c) ==
  /\ waiting[c] # 0
  /\ waiting' = [waiting EXCEPT ![c] = 0]
  /\ UNCHANGED <<historyVars, server, engine, arriving, channel, answers, sent, confirmed, deaths>>

\* A client stops waiting (timeout, disconnect): the handler is dropped with the
\* receiver of the answer, the request goes its way.
GiveUp(c) ==
  /\ waiting[c] # 0
  /\ waiting' = [waiting EXCEPT ![c] = 0]
  /\ answers' = {a \in answers : a.to.client # c}
  /\ UNCHANGED <<historyVars, server, engine, arriving, channel, sent, confirmed, deaths>>

\* The connection breaks, or is refused, before the server has read the request.
Lose(r) ==
  /\ r \in arriving
  /\ arriving' = arriving \ {r}
  /\ waiting' = [waiting EXCEPT ![r.client] = IF Awaited(r) THEN 0 ELSE @]
  /\ UNCHANGED <<historyVars, server, engine, channel, answers, sent, confirmed, deaths>>

\* The response reaches the client.  Success and Duplicate both tell it that the
\* deposit has been made; 503 tells it nothing.
Deliver(a) ==
  /\ a \in answers
  /\ answers' = answers \ {a}
  /\ waiting' = [waiting EXCEPT ![a.to.client] = 0]
  /\ confirmed' = [confirmed EXCEPT ![a.to.client] =
                     IF a.code \in {"Success", "Duplicate"} THEN a.to.tx ELSE @]
  /\ UNCHANGED <<historyVars, server, engine, arriving, channel, sent, deaths>>

-----------------------------------------------------------------------------
(* Handlers and engine thread *)

\* What is left of the answer for a client that no longer waits: nothing.
Answer(r, code, balance) ==
  answers \cup {a \in {[to |-> r, code |-> code, balance |-> balance]} : Awaited(r)}

\* The reply senders of these requests are dropped: 503.
Unavailable(rs) ==
  answers \cup {[to |-> r, code |-> "503", balance |-> 0] : r \in {q \in rs : Awaited(q)}}

Queued == {channel[i] : i \in {j \in DOMAIN channel : channel[j].kind # "shutdown"}}

\* A handler runs up to its wait: ask() sends the request, or finds the receiver of
\* the engine thread gone.
Enqueue(r) ==
  /\ r \in arriving
  /\ server \in {"up", "closing", "stopping"}
  /\ arriving' = arriving \ {r}
  /\ IF engine = "running"
     THEN channel' = Append(channel, r) /\ UNCHANGED answers
     ELSE answers' = Unavailable({r}) /\ UNCHANGED channel
  /\ UNCHANGED <<historyVars, server, engine, clientVars, deaths>>

EngineTakes(kind) ==
  /\ engine = "running" /\ server \in {"up", "closing", "stopping"}
  /\ channel # <<>> /\ Head(channel).kind = kind

\* engine_thread, EngineReq::Command
HandleCommand ==
  /\ EngineTakes("deposit")
  /\ LET r == Head(channel) IN
     /\ Engine!Apply([uid |-> r.client, tx |-> r.tx])
     /\ answers' = Answer(r, IF Credits(history', Len(history')) THEN "Success"
                             ELSE "Duplicate", 0)
  /\ channel' = Tail(channel)
  /\ UNCHANGED <<server, engine, arriving, clientVars, deaths>>

\* Faulty variant: the balance is that of before the last command.
HandleQueryBehind ==
  /\ EngineTakes("query")
  /\ LET r == Head(channel)
         n == IF history = <<>> THEN 0 ELSE Len(history) - 1
     IN  answers' = Answer(r, "Ok", Balance(SubSeq(history, 1, n), r.client))
  /\ channel' = Tail(channel)
  /\ UNCHANGED <<historyVars, server, engine, arriving, clientVars, deaths>>

\* engine_thread, EngineReq::Balance; Depth and Status are reads as well.
HandleQuery ==
  /\ EngineTakes("query")
  /\ LET r == Head(channel) IN answers' = Answer(r, "Ok", Balance(history, r.client))
  /\ channel' = Tail(channel)
  /\ UNCHANGED <<historyVars, server, engine, arriving, clientVars, deaths>>

\* Faulty variant: the loop is left and the core dropped as it is.
HandleShutdownBare ==
  /\ EngineTakes("shutdown")
  /\ engine' = "stopped"
  /\ answers' = Unavailable(Queued)
  /\ channel' = <<>>
  /\ UNCHANGED <<historyVars, server, arriving, clientVars, deaths>>

\* engine_thread, EngineReq::Shutdown: the core is shut down and the loop left; what
\* is behind it in the channel is dropped.
HandleShutdown ==
  /\ EngineTakes("shutdown")
  /\ Engine!Shutdown
  /\ engine' = "stopped"
  /\ answers' = Unavailable(Queued)
  /\ channel' = <<>>
  /\ UNCHANGED <<server, arriving, clientVars, deaths>>

\* Faulty variant: the engine thread dies and its channel stays.
EnginePanicsSilently ==
  /\ EngineTakes("deposit")
  /\ Engine!Die
  /\ pending' = <<[uid |-> Head(channel).client, tx |-> Head(channel).tx]>>
  /\ engine' = "panicked"
  /\ UNCHANGED <<server, arriving, channel, answers, clientVars, deaths>>

\* submit_command panics: the command is in the journal, the engine thread is gone,
\* the process is not.
EnginePanics ==
  /\ EngineTakes("deposit")
  /\ Engine!Die
  /\ pending' = <<[uid |-> Head(channel).client, tx |-> Head(channel).tx]>>
  /\ engine' = "panicked"
  /\ answers' = Unavailable(Queued)
  /\ channel' = <<>>
  /\ UNCHANGED <<server, arriving, clientVars, deaths>>

-----------------------------------------------------------------------------
(* main *)

Sigterm ==
  /\ server = "up"
  /\ server' = "closing"
  /\ UNCHANGED <<historyVars, engine, arriving, channel, answers, clientVars, deaths>>

\* Faulty variant: the engine is shut down before the handlers have finished.
HttpStoppedEarly ==
  /\ server = "closing"
  /\ IF engine = "running"
     THEN server' = "stopping" /\ channel' = Append(channel, ShutdownMessage)
     ELSE server' = "exited" /\ UNCHANGED channel
  /\ UNCHANGED <<historyVars, engine, arriving, answers, clientVars, deaths>>

\* axum::serve returns when every handler has answered; then Shutdown is sent.  If
\* the engine thread is gone there is nothing to wait for.
HttpStopped ==
  /\ server = "closing"
  /\ arriving = {} /\ answers = {}
  /\ \A r \in Queued : ~Awaited(r)
  /\ IF engine = "running"
     THEN server' = "stopping" /\ channel' = Append(channel, ShutdownMessage)
     ELSE server' = "exited" /\ UNCHANGED channel
  /\ UNCHANGED <<historyVars, engine, arriving, answers, clientVars, deaths>>

\* Faulty variant: main waits for the answer to Shutdown and nothing else.
ExitOnAnswer ==
  /\ server = "stopping" /\ engine = "stopped"
  /\ server' = "exited"
  /\ Engine!Die /\ pending' = <<>>
  /\ UNCHANGED <<engine, arriving, channel, answers, clientVars, deaths>>

\* The answer to Shutdown, or its absence, ends main after the join.
Exit ==
  /\ server = "stopping" /\ engine # "running"
  /\ server' = "exited"
  /\ IF engine = "stopped" THEN Engine!Die /\ pending' = <<>> ELSE UNCHANGED historyVars
  /\ UNCHANGED <<engine, arriving, channel, answers, clientVars, deaths>>

\* The process is killed, possibly inside a command.
Die ==
  /\ server \in {"up", "closing", "stopping"}
  /\ deaths < MaxDeaths
  /\ deaths' = deaths + 1
  /\ server' = "dead"
  /\ IF engine = "panicked" THEN UNCHANGED historyVars
     ELSE /\ Engine!Die
          /\ pending' # <<>> =>
               EngineTakes("deposit") /\ pending'[1].uid = Head(channel).client
                                      /\ pending'[1].tx = Head(channel).tx
  /\ arriving' = {} /\ channel' = <<>> /\ answers' = {}
  /\ waiting' = [c \in Clients |-> 0]
  /\ UNCHANGED <<engine, sent, confirmed>>

\* build_engine of the next process.  A command that made the engine panic makes
\* the replay panic in the same place.
Restart ==
  /\ server \in {"exited", "dead"} /\ engine # "panicked"
  /\ \E n \in 0..Len(history \o pending) : Engine!Restart(n)
  /\ server' = "up" /\ engine' = "running"
  /\ UNCHANGED <<arriving, channel, answers, clientVars, deaths>>

Next ==
  \/ \E c \in Clients, kind \in {"deposit", "query"} : Send(c, kind)
  \/ \E c \in Clients : GiveUp(c)
  \/ \E r \in arriving : Lose(r)
  \/ \E a \in answers : Deliver(a)
  \/ \E r \in arriving : Enqueue(r)
  \/ HandleCommand
  \/ HandleQuery
  \/ HandleShutdown
  \/ EnginePanics
  \/ Sigterm
  \/ HttpStopped
  \/ Exit
  \/ Die
  \/ Restart

\* The runtime polls a handler whose input is there, the engine thread loops on
\* blocking_recv, responses are written, and main goes on once it can.  Clients,
\* signals and restarts are nobody's duty.
Fairness ==
  /\ WF_vars(\E r \in arriving : Enqueue(r))
  /\ WF_vars(HandleCommand \/ HandleQuery \/ HandleShutdown)
  /\ WF_vars(\E a \in answers : Deliver(a))
  /\ WF_vars(HttpStopped)
  /\ WF_vars(Exit)

Spec == Init /\ [][Next]_vars /\ Fairness

-----------------------------------------------------------------------------
(* Properties *)

\* Types; a client has at most one answer on its way, to the request it waits for.
TypeOK ==
  /\ history \in Seq(Deposits)
  /\ pending \in Seq(Deposits) /\ Len(pending) <= 1
  /\ phase \in {"serving", "stopped", "dead", "gone"}
  /\ server \in {"up", "closing", "stopping", "exited", "dead"}
  /\ engine \in {"running", "stopped", "panicked"}
  /\ arriving \subseteq Requests
  /\ channel \in Seq(Requests \cup {ShutdownMessage})
  /\ answers \subseteq Answers
  /\ waiting \in [Clients -> Nat] /\ sent \in [Clients -> Nat]
  /\ confirmed \in [Clients -> Nat] /\ deaths \in Nat
  /\ \A a \in answers : Awaited(a.to)
  /\ \A a, b \in answers : a.to.client = b.to.client => a = b

\* Over lost answers, repeated requests, deaths of the process and restarts, a
\* client's balance holds every deposit it has an answer for exactly once, and at
\* most the one it is trying in addition; each death may have taken MaxLoss away
\* (BalanceReq: repeated ids are ignored; WAL_SYNC, server.rs:38-39).
DepositsCountOnce ==
  \A c \in Clients :
    /\ Balance(history, c) <= confirmed[c] + 1
    /\ confirmed[c] <= Balance(history, c) + MaxLoss * deaths

\* What a client reads contains all its confirmed deposits, as far as no death has
\* taken them: reads travel through the same channel and thread as commands.
ReadsSeeConfirmed ==
  \A a \in answers : a.code = "Ok" =>
    /\ a.balance <= confirmed[a.to.client] + 1
    /\ confirmed[a.to.client] <= a.balance + MaxLoss * deaths

\* An orderly stop turns nobody away: a handler that was let in gets the engine's
\* own answer (server.rs:577-578), 503 is for an engine thread that has panicked.
StopTurnsNobodyAway == \A a \in answers : a.code = "503" => engine = "panicked"

\* The process, its engine thread and the durable history agree on who is alive;
\* the message that stops the engine thread is sent after the handlers have ended.
Lifecycle ==
  /\ engine = "running" =>
       server # "exited" /\ phase = IF server = "dead" THEN "dead" ELSE "serving"
  /\ engine = "stopped" =>
       /\ server \in {"stopping", "exited", "dead"}
       /\ phase = IF server = "stopping" THEN "stopped" ELSE "gone"
  /\ engine = "panicked" => phase = "dead"
  /\ phase # "dead" => pending = <<>>
  /\ engine # "running" \/ server = "dead" => channel = <<>>
  /\ server \notin {"up", "closing"} =>
       arriving = {} /\ answers = {} /\ \A r \in Queued : ~Awaited(r)
  /\ server # "stopping" => \A i \in DOMAIN channel : channel[i] # ShutdownMessage

\* A request is in one place at a time: on its way, in the channel or answered.
InOnePlace ==
  /\ \A r, q \in arriving : SameRequest(r, q) => r = q
  /\ \A r \in arriving, q \in Queued : ~SameRequest(r, q)
  /\ \A i, j \in DOMAIN channel :
       /\ channel[i] # ShutdownMessage /\ channel[j] # ShutdownMessage
       /\ SameRequest(channel[i], channel[j])
       => i = j
  /\ \A a \in answers, r \in arriving \cup Queued : ~SameRequest(a.to, r)
  /\ \A r \in arriving \cup Queued : r.n <= sent[r.client]

InFlight == arriving \cup Queued \cup {a.to : a \in answers}

\* Nobody asks for a deposit beyond the next one, and who is waiting asks for that.
NextDeposit ==
  /\ \A r \in InFlight :
       /\ r.tx <= confirmed[r.client] + 1
       /\ Awaited(r) => r.tx = confirmed[r.client] + 1
       /\ r.kind = "deposit" => r.tx <= MaxTx
  /\ \A i \in DOMAIN history : history[i].tx <= confirmed[history[i].uid] + 1
  /\ \A i \in DOMAIN pending : pending[i].tx <= confirmed[pending[i].uid] + 1

\* A transaction id is no higher than the deposits made when it came, and those
\* that the deaths so far may have taken.
Backed ==
  /\ \A i \in DOMAIN history :
       history[i].tx <= Balance(SubSeq(history, 1, i), history[i].uid) + MaxLoss * deaths
  /\ \A a \in answers : a.code \in {"Success", "Duplicate"} =>
       a.to.tx <= Balance(history, a.to.client) + MaxLoss * deaths
  /\ server = "dead" /\ engine # "panicked" => \A c \in Clients :
       confirmed[c] + MaxLoss <= Balance(history, c) + MaxLoss * deaths

\* All of it together is inductive.
ServerInv ==
  /\ TypeOK /\ Lifecycle /\ InOnePlace /\ NextDeposit /\ Backed
  /\ DepositsCountOnce /\ ReadsSeeConfirmed /\ StopTurnsNobodyAway

\* An orderly stop leaves nothing behind: when the process has exited by itself,
\* the next one starts with everything that was executed.
ExitKeepsAll ==
  [][server = "exited" /\ server' = "up" => history' = history]_vars

\* Every request comes to an end for the client, whether the engine thread answers,
\* has panicked or is shut down meanwhile.
EveryRequestEnds ==
  \A c \in Clients : \A n \in 1..MaxRequests[c] : waiting[c] = n ~> waiting[c] # n

\* SIGTERM ends the process, with or without a living engine thread.
SigtermEnds == server = "closing" ~> server \in {"exited", "dead"}
=============================================================================
