-------------------------- MODULE CommandPipeline --------------------------
(***************************************************************************)
(* The path of an admin's command to one device and of its results back:   *)
(*                                                                         *)
(*   SendCommand (internal/server/command.go) saves a row, then enqueues   *)
(*   on the session's CmdQueue; the session's commandConsumer goroutine    *)
(*   dequeues, sends on the gRPC stream, marks the row Sent and starts a   *)
(*   timeout watcher; the client (internal/client/client.go, executor.go)  *)
(*   runs commands one at a time and streams results back; the Channel     *)
(*   goroutine (internal/server/server.go) writes each result to the row.  *)
(*                                                                         *)
(* Sessions are numbered in the order of their Register calls; a client    *)
(* that reconnects registers a new one.  A stream carries messages in      *)
(* order until it is cut (network loss, client teardown, server crash);    *)
(* a cut loses a suffix of what is in flight in either direction.          *)
(***************************************************************************)
EXTENDS Naturals, Sequences, FiniteSets

CONSTANTS
    Commands,       \* command ids an admin may generate
    Kind,           \* Kind[c]: "work" (COLLECT_NOW, RUN_SCRIPT, unsupported), "restart", "shutdown"
    None,           \* no command
    QueueCap,       \* cmdQueueCapacity
    MaxSession,     \* bound: sessions registered by the device
    MaxCrash,       \* bound: crashes of the server process
    MaxStoreFault   \* bound: store writes that fail (an error the code only logs)

ASSUME CommandsAssumption == None \notin Commands
ASSUME KindAssumption == Kind \in [Commands -> {"work", "restart", "shutdown"}]
ASSUME QueueCapAssumption == QueueCap \in Nat \ {0}
ASSUME BoundsAssumption == MaxSession \in Nat /\ MaxCrash \in Nat /\ MaxStoreFault \in Nat

Sessions == 1..MaxSession
Statuses == {"Absent", "Pending", "Sent", "Executing", "Completed", "Failed", "Timeout"}
Final == {"Completed", "Failed", "Timeout"}
Results == [cmd : Commands, status : {"Executing", "Completed", "Failed"}]

VARIABLES
    \* server memory
    latest,     \* number of sessions registered; GetTerminalByDevice returns this one
    channel,    \* Channel handler of a session: "none", "open", "draining", "closed"
    online,     \* ClientConn.Online
    kicked,     \* ClientConn.DisconnectCh is closed
    queue,      \* ClientConn.CmdQueue
    consumer,   \* commandConsumer: "off", "select", "send", "mark"
    held,       \* the command the consumer holds, or None
    watcher,    \* watchCommandTimeout of a command: "off", "armed", "fired", "lost"
    admin,      \* SendCommand call: "idle", "saved", then its reply
    target,     \* session that call found, 0 before
    \* store, and the bounded failures
    status,     \* command_logs.status
    crashes, storeFaults,
    \* the gRPC stream of a session
    link,       \* "up" or "cut"
    down,       \* commands sent and not yet received by the client
    up,         \* results sent and not yet received by the server
    \* client process
    client,     \* "disconnected", "connecting", "ready", "running", "hung" (a script that is over
                \* left a process that holds its output), "flushing", "exited"
    session,    \* its current session, 0 before the first
    current,    \* the command being executed, or None
    \* history
    accepted,   \* accepted[s]: commands put on s's queue, in order
    started,    \* started[s]: commands the client began in s, in order
    outcome,    \* how a command ended on the client, "None" before
    refused     \* commands the server gave up on: queue full, or send failed

sessionVars == <<latest, channel, online, kicked>>
consumerVars == <<queue, consumer, held>>
callVars == <<admin, target>>
storeVars == <<status, crashes, storeFaults>>
linkVars == <<link, down, up>>
clientVars == <<client, session, current>>
historyVars == <<accepted, started, outcome, refused>>
vars == <<sessionVars, consumerVars, watcher, callVars, storeVars, linkVars, clientVars, historyVars>>

Prefix(q, n) == SubSeq(q, 1, n)
Elements(q) == {q[i] : i \in DOMAIN q}

Init ==
    /\ latest = 0
    /\ channel = [s \in Sessions |-> "none"]
    /\ online = [s \in Sessions |-> FALSE]
    /\ kicked = [s \in Sessions |-> FALSE]
    /\ queue = [s \in Sessions |-> <<>>]
    /\ consumer = [s \in Sessions |-> "off"]
    /\ held = [s \in Sessions |-> None]
    /\ watcher = [c \in Commands |-> "off"]
    /\ admin = [c \in Commands |-> "idle"]
    /\ target = [c \in Commands |-> 0]
    /\ status = [c \in Commands |-> "Absent"]
    /\ crashes = 0
    /\ storeFaults = 0
    /\ link = [s \in Sessions |-> "up"]
    /\ down = [s \in Sessions |-> <<>>]
    /\ up = [s \in Sessions |-> <<>>]
    /\ client = "disconnected"
    /\ session = 0
    /\ current = None
    /\ accepted = [s \in Sessions |-> <<>>]
    /\ started = [s \in Sessions |-> <<>>]
    /\ outcome = [c \in Commands |-> "None"]
    /\ refused = {}

\* UPDATE command_logs SET status = v: unconditional; an error leaves the row.
WriteStatus(c, v) ==
    \/ /\ status' = [status EXCEPT ![c] = v]
       /\ UNCHANGED <<crashes, storeFaults>>
    \/ /\ storeFaults < MaxStoreFault
       /\ storeFaults' = storeFaults + 1
       /\ UNCHANGED <<status, crashes>>

(***************************************************************************)
(* SendCommand: look up the latest session, save the row, enqueue.         *)
(***************************************************************************)

Reply(c, reply) == admin' = [admin EXCEPT ![c] = reply]

\* No terminal row, no ClientConn (server restarted), or Online is false.
SendOffline(c) ==
    /\ admin[c] = "idle"
    /\ \A s \in Sessions : s = latest => ~online[s]
    /\ Reply(c, "offline")
    /\ UNCHANGED <<sessionVars, consumerVars, watcher, target, storeVars, linkVars, clientVars, historyVars>>

\* SaveCommandLog; when it fails the call returns an error and nothing is sent.
SendSave(c) ==
    /\ admin[c] = "idle"
    /\ \E s \in Sessions : s = latest /\ online[s]
    /\ target' = [target EXCEPT ![c] = latest]
    /\ WriteStatus(c, "Pending")
    /\ Reply(c, IF status' = status THEN "error" ELSE "saved")
    /\ UNCHANGED <<sessionVars, consumerVars, watcher, linkVars, clientVars, historyVars>>

\* The select of the non-blocking enqueue finds room, ...
SendEnqueue(c) ==
    /\ admin[c] = "saved"
    /\ Len(queue[target[c]]) < QueueCap
    /\ queue' = [queue EXCEPT ![target[c]] = Append(@, c)]
    /\ accepted' = [accepted EXCEPT ![target[c]] = Append(@, c)]
    /\ Reply(c, "queued")
    /\ UNCHANGED <<sessionVars, consumer, held, watcher, target, storeVars, linkVars, clientVars,
                   started, outcome, refused>>

\* ... or takes its default branch.
SendFull(c) ==
    /\ admin[c] = "saved"
    /\ Len(queue[target[c]]) >= QueueCap
    /\ WriteStatus(c, "Failed")
    /\ Reply(c, "full")
    /\ refused' = refused \cup {c}
    /\ UNCHANGED <<sessionVars, consumerVars, watcher, target, linkVars, clientVars,
                   accepted, started, outcome>>

(***************************************************************************)
(* commandConsumer of session s, and the timeout watchers it starts.       *)
(***************************************************************************)

\* Mutant: a command is dropped if the heartbeat has expired meanwhile.
DequeueIfOnline(s) ==
    /\ consumer[s] = "select"
    /\ queue[s] # <<>>
    /\ held' = [held EXCEPT ![s] = IF online[s] THEN Head(queue[s]) ELSE None]
    /\ queue' = [queue EXCEPT ![s] = Tail(@)]
    /\ consumer' = [consumer EXCEPT ![s] = IF online[s] THEN "send" ELSE "select"]
    /\ UNCHANGED <<sessionVars, watcher, callVars, storeVars, linkVars, clientVars, historyVars>>

\* The select takes the queue; after cancel() both its cases may be ready.
Dequeue(s) ==
    /\ consumer[s] = "select"
    /\ queue[s] # <<>>
    /\ held' = [held EXCEPT ![s] = Head(queue[s])]
    /\ queue' = [queue EXCEPT ![s] = Tail(@)]
    /\ consumer' = [consumer EXCEPT ![s] = "send"]
    /\ UNCHANGED <<sessionVars, watcher, callVars, storeVars, linkVars, clientVars, historyVars>>

\* What the stream carries after a send: on a stream already cut it goes nowhere.
Transmit(s) == IF link[s] = "up" THEN Append(down[s], held[s]) ELSE down[s]

\* stream.Send accepts the message.
SendOK(s) ==
    /\ consumer[s] = "send"
    /\ down' = [down EXCEPT ![s] = Transmit(s)]
    /\ consumer' = [consumer EXCEPT ![s] = "mark"]
    /\ UNCHANGED <<sessionVars, queue, held, watcher, callVars, storeVars, link, up, clientVars, historyVars>>

\* Mutant: the command is forgotten, but the consumer does not go back to its select.
LoopOnForgets(s) == held' = [held EXCEPT ![s] = None] /\ UNCHANGED consumer

\* The consumer is done with its command and goes back to its select.
LoopOn(s) ==
    /\ held' = [held EXCEPT ![s] = None]
    /\ consumer' = [consumer EXCEPT ![s] = "select"]

\* stream.Send fails: the command is marked Failed, the loop continues.
SendFails(s) ==
    /\ consumer[s] = "send"
    /\ link[s] = "cut"
    /\ WriteStatus(held[s], "Failed")
    /\ refused' = refused \cup {held[s]}
    /\ LoopOn(s)
    /\ UNCHANGED <<sessionVars, queue, watcher, callVars, linkVars, clientVars, accepted, started, outcome>>

\* Mutant: no watcher is started.
Unwatched(c) == UNCHANGED watcher

\* go watchCommandTimeout.
Watch(c) == watcher' = [watcher EXCEPT ![c] = "armed"]

\* The Sent update comes after the send, whatever the row says by then.
MarkSent(s) ==
    /\ consumer[s] = "mark"
    /\ WriteStatus(held[s], "Sent")
    /\ Watch(held[s])
    /\ LoopOn(s)
    /\ UNCHANGED <<sessionVars, queue, callVars, linkVars, clientVars, historyVars>>

\* Mutant: the consumer also returns when it finds the queue empty.
CancelledOrIdle(s) == channel[s] = "draining" \/ queue[s] = <<>>

\* The consumer's ctx.Done.
Cancelled(s) == channel[s] = "draining"

ConsumerExit(s) ==
    /\ consumer[s] = "select"
    /\ Cancelled(s)
    /\ consumer' = [consumer EXCEPT ![s] = "off"]
    /\ UNCHANGED <<sessionVars, queue, held, watcher, callVars, storeVars, linkVars, clientVars, historyVars>>

\* MarkCommandTimeout: conditional on the row, tried once.
Timeout(c) ==
    /\ watcher[c] = "armed"
    /\ watcher' = [watcher EXCEPT ![c] = "fired"]
    /\ IF status[c] \in {"Pending", "Sent", "Executing"}
         THEN WriteStatus(c, "Timeout")
         ELSE UNCHANGED storeVars
    /\ UNCHANGED <<sessionVars, consumerVars, callVars, linkVars, clientVars, historyVars>>

(***************************************************************************)
(* The Channel handler of session s.                                       *)
(***************************************************************************)

\* The handler starts: SetStream, then the consumer goroutine.
OpenChannel(s) ==
    /\ client = "connecting" /\ session = s
    /\ link[s] = "up"
    /\ channel' = [channel EXCEPT ![s] = "open"]
    /\ online' = [online EXCEPT ![s] = TRUE]
    /\ consumer' = [consumer EXCEPT ![s] = "select"]
    /\ client' = "ready"
    /\ UNCHANGED <<latest, kicked, queue, held, watcher, callVars, storeVars, linkVars,
                   session, current, historyVars>>

\* A CommandResult: the row takes the client's status, whatever it held.
HandleResult(s) ==
    /\ channel[s] = "open"
    /\ up[s] # <<>>
    /\ WriteStatus(Head(up[s]).cmd, Head(up[s]).status)
    /\ up' = [up EXCEPT ![s] = Tail(@)]
    /\ UNCHANGED <<sessionVars, consumerVars, watcher, callVars, link, down, clientVars, historyVars>>

SetOnline(s, value) ==
    /\ online' = [online EXCEPT ![s] = value]
    /\ UNCHANGED <<latest, channel, kicked, consumerVars, watcher, callVars, storeVars, linkVars,
                   clientVars, historyVars>>

\* RecordHeartbeat, and the sweep of HeartbeatChecker, as SendCommand sees them.
Heartbeat(s) == channel[s] = "open" /\ link[s] = "up" /\ ~online[s] /\ SetOnline(s, TRUE)
HeartbeatExpires(s) == online[s] /\ SetOnline(s, FALSE)

\* DisconnectTerminal or BlockTerminal: no-op on an offline session.
Kick(s) ==
    /\ online[s] /\ ~kicked[s]
    /\ kicked' = [kicked EXCEPT ![s] = TRUE]
    /\ UNCHANGED <<latest, channel, online, consumerVars, watcher, callVars, storeVars, linkVars,
                   clientVars, historyVars>>

\* The loop's select finds DisconnectCh closed, or Recv returned an error.
LoopReturns(s) == kicked[s] \/ link[s] = "cut"

\* What the loop has not received is lost; cancel() tells the consumer to stop.
ChannelLoopEnds(s) ==
    /\ channel[s] = "open"
    /\ LoopReturns(s)
    /\ channel' = [channel EXCEPT ![s] = "draining"]
    /\ up' = [up EXCEPT ![s] = <<>>]
    /\ UNCHANGED <<latest, online, kicked, consumerVars, watcher, callVars, storeVars, link, down,
                   clientVars, historyVars>>

\* The consumer is gone: ClearStream, and the stream ends with its status.
ChannelReturns(s) ==
    /\ channel[s] = "draining"
    /\ consumer[s] = "off"
    /\ channel' = [channel EXCEPT ![s] = "closed"]
    /\ online' = [online EXCEPT ![s] = FALSE]
    /\ UNCHANGED <<latest, kicked, consumerVars, watcher, callVars, storeVars, linkVars, clientVars, historyVars>>

(***************************************************************************)
(* The client: Run, connect, recvLoop, dispatchCommand.                    *)
(***************************************************************************)

\* Mutant: the exit code is ignored.
ReportSuccess(s, c, o) ==
    up' = [up EXCEPT ![s] = IF link[s] = "up" /\ channel[s] = "open"
                              THEN Append(@, [cmd |-> c, status |-> "Completed"]) ELSE @]

\* sendCommandResult: it reaches the server while the stream is up and its handler reads.
Report(s, c, o) ==
    up' = [up EXCEPT ![s] = IF link[s] = "up" /\ channel[s] = "open"
                              THEN Append(@, [cmd |-> c, status |-> o]) ELSE @]

\* The stream of s is gone: the server may still receive a prefix of what it carried,
\* and so may the client, unless it closed the stream itself.
CutUp(s) ==
    /\ link' = [link EXCEPT ![s] = "cut"]
    /\ \E n \in 0..Len(up[s]) : up' = [up EXCEPT ![s] = Prefix(@, n)]

CloseStream(s) ==
    /\ CutUp(s)
    /\ down' = [down EXCEPT ![s] = <<>>]

\* ConnectionManager.Add makes an empty CmdQueue.
NewQueue(s) == <<>>

\* Register: a new session id every time.
Register ==
    /\ client = "disconnected"
    /\ latest < MaxSession
    /\ latest' = latest + 1
    /\ session' = latest + 1
    /\ queue' = [queue EXCEPT ![latest + 1] = NewQueue(latest + 1)]
    /\ client' = "connecting"
    /\ UNCHANGED <<channel, online, kicked, consumer, held, watcher, callVars, storeVars, linkVars,
                   current, historyVars>>

\* recvLoop receives a command; dispatchCommand reports Executing first.
Receive(s) ==
    /\ client = "ready" /\ session = s
    /\ down[s] # <<>>
    /\ down' = [down EXCEPT ![s] = Tail(@)]
    /\ started' = [started EXCEPT ![s] = Append(@, Head(down[s]))]
    /\ Report(s, Head(down[s]), "Executing")
    /\ current' = Head(down[s])
    /\ client' = "running"
    /\ UNCHANGED <<sessionVars, consumerVars, watcher, callVars, storeVars, link, session,
                   accepted, outcome, refused>>

\* A handler is at work, or waits for the output of its script.
Working == client \in {"running", "hung"}

\* RUN_SCRIPT: the shell ended, or was killed at the timeout, and a process it started
\* holds its output.  Output() waits for that process, and nothing ends the wait: the
\* command has no WaitDelay.
OutputHeld(s) ==
    /\ client = "running" /\ session = s
    /\ Kind[current] = "work"
    /\ client' = "hung"
    /\ UNCHANGED <<sessionVars, consumerVars, watcher, callVars, storeVars, linkVars, session, current,
                   historyVars>>

\* A handler ends with outcome o, which its last message reports.
Finish(s, o) ==
    /\ Working /\ session = s
    /\ Report(s, current, o)
    /\ outcome' = [outcome EXCEPT ![current] = o]
    /\ UNCHANGED <<sessionVars, consumerVars, watcher, callVars, storeVars, link, down, session,
                   accepted, started, refused>>

\* handleCollectNow, handleRunScript (once its output is let go), an unsupported type
\* or a recovered panic.
FinishWork(s, o) ==
    /\ Finish(s, o)
    /\ Kind[current] = "work"
    /\ current' = None
    /\ client' = "ready"

\* handleRestart, handleShutdown: report Completed first, then sleep.
FinishExit(s) ==
    /\ Finish(s, "Completed")
    /\ Kind[current] \in {"restart", "shutdown"}
    /\ client' = "flushing"
    /\ UNCHANGED current

\* cancelSession: the session is torn down, and Run reconnects or the process exits.
Teardown(s) ==
    /\ client = "flushing" /\ session = s
    /\ client' = IF Kind[current] = "restart" THEN "disconnected" ELSE "exited"
    /\ current' = None
    /\ CloseStream(s)
    /\ UNCHANGED <<sessionVars, consumerVars, watcher, callVars, storeVars, session, historyVars>>

\* The stream ends in PermissionDenied, which isFatal stops on.
ClientKicked(s) ==
    /\ client = "ready" /\ session = s
    /\ channel[s] = "closed" /\ link[s] = "up"
    /\ down[s] = <<>>
    /\ client' = "exited"
    /\ UNCHANGED <<sessionVars, consumerVars, watcher, callVars, storeVars, linkVars, session, current,
                   historyVars>>

\* Recv (or the Channel call) fails: Run backs off and registers again.
ClientBroken(s) ==
    /\ client \in {"connecting", "ready"} /\ session = s
    /\ link[s] = "cut"
    /\ client' = "disconnected"
    /\ down' = [down EXCEPT ![s] = <<>>]
    /\ UNCHANGED <<sessionVars, consumerVars, watcher, callVars, storeVars, link, up, session, current,
                   historyVars>>

(***************************************************************************)
(* Failures.                                                               *)
(***************************************************************************)
NetworkLoss(s) ==
    /\ client \in {"connecting", "ready", "running", "hung", "flushing"} /\ session = s
    /\ link[s] = "up"
    /\ CutUp(s)
    /\ \E n \in 0..Len(down[s]) : down' = [down EXCEPT ![s] = Prefix(@, n)]
    /\ UNCHANGED <<sessionVars, consumerVars, watcher, callVars, storeVars, clientVars, historyVars>>

\* The client process dies at any point and is started again.
ClientCrash(s) ==
    /\ client \in {"connecting", "ready", "running", "hung", "flushing"} /\ session = s
    /\ client' = "disconnected"
    /\ current' = None
    /\ CloseStream(s)
    /\ UNCHANGED <<sessionVars, consumerVars, watcher, callVars, storeVars, session, historyVars>>

\* The server process dies and restarts: only the store survives.  (Before the
\* first Register there is nothing to lose.)
ServerCrash ==
    /\ crashes < MaxCrash
    /\ latest > 0
    /\ crashes' = crashes + 1
    /\ channel' = [s \in Sessions |-> IF s <= latest THEN "closed" ELSE "none"]
    /\ online' = [s \in Sessions |-> FALSE]
    /\ queue' = [s \in Sessions |-> <<>>]
    /\ consumer' = [s \in Sessions |-> "off"]
    /\ held' = [s \in Sessions |-> None]
    /\ watcher' = [c \in Commands |-> IF watcher[c] = "armed" THEN "lost" ELSE watcher[c]]
    /\ admin' = [c \in Commands |-> IF admin[c] = "saved" THEN "error" ELSE admin[c]]
    /\ link' = [s \in Sessions |-> IF s <= latest THEN "cut" ELSE link[s]]
    /\ \E n \in 0..Len(down[latest]) :
          down' = [s \in Sessions |-> IF s = latest THEN Prefix(down[s], n) ELSE down[s]]
    /\ up' = [s \in Sessions |-> <<>>]
    /\ UNCHANGED <<latest, kicked, target, status, storeFaults, clientVars, historyVars>>

Next ==
    \/ \E c \in Commands :
          SendOffline(c) \/ SendSave(c) \/ SendEnqueue(c) \/ SendFull(c) \/ Timeout(c)
    \/ \E s \in Sessions :
          \/ Dequeue(s) \/ SendOK(s) \/ SendFails(s) \/ MarkSent(s) \/ ConsumerExit(s)
          \/ OpenChannel(s) \/ HandleResult(s) \/ Heartbeat(s) \/ HeartbeatExpires(s)
          \/ Kick(s) \/ ChannelLoopEnds(s) \/ ChannelReturns(s)
          \/ Receive(s) \/ OutputHeld(s) \/ (\E o \in {"Completed", "Failed"} : FinishWork(s, o))
          \/ FinishExit(s) \/ Teardown(s) \/ ClientKicked(s) \/ ClientBroken(s)
          \/ NetworkLoss(s) \/ ClientCrash(s)
    \/ Register
    \/ ServerCrash

Spec == Init /\ [][Next]_vars

\* Every goroutine that can step eventually does.  A handler ends (the shell of a
\* RUN_SCRIPT is killed at its timeout), unless its output is held: nothing says when
\* that ends.  Timers fire.  A cut stream is noticed by both ends (gRPC's keepalive).
\* Nothing makes an admin, the network or a crash act.
Fairness ==
    /\ \A c \in Commands : WF_vars(SendEnqueue(c) \/ SendFull(c)) /\ WF_vars(Timeout(c))
    /\ \A s \in Sessions :
          /\ WF_vars(Dequeue(s)) /\ WF_vars(ConsumerExit(s)) /\ WF_vars(MarkSent(s))
          /\ WF_vars(SendOK(s) \/ SendFails(s))
          /\ WF_vars(HandleResult(s)) /\ WF_vars(ChannelLoopEnds(s)) /\ WF_vars(ChannelReturns(s))
          /\ WF_vars(Receive(s))
          /\ WF_vars(client = "running" /\ \E o \in {"Completed", "Failed"} : FinishWork(s, o))
          /\ WF_vars(FinishExit(s)) /\ WF_vars(Teardown(s))
          /\ WF_vars(ClientKicked(s)) /\ WF_vars(ClientBroken(s))

LiveSpec == Spec /\ Fairness

-----------------------------------------------------------------------------
(* Properties *)

\* Every variable has its type; a busy consumer or client holds a command.
TypeOK ==
    /\ latest \in 0..MaxSession
    /\ channel \in [Sessions -> {"none", "open", "draining", "closed"}]
    /\ online \in [Sessions -> BOOLEAN]
    /\ kicked \in [Sessions -> BOOLEAN]
    /\ queue \in [Sessions -> Seq(Commands)]
    /\ consumer \in [Sessions -> {"off", "select", "send", "mark"}]
    /\ held \in [Sessions -> Commands \cup {None}]
    /\ watcher \in [Commands -> {"off", "armed", "fired", "lost"}]
    /\ admin \in [Commands -> {"idle", "saved", "queued", "full", "offline", "error"}]
    /\ target \in [Commands -> 0..MaxSession]
    /\ status \in [Commands -> Statuses]
    /\ crashes \in 0..MaxCrash
    /\ storeFaults \in 0..MaxStoreFault
    /\ link \in [Sessions -> {"up", "cut"}]
    /\ down \in [Sessions -> Seq(Commands)]
    /\ up \in [Sessions -> Seq(Results)]
    /\ client \in {"disconnected", "connecting", "ready", "running", "hung", "flushing", "exited"}
    /\ session \in 0..MaxSession
    /\ current \in Commands \cup {None}
    /\ accepted \in [Sessions -> Seq(Commands)]
    /\ started \in [Sessions -> Seq(Commands)]
    /\ outcome \in [Commands -> {"None", "Completed", "Failed"}]
    /\ refused \subseteq Commands
    /\ \A s \in Sessions : consumer[s] \in {"send", "mark"} => held[s] \in Commands
    /\ client \in {"running", "hung", "flushing"} => current \in Commands

InHand(s) == IF consumer[s] = "send" THEN <<held[s]>> ELSE <<>>

\* While the stream of a session is up, what was accepted for it is, in order, what
\* began, what is on the stream, what the consumer is about to send, what is queued:
\* CmdQueue, the consumer and the stream neither lose, repeat nor reorder a command.
NothingLostWhileUp ==
    \A s \in Sessions :
        link[s] = "up" => accepted[s] = started[s] \o down[s] \o InHand(s) \o queue[s]

\* "Serial consumption guarantees that commands are delivered in order" (command.go):
\* in every session, whatever is lost, the commands begun are a prefix of those accepted.
InOrder ==
    \A s \in Sessions :
        /\ Len(started[s]) <= Len(accepted[s])
        /\ started[s] = Prefix(accepted[s], Len(started[s]))

Begun == UNION {Elements(started[s]) : s \in Sessions}

\* The row never claims what did not happen: Executing only of a command that began,
\* Completed and Failed only of one that so ended (or Failed of one given up on),
\* Sent and Timeout only of one accepted and not given up on.
RecordTruthful ==
    \A c \in Commands :
        /\ status[c] = "Executing" => c \in Begun
        /\ status[c] = "Completed" => outcome[c] = "Completed"
        /\ status[c] = "Failed" => outcome[c] = "Failed" \/ c \in refused
        /\ status[c] \in {"Sent", "Timeout"} => admin[c] = "queued" /\ c \notin refused

\* The stream of the session that accepted c is up and nobody has kicked it.
Attached(c) == \E s \in Sessions : s = target[c] /\ link[s] = "up" /\ ~kicked[s]

\* A queued command begins, unless its session is cut or kicked, or the script before
\* it left a process that holds its output: no command starves behind the others.
QueuedBegins ==
    \A c \in Commands : admin[c] = "queued" ~> (c \in Begun \/ ~Attached(c) \/ client = "hung")

\* The row of a queued command ends in a final status for good, unless its session is
\* cut or kicked or a script's output is held, whatever overwrites it in between; unless
\* an update of a row failed.
QueuedSettles ==
    \A c \in Commands :
        <>[](admin[c] = "queued" /\ Attached(c) =>
                status[c] \in Final \/ client = "hung" \/ storeFaults > 0)

-----------------------------------------------------------------------------
(* What the documents say *)

\* "Completed, Failed, or Timeout is the final state" (docs/protocol.md), of a row
\* that holds the result the client reported.
ResultIsFinal ==
    [][\A c \in Commands : status[c] \in {"Completed", "Failed"} => status'[c] = status[c]]_vars

-----------------------------------------------------------------------------
(* The abstract specification this one implements *)

Delivery == INSTANCE CommandDelivery WITH
    order <- accepted, begun <- started, record <- status

Implements == Delivery!Spec
=============================================================================
