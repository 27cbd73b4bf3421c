---------------------------- MODULE ClientAgent ----------------------------
(***************************************************************************)
(* The terminal agent's own control: the reconnect loop Run, one session   *)
(* after another in connect with its heartbeat and report goroutines       *)
(* (internal/client/client.go, report.go), the commands that end a session *)
(* or the process (executor.go), and the interrupt signal                  *)
(* (cmd/client/main.go).                                                   *)
(*                                                                         *)
(* Run, connect, recvLoop and the command handlers are one goroutine, of   *)
(* which `run` is the program counter.  The stream and what ends it belong *)
(* to the environment.  A stream that ended still hands over the commands  *)
(* it had received.  Durations are abstracted: any timer may take any      *)
(* time.                                                                   *)
(***************************************************************************)
EXTENDS Naturals

CONSTANTS
    MaxAttempt,     \* bound: the attempt counter saturates here
    MaxInbox        \* bound: commands received and not yet read

ASSUME AttemptAssumption == MaxAttempt \in Nat \ {0}
ASSUME InboxAssumption == MaxInbox \in Nat \ {0}

VARIABLES
    run,        \* where Run is: "loop", "backoff", "registering", "opening", "receiving",
                \* "executing", "hung" (a script that is over left a process that holds its
                \* output), "flushing", "exiting", "joining", "stopped", "exited"
    attempt,    \* Run's counter of failed attempts
    cause,      \* how the last connect ended: "none", "refused", "lost", "denied", "closed", "cancelled"
    restart,    \* Client.restartRequested
    shutdown,   \* Client.shutdownRequested
    signalled,  \* the context of Run is cancelled
    cancelled,  \* cancelSession was called in this session
    task,       \* the two goroutines of a session: "off", "waiting", "sending"
    stream,     \* "none", "up", or how it ended: "lost", "denied" (PermissionDenied), "closed"
                \* (io.EOF, the handler returned without an error)
    inbox       \* commands on the stream, not yet read

Tasks == {"heartbeat", "report"}
StreamEndings == {"lost", "denied", "closed"}
sessionVars == <<restart, shutdown, cancelled, task>>
streamVars == <<stream, inbox>>
vars == <<run, attempt, cause, signalled, sessionVars, streamVars>>

\* The session context is a child of the context of Run.
Cancelled == cancelled \/ signalled
AllOff == [t \in Tasks |-> "off"]

Init ==
    /\ run = "loop"
    /\ attempt = 0
    /\ cause = "none"
    /\ restart = FALSE /\ shutdown = FALSE
    /\ signalled = FALSE /\ cancelled = FALSE
    /\ task = AllOff
    /\ stream = "none" /\ inbox = 0

(***************************************************************************)
(* Run: the top of the loop, and the wait before another attempt.          *)
(***************************************************************************)

\* Mutant: only the shutdown flag is looked at.
StopsOnFlag == shutdown

Stops == shutdown \/ signalled

LoopTop ==
    /\ run = "loop"
    /\ run' = IF Stops THEN "stopped" ELSE IF attempt > 0 THEN "backoff" ELSE "registering"
    /\ UNCHANGED <<attempt, cause, signalled, sessionVars, streamVars>>

BackoffEnds ==
    /\ run = "backoff"
    /\ run' = "registering"
    /\ UNCHANGED <<attempt, cause, signalled, sessionVars, streamVars>>

BackoffInterrupted ==
    /\ run = "backoff"
    /\ signalled
    /\ run' = "stopped"
    /\ UNCHANGED <<attempt, cause, signalled, sessionVars, streamVars>>

\* connect returned an error that is not fatal.
TryAgain(why) ==
    /\ run' = "loop"
    /\ attempt' = IF attempt < MaxAttempt THEN attempt + 1 ELSE attempt
    /\ cause' = why

(***************************************************************************)
(* connect: Register, Channel, and the start of the goroutines.            *)
(***************************************************************************)
RegisterOK ==
    /\ run = "registering"
    /\ run' = "opening"
    /\ UNCHANGED <<attempt, cause, signalled, sessionVars, streamVars>>

\* Ok = false, the device is blocked: fatal.
RegisterRejected ==
    /\ run = "registering"
    /\ run' = "stopped"
    /\ UNCHANGED <<attempt, cause, signalled, sessionVars, streamVars>>

\* The server is not there, is full, or the context was cancelled; Register or the
\* opening of the stream fails.
ConnectFails ==
    /\ run \in {"registering", "opening"}
    /\ TryAgain("refused")
    /\ UNCHANGED <<signalled, sessionVars, streamVars>>

ChannelOpens ==
    /\ run = "opening"
    /\ run' = "receiving"
    /\ stream' = "up"
    /\ task' = [t \in Tasks |-> "waiting"]
    /\ UNCHANGED <<attempt, cause, signalled, restart, shutdown, cancelled, inbox>>

(***************************************************************************)
(* recvLoop and the command handlers.                                      *)
(***************************************************************************)
Receive ==
    /\ run = "receiving"
    /\ inbox > 0
    /\ inbox' = inbox - 1

\* A command that neither restarts nor ends the process.
ReceiveWork ==
    /\ Receive
    /\ run' = "executing"
    /\ UNCHANGED <<attempt, cause, signalled, sessionVars, stream>>

\* handleRestart reports Completed and sleeps ...
ReceiveRestart ==
    /\ Receive
    /\ run' = "flushing"
    /\ UNCHANGED <<attempt, cause, signalled, sessionVars, stream>>

\* handleShutdown reports, sets its flag, cancels the session, and sleeps ...
ReceiveShutdown ==
    /\ Receive
    /\ run' = "exiting"
    /\ shutdown' = TRUE
    /\ cancelled' = TRUE
    /\ UNCHANGED <<attempt, cause, signalled, restart, task, stream>>

\* RUN_SCRIPT: the shell ended, or was killed at its timeout or by the signal, and a
\* process it started holds its output.  Output() waits for that process: the command
\* has no WaitDelay.
OutputHeld ==
    /\ run = "executing"
    /\ run' = "hung"
    /\ UNCHANGED <<attempt, cause, signalled, sessionVars, streamVars>>

\* recvLoop looks at the session context before it reads again.
HandlerReturns ==
    /\ IF Cancelled THEN run' = "joining" /\ cause' = "cancelled"
                    ELSE run' = "receiving" /\ UNCHANGED cause
    /\ UNCHANGED <<attempt, signalled, sessionVars, streamVars>>

CommandDone == run = "executing" /\ HandlerReturns

\* The process that held the output is gone.
OutputLetGo == run = "hung" /\ HandlerReturns

\* ... then sets its flag and cancels the session, and recvLoop returns.
RestartFlushed ==
    /\ run = "flushing"
    /\ run' = "joining"
    /\ cause' = "cancelled"
    /\ restart' = TRUE
    /\ cancelled' = TRUE
    /\ UNCHANGED <<attempt, signalled, shutdown, task, streamVars>>

\* ... then calls os.Exit, which ends every goroutine.
ProcessExits ==
    /\ run = "exiting"
    /\ run' = "exited"
    /\ task' = AllOff
    /\ stream' = "none" /\ inbox' = 0
    /\ UNCHANGED <<attempt, cause, signalled, restart, shutdown, cancelled>>

\* Recv returns the error that ended the stream, after what it had received; a
\* cancelled context may come first.
RecvFails ==
    /\ run = "receiving"
    /\ \/ stream # "up" /\ inbox = 0 /\ cause' = stream
       \/ signalled /\ cause' = "cancelled"
    /\ run' = "joining"
    /\ cancelled' = TRUE
    /\ UNCHANGED <<attempt, signalled, restart, shutdown, task, streamVars>>

(***************************************************************************)
(* The end of connect, and what Run makes of its error.                    *)
(***************************************************************************)

\* connect returns nil: after a restart, or recvLoop read io.EOF.
IsNil(why) == restart \/ why = "closed"

\* Mutant: PermissionDenied is an error like any other.
NeverFatal(why) == FALSE

IsFatal(why) == why = "denied"

\* Mutant: connect does not wait for its goroutines.
JoinedAtOnce == TRUE

Joined == task = AllOff

\* Mutant: the flag is read and not cleared.
RestartKept == UNCHANGED restart

RestartConsumed == restart' = FALSE

ConnectReturns ==
    /\ run = "joining"
    /\ Joined
    /\ RestartConsumed
    /\ cancelled' = FALSE
    /\ stream' = "none" /\ inbox' = 0
    /\ IF IsNil(cause) THEN run' = "loop" /\ attempt' = 0 /\ UNCHANGED cause
       ELSE IF IsFatal(cause) THEN run' = "stopped" /\ UNCHANGED <<attempt, cause>>
       ELSE TryAgain(cause)
    /\ UNCHANGED <<signalled, shutdown, task>>

(***************************************************************************)
(* heartbeatLoop and reportLoop.                                           *)
(***************************************************************************)

\* The ticker fires; Go's select may take it although the context is cancelled.
TaskTick(t) ==
    /\ task[t] = "waiting"
    /\ task' = [task EXCEPT ![t] = "sending"]
    /\ UNCHANGED <<run, attempt, cause, signalled, restart, shutdown, cancelled, streamVars>>

TaskSends(t) ==
    /\ task[t] = "sending"
    /\ stream = "up" /\ ~signalled
    /\ task' = [task EXCEPT ![t] = "waiting"]
    /\ UNCHANGED <<run, attempt, cause, signalled, restart, shutdown, cancelled, streamVars>>

\* The goroutine returns; the session goes on until recvLoop notices.
TaskSendFails(t) ==
    /\ task[t] = "sending"
    /\ stream # "up" \/ signalled
    /\ task' = [task EXCEPT ![t] = "off"]
    /\ UNCHANGED <<run, attempt, cause, signalled, restart, shutdown, cancelled, streamVars>>

\* Mutant: the loop does not select on the session context, only on the process's.
SeesSignalOnly == signalled

SeesCancel == Cancelled

TaskCancelled(t) ==
    /\ task[t] = "waiting"
    /\ SeesCancel
    /\ task' = [task EXCEPT ![t] = "off"]
    /\ UNCHANGED <<run, attempt, cause, signalled, restart, shutdown, cancelled, streamVars>>

(***************************************************************************)
(* The environment.                                                        *)
(***************************************************************************)
CommandArrives ==
    /\ stream = "up"
    /\ inbox < MaxInbox
    /\ inbox' = inbox + 1
    /\ UNCHANGED <<run, attempt, cause, signalled, sessionVars, stream>>

\* The server kicks the session ("denied"), or goes away, or does not know it ("lost"),
\* or ends the call with status OK ("closed").  The Channel of this repository's server
\* does that only after a CloseSend, which this client never calls; recvLoop has the
\* branch for any server.
StreamEnds(how) ==
    /\ stream = "up"
    /\ stream' = how
    /\ UNCHANGED <<run, attempt, cause, signalled, sessionVars, inbox>>

\* SIGINT or SIGTERM.
Signal ==
    /\ run \notin {"stopped", "exited"}
    /\ ~signalled
    /\ signalled' = TRUE
    /\ UNCHANGED <<run, attempt, cause, sessionVars, streamVars>>

Connect == RegisterOK \/ RegisterRejected \/ ConnectFails \/ ChannelOpens
Backoff == BackoffEnds \/ BackoffInterrupted
Script == OutputHeld \/ OutputLetGo
Handle == CommandDone \/ RestartFlushed \/ ProcessExits
Dispatch == ReceiveWork \/ ReceiveRestart \/ ReceiveShutdown

Next ==
    \/ LoopTop \/ Backoff \/ Connect \/ Dispatch \/ Handle \/ Script \/ RecvFails \/ ConnectReturns
    \/ \E t \in Tasks : TaskTick(t) \/ TaskSends(t) \/ TaskSendFails(t) \/ TaskCancelled(t)
    \/ CommandArrives \/ Signal
    \/ \E how \in StreamEndings : StreamEnds(how)

Spec == Init /\ [][Next]_vars

\* The three goroutines step, calls return, timers fire, commands end, but for a script
\* whose output is held (nothing in Script is fair).  Strong
\* fairness where Go's select chooses at random: a ticking goroutine sees its
\* cancelled context, and a stream that ended or was cancelled is noticed between
\* the commands it still hands over.
Fairness ==
    /\ WF_vars(LoopTop) /\ WF_vars(Backoff) /\ WF_vars(Connect) /\ WF_vars(Dispatch)
    /\ WF_vars(Handle) /\ SF_vars(RecvFails) /\ WF_vars(ConnectReturns)
    /\ \A t \in Tasks :
          /\ WF_vars(TaskTick(t)) /\ WF_vars(TaskSends(t) \/ TaskSendFails(t))
          /\ SF_vars(TaskCancelled(t))

LiveSpec == Spec /\ Fairness

-----------------------------------------------------------------------------
(* Properties *)

Ended == run \in {"stopped", "exited"}

\* Between sessions, and once Run has returned, no goroutine of a session is left:
\* none can send on the next session's stream or outlive its connection.
OneSession ==
    run \in {"loop", "backoff", "registering", "opening", "stopped", "exited"} =>
        /\ task = AllOff
        /\ stream = "none"
        /\ run # "exited" => ~cancelled

\* The client never registers at once after a failed attempt or a session that broke:
\* only the first attempt, the one after a restart it was asked for, and the one after
\* a stream that was closed without an error go without the backoff.
NoHotReconnect ==
    run = "registering" /\ attempt = 0 => cause \in {"none", "cancelled", "closed"}

\* A client told PermissionDenied while it waits or runs its last command stops for
\* good, unless the output of that command is held.
DeniedStops ==
    (stream = "denied" /\ inbox = 0 /\ run \in {"receiving", "executing"})
        ~> (Ended \/ run = "hung")

\* A restart always leads to another Register, unless the process is stopped.
RestartReconnects == run = "flushing" ~> (run = "registering" \/ Ended)

\* A signal ends Run, wherever it finds it, but in a wait for the output of a script.
SignalStops == signalled ~> (Ended \/ run = "hung")
=============================================================================
