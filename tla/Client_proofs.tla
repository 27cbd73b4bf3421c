---------------------------- MODULE Client_proofs ----------------------------
(***************************************************************************)
(* Theorems about the client, for any bounds.                              *)
(*                                                                         *)
(* ClientAgent: nothing of a session is left between sessions, and the     *)
(* client registers without a backoff only at first, after a restart it    *)
(* was asked for and after a stream closed without an error.               *)
(*                                                                         *)
(* Reports: the cache vouches only for what was sent, and no report        *)
(* repeats the one before it as long as the two senders take turns.  Its   *)
(* Init, Next and Spec are named ReportsInit, ReportsNext and ReportsSpec. *)
(***************************************************************************)
EXTENDS ClientAgent, Reports, TLAPS

TaskType == task \in [Tasks -> {"off", "waiting", "sending"}]

(***************************************************************************)
(* OneSession.                                                             *)
(***************************************************************************)
SessionInv == TaskType /\ OneSession

\* There is no session yet.
LEMMA InitSessionInv == Init => SessionInv
BY DEF Init, SessionInv, TaskType, OneSession, AllOff

\* Every step of Run, of the two goroutines and of the environment keeps it.
LEMMA NextSessionInv == SessionInv /\ [Next]_vars => SessionInv'
<1>. SUFFICES ASSUME SessionInv, [Next]_vars PROVE SessionInv'
  OBVIOUS
<1>. USE DEF SessionInv, TaskType, OneSession, AllOff, sessionVars, streamVars
<1>1. CASE LoopTop
  BY <1>1 DEF LoopTop
<1>2. CASE Backoff
  BY <1>2 DEF Backoff, BackoffEnds, BackoffInterrupted
<1>3. CASE Connect
  BY <1>3 DEF Connect, RegisterOK, RegisterRejected, ConnectFails, TryAgain, ChannelOpens
<1>4. CASE Dispatch
  BY <1>4 DEF Dispatch, ReceiveWork, ReceiveRestart, ReceiveShutdown, Receive
<1>5. CASE Handle
  BY <1>5 DEF Handle, CommandDone, HandlerReturns, RestartFlushed, ProcessExits
<1>6. CASE RecvFails
  BY <1>6 DEF RecvFails
\* connect has waited for its goroutines, closes its connection and cancels.
<1>7. CASE ConnectReturns
  BY <1>7 DEF ConnectReturns, Joined, TryAgain
\* A goroutine that runs is one of a session: Run is not between sessions.
<1>8. ASSUME NEW t \in Tasks, TaskTick(t) \/ TaskSends(t) \/ TaskSendFails(t) \/ TaskCancelled(t)
      PROVE SessionInv'
  <2>1. task[t] # "off"
    BY <1>8 DEF TaskTick, TaskSends, TaskSendFails, TaskCancelled
  <2>2. run' = run /\ run \notin {"loop", "backoff", "registering", "opening", "stopped", "exited"}
    BY <1>8, <2>1 DEF TaskTick, TaskSends, TaskSendFails, TaskCancelled
  <2>3. TaskType'
    BY <1>8 DEF TaskTick, TaskSends, TaskSendFails, TaskCancelled
  <2>. QED  BY <2>2, <2>3
<1>9. CASE CommandArrives \/ Signal
  BY <1>9 DEF CommandArrives, Signal
<1>10. ASSUME NEW how \in StreamEndings, StreamEnds(how) PROVE SessionInv'
  BY <1>10 DEF StreamEnds, StreamEndings
<1>11. CASE Script
  BY <1>11 DEF Script, OutputHeld, OutputLetGo, HandlerReturns
<1>12. CASE UNCHANGED vars
  BY <1>12 DEF vars
<1>. QED
  BY <1>1, <1>2, <1>3, <1>4, <1>5, <1>6, <1>7, <1>8, <1>9, <1>10, <1>11, <1>12 DEF Next

\* No goroutine, stream or cancelled context of one session is there in the next, or
\* after Run has returned.
THEOREM SessionsDoNotOverlap == Spec => []OneSession
<1>1. SessionInv => OneSession
  BY DEF SessionInv
<1>. QED  BY <1>1, InitSessionInv, NextSessionInv, PTL DEF Spec

(***************************************************************************)
(* NoHotReconnect.                                                         *)
(***************************************************************************)

\* connect returns nil only for a restart, which cancelled the session itself, and for a
\* stream closed without an error; every other return counts an attempt.
ReconnectInv ==
    /\ attempt \in 0..MaxAttempt
    /\ restart => run = "joining" /\ cause = "cancelled"
    /\ run \in {"loop", "backoff", "registering"} /\ attempt = 0 => cause \in {"none", "cancelled", "closed"}

\* The first attempt has no session before it.
LEMMA InitReconnectInv == Init => ReconnectInv
BY AttemptAssumption DEF Init, ReconnectInv

\* The restart flag lives from RestartFlushed to ConnectReturns.
LEMMA NextReconnectInv == ReconnectInv /\ [Next]_vars => ReconnectInv'
<1>. SUFFICES ASSUME ReconnectInv, [Next]_vars PROVE ReconnectInv'
  OBVIOUS
<1>. USE AttemptAssumption DEF ReconnectInv, sessionVars, streamVars
<1>1. CASE LoopTop
  BY <1>1 DEF LoopTop
<1>2. CASE Backoff
  BY <1>2 DEF Backoff, BackoffEnds, BackoffInterrupted
<1>3. CASE Connect
  BY <1>3 DEF Connect, RegisterOK, RegisterRejected, ConnectFails, TryAgain, ChannelOpens
<1>4. CASE Dispatch
  BY <1>4 DEF Dispatch, ReceiveWork, ReceiveRestart, ReceiveShutdown, Receive
<1>5. CASE Handle
  BY <1>5 DEF Handle, CommandDone, HandlerReturns, RestartFlushed, ProcessExits
<1>6. CASE RecvFails
  BY <1>6 DEF RecvFails
<1>7. CASE ConnectReturns
  BY <1>7 DEF ConnectReturns, RestartConsumed, IsNil, TryAgain
<1>8. ASSUME NEW t \in Tasks, TaskTick(t) \/ TaskSends(t) \/ TaskSendFails(t) \/ TaskCancelled(t)
      PROVE ReconnectInv'
  BY <1>8 DEF TaskTick, TaskSends, TaskSendFails, TaskCancelled
<1>9. CASE CommandArrives \/ Signal
  BY <1>9 DEF CommandArrives, Signal
<1>10. ASSUME NEW how \in StreamEndings, StreamEnds(how) PROVE ReconnectInv'
  BY <1>10 DEF StreamEnds, StreamEndings
<1>11. CASE Script
  BY <1>11 DEF Script, OutputHeld, OutputLetGo, HandlerReturns
<1>12. CASE UNCHANGED vars
  BY <1>12 DEF vars
<1>. QED
  BY <1>1, <1>2, <1>3, <1>4, <1>5, <1>6, <1>7, <1>8, <1>9, <1>10, <1>11, <1>12 DEF Next

\* A failed attempt, and a session that ended in an error nobody asked for, are never
\* followed by a Register without a backoff in between.
THEOREM BackoffUnlessAsked == Spec => []NoHotReconnect
<1>1. ReconnectInv => NoHotReconnect
  BY DEF ReconnectInv, NoHotReconnect
<1>. QED  BY <1>1, InitReconnectInv, NextReconnectInv, PTL DEF Spec

-----------------------------------------------------------------------------
(* Reports *)

Steps == {"idle", "collected", "sending", "marking"}

\* What the proofs need of the types.
SenderTypes ==
    /\ hardware \in Versions
    /\ step \in [Senders -> Steps]
    /\ info \in [Senders -> Versions \cup {Nothing}]

(***************************************************************************)
(* CachedWasSent.                                                          *)
(***************************************************************************)

\* A sender marks what it has sent, in this process.
MarkedWasSent == \A p \in Senders : step[p] = "marking" => info[p] \in sent

CacheInv == SenderTypes /\ MarkedWasSent /\ CachedWasSent

\* The cache of a new process is empty.
LEMMA InitCacheInv == ReportsInit => CacheInv
BY DEF ReportsInit, CacheInv, SenderTypes, MarkedWasSent, CachedWasSent, Steps

\* Every step of senders, server and environment keeps the invariant.
LEMMA NextCacheInv == CacheInv /\ [ReportsNext]_reportsVars => CacheInv'
<1>. SUFFICES ASSUME CacheInv, [ReportsNext]_reportsVars PROVE CacheInv'
  OBVIOUS
<1>. USE DEF CacheInv, SenderTypes, MarkedWasSent, CachedWasSent, Steps
<1>1. ASSUME NEW p \in Senders, Collect(p) PROVE CacheInv'
  BY <1>1 DEF Collect, At, CollectHardware, sentVars
<1>2. ASSUME NEW p \in Senders, Check(p) PROVE CacheInv'
  BY <1>2 DEF Check, At, historyVars, sentVars
<1>3. ASSUME NEW p \in Senders, Send(p) PROVE CacheInv'
  BY <1>3 DEF Send, At
<1>4. ASSUME NEW p \in Senders, SendFails(p) PROVE CacheInv'
  BY <1>4 DEF SendFails, At, historyVars, sentVars
<1>5. ASSUME NEW p \in Senders, Mark(p) PROVE CacheInv'
  BY <1>5 DEF Mark, At, MarkSent, historyVars, sentVars
<1>6. ASSUME NEW s \in Sessions, HandleReport(s) PROVE CacheInv'
  BY <1>6 DEF HandleReport, senderVars, sentVars
<1>7. CASE HardwareChanges
  BY <1>7 DEF HardwareChanges, senderVars, historyVars, sentVars
<1>8. CASE StreamBreaks
  BY <1>8 DEF StreamBreaks, senderVars, sentVars
<1>9. CASE Reconnect
  BY <1>9 DEF Reconnect, senderVars, historyVars, sentVars
<1>10. CASE ClientRestarts
  BY <1>10 DEF ClientRestarts
<1>11. CASE UNCHANGED reportsVars
  BY <1>11 DEF reportsVars, senderVars, historyVars, sentVars
<1>. QED
  BY <1>1, <1>2, <1>3, <1>4, <1>5, <1>6, <1>7, <1>8, <1>9, <1>10, <1>11 DEF ReportsNext

\* The cache never vouches for a snapshot the process has not sent, in whatever order
\* reportLoop and handleCollectNow collect, check, send, fail and mark.
THEOREM CacheVouchesForSent == ReportsSpec => []CachedWasSent
<1>1. CacheInv => CachedWasSent
  BY DEF CacheInv
<1>. QED  BY <1>1, InitCacheInv, NextCacheInv, PTL DEF ReportsSpec

(***************************************************************************)
(* NoRepeat.                                                               *)
(***************************************************************************)

\* One sender is at work at most.
TakeTurns == \A p, q \in Senders : step[p] # "idle" /\ step[q] # "idle" => p = q

\* The cache holds the snapshot sent last, unless it is about to be marked.
CacheIsLast ==
    /\ (\A p \in Senders : step[p] # "marking") => cache = last
    /\ \A p \in Senders : step[p] = "marking" => last = info[p]

\* What is going to be sent was found to differ from the cache, and still does.
SendsChange == \A p \in Senders : step[p] = "sending" => info[p] # cache

RepeatInv ==
    /\ SenderTypes
    /\ ~overlapped => TakeTurns /\ CacheIsLast /\ SendsChange /\ ~repeated

\* Nothing has been sent.
LEMMA InitRepeatInv == ReportsInit => RepeatInv
BY DEF ReportsInit, RepeatInv, SenderTypes, TakeTurns, CacheIsLast, SendsChange, Steps

\* A sender that begins while another is at work sets `overlapped` for good; until
\* then one sender works between the cache it read and the cache it writes.
LEMMA NextRepeatInv == RepeatInv /\ [ReportsNext]_reportsVars => RepeatInv'
<1>. SUFFICES ASSUME RepeatInv, [ReportsNext]_reportsVars PROVE RepeatInv'
  OBVIOUS
<1>. USE DEF RepeatInv, SenderTypes, Steps
<1>1. ASSUME NEW p \in Senders, Collect(p) PROVE RepeatInv'
  <2>1. SenderTypes'
    BY <1>1 DEF Collect, At, CollectHardware
  <2>2. ASSUME ~overlapped' PROVE TakeTurns' /\ CacheIsLast' /\ SendsChange' /\ ~repeated'
    <3>1. ~overlapped /\ \A q \in Senders : step[q] = "idle"
      BY <1>1, <2>2 DEF Collect
    <3>. QED
      BY <1>1, <3>1 DEF Collect, At, sentVars, TakeTurns, CacheIsLast, SendsChange
  <2>. QED  BY <2>1, <2>2
<1>2. ASSUME NEW p \in Senders, Check(p) PROVE RepeatInv'
  <2>1. SenderTypes'
    BY <1>2 DEF Check, At
  <2>2. ASSUME ~overlapped' PROVE TakeTurns' /\ CacheIsLast' /\ SendsChange' /\ ~repeated'
    BY <1>2, <2>2
    DEF Check, At, IsChanged, historyVars, sentVars, TakeTurns,
         CacheIsLast, SendsChange
  <2>. QED  BY <2>1, <2>2
<1>3. ASSUME NEW p \in Senders, Send(p) PROVE RepeatInv'
  <2>1. SenderTypes'
    BY <1>3 DEF Send, At
  <2>2. ASSUME ~overlapped' PROVE TakeTurns' /\ CacheIsLast' /\ SendsChange' /\ ~repeated'
    <3>1. ~overlapped /\ step[p] = "sending"
      BY <1>3, <2>2 DEF Send, At
    <3>2. \A q \in Senders \ {p} : step[q] = "idle"
      BY <3>1 DEF TakeTurns
    <3>3. last # info[p]
      BY <3>1, <3>2 DEF CacheIsLast, SendsChange
    <3>. QED
      BY <1>3, <3>1, <3>2, <3>3 DEF Send, At, TakeTurns, CacheIsLast, SendsChange
  <2>. QED  BY <2>1, <2>2
<1>4. ASSUME NEW p \in Senders, SendFails(p) PROVE RepeatInv'
  BY <1>4 DEF SendFails, At, historyVars, sentVars, TakeTurns,
         CacheIsLast, SendsChange
<1>5. ASSUME NEW p \in Senders, Mark(p) PROVE RepeatInv'
  <2>1. SenderTypes'
    BY <1>5 DEF Mark, At
  <2>2. ASSUME ~overlapped' PROVE TakeTurns' /\ CacheIsLast' /\ SendsChange' /\ ~repeated'
    <3>1. ~overlapped /\ step[p] = "marking" /\ last = info[p]
      BY <1>5, <2>2 DEF Mark, At, historyVars, CacheIsLast
    <3>2. \A q \in Senders : step'[q] = "idle"
      BY <1>5, <3>1 DEF Mark, At, TakeTurns
    <3>. QED
      BY <1>5, <3>1, <3>2
      DEF Mark, MarkSent, historyVars, sentVars, TakeTurns,
         CacheIsLast, SendsChange
  <2>. QED  BY <2>1, <2>2
<1>6. ASSUME NEW s \in Sessions, HandleReport(s) PROVE RepeatInv'
  BY <1>6 DEF HandleReport, senderVars, sentVars, TakeTurns, CacheIsLast, SendsChange
<1>7. CASE HardwareChanges
  BY <1>7 DEF HardwareChanges, senderVars, historyVars, sentVars, TakeTurns,
         CacheIsLast, SendsChange
<1>8. CASE StreamBreaks
  BY <1>8 DEF StreamBreaks, senderVars, sentVars, TakeTurns, CacheIsLast, SendsChange
<1>9. CASE Reconnect
  BY <1>9 DEF Reconnect, senderVars, historyVars, sentVars, TakeTurns,
         CacheIsLast, SendsChange
<1>10. CASE ClientRestarts
  BY <1>10 DEF ClientRestarts, TakeTurns, CacheIsLast, SendsChange
<1>11. CASE UNCHANGED reportsVars
  BY <1>11 DEF reportsVars, senderVars, historyVars, sentVars, TakeTurns,
         CacheIsLast, SendsChange
<1>. QED
  BY <1>1, <1>2, <1>3, <1>4, <1>5, <1>6, <1>7, <1>8, <1>9, <1>10, <1>11 DEF ReportsNext

\* "Avoid sending duplicate data when nothing has changed" (cache.go): two equal reports
\* in a row come only from a tick and a COLLECT_NOW that overlapped.
THEOREM TurnsDoNotRepeat == ReportsSpec => []NoRepeat
<1>1. RepeatInv => NoRepeat
  BY DEF RepeatInv, NoRepeat
<1>. QED  BY <1>1, InitRepeatInv, NextRepeatInv, PTL DEF ReportsSpec
=============================================================================
