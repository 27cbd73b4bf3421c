------------------------------ MODULE Reports ------------------------------
(***************************************************************************)
(* Hardware reports, from the client's collector to hardware_reports.      *)
(*                                                                         *)
(* Two goroutines of the client send them: reportLoop at every tick        *)
(* (internal/client/report.go) and handleCollectNow for the COLLECT_NOW    *)
(* command (executor.go).  Both collect, ask the shared ReportCache        *)
(* (collector/cache.go) whether the snapshot differs from the last, send,  *)
(* and tell the cache, in separate steps.  The server's Channel handler of *)
(* each session saves what arrives (handleReport, SaveHardwareReport); the *)
(* handler of an old session may still be at work when the next is open.   *)
(*                                                                         *)
(* A snapshot is a member of Versions; the cache's hash is the snapshot.   *)
(* Every report has a fresh report_id, so INSERT OR IGNORE never ignores.  *)
(***************************************************************************)
EXTENDS Naturals, Sequences

CONSTANTS
    Versions,       \* hardware snapshots
    Nothing,        \* no snapshot
    MaxChange,      \* bound: changes of the hardware
    MaxSession,     \* bound: sessions
    MaxRestart,     \* bound: restarts of the client process
    MaxStoreFault   \* bound: SaveHardwareReport calls that fail (logged only)

ASSUME NothingAssumption == Nothing \notin Versions
ASSUME SessionAssumption == MaxSession \in Nat \ {0}
ASSUME BoundsAssumption == MaxChange \in Nat /\ MaxRestart \in Nat /\ MaxStoreFault \in Nat

VARIABLES
    hardware,   \* what a collector would read now
    changes,
    \* client
    cache,      \* ReportCache.lastHash
    step,       \* a sender is "idle", "collected", "sending" or "marking"
    info,       \* the snapshot a sender holds
    session,    \* current session
    up,         \* its stream is there
    restarts,
    \* streams and store
    wire,       \* reports of a session on their way
    row,        \* the row saved last in hardware_reports, or Nothing
    storeFaults,
    \* history
    sent,       \* snapshots this process has sent
    last,       \* the last of them, or Nothing
    repeated,   \* a report repeated the one before it
    overlapped, \* the two senders were at work at the same time
    lost        \* a stream ended, or a save failed, with a report under way

Senders == {"loop", "collectNow"}
Sessions == 1..MaxSession

storeVars == <<row, storeFaults>>
sentVars == <<sent, last, repeated>>
historyVars == <<sentVars, overlapped, lost>>
senderVars == <<step, info>>
linkVars == <<session, up>>
reportsVars == <<hardware, changes, cache, senderVars, linkVars, restarts, wire, storeVars, historyVars>>

ReportsInit ==
    /\ hardware \in Versions /\ changes = 0
    /\ cache = Nothing
    /\ step = [p \in Senders |-> "idle"]
    /\ info = [p \in Senders |-> Nothing]
    /\ session = 1 /\ up = TRUE /\ restarts = 0
    /\ wire = [s \in Sessions |-> <<>>]
    /\ row = Nothing /\ storeFaults = 0
    /\ sent = {} /\ last = Nothing
    /\ repeated = FALSE /\ overlapped = FALSE /\ lost = FALSE

HardwareChanges ==
    /\ changes < MaxChange
    /\ changes' = changes + 1
    /\ hardware' \in Versions \ {hardware}
    /\ UNCHANGED <<cache, senderVars, linkVars, restarts, wire, storeVars, historyVars>>

(***************************************************************************)
(* The two senders.                                                        *)
(***************************************************************************)
At(p, here, there) == step[p] = here /\ step' = [step EXCEPT ![p] = there]

CollectHardware == hardware

\* At a tick or for a command.
Collect(p) ==
    /\ up
    /\ At(p, "idle", "collected")
    /\ info' = [info EXCEPT ![p] = CollectHardware]
    /\ overlapped' = (overlapped \/ \E q \in Senders : step[q] # "idle")
    /\ UNCHANGED <<hardware, changes, cache, linkVars, restarts, wire, storeVars, sentVars, lost>>

\* Mutant: an empty cache is all that counts as a change.
IsChangedOnce(v) == cache = Nothing

IsChanged(v) == cache # v

Check(p) ==
    /\ At(p, "collected", IF IsChanged(info[p]) THEN "sending" ELSE "idle")
    /\ UNCHANGED <<hardware, changes, cache, info, linkVars, restarts, wire, storeVars, historyVars>>

\* stream.Send accepts the report.
Send(p) ==
    /\ up
    /\ At(p, "sending", "marking")
    /\ wire' = [wire EXCEPT ![session] = Append(@, info[p])]
    /\ sent' = sent \cup {info[p]}
    /\ last' = info[p]
    /\ repeated' = (repeated \/ last = info[p])
    /\ UNCHANGED <<hardware, changes, cache, info, linkVars, restarts, storeVars, overlapped, lost>>

\* It fails: reportLoop returns, COLLECT_NOW is reported Failed; nothing is marked.
SendFails(p) ==
    /\ ~up
    /\ At(p, "sending", "idle")
    /\ UNCHANGED <<hardware, changes, cache, info, linkVars, restarts, wire, storeVars, historyVars>>

\* Mutant: what is marked is collected again.
MarkCollected(p) == cache' = hardware

\* Mutant: nothing is marked.
MarkNothing(p) == UNCHANGED cache

MarkSent(p) == cache' = info[p]

Mark(p) ==
    /\ At(p, "marking", "idle")
    /\ MarkSent(p)
    /\ UNCHANGED <<hardware, changes, info, linkVars, restarts, wire, storeVars, historyVars>>

(***************************************************************************)
(* The server.                                                             *)
(***************************************************************************)

\* One transaction inserts the report: it is there as a whole or not at all.
SaveHardwareReport(v) ==
    \/ row' = v /\ UNCHANGED <<storeFaults, lost>>
    \/ /\ storeFaults < MaxStoreFault
       /\ storeFaults' = storeFaults + 1
       /\ lost' = TRUE
       /\ UNCHANGED row

\* An error is logged and the report is gone.
HandleReport(s) ==
    /\ wire[s] # <<>>
    /\ wire' = [wire EXCEPT ![s] = Tail(@)]
    /\ SaveHardwareReport(Head(wire[s]))
    /\ UNCHANGED <<hardware, changes, cache, senderVars, linkVars, restarts, sentVars, overlapped>>

\* The newest row.  (created_at has whole seconds; rows of one second are told apart
\* here and may not be in the store.)
GetLatestHardware == row

(***************************************************************************)
(* Sessions.  The cache outlives them, and the senders' work is finished   *)
(* before the next one opens (connect waits for reportLoop, and runs       *)
(* handleCollectNow itself).                                               *)
(***************************************************************************)

\* The stream breaks: the handler still gets a prefix of what was sent.
StreamBreaks ==
    /\ up
    /\ up' = FALSE
    /\ \E n \in 0..Len(wire[session]) : wire' = [wire EXCEPT ![session] = SubSeq(@, 1, n)]
    /\ lost' = (lost \/ wire[session] # <<>>)
    /\ UNCHANGED <<hardware, changes, cache, senderVars, session, restarts, storeVars, sentVars, overlapped>>

Reconnect ==
    /\ ~up
    /\ session < MaxSession
    /\ \A p \in Senders : step[p] = "idle"
    /\ session' = session + 1
    /\ up' = TRUE
    /\ UNCHANGED <<hardware, changes, cache, senderVars, restarts, wire, storeVars, historyVars>>

\* A new process starts with an empty cache.
ClientRestarts ==
    /\ ~up
    /\ restarts < MaxRestart
    /\ restarts' = restarts + 1
    /\ cache' = Nothing
    /\ step' = [p \in Senders |-> "idle"]
    /\ info' = [p \in Senders |-> Nothing]
    /\ sent' = {}
    /\ last' = Nothing
    /\ UNCHANGED <<hardware, changes, linkVars, wire, storeVars, repeated, overlapped, lost>>

ReportsNext ==
    \/ \E p \in Senders : Collect(p) \/ Check(p) \/ Send(p) \/ SendFails(p) \/ Mark(p)
    \/ \E s \in Sessions : HandleReport(s)
    \/ HardwareChanges \/ StreamBreaks \/ Reconnect \/ ClientRestarts

ReportsSpec == ReportsInit /\ [][ReportsNext]_reportsVars

\* The ticker fires again and again, both senders finish what they began, and the
\* server handles what it received.  Nobody has to send COLLECT_NOW.
ReportsFairness ==
    /\ WF_reportsVars(Collect("loop"))
    /\ \A p \in Senders :
          /\ WF_reportsVars(Check(p))
          /\ WF_reportsVars(Send(p) \/ SendFails(p))
          /\ WF_reportsVars(Mark(p))
    /\ \A s \in Sessions : WF_reportsVars(HandleReport(s))

ReportsLiveSpec == ReportsSpec /\ ReportsFairness

-----------------------------------------------------------------------------
(* Properties *)

\* The cache never vouches for a snapshot that was not sent: in whatever order the
\* senders send, fail and mark, "unchanged" means the server was told.
CachedWasSent == cache # Nothing => cache \in sent

\* "Avoid sending duplicate data when nothing has changed" (cache.go): as long as the
\* two senders take turns, no report repeats the one before it.
NoRepeat == repeated => overlapped

\* Once the hardware is stable, and unless the senders overlapped or a report was
\* lost, the latest row is what the hardware is: the cache does not suppress the
\* report that is missing.
StoreCatchesUp ==
    <>[](up /\ ~overlapped /\ ~lost => GetLatestHardware = hardware)
=============================================================================
