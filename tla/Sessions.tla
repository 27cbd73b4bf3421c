------------------------------ MODULE Sessions ------------------------------
(***************************************************************************)
(* The life of the server's sessions: the Register handshake, the Channel  *)
(* handler, heartbeats and their sweep, admin kicks and blocks, and the    *)
(* two places that record it all: the in-memory ConnectionManager          *)
(* (internal/server/connection.go) and the terminals table                 *)
(* (internal/server/store/terminal.go).                                    *)
(*                                                                         *)
(* The handlers (internal/server/server.go) run concurrently and touch the *)
(* two places in separate steps; each access is one action here.  A        *)
(* session id is used for one Register call, as uuid.New gives it.  Time   *)
(* is abstracted: a session may turn stale at any moment.                  *)
(***************************************************************************)
EXTENDS Naturals, FiniteSets

CONSTANTS
    Devices,        \* device ids
    SessionIds,     \* session ids, one per Register call
    NoDevice,       \* the device of an id not used yet
    MaxConns,       \* ConnectionManager.maxConns, 0 = unlimited
    MaxFailure      \* bound: crashes of the server, signals that stop it and store
                    \* calls that fail (an error the code only logs), together

ASSUME SessionIdsAssumption == IsFiniteSet(SessionIds)
ASSUME NoDeviceAssumption == NoDevice \notin Devices
ASSUME MaxConnsAssumption == MaxConns \in Nat
ASSUME MaxFailureAssumption == MaxFailure \in Nat

VARIABLES
    register,       \* Register call of a session: "unused", "admitted", "cleared", "added", "done", "refused"
    device,         \* device that made the call
    handler,        \* Channel handler: "none", "open", "beating", "cleared", "closed"
    alive,          \* the client at the other end of the stream is there
    \* ConnectionManager
    sessions,       \* ids in the map
    online,         \* ClientConn.Online
    kicked,         \* ClientConn.DisconnectCh is closed
    \* terminals table
    rows,           \* session ids that have a row
    rowOnline,      \* terminals.online
    rowBlocked,     \* terminals.blocked
    blocking,       \* BlockTerminal call on a device: "idle", "marked"
    phase,          \* of the process: "serving", and "draining" once GracefulStop is called
    restarts, stops, storeFaults,
    \* history
    overlap,        \* the most Register calls seen between their check of IsFull and their Add
    slipped         \* sessions that a block or a failed check left alone

connVars == <<sessions, online, kicked>>
rowVars == <<rows, rowOnline, rowBlocked>>
serverVars == <<phase, restarts, stops>>
vars == <<register, device, handler, alive, connVars, rowVars, blocking, serverVars, storeFaults, overlap, slipped>>

InFlight == {s \in SessionIds : register[s] \in {"admitted", "cleared"}}

\* IsDeviceBlocked: any row of the device is blocked.
IsDeviceBlocked(d) == \E s \in rows : device[s] = d /\ rowBlocked[s]

\* Mutant: the limit is compared with <.
IsFullLate == MaxConns > 0 /\ Cardinality(sessions) > MaxConns

IsFull == MaxConns > 0 /\ Cardinality(sessions) >= MaxConns

Init ==
    /\ register = [s \in SessionIds |-> "unused"]
    /\ device = [s \in SessionIds |-> NoDevice]
    /\ handler = [s \in SessionIds |-> "none"]
    /\ alive = [s \in SessionIds |-> FALSE]
    /\ sessions = {}
    /\ online = [s \in SessionIds |-> FALSE]
    /\ kicked = [s \in SessionIds |-> FALSE]
    /\ rows = {}
    /\ rowOnline = [s \in SessionIds |-> FALSE]
    /\ rowBlocked = [s \in SessionIds |-> FALSE]
    /\ blocking = [d \in Devices |-> "idle"]
    /\ phase = "serving"
    /\ restarts = 0 /\ stops = 0
    /\ storeFaults = 0
    /\ overlap = 0
    /\ slipped = {}

MayFail == restarts + stops + storeFaults < MaxFailure

StoreFails == MayFail /\ storeFaults' = storeFaults + 1

(***************************************************************************)
(* Register, in its four steps: capacity, blocklist, Add, UpsertTerminal.  *)
(***************************************************************************)

\* Which unused id a call gets does not matter.
NewId == CHOOSE s \in SessionIds : register[s] = "unused"

RegisterAdmit(s, d) ==
    /\ phase = "serving"
    /\ register[s] = "unused" /\ s = NewId
    /\ ~IsFull
    /\ register' = [register EXCEPT ![s] = "admitted"]
    /\ device' = [device EXCEPT ![s] = d]
    /\ overlap' = IF Cardinality(InFlight') > overlap THEN Cardinality(InFlight') ELSE overlap
    /\ UNCHANGED <<handler, alive, connVars, rowVars, blocking, serverVars, storeFaults, slipped>>

RegisterFull(s, d) ==
    /\ phase = "serving"
    /\ register[s] = "unused" /\ s = NewId
    /\ IsFull
    /\ register' = [register EXCEPT ![s] = "refused"]
    /\ device' = [device EXCEPT ![s] = d]
    /\ UNCHANGED <<handler, alive, connVars, rowVars, blocking, serverVars, storeFaults, overlap, slipped>>

\* A blocklist check that fails lets the device through.
RegisterCheck(s) ==
    /\ register[s] = "admitted"
    /\ \/ /\ register' = [register EXCEPT ![s] = IF IsDeviceBlocked(device[s]) THEN "refused" ELSE "cleared"]
          /\ UNCHANGED <<storeFaults, overlap, slipped>>
       \/ /\ StoreFails
          /\ register' = [register EXCEPT ![s] = "cleared"]
          /\ slipped' = slipped \cup {s}
    /\ UNCHANGED <<device, handler, alive, connVars, rowVars, blocking, serverVars, overlap>>

RegisterAdd(s) ==
    /\ register[s] = "cleared"
    /\ register' = [register EXCEPT ![s] = "added"]
    /\ sessions' = sessions \cup {s}
    /\ UNCHANGED <<device, handler, alive, online, kicked, rowVars, blocking, serverVars, storeFaults, overlap, slipped>>

\* The new row is offline and not blocked; the call succeeds with or without it.
RegisterUpsert(s) ==
    /\ register[s] = "added"
    /\ register' = [register EXCEPT ![s] = "done"]
    /\ \/ rows' = rows \cup {s} /\ UNCHANGED storeFaults
       \/ StoreFails /\ UNCHANGED rows
    /\ UNCHANGED <<device, handler, alive, connVars, rowOnline, rowBlocked, blocking, serverVars, overlap, slipped>>

(***************************************************************************)
(* The Channel handler.                                                    *)
(***************************************************************************)

\* SetStream: online in memory, not yet in the store.  (A session the manager does
\* not know, after a restart, gets NotFound and nothing changes.)
OpenChannel(s) ==
    /\ phase = "serving"
    /\ register[s] = "done"
    /\ handler[s] = "none"
    /\ s \in sessions
    /\ handler' = [handler EXCEPT ![s] = "open"]
    /\ alive' = [alive EXCEPT ![s] = TRUE]
    /\ online' = [online EXCEPT ![s] = TRUE]
    /\ UNCHANGED <<register, device, sessions, kicked, rowVars, blocking, serverVars, storeFaults, overlap, slipped>>

\* handleHeartbeat: RecordHeartbeat ...
Heartbeat(s) ==
    /\ handler[s] = "open"
    /\ alive[s]
    /\ online' = [online EXCEPT ![s] = TRUE]
    /\ handler' = [handler EXCEPT ![s] = "beating"]
    /\ UNCHANGED <<register, device, alive, sessions, kicked, rowVars, blocking, serverVars, storeFaults, overlap, slipped>>

\* UPDATE terminals SET online = value: nothing to update without a row.
WriteOnline(s, value) ==
    \/ /\ rowOnline' = [rowOnline EXCEPT ![s] = IF s \in rows THEN value ELSE @]
       /\ UNCHANGED storeFaults
    \/ StoreFails /\ UNCHANGED rowOnline

\* Mutant: the update sets last_heartbeat only.
UpdateTimestamp(s) == UNCHANGED <<rowOnline, storeFaults>>

UpdateHeartbeat(s) == WriteOnline(s, TRUE)

\* ... then UpdateHeartbeat.
HeartbeatPersist(s) ==
    /\ handler[s] = "beating"
    /\ UpdateHeartbeat(s)
    /\ handler' = [handler EXCEPT ![s] = "open"]
    /\ UNCHANGED <<register, device, alive, connVars, rows, rowBlocked, blocking, serverVars, overlap, slipped>>

\* Mutant: the loop does not select on DisconnectCh.
LoopReturnsOnError(s) == ~alive[s]

\* Mutant: an error of Recv is logged, and the loop goes on.
LoopReturnsOnKick(s) == kicked[s]

\* The receive loop returns, on a kick or when the client is gone.
LoopReturns(s) == kicked[s] \/ ~alive[s]

\* Mutant: the stream is cleared, the flag forgotten.
ClearStreamOnly(s) == UNCHANGED online

ClearStream(s) == online' = [online EXCEPT ![s] = FALSE]

\* The deferred ClearStream ...
HandlerClears(s) ==
    /\ handler[s] = "open"
    /\ LoopReturns(s)
    /\ handler' = [handler EXCEPT ![s] = "cleared"]
    /\ ClearStream(s)
    /\ UNCHANGED <<register, device, alive, sessions, kicked, rowVars, blocking, serverVars, storeFaults, overlap, slipped>>

\* Mutant: the store is not told.
MarkOfflineSkipped(s) == UNCHANGED <<rowOnline, storeFaults>>

MarkOffline(s) == WriteOnline(s, FALSE)

\* ... then MarkOffline, after which the client sees its stream end.
HandlerCloses(s) ==
    /\ handler[s] = "cleared"
    /\ MarkOffline(s)
    /\ handler' = [handler EXCEPT ![s] = "closed"]
    /\ alive' = [alive EXCEPT ![s] = FALSE]
    /\ UNCHANGED <<register, device, connVars, rows, rowBlocked, blocking, serverVars, overlap, slipped>>

\* HeartbeatChecker finds s stale: both places say offline, the stream stays.
Sweep(s) ==
    /\ s \in sessions /\ online[s]
    /\ online' = [online EXCEPT ![s] = FALSE]
    /\ WriteOnline(s, FALSE)
    /\ UNCHANGED <<register, device, handler, alive, sessions, kicked, rows, rowBlocked, blocking, serverVars, overlap, slipped>>

\* The client exits or its connection is lost.
ClientGone(s) ==
    /\ handler[s] \in {"open", "beating"}
    /\ alive[s]
    /\ alive' = [alive EXCEPT ![s] = FALSE]
    /\ UNCHANGED <<register, device, handler, connVars, rowVars, blocking, serverVars, storeFaults, overlap, slipped>>

(***************************************************************************)
(* The admin calls.                                                        *)
(***************************************************************************)

\* Mutant: the column is looked at, not the flag in memory.
KickRows(S) == kicked' = [s \in SessionIds |-> kicked[s] \/ (s \in S \cap sessions /\ rowOnline[s])]

\* Kick, kickDeviceSessions: only sessions marked online have DisconnectCh closed.
KickAll(S) == kicked' = [s \in SessionIds |-> kicked[s] \/ (s \in S \cap sessions /\ online[s])]

DisconnectTerminal(s) ==
    /\ phase = "serving"
    /\ s \in sessions /\ online[s] /\ ~kicked[s]
    /\ KickAll({s})
    /\ UNCHANGED <<register, device, handler, alive, sessions, online, rowVars, blocking, serverVars, storeFaults, overlap, slipped>>

\* BlockTerminal: MarkBlocked updates the rows there are ...
BlockMark(d) ==
    /\ phase = "serving"
    /\ blocking[d] = "idle"
    /\ rowBlocked' = [s \in SessionIds |-> rowBlocked[s] \/ (s \in rows /\ device[s] = d)]
    /\ blocking' = [blocking EXCEPT ![d] = "marked"]
    /\ UNCHANGED <<register, device, handler, alive, connVars, rows, rowOnline, serverVars, storeFaults, overlap, slipped>>

\* Register is done with the blocklist.
PastCheck == {"cleared", "added", "done"}

\* ... then the device's sessions are kicked, of those past the check the ones online.
BlockKick(d) ==
    /\ blocking[d] = "marked"
    /\ KickAll({s \in SessionIds : device[s] = d})
    /\ blocking' = [blocking EXCEPT ![d] = "idle"]
    /\ slipped' = slipped \cup {s \in SessionIds : device[s] = d /\ register[s] \in PastCheck /\ ~online[s]}
    /\ UNCHANGED <<register, device, handler, alive, sessions, online, rowVars, serverVars, storeFaults, overlap>>

UnblockTerminal(d) ==
    /\ phase = "serving"
    /\ IsDeviceBlocked(d)
    /\ rowBlocked' = [s \in SessionIds |-> rowBlocked[s] /\ device[s] # d]
    /\ UNCHANGED <<register, device, handler, alive, connVars, rows, rowOnline, blocking, serverVars, storeFaults, overlap, slipped>>

(***************************************************************************)
(* The process.                                                            *)
(***************************************************************************)

\* A new process: an empty manager, the same table, and for clients a broken stream.
Starts ==
    /\ register' = [s \in SessionIds |->
          IF register[s] \in {"admitted", "cleared", "added"} THEN "refused" ELSE register[s]]
    /\ handler' = [s \in SessionIds |-> IF handler[s] = "none" THEN "none" ELSE "closed"]
    /\ alive' = [s \in SessionIds |-> FALSE]
    /\ sessions' = {}
    /\ online' = [s \in SessionIds |-> FALSE]
    /\ kicked' = [s \in SessionIds |-> FALSE]
    /\ blocking' = [d \in Devices |-> "idle"]
    /\ phase' = "serving"
    /\ UNCHANGED <<device, rowVars, storeFaults, overlap, slipped>>

\* It dies.
ServerRestart ==
    /\ MayFail
    /\ sessions # {}
    /\ restarts' = restarts + 1
    /\ Starts
    /\ UNCHANGED stops

\* SIGINT or SIGTERM: GracefulStop takes no more calls ...
GracefulStop ==
    /\ phase = "serving" /\ MayFail
    /\ phase' = "draining"
    /\ stops' = stops + 1
    /\ UNCHANGED <<register, device, handler, alive, connVars, rowVars, blocking, restarts, storeFaults, overlap, slipped>>

\* Mutant: it does not wait for the streams.
CallsReturned ==
    /\ \A s \in SessionIds : register[s] \notin {"admitted", "cleared", "added"}
    /\ \A d \in Devices : blocking[d] = "idle"

AllReturned ==
    /\ \A s \in SessionIds : register[s] \notin {"admitted", "cleared", "added"}
    /\ \A s \in SessionIds : handler[s] \in {"none", "closed"}
    /\ \A d \in Devices : blocking[d] = "idle"

\* ... and Serve returns when those under way are done, the streams included.
ServeReturns ==
    /\ phase = "draining"
    /\ AllReturned
    /\ Starts
    /\ UNCHANGED <<restarts, stops>>

Next ==
    \/ \E s \in SessionIds :
          \/ \E d \in Devices : RegisterAdmit(s, d) \/ RegisterFull(s, d)
          \/ RegisterCheck(s) \/ RegisterAdd(s) \/ RegisterUpsert(s)
          \/ OpenChannel(s) \/ Heartbeat(s) \/ HeartbeatPersist(s)
          \/ HandlerClears(s) \/ HandlerCloses(s) \/ Sweep(s)
          \/ ClientGone(s) \/ DisconnectTerminal(s)
    \/ \E d \in Devices : BlockMark(d) \/ BlockKick(d) \/ UnblockTerminal(d)
    \/ ServerRestart \/ GracefulStop \/ ServeReturns

Spec == Init /\ [][Next]_vars

\* Goroutines step, clients that are there send heartbeats, and the sweep reaches
\* every session whose client is silent.  Strong fairness for the receive loop's
\* return: Go's select chooses at random between DisconnectCh and a message.
Fairness ==
    /\ \A s \in SessionIds :
          /\ WF_vars(RegisterCheck(s)) /\ WF_vars(RegisterAdd(s)) /\ WF_vars(RegisterUpsert(s))
          /\ WF_vars(Heartbeat(s)) /\ WF_vars(HeartbeatPersist(s))
          /\ SF_vars(HandlerClears(s)) /\ WF_vars(HandlerCloses(s))
          /\ WF_vars(~alive[s] /\ Sweep(s))
    /\ \A d \in Devices : WF_vars(BlockKick(d))
    /\ WF_vars(ServeReturns)

LiveSpec == Spec /\ Fairness

-----------------------------------------------------------------------------
(* Properties *)

\* Every variable has its type; only ids that Register accepted are in the manager
\* and in the table.
TypeOK ==
    /\ register \in [SessionIds -> {"unused", "admitted", "cleared", "added", "done", "refused"}]
    /\ device \in [SessionIds -> Devices \cup {NoDevice}]
    /\ handler \in [SessionIds -> {"none", "open", "beating", "cleared", "closed"}]
    /\ alive \in [SessionIds -> BOOLEAN]
    /\ sessions \subseteq SessionIds
    /\ online \in [SessionIds -> BOOLEAN]
    /\ kicked \in [SessionIds -> BOOLEAN]
    /\ rows \subseteq SessionIds
    /\ rowOnline \in [SessionIds -> BOOLEAN]
    /\ rowBlocked \in [SessionIds -> BOOLEAN]
    /\ blocking \in [Devices -> {"idle", "marked"}]
    /\ phase \in {"serving", "draining"}
    /\ restarts \in 0..MaxFailure
    /\ stops \in 0..MaxFailure
    /\ storeFaults \in 0..MaxFailure
    /\ overlap \in Nat
    /\ slipped \subseteq SessionIds
    /\ \A s \in sessions : register[s] \in {"added", "done"}
    /\ \A s \in rows : register[s] = "done"

Attached(s) == handler[s] \in {"open", "beating"}

\* The check of IsFull and the Add are separate calls, so the manager may hold more
\* sessions than maxConns; but only by the Register calls that have overlapped: when
\* they came one at a time the limit is not exceeded.
OvershootBounded ==
    MaxConns > 0 =>
        Cardinality(sessions) <= IF overlap = 0 THEN 0 ELSE MaxConns + overlap - 1

\* ClientConn.Online belongs to a stream that is being served: no heartbeat, sweep or
\* kick, in whatever order, leaves a finished session online.
OnlineIsAttached == \A s \in SessionIds : online[s] => s \in sessions /\ Attached(s)

\* terminals.online belongs to a handler that has not returned: UpdateHeartbeat never
\* lands after MarkOffline, and a process that is stopped by a signal leaves no row
\* online.  (A crash or a failed update may.)
RowOnlineIsAttached ==
    restarts = 0 /\ storeFaults = 0 =>
        \A s \in SessionIds : rowOnline[s] => Attached(s) \/ handler[s] = "cleared"

\* Of a device that is blocked, once BlockTerminal has returned, only sessions that have
\* been kicked are served, however calls of Register and Channel fall between its two
\* steps; but for those that were past the check and not marked online when the others
\* were kicked, and those whose check failed.
BlockHolds ==
    \A s \in SessionIds :
        Attached(s) /\ IsDeviceBlocked(device[s]) /\ blocking[device[s]] = "idle"
            => kicked[s] \/ s \in slipped

\* A kicked session's handler returns.
KickCloses == \A s \in SessionIds : kicked[s] ~> handler[s] = "closed"

\* Without a crash or a failed update, a session whose client is gone is shown offline
\* in the end ("online=0 30 s after the client disconnects",
\* docs/phase3-verification.md).
GoneShownOffline ==
    \A s \in SessionIds :
        (Attached(s) /\ ~alive[s]) ~> (~rowOnline[s] \/ restarts > 0 \/ storeFaults > 0)

\* While no update fails, a client that stays is shown online again and again, whatever
\* the sweep writes.
PresentShownOnline ==
    \A s \in SessionIds : []<>(rowOnline[s] \/ ~Attached(s) \/ ~alive[s] \/ storeFaults > 0)

\* A server that was told to stop is kept only by clients that stay and have not been
\* kicked.
StopEnds == []<>(phase = "serving" \/ \E s \in SessionIds : Attached(s) /\ alive[s] /\ ~kicked[s])
=============================================================================
