---------------------------- MODULE ReportStore ----------------------------
(***************************************************************************)
(* The tables of hardware reports behind a pool of connections.            *)
(*                                                                         *)
(* SaveHardwareReport (internal/server/store/hardware.go) writes a report  *)
(* in one transaction: a main row, then rows of its parts (disks, cards,   *)
(* BIOS, board).  GetLatestHardware and ListHardwareReports read main rows *)
(* and then, with a query of its own for each part, the parts.  Every      *)
(* query and transaction takes a connection of the pool (store.go) and     *)
(* keeps it until its rows are closed or it ends; other calls of the store *)
(* are single statements.  SQLite has one writer at a time: a second one   *)
(* waits or fails; a failing COMMIT discards.  A report has an entry of    *)
(* every part.  Which main rows are the latest, limits and time ranges are *)
(* left out: a read gets any row, or all.                                  *)
(***************************************************************************)
EXTENDS Naturals, FiniteSets

CONSTANTS
    Callers,        \* goroutines that call the store
    Reports,        \* report ids
    None,           \* no report, no caller
    NumParts,       \* parts of a report: 4
    PoolSize,       \* SetMaxOpenConns: 4
    MaxCall,        \* bound: calls
    MaxFault        \* bound: statements that fail for other reasons than the lock

ASSUME NoneAssumption == None \notin Reports \cup Callers
ASSUME SizesAssumption == NumParts \in Nat \ {0} /\ PoolSize \in Nat \ {0}
ASSUME BoundsAssumption == MaxCall \in Nat /\ MaxFault \in Nat

Parts == 1..NumParts

VARIABLES
    pc,         \* of every caller, where it is in its call
    history,    \* the call is ListHardwareReports
    report,     \* report saved, or whose parts are being read
    part,       \* part to be written or read next
    todo,       \* main rows read, parts not yet
    got,        \* rows read of every part
    partial,    \* a part could not be read and is left out
    busy,       \* connections in use: the callers that keep one
    lock,       \* caller with the write lock
    written,    \* part rows of the transaction under way, per caller
    mains,      \* hardware_reports
    rows,       \* rows of the part tables, per report and part
    calls, faults

callVars == <<pc, history, report, part, todo, got, partial>>
tableVars == <<mains, rows>>
vars == <<callVars, busy, lock, written, tableVars, calls, faults>>

NoRows == [p \in Parts |-> 0]

Init ==
    /\ pc = [c \in Callers |-> "idle"]
    /\ history = [c \in Callers |-> FALSE]
    /\ report = [c \in Callers |-> None]
    /\ part = [c \in Callers |-> 1]
    /\ todo = [c \in Callers |-> {}]
    /\ got = [c \in Callers |-> NoRows]
    /\ partial = [c \in Callers |-> FALSE]
    /\ busy = {} /\ lock = None
    /\ written = [c \in Callers |-> NoRows]
    /\ mains = {} /\ rows = [r \in Reports |-> NoRows]
    /\ calls = 0 /\ faults = 0

-----------------------------------------------------------------------------
(* The pool (database/sql) *)

HasFree == Cardinality(busy) < PoolSize

Take(c) == HasFree /\ busy' = busy \cup {c}
Release(c) == busy' = busy \ {c}

\* A statement on a connection that is given back at once.
OneStatement == HasFree /\ UNCHANGED busy

Goto(c, l) == pc' = [pc EXCEPT ![c] = l]

Fault ==
    /\ faults < MaxFault
    /\ faults' = faults + 1

-----------------------------------------------------------------------------
(* Calls *)

Start(c, l) ==
    /\ pc[c] = "idle"
    /\ calls < MaxCall
    /\ calls' = calls + 1
    /\ Goto(c, l)

\* A report id comes twice when a report is replayed.
CallSave(c, r) ==
    /\ Start(c, "begin")
    /\ report' = [report EXCEPT ![c] = r]
    /\ UNCHANGED <<history, part, todo, got, partial, busy, lock, written, tableVars, faults>>

CallRead(c, all) ==
    /\ Start(c, "query")
    /\ history' = [history EXCEPT ![c] = all]
    /\ UNCHANGED <<report, part, todo, got, partial, busy, lock, written, tableVars, faults>>

\* Any other call: an Exec, a QueryRow, or a Query without queries inside.
CallOther(c) ==
    /\ Start(c, "statement")
    /\ UNCHANGED <<history, report, part, todo, got, partial, busy, lock, written, tableVars, faults>>

Statement(c) ==
    /\ pc[c] = "statement"
    /\ OneStatement
    /\ Goto(c, "idle")
    /\ UNCHANGED <<history, report, part, todo, got, partial, lock, written, tableVars, calls, faults>>

-----------------------------------------------------------------------------
(* SaveHardwareReport *)

Begin(c) ==
    /\ pc[c] = "begin"
    /\ Take(c)
    /\ written' = [written EXCEPT ![c] = NoRows]
    /\ part' = [part EXCEPT ![c] = 1]
    /\ Goto(c, "main")
    /\ UNCHANGED <<history, report, todo, got, partial, lock, tableVars, calls, faults>>

\* Mutant: the number of rows inserted is not looked at.
AfterMainAlways(c) == "part"

\* INSERT OR IGNORE: a report that is there already gets no parts.
AfterMain(c) == IF report[c] \in mains THEN "commit" ELSE "part"

InsertMain(c) ==
    /\ pc[c] = "main"
    /\ lock = None
    /\ lock' = c
    /\ Goto(c, AfterMain(c))
    /\ UNCHANGED <<history, report, part, todo, got, partial, busy, written, tableVars, calls, faults>>

\* Loops over the entries of a part are one step.
InsertPart(c) ==
    /\ pc[c] = "part"
    /\ written' = [written EXCEPT ![c][part[c]] = 1]
    /\ part' = [part EXCEPT ![c] = @ + 1]
    /\ Goto(c, IF part[c] = NumParts THEN "commit" ELSE "part")
    /\ UNCHANGED <<history, report, todo, got, partial, busy, lock, tableVars, calls, faults>>

Commit(c) ==
    /\ pc[c] = "commit"
    /\ mains' = mains \cup {report[c]}
    /\ rows' = [rows EXCEPT ![report[c]] = [p \in Parts |-> @[p] + written[c][p]]]
    /\ lock' = None
    /\ Release(c)
    /\ Goto(c, "idle")
    /\ UNCHANGED <<history, report, part, todo, got, partial, written, calls, faults>>

\* Mutant: what was written before the failure is committed.
KeepWritten(c) ==
    /\ mains' = mains \cup {report[c]}
    /\ rows' = [rows EXCEPT ![report[c]] = [p \in Parts |-> @[p] + written[c][p]]]

\* The deferred Rollback.
Discard(c) == UNCHANGED tableVars

\* A statement of the transaction fails: the lock is taken, or any other reason.
SaveFails(c) ==
    /\ \/ pc[c] = "main" /\ lock # None /\ UNCHANGED faults
       \/ pc[c] \in {"main", "part", "commit"} /\ Fault
    /\ IF lock = c THEN Discard(c) /\ lock' = None ELSE UNCHANGED <<tableVars, lock>>
    /\ Release(c)
    /\ Goto(c, "idle")
    /\ UNCHANGED <<history, report, part, todo, got, partial, written, calls>>

-----------------------------------------------------------------------------
(* GetLatestHardware, ListHardwareReports *)

\* The parts of main row r are to be read.
Load(c, r) ==
    /\ report' = [report EXCEPT ![c] = r]
    /\ part' = [part EXCEPT ![c] = 1]
    /\ got' = [got EXCEPT ![c] = NoRows]
    /\ partial' = [partial EXCEPT ![c] = FALSE]
    /\ Goto(c, "load")

\* QueryRow gives its connection back with Scan.
QueryLatest(c) ==
    /\ pc[c] = "query" /\ ~history[c]
    /\ OneStatement
    /\ \/ mains = {} /\ Goto(c, "idle") /\ UNCHANGED <<report, part, got, partial>>
       \/ \E r \in mains : Load(c, r)
    /\ UNCHANGED <<history, todo, lock, written, tableVars, calls, faults>>

QueryHistory(c) ==
    /\ pc[c] = "query" /\ history[c]
    /\ Take(c)
    /\ todo' = [todo EXCEPT ![c] = mains]
    /\ Goto(c, "scan")
    /\ UNCHANGED <<history, report, part, got, partial, lock, written, tableVars, calls, faults>>

\* Mutant: only the deferred Close.
KeepConnection(c) == UNCHANGED busy

\* "release the connection before sub-queries"
CloseRows(c) == Release(c)

ScanHistory(c) ==
    /\ pc[c] = "scan"
    /\ CloseRows(c)
    /\ Goto(c, "next")
    /\ UNCHANGED <<history, report, part, todo, got, partial, lock, written, tableVars, calls, faults>>

\* The main query, or a scan of one of its rows, fails: the call returns the error.
ReadFails(c) ==
    /\ pc[c] \in {"query", "scan"}
    /\ Fault
    /\ Release(c)
    /\ Goto(c, "idle")
    /\ UNCHANGED <<history, report, part, todo, got, partial, lock, written, tableVars, calls>>

NextReport(c) ==
    /\ pc[c] \in {"next", "loaded"}
    /\ \/ /\ history[c]
          /\ \E r \in todo[c] : Load(c, r) /\ todo' = [todo EXCEPT ![c] = @ \ {r}]
       \/ /\ ~history[c] \/ todo[c] = {}
          /\ Goto(c, "idle")
          /\ UNCHANGED <<report, part, todo, got, partial>>
    /\ UNCHANGED <<history, busy, lock, written, tableVars, calls, faults>>

\* loadDisks, loadNets, ...: a query, ...
QueryPart(c) ==
    /\ pc[c] = "load"
    /\ Take(c)
    /\ Goto(c, "rows")
    /\ UNCHANGED <<history, report, part, todo, got, partial, lock, written, tableVars, calls, faults>>

AfterPart(c) ==
    /\ part' = [part EXCEPT ![c] = @ + 1]
    /\ Goto(c, IF part[c] = NumParts THEN "loaded" ELSE "load")

\* ... whose rows are read and closed.
ReadPart(c) ==
    /\ pc[c] = "rows"
    /\ got' = [got EXCEPT ![c][part[c]] = rows[report[c]][part[c]]]
    /\ Release(c)
    /\ AfterPart(c)
    /\ UNCHANGED <<history, report, todo, partial, lock, written, tableVars, calls, faults>>

\* An error is not reported: the part is empty.
PartFails(c) ==
    /\ pc[c] \in {"load", "rows"}
    /\ Fault
    /\ partial' = [partial EXCEPT ![c] = TRUE]
    /\ Release(c)
    /\ AfterPart(c)
    /\ UNCHANGED <<history, report, todo, got, lock, written, tableVars, calls>>

Call(c) ==
    \/ \E r \in Reports : CallSave(c, r)
    \/ \E all \in BOOLEAN : CallRead(c, all)
    \/ CallOther(c)

\* What a goroutine that is in a call does when it can.
Proceed(c) ==
    \/ Statement(c)
    \/ Begin(c) \/ InsertMain(c) \/ InsertPart(c) \/ Commit(c)
    \/ QueryLatest(c) \/ QueryHistory(c) \/ ScanHistory(c)
    \/ NextReport(c) \/ QueryPart(c) \/ ReadPart(c)

Next ==
    \E c \in Callers :
        Call(c) \/ Proceed(c) \/ SaveFails(c) \/ ReadFails(c) \/ PartFails(c)

Spec == Init /\ [][Next]_vars

\* A goroutine goes on as soon as it can.  Nobody has to call, and no statement has
\* to fail.  As calls are bounded, none waits for ever behind calls that keep coming.
Fairness == \A c \in Callers : WF_vars(Proceed(c))

LiveSpec == Spec /\ Fairness

-----------------------------------------------------------------------------
(* Properties *)

\* Every variable has its type.  No part of a report is stored twice, however often it
\* is replayed (hardware.go:46, the rows affected).
TypeOK ==
    /\ pc \in [Callers -> {"idle", "statement", "begin", "main", "part", "commit",
                           "query", "scan", "next", "load", "rows", "loaded"}]
    /\ history \in [Callers -> BOOLEAN]
    /\ report \in [Callers -> Reports \cup {None}]
    /\ part \in [Callers -> 1..(NumParts + 1)]
    /\ todo \in [Callers -> SUBSET Reports]
    /\ got \in [Callers -> [Parts -> 0..1]]
    /\ partial \in [Callers -> BOOLEAN]
    /\ busy \subseteq Callers
    /\ lock \in Callers \cup {None}
    /\ written \in [Callers -> [Parts -> 0..1]]
    /\ mains \subseteq Reports
    /\ rows \in [Reports -> [Parts -> 0..1]]
    /\ calls \in 0..MaxCall /\ faults \in 0..MaxFault

Waits(c) == pc[c] \in {"statement", "begin", "query", "load"}

\* No call waits for a connection while it keeps one: whatever its size, the pool
\* cannot be used up by calls that wait for each other ("This avoids a deadlock",
\* hardware.go:202).
NoHoldAndWait == \A c \in Callers : Waits(c) => c \notin busy

\* What a reader got of a report is all of it, each part once, however saves, replays
\* and failing saves of it fall between its queries; unless the query of a part failed.
SnapshotWhole ==
    \A c \in Callers : (pc[c] = "loaded" /\ ~partial[c]) => \A p \in Parts : got[c][p] = 1

\* Every call returns: neither the pool nor the write lock is kept for ever.
EveryCallReturns == \A c \in Callers : pc[c] # "idle" ~> pc[c] = "idle"
=============================================================================
