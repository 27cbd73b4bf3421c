----------------------------- MODULE AdminCalls -----------------------------
(***************************************************************************)
(* One admin at work: the subcommands of the command line                  *)
(* (cmd/admin/commands.go) and the same calls through the web gateway      *)
(* (cmd/admin/gateway.go), the handlers that answer them                   *)
(* (internal/server/server.go, command.go), the queries behind these       *)
(* (internal/server/store/command.go, hardware.go, terminal.go), and what  *)
(* is printed (cmd/admin/output.go).                                       *)
(*                                                                         *)
(* Meanwhile terminals register, come and go, and report.  A handler makes *)
(* several queries without a transaction, each an action here; what        *)
(* becomes of a queued command is CommandPipeline's subject, the list      *)
(* command TerminalQueries'.  Sessions, commands and reports are numbered  *)
(* in the order of their rows.  A command has one parameter at most, whose *)
(* texts are sequences of characters without a backslash.                  *)
(*                                                                         *)
(* A call may miss the server, and its answer the admin: the handler then  *)
(* has gone to its end all the same, before the admin's next call.         *)
(***************************************************************************)
EXTENDS Integers, Sequences, FiniteSets, SequencesExt, FiniteSetsExt, Functions, TLC

CONSTANTS
    Devices,            \* device ids, texts of 64 characters
    Clipped,            \* a device id as the list command prints it: 16 characters
    None,               \* the empty text, an absent value
    LogDefault,         \* entries of a command log when the request names none: 50
    LogMax,             \* the most it may name: 200
    HistoryDefault,     \* the same for snapshots: 100
    HistoryMax,         \* and 500
    Limits,             \* the limits that are asked for
    Ranges,             \* the pairs of bounds that are asked for
    MaxRow,             \* bound: sessions
    MaxEntry,           \* bound: commands, reports
    MaxChange,          \* bound: changes of the store, the sessions and the clock
    MaxSecond,          \* bound: seconds that pass
    MaxFault            \* bound: statements that fail

ASSUME LimitsAssumption ==
    /\ {LogDefault, HistoryDefault} \subseteq Nat \ {0}
    /\ LogMax \in Nat /\ LogDefault <= LogMax
    /\ HistoryMax \in Nat /\ HistoryDefault <= HistoryMax
\* An absent value is no row.
ASSUME NoneAssumption == None \notin Nat
ASSUME BoundsAssumption == {MaxRow, MaxEntry, MaxChange, MaxSecond, MaxFault} \subseteq Nat

\* --since and --until: a local time and its zone, UTC or one east of it.
Times == {None} \cup [local : 0..MaxSecond, zone : {"Z", "+"}]
ASSUME InputAssumption == Limits \subseteq Int /\ Ranges \subseteq Times \X Times

VARIABLES
    \* the store and the connection manager
    rows,       \* terminals: [dev, seen]
    blocked,    \* rows with blocked = 1
    live,       \* sessions whose ClientConn is online
    kicked,     \* sessions whose DisconnectCh is closed
    logs,       \* command_logs: [ses, type, params, status, created]
    reports,    \* hardware_reports: [dev, created]
    now, changes, faults,
    \* the call under way
    verb,       \* the subcommand, "none" between calls
    request,
    stage,      \* "idle", "called", "found", "saved", "printed"
    found,      \* the row the handler found
    printed,    \* what the admin sees
    \* history
    given,      \* of every logged command: the device, type and parameters asked for
    queued,     \* commands that entered a queue
    known,      \* how many rows, logs and reports there were when the call came in
    asOf,       \* ... and when the last query ran
    gone        \* sessions that were offline at some moment of the call

storeVars == <<rows, blocked, live, kicked, logs, reports>>
boundVars == <<now, changes, faults>>
callVars == <<verb, request, stage, found, printed>>
callHistory == <<known, asOf>>
historyVars == <<given, queued, callHistory, gone>>
vars == <<storeVars, boundVars, callVars, historyVars>>

Sessions == DOMAIN rows
SessionNames == 1..MaxRow
RowsOf(d) == {s \in Sessions : rows[s].dev = d}

\* Members of CommandType, and a number that is none (a browser may send any).
KnownTypes == {"UNSPECIFIED", "RUN_SCRIPT"}
Types == KnownTypes \cup {"unknown"}

Lengths == [rows |-> Len(rows), logs |-> Len(logs), reports |-> Len(reports), faults |-> faults]
NoLengths == [rows |-> 0, logs |-> 0, reports |-> 0, faults |-> 0]

Init ==
    /\ rows = <<>> /\ blocked = {} /\ live = {} /\ kicked = {}
    /\ logs = <<>> /\ reports = <<>>
    /\ now = 0 /\ changes = 0 /\ faults = 0
    /\ given = <<>> /\ queued = {}
    /\ verb = "none" /\ request = None /\ stage = "idle" /\ found = None
    /\ printed = None
    /\ known = NoLengths /\ asOf = NoLengths /\ gone = {}

-----------------------------------------------------------------------------
(* The terminals *)
Changes == changes < MaxChange /\ changes' = changes + 1

\* What is not a call.
Outside == Changes /\ UNCHANGED <<faults, callVars, given, queued, callHistory>>

Register(d) ==
    /\ Outside
    /\ Len(rows) < MaxRow
    /\ rows' = Append(rows, [dev |-> d, seen |-> now])
    /\ UNCHANGED <<blocked, live, kicked, logs, reports, now, gone>>

\* Channel opens; it ends.
Comes(s) ==
    /\ Outside
    /\ s \notin live /\ s \notin kicked
    /\ live' = live \cup {s}
    /\ UNCHANGED <<rows, blocked, kicked, logs, reports, now, gone>>

Goes(s) ==
    /\ Outside
    /\ s \in live
    /\ live' = live \ {s}
    /\ gone' = IF stage = "idle" THEN gone ELSE gone \cup {s}
    /\ UNCHANGED <<rows, blocked, kicked, logs, reports, now>>

ReportHardware(s) ==
    /\ Outside
    /\ s \in live
    /\ Len(reports) < MaxEntry
    /\ reports' = Append(reports, [dev |-> rows[s].dev, created |-> now])
    /\ UNCHANGED <<rows, blocked, live, kicked, logs, now, gone>>

Tick ==
    /\ Outside
    /\ now < MaxSecond
    /\ now' = now + 1
    /\ UNCHANGED <<storeVars, gone>>

-----------------------------------------------------------------------------
(* The command line and the gateway *)

\* What may stand where an id is expected.
Names == Devices \cup SessionNames \cup {Clipped, None}

Verbs == {"show", "kick", "block", "unblock", "history", "cmd", "cmdlog"}

Call(v, r) ==
    /\ stage = "idle"
    /\ verb' = v /\ request' = r /\ stage' = "called"
    /\ known' = Lengths /\ gone' = Sessions \ live
    /\ UNCHANGED <<storeVars, boundVars, found, printed, given, queued, asOf>>

\* "Auto-detect: 64-char hex = device_id, otherwise session_id."
ByLength(name) ==
    IF name \in Devices THEN [device |-> name, session |-> None]
                        ELSE [device |-> None, session |-> name]

ShowCmd(name) == Call("show", ByLength(name))
KickCmd(name) == Call("kick", [session |-> name])
BlockCmd(name) == Call("block", [device |-> name])
UnblockCmd(name) == Call("unblock", [device |-> name])
HistoryCmd(name, range, limit) ==
    Call("history", [device |-> name, since |-> range[1], until |-> range[2], limit |-> limit])
CmdLogCmd(name, limit) ==
    LET asked == ByLength(name)
    IN  Call("cmdlog", [device |-> asked.device, session |-> asked.session, limit |-> limit])

\* An argument is split at its first "=", if it has one.
splitKeyValue(arg) ==
    LET equals == SelectInSeq(arg, LAMBDA c : c = "=")
    IN  IF equals = 0 THEN <<arg>>
        ELSE <<SubSeq(arg, 1, equals - 1), SubSeq(arg, equals + 1, Len(arg))>>

\* The parameter: the last argument that is a pair gives it.
ParamsOf(args) ==
    LET pairs == SelectSeq([i \in DOMAIN args |-> splitKeyValue(args[i])], LAMBDA p : Len(p) = 2)
    IN  IF pairs = <<>> THEN None ELSE [key |-> Last(pairs)[1], value |-> Last(pairs)[2]]

\* A type the enumeration does not know is refused without a call.
CmdCmd(name, type, args) ==
    /\ type \in KnownTypes
    /\ Call("cmd", [device |-> name, type |-> type, params |-> ParamsOf(args)])

\* The gateway hands on what the browser sent: any type, parameters as a map.
ProxySendCommand(name, type, params) ==
    Call("cmd", [device |-> name, type |-> type, params |-> params])

\* Both fields, which no subcommand sends.
ProxyGetCommandLog(device, session, limit) ==
    Call("cmdlog", [device |-> device, session |-> session, limit |-> limit])

\* k=v k, k alone, and a key that ends in a quote.
Arguments == {<<<<"k", "=", "v">>, <<"k">>>>, <<<<"k">>>>, <<<<"k", "quote", "=", "v">>>>}

Invoke ==
    \/ \E name \in Names : ShowCmd(name)
    \/ \E name \in SessionNames \cup {None} : KickCmd(name)
    \/ \E name \in Devices \cup {Clipped} : BlockCmd(name) \/ UnblockCmd(name)
    \/ \E name \in Devices, range \in Ranges, limit \in Limits :
          HistoryCmd(name, range, limit)
    \/ \E name \in Names, limit \in Limits : CmdLogCmd(name, limit)
    \/ \E name \in Devices \cup {Clipped, None}, type \in Types, args \in Arguments :
          CmdCmd(name, type, args)
    \/ \E name \in Devices : ProxySendCommand(name, "unknown", None)
    \/ \E device \in Devices, session \in SessionNames, limit \in Limits :
          ProxyGetCommandLog(device, session, limit)

-----------------------------------------------------------------------------
(* The store *)

\* Sequences of n rows of a table in S, or of all, such that none left out and none
\* further back is newer: ORDER BY created_at DESC LIMIT n.
NewestOf(table, S, n) ==
    LET size == IF Cardinality(S) < n THEN Cardinality(S) ELSE n
    IN  {s \in UNION {SetToSeqs(T) : T \in kSubset(size, S)} :
            /\ \A i, j \in DOMAIN s : i < j => table[s[i]].created >= table[s[j]].created
            /\ \A i \in DOMAIN s, x \in S \ ToSet(s) : table[s[i]].created >= table[x].created}

\* ORDER BY last_seen_at DESC LIMIT 1
GetTerminalByDevice(d) == {s \in RowsOf(d) : \A t \in RowsOf(d) : rows[t].seen <= rows[s].seen}

GetTerminal(name) == {s \in Sessions : s = name}

GetLatestHardware(d) ==
    NewestOf(reports, {r \in DOMAIN reports : reports[r].dev = d}, 1)

\* created_at, a text ending in "Z", against a bound, as texts: "+" sorts before "Z".
NotBefore(created, since) == since = None \/ created >= since.local

NotAfter(created, until) ==
    until = None \/ created < until.local \/ (created = until.local /\ until.zone = "Z")

ListHardwareReports(limit) ==
    NewestOf(reports,
             {r \in DOMAIN reports :
                 /\ reports[r].dev = request.device
                 /\ NotBefore(reports[r].created, request.since)
                 /\ NotAfter(reports[r].created, request.until)},
             limit)

\* Mutant: the join takes the latest session of the device only.
OfLatestSession(i) == logs[i].ses \in GetTerminalByDevice(request.device)

\* ... LEFT JOIN terminals t ON t.session_id = cl.session_id WHERE t.device_id = ?
OfDevice(i) == rows[logs[i].ses].dev = request.device

OfSession(i) == request.session = None \/ logs[i].ses = request.session

\* "deviceID takes precedence"; with neither id, every command.
GetCommandLog(limit) ==
    NewestOf(logs, {i \in DOMAIN logs : IF request.device # None THEN OfDevice(i) ELSE OfSession(i)}, limit)

\* The text of the type column: the enumeration's name, or one made of the number.
cmdTypeName(type) == IF type \in KnownTypes THEN <<"name", type>> ELSE <<"number", type>>

parseCommandType(name) == IF name[1] = "name" THEN name[2] ELSE "UNSPECIFIED"

\* A quote is escaped.
Escaped(text) ==
    FlattenSeq([i \in DOMAIN text |-> IF text[i] = "quote" THEN <<"escape", "quote">> ELSE <<text[i]>>])

\* The characters behind a backslash, and a backslash with none behind it.
unescapeJSON(text) ==
    LET kept == {i \in DOMAIN text : text[i] = "escape" => i = Len(text)}
    IN  [i \in 1..Cardinality(kept) |-> text[SetToSortSeq(kept, <)[i]]]

\* The params column: {}, or {"key":"value"} without the braces.
marshalJSONMap(params) ==
    IF params = None THEN <<>>
    ELSE <<"quote">> \o Escaped(params.key) \o <<"quote", ":", "quote">>
            \o Escaped(params.value) \o <<"quote">>

\* A text that begins with a quote, up to the next quote, escaped or not, and the rest.
Quoted(text) ==
    LET end == 1 + SelectInSeq(Tail(text), LAMBDA c : c = "quote")
    IN  [text |-> unescapeJSON(SubSeq(text, 2, end - 1)), rest |-> SubSeq(text, end + 1, Len(text))]

\* The parser wants the value right behind the key, where there is a colon, and stops;
\* behind a pair, where there is the value, it stops too.
unmarshalJSONMap(text) ==
    IF text = <<>> THEN None
    ELSE LET key == Quoted(text)
         IN  IF Head(key.rest) # "quote" THEN None
             ELSE [key |-> key.text, value |-> Quoted(key.rest).text]

-----------------------------------------------------------------------------
(* What is printed *)

\* An error goes to stderr and the exit status is 1.
printError(err) == [error |-> err.error]

\* The session, then its hardware, or "(no report yet)".
printTerminalDetail(resp) == Restrict(resp, {"session", "device", "hardware"})

printTerminalHistory(resp) == [snapshots |-> resp.snapshots, count |-> Len(resp.snapshots)]

\* The parameters of a command have no column.
printCommandLog(resp) ==
    [entries |-> [i \in DOMAIN resp.entries |-> Restrict(resp.entries[i], {"command", "type", "status"})],
     count |-> Len(resp.entries)]

printResult(ok, message) == [mark |-> IF ok THEN "check" ELSE "cross", message |-> message]

\* --json: the response itself.
printJSON(resp) == resp

Output(json, v, resp) ==
    IF "error" \in DOMAIN resp THEN printError(resp)
    ELSE IF json THEN printJSON(resp)
    ELSE CASE v = "show" -> printTerminalDetail(resp)
           [] v = "history" -> printTerminalHistory(resp)
           [] v = "cmdlog" -> printCommandLog(resp)
           [] OTHER -> printResult(resp.ok, resp.message)

-----------------------------------------------------------------------------
(* The handlers *)
Handles(v, at, next) ==
    /\ verb = v /\ stage = at /\ stage' = next
    /\ UNCHANGED <<verb, request, known, gone>>

Finds(v, s) ==
    /\ Handles(v, "called", "found")
    /\ found' = s
    /\ UNCHANGED <<printed, asOf>>

Error(message) == [error |-> message]

\* The answer reaches the admin, or is lost on its way: "if err != nil { return err }".
Answers(v, at, response) ==
    /\ Handles(v, at, "printed")
    /\ \E json \in BOOLEAN, reply \in {response, Error("Unavailable")} :
          printed' = Output(json, v, reply)
    /\ asOf' = Lengths
    /\ UNCHANGED found

\* A statement that fails.
Fault == faults < MaxFault /\ faults' = faults + 1 /\ UNCHANGED <<now, changes>>

Response(ok, message) == [ok |-> ok, message |-> message]
Reads == UNCHANGED <<storeVars, given, queued>>

\* GetTerminal: the row ...
GetTerminalRow ==
    LET hits == IF request.device # None THEN GetTerminalByDevice(request.device)
                ELSE GetTerminal(request.session)
    IN  /\ verb = "show"
        /\ \/ hits = {} /\ Answers("show", "called", Error("NotFound"))
           \/ \E s \in hits : Finds("show", s)
        /\ Reads /\ UNCHANGED boundVars

Detail(hw) == [session |-> found, device |-> rows[found].dev, hardware |-> hw]

\* ... then the hardware of its device, of which a failure is only logged.
GetTerminalHardware ==
    /\ verb = "show" /\ stage = "found"
    /\ \/ /\ \E hits \in GetLatestHardware(rows[found].dev) :
                Answers("show", "found", Detail(IF hits = <<>> THEN None ELSE hits[1]))
          /\ UNCHANGED boundVars
       \/ Answers("show", "found", Detail(None)) /\ Fault
    /\ Reads

Limit(asked, default, max) == IF asked <= 0 \/ asked > max THEN default ELSE asked

GetTerminalHistory ==
    /\ verb = "history"
    /\ \E s \in ListHardwareReports(Limit(request.limit, HistoryDefault, HistoryMax)) :
          Answers("history", "called", [snapshots |-> s])
    /\ Reads /\ UNCHANGED boundVars

Entry(i) == [command |-> i, type |-> parseCommandType(logs[i].type),
             params |-> unmarshalJSONMap(logs[i].params), status |-> logs[i].status]

HandleGetCommandLog ==
    /\ verb = "cmdlog"
    /\ \E s \in GetCommandLog(Limit(request.limit, LogDefault, LogMax)) :
          Answers("cmdlog", "called", [entries |-> [i \in DOMAIN s |-> Entry(s[i])]])
    /\ Reads /\ UNCHANGED boundVars

\* A query or an update that fails as the whole call.
CallFails ==
    /\ \E v \in {"show", "history", "cmdlog", "block", "unblock"} :
          Answers(v, "called", Error("Internal"))
    /\ Fault /\ Reads

\* The call does not reach the server.
CallLost ==
    /\ \E v \in Verbs : Answers(v, "called", Error("Unavailable"))
    /\ Reads /\ UNCHANGED boundVars

\* DisconnectTerminal reads Online ...
DisconnectCheck ==
    /\ verb = "kick"
    /\ \/ request.session \notin live /\ Answers("kick", "called", Response(FALSE, "offline"))
       \/ request.session \in live /\ Finds("kick", request.session)
    /\ Reads /\ UNCHANGED boundVars

\* ... and Kick reads it again.
Kick ==
    /\ Answers("kick", "found", Response(TRUE, "kicked"))
    /\ kicked' = IF found \in live THEN kicked \cup {found} ELSE kicked
    /\ Changes
    /\ UNCHANGED <<rows, blocked, live, logs, reports, now, faults, given, queued>>

\* Mutant: only the row of the latest session.
MarkLatest(d) == blocked' = blocked \cup GetTerminalByDevice(d)

MarkBlocked(d) == blocked' = blocked \cup RowsOf(d)

BlockTerminal ==
    /\ Handles("block", "called", "saved")
    /\ MarkBlocked(request.device)
    /\ Changes
    /\ UNCHANGED <<rows, live, kicked, logs, reports, now, faults, found, printed, given, queued, asOf>>

kickDeviceSessions ==
    /\ Answers("block", "saved", Response(TRUE, "blocked"))
    /\ kicked' = kicked \cup (RowsOf(request.device) \cap live)
    /\ UNCHANGED <<rows, blocked, live, logs, reports, boundVars, given, queued>>

UnblockTerminal ==
    /\ Answers("unblock", "called", Response(TRUE, "unblocked"))
    /\ blocked' = blocked \ RowsOf(request.device)
    /\ Changes
    /\ UNCHANGED <<rows, live, kicked, logs, reports, now, faults, given, queued>>

\* SendCommand: the latest session of the device, for which any failure is "not found" ...
SendCommandFinds ==
    LET hits == GetTerminalByDevice(request.device)
        valid == request.device # None /\ request.type # "UNSPECIFIED"
        notFound == Answers("cmd", "called", Response(FALSE, "device not found"))
    IN  /\ verb = "cmd"
        /\ \/ ~valid /\ Answers("cmd", "called", Error("InvalidArgument")) /\ UNCHANGED boundVars
           \/ valid /\ hits = {} /\ notFound /\ UNCHANGED boundVars
           \/ valid /\ notFound /\ Fault
           \/ valid /\ (\E s \in hits : Finds("cmd", s)) /\ UNCHANGED boundVars
        /\ Reads

SendCommandOffline ==
    /\ found \notin live
    /\ Answers("cmd", "found", Response(FALSE, "terminal is offline"))
    /\ Reads /\ UNCHANGED boundVars

\* ... its row in the log ...
SendCommandSaves ==
    /\ found \in live
    /\ Len(logs) < MaxEntry
    /\ Handles("cmd", "found", "saved")
    /\ logs' = Append(logs, [ses |-> found, type |-> cmdTypeName(request.type),
                             params |-> marshalJSONMap(request.params), status |-> "Pending",
                             created |-> now])
    /\ given' = Append(given, request)
    /\ Changes
    /\ UNCHANGED <<rows, blocked, live, kicked, reports, now, faults, found, printed, queued, asOf>>

SendCommandSaveFails ==
    /\ found \in live
    /\ Answers("cmd", "found", Error("Internal"))
    /\ Fault /\ Reads

\* ... and the queue; when that is full the row is marked, if the store takes it.
SendCommandQueues ==
    /\ \/ /\ Answers("cmd", "saved", Response(TRUE, "queued"))
          /\ queued' = queued \cup {Len(logs)}
          /\ UNCHANGED <<logs, boundVars>>
       \/ /\ Answers("cmd", "saved", Response(FALSE, "command queue full"))
          /\ \/ logs' = [logs EXCEPT ![Len(logs)].status = "Failed"] /\ UNCHANGED boundVars
             \/ UNCHANGED logs /\ Fault
          /\ UNCHANGED queued
    /\ UNCHANGED <<rows, blocked, live, kicked, reports, given>>

\* What the consumer, the timeout's watcher and the client write of a command that was
\* queued: Failed is a send that failed or what the client answered.
Progress == {"Sent", "Executing", "Completed", "Failed", "Timeout"}

\* Mutant: the row is the latest, not that of the command.
UpdateLatest(i) ==
    /\ i \in queued
    /\ Outside
    /\ \E status \in Progress : logs' = [logs EXCEPT ![Len(logs)].status = status]
    /\ UNCHANGED <<rows, blocked, live, kicked, reports, now, gone>>

UpdateCommandResult(i) ==
    /\ i \in queued
    /\ Outside
    /\ \E status \in Progress :
          /\ status = "Timeout" => logs[i].status \notin {"Completed", "Failed", "Timeout"}
          /\ logs' = [logs EXCEPT ![i].status = status]
    /\ UNCHANGED <<rows, blocked, live, kicked, reports, now, gone>>

Serve ==
    \/ GetTerminalRow \/ GetTerminalHardware
    \/ GetTerminalHistory \/ HandleGetCommandLog
    \/ CallFails \/ CallLost
    \/ DisconnectCheck \/ Kick
    \/ BlockTerminal \/ kickDeviceSessions \/ UnblockTerminal
    \/ SendCommandFinds \/ SendCommandOffline \/ SendCommandSaves \/ SendCommandSaveFails
    \/ SendCommandQueues

\* The prompt again.
Return ==
    /\ stage = "printed"
    /\ verb' = "none" /\ request' = None /\ stage' = "idle" /\ found' = None
    /\ printed' = None
    /\ known' = NoLengths /\ asOf' = NoLengths /\ gone' = {}
    /\ UNCHANGED <<storeVars, boundVars, given, queued>>

Next ==
    \/ \E d \in Devices : Register(d)
    \/ \E s \in Sessions : Comes(s) \/ Goes(s) \/ ReportHardware(s)
    \/ \E i \in DOMAIN logs : UpdateCommandResult(i)
    \/ Tick \/ Invoke \/ Serve \/ Return

Spec == Init /\ [][Next]_vars

-----------------------------------------------------------------------------
Shown(v) == stage = "printed" /\ verb = v /\ "error" \notin DOMAIN printed

\* A command log lists the newest commands given to the device, whatever session of
\* it they went to, or to the session, and as many as asked for (GetCommandLog).
LogIsNewest ==
    Shown("cmdlog") =>
        LET listed == [i \in DOMAIN printed.entries |-> printed.entries[i].command]
            asked == {i \in 1..asOf.logs :
                         IF request.device # None THEN given[i].device = request.device
                         ELSE request.session \in {None, logs[i].ses}}
            most == IF request.limit \in 1..LogMax THEN request.limit ELSE LogDefault
        IN  listed \in NewestOf(logs, asked, most)

\* A command log gives every command the type it was sent with, and claims of none that
\* it was sent, executed, completed or timed out unless it entered a queue: one that was
\* refused or whose call failed stays Pending or Failed, whatever is written of the others
\* (cmdTypeName with its inverse, SendCommand, UpdateCommandStatus, UpdateCommandResult).
LogTruthful ==
    Shown("cmdlog") =>
        \A i \in DOMAIN printed.entries :
            LET e == printed.entries[i]
            IN  /\ e.type = IF given[e.command].type \in KnownTypes THEN given[e.command].type
                            ELSE "UNSPECIFIED"
                /\ e.status \in Progress \ {"Failed"} => e.command \in queued

\* A history within bounds in UTC holds the newest reports of the device between the
\* two, the seconds of the bounds included (ListHardwareReports).
HistoryIsRange ==
    Shown("history") /\ (\A t \in {request.since, request.until} : t # None => t.zone = "Z") =>
        LET within == {r \in 1..asOf.reports :
                          /\ reports[r].dev = request.device
                          /\ request.since # None => reports[r].created >= request.since.local
                          /\ request.until # None => reports[r].created <= request.until.local}
            most == IF request.limit \in 1..HistoryMax THEN request.limit ELSE HistoryDefault
        IN  printed.snapshots \in NewestOf(reports, within, most)

\* A terminal is shown with the hardware of its own device, no older than what was
\* stored when the admin asked, though sessions and reports come in between the two
\* queries; it lacks hardware only when there was none or the second query failed.
ShowFresh ==
    Shown("show") =>
        LET before == {r \in 1..known.reports : reports[r].dev = printed.device}
        IN  /\ printed.device = rows[printed.session].dev
            /\ request.device # None =>
                  /\ printed.device = request.device
                  /\ \A s \in 1..known.rows : s \in RowsOf(request.device) =>
                        rows[s].seen <= rows[printed.session].seen
            /\ IF printed.hardware = None THEN before = {} \/ faults > known.faults
               ELSE /\ reports[printed.hardware].dev = printed.device
                    /\ \A r \in before : reports[r].created <= reports[printed.hardware].created

\* What the queries answer is right at the time of their last statement, however the
\* statements fall between registrations and reports.
AnswersRight == LogIsNewest /\ HistoryIsRange /\ ShowFresh

Told(v) == Shown(v) /\ (IF "mark" \in DOMAIN printed THEN printed.mark = "check" ELSE printed.ok)
NotTold(v) == stage = "printed" /\ verb = v /\ ~Told(v)

Unanswered(v) == stage = "printed" /\ verb = v /\ printed = Error("Unavailable")

\* What the mark says is so: after a check the command is in a queue of the device, the
\* rows of the device are blocked and its sessions kicked, the session is kicked, or it
\* was offline meanwhile; after a cross or an error of the server no command was queued.
\* When the answer or the call was lost one may be, but it is this call's, and one only:
\* a retry makes it two at most.
MarkTold ==
    /\ Told("cmd") => \E i \in queued \ 1..known.logs : given[i] = request
    /\ NotTold("cmd") /\ ~Unanswered("cmd") => queued \subseteq 1..known.logs
    /\ Unanswered("cmd") =>
          \A i \in queued \ 1..known.logs : i = known.logs + 1 /\ given[i] = request
    /\ Told("kick") => request.session \in kicked \cup gone
    /\ Told("block") =>
          \A s \in 1..known.rows : rows[s].dev = request.device => s \in blocked /\ s \in kicked \cup gone
    /\ Told("unblock") => \A s \in 1..known.rows : rows[s].dev = request.device => s \notin blocked
=============================================================================
