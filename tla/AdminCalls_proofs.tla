--------------------------- MODULE AdminCalls_proofs ---------------------------
(***************************************************************************)
(* Proofs about AdminCalls, for any devices, limits, ranges and bounds: a  *)
(* check mark tells the truth, a command log does, and what a query        *)
(* answers is right at the time of its last statement.                     *)
(***************************************************************************)
EXTENDS AdminCalls, FiniteSetTheorems, TLAPS

\* The texts of a log row and the request it was made from are of no particular set, so
\* a list is one of whatever it holds.
IsList(s) == s \in Seq({s[i] : i \in DOMAIN s})

-----------------------------------------------------------------------------
(* The invariant *)

StoreTypes ==
    /\ rows \in Seq([dev : Devices, seen : Nat])
    /\ reports \in Seq([dev : Devices, created : Nat])
    /\ IsList(logs) /\ IsList(given) /\ Len(given) = Len(logs)
    /\ live \subseteq Sessions
    /\ queued \subseteq DOMAIN logs
    /\ now \in Nat /\ faults \in Nat

LogFields == {"ses", "type", "params", "status", "created"}

\* A row of the log is that of the command given.
LogRow(i) ==
    /\ logs[i] = [f \in LogFields |-> logs[i][f]]
    /\ logs[i].created \in Nat
    /\ logs[i].ses \in Sessions /\ rows[logs[i].ses].dev = given[i].device
    /\ logs[i].type = cmdTypeName(given[i].type)
    /\ logs[i].params = marshalJSONMap(given[i].params)
    /\ logs[i].status \in Progress \ {"Failed"} => i \in queued

LogRows == \A i \in DOMAIN logs : LogRow(i)

\* What the call knows is not more than there is, and who left meanwhile is noted.
KnownBefore ==
    stage # "idle" =>
        /\ known.rows \in 0..Len(rows) /\ known.logs \in 0..Len(logs)
        /\ known.reports \in 0..Len(reports) /\ known.faults \in 0..faults
        /\ \A s \in 1..known.rows : s \in live \cup gone

RequestTypes ==
    stage # "idle" =>
        /\ verb \in {"cmdlog", "history"} => request.limit \in Int
        /\ verb = "history" => request.since \in Times /\ request.until \in Times

\* The latest session of the device that was asked for, if one was.
FoundForShow ==
    verb = "show" /\ stage = "found" =>
        /\ found \in Sessions
        /\ request.device # None =>
              /\ rows[found].dev = request.device
              /\ \A s \in 1..known.rows :
                    rows[s].dev = request.device => rows[s].seen <= rows[found].seen

FoundForCmd ==
    verb = "cmd" /\ stage = "found" => found \in Sessions /\ rows[found].dev = request.device

\* The last row of the log is the command's, and it waits for a queue.
SavedForCmd ==
    verb = "cmd" /\ stage = "saved" =>
        /\ given[Len(logs)] = request
        /\ logs[Len(logs)].status = "Pending"

\* Until then none is queued, and that row is the only new one.
NotQueuedYet ==
    verb = "cmd" /\ stage \in {"called", "found", "saved"} =>
        /\ queued \subseteq 1..known.logs
        /\ Len(logs) = IF stage = "saved" THEN known.logs + 1 ELSE known.logs

FoundForKick ==
    verb = "kick" /\ stage = "found" => found = request.session /\ found \in live \cup gone

SavedForBlock ==
    verb = "block" /\ stage = "saved" =>
        \A s \in 1..known.rows : rows[s].dev = request.device => s \in blocked

HandlerInv ==
    /\ FoundForShow /\ FoundForCmd /\ SavedForCmd /\ NotQueuedYet
    /\ FoundForKick /\ SavedForBlock

\* What is printed is of rows that are there.
PrintedTypes ==
    /\ Shown("cmdlog") => asOf.logs \in 0..Len(logs)
    /\ Shown("history") => asOf.reports \in 0..Len(reports)
    /\ Shown("show") =>
          /\ printed.session \in Sessions
          /\ printed.hardware # None => printed.hardware \in DOMAIN reports

AdminInv ==
    /\ StoreTypes /\ LogRows
    /\ KnownBefore /\ RequestTypes /\ HandlerInv /\ PrintedTypes
    /\ AnswersRight /\ LogTruthful /\ MarkTold

-----------------------------------------------------------------------------
(* Lists *)

LEMMA Widens ==
  ASSUME NEW S, NEW T, S \subseteq T, NEW s \in Seq(S)
  PROVE  s \in Seq(T)
<1>1. Len(s) \in Nat /\ DOMAIN s = 1..Len(s) /\ s \in [1..Len(s) -> S]
  OBVIOUS
<1>2. s \in [1..Len(s) -> T]
  BY <1>1
<1>. QED BY <1>1, <1>2

LEMMA ListLength ==
  ASSUME NEW s, IsList(s)
  PROVE  Len(s) \in Nat /\ DOMAIN s = 1..Len(s)
BY DEF IsList

\* What Append makes of a list.
LEMMA Appended ==
  ASSUME NEW s, IsList(s), NEW e
  PROVE  LET t == Append(s, e)
         IN  /\ IsList(t)
             /\ Len(t) = Len(s) + 1 /\ DOMAIN t = DOMAIN s \cup {Len(s) + 1}
             /\ \A i \in DOMAIN s : t[i] = s[i]
             /\ t[Len(s) + 1] = e
<1>. DEFINE R == {s[i] : i \in DOMAIN s} \cup {e}
            t == Append(s, e)
<1>1. s \in Seq(R) /\ e \in R
  BY Widens DEF IsList
<1>2. Len(s) \in Nat /\ DOMAIN s = 1..Len(s)
  BY ListLength
<1>. HIDE DEF R
<1>3. /\ t \in Seq(R) /\ Len(t) = Len(s) + 1
      /\ \A i \in 1..Len(s) : t[i] = s[i]
      /\ t[Len(s) + 1] = e
  BY <1>1
<1>4. DOMAIN t = 1..Len(t)
  BY <1>3
<1>. HIDE DEF t
<1>5. t \in [1..Len(t) -> {t[i] : i \in DOMAIN t}] /\ Len(t) \in Nat
  <2>1. Len(t) \in Nat
    BY <1>2, <1>3
  <2>2. t = [i \in 1..Len(t) |-> t[i]]
    BY <1>3, <1>4
  <2>. QED BY <1>4, <2>1, <2>2
<1>6. IsList(t)
  BY <1>5 DEF IsList
<1>7. DOMAIN t = DOMAIN s \cup {Len(s) + 1}
  BY <1>2, <1>3, <1>4
<1>. QED BY <1>2, <1>3, <1>6, <1>7 DEF t

\* What EXCEPT makes of a list.
LEMMA Replaced ==
  ASSUME NEW s, IsList(s), NEW k \in DOMAIN s, NEW e
  PROVE  LET t == [s EXCEPT ![k] = e]
         IN  IsList(t) /\ Len(t) = Len(s) /\ DOMAIN t = DOMAIN s
<1>. DEFINE t == [s EXCEPT ![k] = e]
            R == {t[i] : i \in DOMAIN t}
<1>1. Len(s) \in Nat /\ DOMAIN s = 1..Len(s)
  BY ListLength
<1>2. DOMAIN t = 1..Len(s)
  BY <1>1
<1>3. t = [i \in 1..Len(s) |-> t[i]]
  BY <1>1
<1>. HIDE DEF t
<1>4. t \in [1..Len(s) -> R]
  BY <1>2, <1>3
<1>5. t \in Seq(R) /\ Len(t) = Len(s)
  BY <1>1, <1>4
<1>. QED BY <1>1, <1>2, <1>5 DEF IsList, t

-----------------------------------------------------------------------------
(* NewestOf *)

\* A row that is listed is one of those asked for.
LEMMA NewestAreOf ==
  ASSUME NEW table, NEW S, NEW n \in Nat, NEW s \in NewestOf(table, S, n)
  PROVE  /\ s = [i \in DOMAIN s |-> s[i]]
         /\ \A i \in DOMAIN s : s[i] \in S
BY DEF NewestOf, SetToSeqs, kSubset

\* What is newest is a matter of the rows asked for, and of their times.
LEMMA NewestAgrees ==
  ASSUME NEW t, NEW u, NEW S, NEW n \in Nat, \A x \in S : t[x].created = u[x].created,
         NEW s \in NewestOf(t, S, n)
  PROVE  s \in NewestOf(u, S, n)
<1>1. \A i \in DOMAIN s : s[i] \in S
  BY NewestAreOf
<1>2. /\ \A i, j \in DOMAIN s : i < j => t[s[i]].created >= t[s[j]].created
      /\ \A i \in DOMAIN s, x \in S \ ToSet(s) : t[s[i]].created >= t[x].created
  BY DEF NewestOf
<1>3. /\ \A i, j \in DOMAIN s : i < j => u[s[i]].created >= u[s[j]].created
      /\ \A i \in DOMAIN s, x \in S \ ToSet(s) : u[s[i]].created >= u[x].created
  BY <1>1, <1>2
<1>. QED BY <1>3 DEF NewestOf

\* The one newest row, if there is any.
LEMMA NewestOne ==
  ASSUME NEW table, NEW S, IsFiniteSet(S), \A x \in S : table[x].created \in Nat,
         NEW s \in NewestOf(table, S, 1)
  PROVE  /\ s = <<>> => S = {}
         /\ s # <<>> => s[1] \in S /\ \A x \in S : table[x].created <= table[s[1]].created
<1>. DEFINE size == IF Cardinality(S) < 1 THEN Cardinality(S) ELSE 1
<1>1. Cardinality(S) \in Nat /\ size \in {0, 1}
  BY FS_CardinalityType
<1>2. PICK T \in kSubset(size, S) : s \in SetToSeqs(T)
  BY DEF NewestOf
<1>3. T \subseteq S /\ Cardinality(T) = size
  BY <1>2 DEF kSubset
<1>4. s \in [1..size -> T]
  BY <1>2, <1>3 DEF SetToSeqs
<1>5. \A i \in DOMAIN s, x \in S \ ToSet(s) : table[s[i]].created >= table[x].created
  BY DEF NewestOf
<1>6. CASE size = 0
  <2>1. S = {}
    BY <1>1, <1>6, FS_EmptySet
  <2>2. s = <<>>
    <3>1. s \in Seq(T) /\ Len(s) = 0
      BY <1>4, <1>6
    <3>. QED BY <3>1
  <2>. QED BY <2>1, <2>2
<1>7. CASE size = 1
  <2>1. 1 \in DOMAIN s /\ DOMAIN s = {1}
    BY <1>4, <1>7
  <2>2. s # <<>> /\ s[1] \in S
    <3>1. s # <<>>
      <4>1. Len(s) = 1
        BY <1>4, <1>7
      <4>. QED BY <4>1
    <3>2. s[1] \in T
      BY <1>4, <1>7
    <3>. QED BY <1>3, <3>1, <3>2
  <2>3. ASSUME NEW x \in S PROVE table[x].created <= table[s[1]].created
    <3>1. CASE x \in ToSet(s)
      <4>1. x = s[1]
        BY <2>1, <3>1 DEF ToSet
      <4>. QED BY <4>1
    <3>2. CASE x \notin ToSet(s)
      <4>1. table[s[1]].created >= table[x].created
        BY <1>5, <2>1, <3>2
      <4>. QED BY <2>2, <4>1
    <3>. QED BY <3>1, <3>2
  <2>. QED BY <2>2, <2>3
<1>. QED BY <1>1, <1>6, <1>7

-----------------------------------------------------------------------------
(* What is printed *)

\* A response that says whether the call did what it was asked to.
LEMMA PrintsCross ==
  ASSUME NEW json \in BOOLEAN, NEW v \in {"kick", "block", "unblock", "cmd"}, NEW message
  PROVE  LET p == Output(json, v, Response(FALSE, message))
         IN  /\ "error" \notin DOMAIN p
             /\ IF "mark" \in DOMAIN p THEN p.mark = "cross" ELSE p.ok = FALSE
BY DEF Output, Response, printJSON, printResult

LEMMA PrintsCheck ==
  ASSUME NEW json \in BOOLEAN, NEW v \in {"kick", "block", "unblock", "cmd"}, NEW message
  PROVE  LET p == Output(json, v, Response(TRUE, message))
         IN  /\ "error" \notin DOMAIN p
             /\ IF "mark" \in DOMAIN p THEN p.mark = "check" ELSE p.ok = TRUE
BY DEF Output, Response, printJSON, printResult

LEMMA PrintsError ==
  ASSUME NEW json \in BOOLEAN, NEW v, NEW message
  PROVE  "error" \in DOMAIN Output(json, v, Error(message))
BY DEF Output, Error, printError

LEMMA PrintsDetail ==
  ASSUME NEW json \in BOOLEAN, NEW hw
  PROVE  LET p == Output(json, "show", Detail(hw))
         IN  /\ "error" \notin DOMAIN p
             /\ p.session = found /\ p.device = rows[found].dev /\ p.hardware = hw
BY DEF Output, Detail, printJSON, printTerminalDetail, Restrict

LEMMA PrintsHistory ==
  ASSUME NEW json \in BOOLEAN, NEW s
  PROVE  LET p == Output(json, "history", [snapshots |-> s])
         IN  "error" \notin DOMAIN p /\ p.snapshots = s
BY DEF Output, printJSON, printTerminalHistory

LEMMA PrintsLog ==
  ASSUME NEW json \in BOOLEAN, NEW entries
  PROVE  LET p == Output(json, "cmdlog", [entries |-> [i \in DOMAIN entries |-> Entry(entries[i])]])
         IN  /\ "error" \notin DOMAIN p
             /\ DOMAIN p.entries = DOMAIN entries
             /\ \A i \in DOMAIN entries :
                   /\ p.entries[i].command = entries[i]
                   /\ p.entries[i].type = parseCommandType(logs[entries[i]].type)
                   /\ p.entries[i].status = logs[entries[i]].status
BY DEF Output, printJSON, printCommandLog, Entry, Restrict

-----------------------------------------------------------------------------
(* The terminals *)

\* No row is changed or taken away.
Extends(t, u) == Len(t) <= Len(u) /\ \A i \in DOMAIN t : i \in DOMAIN u /\ u[i] = t[i]

\* What the terminals do during a call: rows and reports are added, something is written
\* of commands that were queued, sessions come and go.
OutsideStep ==
    /\ UNCHANGED <<blocked, kicked, faults, callVars, given, queued, callHistory>>
    /\ Extends(rows, rows') /\ Extends(reports, reports')
    /\ Len(logs') = Len(logs)
    /\ \A i \in DOMAIN logs :
          \/ logs'[i] = logs[i]
          \/ /\ i \in queued
             /\ \E status : logs'[i] = [logs[i] EXCEPT !.status = status]
    /\ stage # "idle" => gone \subseteq gone' /\ live \subseteq live' \cup gone'

LEMMA RowTypes ==
  ASSUME StoreTypes
  PROVE  /\ Len(rows) \in Nat /\ Sessions = 1..Len(rows)
         /\ \A s \in Sessions : rows[s].dev \in Devices /\ rows[s].seen \in Nat
         /\ Len(reports) \in Nat /\ DOMAIN reports = 1..Len(reports)
         /\ \A r \in DOMAIN reports : reports[r].dev \in Devices /\ reports[r].created \in Nat
         /\ Len(logs) \in Nat /\ DOMAIN logs = 1..Len(logs) /\ DOMAIN given = 1..Len(logs)
<1>1. /\ Len(rows) \in Nat /\ Sessions = 1..Len(rows)
      /\ Len(reports) \in Nat /\ DOMAIN reports = 1..Len(reports)
  BY DEF StoreTypes, Sessions
<1>2. ASSUME NEW s \in Sessions PROVE rows[s].dev \in Devices /\ rows[s].seen \in Nat
  <2>. DEFINE Row == [dev : Devices, seen : Nat]
  <2>1. rows \in Seq(Row) /\ s \in 1..Len(rows)
    BY <1>1 DEF StoreTypes
  <2>. HIDE DEF Row
  <2>2. rows[s] \in Row
    BY <2>1
  <2>. QED BY <2>2 DEF Row
<1>3. ASSUME NEW r \in DOMAIN reports
      PROVE  reports[r].dev \in Devices /\ reports[r].created \in Nat
  <2>. DEFINE Report == [dev : Devices, created : Nat]
  <2>1. reports \in Seq(Report) /\ r \in 1..Len(reports)
    BY <1>1 DEF StoreTypes
  <2>. HIDE DEF Report
  <2>2. reports[r] \in Report
    BY <2>1
  <2>. QED BY <2>2 DEF Report
<1>. QED BY <1>1, <1>2, <1>3, ListLength DEF StoreTypes

LEMMA OutsideSteps ==
  ASSUME StoreTypes, LogRows,
         \/ \E d \in Devices : Register(d)
         \/ \E s \in Sessions : Comes(s) \/ Goes(s) \/ ReportHardware(s)
         \/ \E i \in DOMAIN logs : UpdateCommandResult(i)
         \/ Tick
  PROVE  OutsideStep /\ StoreTypes'
<1>. USE DEF Outside, Changes, callVars, callHistory, storeVars, boundVars
<1>1. ASSUME NEW d \in Devices, Register(d) PROVE OutsideStep /\ StoreTypes'
  <2>. DEFINE row == [dev |-> d, seen |-> now]
  <2>1. rows' = Append(rows, row) /\ row \in [dev : Devices, seen : Nat]
    BY <1>1 DEF Register, StoreTypes
  <2>. HIDE DEF row
  <2>2. rows' \in Seq([dev : Devices, seen : Nat]) /\ Extends(rows, rows')
    BY <2>1 DEF StoreTypes, Extends
  <2>. QED BY <1>1, <2>2 DEF Register, StoreTypes, Sessions, OutsideStep, Extends
<1>2. ASSUME NEW s \in Sessions, Comes(s) PROVE OutsideStep /\ StoreTypes'
  BY <1>2 DEF Comes, StoreTypes, Sessions, OutsideStep, Extends
<1>3. ASSUME NEW s \in Sessions, Goes(s) PROVE OutsideStep /\ StoreTypes'
  BY <1>3 DEF Goes, StoreTypes, Sessions, OutsideStep, Extends
<1>4. ASSUME NEW s \in Sessions, ReportHardware(s) PROVE OutsideStep /\ StoreTypes'
  <2>. DEFINE report == [dev |-> rows[s].dev, created |-> now]
  <2>1. reports' = Append(reports, report) /\ report \in [dev : Devices, created : Nat]
    BY <1>4, RowTypes DEF ReportHardware, StoreTypes
  <2>. HIDE DEF report
  <2>2. reports' \in Seq([dev : Devices, created : Nat]) /\ Extends(reports, reports')
    BY <2>1 DEF StoreTypes, Extends
  <2>. QED BY <1>4, <2>2 DEF ReportHardware, StoreTypes, Sessions, OutsideStep, Extends
<1>5. ASSUME NEW i \in DOMAIN logs, UpdateCommandResult(i) PROVE OutsideStep /\ StoreTypes'
  <2>1. PICK status : logs' = [logs EXCEPT ![i] = [logs[i] EXCEPT !.status = status]]
    BY <1>5 DEF UpdateCommandResult
  <2>2. IsList(logs') /\ Len(logs') = Len(logs) /\ DOMAIN logs' = DOMAIN logs
    BY <2>1, Replaced DEF StoreTypes
  <2>3. \A j \in DOMAIN logs : logs'[j] = logs[j]
           \/ (j \in queued /\ logs'[j] = [logs[j] EXCEPT !.status = status])
    BY <1>5, <2>1 DEF UpdateCommandResult
  <2>4. \A j \in DOMAIN logs : logs'[j] = logs[j]
           \/ (j \in queued /\ \E written : logs'[j] = [logs[j] EXCEPT !.status = written])
    BY <2>3
  <2>5. StoreTypes'
    BY <1>5, <2>2 DEF UpdateCommandResult, StoreTypes, Sessions
  <2>6. /\ UNCHANGED <<rows, reports, live, gone>>
        /\ UNCHANGED <<blocked, kicked, faults, callVars, given, queued, callHistory>>
    BY <1>5 DEF UpdateCommandResult
  <2>7. Extends(rows, rows') /\ Extends(reports, reports')
    BY <2>5, <2>6 DEF Extends, StoreTypes
  <2>8. OutsideStep
    BY <2>2, <2>4, <2>6, <2>7 DEF OutsideStep
  <2>. QED BY <2>5, <2>8
<1>6. CASE Tick
  BY <1>6 DEF Tick, StoreTypes, Sessions, OutsideStep, Extends
<1>. QED BY <1>1, <1>2, <1>3, <1>4, <1>5, <1>6

\* What becomes of the rows of the log.
LEMMA OutsideLogs ==
  ASSUME StoreTypes, LogRows, OutsideStep, StoreTypes', NEW i \in DOMAIN logs
  PROVE  /\ logs'[i].ses = logs[i].ses /\ logs'[i].created = logs[i].created
         /\ logs'[i].type = logs[i].type /\ logs'[i].params = logs[i].params
         /\ logs'[i] = [f \in LogFields |-> logs'[i][f]]
         /\ logs'[i].status = logs[i].status \/ i \in queued
<1>1. logs[i] = [f \in LogFields |-> logs[i][f]]
  BY DEF LogRows, LogRow
<1>2. DOMAIN logs[i] = LogFields
  BY <1>1
<1>3. CASE logs'[i] = logs[i]
  BY <1>1, <1>3
<1>4. ASSUME i \in queued, NEW status, logs'[i] = [logs[i] EXCEPT !.status = status]
      PROVE  /\ logs'[i].ses = logs[i].ses /\ logs'[i].created = logs[i].created
             /\ logs'[i].type = logs[i].type /\ logs'[i].params = logs[i].params
             /\ logs'[i] = [f \in LogFields |-> logs'[i][f]]
  BY <1>1, <1>2, <1>4 DEF LogFields
<1>. QED BY <1>3, <1>4 DEF OutsideStep

LEMMA OutsideKeepsLogRows ==
  ASSUME StoreTypes, LogRows, OutsideStep, StoreTypes'
  PROVE  LogRows'
<1>1. DOMAIN logs' = DOMAIN logs /\ given' = given /\ queued' = queued
  BY RowTypes DEF OutsideStep, StoreTypes, IsList
<1>2. ASSUME NEW i \in DOMAIN logs PROVE LogRow(i)'
  <2>1. LogRow(i)
    BY DEF LogRows
  <2>2. logs[i].ses \in Sessions' /\ rows'[logs[i].ses] = rows[logs[i].ses]
    BY <2>1 DEF LogRow, OutsideStep, Extends, Sessions
  <2>. QED BY <1>1, <2>1, <2>2, OutsideLogs DEF LogRow
<1>. QED BY <1>1, <1>2 DEF LogRows

LEMMA OutsideKeepsCall ==
  ASSUME AdminInv, OutsideStep, StoreTypes'
  PROVE  KnownBefore' /\ RequestTypes' /\ HandlerInv'
<1>. USE DEF AdminInv, callVars, callHistory
<1>1. /\ verb' = verb /\ request' = request /\ stage' = stage /\ found' = found
      /\ known' = known /\ asOf' = asOf /\ given' = given /\ queued' = queued
      /\ blocked' = blocked /\ kicked' = kicked /\ faults' = faults
  BY DEF OutsideStep
<1>2. /\ Len(rows) \in Nat /\ Sessions = 1..Len(rows)
      /\ Len(reports) \in Nat /\ Len(logs) \in Nat /\ DOMAIN logs = 1..Len(logs)
      /\ Len(rows') \in Nat /\ Len(reports') \in Nat /\ Len(logs') = Len(logs)
      /\ Len(rows) <= Len(rows') /\ Len(reports) <= Len(reports')
  <2>1. Len(rows') \in Nat /\ Len(reports') \in Nat
    BY DEF StoreTypes
  <2>. QED BY <2>1, RowTypes DEF OutsideStep, Extends
<1>3. \A s \in Sessions : s \in Sessions' /\ rows'[s] = rows[s]
  BY DEF OutsideStep, Extends, Sessions
<1>4. stage # "idle" => 1..known.rows \subseteq Sessions
  BY <1>2 DEF KnownBefore
<1>5. KnownBefore'
  BY <1>1, <1>2 DEF KnownBefore, OutsideStep
<1>6. RequestTypes'
  BY <1>1 DEF RequestTypes
<1>7. FoundForShow'
  BY <1>1, <1>3, <1>4 DEF FoundForShow, HandlerInv
<1>8. FoundForCmd'
  BY <1>1, <1>3 DEF FoundForCmd, HandlerInv
<1>9. SavedForCmd'
  <2>. SUFFICES ASSUME verb = "cmd", stage = "saved"
                PROVE  given[Len(logs)] = request /\ logs'[Len(logs)].status = "Pending"
    BY <1>1, <1>2 DEF SavedForCmd
  <2>1. /\ Len(logs) = known.logs + 1 /\ given[Len(logs)] = request
        /\ logs[Len(logs)].status = "Pending" /\ queued \subseteq 1..known.logs
    BY DEF HandlerInv, SavedForCmd, NotQueuedYet
  <2>2. Len(logs) \in DOMAIN logs /\ Len(logs) \notin queued
    BY <1>2, <2>1 DEF KnownBefore
  <2>. QED BY <2>1, <2>2, OutsideLogs
<1>10. NotQueuedYet'
  BY <1>1, <1>2 DEF NotQueuedYet, HandlerInv
<1>11. FoundForKick'
  BY <1>1 DEF FoundForKick, HandlerInv, OutsideStep
<1>12. SavedForBlock'
  BY <1>1, <1>3, <1>4 DEF SavedForBlock, HandlerInv
<1>. QED BY <1>5, <1>6, <1>7, <1>8, <1>9, <1>10, <1>11, <1>12 DEF HandlerInv

\* An answer stays what it was while the admin reads it.
LEMMA OutsideKeepsLogAnswer ==
  ASSUME AdminInv, OutsideStep, StoreTypes'
  PROVE  LogIsNewest'
<1>. USE DEF AdminInv, callVars, callHistory
<1>1. /\ verb' = verb /\ request' = request /\ stage' = stage /\ printed' = printed
      /\ asOf' = asOf /\ given' = given
  BY DEF OutsideStep
<1>. SUFFICES ASSUME Shown("cmdlog") PROVE LogIsNewest'
  BY <1>1 DEF LogIsNewest, Shown
<1>. DEFINE listed == [i \in DOMAIN printed.entries |-> printed.entries[i].command]
            Asked(table) == {i \in 1..asOf.logs :
                                IF request.device # None THEN given[i].device = request.device
                                ELSE request.session \in {None, table[i].ses}}
            most == IF request.limit \in 1..LogMax THEN request.limit ELSE LogDefault
<1>2. listed \in NewestOf(logs, Asked(logs), most)
  BY DEF AnswersRight, LogIsNewest
<1>3. 1..asOf.logs \subseteq DOMAIN logs
  BY RowTypes DEF PrintedTypes
<1>4. \A i \in DOMAIN logs : logs'[i].ses = logs[i].ses /\ logs'[i].created = logs[i].created
  BY OutsideLogs
<1>5. Asked(logs') = Asked(logs)
  BY <1>3, <1>4
<1>6. \A i \in Asked(logs) : logs[i].created = logs'[i].created
  BY <1>3, <1>4
<1>7. most \in Nat
  BY LimitsAssumption
<1>8. listed \in NewestOf(logs', Asked(logs), most)
  <2>. HIDE DEF Asked, listed, most
  <2>. QED BY <1>2, <1>6, <1>7, NewestAgrees
<1>9. listed \in NewestOf(logs', Asked(logs'), most)
  BY <1>5, <1>8
<1>. QED BY <1>1, <1>9 DEF LogIsNewest

LEMMA OutsideKeepsHistoryAnswer ==
  ASSUME AdminInv, OutsideStep, StoreTypes'
  PROVE  HistoryIsRange'
<1>. USE DEF AdminInv, callVars, callHistory
<1>1. /\ verb' = verb /\ request' = request /\ stage' = stage /\ printed' = printed
      /\ asOf' = asOf
  BY DEF OutsideStep
<1>. SUFFICES ASSUME Shown("history"),
                     \A t \in {request.since, request.until} : t # None => t.zone = "Z"
              PROVE HistoryIsRange'
  BY <1>1 DEF HistoryIsRange, Shown
<1>. DEFINE Within(table) == {r \in 1..asOf.reports :
                                /\ table[r].dev = request.device
                                /\ request.since # None => table[r].created >= request.since.local
                                /\ request.until # None => table[r].created <= request.until.local}
            most == IF request.limit \in 1..HistoryMax THEN request.limit ELSE HistoryDefault
<1>2. printed.snapshots \in NewestOf(reports, Within(reports), most)
  BY DEF AnswersRight, HistoryIsRange
<1>3. 1..asOf.reports \subseteq DOMAIN reports
  BY RowTypes DEF PrintedTypes
<1>4. \A r \in DOMAIN reports : reports'[r] = reports[r]
  BY DEF OutsideStep, Extends
<1>5. Within(reports') = Within(reports)
  BY <1>3, <1>4
<1>6. \A r \in Within(reports) : reports[r].created = reports'[r].created
  BY <1>3, <1>4
<1>7. most \in Nat
  BY LimitsAssumption
<1>8. printed.snapshots \in NewestOf(reports', Within(reports), most)
  <2>. HIDE DEF Within, most
  <2>. QED BY <1>2, <1>6, <1>7, NewestAgrees
<1>9. printed.snapshots \in NewestOf(reports', Within(reports'), most)
  BY <1>5, <1>8
<1>. QED BY <1>1, <1>9 DEF HistoryIsRange

LEMMA OutsideKeepsShowAnswer ==
  ASSUME AdminInv, OutsideStep, StoreTypes'
  PROVE  ShowFresh'
<1>. USE DEF AdminInv, callVars, callHistory
<1>1. /\ verb' = verb /\ request' = request /\ stage' = stage /\ printed' = printed
      /\ known' = known /\ faults' = faults
  BY DEF OutsideStep
<1>. SUFFICES ASSUME Shown("show") PROVE ShowFresh'
  BY <1>1 DEF ShowFresh, Shown
<1>2. /\ 1..known.reports \subseteq DOMAIN reports /\ 1..known.rows \subseteq Sessions
      /\ printed.session \in Sessions
      /\ printed.hardware # None => printed.hardware \in DOMAIN reports
  BY RowTypes DEF PrintedTypes, KnownBefore, Shown
<1>3. /\ \A r \in DOMAIN reports : r \in DOMAIN reports' /\ reports'[r] = reports[r]
      /\ \A s \in Sessions : s \in Sessions' /\ rows'[s] = rows[s]
  BY DEF OutsideStep, Extends, Sessions
<1>4. {r \in 1..known.reports : reports'[r].dev = printed.device}
        = {r \in 1..known.reports : reports[r].dev = printed.device}
  BY <1>2, <1>3
<1>5. ShowFresh
  BY DEF AnswersRight
<1>. QED BY <1>1, <1>2, <1>3, <1>4, <1>5 DEF ShowFresh, RowsOf

LEMMA OutsideKeepsPrinted ==
  ASSUME AdminInv, OutsideStep, StoreTypes'
  PROVE  PrintedTypes' /\ AnswersRight' /\ LogTruthful' /\ MarkTold'
<1>. USE DEF AdminInv, callVars, callHistory
<1>1. /\ verb' = verb /\ request' = request /\ stage' = stage /\ printed' = printed
      /\ known' = known /\ asOf' = asOf /\ given' = given /\ queued' = queued
      /\ blocked' = blocked /\ kicked' = kicked
  BY DEF OutsideStep
<1>2. /\ Sessions \subseteq Sessions' /\ DOMAIN reports \subseteq DOMAIN reports'
      /\ \A s \in Sessions : rows'[s] = rows[s]
  BY DEF OutsideStep, Extends, Sessions
<1>3. PrintedTypes'
  <2>1. Len(logs') = Len(logs) /\ Len(reports) <= Len(reports')
    BY DEF OutsideStep, Extends
  <2>2. Len(reports') \in Nat /\ Len(reports) \in Nat
    BY RowTypes DEF StoreTypes
  <2>. QED BY <1>1, <1>2, <2>1, <2>2 DEF PrintedTypes, Shown
<1>4. AnswersRight'
  BY OutsideKeepsLogAnswer, OutsideKeepsHistoryAnswer, OutsideKeepsShowAnswer DEF AnswersRight
<1>5. LogTruthful'
  BY <1>1 DEF LogTruthful, Shown
<1>6. MarkTold'
  <2>1. stage # "idle" => 1..known.rows \subseteq Sessions
    BY RowTypes DEF KnownBefore
  <2>2. stage # "idle" => gone \subseteq gone'
    BY DEF OutsideStep
  <2>. QED BY <1>1, <1>2, <2>1, <2>2 DEF MarkTold, Told, NotTold, Unanswered, Shown
<1>. QED BY <1>3, <1>4, <1>5, <1>6

-----------------------------------------------------------------------------
(* A call comes in, and the prompt comes back *)

LEMMA InvokeSteps ==
  ASSUME Invoke
  PROVE  \E v, r : /\ Call(v, r)
                   /\ v \in {"cmdlog", "history"} => r.limit \in Int
                   /\ v = "history" => r.since \in Times /\ r.until \in Times
<1>. DEFINE Goal == \E v, r : /\ Call(v, r)
                              /\ v \in {"cmdlog", "history"} => r.limit \in Int
                              /\ v = "history" => r.since \in Times /\ r.until \in Times
<1>1. ASSUME NEW v, NEW r, Call(v, r), v \notin {"cmdlog", "history"} PROVE Goal
  BY <1>1
<1>2. ASSUME NEW r, Call("cmdlog", r), r.limit \in Int PROVE Goal
  BY <1>2
<1>3. ASSUME NEW name, ShowCmd(name) \/ KickCmd(name) \/ BlockCmd(name) \/ UnblockCmd(name)
      PROVE Goal
  <2>. HIDE DEF Goal
  <2>. QED BY <1>1, <1>3 DEF ShowCmd, KickCmd, BlockCmd, UnblockCmd
<1>4. ASSUME NEW name, NEW range \in Ranges, NEW limit \in Limits, HistoryCmd(name, range, limit)
      PROVE Goal
  <2>. DEFINE r == [device |-> name, since |-> range[1], until |-> range[2], limit |-> limit]
  <2>1. Call("history", r)
    BY <1>4 DEF HistoryCmd
  <2>2. limit \in Int /\ range[1] \in Times /\ range[2] \in Times
    <3>. HIDE DEF Times
    <3>. QED BY InputAssumption
  <2>3. r.limit \in Int /\ r.since \in Times /\ r.until \in Times
    <3>. HIDE DEF Times
    <3>. QED BY <2>2
  <2>. HIDE DEF r
  <2>. QED BY <2>1, <2>3
<1>5. ASSUME NEW name, NEW limit \in Limits, CmdLogCmd(name, limit) PROVE Goal
  <2>. DEFINE r == [device |-> ByLength(name).device, session |-> ByLength(name).session,
                    limit |-> limit]
  <2>1. Call("cmdlog", r) /\ r.limit \in Int
    BY <1>5, InputAssumption DEF CmdLogCmd
  <2>. HIDE DEF Goal, r
  <2>. QED BY <1>2, <2>1
<1>6. ASSUME NEW name, NEW type, NEW args, CmdCmd(name, type, args) PROVE Goal
  <2>. HIDE DEF Goal
  <2>. QED BY <1>1, <1>6 DEF CmdCmd
<1>7. ASSUME NEW name, NEW type, NEW params, ProxySendCommand(name, type, params) PROVE Goal
  <2>. HIDE DEF Goal
  <2>. QED BY <1>1, <1>7 DEF ProxySendCommand
<1>8. ASSUME NEW device, NEW session, NEW limit \in Limits,
             ProxyGetCommandLog(device, session, limit)
      PROVE Goal
  <2>. DEFINE r == [device |-> device, session |-> session, limit |-> limit]
  <2>1. Call("cmdlog", r) /\ r.limit \in Int
    BY <1>8, InputAssumption DEF ProxyGetCommandLog
  <2>. HIDE DEF Goal, r
  <2>. QED BY <1>2, <2>1
<1>. HIDE DEF Goal
<1>9. Goal
  BY <1>3, <1>4, <1>5, <1>6, <1>7, <1>8 DEF Invoke
<1>. QED BY <1>9 DEF Goal

LEMMA InvokeKeeps == AdminInv /\ Invoke => AdminInv'
<1>. SUFFICES ASSUME AdminInv, Invoke PROVE AdminInv'
  OBVIOUS
<1>1. PICK v, r : /\ Call(v, r)
                  /\ v \in {"cmdlog", "history"} => r.limit \in Int
                  /\ v = "history" => r.since \in Times /\ r.until \in Times
  BY InvokeSteps
<1>2. /\ verb' = v /\ request' = r /\ stage' = "called" /\ known' = Lengths
      /\ gone' = Sessions \ live
      /\ UNCHANGED <<rows, blocked, live, kicked, logs, reports, now, faults, given, queued>>
  BY <1>1 DEF Call, storeVars, boundVars
<1>3. StoreTypes' /\ LogRows'
  BY <1>2 DEF AdminInv, StoreTypes, LogRows, LogRow, Sessions
<1>4. KnownBefore'
  <2>1. Len(rows) \in Nat /\ Len(logs) \in Nat /\ Len(reports) \in Nat /\ faults \in Nat
    BY RowTypes DEF AdminInv, StoreTypes
  <2>2. \A s \in 1..Len(rows) : s \in live \cup gone'
    BY <1>2, RowTypes DEF AdminInv
  <2>. QED BY <1>2, <2>1, <2>2 DEF KnownBefore, Lengths
<1>5. RequestTypes'
  BY <1>1, <1>2 DEF RequestTypes
<1>6. HandlerInv'
  <2>1. queued \subseteq 1..Len(logs)
    BY RowTypes DEF AdminInv, StoreTypes
  <2>2. NotQueuedYet'
    BY <1>2, <2>1 DEF NotQueuedYet, Lengths
  <2>. QED
    BY <1>2, <2>2 DEF HandlerInv, FoundForShow, FoundForCmd, SavedForCmd, FoundForKick, SavedForBlock
<1>7. PrintedTypes' /\ AnswersRight' /\ LogTruthful' /\ MarkTold'
  BY <1>2 DEF PrintedTypes, AnswersRight, LogIsNewest, HistoryIsRange, ShowFresh, LogTruthful,
              MarkTold, Told, NotTold, Unanswered, Shown
<1>. QED BY <1>3, <1>4, <1>5, <1>6, <1>7 DEF AdminInv

LEMMA ReturnKeeps == AdminInv /\ Return => AdminInv'
<1>. SUFFICES ASSUME AdminInv, Return PROVE AdminInv'
  OBVIOUS
<1>1. /\ stage' = "idle"
      /\ UNCHANGED <<rows, blocked, live, kicked, logs, reports, now, faults, given, queued>>
  BY DEF Return, storeVars, boundVars
<1>2. StoreTypes' /\ LogRows'
  BY <1>1 DEF AdminInv, StoreTypes, LogRows, LogRow, Sessions
<1>3. KnownBefore' /\ RequestTypes'
  BY <1>1 DEF KnownBefore, RequestTypes
<1>4. HandlerInv'
  BY <1>1 DEF HandlerInv, FoundForShow, FoundForCmd, SavedForCmd, NotQueuedYet, FoundForKick,
              SavedForBlock
<1>5. PrintedTypes' /\ AnswersRight' /\ LogTruthful' /\ MarkTold'
  BY <1>1 DEF PrintedTypes, AnswersRight, LogIsNewest, HistoryIsRange, ShowFresh, LogTruthful,
              MarkTold, Told, NotTold, Unanswered, Shown
<1>. QED BY <1>2, <1>3, <1>4, <1>5 DEF AdminInv

-----------------------------------------------------------------------------
(* The handlers *)

\* A handler adds no terminals and no reports, and stays with its call.
ServeStep ==
    /\ UNCHANGED <<rows, live, reports, now, verb, request, known, gone, given, queued>>
    /\ stage \in {"called", "found", "saved"}
    /\ faults' \in {faults, faults + 1}

LEMMA ServeKeepsStore ==
  ASSUME AdminInv, ServeStep, UNCHANGED logs
  PROVE  StoreTypes' /\ LogRows' /\ KnownBefore' /\ RequestTypes'
<1>. USE DEF AdminInv, ServeStep
<1>1. StoreTypes'
  BY DEF StoreTypes, Sessions
<1>2. LogRows'
  BY DEF LogRows, LogRow, Sessions
<1>3. KnownBefore'
  <2>1. faults \in Nat /\ stage # "idle" /\ known.faults \in 0..faults
    BY DEF StoreTypes, KnownBefore
  <2>2. known.faults \in 0..faults'
    BY <2>1
  <2>. QED BY <2>1, <2>2 DEF KnownBefore
<1>4. RequestTypes'
  BY DEF RequestTypes
<1>. QED BY <1>1, <1>2, <1>3, <1>4

\* After an answer no handler is under way.
LEMMA PrintedInv ==
  ASSUME stage' = "printed"
  PROVE  HandlerInv'
BY DEF HandlerInv, FoundForShow, FoundForCmd, SavedForCmd, NotQueuedYet, FoundForKick, SavedForBlock

\* As long as a handler is under way nothing is told.
LEMMA SilentKeeps ==
  ASSUME stage' # "printed"
  PROVE  PrintedTypes' /\ AnswersRight' /\ LogTruthful' /\ MarkTold'
BY DEF PrintedTypes, AnswersRight, LogIsNewest, HistoryIsRange, ShowFresh, LogTruthful,
       MarkTold, Told, NotTold, Unanswered, Shown

\* The response as it is printed when it reaches the admin.
Answered(v, at, response) ==
    /\ Handles(v, at, "printed")
    /\ \E json \in BOOLEAN : printed' = Output(json, v, response)
    /\ asOf' = Lengths
    /\ UNCHANGED found

LEMMA AnswersOrLost ==
  ASSUME NEW v, NEW at, NEW response, Answers(v, at, response)
  PROVE  Answered(v, at, response) \/ Answers(v, at, Error("Unavailable"))
<1>1. PICK json \in BOOLEAN, reply \in {response, Error("Unavailable")} :
         printed' = Output(json, v, reply)
  BY DEF Answers
<1>. HIDE DEF Answers
<1>2. CASE reply = response
  BY <1>1, <1>2 DEF Answers, Answered
<1>3. CASE reply = Error("Unavailable")
  BY <1>1, <1>3 DEF Answers
<1>. QED BY <1>2, <1>3

\* An error tells nothing, and no command was queued.
LEMMA ErrorKeeps ==
  ASSUME AdminInv, ServeStep, StoreTypes', LogRows', KnownBefore', RequestTypes',
         NEW v, NEW at, NEW message, Answers(v, at, Error(message))
  PROVE  AdminInv'
<1>1. stage' = "printed" /\ verb = v /\ stage = at
  BY DEF Answers, Handles
<1>2. "error" \in DOMAIN printed'
  <2>1. PICK json \in BOOLEAN, reply \in {Error(message), Error("Unavailable")} :
           printed' = Output(json, v, reply)
    BY DEF Answers
  <2>. QED BY <2>1, PrintsError
<1>3. PrintedTypes' /\ AnswersRight' /\ LogTruthful'
  BY <1>2 DEF PrintedTypes, AnswersRight, LogIsNewest, HistoryIsRange, ShowFresh, LogTruthful, Shown
<1>4. MarkTold'
  <2>1. verb' = "cmd" => queued' \subseteq 1..known'.logs
    BY DEF AdminInv, HandlerInv, NotQueuedYet, ServeStep
  <2>. QED BY <1>2, <2>1 DEF MarkTold, Told, NotTold, Unanswered, Shown
<1>. QED BY <1>1, <1>3, <1>4, PrintedInv DEF AdminInv

\* A cross tells of no command that was queued.
LEMMA RefusalKeeps ==
  ASSUME AdminInv, ServeStep, StoreTypes', LogRows', KnownBefore', RequestTypes',
         NEW v \in {"kick", "cmd"}, NEW at, NEW message, Answers(v, at, Response(FALSE, message))
  PROVE  AdminInv'
<1>. SUFFICES ASSUME Answered(v, at, Response(FALSE, message)) PROVE AdminInv'
  BY AnswersOrLost, ErrorKeeps
<1>1. stage' = "printed" /\ verb = v /\ verb' = v /\ stage = at
  BY DEF Answers, Handles
<1>2. /\ "error" \notin DOMAIN printed'
      /\ IF "mark" \in DOMAIN printed' THEN printed'.mark = "cross" ELSE printed'.ok = FALSE
  <2>1. PICK json \in BOOLEAN : printed' = Output(json, v, Response(FALSE, message))
    BY DEF Answered
  <2>. DEFINE p == Output(json, v, Response(FALSE, message))
  <2>2. /\ "error" \notin DOMAIN p
        /\ IF "mark" \in DOMAIN p THEN p.mark = "cross" ELSE p.ok = FALSE
    BY PrintsCross
  <2>. QED BY <2>1, <2>2
<1>3. PrintedTypes' /\ AnswersRight' /\ LogTruthful'
  BY <1>1 DEF PrintedTypes, AnswersRight, LogIsNewest, HistoryIsRange, ShowFresh, LogTruthful, Shown
<1>4. MarkTold'
  <2>1. verb' = "cmd" => queued' \subseteq 1..known'.logs
    BY DEF AdminInv, HandlerInv, NotQueuedYet, ServeStep
  <2>2. ~Told(v)'
    BY <1>2 DEF Told, Shown
  <2>. QED BY <1>1, <2>1, <2>2 DEF MarkTold, Told, NotTold, Unanswered, Shown
<1>. QED BY <1>1, <1>3, <1>4, PrintedInv DEF AdminInv

\* A check mark of a call other than cmd, show, history and cmdlog.
LEMMA CheckTells ==
  ASSUME NEW v \in {"kick", "block", "unblock"}, verb' = v, stage' = "printed"
  PROVE  /\ PrintedTypes' /\ AnswersRight' /\ LogTruthful'
         /\ v = "kick" /\ request'.session \in kicked' \cup gone' => MarkTold'
         /\ v = "block"
            /\ (\A s \in 1..known'.rows :
                   rows'[s].dev = request'.device => s \in blocked' /\ s \in kicked' \cup gone')
               => MarkTold'
         /\ v = "unblock"
            /\ (\A s \in 1..known'.rows : rows'[s].dev = request'.device => s \notin blocked')
               => MarkTold'
<1>1. PrintedTypes' /\ AnswersRight' /\ LogTruthful'
  BY DEF PrintedTypes, AnswersRight, LogIsNewest, HistoryIsRange, ShowFresh, LogTruthful, Shown
<1>. QED BY <1>1 DEF MarkTold, Told, NotTold, Unanswered, Shown

\* A row is found: what is known of it is the only thing that is new.
LEMMA FindsKeeps ==
  ASSUME AdminInv, ServeStep, UNCHANGED logs, NEW v, NEW s, Finds(v, s),
         FoundForShow', FoundForCmd', FoundForKick'
  PROVE  AdminInv'
<1>1. stage' = "found" /\ verb = v /\ verb' = v /\ stage = "called"
  BY DEF Finds, Handles
<1>2. SavedForCmd' /\ SavedForBlock'
  BY <1>1 DEF SavedForCmd, SavedForBlock
<1>3. NotQueuedYet'
  BY <1>1 DEF AdminInv, HandlerInv, NotQueuedYet, ServeStep
<1>. QED BY <1>1, <1>2, <1>3, ServeKeepsStore, SilentKeeps DEF AdminInv, HandlerInv

LEMMA GetTerminalRowKeeps == AdminInv /\ GetTerminalRow => AdminInv'
<1>. SUFFICES ASSUME AdminInv, GetTerminalRow PROVE AdminInv'
  OBVIOUS
<1>1. ServeStep /\ UNCHANGED logs
  BY DEF GetTerminalRow, Answers, Finds, Handles, Reads, storeVars, boundVars, ServeStep
<1>2. CASE Answers("show", "called", Error("NotFound"))
  BY <1>1, <1>2, ServeKeepsStore, ErrorKeeps
<1>3. ASSUME NEW s, Finds("show", s),
             s \in IF request.device # None THEN GetTerminalByDevice(request.device)
                   ELSE GetTerminal(request.session)
      PROVE AdminInv'
  <2>1. verb' = "show" /\ found' = s
    BY <1>3 DEF Finds, Handles
  <2>2. s \in Sessions
    BY <1>3 DEF GetTerminalByDevice, GetTerminal, RowsOf
  <2>3. ASSUME request.device # None
        PROVE  /\ rows[s].dev = request.device
               /\ \A t \in 1..known.rows : rows[t].dev = request.device => rows[t].seen <= rows[s].seen
    <3>1. 1..known.rows \subseteq Sessions
      BY <1>1, RowTypes DEF AdminInv, KnownBefore, ServeStep
    <3>. QED BY <1>3, <2>3, <3>1 DEF GetTerminalByDevice, RowsOf
  <2>4. FoundForShow'
    BY <1>1, <2>1, <2>2, <2>3 DEF FoundForShow, ServeStep, Sessions
  <2>5. FoundForCmd' /\ FoundForKick'
    BY <2>1 DEF FoundForCmd, FoundForKick
  <2>. QED BY <1>1, <1>3, <2>4, <2>5, FindsKeeps
<1>. QED BY <1>2, <1>3 DEF GetTerminalRow

\* The hardware read now is no older than what there was when the call came in.
LEMMA GetTerminalHardwareKeeps == AdminInv /\ GetTerminalHardware => AdminInv'
<1>. SUFFICES ASSUME AdminInv, GetTerminalHardware PROVE AdminInv'
  OBVIOUS
<1>1. ServeStep /\ UNCHANGED logs
  BY DEF GetTerminalHardware, Answers, Handles, Reads, storeVars, boundVars, Fault, ServeStep
<1>2. /\ verb = "show" /\ stage = "found" /\ verb' = "show" /\ stage' = "printed"
  BY DEF GetTerminalHardware, Answers, Handles
<1>. SUFFICES ASSUME ~Answers("show", "found", Error("Unavailable")) PROVE AdminInv'
  BY <1>1, ServeKeepsStore, ErrorKeeps
<1>. DEFINE dev == rows[found].dev
            mine == {r \in DOMAIN reports : reports[r].dev = dev}
            before == {r \in 1..known.reports : reports[r].dev = dev}
            Answer(hw) ==
                /\ \E json \in BOOLEAN : printed' = Output(json, "show", Detail(hw))
                /\ IF hw = None THEN before = {} \/ faults' = faults + 1
                   ELSE /\ hw \in mine
                        /\ \A r \in before : reports[r].created <= reports[hw].created
<1>3. /\ found \in Sessions
      /\ request.device # None =>
            /\ dev = request.device
            /\ \A s \in 1..known.rows : rows[s].dev = request.device => rows[s].seen <= rows[found].seen
  BY <1>2 DEF AdminInv, HandlerInv, FoundForShow
<1>4. 1..known.reports \subseteq DOMAIN reports /\ before \subseteq mine
  BY <1>2, RowTypes DEF AdminInv, KnownBefore
<1>5. \E hw : Answer(hw)
  <2>1. ASSUME NEW hits \in GetLatestHardware(dev),
               Answered("show", "found", Detail(IF hits = <<>> THEN None ELSE hits[1]))
        PROVE \E hw : Answer(hw)
    <3>1. IsFiniteSet(mine) /\ \A r \in mine : r \in Nat /\ reports[r].created \in Nat
      <4>1. IsFiniteSet(DOMAIN reports)
        <5>1. Len(reports) \in Nat /\ DOMAIN reports = 1..Len(reports)
          BY RowTypes DEF AdminInv
        <5>. QED BY <5>1, FS_Interval
      <4>. QED BY <4>1, RowTypes, FS_Subset DEF AdminInv
    <3>2. hits \in NewestOf(reports, mine, 1)
      BY <2>1 DEF GetLatestHardware
    <3>3. /\ hits = <<>> => mine = {}
          /\ hits # <<>> => hits[1] \in mine
                            /\ \A r \in mine : reports[r].created <= reports[hits[1]].created
      <4>. HIDE DEF mine
      <4>. QED BY <3>1, <3>2, NewestOne
    <3>. HIDE DEF mine, before
    <3>4. CASE hits = <<>>
      <4>1. \E json \in BOOLEAN : printed' = Output(json, "show", Detail(None))
        BY <2>1, <3>4 DEF Answered
      <4>. QED BY <1>4, <3>3, <3>4, <4>1
    <3>5. CASE hits # <<>>
      <4>1. \E json \in BOOLEAN : printed' = Output(json, "show", Detail(hits[1]))
        BY <2>1, <3>5 DEF Answered
      <4>2. hits[1] # None
        BY <3>1, <3>3, <3>5, NoneAssumption
      <4>. QED BY <1>4, <3>3, <3>5, <4>1, <4>2
    <3>. QED BY <3>4, <3>5
  <2>2. ASSUME Answered("show", "found", Detail(None)), Fault PROVE \E hw : Answer(hw)
    BY <2>2 DEF Answered, Fault
  <2>. HIDE DEF Answer
  <2>. QED BY <2>1, <2>2, AnswersOrLost DEF GetTerminalHardware
<1>6. PICK hw : Answer(hw)
  BY <1>5
<1>7. /\ "error" \notin DOMAIN printed'
      /\ printed'.session = found /\ printed'.device = dev /\ printed'.hardware = hw
  BY <1>6, PrintsDetail
<1>8. PrintedTypes'
  <2>1. hw # None => hw \in DOMAIN reports
    BY <1>6
  <2>. QED BY <1>1, <1>2, <1>3, <1>7, <2>1 DEF PrintedTypes, Shown, ServeStep, Sessions
<1>9. ShowFresh'
  <2>1. /\ rows' = rows /\ reports' = reports /\ known' = known /\ request' = request
    BY <1>1 DEF ServeStep
  <2>2. faults' = faults + 1 => faults' > known'.faults
    <3>1. faults \in Nat /\ known.faults \in 0..faults
      BY <1>2 DEF AdminInv, StoreTypes, KnownBefore
    <3>. QED BY <2>1, <3>1
  <2>3. {r \in 1..known'.reports : reports'[r].dev = printed'.device} = before
    BY <1>7, <2>1
  <2>4. hw # None => reports[hw].dev = dev
    BY <1>6
  <2>. HIDE DEF before, mine
  <2>. QED BY <1>3, <1>6, <1>7, <2>1, <2>2, <2>3, <2>4 DEF ShowFresh, RowsOf
<1>10. AnswersRight' /\ LogTruthful' /\ MarkTold'
  BY <1>2, <1>9 DEF AnswersRight, LogIsNewest, HistoryIsRange, LogTruthful, MarkTold, Told,
      NotTold, Unanswered, Shown
<1>. QED BY <1>1, <1>2, <1>8, <1>10, ServeKeepsStore, PrintedInv DEF AdminInv

LEMMA CallFailsKeeps == AdminInv /\ CallFails => AdminInv'
<1>. SUFFICES ASSUME AdminInv, CallFails PROVE AdminInv'
  OBVIOUS
<1>1. PICK v \in {"show", "history", "cmdlog", "block", "unblock"} :
         Answers(v, "called", Error("Internal"))
  BY DEF CallFails
<1>2. ServeStep /\ UNCHANGED logs
  BY <1>1 DEF CallFails, Answers, Handles, Reads, storeVars, Fault, ServeStep
<1>. QED BY <1>1, <1>2, ServeKeepsStore, ErrorKeeps

\* Read as texts, times between bounds in UTC are the times between them.
LEMMA GetTerminalHistoryKeeps == AdminInv /\ GetTerminalHistory => AdminInv'
<1>. SUFFICES ASSUME AdminInv, GetTerminalHistory PROVE AdminInv'
  OBVIOUS
<1>. DEFINE listed == {r \in DOMAIN reports :
                         /\ reports[r].dev = request.device
                         /\ NotBefore(reports[r].created, request.since)
                         /\ NotAfter(reports[r].created, request.until)}
            most == Limit(request.limit, HistoryDefault, HistoryMax)
<1>1. PICK s \in NewestOf(reports, listed, most) : Answers("history", "called", [snapshots |-> s])
  BY DEF GetTerminalHistory, ListHardwareReports
<1>2. ServeStep /\ UNCHANGED logs
  BY <1>1 DEF GetTerminalHistory, Answers, Handles, Reads, storeVars, boundVars, ServeStep
<1>3. verb = "history" /\ stage = "called" /\ verb' = "history" /\ stage' = "printed" /\ asOf' = Lengths
  BY <1>1 DEF Answers, Handles
<1>. SUFFICES ASSUME Answered("history", "called", [snapshots |-> s]) PROVE AdminInv'
  <2>. HIDE DEF listed, most
  <2>. QED BY <1>1, <1>2, AnswersOrLost, ServeKeepsStore, ErrorKeeps
<1>4. "error" \notin DOMAIN printed' /\ printed'.snapshots = s
  BY PrintsHistory DEF Answered
<1>5. /\ request' = request /\ reports' = reports /\ asOf'.reports = Len(reports)
      /\ DOMAIN reports = 1..Len(reports) /\ Len(reports) \in Nat
  BY <1>2, <1>3, RowTypes DEF AdminInv, ServeStep, Lengths
<1>6. HistoryIsRange'
  <2>. SUFFICES ASSUME \A t \in {request.since, request.until} : t # None => t.zone = "Z"
                PROVE  HistoryIsRange'
    BY <1>5 DEF HistoryIsRange
  <2>. DEFINE within == {r \in DOMAIN reports :
                           /\ reports[r].dev = request.device
                           /\ request.since # None => reports[r].created >= request.since.local
                           /\ request.until # None => reports[r].created <= request.until.local}
  <2>1. /\ request.since # None => request.since.local \in Int
        /\ request.until # None => request.until.local \in Int /\ request.until.zone = "Z"
    BY <1>3 DEF AdminInv, RequestTypes, Times
  <2>2. ASSUME NEW r \in DOMAIN reports
        PROVE  /\ NotBefore(reports[r].created, request.since)
                    <=> (request.since # None => reports[r].created >= request.since.local)
               /\ NotAfter(reports[r].created, request.until)
                    <=> (request.until # None => reports[r].created <= request.until.local)
    <3>1. reports[r].created \in Nat
      BY RowTypes DEF AdminInv
    <3>. QED BY <2>1, <3>1 DEF NotBefore, NotAfter
  <2>3. listed = within
    BY <2>2
  <2>4. most = IF request.limit \in 1..HistoryMax THEN request.limit ELSE HistoryDefault
    BY <1>3, LimitsAssumption DEF AdminInv, RequestTypes, Limit
  <2>. HIDE DEF most
  <2>5. s \in NewestOf(reports, within, most)
    BY <1>1, <2>3
  <2>. HIDE DEF listed
  <2>. QED BY <1>4, <1>5, <2>4, <2>5 DEF HistoryIsRange
<1>7. PrintedTypes'
  BY <1>3, <1>5 DEF PrintedTypes, Shown
<1>8. AnswersRight' /\ LogTruthful' /\ MarkTold'
  BY <1>3, <1>6 DEF AnswersRight, LogIsNewest, ShowFresh, LogTruthful, MarkTold, Told, NotTold, Unanswered, Shown
<1>. QED BY <1>2, <1>3, <1>7, <1>8, ServeKeepsStore, PrintedInv DEF AdminInv

\* The rows of a device's sessions are those of the commands given to it.
LEMMA HandleGetCommandLogKeeps == AdminInv /\ HandleGetCommandLog => AdminInv'
<1>. SUFFICES ASSUME AdminInv, HandleGetCommandLog PROVE AdminInv'
  OBVIOUS
<1>. DEFINE listed == {i \in DOMAIN logs : IF request.device # None THEN OfDevice(i) ELSE OfSession(i)}
            most == Limit(request.limit, LogDefault, LogMax)
<1>1. PICK s \in NewestOf(logs, listed, most) :
         Answers("cmdlog", "called", [entries |-> [i \in DOMAIN s |-> Entry(s[i])]])
  BY DEF HandleGetCommandLog, GetCommandLog
<1>2. ServeStep /\ UNCHANGED logs
  BY <1>1 DEF HandleGetCommandLog, Answers, Handles, Reads, storeVars, boundVars, ServeStep
<1>3. verb = "cmdlog" /\ stage = "called" /\ verb' = "cmdlog" /\ stage' = "printed" /\ asOf' = Lengths
  BY <1>1 DEF Answers, Handles
<1>. SUFFICES ASSUME Answered("cmdlog", "called", [entries |-> [i \in DOMAIN s |-> Entry(s[i])]])
              PROVE  AdminInv'
  <2>. HIDE DEF listed, most
  <2>. QED BY <1>1, <1>2, AnswersOrLost, ServeKeepsStore, ErrorKeeps
<1>4. /\ "error" \notin DOMAIN printed'
      /\ DOMAIN printed'.entries = DOMAIN s
      /\ \A i \in DOMAIN s :
            /\ printed'.entries[i].command = s[i]
            /\ printed'.entries[i].type = parseCommandType(logs[s[i]].type)
            /\ printed'.entries[i].status = logs[s[i]].status
  BY PrintsLog DEF Answered
<1>5. /\ request' = request /\ logs' = logs /\ given' = given /\ queued' = queued
      /\ asOf'.logs = Len(logs)
      /\ DOMAIN logs = 1..Len(logs) /\ Len(logs) \in Nat
  BY <1>2, <1>3, RowTypes DEF AdminInv, ServeStep, Lengths
<1>6. /\ most = IF request.limit \in 1..LogMax THEN request.limit ELSE LogDefault
      /\ most \in Nat
  BY <1>3, LimitsAssumption DEF AdminInv, RequestTypes, Limit
<1>7. s = [i \in DOMAIN s |-> s[i]] /\ \A i \in DOMAIN s : s[i] \in DOMAIN logs
  <2>. HIDE DEF most, listed
  <2>1. s = [i \in DOMAIN s |-> s[i]] /\ \A i \in DOMAIN s : s[i] \in listed
    BY <1>1, <1>6, NewestAreOf
  <2>. QED BY <2>1 DEF listed
<1>8. LogIsNewest'
  <2>. DEFINE asked == {i \in 1..Len(logs) :
                          IF request.device # None THEN given[i].device = request.device
                          ELSE request.session \in {None, logs[i].ses}}
  <2>1. ASSUME NEW i \in DOMAIN logs
        PROVE  (IF request.device # None THEN OfDevice(i) ELSE OfSession(i))
                 <=> IF request.device # None THEN given[i].device = request.device
                     ELSE request.session \in {None, logs[i].ses}
    BY DEF AdminInv, LogRows, LogRow, OfDevice, OfSession
  <2>2. listed = asked
    BY <1>5, <2>1
  <2>3. [i \in DOMAIN printed'.entries |-> printed'.entries[i].command] = s
    BY <1>4, <1>7
  <2>. HIDE DEF most
  <2>4. s \in NewestOf(logs, asked, most)
    BY <1>1, <2>2
  <2>. HIDE DEF listed
  <2>. QED BY <1>5, <1>6, <2>3, <2>4 DEF LogIsNewest
<1>9. LogTruthful'
  <2>1. ASSUME NEW c \in DOMAIN logs
        PROVE  /\ parseCommandType(logs[c].type)
                    = IF given[c].type \in KnownTypes THEN given[c].type ELSE "UNSPECIFIED"
               /\ logs[c].status \in Progress \ {"Failed"} => c \in queued
    <3>1. LogRow(c)
      BY DEF AdminInv, LogRows
    <3>2. parseCommandType(logs[c].type)
            = IF given[c].type \in KnownTypes THEN given[c].type ELSE "UNSPECIFIED"
      BY <3>1 DEF LogRow, cmdTypeName, parseCommandType
    <3>. QED BY <3>1, <3>2 DEF LogRow
  <2>. QED BY <1>4, <1>5, <1>7, <2>1 DEF LogTruthful
<1>10. PrintedTypes'
  BY <1>3, <1>5 DEF PrintedTypes, Shown
<1>11. AnswersRight' /\ MarkTold'
  BY <1>3, <1>8 DEF AnswersRight, HistoryIsRange, ShowFresh, MarkTold, Told, NotTold, Unanswered, Shown
<1>. QED BY <1>2, <1>3, <1>9, <1>10, <1>11, ServeKeepsStore, PrintedInv DEF AdminInv

LEMMA CallLostKeeps == AdminInv /\ CallLost => AdminInv'
<1>. SUFFICES ASSUME AdminInv, CallLost PROVE AdminInv'
  OBVIOUS
<1>1. PICK v \in Verbs : Answers(v, "called", Error("Unavailable"))
  BY DEF CallLost
<1>2. ServeStep /\ UNCHANGED logs
  BY <1>1 DEF CallLost, Answers, Handles, Reads, storeVars, boundVars, ServeStep
<1>. QED BY <1>1, <1>2, ServeKeepsStore, ErrorKeeps

LEMMA DisconnectCheckKeeps == AdminInv /\ DisconnectCheck => AdminInv'
<1>. SUFFICES ASSUME AdminInv, DisconnectCheck PROVE AdminInv'
  OBVIOUS
<1>1. ServeStep /\ UNCHANGED logs
  BY DEF DisconnectCheck, Answers, Finds, Handles, Reads, storeVars, boundVars, ServeStep
<1>2. CASE Answers("kick", "called", Response(FALSE, "offline"))
  BY <1>1, <1>2, ServeKeepsStore, RefusalKeeps
<1>3. CASE request.session \in live /\ Finds("kick", request.session)
  <2>1. verb' = "kick" /\ found' = request.session /\ live' = live /\ request' = request
    BY <1>1, <1>3 DEF Finds, Handles, ServeStep
  <2>2. FoundForShow' /\ FoundForCmd' /\ FoundForKick'
    BY <1>3, <2>1 DEF FoundForShow, FoundForCmd, FoundForKick
  <2>. QED BY <1>1, <1>3, <2>2, FindsKeeps
<1>. QED BY <1>2, <1>3 DEF DisconnectCheck

\* A session that was online when it was looked up and is not when it is kicked left
\* during the call.
LEMMA KickKeeps == AdminInv /\ Kick => AdminInv'
<1>. SUFFICES ASSUME AdminInv, Kick PROVE AdminInv'
  OBVIOUS
<1>1. ServeStep /\ UNCHANGED logs
  BY DEF Kick, Answers, Handles, Changes, ServeStep
<1>2. verb = "kick" /\ stage = "found" /\ verb' = "kick" /\ stage' = "printed"
  BY DEF Kick, Answers, Handles
<1>3. found = request.session /\ found \in live \cup gone
  BY <1>2 DEF AdminInv, HandlerInv, FoundForKick
<1>4. request'.session \in kicked' \cup gone'
  BY <1>1, <1>3 DEF Kick, ServeStep
<1>. QED BY <1>1, <1>2, <1>4, CheckTells, ServeKeepsStore, PrintedInv DEF AdminInv

LEMMA BlockTerminalKeeps == AdminInv /\ BlockTerminal => AdminInv'
<1>. SUFFICES ASSUME AdminInv, BlockTerminal PROVE AdminInv'
  OBVIOUS
<1>1. ServeStep /\ UNCHANGED logs
  BY DEF BlockTerminal, Handles, Changes, ServeStep
<1>2. verb' = "block" /\ stage' = "saved" /\ RowsOf(request.device) \subseteq blocked'
  BY DEF BlockTerminal, Handles, MarkBlocked
<1>3. known.rows \in 0..Len(rows)
  BY <1>1 DEF AdminInv, KnownBefore, ServeStep
<1>4. SavedForBlock'
  <2>1. 1..known.rows \subseteq Sessions
    BY <1>3, RowTypes DEF AdminInv
  <2>. QED BY <1>1, <1>2, <2>1 DEF SavedForBlock, ServeStep, RowsOf
<1>5. HandlerInv'
  BY <1>2, <1>4 DEF HandlerInv, FoundForShow, FoundForCmd, SavedForCmd, NotQueuedYet, FoundForKick
<1>. QED BY <1>1, <1>2, <1>5, ServeKeepsStore, SilentKeeps DEF AdminInv

\* Every session there was when the call came in is kicked now, or left during the call.
LEMMA KickDeviceSessionsKeeps == AdminInv /\ kickDeviceSessions => AdminInv'
<1>. SUFFICES ASSUME AdminInv, kickDeviceSessions PROVE AdminInv'
  OBVIOUS
<1>1. ServeStep /\ UNCHANGED logs
  BY DEF kickDeviceSessions, Answers, Handles, boundVars, ServeStep
<1>2. verb = "block" /\ stage = "saved" /\ verb' = "block" /\ stage' = "printed"
  BY DEF kickDeviceSessions, Answers, Handles
<1>3. /\ blocked' = blocked /\ kicked' = kicked \cup (RowsOf(request.device) \cap live)
      /\ request' = request /\ known' = known /\ rows' = rows /\ gone' = gone
  BY <1>1 DEF kickDeviceSessions, ServeStep
<1>4. ASSUME NEW s \in 1..known.rows, rows[s].dev = request.device
      PROVE  s \in blocked /\ s \in kicked' \cup gone
  <2>1. s \in blocked
    BY <1>2, <1>4 DEF AdminInv, HandlerInv, SavedForBlock
  <2>2. s \in Sessions /\ s \in live \cup gone
    BY <1>2, RowTypes DEF AdminInv, KnownBefore
  <2>. QED BY <1>3, <1>4, <2>1, <2>2 DEF RowsOf
<1>5. MarkTold'
  BY <1>2, <1>3, <1>4, CheckTells
<1>. QED BY <1>1, <1>2, <1>5, CheckTells, ServeKeepsStore, PrintedInv DEF AdminInv

LEMMA UnblockTerminalKeeps == AdminInv /\ UnblockTerminal => AdminInv'
<1>. SUFFICES ASSUME AdminInv, UnblockTerminal PROVE AdminInv'
  OBVIOUS
<1>1. ServeStep /\ UNCHANGED logs
  BY DEF UnblockTerminal, Answers, Handles, Changes, ServeStep
<1>2. verb = "unblock" /\ verb' = "unblock" /\ stage' = "printed"
  BY DEF UnblockTerminal, Answers, Handles
<1>3. 1..known.rows \subseteq Sessions
  BY <1>1, RowTypes DEF AdminInv, KnownBefore, ServeStep
<1>4. \A s \in 1..known'.rows : rows'[s].dev = request'.device => s \notin blocked'
  BY <1>1, <1>3 DEF UnblockTerminal, ServeStep, RowsOf
<1>. QED BY <1>1, <1>2, <1>4, CheckTells, ServeKeepsStore, PrintedInv DEF AdminInv

LEMMA SendCommandFindsKeeps == AdminInv /\ SendCommandFinds => AdminInv'
<1>. SUFFICES ASSUME AdminInv, SendCommandFinds PROVE AdminInv'
  OBVIOUS
<1>1. ServeStep /\ UNCHANGED logs
  BY DEF SendCommandFinds, Answers, Finds, Handles, Reads, storeVars, boundVars, Fault, ServeStep
<1>2. CASE Answers("cmd", "called", Error("InvalidArgument"))
  BY <1>1, <1>2, ServeKeepsStore, ErrorKeeps
<1>3. CASE Answers("cmd", "called", Response(FALSE, "device not found"))
  BY <1>1, <1>3, ServeKeepsStore, RefusalKeeps
<1>4. ASSUME NEW s \in GetTerminalByDevice(request.device), Finds("cmd", s) PROVE AdminInv'
  <2>1. verb' = "cmd" /\ found' = s
    BY <1>4 DEF Finds, Handles
  <2>2. s \in Sessions /\ rows[s].dev = request.device
    BY <1>4 DEF GetTerminalByDevice, RowsOf
  <2>3. FoundForCmd' /\ FoundForShow' /\ FoundForKick'
    BY <1>1, <2>1, <2>2 DEF FoundForCmd, FoundForShow, FoundForKick, ServeStep, Sessions
  <2>. QED BY <1>1, <1>4, <2>3, FindsKeeps
<1>. QED BY <1>2, <1>3, <1>4 DEF SendCommandFinds

LEMMA SendCommandOfflineKeeps == AdminInv /\ SendCommandOffline => AdminInv'
<1>. SUFFICES ASSUME AdminInv, SendCommandOffline PROVE AdminInv'
  OBVIOUS
<1>1. ServeStep /\ UNCHANGED logs
  BY DEF SendCommandOffline, Answers, Handles, Reads, storeVars, boundVars, ServeStep
<1>2. Answers("cmd", "found", Response(FALSE, "terminal is offline"))
  BY DEF SendCommandOffline
<1>. QED BY <1>1, <1>2, ServeKeepsStore, RefusalKeeps

LEMMA SendCommandSaveFailsKeeps == AdminInv /\ SendCommandSaveFails => AdminInv'
<1>. SUFFICES ASSUME AdminInv, SendCommandSaveFails PROVE AdminInv'
  OBVIOUS
<1>1. ServeStep /\ UNCHANGED logs
  BY DEF SendCommandSaveFails, Answers, Handles, Reads, storeVars, Fault, ServeStep
<1>2. Answers("cmd", "found", Error("Internal"))
  BY DEF SendCommandSaveFails
<1>. QED BY <1>1, <1>2, ServeKeepsStore, ErrorKeeps

\* The row of the command is the last of the log.
LEMMA SendCommandSavesKeeps == AdminInv /\ SendCommandSaves => AdminInv'
<1>. SUFFICES ASSUME AdminInv, SendCommandSaves PROVE AdminInv'
  OBVIOUS
<1>. DEFINE row == [ses |-> found, type |-> cmdTypeName(request.type),
                    params |-> marshalJSONMap(request.params), status |-> "Pending",
                    created |-> now]
<1>0. PICK n : n = Len(logs) + 1
  OBVIOUS
<1>1. /\ verb = "cmd" /\ stage = "found" /\ verb' = "cmd" /\ stage' = "saved"
      /\ logs' = Append(logs, row) /\ given' = Append(given, request)
      /\ UNCHANGED <<rows, live, reports, now, faults, queued, request, known, gone>>
  BY DEF SendCommandSaves, Handles
<1>2. /\ found \in Sessions /\ rows[found].dev = request.device
      /\ queued \subseteq 1..known.logs /\ Len(logs) = known.logs
  BY <1>1 DEF AdminInv, HandlerInv, FoundForCmd, NotQueuedYet
<1>3. /\ Len(logs) \in Nat /\ DOMAIN logs = 1..Len(logs) /\ Len(given) = Len(logs)
      /\ DOMAIN given = DOMAIN logs /\ known.logs \in 0..Len(logs) /\ now \in Nat
      /\ IsList(logs) /\ IsList(given) /\ queued \subseteq DOMAIN logs
      /\ n = Len(logs) + 1
  BY <1>0, <1>1, RowTypes DEF AdminInv, StoreTypes, KnownBefore
<1>4. /\ IsList(logs') /\ Len(logs') = n /\ DOMAIN logs' = DOMAIN logs \cup {n}
      /\ \A i \in DOMAIN logs : logs'[i] = logs[i]
      /\ logs'[n] = row
  <2>. HIDE DEF row
  <2>. QED BY <1>1, <1>3, Appended
<1>5. /\ IsList(given') /\ Len(given') = n
      /\ \A i \in DOMAIN logs : given'[i] = given[i]
      /\ given'[n] = request
  BY <1>1, <1>3, Appended
<1>6. StoreTypes'
  BY <1>1, <1>3, <1>4, <1>5 DEF AdminInv, StoreTypes, Sessions
<1>7. LogRows'
  <2>1. ASSUME NEW i \in DOMAIN logs PROVE LogRow(i)'
    <3>1. LogRow(i)
      BY DEF AdminInv, LogRows
    <3>. QED BY <1>1, <1>4, <1>5, <3>1 DEF LogRow, Sessions
  <2>2. LogRow(n)'
    <3>1. row = [f \in LogFields |-> row[f]]
      BY DEF LogFields
    <3>2. row.status = "Pending" /\ row.status \notin Progress
      BY DEF Progress
    <3>3. given'[n].device = request.device
      BY <1>5
    <3>. QED BY <1>1, <1>2, <1>3, <1>4, <1>5, <3>1, <3>2, <3>3 DEF LogRow, Sessions
  <2>. QED BY <1>4, <2>1, <2>2 DEF LogRows
<1>8. KnownBefore' /\ RequestTypes'
  BY <1>1, <1>3, <1>4 DEF AdminInv, KnownBefore, RequestTypes
<1>9. SavedForCmd' /\ NotQueuedYet'
  BY <1>1, <1>2, <1>3, <1>4, <1>5 DEF SavedForCmd, NotQueuedYet
<1>10. FoundForShow' /\ FoundForCmd' /\ FoundForKick' /\ SavedForBlock'
  BY <1>1 DEF FoundForShow, FoundForCmd, FoundForKick, SavedForBlock
<1>. QED BY <1>1, <1>6, <1>7, <1>8, <1>9, <1>10, SilentKeeps DEF AdminInv, HandlerInv

\* The command enters a queue and the check says so, or it never does and a cross says so.
LEMMA SendCommandQueuesKeeps == AdminInv /\ SendCommandQueues => AdminInv'
<1>. SUFFICES ASSUME AdminInv, SendCommandQueues PROVE AdminInv'
  OBVIOUS
<1>0. PICK n : n = Len(logs)
  OBVIOUS
<1>1. /\ verb = "cmd" /\ stage = "saved" /\ verb' = "cmd" /\ stage' = "printed"
      /\ UNCHANGED <<rows, live, reports, now, given, request, known, gone>>
      /\ faults' \in {faults, faults + 1}
  BY DEF SendCommandQueues, Answers, Handles, boundVars, Fault
<1>2. /\ n \in Nat /\ known.logs \in 0..n /\ n = known.logs + 1 /\ n \in DOMAIN logs
      /\ given[n] = request /\ logs[n].status = "Pending"
      /\ queued \subseteq 1..known.logs /\ n \notin queued
      /\ n = Len(logs)
  <2>1. n \in Nat /\ known.logs \in 0..n /\ DOMAIN logs = 1..n
    BY <1>0, <1>1, RowTypes DEF AdminInv, KnownBefore
  <2>2. /\ n = known.logs + 1 /\ given[n] = request /\ logs[n].status = "Pending"
        /\ queued \subseteq 1..known.logs
    BY <1>0, <1>1 DEF AdminInv, HandlerInv, SavedForCmd, NotQueuedYet
  <2>. QED BY <1>0, <2>1, <2>2
<1>3. CASE Answers("cmd", "saved", Response(TRUE, "queued"))
           /\ queued' = queued \cup {n} /\ UNCHANGED <<logs, faults>>
  <2>1. StoreTypes'
    BY <1>1, <1>2, <1>3 DEF AdminInv, StoreTypes, Sessions
  <2>2. LogRows'
    BY <1>1, <1>2, <1>3 DEF AdminInv, LogRows, LogRow, Sessions
  <2>3. KnownBefore' /\ RequestTypes'
    BY <1>1, <1>3 DEF AdminInv, KnownBefore, RequestTypes
  <2>4. Told("cmd")' \/ Unanswered("cmd")'
    <3>1. CASE Answered("cmd", "saved", Response(TRUE, "queued"))
      <4>1. PICK json \in BOOLEAN : printed' = Output(json, "cmd", Response(TRUE, "queued"))
        BY <3>1 DEF Answered
      <4>. DEFINE p == Output(json, "cmd", Response(TRUE, "queued"))
      <4>2. /\ "error" \notin DOMAIN p
            /\ IF "mark" \in DOMAIN p THEN p.mark = "check" ELSE p.ok = TRUE
        BY PrintsCheck
      <4>. HIDE DEF p
      <4>3. printed' = p
        BY <4>1 DEF p
      <4>. QED BY <1>1, <4>2, <4>3 DEF Told, Shown
    <3>2. CASE Answers("cmd", "saved", Error("Unavailable"))
      <4>1. printed' = Error("Unavailable")
        BY <3>2 DEF Answers, Output, Error, printError
      <4>. QED BY <1>1, <4>1 DEF Unanswered, Error
    <3>. QED BY <1>3, <3>1, <3>2, AnswersOrLost
  <2>5. MarkTold'
    <3>1. n \in queued' \ 1..known'.logs /\ given'[n] = request'
      BY <1>1, <1>2, <1>3
    <3>2. \A i \in queued' \ 1..known'.logs : i = known'.logs + 1 /\ given'[i] = request'
      BY <1>1, <1>2, <1>3
    <3>3. verb' # "kick" /\ verb' # "block" /\ verb' # "unblock"
      BY <1>1
    <3>. QED BY <2>4, <3>1, <3>2, <3>3 DEF MarkTold, NotTold, Told, Shown
  <2>6. PrintedTypes' /\ AnswersRight' /\ LogTruthful'
    BY <1>1 DEF PrintedTypes, AnswersRight, LogIsNewest, HistoryIsRange, ShowFresh, LogTruthful, Shown
  <2>. QED BY <1>1, <2>1, <2>2, <2>3, <2>5, <2>6, PrintedInv DEF AdminInv
<1>4. CASE Answers("cmd", "saved", Response(FALSE, "command queue full"))
           /\ queued' = queued /\ UNCHANGED logs
  <2>1. ServeStep
    BY <1>1, <1>4 DEF ServeStep
  <2>. QED BY <1>4, <2>1, ServeKeepsStore, RefusalKeeps
<1>5. CASE Answers("cmd", "saved", Response(FALSE, "command queue full"))
           /\ queued' = queued /\ logs' = [logs EXCEPT ![n].status = "Failed"]
  <2>1. ServeStep
    BY <1>1, <1>5 DEF ServeStep
  <2>2. logs' = [logs EXCEPT ![n] = [logs[n] EXCEPT !.status = "Failed"]]
    BY <1>5
  <2>3. IsList(logs') /\ Len(logs') = n /\ DOMAIN logs' = DOMAIN logs
    <3>. DEFINE e == [logs[n] EXCEPT !.status = "Failed"]
    <3>1. IsList(logs) /\ n \in DOMAIN logs /\ logs' = [logs EXCEPT ![n] = e]
      BY <1>2, <2>2 DEF AdminInv, StoreTypes
    <3>. HIDE DEF e
    <3>2. IsList(logs') /\ Len(logs') = Len(logs) /\ DOMAIN logs' = DOMAIN logs
      BY <3>1, Replaced
    <3>. QED BY <1>2, <3>2
  <2>4. StoreTypes'
    <3>1. faults' \in Nat
      BY <1>1 DEF AdminInv, StoreTypes
    <3>. QED BY <1>1, <1>2, <1>5, <2>3, <3>1 DEF AdminInv, StoreTypes, Sessions
  <2>5. LogRows'
    <3>1. ASSUME NEW i \in DOMAIN logs, i # n PROVE LogRow(i)'
      <4>1. LogRow(i) /\ logs'[i] = logs[i]
        BY <2>2, <3>1 DEF AdminInv, LogRows
      <4>. QED BY <1>1, <1>5, <4>1 DEF LogRow, Sessions
    <3>2. LogRow(n)'
      <4>1. LogRow(n) /\ logs'[n] = [logs[n] EXCEPT !.status = "Failed"]
        BY <1>2, <2>2 DEF AdminInv, LogRows
      <4>2. logs[n] = [f \in LogFields |-> logs[n][f]]
        BY <4>1 DEF LogRow
      <4>3. /\ logs'[n] = [f \in LogFields |-> logs'[n][f]]
            /\ logs'[n].ses = logs[n].ses /\ logs'[n].created = logs[n].created
            /\ logs'[n].type = logs[n].type /\ logs'[n].params = logs[n].params
            /\ logs'[n].status = "Failed"
        BY <4>1, <4>2 DEF LogFields
      <4>. QED BY <1>1, <1>2, <1>5, <4>1, <4>3 DEF LogRow, Sessions
    <3>. QED BY <2>3, <3>1, <3>2 DEF LogRows
  <2>6. KnownBefore' /\ RequestTypes'
    <3>1. faults \in Nat /\ known.faults \in 0..faults
      BY <1>1 DEF AdminInv, StoreTypes, KnownBefore
    <3>2. known.faults \in 0..faults'
      BY <1>1, <3>1
    <3>. QED BY <1>1, <2>3, <3>2 DEF AdminInv, KnownBefore, RequestTypes
  <2>. QED BY <1>5, <2>1, <2>4, <2>5, <2>6, RefusalKeeps
<1>. QED BY <1>0, <1>3, <1>4, <1>5 DEF SendCommandQueues, boundVars

-----------------------------------------------------------------------------
(* The theorems *)

LEMMA InitAdminInv == Init => AdminInv
<1>. SUFFICES ASSUME Init PROVE AdminInv
  OBVIOUS
<1>. USE DEF Init
<1>1. StoreTypes
  BY DEF StoreTypes, IsList, Sessions
<1>2. LogRows /\ KnownBefore /\ RequestTypes
  BY DEF LogRows, KnownBefore, RequestTypes
<1>3. HandlerInv
  BY DEF HandlerInv, FoundForShow, FoundForCmd, SavedForCmd, NotQueuedYet, FoundForKick, SavedForBlock
<1>4. PrintedTypes /\ AnswersRight /\ LogTruthful /\ MarkTold
  BY DEF PrintedTypes, AnswersRight, LogIsNewest, HistoryIsRange, ShowFresh, LogTruthful, MarkTold,
         Told, NotTold, Unanswered, Shown
<1>. QED BY <1>1, <1>2, <1>3, <1>4 DEF AdminInv

LEMMA StutterKeeps == AdminInv /\ UNCHANGED vars => AdminInv'
<1>. SUFFICES ASSUME AdminInv, UNCHANGED vars PROVE AdminInv'
  OBVIOUS
<1>. USE DEF vars, storeVars, boundVars, callVars, historyVars, callHistory
<1>1. OutsideStep /\ StoreTypes'
  BY DEF AdminInv, StoreTypes, Sessions, OutsideStep, Extends
<1>. QED
  BY <1>1, OutsideKeepsLogRows, OutsideKeepsCall, OutsideKeepsPrinted DEF AdminInv

LEMMA NextAdminInv == AdminInv /\ [Next]_vars => AdminInv'
<1>. SUFFICES ASSUME AdminInv, [Next]_vars PROVE AdminInv'
  OBVIOUS
<1>1. CASE \/ \E d \in Devices : Register(d)
           \/ \E s \in Sessions : Comes(s) \/ Goes(s) \/ ReportHardware(s)
           \/ \E i \in DOMAIN logs : UpdateCommandResult(i)
           \/ Tick
  <2>1. OutsideStep /\ StoreTypes'
    BY <1>1, OutsideSteps DEF AdminInv
  <2>. QED
    BY <2>1, OutsideKeepsLogRows, OutsideKeepsCall, OutsideKeepsPrinted DEF AdminInv
<1>2. CASE Invoke
  BY <1>2, InvokeKeeps
<1>3. CASE Serve
  BY <1>3, GetTerminalRowKeeps, GetTerminalHardwareKeeps, GetTerminalHistoryKeeps,
     HandleGetCommandLogKeeps, CallFailsKeeps, CallLostKeeps, DisconnectCheckKeeps, KickKeeps, BlockTerminalKeeps,
     KickDeviceSessionsKeeps, UnblockTerminalKeeps, SendCommandFindsKeeps, SendCommandOfflineKeeps,
     SendCommandSavesKeeps, SendCommandSaveFailsKeeps, SendCommandQueuesKeeps
  DEF Serve
<1>4. CASE Return
  BY <1>4, ReturnKeeps
<1>5. CASE UNCHANGED vars
  BY <1>5, StutterKeeps
<1>. QED BY <1>1, <1>2, <1>3, <1>4, <1>5 DEF Next

\* A command log holds the newest commands of the device or session; a history the newest
\* reports between its bounds; a terminal is shown with hardware no older than what there
\* was when the admin asked: whatever registers, reports and leaves between two queries.
THEOREM QueriesAnswerRight == Spec => []AnswersRight
<1>1. AdminInv => AnswersRight
  BY DEF AdminInv
<1>. QED BY <1>1, InitAdminInv, NextAdminInv, PTL DEF Spec

\* A command log gives every command the type it was sent with, and calls none Sent,
\* Executing, Completed or Timeout that never entered a queue, whatever is written of the
\* queued ones.
THEOREM LogTellsTruth == Spec => []LogTruthful
<1>1. AdminInv => LogTruthful
  BY DEF AdminInv
<1>. QED BY <1>1, InitAdminInv, NextAdminInv, PTL DEF Spec

\* What the mark after kick, block, unblock and cmd says is so; after a cross or an error
\* of the server no command was queued, and after a lost call or answer this one at most:
\* though sessions come and go between the steps of a handler.
THEOREM MarkTellsTruth == Spec => []MarkTold
<1>1. AdminInv => MarkTold
  BY DEF AdminInv
<1>. QED BY <1>1, InitAdminInv, NextAdminInv, PTL DEF Spec
=============================================================================
