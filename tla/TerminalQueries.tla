-------------------------- MODULE TerminalQueries --------------------------
(***************************************************************************)
(* What ListTerminals and GetTerminalByDevice (internal/server/store/      *)
(* terminal.go) answer while devices register and go on and off line.      *)
(*                                                                         *)
(* A reader walks the pages of the list, as the pager of TerminalList.tsx  *)
(* or "admin list --page" do; every page is a count query and a page       *)
(* query, without a transaction, so a registration may fall between two    *)
(* pages or between the two queries of one.  The gateway's hub asks for    *)
(* one page and names no size.  Under every page "admin list" prints a      *)
(* summary line (cmd/admin/output.go).  Times have a resolution of one     *)
(* second; among rows of the same second SQL leaves the order open.        *)
(***************************************************************************)
EXTENDS Integers, Sequences, FiniteSets, SequencesExt

CONSTANTS
    Devices,        \* device ids
    DefaultSize,    \* page size when the request names none: 50
    MaxSize,        \* largest page size a request may name: 500
    MaxRow,         \* bound: rows of terminals
    MaxSecond,      \* bound: seconds that pass
    MaxFlip         \* bound: changes of an online column

ASSUME SizesAssumption == DefaultSize \in Nat \ {0} /\ MaxSize \in Nat /\ DefaultSize <= MaxSize
ASSUME BoundsAssumption == MaxRow \in Nat /\ MaxSecond \in Nat /\ MaxFlip \in Nat

VARIABLES
    rows,       \* terminals, in the order of insertion
    now,        \* seconds
    flips,
    \* the walk: filter and page size asked for, page, stage, count, rows shown, summary
    filter, size, page, stage, total, shown, summary,
    \* history
    before,     \* devices known when the walk began
    moved,      \* devices that registered since
    flipped,    \* an online column changed since
    torn        \* a registration fell between the queries of some page

tableVars == <<rows, now, flips>>
walkVars == <<filter, size, page, stage, total, shown, summary>>
historyVars == <<before, moved, flipped, torn>>
vars == <<tableVars, walkVars, historyVars>>

Known == {rows[i].dev : i \in DOMAIN rows}

Init ==
    /\ rows = <<>> /\ now = 0 /\ flips = 0
    /\ filter = "all" /\ size = DefaultSize /\ page = 0 /\ stage = "idle" /\ total = 0
    /\ shown = <<>> /\ summary = [online |-> 0, offline |-> 0]
    /\ before = {} /\ moved = {} /\ flipped = FALSE /\ torn = FALSE

-----------------------------------------------------------------------------
(* The queries *)

\* ORDER BY last_seen_at DESC: a row that may come first among those of device d.
IsLatest(i) ==
    \A j \in DOMAIN rows : rows[j].dev = rows[i].dev => rows[j].seen <= rows[i].seen

\* GetTerminalByDevice: ... LIMIT 1.
GetTerminalByDevice(d) == {i \in DOMAIN rows : rows[i].dev = d /\ IsLatest(i)}

\* ROW_NUMBER() OVER (PARTITION BY device_id ...) = 1: one row of every device.
Heads ==
    {S \in SUBSET {i \in DOMAIN rows : IsLatest(i)} :
        \A d \in Known : \E i \in S : S \cap GetTerminalByDevice(d) = {i}}

\* Mutant: the filter looks at every session, not at the latest of its device.
MatchingAnyRow(S) ==
    {i \in DOMAIN rows : IF filter = "all" THEN i \in S ELSE rows[i].online = (filter = "online")}

\* AND online = ?
Matching(S) == {i \in S : filter = "all" \/ rows[i].online = (filter = "online")}

\* ORDER BY last_seen_at DESC of the whole answer.
Orders(S) ==
    {s \in SetToSeqs(S) : \A a, b \in DOMAIN s : a < b => rows[s[a]].seen >= rows[s[b]].seen}

\* The limits that both ListTerminals put on what a request asks for.
PageSize(asked) == IF asked <= 0 \/ asked > MaxSize THEN DefaultSize ELSE asked
PageNumber(asked) == IF asked < 1 THEN 1 ELSE asked

\* Mutant: pages are counted from 0.
OffsetFromZero(asked, n) == PageNumber(asked) * n

Offset(asked, n) == (PageNumber(asked) - 1) * n

\* LIMIT ? OFFSET ?
PageOf(s, asked, n) ==
    SubSeq(s, Offset(asked, n) + 1, IF Len(s) < Offset(asked, n) + n THEN Len(s) ELSE Offset(asked, n) + n)

-----------------------------------------------------------------------------
(* The table *)

\* Bound: the table is of interest until the walk is over.
Watched == stage # "done"

\* UpsertTerminal of a new session: both times are those of the registration.
Register(d) ==
    /\ Watched /\ Len(rows) < MaxRow
    /\ rows' = Append(rows, [dev |-> d, first |-> now, seen |-> now, online |-> FALSE])
    /\ moved' = IF stage = "idle" THEN {} ELSE moved \cup {d}
    /\ torn' = (torn \/ stage = "counted")
    /\ UNCHANGED <<now, flips, walkVars, before, flipped>>

UpdateHeartbeat(i) == rows' = [rows EXCEPT ![i].online = TRUE]

MarkOffline(i) == rows' = [rows EXCEPT ![i].online = FALSE]

Flip(i) ==
    /\ Watched /\ flips < MaxFlip
    /\ flips' = flips + 1
    /\ IF rows[i].online THEN MarkOffline(i) ELSE UpdateHeartbeat(i)
    /\ flipped' = (stage # "idle")
    /\ UNCHANGED <<now, walkVars, before, moved, torn>>

\* Bound: seconds in which no device registers are left out.
Tick ==
    /\ Watched /\ now < MaxSecond
    /\ \E i \in DOMAIN rows : rows[i].first = now
    /\ now' = now + 1
    /\ UNCHANGED <<rows, flips, walkVars, historyVars>>

-----------------------------------------------------------------------------
(* A reader walks the pages. *)
StartWalk(f, n) ==
    /\ stage = "idle"
    /\ stage' = "asked"
    /\ filter' = f /\ size' = n /\ page' = 1
    /\ before' = Known
    /\ UNCHANGED <<tableVars, total, shown, summary, moved, flipped, torn>>

\* wsHub.poll: an empty request, so that page and page size are 0.
Poll ==
    /\ stage = "idle"
    /\ stage' = "asked"
    /\ filter' = "all" /\ size' = 0 /\ page' = 0
    /\ before' = Known
    /\ UNCHANGED <<tableVars, total, shown, summary, moved, flipped, torn>>

\* Mutant: the filter is left out.
CountUnfiltered(S) == Cardinality(S)

\* SELECT COUNT(*)
Count(S) == Cardinality(Matching(S))

CountQuery ==
    /\ stage = "asked"
    /\ \E S \in Heads : total' = Count(S)
    /\ stage' = "counted"
    /\ UNCHANGED <<tableVars, filter, size, page, shown, summary, historyVars>>

\* The summary line: online terminals of the page, and the total less these.
Summary(terminals) ==
    LET online == Cardinality({i \in ToSet(terminals) : rows[i].online})
    IN  [online |-> online, offline |-> total - online]

\* The paginated query; a walk goes on while the total promises another page.
PageQuery ==
    /\ stage = "counted"
    /\ \E S \in Heads : \E s \in Orders(Matching(S)) :
          LET terminals == PageOf(s, page, PageSize(size))
          IN  shown' = shown \o terminals /\ summary' = Summary(terminals)
    /\ IF size = 0 \/ page * size >= total
         THEN stage' = "done" /\ UNCHANGED page
         ELSE stage' = "asked" /\ page' = page + 1
    /\ UNCHANGED <<tableVars, filter, size, total, historyVars>>

Next ==
    \/ \E d \in Devices : Register(d)
    \/ \E i \in DOMAIN rows : Flip(i)
    \/ Tick
    \/ \E f \in {"all", "online", "offline"}, n \in 1..MaxSize : StartWalk(f, n)
    \/ CountQuery
    \/ PageQuery
    \/ Poll

Spec == Init /\ [][Next]_vars

-----------------------------------------------------------------------------
(* Properties *)

\* Rows were inserted in different seconds: then last_seen_at tells the latest session
\* of a device ("GetTerminalByDevice returns the latest terminal row", store.go:35).
Apart(S) == \A i, j \in S : i # j => rows[i].first # rows[j].first

RowsOf(d) == {i \in DOMAIN rows : rows[i].dev = d}
Newest(i) == \A j \in RowsOf(rows[i].dev) : j <= i

\* The reader walks, or is the hub, whose snapshot is one page of the default size, so
\* that it has the "online/offline changes" (cmd/admin/gateway.go:22) of a small fleet.
Covers == size # 0 \/ Cardinality(Known) <= DefaultSize

\* A walk during which nothing changed shows, newest first, the row of every device
\* that the filter asks for, each once: pages neither overlap nor leave a gap.
WalkComplete ==
    (stage = "done" /\ Covers /\ moved = {} /\ ~flipped /\ Apart(DOMAIN rows)) =>
        /\ {shown[k] : k \in DOMAIN shown} =
              {i \in DOMAIN rows : Newest(i) /\ (filter = "all" \/ rows[i].online = (filter = "online"))}
        /\ \A a, b \in DOMAIN shown : a < b => rows[shown[a]].first > rows[shown[b]].first

\* Registrations during a walk move rows from page to page, yet an unfiltered walk
\* leaves out no device that stayed where it was; a registration between the two
\* queries of a page excepted, whose total is then too small.
WalkSkipsNone ==
    (stage = "done" /\ Covers /\ filter = "all" /\ ~torn /\ Apart(DOMAIN rows)) =>
        before \ moved \subseteq {rows[shown[k]].dev : k \in DOMAIN shown}

\* When all terminals fit on one page and nothing changes between its two queries, the
\* summary under it counts the devices of each status that the filter asks for.
SummaryCounts ==
    (stage = "done" /\ page = 1 /\ moved = {} /\ ~flipped /\ Apart(DOMAIN rows)) =>
        LET Latest(isOnline, unless) ==
                IF filter = unless THEN {} ELSE {i \in DOMAIN rows : Newest(i) /\ rows[i].online = isOnline}
        IN  /\ summary.online = Cardinality(Latest(TRUE, "offline"))
            /\ summary.offline = Cardinality(Latest(FALSE, "online"))
=============================================================================
