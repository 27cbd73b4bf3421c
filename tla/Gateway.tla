------------------------------ MODULE Gateway ------------------------------
(***************************************************************************)
(* How a browser's terminal list follows the terminals table.              *)
(*                                                                         *)
(* The web gateway (cmd/admin/gateway.go) polls ListTerminals, compares    *)
(* the answer with the one before, and pushes the differences to its       *)
(* WebSocket connections.  The page (web/src/pages/TerminalList.tsx) loads *)
(* the list through the gateway, patches the terminal an event names, or,  *)
(* when it does not show that session, loads the list again.  Answers and  *)
(* events travel on different connections, and answers overtake one        *)
(* another.                                                                *)
(*                                                                         *)
(* The list has one row per device, that of its latest session (a number   *)
(* here, counted per device); it is taken to fit on one page, without      *)
(* filter.                                                                 *)
(***************************************************************************)
EXTENDS Naturals, Sequences, SequencesExt

CONSTANTS
    Devices,        \* device ids
    MaxGen,         \* bound: sessions a device registers
    MaxFlip,        \* bound: changes of an online column
    MaxFetch,       \* bound: requests for the list under way at the same time
    MaxRefresh      \* bound: loads the user asks for, the first one included

ASSUME DevicesAssumption == Devices # {} /\ IsFiniteSet(Devices)
ASSUME BoundsAssumption ==
    MaxGen \in Nat /\ MaxFlip \in Nat /\ MaxFetch \in Nat \ {0} /\ MaxRefresh \in Nat \ {0}

VARIABLES
    table,      \* row of a device's latest session: [gen, online], gen = 0 for none
    flips,
    \* wsHub
    last,       \* the snapshot of the last poll
    polling,    \* poll: "seeding", "waiting", "read"
    current,    \* the snapshot of the poll under way
    \* WebSocket
    socket,     \* the page's socket: "opening", "open", "closed"
    events,     \* events on it: [dev, gen, online]
    \* page
    page,       \* the list the page shows
    asked,      \* requests not yet answered by the server
    answers,    \* answers under way, in the order they were read: [list, behind, stale,
                \* before] (a poll has read the table since, something newer is on the page,
                \* a load has failed since)
    refreshes,
    \* history
    settled,    \* devices whose row has not changed since the last poll read it
    missed,     \* a change raised no event, or the event found no open socket
    overtaken,  \* an answer was applied after something newer
    failed      \* a load failed, and no list read after that is on the page

tableVars == <<table, flips>>
hubVars == <<last, polling, current>>
pageVars == <<page, asked, answers, refreshes>>
historyVars == <<settled, missed, overtaken, failed>>
vars == <<tableVars, hubVars, socket, events, pageVars, historyVars>>

Empty == [d \in Devices |-> [gen |-> 0, online |-> FALSE]]

\* The gateway starts beside a server that has been running.
Init ==
    /\ table \in [Devices -> {[gen |-> 0, online |-> FALSE], [gen |-> 1, online |-> FALSE],
                              [gen |-> 1, online |-> TRUE]}]
    /\ flips = 0
    /\ last = Empty /\ polling = "seeding" /\ current = Empty
    /\ socket = "opening" /\ events = <<>>
    /\ page = Empty /\ asked = 0 /\ answers = <<>> /\ refreshes = 0
    /\ settled = Devices /\ missed = FALSE /\ overtaken = FALSE /\ failed = FALSE

(***************************************************************************)
(* The table (modelled in Sessions): a Register makes a new latest row,    *)
(* offline; heartbeats and departures flip it.                             *)
(***************************************************************************)
Registers(d) ==
    /\ table[d].gen < MaxGen
    /\ table' = [table EXCEPT ![d] = [gen |-> @.gen + 1, online |-> FALSE]]
    /\ settled' = settled \ {d}
    /\ UNCHANGED <<flips, hubVars, socket, events, pageVars, missed, overtaken, failed>>

Flips(d) ==
    /\ table[d].gen > 0
    /\ flips < MaxFlip
    /\ flips' = flips + 1
    /\ table' = [table EXCEPT ![d].online = ~@]
    /\ settled' = settled \ {d}
    /\ missed' = (missed \/ d \notin settled \/ (polling = "seeding" /\ refreshes > 0))
    /\ UNCHANGED <<hubVars, socket, events, pageVars, overtaken, failed>>

(***************************************************************************)
(* wsHub.pollLoop.  (A poll that fails changes nothing.)                   *)
(***************************************************************************)

\* ListTerminals is answered ...
PollRead ==
    /\ polling \in {"seeding", "waiting"}
    /\ IF polling = "seeding" THEN last' = table /\ polling' = "waiting" /\ UNCHANGED current
                              ELSE current' = table /\ polling' = "read" /\ UNCHANGED last
    /\ settled' = Devices
    /\ answers' = [i \in DOMAIN answers |-> [answers[i] EXCEPT !.behind = TRUE]]
    /\ UNCHANGED <<tableVars, socket, events, page, asked, refreshes, missed, overtaken, failed>>

\* Sessions known to the last poll whose state is another now.
Changed ==
    {d \in Devices : current[d].gen # 0 /\ current[d].gen = last[d].gen
                     /\ current[d].online # last[d].online}

InConns == socket = "open"

\* Mutant: the first snapshot stays the baseline.
KeepBaseline == UNCHANGED last

Rebase == last' = current

\* ... and compared with the last; the events go out in any order.
PollBroadcast ==
    /\ polling = "read"
    /\ polling' = "waiting"
    /\ Rebase
    /\ IF InConns
       THEN \E order \in SetToSeqs(Changed) :
               events' = events \o
                   [i \in DOMAIN order |->
                       [dev |-> order[i], gen |-> current[order[i]].gen, online |-> current[order[i]].online]]
       ELSE UNCHANGED events
    /\ missed' = (missed \/ (Changed # {} /\ ~InConns /\ refreshes > 0))
    /\ UNCHANGED <<tableVars, current, socket, pageVars, settled, overtaken, failed>>

(***************************************************************************)
(* The page.                                                               *)
(***************************************************************************)

\* Mount, a change of page, the reload button, the end of an action.
Refresh ==
    /\ refreshes < MaxRefresh
    /\ asked + Len(answers) < MaxFetch
    /\ refreshes' = refreshes + 1
    /\ asked' = asked + 1
    /\ UNCHANGED <<tableVars, hubVars, socket, events, page, answers, historyVars>>

\* The server reads the table for one of the requests.
ListTerminals ==
    /\ asked > 0
    /\ asked' = asked - 1
    /\ answers' = Append(answers, [list |-> table, behind |-> FALSE, stale |-> FALSE, before |-> FALSE])
    /\ UNCHANGED <<tableVars, hubVars, socket, events, page, refreshes, historyVars>>

\* The call fails, at the gateway or behind it: the page shows the error, keeps its list
\* and does not try again.
LoadFails ==
    /\ asked > 0
    /\ asked' = asked - 1
    /\ failed' = TRUE
    /\ answers' = [i \in DOMAIN answers |-> [answers[i] EXCEPT !.before = TRUE]]
    /\ UNCHANGED <<tableVars, hubVars, socket, events, page, refreshes, settled, missed, overtaken>>

\* fetchData replaces the list by whichever answer arrives, however old.
Arrives ==
    \E i \in DOMAIN answers :
        /\ page' = answers[i].list
        /\ answers' = [j \in 1..(Len(answers) - 1) |->
              IF j < i THEN [answers[j] EXCEPT !.stale = TRUE] ELSE answers[j + 1]]
        /\ overtaken' = (overtaken \/ answers[i].stale)
        /\ failed' = (failed /\ answers[i].before)
        /\ UNCHANGED <<tableVars, hubVars, socket, events, asked, refreshes, settled, missed>>

\* The page opens its socket when it has asked for its first list.
SocketOpens ==
    /\ socket = "opening"
    /\ refreshes > 0
    /\ socket' = "open"
    /\ UNCHANGED <<tableVars, hubVars, events, pageVars, historyVars>>

\* It is not opened again: nothing calls reconnect.
SocketCloses ==
    /\ socket = "open"
    /\ socket' = "closed"
    /\ events' = <<>>
    /\ UNCHANGED <<tableVars, hubVars, pageVars, historyVars>>

\* Mutant: a session the page does not show is ignored.
IgnoreUnknown == UNCHANGED asked

Refetch == asked' = asked + 1

\* handleWsEvent patches the terminal it names, or asks for the list again.
HandleWsEvent ==
    /\ events # <<>>
    /\ events' = Tail(events)
    /\ LET e == Head(events) IN
          IF page[e.dev].gen = e.gen
          THEN page' = [page EXCEPT ![e.dev].online = e.online] /\ UNCHANGED asked
          ELSE Refetch /\ UNCHANGED page
    /\ answers' = [i \in DOMAIN answers |-> [answers[i] EXCEPT !.stale = @ \/ answers[i].behind]]
    /\ UNCHANGED <<tableVars, hubVars, socket, refreshes, historyVars>>

Next ==
    \/ \E d \in Devices : Registers(d) \/ Flips(d)
    \/ PollRead \/ PollBroadcast
    \/ Refresh \/ ListTerminals \/ LoadFails \/ Arrives
    \/ SocketOpens \/ SocketCloses \/ HandleWsEvent

Spec == Init /\ [][Next]_vars

\* The gateway polls on its ticker, a load is answered or fails, answers and events
\* arrive.
Fairness ==
    /\ WF_vars(PollRead) /\ WF_vars(PollBroadcast)
    /\ WF_vars(ListTerminals \/ LoadFails) /\ WF_vars(Arrives) /\ WF_vars(HandleWsEvent)

LiveSpec == Spec /\ Fairness

-----------------------------------------------------------------------------
(* Properties *)

SameSession(i, j) == events[i].dev = events[j].dev /\ events[i].gen = events[j].gen
LastOfSession(i) == \A j \in (i + 1)..Len(events) : ~SameSession(i, j)

\* Of one session, the events on a socket tell online and offline in turn, and the last
\* of them tells what the hub's baseline says: no change is told twice, none that the
\* hub knows of is held back.
EventsTellChanges ==
    \A i \in DOMAIN events :
        /\ \A j \in (i + 1)..Len(events) :
              SameSession(i, j) /\ (\A k \in (i + 1)..(j - 1) : ~SameSession(i, k)) =>
                  events[i].online # events[j].online
        /\ LastOfSession(i) /\ last[events[i].dev].gen = events[i].gen =>
              events[i].online = last[events[i].dev].online

\* The page comes to show every terminal that is online, and the right state of every
\* session it shows, as long as its socket is open, no change escaped the poll, no
\* answer was overtaken and no load failed that has not been made good by a later one.
PageCatchesUp ==
    <>[](socket = "open" /\ ~missed /\ ~overtaken /\ ~failed =>
            \A d \in Devices : table[d].online \/ page[d].gen = table[d].gen => page[d] = table[d])
=============================================================================
