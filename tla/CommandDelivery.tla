-------------------------- MODULE CommandDelivery --------------------------
(***************************************************************************)
(* What the command subsystem really promises about the commands admins    *)
(* send to one device, without queues, goroutines, streams or a network.   *)
(*                                                                         *)
(* Each session of the device has an order of accepted commands.  Commands *)
(* begin in that order, each at most once; a command that begins may end   *)
(* with an outcome; a command the server gave up on (queue full, send      *)
(* failed) never begins, and blocks whatever was accepted behind it.  The  *)
(* recorded status of a command (the command_logs row) may lag behind the  *)
(* truth, and may be replaced, but never claims what did not happen.       *)
(***************************************************************************)
EXTENDS Naturals, Sequences

CONSTANTS Commands,   \* command ids
          Sessions    \* sessions of the device

VARIABLES order,      \* order[s]: commands accepted for session s, oldest first
          begun,      \* begun[s]: commands that began to run in session s
          outcome,    \* outcome[c]: "None", or how c ended on the client
          refused,    \* commands the server gave up on
          record      \* record[c]: the status the store shows for c

vars == <<order, begun, outcome, refused, record>>

Elements(q) == {q[i] : i \in DOMAIN q}
Accepted == UNION {Elements(order[s]) : s \in Sessions}
Begun == UNION {Elements(begun[s]) : s \in Sessions}

\* What a record may claim about command c, given what happened to c.
Justified(c, v) ==
    \/ v = "Absent" /\ c \notin Accepted
    \/ v = "Pending" /\ c \notin Begun
    \/ v \in {"Sent", "Timeout"} /\ c \in Accepted \ refused
    \/ v = "Executing" /\ c \in Begun
    \/ v = "Completed" /\ outcome[c] = "Completed"
    \/ v = "Failed" /\ (outcome[c] = "Failed" \/ c \in refused)

Init ==
    /\ order = [s \in Sessions |-> <<>>]
    /\ begun = [s \in Sessions |-> <<>>]
    /\ outcome = [c \in Commands |-> "None"]
    /\ refused = {}
    /\ record = [c \in Commands |-> "Absent"]

\* Accept c for session s.
Accept(c, s) ==
    /\ c \notin Accepted \cup refused
    /\ order' = [order EXCEPT ![s] = Append(@, c)]
    /\ UNCHANGED <<begun, outcome, refused, record>>

\* The next command of session s begins; a refused one blocks the session.
Begin(s) ==
    /\ Len(begun[s]) < Len(order[s])
    /\ order[s][Len(begun[s]) + 1] \notin refused
    /\ begun' = [begun EXCEPT ![s] = Append(@, order[s][Len(@) + 1])]
    /\ UNCHANGED <<order, outcome, refused, record>>

End(c, o) ==
    /\ c \in Begun
    /\ outcome[c] = "None"
    /\ outcome' = [outcome EXCEPT ![c] = o]
    /\ UNCHANGED <<order, begun, refused, record>>

\* Give up on a command that has not begun, recording the failure or not.
Refuse(c) ==
    /\ c \notin Begun \cup refused
    /\ refused' = refused \cup {c}
    /\ record' \in {record, [record EXCEPT ![c] = "Failed"]}
    /\ UNCHANGED <<order, begun, outcome>>

\* The store's record of c moves to another claim that is true of c.
Record(c, v) ==
    /\ Justified(c, v)
    /\ v # "Absent"
    /\ record' = [record EXCEPT ![c] = v]
    /\ UNCHANGED <<order, begun, outcome, refused>>

Next ==
    \/ \E c \in Commands :
          \/ Refuse(c)
          \/ \E s \in Sessions : Accept(c, s)
          \/ \E o \in {"Completed", "Failed"} : End(c, o)
          \/ \E v \in {"Pending", "Sent", "Timeout", "Executing", "Completed", "Failed"} :
                Record(c, v)
    \/ \E s \in Sessions : Begin(s)

Spec == Init /\ [][Next]_vars
=============================================================================
