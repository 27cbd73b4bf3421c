---------------------- MODULE CommandPipeline_proofs ----------------------
(***************************************************************************)
(* Theorems about CommandPipeline, for any commands, kinds, capacity and   *)
(* bounds: the type invariant; that commands begin in the order in which   *)
(* they were accepted, whatever is cut, kicked or restarted; that a row    *)
(* never claims what did not happen; and that the pipeline implements      *)
(* CommandDelivery.                                                        *)
(***************************************************************************)
EXTENDS CommandPipeline, SequenceTheorems, TLAPS

(***************************************************************************)
(* Type correctness.                                                       *)
(***************************************************************************)

\* A prefix of a sequence is a sequence of the same elements.
LEMMA PrefixType ==
    ASSUME NEW S, NEW q \in Seq(S), NEW n \in 0..Len(q)
    PROVE  /\ Prefix(q, n) \in Seq(S)
           /\ Len(Prefix(q, n)) = n
           /\ \A i \in 1..n : Prefix(q, n)[i] = q[i]
<1>1. \A i \in 1..n : q[i] \in S
  OBVIOUS
<1>2. n \in Int /\ 1 \in Int
  OBVIOUS
<1>3. /\ SubSeq(q, 1, n) \in Seq(S)
      /\ Len(SubSeq(q, 1, n)) = IF 1 <= n THEN n - 1 + 1 ELSE 0
      /\ \A i \in 1..(n - 1 + 1) : SubSeq(q, 1, n)[i] = q[1 + i - 1]
  BY <1>1, <1>2, SubSeqProperties
<1>. QED  BY <1>3 DEF Prefix

\* What a status update leaves behind.
LEMMA WriteStatusType ==
    ASSUME TypeOK, NEW c \in Commands, NEW v \in Statuses, WriteStatus(c, v)
    PROVE  /\ status' \in [Commands -> Statuses]
           /\ storeFaults' \in 0..MaxStoreFault
           /\ crashes' = crashes
<1>1. status \in [Commands -> Statuses] /\ storeFaults \in 0..MaxStoreFault /\ MaxStoreFault \in Nat
  BY BoundsAssumption DEF TypeOK
<1>2. CASE status' = [status EXCEPT ![c] = v] /\ UNCHANGED <<crashes, storeFaults>>
  BY <1>1, <1>2
<1>3. CASE /\ storeFaults < MaxStoreFault
           /\ storeFaults' = storeFaults + 1
           /\ UNCHANGED <<status, crashes>>
  BY <1>1, <1>3
<1>. QED  BY <1>2, <1>3 DEF WriteStatus

\* What the end of a stream leaves of it.
LEMMA CutUpType ==
    ASSUME TypeOK, NEW s \in Sessions, CutUp(s)
    PROVE  /\ link' \in [Sessions -> {"up", "cut"}]
           /\ up' \in [Sessions -> Seq(Results)]
<1>1. PICK n \in 0..Len(up[s]) : up' = [up EXCEPT ![s] = Prefix(@, n)]
  BY DEF CutUp
<1>2. Prefix(up[s], n) \in Seq(Results)
  BY PrefixType DEF TypeOK
<1>. QED  BY <1>1, <1>2 DEF TypeOK, CutUp

LEMMA CloseStreamType ==
    ASSUME TypeOK, NEW s \in Sessions, CloseStream(s)
    PROVE  /\ link' \in [Sessions -> {"up", "cut"}]
           /\ up' \in [Sessions -> Seq(Results)]
           /\ down' \in [Sessions -> Seq(Commands)]
<1>1. down \in [Sessions -> Seq(Commands)] /\ <<>> \in Seq(Commands)
  BY DEF TypeOK
<1>2. down' \in [Sessions -> Seq(Commands)]
  BY <1>1 DEF CloseStream
<1>. QED  BY <1>2, CutUpType DEF CloseStream

\* What a report leaves on the stream.
LEMMA ReportType ==
    ASSUME TypeOK, NEW s \in Sessions, NEW c \in Commands,
           NEW o \in {"Executing", "Completed", "Failed"}, Report(s, c, o)
    PROVE  up' \in [Sessions -> Seq(Results)]
<1>1. [cmd |-> c, status |-> o] \in Results
  BY DEF Results
<1>. QED  BY <1>1 DEF TypeOK, Report

\* The initial state is well typed.
LEMMA InitTypeOK == Init => TypeOK
BY BoundsAssumption DEF Init, TypeOK, Sessions, Statuses

\* Every step keeps the types.
LEMMA NextTypeOK == TypeOK /\ [Next]_vars => TypeOK'
<1>. SUFFICES ASSUME TypeOK, [Next]_vars PROVE TypeOK'
  OBVIOUS
<1>. USE DEF TypeOK, sessionVars, consumerVars, callVars, storeVars, linkVars, clientVars, historyVars
<1>1. ASSUME NEW c \in Commands, SendOffline(c) PROVE TypeOK'
  BY <1>1 DEF SendOffline, Reply
<1>2. ASSUME NEW c \in Commands, SendSave(c) PROVE TypeOK'
  <2>1. latest \in 0..MaxSession /\ "Pending" \in Statuses /\ WriteStatus(c, "Pending")
    BY <1>2 DEF SendSave, Statuses
  <2>. QED  BY <1>2, <2>1, WriteStatusType DEF SendSave, Reply
<1>3. ASSUME NEW c \in Commands, SendEnqueue(c) PROVE TypeOK'
  <2>1. \A s \in Sessions : Append(queue[s], c) \in Seq(Commands) /\ Append(accepted[s], c) \in Seq(Commands)
    OBVIOUS
  <2>2. queue' \in [Sessions -> Seq(Commands)] /\ accepted' \in [Sessions -> Seq(Commands)]
    BY <1>3, <2>1 DEF SendEnqueue
  <2>. QED  BY <1>3, <2>2 DEF SendEnqueue, Reply
<1>4. ASSUME NEW c \in Commands, SendFull(c) PROVE TypeOK'
  <2>1. "Failed" \in Statuses /\ WriteStatus(c, "Failed")
    BY <1>4 DEF SendFull, Statuses
  <2>. QED  BY <1>4, <2>1, WriteStatusType DEF SendFull, Reply
<1>5. ASSUME NEW c \in Commands, Timeout(c) PROVE TypeOK'
  <2>1. CASE WriteStatus(c, "Timeout")
    <3>1. "Timeout" \in Statuses
      BY DEF Statuses
    <3>. QED  BY <1>5, <2>1, <3>1, WriteStatusType DEF Timeout
  <2>2. CASE UNCHANGED storeVars
    BY <1>5, <2>2 DEF Timeout
  <2>. QED  BY <1>5, <2>1, <2>2 DEF Timeout
<1>6. ASSUME NEW s \in Sessions, Dequeue(s) PROVE TypeOK'
  <2>1. queue[s] \in Seq(Commands) /\ Head(queue[s]) \in Commands /\ Tail(queue[s]) \in Seq(Commands)
    BY <1>6, HeadTailProperties DEF Dequeue
  <2>. QED  BY <1>6, <2>1 DEF Dequeue
<1>7. ASSUME NEW s \in Sessions, SendOK(s) PROVE TypeOK'
  <2>1. held[s] \in Commands /\ Transmit(s) \in Seq(Commands)
    BY <1>7 DEF SendOK, Transmit
  <2>. QED  BY <1>7, <2>1 DEF SendOK
<1>8. ASSUME NEW s \in Sessions, SendFails(s) PROVE TypeOK'
  <2>1. "Failed" \in Statuses /\ WriteStatus(held[s], "Failed") /\ held[s] \in Commands
    BY <1>8 DEF SendFails, Statuses
  <2>. QED  BY <1>8, <2>1, WriteStatusType DEF SendFails, LoopOn
<1>9. ASSUME NEW s \in Sessions, MarkSent(s) PROVE TypeOK'
  <2>1. "Sent" \in Statuses /\ WriteStatus(held[s], "Sent") /\ held[s] \in Commands
    BY <1>9 DEF MarkSent, Statuses
  <2>. QED  BY <1>9, <2>1, WriteStatusType DEF MarkSent, LoopOn, Watch
<1>10. ASSUME NEW s \in Sessions, ConsumerExit(s) PROVE TypeOK'
  BY <1>10 DEF ConsumerExit
<1>11. ASSUME NEW s \in Sessions, OpenChannel(s) PROVE TypeOK'
  BY <1>11 DEF OpenChannel
<1>12. ASSUME NEW s \in Sessions, HandleResult(s) PROVE TypeOK'
  <2>1. up[s] \in Seq(Results) /\ Head(up[s]) \in Results /\ Tail(up[s]) \in Seq(Results)
    BY <1>12, HeadTailProperties DEF HandleResult
  <2>2. Head(up[s]).cmd \in Commands /\ Head(up[s]).status \in Statuses
    BY <2>1 DEF Results, Statuses
  <2>3. up' \in [Sessions -> Seq(Results)]
    BY <1>12, <2>1 DEF HandleResult
  <2>4. status' \in [Commands -> Statuses] /\ crashes' = crashes /\ storeFaults' \in 0..MaxStoreFault
    BY <1>12, <2>2, WriteStatusType DEF HandleResult
  <2>5. UNCHANGED <<sessionVars, consumerVars, watcher, callVars, link, down, clientVars, historyVars>>
    BY <1>12 DEF HandleResult
  <2>. QED  BY <2>3, <2>4, <2>5
<1>13. ASSUME NEW s \in Sessions, Heartbeat(s) \/ HeartbeatExpires(s) PROVE TypeOK'
  <2>1. online' \in [Sessions -> BOOLEAN]
    BY <1>13 DEF Heartbeat, HeartbeatExpires, SetOnline
  <2>2. UNCHANGED <<latest, channel, kicked, consumerVars, watcher, callVars, storeVars, linkVars,
                    clientVars, historyVars>>
    BY <1>13 DEF Heartbeat, HeartbeatExpires, SetOnline
  <2>. QED  BY <2>1, <2>2
<1>14. ASSUME NEW s \in Sessions, Kick(s) PROVE TypeOK'
  BY <1>14 DEF Kick
<1>15. ASSUME NEW s \in Sessions, ChannelLoopEnds(s) PROVE TypeOK'
  BY <1>15 DEF ChannelLoopEnds
<1>16. ASSUME NEW s \in Sessions, ChannelReturns(s) PROVE TypeOK'
  BY <1>16 DEF ChannelReturns
<1>17. ASSUME NEW s \in Sessions, Receive(s) PROVE TypeOK'
  <2>1. down[s] \in Seq(Commands) /\ Head(down[s]) \in Commands /\ Tail(down[s]) \in Seq(Commands)
    BY <1>17, HeadTailProperties DEF Receive
  <2>2. up' \in [Sessions -> Seq(Results)]
    BY <1>17, <2>1, ReportType DEF Receive
  <2>3. Append(started[s], Head(down[s])) \in Seq(Commands)
    BY <2>1
  <2>4. started' \in [Sessions -> Seq(Commands)] /\ down' \in [Sessions -> Seq(Commands)]
    BY <1>17, <2>1, <2>3 DEF Receive
  <2>. QED  BY <1>17, <2>1, <2>2, <2>4 DEF Receive
<1>18. ASSUME NEW s \in Sessions, NEW o \in {"Completed", "Failed"}, Finish(s, o)
       PROVE  /\ current \in Commands
              /\ up' \in [Sessions -> Seq(Results)]
              /\ outcome' \in [Commands -> {"None", "Completed", "Failed"}]
  BY <1>18, ReportType DEF Finish, Working
<1>19. ASSUME NEW s \in Sessions, NEW o \in {"Completed", "Failed"}, FinishWork(s, o) PROVE TypeOK'
  BY <1>18, <1>19 DEF FinishWork, Finish
<1>20. ASSUME NEW s \in Sessions, FinishExit(s) PROVE TypeOK'
  BY <1>18, <1>20 DEF FinishExit, Finish
<1>21. ASSUME NEW s \in Sessions, Teardown(s) PROVE TypeOK'
  <2>1. /\ link' \in [Sessions -> {"up", "cut"}]
        /\ up' \in [Sessions -> Seq(Results)]
        /\ down' \in [Sessions -> Seq(Commands)]
    BY <1>21, CloseStreamType DEF Teardown
  <2>. QED  BY <1>21, <2>1 DEF Teardown
<1>22. ASSUME NEW s \in Sessions, ClientKicked(s) \/ OutputHeld(s) PROVE TypeOK'
  <2>1. CASE ClientKicked(s)
    BY <2>1 DEF ClientKicked, Sessions
  <2>2. CASE OutputHeld(s)
    BY <2>2 DEF OutputHeld
  <2>. QED  BY <1>22, <2>1, <2>2
<1>23. ASSUME NEW s \in Sessions, ClientBroken(s) PROVE TypeOK'
  <2>1. <<>> \in Seq(Commands)
    OBVIOUS
  <2>2. down' \in [Sessions -> Seq(Commands)]
    BY <1>23, <2>1 DEF ClientBroken
  <2>. QED  BY <1>23, <2>2 DEF ClientBroken
<1>24. ASSUME NEW s \in Sessions, NetworkLoss(s) PROVE TypeOK'
  <2>1. CutUp(s)
    BY <1>24 DEF NetworkLoss
  <2>2. PICK n \in 0..Len(down[s]) : down' = [down EXCEPT ![s] = Prefix(@, n)]
    BY <1>24 DEF NetworkLoss
  <2>3. Prefix(down[s], n) \in Seq(Commands)
    BY PrefixType
  <2>4. /\ link' \in [Sessions -> {"up", "cut"}]
        /\ up' \in [Sessions -> Seq(Results)]
    BY <2>1, CutUpType
  <2>5. down' \in [Sessions -> Seq(Commands)]
    BY <2>2, <2>3
  <2>. QED  BY <1>24, <2>4, <2>5 DEF NetworkLoss
<1>25. ASSUME NEW s \in Sessions, ClientCrash(s) PROVE TypeOK'
  <2>1. /\ link' \in [Sessions -> {"up", "cut"}]
        /\ up' \in [Sessions -> Seq(Results)]
        /\ down' \in [Sessions -> Seq(Commands)]
    BY <1>25, CloseStreamType DEF ClientCrash
  <2>. QED  BY <1>25, <2>1 DEF ClientCrash
<1>26. CASE Register
  <2>1. latest' \in 0..MaxSession /\ session' \in 0..MaxSession
    BY <1>26, BoundsAssumption DEF Register
  <2>2. <<>> \in Seq(Commands)
    OBVIOUS
  <2>3. queue' \in [Sessions -> Seq(Commands)]
    BY <1>26, <2>2 DEF Register, NewQueue
  <2>. QED  BY <1>26, <2>1, <2>3 DEF Register
<1>27. CASE ServerCrash
  <2>1. latest \in Sessions
    BY <1>27, BoundsAssumption DEF ServerCrash, Sessions
  <2>2. PICK n \in 0..Len(down[latest]) :
            down' = [s \in Sessions |-> IF s = latest THEN Prefix(down[s], n) ELSE down[s]]
    BY <1>27 DEF ServerCrash
  <2>3. down' \in [Sessions -> Seq(Commands)]
    BY <2>1, <2>2, PrefixType
  <2>4. crashes' \in 0..MaxCrash
    BY <1>27, BoundsAssumption DEF ServerCrash
  <2>. QED  BY <1>27, <2>3, <2>4 DEF ServerCrash
<1>28. CASE UNCHANGED vars
  BY <1>28 DEF vars
<1>. QED
  BY <1>1, <1>2, <1>3, <1>4, <1>5, <1>6, <1>7, <1>8, <1>9, <1>10, <1>11, <1>12, <1>13, <1>14, <1>15,
     <1>16, <1>17, <1>19, <1>20, <1>21, <1>22, <1>23, <1>24, <1>25, <1>26, <1>27, <1>28 DEF Next

\* Every variable keeps its type, and a consumer that is sending or marking, and a
\* client that is running or flushing, hold a command.
THEOREM PipelineTypeOK == Spec => []TypeOK
BY InitTypeOK, NextTypeOK, PTL DEF Spec

(***************************************************************************)
(* Order.  What reached the client of a session or is on its stream is a   *)
(* prefix of what was accepted for it; while the stream is up, the rest is *)
(* exactly what its consumer holds unsent and what its queue holds.        *)
(***************************************************************************)
Delivered(s) == started[s] \o down[s]
Waiting(s) == InHand(s) \o queue[s]

Ordered(s) ==
    \E rest \in Seq(Commands) :
        /\ accepted[s] = Delivered(s) \o rest
        /\ link[s] = "up" => rest = Waiting(s)

\* A session that is not registered has nothing queued and no consumer, one whose
\* client is still connecting has no consumer, and a call enqueues on a registered one.
Registered ==
    /\ session <= latest
    /\ \A s \in Sessions : s > latest => queue[s] = <<>> /\ consumer[s] = "off"
    /\ client = "connecting" => \A s \in Sessions : s = session => consumer[s] = "off"
    /\ \A c \in Commands : admin[c] = "saved" => target[c] \in 1..latest

OrderInv == Registered /\ \A s \in Sessions : Ordered(s)

\* Concatenation of sequences of commands.
LEMMA ConcatCommands ==
    ASSUME NEW p \in Seq(Commands), NEW q \in Seq(Commands)
    PROVE  /\ p \o q \in Seq(Commands)
           /\ Len(p) \in Nat /\ Len(q) \in Nat
           /\ Len(p \o q) = Len(p) + Len(q)
           /\ \A i \in 1..Len(p) : (p \o q)[i] = p[i]
<1>1. /\ p \o q \in Seq(Commands)
      /\ Len(p \o q) = Len(p) + Len(q)
      /\ \A i \in 1..Len(p) + Len(q) : (p \o q)[i] = IF i <= Len(p) THEN p[i] ELSE q[i - Len(p)]
  BY ConcatProperties
<1>2. Len(p) \in Nat /\ Len(q) \in Nat
  BY LenProperties
<1>. QED  BY <1>1, <1>2

LEMMA Regroup ==
    ASSUME NEW p \in Seq(Commands), NEW q \in Seq(Commands), NEW r \in Seq(Commands)
    PROVE  (p \o q) \o r = p \o (q \o r)
BY ConcatAssociative

\* The parts of a session's flow are sequences of commands.
LEMMA FlowType ==
    ASSUME TypeOK, NEW s \in Sessions
    PROVE  /\ accepted[s] \in Seq(Commands) /\ started[s] \in Seq(Commands)
           /\ down[s] \in Seq(Commands) /\ queue[s] \in Seq(Commands)
           /\ InHand(s) \in Seq(Commands)
           /\ Delivered(s) \in Seq(Commands)
           /\ Waiting(s) \in Seq(Commands)
<1>1. /\ accepted[s] \in Seq(Commands) /\ started[s] \in Seq(Commands)
      /\ down[s] \in Seq(Commands) /\ queue[s] \in Seq(Commands)
  BY DEF TypeOK
<1>2. InHand(s) \in Seq(Commands)
  <2>1. CASE consumer[s] = "send"
    <3>1. held[s] \in Commands
      BY <2>1 DEF TypeOK
    <3>. QED  BY <2>1, <3>1 DEF InHand
  <2>2. CASE consumer[s] # "send"
    BY <2>2 DEF InHand
  <2>. QED  BY <2>1, <2>2
<1>. QED  BY <1>1, <1>2, ConcatProperties DEF Delivered, Waiting

\* The invariant gives both properties: the commands begun are a prefix of those accepted.
LEMMA OrderInvImplies == TypeOK /\ OrderInv => NothingLostWhileUp /\ InOrder
<1>. SUFFICES ASSUME TypeOK, OrderInv, NEW s \in Sessions
     PROVE  /\ link[s] = "up" => accepted[s] = started[s] \o down[s] \o InHand(s) \o queue[s]
            /\ Len(started[s]) <= Len(accepted[s])
            /\ started[s] = Prefix(accepted[s], Len(started[s]))
  BY DEF NothingLostWhileUp, InOrder
<1>1. PICK rest \in Seq(Commands) : /\ accepted[s] = Delivered(s) \o rest
                                    /\ link[s] = "up" => rest = Waiting(s)
  BY DEF OrderInv, Ordered
<1>2. /\ accepted[s] \in Seq(Commands) /\ started[s] \in Seq(Commands)
      /\ down[s] \in Seq(Commands) /\ queue[s] \in Seq(Commands)
      /\ InHand(s) \in Seq(Commands) /\ Delivered(s) \in Seq(Commands)
  BY FlowType
<1>3. link[s] = "up" => accepted[s] = started[s] \o down[s] \o InHand(s) \o queue[s]
  <2>1. (Delivered(s) \o InHand(s)) \o queue[s] = Delivered(s) \o (InHand(s) \o queue[s])
    BY <1>2, Regroup, ZenonT(30)
  <2>. QED  BY <1>1, <2>1, Zenon DEF Delivered, Waiting
<1>4. accepted[s] = started[s] \o (down[s] \o rest) /\ down[s] \o rest \in Seq(Commands)
  <2>1. (started[s] \o down[s]) \o rest = started[s] \o (down[s] \o rest)
    BY <1>1, <1>2, Regroup, ZenonT(30)
  <2>2. down[s] \o rest \in Seq(Commands)
    BY <1>2, ConcatCommands
  <2>. QED  BY <1>1, <2>1, <2>2, Zenon DEF Delivered
<1>. DEFINE later == down[s] \o rest
<1>5. later \in Seq(Commands) /\ accepted[s] = started[s] \o later
  BY <1>4, Zenon
<1>. HIDE DEF later
<1>6. /\ Len(started[s]) \in Nat /\ Len(later) \in Nat
      /\ Len(accepted[s]) = Len(started[s]) + Len(later)
      /\ \A i \in 1..Len(started[s]) : accepted[s][i] = started[s][i]
  BY <1>2, <1>5, ConcatCommands
<1>7. Len(started[s]) \in 0..Len(accepted[s]) /\ Len(started[s]) <= Len(accepted[s])
  BY <1>6
<1>8. started[s] = Prefix(accepted[s], Len(started[s]))
  <2>1. /\ Prefix(accepted[s], Len(started[s])) \in Seq(Commands)
        /\ Len(Prefix(accepted[s], Len(started[s]))) = Len(started[s])
        /\ \A i \in 1..Len(started[s]) : Prefix(accepted[s], Len(started[s]))[i] = accepted[s][i]
    BY <1>2, <1>7, PrefixType
  <2>. QED  BY <1>2, <1>6, <2>1, SeqEqual
<1>. QED  BY <1>3, <1>7, <1>8, Zenon

\* Initially nothing is accepted.
LEMMA InitOrderInv == Init => OrderInv
<1>. SUFFICES ASSUME Init PROVE OrderInv
  OBVIOUS
<1>1. TypeOK
  BY InitTypeOK
<1>2. Registered
  BY BoundsAssumption DEF Init, Registered, Sessions
<1>3. ASSUME NEW s \in Sessions PROVE Ordered(s)
  <2>1. <<>> \in Seq(Commands) /\ <<>> \o <<>> = <<>>
    BY ConcatEmptySeq
  <2>. QED  BY <2>1 DEF Init, Ordered, Delivered, Waiting, InHand
<1>. QED  BY <1>2, <1>3 DEF OrderInv

(***************************************************************************)
(* What the kinds of step do to a session's flow.                          *)
(***************************************************************************)

\* A step that moves commands neither between the two parts of the flow nor out of it.
LEMMA KeepFlow ==
    ASSUME NEW s \in Sessions, Ordered(s),
           accepted'[s] = accepted[s], Delivered(s)' = Delivered(s),
           link'[s] = "up" => link[s] = "up" /\ Waiting(s)' = Waiting(s)
    PROVE  Ordered(s)'
BY DEF Ordered

\* A step after which the stream is cut, having kept a prefix of what was on it.
LEMMA CutFlow ==
    ASSUME TypeOK, NEW s \in Sessions, Ordered(s),
           accepted'[s] = accepted[s], started'[s] = started[s], link'[s] # "up",
           NEW n \in 0..Len(down[s]), down'[s] = Prefix(down[s], n)
    PROVE  Ordered(s)'
<1>1. PICK rest \in Seq(Commands) : accepted[s] = Delivered(s) \o rest
  BY DEF Ordered
<1>. DEFINE lost == SubSeq(down[s], n + 1, Len(down[s]))
<1>2. /\ down[s] \in Seq(Commands) /\ started[s] \in Seq(Commands)
      /\ Len(down[s]) \in Nat
  BY FlowType, LenProperties
<1>3. Prefix(down[s], n) \in Seq(Commands) /\ lost \in Seq(Commands)
  BY <1>2, PrefixType, SubSeqProperties
<1>4. down[s] = Prefix(down[s], n) \o lost
  <2>1. /\ 1 \in 1..Len(down[s]) + 1
        /\ n \in 1 - 1..Len(down[s])
        /\ Len(down[s]) \in n..Len(down[s])
    BY <1>2
  <2>2. SubSeq(down[s], 1, n) \o SubSeq(down[s], n + 1, Len(down[s])) = SubSeq(down[s], 1, Len(down[s]))
    BY <1>2, <2>1, ConcatAdjacentSubSeq
  <2>3. SubSeq(down[s], 1, Len(down[s])) = down[s]
    BY <1>2, SubSeqFull
  <2>. QED  BY <2>2, <2>3 DEF Prefix
<1>. DEFINE kept == Prefix(down[s], n)
<1>. HIDE DEF lost, kept
<1>5. kept \in Seq(Commands) /\ lost \in Seq(Commands) /\ down[s] = kept \o lost /\ down'[s] = kept
  BY <1>3, <1>4, Zenon DEF kept
<1>6. started[s] \o kept \in Seq(Commands) /\ lost \o rest \in Seq(Commands)
  BY <1>2, <1>5, ConcatCommands
<1>7. accepted[s] = (started[s] \o kept) \o (lost \o rest)
  <2>1. (started[s] \o kept) \o lost = started[s] \o (kept \o lost)
    BY <1>2, <1>5, Regroup, ZenonT(30)
  <2>2. ((started[s] \o kept) \o lost) \o rest = (started[s] \o kept) \o (lost \o rest)
    BY <1>5, <1>6, Regroup, ZenonT(30)
  <2>. QED  BY <1>1, <1>5, <2>1, <2>2, Zenon DEF Delivered
<1>. QED  BY <1>5, <1>6, <1>7 DEF Ordered, Delivered

\* A step that touches no part of the flow of session s.
LEMMA OtherFlow ==
    ASSUME NEW s \in Sessions, Ordered(s),
           accepted'[s] = accepted[s], started'[s] = started[s], down'[s] = down[s],
           link'[s] = link[s], queue'[s] = queue[s], InHand(s)' = InHand(s)
    PROVE  Ordered(s)'
<1>1. Delivered(s)' = Delivered(s) /\ Waiting(s)' = Waiting(s)
  BY DEF Delivered, Waiting
<1>. QED  BY <1>1, KeepFlow

\* Appending is concatenation, and a queue is its head before its tail.
LEMMA HeadBeforeTail ==
    ASSUME NEW q \in Seq(Commands), q # <<>>
    PROVE  /\ Head(q) \in Commands /\ <<Head(q)>> \in Seq(Commands) /\ Tail(q) \in Seq(Commands)
           /\ q = <<Head(q)>> \o Tail(q)
<1>1. /\ Head(q) \in Commands /\ Tail(q) \in Seq(Commands) /\ Len(q) \in Nat \ {0}
      /\ q = SubSeq(q, 1, Len(q)) /\ Head(q) = q[1] /\ Tail(q) = SubSeq(q, 2, Len(q))
  BY HeadTailProperties, EmptySeq, SubSeqFull, TailIsSubSeq
<1>2. SubSeq(q, 1, Len(q)) = <<q[1]>> \o SubSeq(q, 1 + 1, Len(q))
  BY <1>1, SubSeqRecursiveFirst
<1>. QED  BY <1>1, <1>2

\* SendCommand appends to the queue and to what was accepted.
LEMMA EnqueueFlow ==
    ASSUME TypeOK, NEW s \in Sessions, NEW c \in Commands, Ordered(s),
           accepted'[s] = Append(accepted[s], c), queue'[s] = Append(queue[s], c),
           started'[s] = started[s], down'[s] = down[s], link'[s] = link[s],
           InHand(s)' = InHand(s)
    PROVE  Ordered(s)'
<1>1. PICK rest \in Seq(Commands) : /\ accepted[s] = Delivered(s) \o rest
                                    /\ link[s] = "up" => rest = Waiting(s)
  BY DEF Ordered
<1>2. /\ accepted[s] \in Seq(Commands) /\ queue[s] \in Seq(Commands)
      /\ InHand(s) \in Seq(Commands) /\ Delivered(s) \in Seq(Commands)
      /\ <<c>> \in Seq(Commands)
  BY FlowType
<1>3. accepted'[s] = accepted[s] \o <<c>> /\ queue'[s] = queue[s] \o <<c>>
  BY <1>2, AppendIsConcat
<1>4. accepted'[s] = Delivered(s)' \o (rest \o <<c>>) /\ rest \o <<c>> \in Seq(Commands)
  <2>1. (Delivered(s) \o rest) \o <<c>> = Delivered(s) \o (rest \o <<c>>)
    BY <1>1, <1>2, Regroup, ZenonT(30)
  <2>2. rest \o <<c>> \in Seq(Commands)
    BY <1>2, ConcatCommands
  <2>. QED  BY <1>1, <1>3, <2>1, <2>2 DEF Delivered
<1>5. link'[s] = "up" => rest \o <<c>> = Waiting(s)'
  <2>1. (InHand(s) \o queue[s]) \o <<c>> = InHand(s) \o (queue[s] \o <<c>>)
    BY <1>2, Regroup, ZenonT(30)
  <2>. QED  BY <1>1, <1>3, <2>1 DEF Waiting
<1>. QED  BY <1>4, <1>5 DEF Ordered

\* The consumer puts the command it holds on a stream that is up.
LEMMA TransmitFlow ==
    ASSUME TypeOK, NEW s \in Sessions, Ordered(s), link[s] = "up", consumer[s] = "send",
           accepted'[s] = accepted[s], started'[s] = started[s], queue'[s] = queue[s],
           down'[s] = Append(down[s], held[s]), InHand(s)' = <<>>
    PROVE  Ordered(s)'
<1>1. accepted[s] = Delivered(s) \o (<<held[s]>> \o queue[s])
  BY DEF Ordered, Waiting, InHand
<1>2. held[s] \in Commands
  BY DEF TypeOK
<1>3. /\ queue[s] \in Seq(Commands) /\ Delivered(s) \in Seq(Commands) /\ <<held[s]>> \in Seq(Commands)
      /\ started[s] \in Seq(Commands) /\ down[s] \in Seq(Commands)
  BY <1>2, FlowType
<1>4. Delivered(s)' = Delivered(s) \o <<held[s]>>
  <2>1. down'[s] = down[s] \o <<held[s]>>
    BY <1>2, <1>3, AppendIsConcat
  <2>2. (started[s] \o down[s]) \o <<held[s]>> = started[s] \o (down[s] \o <<held[s]>>)
    BY <1>3, Regroup, ZenonT(30)
  <2>. QED  BY <2>1, <2>2 DEF Delivered
<1>5. accepted'[s] = Delivered(s)' \o queue[s]
  <2>1. (Delivered(s) \o <<held[s]>>) \o queue[s] = Delivered(s) \o (<<held[s]>> \o queue[s])
    BY <1>3, Regroup, ZenonT(30)
  <2>. QED  BY <1>1, <1>4, <2>1
<1>6. Waiting(s)' = queue[s]
  BY <1>3, ConcatEmptySeq DEF Waiting
<1>. QED  BY <1>3, <1>5, <1>6 DEF Ordered

\* The client takes the oldest command off its stream.
LEMMA ReceiveFlow ==
    ASSUME TypeOK, NEW s \in Sessions, Ordered(s), down[s] # <<>>,
           accepted'[s] = accepted[s], link'[s] = link[s], queue'[s] = queue[s],
           InHand(s)' = InHand(s),
           started'[s] = Append(started[s], Head(down[s])), down'[s] = Tail(down[s])
    PROVE  Ordered(s)'
<1>1. /\ started[s] \in Seq(Commands) /\ down[s] \in Seq(Commands)
      /\ Head(down[s]) \in Commands /\ <<Head(down[s])>> \in Seq(Commands)
      /\ Tail(down[s]) \in Seq(Commands)
      /\ down[s] = <<Head(down[s])>> \o Tail(down[s])
  BY FlowType, HeadBeforeTail
<1>2. started'[s] = started[s] \o <<Head(down[s])>>
  BY <1>1, AppendIsConcat
<1>3. (started[s] \o <<Head(down[s])>>) \o Tail(down[s]) = started[s] \o (<<Head(down[s])>> \o Tail(down[s]))
  BY <1>1, Regroup, ZenonT(30)
<1>4. Delivered(s)' = Delivered(s)
  BY <1>1, <1>2, <1>3 DEF Delivered
<1>5. Waiting(s)' = Waiting(s)
  BY DEF Waiting
<1>. QED  BY <1>4, <1>5, KeepFlow

(***************************************************************************)
(* Every step keeps OrderInv.                                              *)
(***************************************************************************)

\* Only Register makes a session, and its queue and consumer are new.
LEMMA NextRegistered == TypeOK /\ Registered /\ [Next]_vars => Registered'
<1>. SUFFICES ASSUME TypeOK, Registered, [Next]_vars PROVE Registered'
  OBVIOUS
<1>. USE DEF Registered, sessionVars, consumerVars, callVars, storeVars, linkVars, clientVars, historyVars
<1>1. ASSUME NEW c \in Commands, SendOffline(c) \/ SendFull(c) \/ Timeout(c) PROVE Registered'
  BY <1>1 DEF TypeOK, SendOffline, SendFull, Timeout, Reply
<1>2. ASSUME NEW c \in Commands, SendSave(c) PROVE Registered'
  <2>1. latest \in Sessions /\ latest \in 1..latest
    BY <1>2, BoundsAssumption DEF SendSave, Sessions
  <2>. QED  BY <1>2, <2>1 DEF TypeOK, SendSave, Reply
<1>3. ASSUME NEW c \in Commands, SendEnqueue(c) PROVE Registered'
  <2>1. target[c] \in 1..latest /\ latest \in 0..MaxSession
    BY <1>3 DEF TypeOK, SendEnqueue
  <2>2. \A s \in Sessions : s > latest => queue'[s] = queue[s]
    BY <1>3, <2>1, BoundsAssumption DEF TypeOK, SendEnqueue, Sessions
  <2>. QED  BY <1>3, <2>2 DEF TypeOK, SendEnqueue, Reply
<1>4. ASSUME NEW s \in Sessions,
             Dequeue(s) \/ SendOK(s) \/ SendFails(s) \/ MarkSent(s) \/ ConsumerExit(s)
      PROVE  Registered'
  <2>1. consumer[s] # "off" /\ UNCHANGED <<session, latest, client, admin, target>>
    BY <1>4 DEF Dequeue, SendOK, SendFails, MarkSent, ConsumerExit
  <2>2. \A u \in Sessions : u # s => consumer'[u] = consumer[u] /\ queue'[u] = queue[u]
    BY <1>4 DEF TypeOK, Dequeue, SendOK, SendFails, MarkSent, ConsumerExit, LoopOn
  <2>. QED  BY <2>1, <2>2
<1>5. ASSUME NEW s \in Sessions, OpenChannel(s) PROVE Registered'
  BY <1>5, BoundsAssumption DEF TypeOK, OpenChannel, Sessions
<1>6. ASSUME NEW s \in Sessions,
             \/ HandleResult(s) \/ Heartbeat(s) \/ HeartbeatExpires(s) \/ Kick(s)
             \/ ChannelLoopEnds(s) \/ ChannelReturns(s)
      PROVE  Registered'
  BY <1>6 DEF HandleResult, Heartbeat, HeartbeatExpires, SetOnline, Kick, ChannelLoopEnds, ChannelReturns
<1>7. ASSUME NEW s \in Sessions,
             \/ Receive(s) \/ OutputHeld(s) \/ (\E o \in {"Completed", "Failed"} : FinishWork(s, o)) \/ FinishExit(s)
             \/ Teardown(s) \/ ClientKicked(s) \/ ClientBroken(s) \/ NetworkLoss(s) \/ ClientCrash(s)
      PROVE  Registered'
  BY <1>7 DEF Receive, OutputHeld, FinishWork, FinishExit, Finish, Teardown, ClientKicked, ClientBroken,
              NetworkLoss, ClientCrash
<1>8. CASE Register
  <2>1. latest \in 0..MaxSession /\ latest + 1 \in Sessions
    BY <1>8, BoundsAssumption DEF TypeOK, Register, Sessions
  <2>2. queue'[latest + 1] = <<>> /\ consumer'[latest + 1] = "off"
    BY <1>8, <2>1 DEF TypeOK, Register, NewQueue
  <2>3. \A s \in Sessions : s > latest + 1 => queue'[s] = <<>> /\ consumer'[s] = "off"
    <3>. SUFFICES ASSUME NEW s \in Sessions, s > latest + 1
                  PROVE  queue'[s] = <<>> /\ consumer'[s] = "off"
      OBVIOUS
    <3>1. s \in Nat /\ s # latest + 1 /\ s > latest
      BY <2>1, BoundsAssumption DEF Sessions
    <3>. QED  BY <1>8, <3>1 DEF TypeOK, Register
  <2>4. \A c \in Commands : admin'[c] = "saved" => target'[c] \in 1..latest'
    BY <1>8, <2>1 DEF Register
  <2>. QED  BY <1>8, <2>1, <2>2, <2>3, <2>4 DEF Register
<1>9. CASE ServerCrash
  BY <1>9 DEF TypeOK, ServerCrash
<1>10. CASE UNCHANGED vars
  BY <1>10 DEF vars
<1>. QED  BY <1>1, <1>2, <1>3, <1>4, <1>5, <1>6, <1>7, <1>8, <1>9, <1>10 DEF Next

\* The parts of the flow of every session.
flowVars == <<accepted, started, down, link, queue, consumer, held>>

\* Every step keeps the flow of every session in order.
LEMMA NextOrdered ==
    ASSUME TypeOK, OrderInv, [Next]_vars, NEW t \in Sessions
    PROVE  Ordered(t)'
<1>. USE DEF sessionVars, consumerVars, callVars, storeVars, linkVars, clientVars, historyVars
<1>1. Registered /\ Ordered(t) /\ \A s \in Sessions : Ordered(s)
  BY DEF OrderInv
<1>2. CASE UNCHANGED flowVars
  BY <1>1, <1>2, OtherFlow DEF flowVars, InHand
<1>3. ASSUME NEW c \in Commands, SendOffline(c) \/ SendSave(c) \/ SendFull(c) \/ Timeout(c)
      PROVE  UNCHANGED flowVars
  BY <1>3 DEF SendOffline, SendSave, SendFull, Timeout, flowVars
<1>4. ASSUME NEW s \in Sessions,
             \/ HandleResult(s) \/ Heartbeat(s) \/ HeartbeatExpires(s) \/ Kick(s)
             \/ ChannelLoopEnds(s) \/ ChannelReturns(s) \/ ClientKicked(s)
             \/ OutputHeld(s) \/ (\E o \in {"Completed", "Failed"} : FinishWork(s, o)) \/ FinishExit(s)
      PROVE  UNCHANGED flowVars
  BY <1>4 DEF HandleResult, Heartbeat, HeartbeatExpires, SetOnline, Kick, ChannelLoopEnds,
              ChannelReturns, ClientKicked, OutputHeld, FinishWork, FinishExit, Finish, flowVars
<1>5. ASSUME NEW c \in Commands, SendEnqueue(c) PROVE Ordered(t)'
  <2>1. UNCHANGED <<started, down, link, consumer, held>>
    BY <1>5 DEF SendEnqueue
  <2>2. InHand(t)' = InHand(t)
    BY <2>1 DEF InHand
  <2>3. CASE t = target[c]
    <3>1. accepted'[t] = Append(accepted[t], c) /\ queue'[t] = Append(queue[t], c)
      BY <1>5, <2>3 DEF TypeOK, SendEnqueue
    <3>. QED  BY <1>1, <2>1, <2>2, <3>1, EnqueueFlow
  <2>4. CASE t # target[c]
    <3>1. accepted'[t] = accepted[t] /\ queue'[t] = queue[t]
      BY <1>5, <2>4 DEF TypeOK, SendEnqueue
    <3>. QED  BY <1>1, <2>1, <2>2, <3>1, OtherFlow
  <2>. QED  BY <2>3, <2>4
<1>6. ASSUME NEW s \in Sessions, Dequeue(s) PROVE Ordered(t)'
  <2>1. UNCHANGED <<accepted, started, down, link>>
    BY <1>6 DEF Dequeue
  <2>2. CASE t = s
    <3>1. queue[t] \in Seq(Commands) /\ queue[t] # <<>>
      BY <1>6, <2>2 DEF TypeOK, Dequeue
    <3>2. queue[t] = <<Head(queue[t])>> \o Tail(queue[t])
      BY <3>1, HeadBeforeTail
    <3>3. Waiting(t) = queue[t]
      BY <1>6, <2>2, <3>1, ConcatEmptySeq DEF Waiting, InHand, Dequeue
    <3>4. InHand(t)' = <<Head(queue[t])>> /\ queue'[t] = Tail(queue[t])
      BY <1>6, <2>2 DEF TypeOK, InHand, Dequeue
    <3>5. Waiting(t)' = Waiting(t)
      BY <3>2, <3>3, <3>4 DEF Waiting
    <3>6. Delivered(t)' = Delivered(t)
      BY <2>1 DEF Delivered
    <3>. QED  BY <1>1, <2>1, <3>5, <3>6, KeepFlow
  <2>3. CASE t # s
    <3>1. queue'[t] = queue[t] /\ InHand(t)' = InHand(t)
      BY <1>6, <2>3 DEF TypeOK, Dequeue, InHand
    <3>. QED  BY <1>1, <2>1, <3>1, OtherFlow
  <2>. QED  BY <2>2, <2>3
<1>7. ASSUME NEW s \in Sessions, SendOK(s) PROVE Ordered(t)'
  <2>1. UNCHANGED <<accepted, started, link, queue, held>>
    BY <1>7 DEF SendOK
  <2>2. CASE t = s /\ link[t] = "up"
    <3>1. consumer[t] = "send" /\ down'[t] = Append(down[t], held[t]) /\ InHand(t)' = <<>>
      BY <1>7, <2>2 DEF TypeOK, SendOK, Transmit, InHand
    <3>. QED  BY <1>1, <2>1, <2>2, <3>1, TransmitFlow
  <2>3. CASE t = s /\ link[t] # "up"
    <3>1. down'[t] = down[t]
      BY <1>7, <2>3 DEF TypeOK, SendOK, Transmit
    <3>2. Delivered(t)' = Delivered(t)
      BY <2>1, <3>1 DEF Delivered
    <3>. QED  BY <1>1, <2>1, <2>3, <3>2, KeepFlow
  <2>4. CASE t # s
    <3>1. down'[t] = down[t] /\ InHand(t)' = InHand(t)
      BY <1>7, <2>1, <2>4 DEF TypeOK, SendOK, InHand
    <3>. QED  BY <1>1, <2>1, <3>1, OtherFlow
  <2>. QED  BY <2>2, <2>3, <2>4
<1>8. ASSUME NEW s \in Sessions, SendFails(s) PROVE Ordered(t)'
  <2>1. UNCHANGED <<accepted, started, down, link, queue>> /\ link[s] # "up"
    BY <1>8 DEF SendFails
  <2>2. CASE t = s
    <3>1. Delivered(t)' = Delivered(t)
      BY <2>1 DEF Delivered
    <3>. QED  BY <1>1, <2>1, <2>2, <3>1, KeepFlow
  <2>3. CASE t # s
    <3>1. InHand(t)' = InHand(t)
      BY <1>8, <2>3 DEF TypeOK, SendFails, LoopOn, InHand
    <3>. QED  BY <1>1, <2>1, <3>1, OtherFlow
  <2>. QED  BY <2>2, <2>3
<1>9. ASSUME NEW s \in Sessions, MarkSent(s) \/ ConsumerExit(s) \/ OpenChannel(s) PROVE Ordered(t)'
  <2>1. UNCHANGED <<accepted, started, down, link, queue>>
    BY <1>9 DEF MarkSent, ConsumerExit, OpenChannel
  <2>2. consumer[s] # "send"
    BY <1>1, <1>9 DEF MarkSent, ConsumerExit, OpenChannel, Registered
  <2>3. InHand(t)' = InHand(t)
    BY <1>9, <2>2 DEF TypeOK, MarkSent, ConsumerExit, OpenChannel, LoopOn, InHand
  <2>. QED  BY <1>1, <2>1, <2>3, OtherFlow
<1>10. ASSUME NEW s \in Sessions, Receive(s) PROVE Ordered(t)'
  <2>1. UNCHANGED <<accepted, link, queue, consumer, held>>
    BY <1>10 DEF Receive
  <2>2. InHand(t)' = InHand(t)
    BY <2>1 DEF InHand
  <2>3. CASE t = s
    <3>1. /\ down[t] # <<>>
          /\ started'[t] = Append(started[t], Head(down[t]))
          /\ down'[t] = Tail(down[t])
      BY <1>10, <2>3 DEF TypeOK, Receive
    <3>. QED  BY <1>1, <2>1, <2>2, <3>1, ReceiveFlow
  <2>4. CASE t # s
    <3>1. started'[t] = started[t] /\ down'[t] = down[t]
      BY <1>10, <2>4 DEF TypeOK, Receive
    <3>. QED  BY <1>1, <2>1, <2>2, <3>1, OtherFlow
  <2>. QED  BY <2>3, <2>4
<1>11. ASSUME NEW s \in Sessions, Teardown(s) \/ ClientBroken(s) \/ NetworkLoss(s) \/ ClientCrash(s)
       PROVE  Ordered(t)'
  <2>1. UNCHANGED <<accepted, started, queue, consumer, held>>
    BY <1>11 DEF Teardown, ClientBroken, NetworkLoss, ClientCrash
  <2>2. /\ link'[s] # "up"
        /\ \E n \in 0..Len(down[s]) : down'[s] = Prefix(down[s], n)
        /\ t # s => link'[t] = link[t] /\ down'[t] = down[t]
    <3>1. down[s] \in Seq(Commands) /\ Len(down[s]) \in Nat
      BY LenProperties DEF TypeOK
    <3>2. 0 \in 0..Len(down[s]) /\ Prefix(down[s], 0) = <<>>
      BY <3>1, SubSeqEmpty DEF Prefix
    <3>3. CASE Teardown(s) \/ ClientCrash(s)
      BY <3>2, <3>3 DEF TypeOK, Teardown, ClientCrash, CloseStream, CutUp
    <3>4. CASE ClientBroken(s)
      BY <3>2, <3>4 DEF TypeOK, ClientBroken
    <3>5. CASE NetworkLoss(s)
      BY <3>5 DEF TypeOK, NetworkLoss, CutUp
    <3>. QED  BY <1>11, <3>3, <3>4, <3>5
  <2>3. CASE t = s
    BY <1>1, <2>1, <2>2, <2>3, CutFlow
  <2>4. CASE t # s
    <3>1. InHand(t)' = InHand(t)
      BY <2>1 DEF InHand
    <3>. QED  BY <1>1, <2>1, <2>2, <2>4, <3>1, OtherFlow
  <2>. QED  BY <2>3, <2>4
<1>12. CASE Register
  <2>1. UNCHANGED <<accepted, started, down, link, consumer, held>>
    BY <1>12 DEF Register
  <2>2. latest \in 0..MaxSession /\ latest + 1 \in Sessions
    BY <1>12, BoundsAssumption DEF TypeOK, Register, Sessions
  <2>3. queue[latest + 1] = <<>>
    BY <1>1, <2>2 DEF Registered
  <2>4. queue'[t] = queue[t]
    BY <1>12, <2>2, <2>3 DEF TypeOK, Register, NewQueue
  <2>5. InHand(t)' = InHand(t)
    BY <2>1 DEF InHand
  <2>. QED  BY <1>1, <2>1, <2>4, <2>5, OtherFlow
<1>13. CASE ServerCrash
  <2>1. UNCHANGED <<accepted, started>> /\ latest \in 1..MaxSession
    BY <1>13, BoundsAssumption DEF TypeOK, ServerCrash
  <2>2. PICK n \in 0..Len(down[latest]) :
            down' = [s \in Sessions |-> IF s = latest THEN Prefix(down[s], n) ELSE down[s]]
    BY <1>13 DEF ServerCrash
  <2>3. CASE t = latest
    <3>1. link'[t] # "up" /\ down'[t] = Prefix(down[t], n) /\ n \in 0..Len(down[t])
      BY <1>13, <2>1, <2>2, <2>3 DEF ServerCrash
    <3>. QED  BY <1>1, <2>1, <3>1, CutFlow
  <2>4. CASE t < latest
    <3>1. link'[t] # "up" /\ down'[t] = down[t]
      BY <1>13, <2>1, <2>2, <2>4 DEF ServerCrash, Sessions
    <3>2. Delivered(t)' = Delivered(t)
      BY <2>1, <3>1 DEF Delivered
    <3>. QED  BY <1>1, <2>1, <3>1, <3>2, KeepFlow
  <2>5. CASE t > latest
    <3>1. link'[t] = link[t] /\ down'[t] = down[t] /\ queue'[t] = <<>> /\ consumer'[t] = "off"
      BY <1>13, <2>1, <2>2, <2>5 DEF ServerCrash, Sessions
    <3>2. queue[t] = <<>> /\ consumer[t] = "off"
      BY <1>1, <2>5 DEF Registered
    <3>3. InHand(t)' = InHand(t)
      BY <3>1, <3>2 DEF InHand
    <3>. QED  BY <1>1, <2>1, <3>1, <3>2, <3>3, OtherFlow
  <2>. QED  BY <2>1, <2>3, <2>4, <2>5 DEF Sessions
<1>14. CASE UNCHANGED vars
  <2>1. UNCHANGED flowVars
    BY <1>14 DEF vars, flowVars
  <2>. QED  BY <1>2, <2>1
<1>. QED
  BY <1>2, <1>3, <1>4, <1>5, <1>6, <1>7, <1>8, <1>9, <1>10, <1>11, <1>12, <1>13, <1>14 DEF Next

LEMMA PipelineOrderInv == Spec => [](TypeOK /\ OrderInv)
<1>1. Init => TypeOK /\ OrderInv
  BY InitTypeOK, InitOrderInv
<1>2. TypeOK /\ OrderInv /\ [Next]_vars => (TypeOK /\ OrderInv)'
  <2>. SUFFICES ASSUME TypeOK, OrderInv, [Next]_vars PROVE TypeOK' /\ OrderInv'
    OBVIOUS
  <2>1. TypeOK'
    BY NextTypeOK
  <2>2. Registered'
    BY NextRegistered DEF OrderInv
  <2>3. \A s \in Sessions : Ordered(s)'
    BY NextOrdered
  <2>. QED  BY <2>1, <2>2, <2>3 DEF OrderInv
<1>. QED  BY <1>1, <1>2, PTL DEF Spec

\* In every session commands begin in the order in which SendCommand accepted them and
\* none is skipped, whatever is cut, kicked, crashed or restarted.
THEOREM PipelineInOrder == Spec => []InOrder
<1>1. TypeOK /\ OrderInv => InOrder
  BY OrderInvImplies
<1>. QED  BY <1>1, PipelineOrderInv, PTL

\* While a session's stream is up, the commands accepted for it are exactly those that
\* began, those on the stream, the one its consumer holds and those queued, in order.
THEOREM PipelineNothingLost == Spec => []NothingLostWhileUp
<1>1. TypeOK /\ OrderInv => NothingLostWhileUp
  BY OrderInvImplies
<1>. QED  BY <1>1, PipelineOrderInv, PTL

(***************************************************************************)
(* Where a command is.  A command that was accepted waits at one place: in *)
(* the queue of its session or in the hand of the consumer, who has it     *)
(* before, or after, it was put on the stream.                             *)
(***************************************************************************)
Once(q) == \A i, j \in DOMAIN q : q[i] = q[j] => i = j

Busy(s) == consumer[s] \in {"send", "mark"}

\* Not yet marked Sent by the consumer of session s.
Unmarked(c, s) == c \in Elements(queue[s]) \/ (Busy(s) /\ held[s] = c)

\* Not yet sent by the consumer of session s.
Unsent(c, s) == c \in Elements(queue[s]) \/ (consumer[s] = "send" /\ held[s] = c)

\* Of a session, the commands that reached the client or are on the stream.
Gone(c, s) == c \in Elements(started[s]) \/ c \in Elements(down[s])

\* What is accepted for a session are the commands queued for it, each once; a command
\* is queued for a session.
AcceptedOnce ==
    /\ \A s \in Sessions :
          /\ Once(accepted[s])
          /\ \A c \in Commands : c \in Elements(accepted[s]) <=> admin[c] = "queued" /\ target[c] = s
    /\ \A c \in Commands : admin[c] = "queued" => target[c] \in Sessions

\* A command waits once, was not given up on, watched or recorded Sent, and one that is
\* not sent is not on the stream.
WaitsOnce ==
    \A s \in Sessions :
        /\ Once(queue[s])
        /\ Busy(s) => held[s] \notin Elements(queue[s])
        /\ \A c \in Commands :
              /\ Unmarked(c, s) => /\ admin[c] = "queued" /\ target[c] = s
                                   /\ watcher[c] = "off" /\ c \notin refused
                                   /\ status[c] \notin {"Sent", "Timeout"}
              /\ Unsent(c, s) => ~Gone(c, s)

\* A command given up on is on no stream, and a watched one was not given up on.
GivenUp ==
    \A c \in Commands :
        /\ c \in refused => /\ admin[c] \in {"queued", "full"}
                            /\ \A s \in Sessions : ~Gone(c, s)
        /\ watcher[c] # "off" => admin[c] = "queued" /\ c \notin refused

\* A command ends once, after it began, and results tell what happened.
ResultsTruthful ==
    /\ Working => current \in Begun /\ outcome[current] = "None"
    /\ \A c \in Commands : outcome[c] # "None" => c \in Begun
    /\ \A s \in Sessions : \A r \in Elements(up[s]) :
          IF r.status = "Executing" THEN r.cmd \in Begun ELSE outcome[r.cmd] = r.status

PlaceInv == AcceptedOnce /\ WaitsOnce /\ GivenUp /\ ResultsTruthful

(***************************************************************************)
(* Elements of sequences of commands.                                      *)
(***************************************************************************)

\* A sequence with one more command has its elements and that one.
LEMMA AppendElements ==
    ASSUME NEW S, NEW q \in Seq(S), NEW c \in S
    PROVE  /\ Elements(Append(q, c)) = Elements(q) \cup {c}
           /\ Once(q) /\ c \notin Elements(q) => Once(Append(q, c))
<1>1. /\ Append(q, c) \in Seq(S) /\ Len(q) \in Nat
      /\ DOMAIN q = 1..Len(q) /\ DOMAIN Append(q, c) = 1..Len(q) + 1
      /\ \A i \in 1..Len(q) : Append(q, c)[i] = q[i]
      /\ Append(q, c)[Len(q) + 1] = c
  BY AppendProperties, LenProperties
<1>. QED  BY <1>1 DEF Elements, Once

\* A command that is taken off a queue is one of its elements, and none of the rest of
\* a queue without repetitions.
LEMMA TailElements ==
    ASSUME NEW S, NEW q \in Seq(S), q # <<>>
    PROVE  /\ Elements(q) = {Head(q)} \cup Elements(Tail(q))
           /\ Once(q) => Once(Tail(q)) /\ Head(q) \notin Elements(Tail(q))
<1>1. /\ Tail(q) \in Seq(S) /\ Len(q) \in Nat \ {0} /\ Head(q) = q[1]
      /\ DOMAIN q = 1..Len(q) /\ DOMAIN Tail(q) = 1..Len(q) - 1
      /\ \A i \in 1..Len(q) - 1 : Tail(q)[i] = q[i + 1]
  BY HeadTailProperties, LenProperties, EmptySeq
<1>2. \A i \in 1..Len(q) : i = 1 \/ (i - 1 \in 1..Len(q) - 1 /\ q[i] = Tail(q)[i - 1])
  BY <1>1
<1>3. Elements(q) = {Head(q)} \cup Elements(Tail(q))
  <2>1. \A i \in 1..Len(q) - 1 : i + 1 \in 1..Len(q)
    BY <1>1
  <2>2. ASSUME NEW i \in 1..Len(q) PROVE q[i] = Head(q) \/ q[i] \in Elements(Tail(q))
    <3>1. CASE i = 1
      BY <1>1, <3>1
    <3>2. CASE i # 1
      <4>1. i - 1 \in DOMAIN Tail(q) /\ q[i] = Tail(q)[i - 1]
        BY <1>1, <1>2, <3>2
      <4>. QED  BY <4>1 DEF Elements
    <3>. QED  BY <3>1, <3>2
  <2>3. \A c \in Elements(Tail(q)) : c \in Elements(q)
    BY <1>1, <2>1 DEF Elements
  <2>4. Head(q) \in Elements(q)
    BY <1>1 DEF Elements
  <2>5. \A c \in Elements(q) : c = Head(q) \/ c \in Elements(Tail(q))
    BY <1>1, <2>2 DEF Elements
  <2>. QED  BY <2>3, <2>4, <2>5
<1>4. Once(q) => Once(Tail(q)) /\ Head(q) \notin Elements(Tail(q))
  <2>. SUFFICES ASSUME Once(q) PROVE Once(Tail(q)) /\ Head(q) \notin Elements(Tail(q))
    OBVIOUS
  <2>1. \A i \in 1..Len(q) - 1 : i + 1 \in 1..Len(q) /\ i + 1 # 1
    BY <1>1
  <2>. QED  BY <1>1, <2>1 DEF Once, Elements
<1>. QED  BY <1>3, <1>4

\* What is left of a stream was on it.
LEMMA PrefixElements ==
    ASSUME NEW S, NEW q \in Seq(S), NEW n \in 0..Len(q)
    PROVE  Elements(Prefix(q, n)) \subseteq Elements(q)
<1>1. /\ Prefix(q, n) \in Seq(S) /\ Len(Prefix(q, n)) = n /\ Len(q) \in Nat
      /\ \A i \in 1..n : Prefix(q, n)[i] = q[i]
      /\ DOMAIN q = 1..Len(q) /\ DOMAIN Prefix(q, n) = 1..n
  BY PrefixType, LenProperties
<1>. QED  BY <1>1 DEF Elements

\* The parts of a sequence without repetitions have no element in common.
LEMMA ConcatElements ==
    ASSUME NEW p \in Seq(Commands), NEW q \in Seq(Commands)
    PROVE  /\ Elements(p \o q) = Elements(p) \cup Elements(q)
           /\ Once(p \o q) => Elements(p) \cap Elements(q) = {}
<1>1. /\ p \o q \in Seq(Commands) /\ Len(p) \in Nat /\ Len(q) \in Nat
      /\ DOMAIN p = 1..Len(p) /\ DOMAIN q = 1..Len(q) /\ DOMAIN (p \o q) = 1..Len(p) + Len(q)
      /\ \A i \in 1..Len(p) + Len(q) : (p \o q)[i] = IF i <= Len(p) THEN p[i] ELSE q[i - Len(p)]
  BY ConcatProperties, LenProperties
<1>2. \A i \in 1..Len(p) : i \in 1..Len(p) + Len(q) /\ (p \o q)[i] = p[i]
  BY <1>1
<1>3. \A i \in 1..Len(q) : Len(p) + i \in (1..Len(p) + Len(q)) \ (1..Len(p)) /\ (p \o q)[Len(p) + i] = q[i]
  BY <1>1
<1>4. \A i \in 1..Len(p) + Len(q) : \/ i \in 1..Len(p) /\ (p \o q)[i] = p[i]
                                    \/ i - Len(p) \in 1..Len(q) /\ (p \o q)[i] = q[i - Len(p)]
  BY <1>1
<1>5. Elements(p \o q) = Elements(p) \cup Elements(q)
  BY <1>1, <1>2, <1>3, <1>4 DEF Elements
<1>6. Once(p \o q) => Elements(p) \cap Elements(q) = {}
  BY <1>1, <1>2, <1>3 DEF Elements, Once
<1>. QED  BY <1>5, <1>6

LEMMA SequenceElements ==
    ASSUME NEW S, NEW q \in Seq(S)
    PROVE  /\ Elements(q) \subseteq S
           /\ Elements(<<>>) = {} /\ Once(<<>>)
           /\ q # <<>> => Head(q) \in Elements(q)
<1>1. DOMAIN q = 1..Len(q) /\ \A i \in 1..Len(q) : q[i] \in S
  BY LenProperties, ElementOfSeq
<1>2. Elements(<<>>) = {} /\ Once(<<>>)
  BY DEF Elements, Once
<1>. QED  BY <1>1, <1>2, TailElements DEF Elements

\* What is gone to the client was accepted; the next command to begin is the next one
\* accepted, and has not begun.
LEMMA GoneAccepted ==
    ASSUME TypeOK, OrderInv, AcceptedOnce, NEW s \in Sessions
    PROVE  /\ \A c \in Commands : Gone(c, s) => c \in Elements(accepted[s])
           /\ Elements(started[s]) \cap Elements(down[s]) = {}
           /\ down[s] # <<>> => /\ Len(started[s]) < Len(accepted[s])
                                /\ accepted[s][Len(started[s]) + 1] = Head(down[s])
<1>1. PICK rest \in Seq(Commands) : accepted[s] = Delivered(s) \o rest
  BY DEF OrderInv, Ordered
<1>2. /\ accepted[s] \in Seq(Commands) /\ started[s] \in Seq(Commands) /\ down[s] \in Seq(Commands)
      /\ Delivered(s) \in Seq(Commands)
  BY FlowType
<1>3. /\ Elements(accepted[s]) = Elements(Delivered(s)) \cup Elements(rest)
      /\ Elements(Delivered(s)) = Elements(started[s]) \cup Elements(down[s])
  BY <1>1, <1>2, ConcatElements DEF Delivered
<1>4. Once(accepted[s])
  BY DEF AcceptedOnce
<1>5. /\ Len(started[s]) \in Nat /\ Len(down[s]) \in Nat
      /\ Len(Delivered(s)) = Len(started[s]) + Len(down[s])
  BY <1>2, ConcatCommands DEF Delivered
<1>6. /\ Len(rest) \in Nat
      /\ Len(accepted[s]) = Len(Delivered(s)) + Len(rest)
      /\ \A i \in 1..Len(Delivered(s)) : accepted[s][i] = Delivered(s)[i]
  BY <1>1, <1>2, ConcatCommands
<1>7. Once(Delivered(s))
  <2>1. DOMAIN Delivered(s) = 1..Len(Delivered(s)) /\ DOMAIN accepted[s] = 1..Len(accepted[s])
    BY <1>2, LenProperties
  <2>2. ASSUME NEW m \in Nat, NEW n \in Nat, NEW k \in Nat, k = m + n
        PROVE  \A i \in 1..m : i \in 1..k
    BY <2>2
  <2>3. \A i \in 1..Len(Delivered(s)) : i \in 1..Len(accepted[s])
    <3>1. Len(Delivered(s)) \in Nat /\ Len(accepted[s]) \in Nat
      BY <1>2, LenProperties
    <3>. QED  BY <1>6, <2>2, <3>1
  <2>. QED  BY <1>4, <1>6, <2>1, <2>3 DEF Once
<1>8. Elements(started[s]) \cap Elements(down[s]) = {}
  BY <1>2, <1>7, ConcatElements DEF Delivered
<1>9. ASSUME down[s] # <<>>
      PROVE  /\ Len(started[s]) < Len(accepted[s])
             /\ accepted[s][Len(started[s]) + 1] = Head(down[s])
  <2>1. Len(down[s]) \in Nat \ {0} /\ Head(down[s]) = down[s][1]
    BY <1>2, <1>9, EmptySeq, HeadTailProperties
  <2>2. \A i \in 1..Len(started[s]) + Len(down[s]) :
           Delivered(s)[i] = IF i <= Len(started[s]) THEN started[s][i] ELSE down[s][i - Len(started[s])]
    BY <1>2, ConcatProperties DEF Delivered
  <2>3. ASSUME NEW m \in Nat, NEW n \in Nat \ {0}
        PROVE  m + 1 \in 1..m + n /\ ~(m + 1 <= m) /\ (m + 1) - m = 1
    OBVIOUS
  <2>4. ASSUME NEW m \in Nat, NEW n \in Nat \ {0}, NEW r \in Nat, NEW k, NEW l, k = m + n, l = k + r
        PROVE  m < l /\ m + 1 \in 1..k
    BY <2>4
  <2>5. Delivered(s)[Len(started[s]) + 1] = down[s][1]
    BY <1>5, <2>1, <2>2, <2>3
  <2>6. Len(started[s]) < Len(accepted[s]) /\ Len(started[s]) + 1 \in 1..Len(Delivered(s))
    BY <1>5, <1>6, <2>1, <2>4
  <2>. QED  BY <1>6, <2>1, <2>5, <2>6
<1>. QED  BY <1>3, <1>8, <1>9 DEF Gone

\* Where a command is gone to tells for which session it was accepted.
LEMMA GoneTarget ==
    ASSUME TypeOK, OrderInv, AcceptedOnce, NEW s \in Sessions, NEW c \in Commands, Gone(c, s)
    PROVE  admin[c] = "queued" /\ target[c] = s
BY GoneAccepted DEF AcceptedOnce

\* A write of one row changes that row or none.
LEMMA StatusChange ==
    ASSUME TypeOK, NEW c \in Commands, NEW v, WriteStatus(c, v)
    PROVE  \A d \in Commands : status'[d] = status[d] \/ (d = c /\ status'[d] = v)
BY DEF TypeOK, WriteStatus

(***************************************************************************)
(* Every step keeps the place of every command.                            *)
(***************************************************************************)
LEMMA InitPlaceInv == Init => PlaceInv /\ RecordTruthful
<1>. SUFFICES ASSUME Init PROVE PlaceInv /\ RecordTruthful
  OBVIOUS
<1>1. Elements(<<>>) = {} /\ Once(<<>>)
  BY DEF Elements, Once
<1>2. AcceptedOnce
  BY <1>1 DEF Init, AcceptedOnce
<1>3. WaitsOnce
  BY <1>1 DEF Init, WaitsOnce, Busy, Unmarked, Unsent
<1>4. GivenUp
  BY DEF Init, GivenUp
<1>5. ResultsTruthful
  BY <1>1 DEF Init, ResultsTruthful, Working
<1>6. RecordTruthful
  BY DEF Init, RecordTruthful
<1>. QED  BY <1>2, <1>3, <1>4, <1>5, <1>6 DEF PlaceInv

\* SendEnqueue accepts a command that no session has accepted.
LEMMA NextAcceptedOnce ==
    ASSUME TypeOK, OrderInv, AcceptedOnce, [Next]_vars
    PROVE  AcceptedOnce'
<1>. USE DEF sessionVars, consumerVars, callVars, storeVars, linkVars, clientVars, historyVars
<1>1. ASSUME NEW c \in Commands, SendOffline(c) \/ SendSave(c) \/ SendFull(c) PROVE AcceptedOnce'
  <2>1. UNCHANGED accepted /\ admin[c] # "queued" /\ admin'[c] # "queued"
    BY <1>1 DEF TypeOK, SendOffline, SendSave, SendFull, Reply
  <2>2. \A d \in Commands : d # c => admin'[d] = admin[d] /\ target'[d] = target[d]
    BY <1>1 DEF TypeOK, SendOffline, SendSave, SendFull, Reply
  <2>. QED  BY <2>1, <2>2 DEF AcceptedOnce
<1>2. ASSUME NEW c \in Commands, SendEnqueue(c), NEW s \in Sessions
      PROVE  /\ Once(accepted[s])'
             /\ \A d \in Commands : d \in Elements(accepted[s])' <=> admin'[d] = "queued" /\ target'[d] = s
  <2>1. /\ target' = target /\ admin[c] = "saved" /\ admin'[c] = "queued"
        /\ \A d \in Commands : d # c => admin'[d] = admin[d]
        /\ accepted[s] \in Seq(Commands)
    BY <1>2 DEF TypeOK, SendEnqueue, Reply
  <2>2. /\ Once(accepted[s]) /\ c \notin Elements(accepted[s])
        /\ \A d \in Commands : d \in Elements(accepted[s]) <=> admin[d] = "queued" /\ target[d] = s
    BY <2>1 DEF AcceptedOnce
  <2>3. CASE s = target[c]
    <3>1. accepted'[s] = Append(accepted[s], c)
      BY <1>2, <2>3 DEF TypeOK, SendEnqueue
    <3>2. Elements(accepted'[s]) = Elements(accepted[s]) \cup {c} /\ Once(accepted'[s])
      BY <2>1, <2>2, <3>1, AppendElements
    <3>. QED  BY <2>1, <2>2, <2>3, <3>2 DEF Elements, Once
  <2>4. CASE s # target[c]
    <3>1. accepted'[s] = accepted[s]
      BY <1>2, <2>4 DEF TypeOK, SendEnqueue
    <3>. QED  BY <2>1, <2>2, <2>4, <3>1 DEF Elements, Once
  <2>. QED  BY <2>3, <2>4
<1>3. CASE ServerCrash
  BY <1>3 DEF AcceptedOnce, ServerCrash
<1>4. CASE UNCHANGED <<accepted, admin, target>>
  BY <1>4 DEF AcceptedOnce, Once, Elements
<1>5. ASSUME NEW s \in Sessions,
             \/ Dequeue(s) \/ SendOK(s) \/ SendFails(s) \/ MarkSent(s) \/ ConsumerExit(s)
             \/ OpenChannel(s) \/ HandleResult(s) \/ Heartbeat(s) \/ HeartbeatExpires(s)
             \/ Kick(s) \/ ChannelLoopEnds(s) \/ ChannelReturns(s)
      PROVE  UNCHANGED <<accepted, admin, target>>
  BY <1>5 DEF Dequeue, SendOK, SendFails, MarkSent, ConsumerExit, OpenChannel, HandleResult, Heartbeat,
              HeartbeatExpires, SetOnline, Kick, ChannelLoopEnds, ChannelReturns
<1>6. ASSUME NEW s \in Sessions,
             \/ Receive(s) \/ OutputHeld(s) \/ (\E o \in {"Completed", "Failed"} : FinishWork(s, o)) \/ FinishExit(s)
             \/ Teardown(s) \/ ClientKicked(s) \/ ClientBroken(s) \/ NetworkLoss(s) \/ ClientCrash(s)
      PROVE  UNCHANGED <<accepted, admin, target>>
  BY <1>6 DEF Receive, OutputHeld, FinishWork, FinishExit, Finish, Teardown, ClientKicked, ClientBroken,
              NetworkLoss, ClientCrash
<1>7. ASSUME NEW c \in Commands, Timeout(c) PROVE UNCHANGED <<accepted, admin, target>>
  BY <1>7 DEF Timeout
<1>8. CASE Register
  BY <1>4, <1>8 DEF Register
<1>9. CASE UNCHANGED vars
  BY <1>4, <1>9 DEF vars
<1>10. ASSUME NEW c \in Commands, SendEnqueue(c) PROVE AcceptedOnce'
  <2>1. target[c] \in 1..latest /\ latest \in 0..MaxSession
    BY <1>10 DEF TypeOK, OrderInv, Registered, SendEnqueue
  <2>2. target[c] \in Sessions
    BY <2>1, BoundsAssumption DEF Sessions
  <2>3. target' = target /\ \A d \in Commands : d # c => admin'[d] = admin[d]
    BY <1>10 DEF TypeOK, SendEnqueue, Reply
  <2>. QED  BY <1>2, <1>10, <2>2, <2>3 DEF AcceptedOnce
<1>. QED  BY <1>1, <1>3, <1>4, <1>5, <1>6, <1>7, <1>8, <1>9, <1>10 DEF Next

\* Only the consumer puts a command on a stream; the client and the cuts take it off.
LEMMA NextGone ==
    ASSUME TypeOK, [Next]_vars, NEW t \in Sessions, NEW c \in Commands, Gone(c, t)'
    PROVE  Gone(c, t) \/ (SendOK(t) /\ held[t] = c)
<1>. USE DEF sessionVars, consumerVars, callVars, storeVars, linkVars, clientVars, historyVars
<1>1. started[t] \in Seq(Commands) /\ down[t] \in Seq(Commands)
  BY DEF TypeOK
<1>2. CASE started'[t] = started[t] /\ down'[t] = down[t]
  BY <1>2 DEF Gone, Elements
<1>3. CASE started'[t] = started[t] /\ Elements(down'[t]) \subseteq Elements(down[t])
  BY <1>3 DEF Gone, Elements
<1>4. ASSUME NEW d \in Commands,
             SendOffline(d) \/ SendSave(d) \/ SendEnqueue(d) \/ SendFull(d) \/ Timeout(d)
      PROVE  UNCHANGED <<started, down>>
  BY <1>4 DEF SendOffline, SendSave, SendEnqueue, SendFull, Timeout
<1>5. ASSUME NEW s \in Sessions,
             \/ Dequeue(s) \/ SendFails(s) \/ MarkSent(s) \/ ConsumerExit(s)
             \/ OpenChannel(s) \/ HandleResult(s) \/ Heartbeat(s) \/ HeartbeatExpires(s)
             \/ Kick(s) \/ ChannelLoopEnds(s) \/ ChannelReturns(s)
             \/ OutputHeld(s) \/ (\E o \in {"Completed", "Failed"} : FinishWork(s, o)) \/ FinishExit(s) \/ ClientKicked(s)
      PROVE  UNCHANGED <<started, down>>
  BY <1>5 DEF Dequeue, SendFails, MarkSent, ConsumerExit, OpenChannel, HandleResult, Heartbeat,
              HeartbeatExpires, SetOnline, Kick, ChannelLoopEnds, ChannelReturns, OutputHeld, FinishWork,
              FinishExit, Finish, ClientKicked
<1>6. ASSUME NEW s \in Sessions, SendOK(s) PROVE Gone(c, t) \/ (SendOK(t) /\ held[t] = c)
  <2>1. started' = started /\ held[s] \in Commands
    BY <1>6 DEF TypeOK, SendOK
  <2>2. CASE t # s
    BY <1>2, <1>6, <2>1, <2>2 DEF TypeOK, SendOK
  <2>3. CASE t = s
    <3>1. down'[t] = down[t] \/ down'[t] = Append(down[t], held[t])
      BY <1>6, <2>3 DEF TypeOK, SendOK, Transmit
    <3>2. CASE down'[t] = Append(down[t], held[t])
      <4>1. Elements(down'[t]) = Elements(down[t]) \cup {held[t]}
        BY <1>1, <2>1, <2>3, <3>2, AppendElements
      <4>. QED  BY <1>6, <2>1, <2>3, <4>1 DEF Gone, Elements
    <3>. QED  BY <1>2, <2>1, <3>1, <3>2
  <2>. QED  BY <2>2, <2>3
<1>7. ASSUME NEW s \in Sessions, Receive(s) PROVE Gone(c, t)
  <2>1. CASE t # s
    BY <1>2, <1>7, <2>1 DEF TypeOK, Receive, SendOK
  <2>2. CASE t = s
    <3>1. /\ down[t] # <<>> /\ down'[t] = Tail(down[t])
          /\ started'[t] = Append(started[t], Head(down[t]))
      BY <1>7, <2>2 DEF TypeOK, Receive
    <3>2. Head(down[t]) \in Commands /\ Elements(down[t]) = {Head(down[t])} \cup Elements(Tail(down[t]))
      BY <1>1, <3>1, TailElements, HeadTailProperties
    <3>3. Elements(started'[t]) = Elements(started[t]) \cup {Head(down[t])}
      BY <1>1, <3>1, <3>2, AppendElements
    <3>. QED  BY <3>1, <3>2, <3>3 DEF Gone, Elements
  <2>. QED  BY <2>1, <2>2
<1>8. ASSUME NEW s \in Sessions, Teardown(s) \/ ClientBroken(s) \/ NetworkLoss(s) \/ ClientCrash(s)
      PROVE  started'[t] = started[t] /\ Elements(down'[t]) \subseteq Elements(down[t])
  <2>1. down'[t] = down[t] \/ down'[t] = <<>> \/ (\E n \in 0..Len(down[t]) : down'[t] = Prefix(down[t], n))
    BY <1>8 DEF TypeOK, Teardown, ClientBroken, NetworkLoss, ClientCrash, CloseStream
  <2>2. started' = started
    BY <1>8 DEF Teardown, ClientBroken, NetworkLoss, ClientCrash
  <2>. QED  BY <1>1, <2>1, <2>2, PrefixElements, SequenceElements
<1>9. CASE Register
  BY <1>2, <1>9 DEF Register
<1>10. CASE ServerCrash
  <2>1. down'[t] = down[t] \/ (\E n \in 0..Len(down[t]) : down'[t] = Prefix(down[t], n))
    BY <1>10 DEF ServerCrash
  <2>. QED  BY <1>1, <1>3, <1>10, <2>1, PrefixElements DEF ServerCrash
<1>11. CASE UNCHANGED vars
  BY <1>2, <1>11 DEF vars
<1>. QED  BY <1>2, <1>3, <1>4, <1>5, <1>6, <1>7, <1>8, <1>9, <1>10, <1>11 DEF Next

\* A command given up on stays off the streams, and is not watched.
LEMMA NextGivenUp ==
    ASSUME TypeOK, OrderInv, PlaceInv, [Next]_vars
    PROVE  GivenUp'
<1>. USE DEF sessionVars, consumerVars, callVars, storeVars, linkVars, clientVars, historyVars
<1>1. AcceptedOnce /\ WaitsOnce /\ GivenUp
  BY DEF PlaceInv
<1>. DEFINE Kept(d) == /\ d \in refused' => /\ admin'[d] \in {"queued", "full"}
                                             /\ \A t \in Sessions : ~Gone(d, t)'
                       /\ watcher'[d] # "off" => admin'[d] = "queued" /\ d \notin refused'
<1>. SUFFICES ASSUME NEW d \in Commands PROVE Kept(d)
  BY DEF GivenUp
<1>2. /\ d \in refused => admin[d] \in {"queued", "full"} /\ \A t \in Sessions : ~Gone(d, t)
      /\ watcher[d] # "off" => admin[d] = "queued" /\ d \notin refused
  BY <1>1 DEF GivenUp
<1>3. d \in refused => \A t \in Sessions : ~Gone(d, t)'
  <2>. SUFFICES ASSUME d \in refused, NEW t \in Sessions, Gone(d, t)' PROVE FALSE
    OBVIOUS
  <2>1. SendOK(t) /\ held[t] = d
    BY <1>2, NextGone
  <2>. QED  BY <1>1, <2>1 DEF WaitsOnce, Unmarked, Busy, SendOK
<1>4. CASE refused' = refused /\ watcher' = watcher /\ admin' = admin
  BY <1>2, <1>3, <1>4
<1>5. ASSUME NEW c \in Commands, SendOffline(c) \/ SendSave(c) \/ SendEnqueue(c)
      PROVE  /\ refused' = refused /\ watcher' = watcher
             /\ admin'[d] = admin[d] \/ (admin[d] \in {"idle", "saved"} /\ d \notin refused)
  BY <1>2, <1>5 DEF TypeOK, SendOffline, SendSave, SendEnqueue, Reply
<1>6. ASSUME NEW c \in Commands, SendFull(c)
      PROVE  Kept(d)
  <2>1. /\ refused' = refused \cup {c} /\ watcher' = watcher /\ UNCHANGED <<started, down>>
        /\ admin[c] = "saved" /\ admin'[c] = "full" /\ (d # c => admin'[d] = admin[d])
    BY <1>6 DEF TypeOK, SendFull, Reply
  <2>2. CASE d = c
    <3>1. \A t \in Sessions : ~Gone(d, t)
      BY <1>1, <2>1, <2>2, GoneTarget
    <3>2. \A t \in Sessions : Gone(d, t)' = Gone(d, t)
      BY <2>1 DEF Gone, Elements
    <3>. QED  BY <1>2, <2>1, <2>2, <3>1, <3>2
  <2>. QED  BY <1>2, <1>3, <2>1, <2>2
<1>7. ASSUME NEW c \in Commands, Timeout(c)
      PROVE  UNCHANGED <<refused, admin>> /\ (watcher'[d] = watcher[d] \/ watcher[d] = "armed")
  BY <1>7 DEF TypeOK, Timeout
<1>8. ASSUME NEW s \in Sessions, SendFails(s)
      PROVE  Kept(d)
  <2>1. /\ refused' = refused \cup {held[s]} /\ consumer[s] = "send"
        /\ UNCHANGED <<started, down, watcher, admin>>
    BY <1>8 DEF SendFails
  <2>2. CASE d = held[s]
    <3>1. Unmarked(d, s) /\ Unsent(d, s)
      BY <2>1, <2>2 DEF Unmarked, Unsent, Busy
    <3>2. admin[d] = "queued" /\ target[d] = s /\ watcher[d] = "off" /\ ~Gone(d, s)
      BY <1>1, <3>1 DEF WaitsOnce
    <3>3. \A t \in Sessions : ~Gone(d, t)
      BY <1>1, <3>2, GoneTarget
    <3>4. \A t \in Sessions : Gone(d, t)' = Gone(d, t)
      BY <2>1 DEF Gone, Elements
    <3>. QED  BY <2>1, <3>2, <3>3, <3>4
  <2>. QED  BY <1>2, <1>3, <2>1, <2>2
<1>9. ASSUME NEW s \in Sessions, MarkSent(s)
      PROVE  /\ UNCHANGED <<refused, admin>>
             /\ \/ watcher'[d] = watcher[d]
                \/ admin[d] = "queued" /\ d \notin refused
  <2>1. /\ UNCHANGED <<refused, admin>> /\ consumer[s] = "mark"
        /\ watcher'[d] = watcher[d] \/ d = held[s]
    BY <1>9 DEF TypeOK, MarkSent, Watch
  <2>. QED  BY <1>1, <2>1 DEF WaitsOnce, Unmarked, Busy
<1>10. ASSUME NEW s \in Sessions,
             \/ Dequeue(s) \/ SendOK(s) \/ ConsumerExit(s)
             \/ OpenChannel(s) \/ HandleResult(s) \/ Heartbeat(s) \/ HeartbeatExpires(s)
             \/ Kick(s) \/ ChannelLoopEnds(s) \/ ChannelReturns(s)
      PROVE  UNCHANGED <<refused, watcher, admin>>
  BY <1>10 DEF Dequeue, SendOK, ConsumerExit, OpenChannel, HandleResult, Heartbeat,
              HeartbeatExpires, SetOnline, Kick, ChannelLoopEnds, ChannelReturns
<1>11. ASSUME NEW s \in Sessions,
             \/ Receive(s) \/ OutputHeld(s) \/ (\E o \in {"Completed", "Failed"} : FinishWork(s, o)) \/ FinishExit(s)
             \/ Teardown(s) \/ ClientKicked(s) \/ ClientBroken(s) \/ NetworkLoss(s) \/ ClientCrash(s)
      PROVE  UNCHANGED <<refused, watcher, admin>>
  BY <1>11 DEF Receive, OutputHeld, FinishWork, FinishExit, Finish, Teardown, ClientKicked, ClientBroken,
              NetworkLoss, ClientCrash
<1>12. CASE Register
  BY <1>4, <1>12 DEF Register
<1>13. CASE ServerCrash
  <2>1. /\ refused' = refused
        /\ admin'[d] = IF admin[d] = "saved" THEN "error" ELSE admin[d]
        /\ watcher'[d] # "off" => watcher[d] # "off"
    BY <1>13 DEF ServerCrash
  <2>. QED  BY <1>2, <1>3, <2>1
<1>14. CASE UNCHANGED vars
  BY <1>4, <1>14 DEF vars
<1>15. ASSUME NEW c \in Commands, SendOffline(c) \/ SendSave(c) \/ SendEnqueue(c)
       PROVE  Kept(d)
  BY <1>2, <1>3, <1>5, <1>15
<1>16. ASSUME NEW c \in Commands, Timeout(c)
       PROVE  Kept(d)
  BY <1>2, <1>3, <1>7, <1>16
<1>17. ASSUME NEW s \in Sessions, MarkSent(s)
       PROVE  Kept(d)
  BY <1>2, <1>3, <1>9, <1>17
<1>. QED
  BY <1>4, <1>6, <1>8, <1>10, <1>11, <1>12, <1>13, <1>14, <1>15, <1>16, <1>17 DEF Next

\* What waits after a step waited before it, or was accepted by it; the consumer waits
\* with a command no longer than until it has sent, marked or given up on it.
LEMMA NextWaiting ==
    ASSUME TypeOK, OrderInv, PlaceInv, [Next]_vars, NEW t \in Sessions
    PROVE  /\ Once(queue[t])'
           /\ Busy(t)' => held'[t] \notin Elements(queue[t])'
           /\ \A c \in Commands :
                 /\ Unmarked(c, t)' => \/ SendEnqueue(c) /\ target[c] = t
                                       \/ Unmarked(c, t) /\ ~((MarkSent(t) \/ SendFails(t)) /\ held[t] = c)
                 /\ Unsent(c, t)' => \/ SendEnqueue(c) /\ target[c] = t
                                     \/ Unsent(c, t) /\ ~(SendOK(t) /\ held[t] = c)
<1>. USE DEF sessionVars, consumerVars, callVars, storeVars, linkVars, clientVars, historyVars
<1>. DEFINE Kept == /\ Once(queue[t])'
                    /\ Busy(t)' => held'[t] \notin Elements(queue[t])'
                    /\ \A c \in Commands :
                          /\ Unmarked(c, t)' =>
                                \/ SendEnqueue(c) /\ target[c] = t
                                \/ Unmarked(c, t) /\ ~((MarkSent(t) \/ SendFails(t)) /\ held[t] = c)
                          /\ Unsent(c, t)' =>
                                \/ SendEnqueue(c) /\ target[c] = t
                                \/ Unsent(c, t) /\ ~(SendOK(t) /\ held[t] = c)
<1>1. /\ queue[t] \in Seq(Commands) /\ Once(queue[t])
      /\ Busy(t) => held[t] \in Commands /\ held[t] \notin Elements(queue[t])
  BY DEF TypeOK, PlaceInv, WaitsOnce, Busy
<1>2. CASE queue'[t] = queue[t] /\ ~Busy(t)'
  <2>1. Elements(queue[t])' = Elements(queue[t]) /\ Once(queue[t])'
    BY <1>1, <1>2 DEF Elements, Once
  <2>2. \A c \in Commands : ~(Busy(t) /\ held[t] = c /\ c \in Elements(queue[t]))
    BY <1>1
  <2>3. MarkSent(t) \/ SendFails(t) \/ SendOK(t) => Busy(t)
    BY DEF MarkSent, SendFails, SendOK, Busy
  <2>4. ~(consumer'[t] = "send")
    BY <1>2 DEF Busy
  <2>. QED  BY <1>2, <2>1, <2>2, <2>3, <2>4 DEF Unmarked, Unsent
<1>3. CASE queue'[t] = queue[t] /\ consumer'[t] = consumer[t] /\ held'[t] = held[t]
  <2>1. Elements(queue[t])' = Elements(queue[t]) /\ Once(queue[t])' /\ Busy(t)' = Busy(t)
    BY <1>1, <1>3 DEF Elements, Once, Busy
  <2>2. ~MarkSent(t) /\ ~SendFails(t) /\ ~SendOK(t)
    BY <1>3 DEF TypeOK, MarkSent, SendFails, SendOK, LoopOn
  <2>. QED  BY <1>1, <1>3, <2>1, <2>2 DEF Unmarked, Unsent
<1>4. ASSUME NEW d \in Commands, SendOffline(d) \/ SendSave(d) \/ SendFull(d) \/ Timeout(d)
      PROVE  UNCHANGED <<queue, consumer, held>>
  BY <1>4 DEF SendOffline, SendSave, SendFull, Timeout
<1>5. ASSUME NEW s \in Sessions,
             \/ HandleResult(s) \/ Heartbeat(s) \/ HeartbeatExpires(s)
             \/ Kick(s) \/ ChannelLoopEnds(s) \/ ChannelReturns(s)
             \/ Receive(s) \/ OutputHeld(s) \/ (\E o \in {"Completed", "Failed"} : FinishWork(s, o)) \/ FinishExit(s)
             \/ Teardown(s) \/ ClientKicked(s) \/ ClientBroken(s) \/ NetworkLoss(s) \/ ClientCrash(s)
      PROVE  UNCHANGED <<queue, consumer, held>>
  BY <1>5 DEF HandleResult, Heartbeat, HeartbeatExpires, SetOnline, Kick, ChannelLoopEnds,
              ChannelReturns, Receive, OutputHeld, FinishWork, FinishExit, Finish, Teardown, ClientKicked,
              ClientBroken, NetworkLoss, ClientCrash
<1>6. ASSUME NEW d \in Commands, SendEnqueue(d) PROVE Kept
  <2>1. UNCHANGED <<consumer, held>> /\ admin[d] = "saved"
    BY <1>6 DEF SendEnqueue
  <2>2. CASE t # target[d]
    BY <1>3, <1>6, <2>1, <2>2 DEF TypeOK, SendEnqueue
  <2>3. CASE t = target[d]
    <3>1. queue'[t] = Append(queue[t], d)
      BY <1>6, <2>3 DEF TypeOK, SendEnqueue
    <3>2. ~Unmarked(d, t)
      BY <2>1 DEF PlaceInv, WaitsOnce
    <3>3. Elements(queue[t])' = Elements(queue[t]) \cup {d} /\ Once(queue[t])'
      <4>1. Elements(Append(queue[t], d)) = Elements(queue[t]) \cup {d} /\ Once(Append(queue[t], d))
        BY <1>1, <3>2, AppendElements DEF Unmarked
      <4>. QED  BY <3>1, <4>1 DEF Elements, Once
    <3>4. Busy(t)' = Busy(t) /\ ~MarkSent(t) /\ ~SendFails(t) /\ ~SendOK(t)
      BY <2>1 DEF TypeOK, Busy, MarkSent, SendFails, SendOK, LoopOn
    <3>. QED  BY <1>1, <1>6, <2>1, <2>3, <3>2, <3>3, <3>4 DEF Unmarked, Unsent
  <2>. QED  BY <2>2, <2>3
<1>7. ASSUME NEW s \in Sessions, s # t,
             \/ Dequeue(s) \/ SendOK(s) \/ SendFails(s) \/ MarkSent(s) \/ ConsumerExit(s)
             \/ OpenChannel(s)
      PROVE  queue'[t] = queue[t] /\ consumer'[t] = consumer[t] /\ held'[t] = held[t]
  BY <1>7 DEF TypeOK, Dequeue, SendOK, SendFails, MarkSent, ConsumerExit, OpenChannel, LoopOn
<1>8. CASE Dequeue(t)
  <2>1. /\ queue[t] # <<>> /\ queue'[t] = Tail(queue[t]) /\ held'[t] = Head(queue[t])
        /\ ~Busy(t) /\ Busy(t)' /\ consumer[t] = "select" /\ consumer'[t] = "send"
    BY <1>8 DEF TypeOK, Dequeue, Busy
  <2>2. /\ Elements(queue[t]) = {held'[t]} \cup Elements(queue[t])'
        /\ Once(queue[t])' /\ held'[t] \notin Elements(queue[t])'
    <3>1. /\ Elements(queue[t]) = {Head(queue[t])} \cup Elements(Tail(queue[t]))
          /\ Once(Tail(queue[t])) /\ Head(queue[t]) \notin Elements(Tail(queue[t]))
      BY <1>1, <2>1, TailElements
    <3>. QED  BY <2>1, <3>1 DEF Elements, Once
  <2>3. ~MarkSent(t) /\ ~SendFails(t) /\ ~SendOK(t)
    BY <2>1 DEF MarkSent, SendFails, SendOK
  <2>. QED  BY <2>1, <2>2, <2>3 DEF Unmarked, Unsent
<1>9. CASE SendOK(t)
  <2>1. /\ consumer[t] = "send" /\ consumer'[t] = "mark" /\ UNCHANGED <<queue, held>>
        /\ Busy(t) /\ Busy(t)'
    BY <1>9 DEF TypeOK, SendOK, Busy
  <2>2. Elements(queue[t])' = Elements(queue[t]) /\ Once(queue[t])'
    BY <1>1, <2>1 DEF Elements, Once
  <2>3. ~MarkSent(t) /\ ~SendFails(t)
    BY <2>1 DEF TypeOK, MarkSent, SendFails, LoopOn
  <2>. QED  BY <1>1, <2>1, <2>2, <2>3 DEF Unmarked, Unsent
<1>10. CASE SendFails(t) \/ MarkSent(t) \/ ConsumerExit(t) \/ OpenChannel(t)
  <2>1. queue' = queue /\ ~Busy(t)'
    BY <1>10 DEF TypeOK, SendFails, MarkSent, ConsumerExit, OpenChannel, LoopOn, Busy
  <2>. QED  BY <1>2, <2>1
<1>11. CASE Register
  <2>1. UNCHANGED <<consumer, held>> /\ latest \in 0..MaxSession /\ latest + 1 \in Sessions
    BY <1>11, BoundsAssumption DEF TypeOK, Register, Sessions
  <2>2. queue[latest + 1] = <<>>
    BY <2>1, BoundsAssumption DEF OrderInv, Registered, Sessions
  <2>3. queue'[t] = queue[t]
    BY <1>11, <2>1, <2>2 DEF TypeOK, Register, NewQueue
  <2>. QED  BY <1>3, <2>1, <2>3
<1>12. CASE ServerCrash
  <2>1. queue'[t] = <<>> /\ ~Busy(t)' /\ consumer'[t] # "send"
    BY <1>12 DEF ServerCrash, Busy
  <2>2. Elements(queue[t])' = {} /\ Once(queue[t])'
    BY <2>1 DEF Elements, Once
  <2>. QED  BY <2>1, <2>2 DEF Unmarked, Unsent
<1>13. CASE UNCHANGED vars
  BY <1>3, <1>13 DEF vars
<1>14. Kept
  BY <1>3, <1>4, <1>5, <1>6, <1>7, <1>8, <1>9, <1>10, <1>11, <1>12, <1>13 DEF Next
<1>. QED  BY <1>14

\* A command that waits after a step is as new as it was.
LEMMA NextUnmarked ==
    ASSUME TypeOK, PlaceInv, RecordTruthful, [Next]_vars, NEW t \in Sessions, NEW c \in Commands,
           \/ SendEnqueue(c) /\ target[c] = t
           \/ Unmarked(c, t) /\ ~((MarkSent(t) \/ SendFails(t)) /\ held[t] = c)
    PROVE  /\ admin'[c] = "queued" /\ target'[c] = t
           /\ watcher'[c] = "off" /\ c \notin refused'
           /\ status'[c] \notin {"Sent", "Timeout"}
<1>. USE DEF sessionVars, consumerVars, callVars, storeVars, linkVars, clientVars, historyVars
<1>. DEFINE New == /\ admin'[c] = "queued" /\ target'[c] = t
                   /\ watcher'[c] = "off" /\ c \notin refused'
                   /\ status'[c] \notin {"Sent", "Timeout"}
<1>1. CASE SendEnqueue(c) /\ target[c] = t
  <2>1. admin[c] = "saved" /\ admin'[c] = "queued" /\ UNCHANGED <<target, watcher, refused, status>>
    BY <1>1 DEF TypeOK, SendEnqueue, Reply
  <2>. QED  BY <1>1, <2>1 DEF PlaceInv, GivenUp, RecordTruthful
<1>2. CASE Unmarked(c, t) /\ ~((MarkSent(t) \/ SendFails(t)) /\ held[t] = c)
  <2>1. /\ admin[c] = "queued" /\ target[c] = t /\ watcher[c] = "off" /\ c \notin refused
        /\ status[c] \notin {"Sent", "Timeout"}
    BY <1>2 DEF PlaceInv, WaitsOnce
  <2>2. CASE UNCHANGED <<admin, target, watcher, refused, status>>
    BY <2>1, <2>2
  <2>3. ASSUME NEW d \in Commands,
               SendOffline(d) \/ SendSave(d) \/ SendEnqueue(d) \/ SendFull(d) \/ Timeout(d)
        PROVE  New
    <3>1. c # d
      BY <2>1, <2>3 DEF SendOffline, SendSave, SendEnqueue, SendFull, Timeout
    <3>2. /\ admin'[c] = admin[c] /\ target'[c] = target[c] /\ watcher'[c] = watcher[c]
          /\ c \notin refused'
      BY <2>1, <2>3, <3>1 DEF TypeOK, SendOffline, SendSave, SendEnqueue, SendFull, Timeout, Reply
    <3>3. status'[c] = status[c]
      BY <2>3, <3>1, StatusChange DEF SendOffline, SendSave, SendEnqueue, SendFull, Timeout
    <3>. QED  BY <2>1, <3>2, <3>3
  <2>4. ASSUME NEW s \in Sessions, MarkSent(s) \/ SendFails(s) PROVE New
    <3>1. Busy(s) /\ held[s] \in Commands /\ Unmarked(held[s], s)
      BY <2>4 DEF TypeOK, MarkSent, SendFails, Busy, Unmarked
    <3>2. target[held[s]] = s
      BY <3>1 DEF PlaceInv, WaitsOnce
    <3>3. c # held[s]
      BY <1>2, <2>1, <2>4, <3>2
    <3>4. /\ admin'[c] = admin[c] /\ target'[c] = target[c] /\ watcher'[c] = watcher[c]
          /\ c \notin refused'
      BY <2>1, <2>4, <3>3 DEF TypeOK, MarkSent, SendFails, Watch
    <3>5. status'[c] = status[c]
      BY <2>4, <3>1, <3>3, StatusChange DEF MarkSent, SendFails
    <3>. QED  BY <2>1, <3>4, <3>5
  <2>5. ASSUME NEW s \in Sessions, HandleResult(s) PROVE New
    <3>1. up[s] \in Seq(Results) /\ Head(up[s]) \in Results
      BY <2>5, HeadTailProperties DEF TypeOK, HandleResult
    <3>2. Head(up[s]).cmd \in Commands /\ Head(up[s]).status \in {"Executing", "Completed", "Failed"}
      BY <3>1 DEF Results
    <3>3. status'[c] = status[c] \/ status'[c] = Head(up[s]).status
      BY <2>5, <3>2, StatusChange DEF HandleResult
    <3>. QED  BY <2>1, <2>5, <3>2, <3>3 DEF HandleResult
  <2>6. ASSUME NEW s \in Sessions,
               \/ Dequeue(s) \/ SendOK(s) \/ ConsumerExit(s) \/ OpenChannel(s)
               \/ Heartbeat(s) \/ HeartbeatExpires(s)
               \/ Kick(s) \/ ChannelLoopEnds(s) \/ ChannelReturns(s)
        PROVE  UNCHANGED <<admin, target, watcher, refused, status>>
    BY <2>6 DEF Dequeue, SendOK, ConsumerExit, OpenChannel, Heartbeat, HeartbeatExpires, SetOnline,
                Kick, ChannelLoopEnds, ChannelReturns
  <2>7. ASSUME NEW s \in Sessions,
               \/ Receive(s) \/ OutputHeld(s) \/ (\E o \in {"Completed", "Failed"} : FinishWork(s, o)) \/ FinishExit(s)
               \/ Teardown(s) \/ ClientKicked(s) \/ ClientBroken(s) \/ NetworkLoss(s) \/ ClientCrash(s)
        PROVE  UNCHANGED <<admin, target, watcher, refused, status>>
    BY <2>7 DEF Receive, OutputHeld, FinishWork, FinishExit, Finish, Teardown, ClientKicked, ClientBroken,
                NetworkLoss, ClientCrash
  <2>8. CASE Register
    BY <2>2, <2>8 DEF Register
  <2>9. CASE ServerCrash
    BY <2>1, <2>9 DEF ServerCrash
  <2>10. CASE UNCHANGED vars
    BY <2>2, <2>10 DEF vars
  <2>. QED  BY <2>2, <2>3, <2>4, <2>5, <2>6, <2>7, <2>8, <2>9, <2>10 DEF Next
<1>. QED  BY <1>1, <1>2

LEMMA NextWaitsOnce ==
    ASSUME TypeOK, OrderInv, PlaceInv, RecordTruthful, [Next]_vars
    PROVE  WaitsOnce'
<1>. SUFFICES ASSUME NEW t \in Sessions, NEW c \in Commands
              PROVE  /\ Unmarked(c, t)' => /\ admin'[c] = "queued" /\ target'[c] = t
                                           /\ watcher'[c] = "off" /\ c \notin refused'
                                           /\ status'[c] \notin {"Sent", "Timeout"}
                     /\ Unsent(c, t)' => ~Gone(c, t)'
  BY NextWaiting DEF WaitsOnce
<1>1. Unsent(c, t)' => ~Gone(c, t)'
  <2>. SUFFICES ASSUME Unsent(c, t)', Gone(c, t)' PROVE FALSE
    OBVIOUS
  <2>1. CASE SendEnqueue(c) /\ target[c] = t
    <3>1. admin[c] = "saved"
      BY <2>1 DEF SendEnqueue
    <3>2. ~Gone(c, t) /\ ~Unmarked(c, t)
      BY <3>1, GoneTarget DEF PlaceInv, WaitsOnce
    <3>. QED  BY <3>2, NextGone DEF SendOK, Unmarked, Busy
  <2>2. CASE Unsent(c, t) /\ ~(SendOK(t) /\ held[t] = c)
    BY <2>2, NextGone DEF PlaceInv, WaitsOnce
  <2>. QED  BY <2>1, <2>2, NextWaiting
<1>. QED  BY <1>1, NextWaiting, NextUnmarked

(***************************************************************************)
(* Every step keeps what results and rows claim.                           *)
(***************************************************************************)

\* A command that began has begun.
LEMMA NextBegun ==
    ASSUME TypeOK, [Next]_vars
    PROVE  Begun \subseteq Begun'
<1>. USE DEF sessionVars, consumerVars, callVars, storeVars, linkVars, clientVars, historyVars
<1>1. CASE UNCHANGED started
  BY <1>1 DEF Begun, Elements
<1>2. ASSUME NEW s \in Sessions, Receive(s) PROVE Begun \subseteq Begun'
  <2>. SUFFICES ASSUME NEW t \in Sessions PROVE Elements(started[t]) \subseteq Elements(started[t])'
    BY DEF Begun
  <2>1. started[t] \in Seq(Commands) /\ down[s] \in Seq(Commands) /\ Head(down[s]) \in Commands
    BY <1>2, HeadTailProperties DEF TypeOK, Receive
  <2>2. started'[t] = started[t] \/ started'[t] = Append(started[t], Head(down[s]))
    BY <1>2 DEF TypeOK, Receive
  <2>3. Elements(Append(started[t], Head(down[s]))) = Elements(started[t]) \cup {Head(down[s])}
    BY <2>1, AppendElements
  <2>. QED  BY <2>2, <2>3 DEF Elements
<1>3. ASSUME NEW c \in Commands,
             SendOffline(c) \/ SendSave(c) \/ SendEnqueue(c) \/ SendFull(c) \/ Timeout(c)
      PROVE  UNCHANGED started
  BY <1>3 DEF SendOffline, SendSave, SendEnqueue, SendFull, Timeout
<1>4. ASSUME NEW s \in Sessions,
             \/ Dequeue(s) \/ SendOK(s) \/ SendFails(s) \/ MarkSent(s) \/ ConsumerExit(s)
             \/ OpenChannel(s) \/ HandleResult(s) \/ Heartbeat(s) \/ HeartbeatExpires(s)
             \/ Kick(s) \/ ChannelLoopEnds(s) \/ ChannelReturns(s)
             \/ OutputHeld(s) \/ (\E o \in {"Completed", "Failed"} : FinishWork(s, o)) \/ FinishExit(s)
             \/ Teardown(s) \/ ClientKicked(s) \/ ClientBroken(s) \/ NetworkLoss(s) \/ ClientCrash(s)
      PROVE  UNCHANGED started
  BY <1>4 DEF Dequeue, SendOK, SendFails, MarkSent, ConsumerExit, OpenChannel, HandleResult, Heartbeat,
              HeartbeatExpires, SetOnline, Kick, ChannelLoopEnds, ChannelReturns, OutputHeld, FinishWork,
              FinishExit, Finish, Teardown, ClientKicked, ClientBroken, NetworkLoss, ClientCrash
<1>5. CASE Register
  BY <1>1, <1>5 DEF Register
<1>6. CASE ServerCrash
  BY <1>1, <1>6 DEF ServerCrash
<1>7. CASE UNCHANGED vars
  BY <1>1, <1>7 DEF vars
<1>. QED  BY <1>1, <1>2, <1>3, <1>4, <1>5, <1>6, <1>7 DEF Next

\* The command that a client receives has not begun and has no outcome.
LEMMA ReceiveNew ==
    ASSUME TypeOK, OrderInv, PlaceInv, NEW s \in Sessions, Receive(s)
    PROVE  /\ Head(down[s]) \in Commands /\ Gone(Head(down[s]), s)
           /\ Head(down[s]) \notin Begun /\ outcome[Head(down[s])] = "None"
           /\ Head(down[s]) \in Begun'
<1>1. /\ down[s] \in Seq(Commands) /\ down[s] # <<>> /\ Head(down[s]) \in Commands
      /\ Head(down[s]) \in Elements(down[s])
  BY HeadTailProperties, SequenceElements DEF TypeOK, Receive
<1>2. Gone(Head(down[s]), s) /\ target[Head(down[s])] = s
  BY <1>1, GoneTarget DEF Gone, PlaceInv
<1>3. ASSUME NEW t \in Sessions, Head(down[s]) \in Elements(started[t]) PROVE FALSE
  <2>1. t = s
    BY <1>1, <1>2, <1>3, GoneTarget DEF Gone, PlaceInv
  <2>. QED  BY <1>1, <1>3, <2>1, GoneAccepted DEF PlaceInv
<1>4. Head(down[s]) \notin Begun
  BY <1>3 DEF Begun
<1>5. Head(down[s]) \in Begun'
  <2>1. started[s] \in Seq(Commands) /\ started'[s] = Append(started[s], Head(down[s]))
    BY DEF TypeOK, Receive
  <2>2. Head(down[s]) \in Elements(started'[s])
    BY <1>1, <2>1, AppendElements
  <2>. QED  BY <2>2 DEF Begun, Elements
<1>. QED  BY <1>1, <1>2, <1>4, <1>5 DEF PlaceInv, ResultsTruthful

\* A result on the stream is true.
Truthful(r) == IF r.status = "Executing" THEN r.cmd \in Begun ELSE outcome[r.cmd] = r.status

\* What a stream carries after a report is what it carried and the report.
LEMMA ReportElements ==
    ASSUME TypeOK, NEW s \in Sessions, NEW c \in Commands,
           NEW o \in {"Executing", "Completed", "Failed"}, Report(s, c, o), NEW t \in Sessions
    PROVE  Elements(up'[t]) \subseteq Elements(up[t]) \cup {[cmd |-> c, status |-> o]}
<1>1. up[t] \in Seq(Results) /\ [cmd |-> c, status |-> o] \in Results
  BY DEF TypeOK, Results
<1>2. up'[t] = up[t] \/ up'[t] = Append(up[t], [cmd |-> c, status |-> o])
  BY DEF TypeOK, Report
<1>. QED  BY <1>1, <1>2, AppendElements

\* A command ends once, and what the client reports of it is true.
LEMMA NextResultsTruthful ==
    ASSUME TypeOK, OrderInv, PlaceInv, [Next]_vars
    PROVE  ResultsTruthful'
<1>. USE DEF sessionVars, consumerVars, callVars, storeVars, linkVars, clientVars, historyVars, Working
<1>1. /\ Working => current \in Begun /\ outcome[current] = "None"
      /\ \A c \in Commands : outcome[c] # "None" => c \in Begun
      /\ \A t \in Sessions : \A r \in Elements(up[t]) : r \in Results /\ Truthful(r)
  <2>1. ASSUME NEW t \in Sessions PROVE Elements(up[t]) \subseteq Results
    <3>1. up[t] \in Seq(Results)
      BY DEF TypeOK
    <3>. QED  BY <3>1, SequenceElements
  <2>. QED  BY <2>1 DEF PlaceInv, ResultsTruthful, Truthful
<1>2. Begun \subseteq Begun'
  BY NextBegun
<1>3. ASSUME UNCHANGED outcome,
             Working' => Working /\ UNCHANGED current,
             \A t \in Sessions : Elements(up[t])' \subseteq Elements(up[t])
      PROVE  ResultsTruthful'
  BY <1>1, <1>2, <1>3 DEF ResultsTruthful, Truthful
<1>4. UNCHANGED up => \A t \in Sessions : Elements(up[t])' \subseteq Elements(up[t])
  BY DEF Elements
<1>5. ASSUME NEW c \in Commands,
             SendOffline(c) \/ SendSave(c) \/ SendEnqueue(c) \/ SendFull(c) \/ Timeout(c)
      PROVE  UNCHANGED <<outcome, client, current, up>>
  BY <1>5 DEF SendOffline, SendSave, SendEnqueue, SendFull, Timeout
<1>6. ASSUME NEW s \in Sessions,
             \/ Dequeue(s) \/ SendOK(s) \/ SendFails(s) \/ MarkSent(s) \/ ConsumerExit(s)
             \/ Heartbeat(s) \/ HeartbeatExpires(s) \/ Kick(s) \/ ChannelReturns(s)
      PROVE  UNCHANGED <<outcome, client, current, up>>
  BY <1>6 DEF Dequeue, SendOK, SendFails, MarkSent, ConsumerExit, Heartbeat,
              HeartbeatExpires, SetOnline, Kick, ChannelReturns
<1>7. ASSUME NEW s \in Sessions, OpenChannel(s) \/ OutputHeld(s) \/ ClientKicked(s) \/ ClientBroken(s)
      PROVE  UNCHANGED <<outcome, up>> /\ (Working' => Working /\ UNCHANGED current)
  BY <1>7 DEF OpenChannel, OutputHeld, ClientKicked, ClientBroken
<1>8. ASSUME NEW s \in Sessions, HandleResult(s) PROVE ResultsTruthful'
  <2>1. UNCHANGED <<outcome, client, current>> /\ up[s] # <<>> /\ up[s] \in Seq(Results)
    BY <1>8 DEF TypeOK, HandleResult
  <2>2. \A t \in Sessions : up'[t] = up[t] \/ (t = s /\ up'[t] = Tail(up[t]))
    BY <1>8 DEF TypeOK, HandleResult
  <2>3. Elements(Tail(up[s])) \subseteq Elements(up[s])
    BY <2>1, TailElements
  <2>4. \A t \in Sessions : Elements(up[t])' \subseteq Elements(up[t])
    BY <2>2, <2>3 DEF Elements
  <2>. QED  BY <1>3, <2>1, <2>4
<1>9. ASSUME NEW s \in Sessions, ChannelLoopEnds(s) PROVE ResultsTruthful'
  <2>1. UNCHANGED <<outcome, client, current>>
    BY <1>9 DEF ChannelLoopEnds
  <2>2. \A t \in Sessions : up'[t] = up[t] \/ up'[t] = <<>>
    BY <1>9 DEF TypeOK, ChannelLoopEnds
  <2>3. \A t \in Sessions : Elements(up[t])' \subseteq Elements(up[t])
    BY <2>2 DEF Elements
  <2>. QED  BY <1>3, <2>1, <2>3
<1>10. ASSUME NEW s \in Sessions, Receive(s) PROVE ResultsTruthful'
  <2>1. /\ outcome' = outcome /\ client' = "running" /\ current' = Head(down[s])
        /\ Report(s, Head(down[s]), "Executing")
    BY <1>10 DEF Receive
  <2>2. /\ Head(down[s]) \in Commands /\ outcome[Head(down[s])] = "None" /\ Head(down[s]) \in Begun'
    BY <1>10, ReceiveNew
  <2>3. \A t \in Sessions : Elements(up'[t]) \subseteq
            Elements(up[t]) \cup {[cmd |-> Head(down[s]), status |-> "Executing"]}
    BY <2>1, <2>2, ReportElements
  <2>4. \A t \in Sessions : \A r \in Elements(up[t])' : Truthful(r)'
    <3>1. ASSUME NEW r \in Results, Truthful(r) PROVE Truthful(r)'
      BY <1>2, <2>1, <3>1 DEF Truthful
    <3>2. ASSUME NEW r, r = [cmd |-> Head(down[s]), status |-> "Executing"] PROVE Truthful(r)'
      <4>1. r.cmd = Head(down[s]) /\ r.status = "Executing"
        BY <3>2
      <4>. QED  BY <2>2, <4>1 DEF Truthful
    <3>3. \A t \in Sessions : Elements(up[t])' = Elements(up'[t])
      BY DEF Elements
    <3>. QED  BY <1>1, <2>3, <3>1, <3>2, <3>3
  <2>. QED  BY <1>1, <1>2, <2>1, <2>2, <2>4 DEF ResultsTruthful, Truthful
<1>11. ASSUME NEW s \in Sessions, NEW o \in {"Completed", "Failed"}, Finish(s, o), ~Working'
       PROVE  ResultsTruthful'
  <2>1. /\ current \in Commands /\ current \in Begun /\ outcome[current] = "None"
        /\ outcome' = [outcome EXCEPT ![current] = o] /\ Report(s, current, o)
    BY <1>1, <1>11 DEF TypeOK, Finish
  <2>2. \A t \in Sessions : Elements(up'[t]) \subseteq
            Elements(up[t]) \cup {[cmd |-> current, status |-> o]}
    BY <2>1, ReportElements
  <2>3. outcome'[current] = o /\ \A c \in Commands : c # current => outcome'[c] = outcome[c]
    BY <2>1 DEF TypeOK
  <2>4. \A t \in Sessions : \A r \in Elements(up[t])' : Truthful(r)'
    <3>1. ASSUME NEW r \in Results, Truthful(r) PROVE Truthful(r)'
      <4>1. r.cmd \in Commands /\ r.status \in {"Executing", "Completed", "Failed"}
        BY DEF Results
      <4>. QED  BY <1>2, <2>1, <2>3, <3>1, <4>1 DEF Truthful
    <3>2. ASSUME NEW r, r = [cmd |-> current, status |-> o] PROVE Truthful(r)'
      <4>1. r.cmd = current /\ r.status = o
        BY <3>2
      <4>. QED  BY <2>3, <4>1 DEF Truthful
    <3>3. \A t \in Sessions : Elements(up[t])' = Elements(up'[t])
      BY DEF Elements
    <3>. QED  BY <1>1, <2>2, <3>1, <3>2, <3>3
  <2>5. \A c \in Commands : outcome'[c] # "None" => c \in Begun'
    BY <1>1, <1>2, <2>1, <2>3
  <2>. QED  BY <1>11, <2>4, <2>5 DEF ResultsTruthful, Truthful
<1>12. ASSUME NEW s \in Sessions, (\E o \in {"Completed", "Failed"} : FinishWork(s, o)) \/ FinishExit(s)
       PROVE  ResultsTruthful'
  BY <1>11, <1>12 DEF FinishWork, FinishExit
<1>13. ASSUME NEW s \in Sessions, CutUp(s)
       PROVE  \A t \in Sessions : Elements(up[t])' \subseteq Elements(up[t])
  <2>1. PICK n \in 0..Len(up[s]) : up' = [up EXCEPT ![s] = Prefix(@, n)]
    BY <1>13 DEF CutUp
  <2>2. Elements(Prefix(up[s], n)) \subseteq Elements(up[s])
    BY PrefixElements DEF TypeOK
  <2>3. \A t \in Sessions : up'[t] = up[t] \/ (t = s /\ up'[t] = Prefix(up[s], n))
    BY <2>1 DEF TypeOK
  <2>. QED  BY <2>2, <2>3 DEF Elements
<1>14. ASSUME NEW s \in Sessions, Teardown(s) \/ NetworkLoss(s) \/ ClientCrash(s) PROVE ResultsTruthful'
  <2>1. CutUp(s)
    BY <1>14 DEF Teardown, NetworkLoss, ClientCrash, CloseStream
  <2>2. UNCHANGED outcome /\ (Working' => Working /\ UNCHANGED current)
    BY <1>14 DEF Working, Teardown, NetworkLoss, ClientCrash
  <2>. QED  BY <1>3, <1>13, <2>1, <2>2
<1>15. CASE Register
  BY <1>3, <1>4, <1>15 DEF Register
<1>16. CASE ServerCrash
  <2>1. \A t \in Sessions : Elements(up[t])' \subseteq Elements(up[t])
    BY <1>16 DEF ServerCrash, Elements
  <2>. QED  BY <1>3, <1>16, <2>1 DEF ServerCrash
<1>17. CASE UNCHANGED vars
  BY <1>3, <1>4, <1>17 DEF vars
<1>18. ASSUME NEW c \in Commands,
             SendOffline(c) \/ SendSave(c) \/ SendEnqueue(c) \/ SendFull(c) \/ Timeout(c)
      PROVE  ResultsTruthful'
  BY <1>3, <1>4, <1>5, <1>18
<1>19. ASSUME NEW s \in Sessions,
             \/ Dequeue(s) \/ SendOK(s) \/ SendFails(s) \/ MarkSent(s) \/ ConsumerExit(s)
             \/ Heartbeat(s) \/ HeartbeatExpires(s) \/ Kick(s) \/ ChannelReturns(s)
      PROVE  ResultsTruthful'
  BY <1>3, <1>4, <1>6, <1>19
<1>20. ASSUME NEW s \in Sessions, OpenChannel(s) \/ OutputHeld(s) \/ ClientKicked(s) \/ ClientBroken(s)
       PROVE  ResultsTruthful'
  BY <1>3, <1>4, <1>7, <1>20
<1>. QED
  BY <1>8, <1>9, <1>10, <1>12, <1>14, <1>15, <1>16, <1>17, <1>18, <1>19, <1>20 DEF Next

\* An update writes to a row what is true of its command.
LEMMA NextRecordTruthful ==
    ASSUME TypeOK, OrderInv, PlaceInv, RecordTruthful, [Next]_vars
    PROVE  RecordTruthful'
<1>. USE DEF sessionVars, consumerVars, callVars, storeVars, linkVars, clientVars, historyVars
<1>. DEFINE True(d) == /\ status'[d] = "Executing" => d \in Begun'
                       /\ status'[d] = "Completed" => outcome'[d] = "Completed"
                       /\ status'[d] = "Failed" => outcome'[d] = "Failed" \/ d \in refused'
                       /\ status'[d] \in {"Sent", "Timeout"} => admin'[d] = "queued" /\ d \notin refused'
<1>. SUFFICES ASSUME NEW d \in Commands PROVE True(d)
  BY DEF RecordTruthful
<1>1. /\ status[d] = "Executing" => d \in Begun
      /\ status[d] = "Completed" => outcome[d] = "Completed"
      /\ status[d] = "Failed" => outcome[d] = "Failed" \/ d \in refused
      /\ status[d] \in {"Sent", "Timeout"} => admin[d] = "queued" /\ d \notin refused
  BY DEF RecordTruthful
<1>2. d \in Begun => d \in Begun'
  BY NextBegun
<1>3. CASE UNCHANGED <<status, outcome, refused, admin>>
  BY <1>1, <1>2, <1>3
<1>4. ASSUME NEW c \in Commands, SendOffline(c) \/ SendSave(c) \/ SendEnqueue(c) PROVE True(d)
  <2>1. /\ admin[c] \in {"idle", "saved"} /\ UNCHANGED <<outcome, refused>>
        /\ c # d => admin'[d] = admin[d]
    BY <1>4 DEF TypeOK, SendOffline, SendSave, SendEnqueue, Reply
  <2>2. status'[d] = status[d] \/ status'[d] = "Pending"
    BY <1>4, StatusChange DEF SendOffline, SendSave, SendEnqueue
  <2>. QED  BY <1>1, <1>2, <2>1, <2>2
<1>5. ASSUME NEW c \in Commands, SendFull(c) PROVE True(d)
  <2>1. /\ admin[c] = "saved" /\ UNCHANGED outcome /\ refused' = refused \cup {c}
        /\ c # d => admin'[d] = admin[d]
    BY <1>5 DEF TypeOK, SendFull, Reply
  <2>2. status'[d] = status[d] \/ (d = c /\ status'[d] = "Failed")
    BY <1>5, StatusChange DEF SendFull
  <2>. QED  BY <1>1, <1>2, <2>1, <2>2
<1>6. ASSUME NEW c \in Commands, Timeout(c) PROVE True(d)
  <2>1. watcher[c] = "armed" /\ UNCHANGED <<outcome, refused, admin>>
    BY <1>6 DEF Timeout
  <2>2. status'[d] = status[d] \/ (d = c /\ status'[d] = "Timeout")
    BY <1>6, StatusChange DEF Timeout
  <2>. QED  BY <1>1, <1>2, <2>1, <2>2 DEF PlaceInv, GivenUp
<1>7. ASSUME NEW s \in Sessions, SendFails(s) PROVE True(d)
  <2>1. /\ held[s] \in Commands /\ UNCHANGED <<outcome, admin>> /\ refused' = refused \cup {held[s]}
        /\ Unmarked(held[s], s)
    BY <1>7 DEF TypeOK, SendFails, Unmarked, Busy
  <2>2. status[held[s]] \notin {"Sent", "Timeout"}
    BY <2>1 DEF PlaceInv, WaitsOnce
  <2>3. status'[d] = status[d] \/ (d = held[s] /\ status'[d] = "Failed")
    BY <1>7, <2>1, StatusChange DEF SendFails
  <2>. QED  BY <1>1, <1>2, <2>1, <2>2, <2>3
<1>8. ASSUME NEW s \in Sessions, MarkSent(s) PROVE True(d)
  <2>1. held[s] \in Commands /\ UNCHANGED <<outcome, admin, refused>> /\ Unmarked(held[s], s)
    BY <1>8 DEF TypeOK, MarkSent, Unmarked, Busy
  <2>2. admin[held[s]] = "queued" /\ held[s] \notin refused
    BY <2>1 DEF PlaceInv, WaitsOnce
  <2>3. status'[d] = status[d] \/ (d = held[s] /\ status'[d] = "Sent")
    BY <1>8, <2>1, StatusChange DEF MarkSent
  <2>. QED  BY <1>1, <1>2, <2>1, <2>2, <2>3
<1>9. ASSUME NEW s \in Sessions, HandleResult(s) PROVE True(d)
  <2>1. /\ up[s] \in Seq(Results) /\ up[s] # <<>> /\ UNCHANGED <<outcome, admin, refused>>
        /\ Head(up[s]) \in Results
    BY <1>9, HeadTailProperties DEF TypeOK, HandleResult
  <2>2. Head(up[s]).cmd \in Commands /\ Head(up[s]).status \in {"Executing", "Completed", "Failed"}
    BY <2>1 DEF Results
  <2>3. Truthful(Head(up[s]))
    BY <2>1, SequenceElements DEF PlaceInv, ResultsTruthful, Truthful
  <2>4. status'[d] = status[d] \/ (d = Head(up[s]).cmd /\ status'[d] = Head(up[s]).status)
    BY <1>9, <2>2, StatusChange DEF HandleResult
  <2>. QED  BY <1>1, <1>2, <2>1, <2>2, <2>3, <2>4 DEF Truthful
<1>10. ASSUME NEW s \in Sessions, (\E o \in {"Completed", "Failed"} : FinishWork(s, o)) \/ FinishExit(s)
       PROVE  True(d)
  <2>1. Working /\ UNCHANGED <<status, admin, refused>>
    BY <1>10 DEF FinishWork, FinishExit, Finish
  <2>2. outcome[current] = "None" /\ (d # current => outcome'[d] = outcome[d])
    BY <1>10, <2>1 DEF TypeOK, Working, FinishWork, FinishExit, Finish, PlaceInv, ResultsTruthful
  <2>. QED  BY <1>1, <1>2, <2>1, <2>2
<1>11. ASSUME NEW s \in Sessions,
              \/ Dequeue(s) \/ SendOK(s) \/ ConsumerExit(s) \/ OpenChannel(s)
              \/ Heartbeat(s) \/ HeartbeatExpires(s) \/ Kick(s) \/ ChannelLoopEnds(s)
              \/ ChannelReturns(s)
       PROVE  UNCHANGED <<status, outcome, refused, admin>>
  BY <1>11 DEF Dequeue, SendOK, ConsumerExit, OpenChannel, Heartbeat, HeartbeatExpires, SetOnline,
               Kick, ChannelLoopEnds, ChannelReturns
<1>12. ASSUME NEW s \in Sessions,
              \/ Receive(s) \/ OutputHeld(s) \/ Teardown(s) \/ ClientKicked(s) \/ ClientBroken(s)
              \/ NetworkLoss(s) \/ ClientCrash(s)
       PROVE  UNCHANGED <<status, outcome, refused, admin>>
  BY <1>12 DEF Receive, OutputHeld, Teardown, ClientKicked, ClientBroken, NetworkLoss, ClientCrash
<1>13. CASE Register
  BY <1>3, <1>13 DEF Register
<1>14. CASE ServerCrash
  BY <1>1, <1>2, <1>14 DEF ServerCrash
<1>15. CASE UNCHANGED vars
  BY <1>3, <1>15 DEF vars
<1>. QED
  BY <1>3, <1>4, <1>5, <1>6, <1>7, <1>8, <1>9, <1>10, <1>11, <1>12, <1>13, <1>14, <1>15 DEF Next

PipelineInv == TypeOK /\ OrderInv /\ PlaceInv /\ RecordTruthful

LEMMA PipelineInvariant == Spec => []PipelineInv
<1>1. Init => PlaceInv /\ RecordTruthful
  BY InitPlaceInv
<1>2. TypeOK /\ OrderInv /\ PlaceInv /\ RecordTruthful /\ [Next]_vars => (PlaceInv /\ RecordTruthful)'
  BY NextAcceptedOnce, NextWaitsOnce, NextGivenUp, NextResultsTruthful, NextRecordTruthful DEF PlaceInv
<1>3. TypeOK /\ OrderInv /\ PlaceInv /\ RecordTruthful <=> PipelineInv
  BY DEF PipelineInv
<1>. QED  BY <1>1, <1>2, <1>3, PipelineOrderInv, PTL DEF Spec

\* A row never claims what did not happen: Executing only of a command that began,
\* Completed and Failed only of one that so ended (or Failed of one given up on), Sent and
\* Timeout only of one accepted and not given up on; whatever is cut, lost or restarted.
THEOREM PipelineRecordTruthful == Spec => []RecordTruthful
<1>1. PipelineInv => RecordTruthful
  BY DEF PipelineInv
<1>. QED  BY <1>1, PipelineInvariant, PTL

(***************************************************************************)
(* The pipeline implements CommandDelivery: accepted is the order, started *)
(* what began, and the row of a command is its record.                     *)
(***************************************************************************)
deliveryVars == <<accepted, started, outcome, refused, status>>

\* Commands that the abstract specification calls begun, or accepted.
LEMMA DeliverySets ==
    ASSUME TypeOK, OrderInv, PlaceInv
    PROVE  /\ Delivery!Begun = Begun
           /\ \A c \in Commands : c \in Delivery!Accepted <=> admin[c] = "queued"
           /\ \A c \in Begun : c \in Commands /\ admin[c] = "queued" /\ c \notin refused
<1>1. Delivery!Begun = Begun
  BY DEF Delivery!Begun, Begun, Delivery!Elements, Elements
<1>2. ASSUME NEW c \in Commands PROVE c \in Delivery!Accepted <=> admin[c] = "queued"
  <2>1. c \in Delivery!Accepted <=> \E s \in Sessions : c \in Elements(accepted[s])
    BY DEF Delivery!Accepted, Delivery!Elements, Elements
  <2>. QED  BY <2>1 DEF PlaceInv, AcceptedOnce
<1>3. ASSUME NEW c \in Begun PROVE c \in Commands /\ admin[c] = "queued" /\ c \notin refused
  <2>1. PICK s \in Sessions : c \in Elements(started[s])
    BY DEF Begun
  <2>2. c \in Commands
    <3>1. started[s] \in Seq(Commands)
      BY DEF TypeOK
    <3>. QED  BY <2>1, <3>1, SequenceElements
  <2>3. Gone(c, s)
    BY <2>1 DEF Gone
  <2>. QED  BY <2>2, <2>3, GoneTarget DEF PlaceInv, GivenUp
<1>. QED  BY <1>1, <1>2, <1>3

\* A write of a justified status is a Record step, or none.
LEMMA RecordStep ==
    ASSUME TypeOK, NEW c \in Commands,
           NEW v \in {"Pending", "Sent", "Timeout", "Executing", "Completed", "Failed"},
           WriteStatus(c, v), Delivery!Justified(c, v),
           UNCHANGED <<accepted, started, outcome, refused>>
    PROVE  Delivery!Next \/ UNCHANGED deliveryVars
<1>1. CASE status' = [status EXCEPT ![c] = v]
  <2>1. Delivery!Record(c, v)
    BY <1>1 DEF Delivery!Record
  <2>. QED  BY <2>1 DEF Delivery!Next
<1>2. CASE status' = status
  BY <1>2 DEF deliveryVars
<1>. QED  BY <1>1, <1>2 DEF WriteStatus

\* Giving up on a command is a Refuse step.
LEMMA RefuseStep ==
    ASSUME TypeOK, NEW c \in Commands, WriteStatus(c, "Failed"), refused' = refused \cup {c},
           c \notin Delivery!Begun, c \notin refused, UNCHANGED <<accepted, started, outcome>>
    PROVE  Delivery!Next
<1>1. status' = status \/ status' = [status EXCEPT ![c] = "Failed"]
  BY DEF WriteStatus
<1>2. Delivery!Refuse(c)
  BY <1>1 DEF Delivery!Refuse
<1>. QED  BY <1>2 DEF Delivery!Next

\* Every step is a step of CommandDelivery, or changes nothing that it speaks of.
LEMMA NextImplements ==
    ASSUME PipelineInv, [Next]_vars
    PROVE  Delivery!Next \/ UNCHANGED deliveryVars
<1>. USE DEF sessionVars, consumerVars, callVars, storeVars, linkVars, clientVars, historyVars
<1>1. TypeOK /\ OrderInv /\ PlaceInv /\ RecordTruthful
  BY DEF PipelineInv
<1>2. /\ Delivery!Begun = Begun
      /\ \A c \in Commands : c \in Delivery!Accepted <=> admin[c] = "queued"
      /\ \A c \in Begun : c \in Commands /\ admin[c] = "queued" /\ c \notin refused
  BY <1>1, DeliverySets
<1>3. ASSUME NEW c \in Commands, SendSave(c) PROVE Delivery!Next \/ UNCHANGED deliveryVars
  <2>1. /\ WriteStatus(c, "Pending") /\ admin[c] = "idle"
        /\ UNCHANGED <<accepted, started, outcome, refused>>
    BY <1>3 DEF SendSave
  <2>2. Delivery!Justified(c, "Pending")
    BY <1>2, <2>1 DEF Delivery!Justified
  <2>. QED  BY <1>1, <2>1, <2>2, RecordStep
<1>4. ASSUME NEW c \in Commands, SendEnqueue(c) PROVE Delivery!Next
  <2>1. target[c] \in 1..latest /\ latest \in 0..MaxSession
    BY <1>1, <1>4 DEF TypeOK, OrderInv, Registered, SendEnqueue
  <2>2. target[c] \in Sessions
    BY <2>1, BoundsAssumption DEF Sessions
  <2>3. c \notin Delivery!Accepted /\ c \notin refused
    BY <1>1, <1>2, <1>4 DEF PlaceInv, GivenUp, SendEnqueue
  <2>4. Delivery!Accept(c, target[c])
    BY <1>4, <2>3 DEF SendEnqueue, Delivery!Accept
  <2>. QED  BY <2>2, <2>4 DEF Delivery!Next
<1>5. ASSUME NEW c \in Commands, SendFull(c) PROVE Delivery!Next
  <2>1. admin[c] = "saved" /\ WriteStatus(c, "Failed") /\ refused' = refused \cup {c}
    BY <1>5 DEF SendFull
  <2>2. c \notin Delivery!Begun /\ c \notin refused
    BY <1>1, <1>2, <2>1 DEF PlaceInv, GivenUp
  <2>3. UNCHANGED <<accepted, started, outcome>>
    BY <1>5 DEF SendFull
  <2>. QED  BY <1>1, <2>1, <2>2, <2>3, RefuseStep
<1>6. ASSUME NEW c \in Commands, Timeout(c) PROVE Delivery!Next \/ UNCHANGED deliveryVars
  <2>1. UNCHANGED <<accepted, started, outcome, refused>> /\ watcher[c] = "armed"
    BY <1>6 DEF Timeout
  <2>2. Delivery!Justified(c, "Timeout")
    BY <1>1, <1>2, <2>1 DEF PlaceInv, GivenUp, Delivery!Justified
  <2>3. WriteStatus(c, "Timeout") \/ status' = status
    BY <1>6 DEF Timeout
  <2>. QED  BY <1>1, <2>1, <2>2, <2>3, RecordStep DEF deliveryVars
<1>7. ASSUME NEW s \in Sessions, SendFails(s) PROVE Delivery!Next
  <2>1. /\ held[s] \in Commands /\ WriteStatus(held[s], "Failed") /\ refused' = refused \cup {held[s]}
        /\ UNCHANGED <<accepted, started, outcome>>
    BY <1>1, <1>7 DEF TypeOK, SendFails
  <2>2. Unmarked(held[s], s) /\ Unsent(held[s], s)
    BY <1>7 DEF SendFails, Unmarked, Unsent, Busy
  <2>3. held[s] \notin refused /\ target[held[s]] = s /\ ~Gone(held[s], s)
    BY <1>1, <2>1, <2>2 DEF PlaceInv, WaitsOnce
  <2>4. held[s] \notin Delivery!Begun
    <3>. SUFFICES ASSUME NEW t \in Sessions, held[s] \in Elements(started[t]) PROVE FALSE
      BY <1>2 DEF Begun
    <3>1. Gone(held[s], t)
      BY DEF Gone
    <3>. QED  BY <1>1, <2>1, <2>3, <3>1, GoneTarget DEF PlaceInv
  <2>. QED  BY <1>1, <2>1, <2>3, <2>4, RefuseStep
<1>8. ASSUME NEW s \in Sessions, MarkSent(s) PROVE Delivery!Next \/ UNCHANGED deliveryVars
  <2>1. /\ held[s] \in Commands /\ WriteStatus(held[s], "Sent") /\ Unmarked(held[s], s)
        /\ UNCHANGED <<accepted, started, outcome, refused>>
    BY <1>1, <1>8 DEF TypeOK, MarkSent, Unmarked, Busy
  <2>2. admin[held[s]] = "queued" /\ held[s] \notin refused
    BY <1>1, <2>1 DEF PlaceInv, WaitsOnce
  <2>3. Delivery!Justified(held[s], "Sent")
    BY <1>2, <2>1, <2>2 DEF Delivery!Justified
  <2>. QED  BY <1>1, <2>1, <2>3, RecordStep
<1>9. ASSUME NEW s \in Sessions, HandleResult(s) PROVE Delivery!Next \/ UNCHANGED deliveryVars
  <2>1. /\ up[s] \in Seq(Results) /\ up[s] # <<>> /\ Head(up[s]) \in Results
        /\ UNCHANGED <<accepted, started, outcome, refused>>
    BY <1>1, <1>9, HeadTailProperties DEF TypeOK, HandleResult
  <2>2. Head(up[s]).cmd \in Commands /\ Head(up[s]).status \in {"Executing", "Completed", "Failed"}
    BY <2>1 DEF Results
  <2>3. Truthful(Head(up[s]))
    BY <1>1, <2>1, SequenceElements DEF PlaceInv, ResultsTruthful, Truthful
  <2>4. Delivery!Justified(Head(up[s]).cmd, Head(up[s]).status)
    BY <1>2, <2>2, <2>3 DEF Delivery!Justified, Truthful
  <2>5. WriteStatus(Head(up[s]).cmd, Head(up[s]).status)
    BY <1>9 DEF HandleResult
  <2>. QED  BY <1>1, <2>1, <2>2, <2>4, <2>5, RecordStep
<1>10. ASSUME NEW s \in Sessions, Receive(s) PROVE Delivery!Next
  <2>1. Head(down[s]) \in Commands /\ Gone(Head(down[s]), s)
    BY <1>1, <1>10, ReceiveNew
  <2>2. /\ Len(started[s]) < Len(accepted[s])
        /\ accepted[s][Len(started[s]) + 1] = Head(down[s])
    BY <1>1, <1>10, GoneAccepted DEF PlaceInv, Receive
  <2>3. Head(down[s]) \notin refused
    BY <1>1, <2>1 DEF PlaceInv, GivenUp
  <2>4. /\ started' = [started EXCEPT ![s] = Append(@, Head(down[s]))]
        /\ UNCHANGED <<accepted, outcome, refused, status>>
    BY <1>10 DEF Receive
  <2>5. started' = [started EXCEPT ![s] = Append(@, accepted[s][Len(@) + 1])]
    BY <2>2, <2>4
  <2>6. Delivery!Begin(s)
    BY <2>2, <2>3, <2>4, <2>5 DEF Delivery!Begin
  <2>. QED  BY <2>6 DEF Delivery!Next
<1>11. ASSUME NEW s \in Sessions, NEW o \in {"Completed", "Failed"}, Finish(s, o), status' = status
       PROVE  Delivery!Next
  <2>1. current \in Commands /\ current \in Begun /\ outcome[current] = "None"
    BY <1>1, <1>11 DEF TypeOK, Working, PlaceInv, ResultsTruthful, Finish
  <2>2. Delivery!End(current, o)
    BY <1>2, <1>11, <2>1 DEF Finish, Delivery!End
  <2>. QED  BY <2>1, <2>2 DEF Delivery!Next
<1>12. ASSUME NEW s \in Sessions, (\E o \in {"Completed", "Failed"} : FinishWork(s, o)) \/ FinishExit(s)
       PROVE  Delivery!Next
  BY <1>11, <1>12 DEF FinishWork, FinishExit, Finish
<1>13. ASSUME NEW c \in Commands, SendOffline(c) PROVE UNCHANGED deliveryVars
  BY <1>13 DEF SendOffline, deliveryVars
<1>14. ASSUME NEW s \in Sessions,
              \/ Dequeue(s) \/ SendOK(s) \/ ConsumerExit(s) \/ OpenChannel(s)
              \/ Heartbeat(s) \/ HeartbeatExpires(s) \/ Kick(s) \/ ChannelLoopEnds(s)
              \/ ChannelReturns(s)
       PROVE  UNCHANGED deliveryVars
  BY <1>14 DEF Dequeue, SendOK, ConsumerExit, OpenChannel, Heartbeat, HeartbeatExpires, SetOnline,
               Kick, ChannelLoopEnds, ChannelReturns, deliveryVars
<1>15. ASSUME NEW s \in Sessions,
              \/ OutputHeld(s) \/ Teardown(s) \/ ClientKicked(s) \/ ClientBroken(s)
              \/ NetworkLoss(s) \/ ClientCrash(s)
       PROVE  UNCHANGED deliveryVars
  BY <1>15 DEF OutputHeld, Teardown, ClientKicked, ClientBroken, NetworkLoss, ClientCrash, deliveryVars
<1>16. Register \/ ServerCrash \/ UNCHANGED vars => UNCHANGED deliveryVars
  BY DEF Register, ServerCrash, vars, deliveryVars
<1>. QED
  BY <1>3, <1>4, <1>5, <1>6, <1>7, <1>8, <1>9, <1>10, <1>12, <1>13, <1>14, <1>15, <1>16 DEF Next

\* Queues, goroutines, streams, clients that reconnect and servers that restart add up to
\* what CommandDelivery promises: commands begin in their order and once, one given up on
\* never begins, and the row of a command moves from one true claim to another.
THEOREM PipelineImplements == Spec => Implements
<1>1. Init => Delivery!Init
  BY DEF Init, Delivery!Init
<1>2. PipelineInv /\ [Next]_vars => Delivery!Next \/ UNCHANGED deliveryVars
  BY NextImplements
<1>3. UNCHANGED deliveryVars => UNCHANGED Delivery!vars
  BY DEF deliveryVars, Delivery!vars
<1>4. PipelineInv /\ [Next]_vars => [Delivery!Next]_(Delivery!vars)
  BY <1>2, <1>3
<1>. QED  BY <1>1, <1>4, PipelineInvariant, PTL DEF Spec, Implements, Delivery!Spec
=============================================================================
