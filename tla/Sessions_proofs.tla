-------------------------- MODULE Sessions_proofs --------------------------
(***************************************************************************)
(* Theorems about Sessions, for any devices, session ids and bounds: the   *)
(* type invariant; that both online flags belong to a stream being served; *)
(* what a block achieves; and how far overlapping Register calls may       *)
(* exceed the capacity.                                                    *)
(***************************************************************************)
EXTENDS Sessions, FiniteSetTheorems, TLAPS

(***************************************************************************)
(* Type correctness.                                                       *)
(***************************************************************************)

\* The initial state is well typed.
LEMMA InitTypeOK == Init => TypeOK
BY MaxFailureAssumption DEF Init, TypeOK

\* What an UPDATE of terminals.online leaves behind.
LEMMA WriteOnlineType ==
    ASSUME TypeOK, NEW s \in SessionIds, NEW value \in BOOLEAN, WriteOnline(s, value)
    PROVE  /\ rowOnline' \in [SessionIds -> BOOLEAN]
           /\ storeFaults' \in 0..MaxFailure
           /\ \A t \in SessionIds : t # s => rowOnline'[t] = rowOnline[t]
           /\ rowOnline'[s] => rowOnline[s] \/ (s \in rows /\ value)
           /\ storeFaults' = 0 => storeFaults = 0
           /\ storeFaults' = 0 /\ s \in rows /\ ~value => ~rowOnline'[s]
<1>1. CASE StoreFails /\ UNCHANGED rowOnline
  BY <1>1, MaxFailureAssumption DEF TypeOK, StoreFails, MayFail
<1>2. CASE /\ rowOnline' = [rowOnline EXCEPT ![s] = IF s \in rows THEN value ELSE @]
           /\ UNCHANGED storeFaults
  <2>1. CASE s \in rows
    BY <1>2, <2>1 DEF TypeOK
  <2>2. CASE s \notin rows
    BY <1>2, <2>2 DEF TypeOK
  <2>. QED  BY <2>1, <2>2
<1>. QED  BY <1>1, <1>2 DEF WriteOnline

\* Every step of every handler keeps the types, and the two sets of known ids.
LEMMA NextTypeOK == TypeOK /\ [Next]_vars => TypeOK'
<1>. SUFFICES ASSUME TypeOK, [Next]_vars PROVE TypeOK'
  OBVIOUS
<1>. USE MaxFailureAssumption, NoDeviceAssumption
<1>1. ASSUME NEW s \in SessionIds, NEW d \in Devices, RegisterAdmit(s, d) PROVE TypeOK'
  <2>1. InFlight' \subseteq SessionIds /\ Cardinality(InFlight') \in Nat
    BY SessionIdsAssumption, FS_Subset, FS_CardinalityType DEF InFlight
  <2>. QED  BY <1>1, <2>1 DEF TypeOK, RegisterAdmit, connVars, rowVars, serverVars
<1>2. ASSUME NEW s \in SessionIds, NEW d \in Devices, RegisterFull(s, d) PROVE TypeOK'
  BY <1>2 DEF TypeOK, RegisterFull, connVars, rowVars, serverVars
<1>3. ASSUME NEW s \in SessionIds, RegisterCheck(s) PROVE TypeOK'
  BY <1>3 DEF TypeOK, RegisterCheck, StoreFails, MayFail, connVars, rowVars, serverVars
<1>4. ASSUME NEW s \in SessionIds, RegisterAdd(s) PROVE TypeOK'
  BY <1>4 DEF TypeOK, RegisterAdd, rowVars, serverVars
<1>5. ASSUME NEW s \in SessionIds, RegisterUpsert(s) PROVE TypeOK'
  BY <1>5 DEF TypeOK, RegisterUpsert, StoreFails, MayFail, connVars, serverVars
<1>6. ASSUME NEW s \in SessionIds, OpenChannel(s) PROVE TypeOK'
  BY <1>6 DEF TypeOK, OpenChannel, rowVars, serverVars
<1>7. ASSUME NEW s \in SessionIds, Heartbeat(s) PROVE TypeOK'
  BY <1>7 DEF TypeOK, Heartbeat, rowVars, serverVars
<1>8. ASSUME NEW s \in SessionIds, HeartbeatPersist(s) PROVE TypeOK'
  BY <1>8, WriteOnlineType DEF TypeOK, HeartbeatPersist, UpdateHeartbeat, connVars, serverVars
<1>9. ASSUME NEW s \in SessionIds, HandlerClears(s) PROVE TypeOK'
  BY <1>9 DEF TypeOK, HandlerClears, ClearStream, rowVars, serverVars
<1>10. ASSUME NEW s \in SessionIds, HandlerCloses(s) PROVE TypeOK'
  BY <1>10, WriteOnlineType DEF TypeOK, HandlerCloses, MarkOffline, connVars, serverVars
<1>11. ASSUME NEW s \in SessionIds, Sweep(s) PROVE TypeOK'
  BY <1>11, WriteOnlineType DEF TypeOK, Sweep, serverVars
<1>12. ASSUME NEW s \in SessionIds, ClientGone(s) PROVE TypeOK'
  BY <1>12 DEF TypeOK, ClientGone, connVars, rowVars, serverVars
<1>13. ASSUME NEW s \in SessionIds, DisconnectTerminal(s) PROVE TypeOK'
  BY <1>13 DEF TypeOK, DisconnectTerminal, KickAll, rowVars, serverVars
<1>14. ASSUME NEW d \in Devices, BlockMark(d) PROVE TypeOK'
  BY <1>14 DEF TypeOK, BlockMark, connVars, serverVars
<1>15. ASSUME NEW d \in Devices, BlockKick(d) PROVE TypeOK'
  BY <1>15 DEF TypeOK, BlockKick, KickAll, rowVars, serverVars
<1>16. ASSUME NEW d \in Devices, UnblockTerminal(d) PROVE TypeOK'
  BY <1>16 DEF TypeOK, UnblockTerminal, connVars, serverVars
<1>17. CASE ServerRestart
  BY <1>17 DEF TypeOK, ServerRestart, Starts, MayFail, rowVars
<1>18. CASE GracefulStop
  BY <1>18 DEF TypeOK, GracefulStop, MayFail, connVars, rowVars
<1>19. CASE ServeReturns
  BY <1>19 DEF TypeOK, ServeReturns, Starts, rowVars
<1>20. CASE UNCHANGED vars
  BY <1>20 DEF TypeOK, vars, connVars, rowVars, serverVars
<1>. QED
  BY <1>1, <1>2, <1>3, <1>4, <1>5, <1>6, <1>7, <1>8, <1>9, <1>10, <1>11, <1>12, <1>13,
     <1>14, <1>15, <1>16, <1>17, <1>18, <1>19, <1>20 DEF Next

\* The types of every variable, and that only ids Register accepted are in the
\* ConnectionManager and in the terminals table.
THEOREM SessionsTypeOK == Spec => []TypeOK
BY InitTypeOK, NextTypeOK, PTL DEF Spec

(***************************************************************************)
(* The online flags.                                                       *)
(***************************************************************************)

\* A handler that has not returned serves a session the manager knows, and a row is
\* online only if it exists.
OnlineInv ==
    /\ OnlineIsAttached
    /\ RowOnlineIsAttached
    /\ \A s \in SessionIds : Attached(s) \/ handler[s] = "cleared" => s \in sessions
    /\ \A s \in SessionIds : rowOnline[s] => s \in rows

LEMMA InitOnlineInv == Init => OnlineInv
BY DEF Init, OnlineInv, OnlineIsAttached, RowOnlineIsAttached, Attached

\* The handler of a session is one goroutine: its heartbeats come before its exit,
\* and the sweep only ever clears a flag.
LEMMA NextOnlineInv == TypeOK /\ OnlineInv /\ [Next]_vars => OnlineInv'
<1>. SUFFICES ASSUME TypeOK, OnlineInv, [Next]_vars PROVE OnlineInv'
  OBVIOUS
<1>. USE DEF OnlineInv, OnlineIsAttached, RowOnlineIsAttached, Attached
<1>1. ASSUME NEW s \in SessionIds, NEW d \in Devices, RegisterAdmit(s, d) PROVE OnlineInv'
  BY <1>1 DEF RegisterAdmit, serverVars, connVars, rowVars
<1>2. ASSUME NEW s \in SessionIds, NEW d \in Devices, RegisterFull(s, d) PROVE OnlineInv'
  BY <1>2 DEF RegisterFull, connVars, rowVars, serverVars
<1>3. ASSUME NEW s \in SessionIds, RegisterCheck(s) PROVE OnlineInv'
  BY <1>3, MaxFailureAssumption DEF TypeOK, RegisterCheck, StoreFails, MayFail, connVars, rowVars, serverVars
<1>4. ASSUME NEW s \in SessionIds, RegisterAdd(s) PROVE OnlineInv'
  BY <1>4 DEF RegisterAdd, rowVars, serverVars
<1>5. ASSUME NEW s \in SessionIds, RegisterUpsert(s) PROVE OnlineInv'
  BY <1>5, MaxFailureAssumption DEF TypeOK, RegisterUpsert, StoreFails, MayFail, connVars, serverVars
<1>6. ASSUME NEW s \in SessionIds, OpenChannel(s) PROVE OnlineInv'
  BY <1>6 DEF TypeOK, OpenChannel, rowVars, serverVars
<1>7. ASSUME NEW s \in SessionIds, Heartbeat(s) PROVE OnlineInv'
  BY <1>7 DEF TypeOK, Heartbeat, rowVars, serverVars
<1>8. ASSUME NEW s \in SessionIds, HeartbeatPersist(s) PROVE OnlineInv'
  <2>1. WriteOnline(s, TRUE) /\ handler[s] = "beating" /\ handler' = [handler EXCEPT ![s] = "open"]
        /\ UNCHANGED <<sessions, online, rows, restarts>>
    BY <1>8 DEF HeartbeatPersist, UpdateHeartbeat, connVars, serverVars
  <2>2. /\ \A t \in SessionIds : t # s => rowOnline'[t] = rowOnline[t]
        /\ rowOnline'[s] => rowOnline[s] \/ s \in rows
        /\ storeFaults' = 0 => storeFaults = 0
    BY <2>1, WriteOnlineType
  <2>. QED  BY <2>1, <2>2 DEF TypeOK
<1>9. ASSUME NEW s \in SessionIds, HandlerClears(s) PROVE OnlineInv'
  BY <1>9 DEF TypeOK, HandlerClears, ClearStream, rowVars, serverVars
<1>10. ASSUME NEW s \in SessionIds, HandlerCloses(s) PROVE OnlineInv'
  <2>1. WriteOnline(s, FALSE) /\ handler[s] = "cleared" /\ handler' = [handler EXCEPT ![s] = "closed"]
        /\ UNCHANGED <<sessions, online, rows, restarts>>
    BY <1>10 DEF HandlerCloses, MarkOffline, connVars, serverVars
  <2>2. /\ \A t \in SessionIds : t # s => rowOnline'[t] = rowOnline[t]
        /\ rowOnline'[s] => rowOnline[s]
        /\ storeFaults' = 0 => storeFaults = 0 /\ (s \in rows => ~rowOnline'[s])
    BY <2>1, WriteOnlineType
  <2>. QED  BY <2>1, <2>2 DEF TypeOK
<1>11. ASSUME NEW s \in SessionIds, Sweep(s) PROVE OnlineInv'
  <2>1. WriteOnline(s, FALSE) /\ online' = [online EXCEPT ![s] = FALSE]
        /\ UNCHANGED <<handler, sessions, rows, restarts>>
    BY <1>11 DEF Sweep, serverVars
  <2>2. /\ \A t \in SessionIds : t # s => rowOnline'[t] = rowOnline[t]
        /\ rowOnline'[s] => rowOnline[s]
        /\ storeFaults' = 0 => storeFaults = 0
    BY <2>1, WriteOnlineType
  <2>. QED  BY <2>1, <2>2 DEF TypeOK
<1>12. ASSUME NEW s \in SessionIds, ClientGone(s) PROVE OnlineInv'
  BY <1>12 DEF ClientGone, connVars, rowVars, serverVars
<1>13. ASSUME NEW s \in SessionIds, DisconnectTerminal(s) PROVE OnlineInv'
  BY <1>13 DEF DisconnectTerminal, rowVars, serverVars
<1>14. ASSUME NEW d \in Devices, BlockMark(d) PROVE OnlineInv'
  BY <1>14 DEF BlockMark, connVars, serverVars
<1>15. ASSUME NEW d \in Devices, BlockKick(d) PROVE OnlineInv'
  BY <1>15 DEF BlockKick, rowVars, serverVars
<1>16. ASSUME NEW d \in Devices, UnblockTerminal(d) PROVE OnlineInv'
  BY <1>16 DEF UnblockTerminal, connVars, serverVars
<1>17. CASE ServerRestart
  BY <1>17 DEF TypeOK, ServerRestart, Starts, rowVars
<1>18. CASE GracefulStop
  BY <1>18 DEF GracefulStop, connVars, rowVars
<1>19. CASE ServeReturns
  BY <1>19 DEF TypeOK, ServeReturns, AllReturned, Starts, rowVars
<1>20. CASE UNCHANGED vars
  BY <1>20 DEF vars, connVars, rowVars, serverVars
<1>. QED
  BY <1>1, <1>2, <1>3, <1>4, <1>5, <1>6, <1>7, <1>8, <1>9, <1>10, <1>11, <1>12, <1>13,
     <1>14, <1>15, <1>16, <1>17, <1>18, <1>19, <1>20 DEF Next

\* No interleaving of heartbeats, sweeps, kicks and handler exits leaves a finished
\* session online in the ConnectionManager.
THEOREM OnlineAttached == Spec => []OnlineIsAttached
<1>1. OnlineInv => OnlineIsAttached
  BY DEF OnlineInv
<1>. QED
  BY <1>1, InitOnlineInv, NextOnlineInv, SessionsTypeOK, PTL DEF Spec

\* Without restarts and failed updates, nor in the terminals table: UpdateHeartbeat
\* never lands after the MarkOffline of the same session.
THEOREM RowOnlineAttached == Spec => []RowOnlineIsAttached
<1>1. OnlineInv => RowOnlineIsAttached
  BY DEF OnlineInv
<1>. QED
  BY <1>1, InitOnlineInv, NextOnlineInv, SessionsTypeOK, PTL DEF Spec

(***************************************************************************)
(* The block.                                                              *)
(***************************************************************************)

\* Every session past the blocklist check, of a device that is blocked when no block is
\* under way, was kicked or slipped; a row is blocked only if it exists.
BlockInv ==
    /\ \A s \in SessionIds :
          /\ register[s] = "cleared" \/ s \in sessions
          /\ IsDeviceBlocked(device[s]) /\ blocking[device[s]] = "idle"
          => kicked[s] \/ s \in slipped
    /\ \A s \in SessionIds : rowBlocked[s] => s \in rows

LEMMA InitBlockInv == Init => BlockInv
BY DEF Init, BlockInv, IsDeviceBlocked

\* Only the check, the block and the unblock change what BlockInv speaks of: a new row
\* is not blocked, and flags are closed for good.
LEMMA NextBlockInv == TypeOK /\ OnlineInv /\ BlockInv /\ [Next]_vars => BlockInv'
<1>. SUFFICES ASSUME TypeOK, OnlineInv, BlockInv, [Next]_vars PROVE BlockInv'
  OBVIOUS
<1>. USE DEF BlockInv, IsDeviceBlocked
<1>1. ASSUME NEW s \in SessionIds, NEW d \in Devices, RegisterAdmit(s, d) PROVE BlockInv'
  BY <1>1 DEF TypeOK, RegisterAdmit, connVars, rowVars, serverVars
<1>2. ASSUME NEW s \in SessionIds, NEW d \in Devices, RegisterFull(s, d) PROVE BlockInv'
  BY <1>2 DEF TypeOK, RegisterFull, connVars, rowVars, serverVars
<1>3. ASSUME NEW s \in SessionIds, RegisterCheck(s) PROVE BlockInv'
  BY <1>3 DEF TypeOK, RegisterCheck, connVars, rowVars, serverVars
<1>4. ASSUME NEW s \in SessionIds, RegisterAdd(s) PROVE BlockInv'
  BY <1>4 DEF TypeOK, RegisterAdd, rowVars, serverVars
<1>5. ASSUME NEW s \in SessionIds, RegisterUpsert(s) PROVE BlockInv'
  <2>1. /\ UNCHANGED <<device, sessions, kicked, rowBlocked, blocking, slipped>>
        /\ \A t \in SessionIds : register'[t] = "cleared" => register[t] = "cleared"
    BY <1>5 DEF TypeOK, RegisterUpsert, connVars
  <2>2. rows \subseteq rows' /\ rows' \subseteq rows \cup {s}
    BY <1>5 DEF RegisterUpsert
  <2>3. ASSUME NEW t \in SessionIds, IsDeviceBlocked(device[t])' PROVE IsDeviceBlocked(device[t])
    BY <2>1, <2>2, <2>3 DEF TypeOK
  <2>. QED  BY <2>1, <2>2, <2>3
<1>6. ASSUME NEW s \in SessionIds, OpenChannel(s) PROVE BlockInv'
  BY <1>6 DEF OpenChannel, rowVars, serverVars
<1>7. ASSUME NEW s \in SessionIds, Heartbeat(s) PROVE BlockInv'
  BY <1>7 DEF Heartbeat, rowVars, serverVars
<1>8. ASSUME NEW s \in SessionIds, HeartbeatPersist(s) PROVE BlockInv'
  BY <1>8 DEF HeartbeatPersist, connVars, serverVars
<1>9. ASSUME NEW s \in SessionIds, HandlerClears(s) PROVE BlockInv'
  BY <1>9 DEF HandlerClears, rowVars, serverVars
<1>10. ASSUME NEW s \in SessionIds, HandlerCloses(s) PROVE BlockInv'
  BY <1>10 DEF HandlerCloses, connVars, serverVars
<1>11. ASSUME NEW s \in SessionIds, Sweep(s) PROVE BlockInv'
  BY <1>11 DEF Sweep, serverVars
<1>12. ASSUME NEW s \in SessionIds, ClientGone(s) PROVE BlockInv'
  BY <1>12 DEF ClientGone, connVars, rowVars, serverVars
<1>13. ASSUME NEW s \in SessionIds, DisconnectTerminal(s) PROVE BlockInv'
  BY <1>13 DEF DisconnectTerminal, KickAll, rowVars, serverVars
<1>14. ASSUME NEW d \in Devices, BlockMark(d) PROVE BlockInv'
  <2>1. /\ UNCHANGED <<register, device, sessions, kicked, rows, slipped>>
        /\ rowBlocked' = [s \in SessionIds |-> rowBlocked[s] \/ (s \in rows /\ device[s] = d)]
        /\ blocking' = [blocking EXCEPT ![d] = "marked"]
    BY <1>14 DEF BlockMark, connVars
  <2>2. ASSUME NEW e, e # d, IsDeviceBlocked(e)', UNCHANGED device PROVE IsDeviceBlocked(e)
    BY <2>1, <2>2 DEF TypeOK
  <2>3. ASSUME NEW s \in SessionIds, blocking'[device[s]] = "idle"
        PROVE  device[s] # d /\ blocking[device[s]] = "idle"
    BY <2>1, <2>3 DEF TypeOK
  <2>. QED  BY <2>1, <2>2, <2>3
<1>15. ASSUME NEW d \in Devices, BlockKick(d) PROVE BlockInv'
  <2>1. /\ UNCHANGED <<register, device, sessions, online, rows, rowBlocked>>
        /\ \A s \in SessionIds : kicked'[s] = (kicked[s] \/ (device[s] = d /\ s \in sessions /\ online[s]))
        /\ slipped' = slipped \cup {s \in SessionIds : device[s] = d /\ register[s] \in PastCheck /\ ~online[s]}
        /\ blocking' = [blocking EXCEPT ![d] = "idle"]
    BY <1>15 DEF BlockKick, KickAll, rowVars
  <2>2. ASSUME NEW s \in SessionIds, register[s] = "cleared" \/ s \in sessions, device[s] = d
        PROVE  kicked'[s] \/ s \in slipped'
    <3>1. register[s] \in PastCheck
      BY <2>2 DEF TypeOK, PastCheck
    <3>2. CASE online[s] /\ s \in sessions
      BY <3>2, <2>1, <2>2
    <3>3. CASE ~online[s]
      BY <3>1, <3>3, <2>1, <2>2
    <3>. QED  BY <3>2, <3>3 DEF OnlineInv, OnlineIsAttached
  <2>. QED  BY <2>1, <2>2 DEF TypeOK
<1>16. ASSUME NEW d \in Devices, UnblockTerminal(d) PROVE BlockInv'
  BY <1>16 DEF TypeOK, UnblockTerminal, connVars, serverVars
<1>17. CASE Starts
  BY <1>17 DEF TypeOK, Starts, rowVars
<1>18. CASE GracefulStop
  BY <1>18 DEF GracefulStop, connVars, rowVars
<1>19. CASE UNCHANGED vars
  BY <1>19 DEF vars, connVars, rowVars, serverVars
<1>. QED
  BY <1>1, <1>2, <1>3, <1>4, <1>5, <1>6, <1>7, <1>8, <1>9, <1>10, <1>11, <1>12, <1>13,
     <1>14, <1>15, <1>16, <1>17, <1>18, <1>19 DEF Next, ServerRestart, ServeReturns

\* However Register and Channel calls fall between the two steps of BlockTerminal, once it
\* has returned every session still served for the device has been kicked, unless it was
\* past the check and not marked online at that moment, or its check failed.
THEOREM BlockTakesHold == Spec => []BlockHolds
<1>1. OnlineInv /\ BlockInv => BlockHolds
  BY DEF OnlineInv, BlockInv, BlockHolds
<1>. QED
  BY <1>1, InitOnlineInv, NextOnlineInv, InitBlockInv, NextBlockInv, SessionsTypeOK, PTL DEF Spec

(***************************************************************************)
(* Capacity.                                                               *)
(***************************************************************************)

\* The sessions in the manager and those past the check of IsFull, together.
Claimed == sessions \cup InFlight

CapacityInv ==
    /\ Cardinality(InFlight) <= overlap
    /\ MaxConns > 0 => Cardinality(Claimed) <= IF overlap = 0 THEN 0 ELSE MaxConns + overlap - 1

\* All these sets are finite.
LEMMA ClaimedFinite ==
    ASSUME TypeOK
    PROVE  /\ IsFiniteSet(sessions) /\ IsFiniteSet(InFlight) /\ IsFiniteSet(Claimed)
           /\ Cardinality(sessions) \in Nat /\ Cardinality(InFlight) \in Nat /\ Cardinality(Claimed) \in Nat
<1>1. sessions \subseteq SessionIds /\ InFlight \subseteq SessionIds /\ Claimed \subseteq SessionIds
  BY DEF TypeOK, InFlight, Claimed
<1>2. IsFiniteSet(sessions) /\ IsFiniteSet(InFlight) /\ IsFiniteSet(Claimed)
  BY <1>1, SessionIdsAssumption, FS_Subset
<1>. QED  BY <1>2, FS_CardinalityType

\* A call is admitted with fewer than maxConns sessions in the manager, next to those
\* that overlap with it.
LEMMA AdmitCapacity ==
    ASSUME TypeOK, TypeOK', NEW s \in SessionIds, NEW d \in Devices, RegisterAdmit(s, d)
    PROVE  CapacityInv'
<1>1. UNCHANGED sessions /\ InFlight' = InFlight \cup {s}
  BY DEF TypeOK, RegisterAdmit, InFlight, connVars
<1>2. IsFiniteSet(InFlight') /\ Cardinality(InFlight') \in Nat /\ Cardinality(InFlight') > 0
  <2>1. IsFiniteSet(InFlight') /\ Cardinality(InFlight') \in Nat
    BY SessionIdsAssumption, FS_Subset, FS_CardinalityType DEF InFlight
  <2>2. InFlight' # {}
    BY <1>1
  <2>. QED  BY <2>1, <2>2, FS_EmptySet
<1>3. Cardinality(InFlight') <= overlap'
  BY <1>2 DEF TypeOK, RegisterAdmit
<1>4. Cardinality(Claimed') <= Cardinality(sessions) + Cardinality(InFlight')
  <2>1. /\ Cardinality(sessions \cup InFlight')
              = Cardinality(sessions) + Cardinality(InFlight') - Cardinality(sessions \cap InFlight')
        /\ Cardinality(sessions \cap InFlight') \in Nat
    <3>1. IsFiniteSet(sessions \cap InFlight')
      BY <1>2, ClaimedFinite, FS_Intersection
    <3>. QED  BY <1>2, <3>1, ClaimedFinite, FS_Union, FS_CardinalityType
  <2>2. Claimed' = sessions \cup InFlight'
    BY <1>1 DEF Claimed
  <2>. QED  BY <1>2, <2>1, <2>2, ClaimedFinite
<1>5. MaxConns > 0 => Cardinality(sessions) < MaxConns
  BY ClaimedFinite, MaxConnsAssumption DEF RegisterAdmit, IsFull
<1>6. Cardinality(Claimed') \in Nat
  BY <1>1, <1>2, ClaimedFinite, FS_Union, FS_CardinalityType DEF Claimed
<1>. QED
  BY <1>2, <1>3, <1>4, <1>5, <1>6, ClaimedFinite, MaxConnsAssumption DEF CapacityInv, TypeOK

\* No other step claims a place.
LEMMA OthersClaimNothing ==
    ASSUME TypeOK, [Next]_vars,
           ~ \E s \in SessionIds, d \in Devices : RegisterAdmit(s, d)
    PROVE  Claimed' \subseteq Claimed /\ InFlight' \subseteq InFlight /\ UNCHANGED overlap
<1>. DEFINE Less == Claimed' \subseteq Claimed /\ InFlight' \subseteq InFlight /\ UNCHANGED overlap
<1>. USE DEF TypeOK, Claimed, InFlight
<1>1. ASSUME NEW s \in SessionIds, NEW d \in Devices, RegisterFull(s, d) PROVE Less
  BY <1>1 DEF RegisterFull, connVars
<1>2. ASSUME NEW s \in SessionIds, RegisterCheck(s) PROVE Less
  BY <1>2 DEF RegisterCheck, connVars
<1>3. ASSUME NEW s \in SessionIds, RegisterAdd(s) PROVE Less
  BY <1>3 DEF RegisterAdd
<1>4. ASSUME NEW s \in SessionIds, RegisterUpsert(s) PROVE Less
  BY <1>4 DEF RegisterUpsert, connVars
<1>5. CASE ServerRestart \/ ServeReturns
  BY <1>5 DEF ServerRestart, ServeReturns, Starts
<1>6. CASE UNCHANGED <<register, sessions, overlap>>
  BY <1>6
<1>7. ASSUME NEW s \in SessionIds,
             \/ OpenChannel(s) \/ Heartbeat(s) \/ HeartbeatPersist(s) \/ HandlerClears(s)
             \/ HandlerCloses(s) \/ Sweep(s) \/ ClientGone(s) \/ DisconnectTerminal(s)
      PROVE  UNCHANGED <<register, sessions, overlap>>
  BY <1>7 DEF OpenChannel, Heartbeat, HeartbeatPersist, HandlerClears, HandlerCloses, Sweep,
              ClientGone, DisconnectTerminal, connVars
<1>8. ASSUME NEW d \in Devices, BlockMark(d) \/ BlockKick(d) \/ UnblockTerminal(d)
      PROVE  UNCHANGED <<register, sessions, overlap>>
  BY <1>8 DEF BlockMark, BlockKick, UnblockTerminal, connVars
<1>9. CASE GracefulStop \/ UNCHANGED vars
  BY <1>6, <1>9 DEF GracefulStop, vars, connVars
<1>. QED
  BY <1>1, <1>2, <1>3, <1>4, <1>5, <1>6, <1>7, <1>8, <1>9 DEF Next

LEMMA InitCapacityInv == Init => CapacityInv
<1>. SUFFICES ASSUME Init PROVE CapacityInv
  OBVIOUS
<1>1. Claimed = {} /\ InFlight = {} /\ overlap = 0
  BY DEF Init, Claimed, InFlight
<1>. QED
  BY <1>1, FS_EmptySet DEF CapacityInv

LEMMA NextCapacityInv == TypeOK /\ TypeOK' /\ CapacityInv /\ [Next]_vars => CapacityInv'
<1>. SUFFICES ASSUME TypeOK, TypeOK', CapacityInv, [Next]_vars PROVE CapacityInv'
  OBVIOUS
<1>1. CASE \E s \in SessionIds, d \in Devices : RegisterAdmit(s, d)
  BY <1>1, AdmitCapacity
<1>2. CASE ~ \E s \in SessionIds, d \in Devices : RegisterAdmit(s, d)
  <2>1. Claimed' \subseteq Claimed /\ InFlight' \subseteq InFlight /\ UNCHANGED overlap
    BY <1>2, OthersClaimNothing
  <2>2. /\ IsFiniteSet(Claimed') /\ Cardinality(Claimed') <= Cardinality(Claimed)
        /\ IsFiniteSet(InFlight') /\ Cardinality(InFlight') <= Cardinality(InFlight)
    BY <2>1, ClaimedFinite, FS_Subset
  <2>3. Cardinality(Claimed') \in Nat /\ Cardinality(InFlight') \in Nat
    BY <2>2, FS_CardinalityType
  <2>. QED
    BY <2>1, <2>2, <2>3, ClaimedFinite, MaxConnsAssumption DEF CapacityInv, TypeOK
<1>. QED  BY <1>1, <1>2

\* However Register calls interleave, the manager exceeds maxConns by less than the
\* number of calls that overlapped.
THEOREM CapacityBound == Spec => []OvershootBounded
<1>1. TypeOK /\ CapacityInv => OvershootBounded
  <2>. SUFFICES ASSUME TypeOK, CapacityInv, MaxConns > 0
                PROVE  Cardinality(sessions) <= IF overlap = 0 THEN 0 ELSE MaxConns + overlap - 1
    BY DEF OvershootBounded
  <2>1. Cardinality(sessions) <= Cardinality(Claimed)
    BY ClaimedFinite, FS_Subset DEF Claimed
  <2>. QED
    BY <2>1, ClaimedFinite, MaxConnsAssumption DEF CapacityInv, TypeOK
<1>. QED
  BY <1>1, InitCapacityInv, NextCapacityInv, SessionsTypeOK, PTL DEF Spec
=============================================================================
