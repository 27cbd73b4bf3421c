------------------------- MODULE ReportStore_proofs -------------------------
(***************************************************************************)
(* Proofs about ReportStore, for every number of callers, reports, parts,  *)
(* connections, calls and faults.                                          *)
(***************************************************************************)
EXTENDS ReportStore, TLAPS

Holding == {"main", "part", "commit", "scan", "rows"}
Reading == {"load", "rows", "loaded"}

\* A report is stored with all its parts, once, or with none.
StoredWhole == \A r \in Reports, p \in Parts : rows[r][p] = IF r \in mains THEN 1 ELSE 0

\* A save: what its transaction has written, for a report nobody else can store.
SaveInv(c) ==
    /\ pc[c] \in {"begin", "main", "part", "commit"} => report[c] \in Reports
    /\ pc[c] = "main" => part[c] = 1 /\ written[c] = NoRows
    /\ pc[c] \in {"part", "commit"} => lock = c
    /\ pc[c] = "part" =>
          /\ report[c] \notin mains /\ part[c] \in Parts
          /\ \A p \in Parts : written[c][p] = IF p < part[c] THEN 1 ELSE 0
    /\ pc[c] = "commit" =>
          \A p \in Parts : written[c][p] = IF report[c] \in mains THEN 0 ELSE 1

\* A read: the parts before the next one have been read from a stored report.
ReadInv(c) ==
    /\ todo[c] \subseteq mains
    /\ pc[c] \in Reading => report[c] \in mains
    /\ pc[c] \in {"load", "rows"} => part[c] \in Parts
    /\ pc[c] = "loaded" => part[c] = NumParts + 1
    /\ pc[c] \in Reading /\ ~partial[c] => \A p \in Parts : p < part[c] => got[c][p] = 1

PoolInv(c) == c \in busy => pc[c] \in Holding

\* The inductive invariant.
IInv ==
    /\ TypeOK
    /\ StoredWhole
    /\ \A c \in Callers : SaveInv(c) /\ ReadInv(c) /\ PoolInv(c)

-----------------------------------------------------------------------------
(***************************************************************************)
(* A lemma for every action: it keeps IInv.  <1>1 is about the types,      *)
(* <1>2 about any caller d, the one that acts or another; only Commit      *)
(* writes the tables.                                                      *)
(***************************************************************************)

LEMMA CallSaveKeeps ==
    ASSUME NEW c \in Callers, NEW r \in Reports, CallSave(c, r), IInv
    PROVE  IInv'
<1> USE DEF CallSave, Start, Goto, tableVars
<1>1. TypeOK'
  BY BoundsAssumption DEF IInv, TypeOK
<1>2. ASSUME NEW d \in Callers PROVE (SaveInv(d) /\ ReadInv(d) /\ PoolInv(d))'
  BY DEF IInv, TypeOK, SaveInv, ReadInv, PoolInv, Reading, Holding
<1>3. QED
  BY <1>1, <1>2 DEF IInv, StoredWhole

LEMMA CallReadKeeps ==
    ASSUME NEW c \in Callers, NEW all \in BOOLEAN, CallRead(c, all), IInv
    PROVE  IInv'
<1> USE DEF CallRead, Start, Goto, tableVars
<1>1. TypeOK'
  BY BoundsAssumption DEF IInv, TypeOK
<1>2. ASSUME NEW d \in Callers PROVE (SaveInv(d) /\ ReadInv(d) /\ PoolInv(d))'
  BY DEF IInv, TypeOK, SaveInv, ReadInv, PoolInv, Reading, Holding
<1>3. QED
  BY <1>1, <1>2 DEF IInv, StoredWhole

LEMMA CallOtherKeeps ==
    ASSUME NEW c \in Callers, CallOther(c), IInv
    PROVE  IInv'
<1> USE DEF CallOther, Start, Goto, tableVars
<1>1. TypeOK'
  BY BoundsAssumption DEF IInv, TypeOK
<1>2. ASSUME NEW d \in Callers PROVE (SaveInv(d) /\ ReadInv(d) /\ PoolInv(d))'
  BY DEF IInv, TypeOK, SaveInv, ReadInv, PoolInv, Reading, Holding
<1>3. QED
  BY <1>1, <1>2 DEF IInv, StoredWhole

LEMMA StatementKeeps ==
    ASSUME NEW c \in Callers, Statement(c), IInv
    PROVE  IInv'
<1> USE DEF Statement, OneStatement, Goto, tableVars
<1>1. TypeOK'
  BY DEF IInv, TypeOK
<1>2. ASSUME NEW d \in Callers PROVE (SaveInv(d) /\ ReadInv(d) /\ PoolInv(d))'
  BY DEF IInv, TypeOK, SaveInv, ReadInv, PoolInv, Reading, Holding
<1>3. QED
  BY <1>1, <1>2 DEF IInv, StoredWhole

LEMMA BeginKeeps ==
    ASSUME NEW c \in Callers, Begin(c), IInv
    PROVE  IInv'
<1> USE DEF Begin, Take, Goto, tableVars
<1>1. TypeOK'
  BY SizesAssumption DEF IInv, TypeOK, NoRows, Parts
<1>2. ASSUME NEW d \in Callers PROVE (SaveInv(d) /\ ReadInv(d) /\ PoolInv(d))'
  BY SizesAssumption DEF IInv, TypeOK, SaveInv, ReadInv, PoolInv, Reading, Holding, NoRows, Parts
<1>3. QED
  BY <1>1, <1>2 DEF IInv, StoredWhole

LEMMA InsertMainKeeps ==
    ASSUME NEW c \in Callers, InsertMain(c), IInv
    PROVE  IInv'
<1> USE DEF InsertMain, AfterMain, Goto, tableVars
<1>1. TypeOK'
  BY NoneAssumption, SizesAssumption DEF IInv, TypeOK, NoRows, Parts, SaveInv
<1>2. ASSUME NEW d \in Callers PROVE (SaveInv(d) /\ ReadInv(d) /\ PoolInv(d))'
  BY NoneAssumption, SizesAssumption DEF IInv, TypeOK, SaveInv, ReadInv, PoolInv, Reading, Holding, NoRows, Parts
<1>3. QED
  BY <1>1, <1>2 DEF IInv, StoredWhole

LEMMA InsertPartKeeps ==
    ASSUME NEW c \in Callers, InsertPart(c), IInv
    PROVE  IInv'
<1> USE DEF InsertPart, Goto, tableVars
<1>1. TypeOK'
  BY SizesAssumption DEF IInv, TypeOK, Parts, SaveInv
<1>2. ASSUME NEW d \in Callers PROVE (SaveInv(d) /\ ReadInv(d) /\ PoolInv(d))'
  BY SizesAssumption DEF IInv, TypeOK, SaveInv, ReadInv, PoolInv, Reading, Holding, Parts
<1>3. QED
  BY <1>1, <1>2 DEF IInv, StoredWhole

LEMMA CommitKeeps ==
    ASSUME NEW c \in Callers, Commit(c), IInv
    PROVE  IInv'
<1> USE DEF Commit, Release, Goto
<1>1. TypeOK'
  <2>1. report[c] \in Reports
    BY DEF IInv, SaveInv
  <2>2. \A p \in Parts : rows[report[c]][p] + written[c][p] \in 0..1
    BY <2>1 DEF IInv, TypeOK, StoredWhole, SaveInv
  <2>3. rows' \in [Reports -> [Parts -> 0..1]]
    BY <2>1, <2>2 DEF IInv, TypeOK
  <2>4. QED
    BY <2>1, <2>3 DEF IInv, TypeOK
<1>2. ASSUME NEW d \in Callers PROVE (SaveInv(d) /\ ReadInv(d) /\ PoolInv(d))'
  BY SizesAssumption DEF IInv, TypeOK, SaveInv, ReadInv, PoolInv, Reading, Holding, Parts
<1>3. StoredWhole'
  BY DEF IInv, TypeOK, StoredWhole, SaveInv
<1>4. QED
  BY <1>1, <1>2, <1>3 DEF IInv

LEMMA SaveFailsKeeps ==
    ASSUME NEW c \in Callers, SaveFails(c), IInv
    PROVE  IInv'
<1> USE DEF SaveFails, Fault, Discard, Release, Goto, tableVars
<1>1. TypeOK'
  BY BoundsAssumption DEF IInv, TypeOK
<1>2. ASSUME NEW d \in Callers PROVE (SaveInv(d) /\ ReadInv(d) /\ PoolInv(d))'
  BY DEF IInv, TypeOK, SaveInv, ReadInv, PoolInv, Reading, Holding
<1>3. QED
  BY <1>1, <1>2 DEF IInv, StoredWhole

LEMMA QueryLatestKeeps ==
    ASSUME NEW c \in Callers, QueryLatest(c), IInv
    PROVE  IInv'
<1> USE DEF QueryLatest, OneStatement, Goto, tableVars
<1>1. TypeOK'
  <2>1. ASSUME NEW r \in mains, Load(c, r) PROVE TypeOK'
    BY <2>1, SizesAssumption DEF IInv, TypeOK, NoRows, Parts, Load
  <2>2. CASE UNCHANGED <<report, part, got, partial>> /\ pc' = [pc EXCEPT ![c] = "idle"]
    BY <2>2 DEF IInv, TypeOK
  <2>3. QED
    BY <2>1, <2>2
<1>2. ASSUME NEW d \in Callers PROVE (SaveInv(d) /\ ReadInv(d) /\ PoolInv(d))'
  <2>1. ASSUME NEW r \in mains, Load(c, r) PROVE (SaveInv(d) /\ ReadInv(d) /\ PoolInv(d))'
    BY <2>1, SizesAssumption DEF IInv, TypeOK, SaveInv, ReadInv, PoolInv, Reading, Holding, NoRows, Parts, Load
  <2>2. CASE UNCHANGED <<report, part, got, partial>> /\ pc' = [pc EXCEPT ![c] = "idle"]
    BY <2>2 DEF IInv, TypeOK, SaveInv, ReadInv, PoolInv, Reading, Holding
  <2>3. QED
    BY <2>1, <2>2
<1>3. QED
  BY <1>1, <1>2 DEF IInv, StoredWhole

LEMMA QueryHistoryKeeps ==
    ASSUME NEW c \in Callers, QueryHistory(c), IInv
    PROVE  IInv'
<1> USE DEF QueryHistory, Take, Goto, tableVars
<1>1. TypeOK'
  BY DEF IInv, TypeOK
<1>2. ASSUME NEW d \in Callers PROVE (SaveInv(d) /\ ReadInv(d) /\ PoolInv(d))'
  BY DEF IInv, TypeOK, SaveInv, ReadInv, PoolInv, Reading, Holding
<1>3. QED
  BY <1>1, <1>2 DEF IInv, StoredWhole

LEMMA ScanHistoryKeeps ==
    ASSUME NEW c \in Callers, ScanHistory(c), IInv
    PROVE  IInv'
<1> USE DEF ScanHistory, CloseRows, Release, Goto, tableVars
<1>1. TypeOK'
  BY DEF IInv, TypeOK
<1>2. ASSUME NEW d \in Callers PROVE (SaveInv(d) /\ ReadInv(d) /\ PoolInv(d))'
  BY DEF IInv, TypeOK, SaveInv, ReadInv, PoolInv, Reading, Holding
<1>3. QED
  BY <1>1, <1>2 DEF IInv, StoredWhole

LEMMA ReadFailsKeeps ==
    ASSUME NEW c \in Callers, ReadFails(c), IInv
    PROVE  IInv'
<1> USE DEF ReadFails, Fault, Release, Goto, tableVars
<1>1. TypeOK'
  BY BoundsAssumption DEF IInv, TypeOK
<1>2. ASSUME NEW d \in Callers PROVE (SaveInv(d) /\ ReadInv(d) /\ PoolInv(d))'
  BY DEF IInv, TypeOK, SaveInv, ReadInv, PoolInv, Reading, Holding
<1>3. QED
  BY <1>1, <1>2 DEF IInv, StoredWhole

LEMMA NextReportKeeps ==
    ASSUME NEW c \in Callers, NextReport(c), IInv
    PROVE  IInv'
<1> USE DEF NextReport, Goto, tableVars
<1>1. TypeOK'
  <2>1. CASE history[c] /\ \E r \in todo[c] : Load(c, r) /\ todo' = [todo EXCEPT ![c] = @ \ {r}]
    BY <2>1, SizesAssumption DEF IInv, TypeOK, NoRows, Parts, Load
  <2>2. CASE UNCHANGED <<report, part, todo, got, partial>>
    BY <2>2 DEF IInv, TypeOK
  <2>3. QED
    BY <2>1, <2>2
<1>2. ASSUME NEW d \in Callers PROVE (SaveInv(d) /\ ReadInv(d) /\ PoolInv(d))'
  <2>1. CASE history[c] /\ \E r \in todo[c] : Load(c, r) /\ todo' = [todo EXCEPT ![c] = @ \ {r}]
    BY <2>1, SizesAssumption DEF IInv, TypeOK, SaveInv, ReadInv, PoolInv, Reading, Holding, NoRows, Parts, Load
  <2>2. CASE pc' = [pc EXCEPT ![c] = "idle"] /\ UNCHANGED <<report, part, todo, got, partial>>
    BY <2>2 DEF IInv, TypeOK, SaveInv, ReadInv, PoolInv, Reading, Holding
  <2>3. QED
    BY <2>1, <2>2
<1>3. QED
  BY <1>1, <1>2 DEF IInv, StoredWhole

LEMMA QueryPartKeeps ==
    ASSUME NEW c \in Callers, QueryPart(c), IInv
    PROVE  IInv'
<1> USE DEF QueryPart, Take, Goto, tableVars
<1>1. TypeOK'
  BY DEF IInv, TypeOK
<1>2. ASSUME NEW d \in Callers PROVE (SaveInv(d) /\ ReadInv(d) /\ PoolInv(d))'
  BY DEF IInv, TypeOK, SaveInv, ReadInv, PoolInv, Reading, Holding
<1>3. QED
  BY <1>1, <1>2 DEF IInv, StoredWhole

LEMMA ReadPartKeeps ==
    ASSUME NEW c \in Callers, ReadPart(c), IInv
    PROVE  IInv'
<1> USE DEF ReadPart, Release, AfterPart, Goto, tableVars
<1>1. TypeOK'
  <2>1. part[c] \in Parts /\ report[c] \in Reports
    BY DEF IInv, TypeOK, ReadInv, Reading
  <2>2. rows[report[c]][part[c]] \in 0..1
    BY <2>1 DEF IInv, TypeOK
  <2>3. got' \in [Callers -> [Parts -> 0..1]]
    BY <2>1, <2>2 DEF IInv, TypeOK
  <2>4. part[c] + 1 \in 1..(NumParts + 1)
    BY <2>1, SizesAssumption DEF Parts
  <2>5. QED
    BY <2>3, <2>4 DEF IInv, TypeOK
<1>2. ASSUME NEW d \in Callers PROVE (SaveInv(d) /\ ReadInv(d) /\ PoolInv(d))'
  BY SizesAssumption DEF IInv, TypeOK, SaveInv, ReadInv, PoolInv, Reading, Holding, Parts, StoredWhole
<1>3. QED
  BY <1>1, <1>2 DEF IInv, StoredWhole

LEMMA PartFailsKeeps ==
    ASSUME NEW c \in Callers, PartFails(c), IInv
    PROVE  IInv'
<1> USE DEF PartFails, Fault, Release, AfterPart, Goto, tableVars
<1>1. TypeOK'
  BY SizesAssumption, BoundsAssumption DEF IInv, TypeOK, Parts, ReadInv
<1>2. ASSUME NEW d \in Callers PROVE (SaveInv(d) /\ ReadInv(d) /\ PoolInv(d))'
  BY SizesAssumption DEF IInv, TypeOK, SaveInv, ReadInv, PoolInv, Reading, Holding, Parts
<1>3. QED
  BY <1>1, <1>2 DEF IInv, StoredWhole

-----------------------------------------------------------------------------

\* IInv holds at the start.
LEMMA IInvInit == Init => IInv
<1>1. ASSUME Init PROVE TypeOK
  BY <1>1, SizesAssumption, BoundsAssumption DEF Init, TypeOK, NoRows, Parts
<1>2. ASSUME Init PROVE StoredWhole /\ \A c \in Callers : SaveInv(c) /\ ReadInv(c) /\ PoolInv(c)
  BY <1>2 DEF Init, StoredWhole, SaveInv, ReadInv, PoolInv, Reading, NoRows
<1>3. QED
  BY <1>1, <1>2 DEF IInv

\* Every step keeps IInv.
LEMMA IInvNext == IInv /\ [Next]_vars => IInv'
<1> SUFFICES ASSUME IInv, [Next]_vars PROVE IInv'
  OBVIOUS
<1>1. ASSUME NEW c \in Callers, Call(c) PROVE IInv'
  BY <1>1, CallSaveKeeps, CallReadKeeps, CallOtherKeeps DEF Call
<1>2. ASSUME NEW c \in Callers, Proceed(c) PROVE IInv'
  BY <1>2, StatementKeeps, BeginKeeps, InsertMainKeeps, InsertPartKeeps, CommitKeeps,
     QueryLatestKeeps, QueryHistoryKeeps, ScanHistoryKeeps, NextReportKeeps, QueryPartKeeps,
     ReadPartKeeps DEF Proceed
<1>3. ASSUME NEW c \in Callers, SaveFails(c) \/ ReadFails(c) \/ PartFails(c) PROVE IInv'
  BY <1>3, SaveFailsKeeps, ReadFailsKeeps, PartFailsKeeps
<1>4. CASE UNCHANGED vars
  BY <1>4 DEF vars, callVars, tableVars, IInv, TypeOK, StoredWhole, SaveInv, ReadInv, PoolInv
<1>5. QED
  BY <1>1, <1>2, <1>3, <1>4 DEF Next

\* IInv holds in every reachable state.
THEOREM ReportStoreInv == Spec => []IInv
  BY IInvInit, IInvNext, PTL DEF Spec

\* Every variable keeps its type, and no part of a report is stored twice, however
\* many calls save, replay and fail at a time (hardware.go:46).
THEOREM ReportStoreTypeOK == Spec => []TypeOK
<1>1. IInv => TypeOK
  BY DEF IInv
<1>2. QED
  BY <1>1, ReportStoreInv, PTL

\* No call waits for a connection while it keeps one (hardware.go:202), whatever the
\* size of the pool.
THEOREM PoolNoHoldAndWait == Spec => []NoHoldAndWait
<1>1. IInv => NoHoldAndWait
  BY DEF IInv, NoHoldAndWait, PoolInv, Holding, Waits
<1>2. QED
  BY <1>1, ReportStoreInv, PTL

\* A reader gets whole reports, whatever is saved, replayed or fails meanwhile.
THEOREM ReadersSeeWhole == Spec => []SnapshotWhole
<1>1. IInv => SnapshotWhole
  BY SizesAssumption DEF IInv, SnapshotWhole, ReadInv, Reading, Parts
<1>2. QED
  BY <1>1, ReportStoreInv, PTL
=============================================================================
