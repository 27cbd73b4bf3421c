------------------------- MODULE Fingerprint_proofs -------------------------
(***************************************************************************)
(* Proofs about Fingerprint, for any number of clients, accounts, machines *)
(* and sources: an account that could store its id keeps it, and machines  *)
(* with the same id have a reason to.                                      *)
(*                                                                         *)
(* The inductive invariant is FingerprintInv.  Its part Kept says why the  *)
(* id stays: in an account whose clients never overlapped and never lost   *)
(* the file, whoever generates an id is alone, finds no id in the file and *)
(* is the first to register, so that nothing it truncates was in use; and  *)
(* an id that was used is the one in the file.  Reasons says where the     *)
(* first value of an id comes from.                                        *)
(***************************************************************************)
EXTENDS Fingerprint, FiniteSetTheorems, WellFoundedInduction, TLAPS

PCs == {"down", "collect", "store", "write", "running"}

FingerprintType ==
    /\ sources \in [Machines -> Sources]
    /\ name \in [Machines -> Names]
    /\ had = [m \in Machines |-> had[m]]
    /\ account \in [Clients -> Accounts]
    /\ machine \in [Accounts -> Machines]
    /\ place \in [Accounts -> Places]
    /\ file = [a \in Accounts |-> file[a]]
    /\ pc \in [Clients -> PCs]
    /\ id = [c \in Clients |-> id[c]]
    /\ used = [a \in Accounts |-> used[a]]
    /\ overlapped \in [Accounts -> BOOLEAN]
    /\ unstored \in [Accounts -> BOOLEAN]

\* The history of a machine holds its name and what identifies its hardware.
HadKnown ==
    \A m \in Machines :
        /\ name[m] \in had[m]
        /\ \A i \in 1..SourceCount : sources[m][i] \in Genuine => sources[m][i] \in had[m]

\* An id, as opposed to the other contents of a file, whose first value m has or had.
Of(m, i) == i \notin {Missing, Truncated} /\ i[1] \in had[m]

Reasons ==
    /\ \A a \in Accounts : \A i \in used[a] : Of(machine[a], i)
    /\ \A a \in Accounts : IsCached(file[a]) => Of(machine[a], file[a])
    /\ \A c \in Clients : pc[c] \in {"store", "write"} => Of(machine[account[c]], id[c])

Alone(a) == \A c, d \in Generating(a) : c = d

\* Whoever generates is the first; what was used is stored.
FirstOrStored(a) ==
    /\ Generating(a) # {} => ~IsCached(file[a]) /\ used[a] = {}
    /\ used[a] # {} => used[a] = {file[a]}

Kept ==
    \A a \in Accounts : ~overlapped[a] => Alone(a) /\ (~unstored[a] => FirstOrStored(a))

FingerprintInv == FingerprintType /\ HadKnown /\ Reasons /\ Kept

-----------------------------------------------------------------------------
(* Deriving an id *)

\* A set of positions has a first one: a smallest of the sets of positions up to one of
\* them.
LEMMA First ==
  ASSUME NEW n \in Nat, NEW T \in SUBSET (1..n), T # {}
  PROVE  \E i \in T : \A j \in T : i <= j
<1>. DEFINE Upto(i) == {j \in T : j <= i}
            F == {Upto(i) : i \in T}
<1>0. T \subseteq Int
  OBVIOUS
<1>1. IsFiniteSet(T)
  <2>1. IsFiniteSet(1..n)
    BY FS_Interval
  <2>. QED BY <2>1, FS_Subset
<1>2. F \subseteq FiniteSubsetsOf(T) /\ F # {}
  <2>1. ASSUME NEW i \in T PROVE Upto(i) \in FiniteSubsetsOf(T)
    <3>1. Upto(i) \subseteq T
      OBVIOUS
    <3>. QED BY <3>1, <1>1, FS_Subset DEF FiniteSubsetsOf
  <2>. QED BY <2>1
<1>3. IsWellFoundedOn(StrictSubsetOrdering(T), FiniteSubsetsOf(T))
  BY FS_StrictSubsetOrderingWellFounded
<1>4. PICK X \in F : \A Y \in F : <<Y, X>> \notin StrictSubsetOrdering(T)
  <2>. HIDE DEF F
  <2>. QED BY <1>2, <1>3, WFMin
<1>5. PICK i \in T : X = Upto(i)
  BY <1>4
<1>6. ASSUME NEW j \in T, ~(i <= j) PROVE FALSE
  <2>1. Upto(j) \subseteq Upto(i) /\ Upto(j) # Upto(i)
    <3>1. i \in Int /\ j \in Int /\ j < i
      BY <1>0, <1>6
    <3>2. i \in Upto(i) /\ i \notin Upto(j)
      BY <3>1
    <3>3. ASSUME NEW k \in Upto(j) PROVE k \in Upto(i)
      <4>1. k \in T /\ k \in Int /\ k <= j
        BY <1>0
      <4>. QED BY <3>1, <4>1
    <3>. QED BY <3>2, <3>3
  <2>2. <<Upto(j), Upto(i)>> \in StrictSubsetOrdering(T)
    BY <2>1 DEF StrictSubsetOrdering
  <2>. QED BY <2>2, <1>4, <1>5
<1>. QED BY <1>6

\* The id that a client derives is no mark of a file without one, and begins with a
\* value of its machine.
LEMMA DerivedId ==
  ASSUME FingerprintType, HadKnown, NEW m \in Machines, NEW seen \in SUBSET (1..SourceCount)
  PROVE  Of(m, DeviceID(m, seen))
<1>. DEFINE upto(i) == {j \in ValidAt(m, seen) : j <= i}
            nth(k) == CHOOSE i \in ValidAt(m, seen) : Cardinality(upto(i)) = k
<1>1. CASE Valid(m, seen) = <<>>
  <2>1. DeviceID(m, seen) = <<name[m], kernel[m]>>
    BY <1>1 DEF DeviceID, Fallback
  <2>2. Len(DeviceID(m, seen)) = 2 /\ Len(Missing) = 1 /\ Len(Truncated) = 1
    BY <2>1 DEF Missing, Truncated
  <2>. QED BY <2>1, <2>2 DEF Of, HadKnown
<1>2. CASE Valid(m, seen) # <<>>
  <2>1. ValidAt(m, seen) \in SUBSET (1..SourceCount) /\ SourceCount \in Nat
    BY BoundsAssumption DEF ValidAt
  <2>2. Valid(m, seen) = [k \in 1..Cardinality(ValidAt(m, seen)) |-> sources[m][nth(k)]]
    BY DEF Valid
  <2>3. ValidAt(m, seen) # {}
    <3>1. SUFFICES ASSUME ValidAt(m, seen) = {} PROVE FALSE
      OBVIOUS
    <3>2. Cardinality(ValidAt(m, seen)) = 0
      BY <3>1, FS_EmptySet
    <3>. HIDE DEF nth
    <3>3. Valid(m, seen) = <<>>
      BY <2>2, <3>2
    <3>. QED BY <3>3, <1>2
  <2>4. PICK i \in ValidAt(m, seen) : \A j \in ValidAt(m, seen) : i <= j
    BY <2>1, <2>3, First
  <2>5. upto(i) = {i}
    BY <2>1, <2>4
  <2>6. Cardinality(upto(i)) = 1
    BY <2>5, FS_Singleton
  <2>7. nth(1) \in ValidAt(m, seen)
    BY <2>6
  <2>8. Cardinality(ValidAt(m, seen)) \in Nat /\ Cardinality(ValidAt(m, seen)) # 0
    <3>1. IsFiniteSet(ValidAt(m, seen))
      BY <2>1, FS_Interval, FS_Subset
    <3>. QED BY <3>1, <2>3, FS_CardinalityType, FS_EmptySet
  <2>9. Valid(m, seen)[1] = sources[m][nth(1)]
    <3>. HIDE DEF nth
    <3>. QED BY <2>2, <2>8
  <2>10. Valid(m, seen)[1] \in Genuine
    <3>. HIDE DEF nth
    <3>1. sources[m] \in [1..SourceCount -> Genuine \cup {Filler, Empty}]
      BY DEF FingerprintType, Sources
    <3>. QED BY <3>1, <2>7, <2>9 DEF ValidAt, IsInvalid
  <2>11. Valid(m, seen)[1] \in had[m]
    <3>. HIDE DEF nth
    <3>. QED BY <2>7, <2>9, <2>10 DEF HadKnown, ValidAt
  <2>12. Valid(m, seen) \notin {Missing, Truncated}
    BY <2>10, ValuesAssumption DEF Missing, Truncated
  <2>. QED BY <1>2, <2>11, <2>12 DEF Of, DeviceID
<1>. QED BY <1>1, <1>2

-----------------------------------------------------------------------------
(* The initial states and the steps *)

LEMMA InitInv == Init => FingerprintInv
<1>. SUFFICES ASSUME Init PROVE FingerprintInv
  OBVIOUS
<1>1. FingerprintType
  BY DEF Init, FingerprintType, PCs
<1>2. HadKnown
  BY DEF Init, HadKnown
<1>3. Reasons
  BY DEF Init, Reasons, IsCached
<1>4. \A a \in Accounts : Generating(a) = {} /\ used[a] = {}
  BY DEF Init, Generating
<1>. QED BY <1>1, <1>2, <1>3, <1>4 DEF FingerprintInv, Kept, Alone, FirstOrStored

LEMMA ReadCacheStep ==
  ASSUME FingerprintInv, NEW c \in Clients, ReadCache(c)
  PROVE  FingerprintInv'
<1>. DEFINE h == account[c]
<1>. USE DEF FingerprintInv
<1>0. h \in Accounts /\ pc[c] = "down"
  BY DEF FingerprintType, ReadCache
<1>1. UNCHANGED <<machineVars, setting, file, unstored>>
  BY DEF ReadCache
<1>2. CASE IsCached(file[h]) /\ Runs(c, file[h]) /\ UNCHANGED overlapped
  <2>0. /\ pc' = [pc EXCEPT ![c] = "running"]
        /\ id' = [id EXCEPT ![c] = file[h]]
        /\ used' = [used EXCEPT ![h] = @ \cup {file[h]}]
    BY <1>2 DEF Runs
  <2>1. FingerprintType'
    BY <1>0, <1>1, <1>2, <2>0 DEF FingerprintType, machineVars, setting, PCs
  <2>2. HadKnown'
    BY <1>1 DEF HadKnown, machineVars
  <2>3. Reasons'
    BY <1>0, <1>1, <1>2, <2>0
    DEF Reasons, FingerprintType, machineVars, setting, PCs, IsCached, Of
  <2>4. \A a \in Accounts : Generating(a)' = Generating(a)
    BY <1>0, <1>1, <2>0 DEF Generating, FingerprintType, setting
  <2>5. ASSUME NEW a \in Accounts, ~overlapped'[a], ~unstored'[a]
        PROVE  FirstOrStored(a)'
    <3>1. FirstOrStored(a)
      BY <1>1, <1>2, <2>5 DEF Kept
    <3>2. CASE a = h
      <4>1. Generating(a) = {} /\ used'[a] = {file[a]}
        BY <1>0, <1>2, <2>0, <3>1, <3>2 DEF FirstOrStored, FingerprintType
      <4>. QED BY <1>1, <2>4, <4>1 DEF FirstOrStored
    <3>3. CASE a # h
      <4>1. used'[a] = used[a]
        BY <2>0, <3>3 DEF FingerprintType
      <4>. QED BY <1>1, <2>4, <3>1, <4>1 DEF FirstOrStored, IsCached
    <3>. QED BY <3>2, <3>3
  <2>6. Kept'
    BY <1>2, <2>4, <2>5 DEF Kept, Alone
  <2>. QED BY <2>1, <2>2, <2>3, <2>6
<1>3. CASE /\ ~IsCached(file[h])
           /\ pc' = [pc EXCEPT ![c] = "collect"]
           /\ overlapped' = [overlapped EXCEPT ![h] = @ \/ Generating(h) # {}]
           /\ UNCHANGED <<id, used>>
  <2>1. FingerprintType'
    <3>1. (Generating(h) # {}) \in BOOLEAN
      OBVIOUS
    <3>2. overlapped' \in [Accounts -> BOOLEAN]
      BY <1>0, <1>3, <3>1 DEF FingerprintType
    <3>. QED BY <1>0, <1>1, <1>3, <3>2 DEF FingerprintType, machineVars, setting, PCs
  <2>2. HadKnown'
    BY <1>1 DEF HadKnown, machineVars
  <2>3. Reasons'
    <3>1. \A a \in Accounts : \A i \in used'[a] : Of(machine[a], i)'
      BY <1>1, <1>3 DEF Reasons, Of, machineVars, setting
    <3>2. \A a \in Accounts : IsCached(file[a])' => Of(machine[a], file[a])'
      BY <1>1, <1>3 DEF Reasons, Of, IsCached, machineVars, setting
    <3>3. ASSUME NEW d \in Clients, pc'[d] \in {"store", "write"}
          PROVE  Of(machine[account[d]], id[d])'
      <4>1. pc[d] \in {"store", "write"}
        BY <1>0, <1>3, <3>3 DEF FingerprintType
      <4>. QED BY <1>1, <1>3, <4>1 DEF Reasons, Of, machineVars, setting
    <3>. QED BY <3>1, <3>2, <3>3 DEF Reasons
  <2>4. ASSUME NEW a \in Accounts, ~overlapped'[a]
        PROVE  Alone(a)' /\ (~unstored'[a] => FirstOrStored(a)')
    <3>1. CASE a = h
      <4>1. ~overlapped[a] /\ Generating(a) = {}
        BY <1>3, <2>4, <3>1 DEF FingerprintType
      <4>2. Generating(a)' = {c}
        BY <1>0, <1>1, <1>3, <3>1, <4>1 DEF Generating, FingerprintType, setting
      <4>3. ASSUME ~unstored'[a] PROVE FirstOrStored(a)'
        <5>1. FirstOrStored(a) /\ ~IsCached(file[a])
          BY <1>1, <1>3, <3>1, <4>1, <4>3 DEF Kept
        <5>2. used[a] = {}
          BY <5>1 DEF FirstOrStored, Reasons, Of, IsCached
        <5>. QED BY <1>1, <1>3, <5>1, <5>2 DEF FirstOrStored, IsCached
      <4>. QED BY <4>2, <4>3 DEF Alone
    <3>2. CASE a # h
      <4>1. Generating(a)' = Generating(a) /\ overlapped'[a] = overlapped[a]
        BY <1>0, <1>1, <1>3, <3>2 DEF Generating, FingerprintType, setting
      <4>. QED BY <1>1, <1>3, <2>4, <4>1 DEF Kept, Alone, FirstOrStored, IsCached
    <3>. QED BY <3>1, <3>2
  <2>. QED BY <2>1, <2>2, <2>3, <2>4 DEF Kept
<1>. QED BY <1>2, <1>3 DEF ReadCache

LEMMA CollectSourcesStep ==
  ASSUME FingerprintInv, NEW c \in Clients, CollectSources(c)
  PROVE  FingerprintInv'
<1>. USE DEF FingerprintInv, CollectSources
<1>1. account[c] \in Accounts /\ machine[account[c]] \in Machines
  BY DEF FingerprintType
<1>2. PICK seen \in SUBSET (1..SourceCount) :
          id' = [id EXCEPT ![c] = DeviceID(machine[account[c]], seen)]
  OBVIOUS
<1>8. Of(machine[account[c]], DeviceID(machine[account[c]], seen))
  BY <1>1, DerivedId
<1>3. FingerprintType'
  BY DEF FingerprintType, machineVars, setting, PCs
<1>4. HadKnown'
  BY DEF HadKnown, machineVars
<1>5. Reasons'
  <2>1. ASSUME NEW d \in Clients, pc'[d] \in {"store", "write"}
        PROVE  Of(machine[account[d]], id'[d])
    <3>1. CASE d = c
      BY <1>2, <1>8, <3>1 DEF FingerprintType
    <3>2. CASE d # c
      BY <1>2, <2>1, <3>2 DEF FingerprintType, Reasons
    <3>. QED BY <3>1, <3>2
  <2>. QED BY <2>1 DEF Reasons, Of, IsCached, machineVars, setting
<1>6. \A a \in Accounts : Generating(a)' = Generating(a)
  BY DEF Generating, FingerprintType, setting
<1>7. Kept'
  BY <1>6 DEF Kept, Alone, FirstOrStored, IsCached
<1>. QED BY <1>3, <1>4, <1>5, <1>7

\* A client that ends leaves the file and what was used as they are.
LEMMA ExitStep ==
  ASSUME FingerprintInv, NEW c \in Clients, Exit(c)
  PROVE  FingerprintInv'
<1>. USE DEF FingerprintInv, Exit
<1>1. FingerprintType'
  BY DEF FingerprintType, machineVars, setting, PCs
<1>2. HadKnown'
  BY DEF HadKnown, machineVars
<1>3. Reasons'
  BY DEF Reasons, Of, IsCached, FingerprintType, machineVars, setting
<1>4. \A a \in Accounts : Generating(a)' \subseteq Generating(a)
  BY DEF Generating, FingerprintType, setting
<1>5. Kept'
  BY <1>4 DEF Kept, Alone, FirstOrStored, IsCached
<1>. QED BY <1>1, <1>2, <1>3, <1>5

LEMMA OpenCacheStep ==
  ASSUME FingerprintInv, NEW c \in Clients, OpenCache(c)
  PROVE  FingerprintInv'
<1>. DEFINE h == account[c]
<1>. USE DEF FingerprintInv
<1>0. h \in Accounts /\ pc[c] = "store" /\ c \in Generating(h)
  BY DEF FingerprintType, OpenCache, Generating
<1>1. UNCHANGED <<machineVars, setting, faults, overlapped>>
  BY DEF OpenCache
<1>2. HadKnown'
  BY <1>1 DEF HadKnown, machineVars
<1>3. CASE /\ file' = [file EXCEPT ![h] = Truncated]
           /\ pc' = [pc EXCEPT ![c] = "write"]
           /\ UNCHANGED <<id, used, unstored>>
  <2>1. FingerprintType'
    BY <1>0, <1>1, <1>3 DEF FingerprintType, machineVars, setting, PCs
  <2>2. Reasons'
    <3>1. ASSUME NEW a \in Accounts, IsCached(file[a])' PROVE Of(machine[a], file[a])'
      BY <1>0, <1>1, <1>3, <3>1 DEF Reasons, Of, IsCached, FingerprintType, machineVars, setting
    <3>2. ASSUME NEW d \in Clients, pc'[d] \in {"store", "write"}
          PROVE  Of(machine[account[d]], id[d])'
      BY <1>0, <1>1, <1>3, <3>2
      DEF Reasons, Of, FingerprintType, machineVars, setting
    <3>3. ASSUME NEW a \in Accounts, NEW i \in used'[a] PROVE Of(machine[a], i)'
      BY <1>1, <1>3 DEF Reasons, Of, machineVars, setting
    <3>. QED BY <3>1, <3>2, <3>3 DEF Reasons
  <2>3. \A a \in Accounts : Generating(a)' = Generating(a)
    BY <1>0, <1>1, <1>3 DEF Generating, FingerprintType, setting
  <2>4. ASSUME NEW a \in Accounts, FirstOrStored(a) PROVE FirstOrStored(a)'
    <3>1. CASE a = h
      BY <1>0, <1>3, <2>3, <2>4, <3>1 DEF FirstOrStored, IsCached, FingerprintType
    <3>2. CASE a # h
      BY <1>3, <2>3, <2>4, <3>2 DEF FirstOrStored, IsCached, FingerprintType
    <3>. QED BY <3>1, <3>2
  <2>5. Kept'
    BY <1>1, <1>3, <2>3, <2>4 DEF Kept, Alone
  <2>. QED BY <1>2, <2>1, <2>2, <2>5
<1>4. CASE /\ ~Storable(c)
           /\ Runs(c, id[c])
           /\ unstored' = [unstored EXCEPT ![h] = @ \/ place[h] = "readonly"]
           /\ UNCHANGED file
  <2>0. /\ pc' = [pc EXCEPT ![c] = "running"]
        /\ id' = [id EXCEPT ![c] = id[c]]
        /\ used' = [used EXCEPT ![h] = @ \cup {id[c]}]
    BY <1>4 DEF Runs
  <2>1. unstored' = [unstored EXCEPT ![h] = TRUE]
    BY <1>4 DEF Storable
  <2>2. FingerprintType'
    BY <1>0, <1>1, <1>4, <2>0, <2>1 DEF FingerprintType, machineVars, setting, PCs
  <2>3. Reasons'
    BY <1>0, <1>1, <1>4, <2>0
    DEF Reasons, Of, IsCached, FingerprintType, machineVars, setting
  <2>4. \A a \in Accounts : Generating(a)' \subseteq Generating(a)
    BY <1>0, <1>1, <2>0 DEF Generating, FingerprintType, setting
  <2>5. ASSUME NEW a \in Accounts, ~unstored'[a]
        PROVE  ~unstored[a] /\ used'[a] = used[a]
    BY <2>0, <2>1, <2>5 DEF FingerprintType
  <2>6. Kept'
    BY <1>1, <1>4, <2>4, <2>5 DEF Kept, Alone, FirstOrStored, IsCached
  <2>. QED BY <1>2, <2>2, <2>3, <2>6
<1>. QED BY <1>3, <1>4 DEF OpenCache

\* What writing the id and failing to write it have in common: the client registers with it.
LEMMA WriteStep ==
  ASSUME FingerprintInv, NEW c \in Clients, WriteCache(c) \/ WriteFails(c)
  PROVE  FingerprintInv'
<1>. DEFINE h == account[c]
<1>. USE DEF FingerprintInv
<1>0. h \in Accounts /\ pc[c] = "write" /\ c \in Generating(h)
  BY DEF FingerprintType, WriteCache, WriteFails, Generating
<1>1. UNCHANGED <<machineVars, setting, overlapped>>
  BY DEF WriteCache, WriteFails
<1>2. /\ pc' = [pc EXCEPT ![c] = "running"]
      /\ id' = [id EXCEPT ![c] = id[c]]
      /\ used' = [used EXCEPT ![h] = @ \cup {id[c]}]
  BY DEF WriteCache, WriteFails, Runs
<1>3. \/ file' = [file EXCEPT ![h] = id[c]] /\ UNCHANGED unstored
      \/ UNCHANGED file /\ unstored' = [unstored EXCEPT ![h] = TRUE]
  BY DEF WriteCache, WriteFails
<1>4. Of(machine[h], id[c])
  BY <1>0 DEF Reasons
<1>5. FingerprintType'
  <2>1. file' = [a \in Accounts |-> file'[a]]
    BY <1>3 DEF FingerprintType
  <2>2. unstored' \in [Accounts -> BOOLEAN]
    BY <1>0, <1>3 DEF FingerprintType
  <2>. QED BY <1>0, <1>1, <1>2, <2>1, <2>2 DEF FingerprintType, machineVars, setting, PCs
<1>6. HadKnown'
  BY <1>1 DEF HadKnown, machineVars
<1>7. Reasons'
  <2>1. ASSUME NEW a \in Accounts, NEW i \in used'[a] PROVE Of(machine[a], i)'
    BY <1>0, <1>1, <1>2, <1>4 DEF Reasons, Of, FingerprintType, machineVars, setting
  <2>2. ASSUME NEW a \in Accounts, IsCached(file[a])' PROVE Of(machine[a], file[a])'
    <3>1. CASE file' = [file EXCEPT ![h] = id[c]]
      BY <1>0, <1>1, <1>4, <2>2, <3>1 DEF Reasons, Of, IsCached, FingerprintType, machineVars, setting
    <3>2. CASE UNCHANGED file
      BY <1>1, <2>2, <3>2 DEF Reasons, Of, IsCached, machineVars, setting
    <3>. QED BY <1>3, <3>1, <3>2
  <2>3. ASSUME NEW d \in Clients, pc'[d] \in {"store", "write"}
        PROVE  Of(machine[account[d]], id[d])'
    BY <1>0, <1>1, <1>2, <2>3 DEF Reasons, Of, FingerprintType, machineVars, setting
  <2>. QED BY <2>1, <2>2, <2>3 DEF Reasons
<1>8. \A a \in Accounts : Generating(a)' = Generating(a) \ {c}
  BY <1>0, <1>1, <1>2 DEF Generating, FingerprintType, setting
<1>9. ASSUME NEW a \in Accounts, ~overlapped'[a]
      PROVE  Alone(a)' /\ (~unstored'[a] => FirstOrStored(a)')
  <2>1. Alone(a) /\ ~overlapped[a]
    BY <1>1, <1>9 DEF Kept
  <2>2. Alone(a)'
    BY <1>8, <2>1 DEF Alone
  <2>3. ASSUME ~unstored'[a] PROVE FirstOrStored(a)'
    <3>1. ~unstored[a] /\ FirstOrStored(a)
      BY <1>0, <1>3, <2>1, <2>3 DEF Kept, FingerprintType
    <3>2. CASE a = h
      <4>1. Generating(a)' = {}
        BY <1>0, <1>8, <2>1, <3>2 DEF Alone
      <4>2. used'[a] = {id[c]}
        BY <1>0, <1>2, <3>1, <3>2 DEF FirstOrStored, FingerprintType
      <4>3. file'[a] = id[c]
        BY <1>0, <1>3, <2>3, <3>2 DEF FingerprintType
      <4>. QED BY <4>1, <4>2, <4>3 DEF FirstOrStored
    <3>3. CASE a # h
      <4>1. Generating(a)' \subseteq Generating(a) /\ used'[a] = used[a] /\ file'[a] = file[a]
        BY <1>2, <1>3, <1>8, <3>3 DEF FingerprintType
      <4>. QED BY <3>1, <4>1 DEF FirstOrStored, IsCached
    <3>. QED BY <3>2, <3>3
  <2>. QED BY <2>2, <2>3
<1>. QED BY <1>5, <1>6, <1>7, <1>9 DEF Kept

\* Hardware, name and kernel change: what a machine had only grows.
LEMMA ChangeStep ==
  ASSUME FingerprintInv, NEW m \in Machines, Change(m)
  PROVE  FingerprintInv'
<1>. USE DEF FingerprintInv
<1>1. UNCHANGED <<setting, file, pc, id, faults, used, overlapped, unstored>>
  BY DEF Change
<1>. DEFINE Grows == /\ sources' \in [Machines -> Sources]
                     /\ name' \in [Machines -> Names]
                     /\ had' = [n \in Machines |-> had'[n]]
                     /\ \A n \in Machines : had[n] \subseteq had'[n]
                     /\ HadKnown'
<1>2. Grows
  <2>1. ASSUME NEW i \in 1..SourceCount, NEW v \in Genuine \cup {Filler, Empty},
               sources' = [sources EXCEPT ![m][i] = v],
               had' = [had EXCEPT ![m] = @ \cup (Genuine \cap {v})],
               UNCHANGED name
        PROVE  Grows
    BY <2>1 DEF FingerprintType, HadKnown, Sources
  <2>2. ASSUME NEW n \in Names,
               name' = [name EXCEPT ![m] = n],
               had' = [had EXCEPT ![m] = @ \cup {n}],
               UNCHANGED sources
        PROVE  Grows
    BY <2>2 DEF FingerprintType, HadKnown
  <2>3. CASE UNCHANGED <<sources, name, had>>
    BY <2>3 DEF FingerprintType, HadKnown
  <2>. QED BY <2>1, <2>2, <2>3 DEF Change
<1>3. FingerprintType'
  BY <1>1, <1>2 DEF FingerprintType, setting
<1>4. Reasons'
  BY <1>1, <1>2 DEF Reasons, Of, FingerprintType, setting, IsCached
<1>5. \A n \in Accounts : Generating(n)' = Generating(n)
  BY <1>1 DEF Generating, setting
<1>6. Kept'
  BY <1>1, <1>5 DEF Kept, Alone, FirstOrStored, IsCached
<1>. QED BY <1>2, <1>3, <1>4, <1>6

\* A machine reboots: nobody generates there, and if a file is lost no id in it was used.
LEMMA RebootStep ==
  ASSUME FingerprintInv, NEW m \in Machines, Reboot(m)
  PROVE  FingerprintInv'
<1>. DEFINE Cleared(a) == machine[a] = m /\ place[a] = "temp"
<1>. USE DEF FingerprintInv
<1>1. /\ UNCHANGED <<machineVars, setting, used, overlapped>>
      /\ pc' = [c \in Clients |-> IF machine[account[c]] = m THEN "down" ELSE pc[c]]
      /\ id' = [c \in Clients |-> IF machine[account[c]] = m THEN <<>> ELSE id[c]]
      /\ file' = [a \in Accounts |-> IF Cleared(a) THEN Missing ELSE file[a]]
      /\ unstored' = [a \in Accounts |-> unstored[a] \/ (Cleared(a) /\ used[a] # {})]
  BY DEF Reboot
<1>2. FingerprintType'
  <2>1. unstored' \in [Accounts -> BOOLEAN]
    BY <1>1 DEF FingerprintType
  <2>2. file' = [a \in Accounts |-> file'[a]]
    BY <1>1
  <2>. QED BY <1>1, <2>1, <2>2 DEF FingerprintType, machineVars, setting, PCs
<1>3. HadKnown'
  BY <1>1 DEF HadKnown, machineVars
<1>4. Reasons'
  BY <1>1 DEF Reasons, Of, IsCached, FingerprintType, machineVars, setting
<1>5. \A a \in Accounts :
          Generating(a)' = IF machine[a] = m THEN {} ELSE Generating(a)
  BY <1>1 DEF Generating, FingerprintType, setting
<1>6. ASSUME NEW a \in Accounts, ~overlapped'[a]
      PROVE  Alone(a)' /\ (~unstored'[a] => FirstOrStored(a)')
  <2>1. /\ Alone(a) /\ used'[a] = used[a]
        /\ ~unstored'[a] => FirstOrStored(a)
    BY <1>1, <1>6 DEF Kept, FingerprintType
  <2>2. Alone(a)'
    BY <1>5, <2>1 DEF Alone
  <2>3. ASSUME ~unstored'[a] PROVE FirstOrStored(a)'
    <3>1. CASE Cleared(a)
      <4>1. used[a] = {} /\ Generating(a)' = {}
        BY <1>1, <1>5, <2>3, <3>1
      <4>. QED BY <2>1, <4>1 DEF FirstOrStored
    <3>2. CASE ~Cleared(a)
      <4>1. file'[a] = file[a]
        BY <1>1, <3>2
      <4>. QED BY <1>5, <2>1, <2>3, <4>1 DEF FirstOrStored, IsCached
    <3>. QED BY <3>1, <3>2
  <2>. QED BY <2>2, <2>3
<1>. QED BY <1>2, <1>3, <1>4, <1>6 DEF Kept

-----------------------------------------------------------------------------
(* The theorems *)

LEMMA NextInv == FingerprintInv /\ [Next]_vars => FingerprintInv'
<1>. SUFFICES ASSUME FingerprintInv, [Next]_vars PROVE FingerprintInv'
  OBVIOUS
<1>1. CASE UNCHANGED vars
  <2>. USE <1>1 DEF vars, machineVars, setting, FingerprintInv
  <2>1. FingerprintType'
    BY DEF FingerprintType
  <2>2. HadKnown'
    BY DEF HadKnown
  <2>3. Reasons'
    BY DEF Reasons, Of, IsCached
  <2>4. \A a \in Accounts : Generating(a)' = Generating(a)
    BY DEF Generating
  <2>5. Kept'
    BY <2>4 DEF Kept, Alone, FirstOrStored, IsCached
  <2>. QED BY <2>1, <2>2, <2>3, <2>5
<1>2. CASE \E c \in Clients :
              \/ ReadCache(c) \/ CollectSources(c) \/ OpenCache(c)
              \/ WriteCache(c) \/ WriteFails(c) \/ Exit(c)
  <2>1. PICK c \in Clients :
               \/ ReadCache(c) \/ CollectSources(c) \/ OpenCache(c)
               \/ WriteCache(c) \/ WriteFails(c) \/ Exit(c)
    BY <1>2
  <2>2. CASE ReadCache(c)
    BY <2>2, ReadCacheStep
  <2>3. CASE CollectSources(c)
    BY <2>3, CollectSourcesStep
  <2>4. CASE OpenCache(c)
    BY <2>4, OpenCacheStep
  <2>5. CASE WriteCache(c) \/ WriteFails(c)
    BY <2>5, WriteStep
  <2>6. CASE Exit(c)
    BY <2>6, ExitStep
  <2>. QED BY <2>1, <2>2, <2>3, <2>4, <2>5, <2>6
<1>3. CASE \E m \in Machines : Change(m) \/ Reboot(m)
  <2>1. PICK m \in Machines : Change(m) \/ Reboot(m)
    BY <1>3
  <2>2. CASE Change(m)
    BY <2>2, ChangeStep
  <2>3. CASE Reboot(m)
    BY <2>3, RebootStep
  <2>. QED BY <2>1, <2>2, <2>3
<1>. QED BY <1>1, <1>2, <1>3 DEF Next

LEMMA FingerprintInvariant == Spec => []FingerprintInv
  BY InitInv, NextInv, PTL DEF Spec

\* GenerateDeviceID: the clients of one account, a user with one home directory, register
\* with one id whatever becomes of hardware, name and kernel, of what could be read, and
\* wherever they are killed, as long as no two generate at a time and the file is written
\* and not lost.
THEOREM FingerprintKeepsId == Spec => []StoredIdIsKept
<1>1. FingerprintInv => StoredIdIsKept
  <2>. SUFFICES ASSUME FingerprintInv, NEW a \in Accounts, ~overlapped[a], ~unstored[a]
                PROVE  Cardinality(used[a]) <= 1
    BY DEF StoredIdIsKept
  <2>1. used[a] = {} \/ used[a] = {file[a]}
    BY DEF FingerprintInv, Kept, FirstOrStored
  <2>2. CASE used[a] = {}
    BY <2>2, FS_EmptySet
  <2>3. CASE used[a] = {file[a]}
    <3>1. Cardinality({file[a]}) = 1
      BY FS_Singleton
    <3>. QED BY <2>3, <3>1
  <2>. QED BY <2>1, <2>2, <2>3
<1>. QED BY <1>1, FingerprintInvariant, PTL

\* GenerateDeviceID and isInvalidDeviceSource: machines that register with one id had a
\* hardware identifier or a host name in common, so no placeholder made them one device.
THEOREM FingerprintSharesWithReason == Spec => []SharedIdHasReason
<1>1. FingerprintInv => SharedIdHasReason
  BY DEF FingerprintInv, FingerprintType, Reasons, Of, SharedIdHasReason
<1>. QED BY <1>1, FingerprintInvariant, PTL
=============================================================================
