---------------------------- MODULE Fingerprint ----------------------------
(***************************************************************************)
(* The device id of a client: GenerateDeviceID (internal/client/           *)
(* fingerprint.go) and the file it keeps the id in.                        *)
(*                                                                         *)
(* The first connect of a client process reads the file; without one of    *)
(* 64 bytes it collects the hardware sources it can read on its machine,   *)
(* derives an id and stores it: the file is truncated, then written.       *)
(* Hardware, name and kernel of a machine may change, client processes may *)
(* start, overlap and end at any moment, and the machine may reboot.       *)
(* SHA-256 is taken to be injective: an id is the sequence of strings it   *)
(* is computed from.                                                       *)
(*                                                                         *)
(* The file is in the home directory of the process, and what a process    *)
(* may read depends on its user (product_uuid is root's): both belong to   *)
(* an account, a user of a machine with the home directory of its          *)
(* environment.  A machine may have several.                               *)
(***************************************************************************)
EXTENDS Integers, Sequences, FiniteSets, SequencesExt

CONSTANTS
    Clients,        \* client processes
    Accounts,       \* a user of a machine, with a home directory of its own
    Machines,
    SourceCount,    \* sources that collectHardwareSources has: 4 on Linux, 0 on Windows
    Genuine,        \* values that identify hardware
    Names,          \* host names
    Kernels,        \* contents of /proc/version
    Filler,         \* a placeholder, as "To be filled by O.E.M."
    Empty,          \* a source that cannot be read
    MaxChange,      \* bound: changes of hardware, name or kernel
    MaxFault        \* bound: reboots and failing writes

ASSUME ValuesAssumption ==
    /\ Filler # Empty
    /\ {Filler, Empty, "missing", "truncated"} \cap Genuine = {}
ASSUME BoundsAssumption == {SourceCount, MaxChange, MaxFault} \subseteq Nat

\* Where the directory .teamx is: in a home directory that can be written or not, or,
\* when the process has none, in the directory for temporary files.
Places == {"home", "readonly", "temp"}

Sources == [1..SourceCount -> Genuine \cup {Filler, Empty}]

\* Contents of the file other than an id.
Missing == <<"missing">>
Truncated == <<"truncated">>

VARIABLES
    sources, name, kernel,  \* of every machine
    account,                \* of every client
    machine,                \* of every account
    place, file,            \* of every account
    pc,                     \* of every client: "down", "collect", "store", "write", "running"
    id,                     \* of every client: c.deviceID
    changes, faults,
    \* history
    had,                    \* of every machine: genuine values and names it had so far
    used,                   \* of every account: ids that clients registered with
    overlapped,             \* two of its clients generated an id at a time
    unstored                \* a client ran with an id it could not store, or the file was lost

machineVars == <<sources, name, kernel, had, changes>>
setting == <<account, machine, place>>
vars == <<machineVars, setting, file, pc, id, faults, used, overlapped, unstored>>

Init ==
    /\ sources \in [Machines -> Sources]
    /\ name \in [Machines -> Names]
    /\ kernel \in [Machines -> Kernels]
    /\ account \in [Clients -> Accounts]
    /\ machine \in [Accounts -> Machines]
    /\ place \in [Accounts -> Places]
    /\ \A a, b \in Accounts :     \* temporary files are not shared
          a # b /\ machine[a] = machine[b] => {place[a], place[b]} # {"temp"}
    /\ file = [a \in Accounts |-> Missing]
    /\ pc = [c \in Clients |-> "down"]
    /\ id = [c \in Clients |-> <<>>]
    /\ changes = 0 /\ faults = 0
    /\ used = [a \in Accounts |-> {}]
    /\ had = [m \in Machines |-> {name[m]} \cup (Genuine \cap {sources[m][i] : i \in 1..SourceCount})]
    /\ overlapped = [a \in Accounts |-> FALSE]
    /\ unstored = [a \in Accounts |-> FALSE]

-----------------------------------------------------------------------------
(* Deriving an id *)

\* Mutant: placeholders are kept.
IsInvalidEmptyOnly(v) == v = Empty

\* An empty string, or one of isInvalidDeviceSource.
IsInvalid(v) == v \in {Empty, Filler}

ValidAt(m, seen) == {i \in seen : ~IsInvalid(sources[m][i])}

\* The valid values in their order; which source a value came from does not matter, and
\* one that cannot be read is as good as empty.
Valid(m, seen) ==
    LET at == ValidAt(m, seen)
        nth(k) == CHOOSE i \in at : Cardinality({j \in at : j <= i}) = k
    IN  [k \in 1..Cardinality(at) |-> sources[m][nth(k)]]

Fallback(m) == <<name[m], kernel[m]>>

DeviceID(m, seen) == IF Valid(m, seen) = <<>> THEN Fallback(m) ELSE Valid(m, seen)

-----------------------------------------------------------------------------
(* A client process *)

Generating(a) == {c \in Clients : account[c] = a /\ pc[c] \in {"collect", "store", "write"}}

Runs(c, i) ==
    /\ pc' = [pc EXCEPT ![c] = "running"]
    /\ id' = [id EXCEPT ![c] = i]
    /\ used' = [used EXCEPT ![account[c]] = @ \cup {i}]

\* Mutant: a file of any length will do.
IsCachedAny(content) == content # Missing

\* len(id) == 64
IsCached(content) == content \notin {Missing, Truncated}

\* The file is read; without an id in it, one has to be generated.
ReadCache(c) ==
    LET a == account[c] IN
    /\ pc[c] = "down"
    /\ \/ IsCached(file[a]) /\ Runs(c, file[a]) /\ UNCHANGED overlapped
       \/ /\ ~IsCached(file[a])
          /\ pc' = [pc EXCEPT ![c] = "collect"]
          /\ overlapped' = [overlapped EXCEPT ![a] = @ \/ Generating(a) # {}]
          /\ UNCHANGED <<id, used>>
    /\ UNCHANGED <<machineVars, setting, file, faults, unstored>>

\* What the user may read, and can be read now.
CollectSources(c) ==
    /\ pc[c] = "collect"
    /\ \E seen \in SUBSET (1..SourceCount) :
          id' = [id EXCEPT ![c] = DeviceID(machine[account[c]], seen)]
    /\ pc' = [pc EXCEPT ![c] = "store"]
    /\ UNCHANGED <<machineVars, setting, file, faults, used, overlapped, unstored>>

\* MkdirAll and the open for writing succeed.
Storable(c) == place[account[c]] # "readonly"

\* WriteFile truncates the file.  Errors are ignored.
OpenCache(c) ==
    LET a == account[c] IN
    /\ pc[c] = "store"
    /\ \/ /\ Storable(c)
          /\ file' = [file EXCEPT ![a] = Truncated]
          /\ pc' = [pc EXCEPT ![c] = "write"]
          /\ UNCHANGED <<id, used, unstored>>
       \/ /\ ~Storable(c)
          /\ Runs(c, id[c])
          /\ unstored' = [unstored EXCEPT ![a] = @ \/ place[a] = "readonly"]
          /\ UNCHANGED file
    /\ UNCHANGED <<machineVars, setting, faults, overlapped>>

WriteCache(c) ==
    /\ pc[c] = "write"
    /\ file' = [file EXCEPT ![account[c]] = id[c]]
    /\ Runs(c, id[c])
    /\ UNCHANGED <<machineVars, setting, faults, overlapped, unstored>>

\* No space is left: the file stays empty and the client goes on.
WriteFails(c) ==
    /\ pc[c] = "write"
    /\ faults < MaxFault
    /\ faults' = faults + 1
    /\ Runs(c, id[c])
    /\ unstored' = [unstored EXCEPT ![account[c]] = TRUE]
    /\ UNCHANGED <<machineVars, setting, file, overlapped>>

\* The process ends or is killed, wherever it is.
Exit(c) ==
    /\ pc[c] # "down"
    /\ pc' = [pc EXCEPT ![c] = "down"]
    /\ id' = [id EXCEPT ![c] = <<>>]
    /\ UNCHANGED <<machineVars, setting, file, faults, used, overlapped, unstored>>

-----------------------------------------------------------------------------
(* A machine *)

Change(m) ==
    /\ changes < MaxChange
    /\ changes' = changes + 1
    /\ \/ \E i \in 1..SourceCount, v \in Genuine \cup {Filler, Empty} :
             /\ sources' = [sources EXCEPT ![m][i] = v]
             /\ had' = [had EXCEPT ![m] = @ \cup (Genuine \cap {v})]
             /\ UNCHANGED <<name, kernel>>
       \/ \E n \in Names :
             /\ name' = [name EXCEPT ![m] = n]
             /\ had' = [had EXCEPT ![m] = @ \cup {n}]
             /\ UNCHANGED <<sources, kernel>>
       \/ \E k \in Kernels :
             /\ kernel' = [kernel EXCEPT ![m] = k]
             /\ UNCHANGED <<sources, name, had>>
    /\ UNCHANGED <<setting, file, pc, id, faults, used, overlapped, unstored>>

\* Processes end, and temporary files are gone.
Reboot(m) ==
    /\ faults < MaxFault
    /\ faults' = faults + 1
    /\ pc' = [c \in Clients |-> IF machine[account[c]] = m THEN "down" ELSE pc[c]]
    /\ id' = [c \in Clients |-> IF machine[account[c]] = m THEN <<>> ELSE id[c]]
    /\ LET cleared(a) == machine[a] = m /\ place[a] = "temp" IN
          /\ file' = [a \in Accounts |-> IF cleared(a) THEN Missing ELSE file[a]]
          /\ unstored' = [a \in Accounts |-> unstored[a] \/ (cleared(a) /\ used[a] # {})]
    /\ UNCHANGED <<machineVars, setting, used, overlapped>>

Next ==
    \/ \E c \in Clients :
          ReadCache(c) \/ CollectSources(c) \/ OpenCache(c) \/ WriteCache(c) \/ WriteFails(c) \/ Exit(c)
    \/ \E m \in Machines : Change(m) \/ Reboot(m)

Spec == Init /\ [][Next]_vars

-----------------------------------------------------------------------------
(* Properties *)

\* Clients of one account, and so of a machine where all run as one user with one home
\* directory, register with one id, whatever becomes of hardware, name and kernel, of
\* what could be read, and wherever clients are killed, if the id could be stored and no
\* two of them generated at a time.  Another account of the machine may have another id.
StoredIdIsKept ==
    \A a \in Accounts : (~overlapped[a] /\ ~unstored[a]) => Cardinality(used[a]) <= 1

\* Machines that register with the same id had a hardware identifier in common, or both
\* fell back to the same host name: no value that isInvalidDeviceSource knows for a
\* placeholder makes them one device.
SharedIdHasReason ==
    \A a, b \in Accounts :
        used[a] \cap used[b] # {} => had[machine[a]] \cap had[machine[b]] # {}
=============================================================================
