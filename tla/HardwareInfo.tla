---------------------------- MODULE HardwareInfo ----------------------------
(***************************************************************************)
(* What a machine is and what the admin is told of it.                     *)
(*                                                                         *)
(* A client collects twice: SysInfo when it starts (internal/client/       *)
(* sysinfo.go), for Register, and a HardwareInfo for every report          *)
(* (internal/client/collector), which the server lays down in columns,     *)
(* loads again (internal/server/store/hardware.go) and the command line    *)
(* prints (cmd/admin/output.go).                                           *)
(*                                                                         *)
(* Collecting is no snapshot: the mounts and the interfaces are listed,    *)
(* then asked about one by one, while disks are mounted and unmounted and  *)
(* interfaces change.  Sizes are 64 bits wide in the code and Width here;  *)
(* the unit of sizes, 1024, is 2^UnitBits.  A behaviour is one start of a  *)
(* client or one report; whether a report is sent at all, arrives and is   *)
(* stored as a whole is the subject of Reports and ReportStore.            *)
(***************************************************************************)
EXTENDS Integers, Sequences, FiniteSets, SequencesExt, TLC

CONSTANTS
    Disks,              \* file systems
    Root,               \* the one on "/"
    Capacity,           \* of a file system: [blocks, free, size] (statfs)
    Global,             \* addresses that are global unicast
    Addresses,          \* all
    CpuBlocks,          \* contents of /proc/cpuinfo: sequences of blocks of lines
    MemFiles,           \* contents of /proc/meminfo: sequences of lines
    MountTables,        \* contents of /proc/mounts when collecting starts
    Interfaces,         \* sequences of interfaces, when collecting starts
    Dmi,                \* the three fields of a DMI section
    ReleaseFiles,       \* contents of /etc/os-release: sequences of lines
    Empty,              \* the empty text, a missing file
    Width, UnitBits,    \* 64 and 10
    MaxChange,          \* bound: changes of the machine
    MaxFault            \* bound: system calls and queries that fail

ASSUME DisksAssumption ==
    /\ Root \in Disks
    /\ \A d \in Disks : Capacity[d] \in [blocks : Nat, free : Nat, size : Nat]
    /\ \A d \in Disks : Capacity[d].free <= Capacity[d].blocks
ASSUME WidthAssumption == Width \in Nat \ {0} /\ UnitBits \in Nat \ {0}
ASSUME AddressesAssumption == Global \subseteq Addresses
ASSUME BoundsAssumption == {MaxChange, MaxFault} \subseteq Nat

VARIABLES
    platform,   \* "linux", "windows"
    \* the machine
    mounted,    \* [dev, at, type], a later one covers an earlier one of the same place
    nics,       \* [name, up, loop, mac, addrs]
    \* the collector
    task,       \* "start", "report"
    stage,      \* the section to be collected next, "save", "load", "printed", "registered"
    listing,    \* what was listed last, mounts or interfaces
    next,       \* the entry to ask about
    info,       \* what is collected so far
    \* the server and the admin
    columns, shown,
    changes, faults,
    \* history
    sources,    \* the files that were read
    stable      \* entries of listing that were as listed until they were asked about

machineVars == <<mounted, nics>>
boundVars == <<changes, faults>>
vars == <<platform, machineVars, task, stage, listing, next, info, columns, shown,
          boundVars, sources, stable>>

Wrap(n) == n % (2 ^ Width)
NoFile == <<>>

Init ==
    /\ platform \in {"linux", "windows"}
    /\ mounted \in MountTables /\ nics \in Interfaces
    /\ task \in {"start", "report"}
    /\ stage = IF task = "start" THEN "hostname" ELSE "cpu"
    /\ listing = <<>> /\ next = 1
    /\ info = <<>> /\ columns = <<>> /\ shown = <<>>
    /\ changes = 0 /\ faults = 0
    /\ sources = <<>> /\ stable = {}

-----------------------------------------------------------------------------
(* The machine *)

\* What statfs of a place finds: the last one mounted there, else what it is a directory of.
Top(table, at) ==
    LET here == {i \in DOMAIN table : table[i].at = at}
    IN  IF here = {} THEN CHOOSE m \in ToSet(table) : m.dev = Root
        ELSE table[CHOOSE i \in here : \A j \in here : j <= i]

Present(all, name) == {n \in ToSet(all) : n.name = name}

\* Whether entry e of the listing is still what the machine has.
AsListed(e, table, all) ==
    IF stage = "statfs" THEN Top(table, e.at) = e ELSE e \in ToSet(all)

Changes ==
    /\ changes < MaxChange /\ changes' = changes + 1
    /\ stage \in {"statfs", "addrs"}
    /\ stable' = {i \in stable : i < next \/ AsListed(listing[i], mounted', nics')}
    /\ UNCHANGED <<platform, task, stage, listing, next, info, columns, shown, faults, sources>>

Mount(d, at) ==
    /\ mounted' = Append(mounted, [dev |-> d, at |-> at, type |-> "real"])
    /\ UNCHANGED nics
    /\ Changes

Unmount(i) ==
    /\ mounted[i].dev # Root
    /\ mounted' = RemoveAt(mounted, i)
    /\ UNCHANGED nics
    /\ Changes

Readdress(i, a) ==
    /\ nics' = [nics EXCEPT ![i].addrs = <<a>>]
    /\ UNCHANGED mounted
    /\ Changes

Unplug(i) ==
    /\ nics' = RemoveAt(nics, i)
    /\ UNCHANGED mounted
    /\ Changes

-----------------------------------------------------------------------------
(* Collecting *)
Advance(at, to) == stage = at /\ stage' = to

\* A section that is done in one go, with the file it reads.
Section(at, to, name, value, file) ==
    /\ Advance(at, to)
    /\ info' = info @@ (name :> value)
    /\ sources' = sources @@ (name :> file)
    /\ UNCHANGED <<platform, machineVars, task, listing, next, columns, shown, boundVars, stable>>

Blank == <<>>

\* A value that is no number leaves the field alone.
Number(value, old) == IF value \in Nat THEN value ELSE old

\* "stop at the first gap" once model and cores are known.
CpuLine(cpu, line) ==
    IF cpu.done THEN cpu
    ELSE IF line = Blank THEN [cpu EXCEPT !.done = cpu.model # Empty /\ cpu.cores > 0]
    ELSE CASE line[1] = "model name" /\ cpu.model = Empty -> [cpu EXCEPT !.model = line[2]]
           [] line[1] = "cpu cores" /\ cpu.cores = 0 -> [cpu EXCEPT !.cores = Number(line[2], 0)]
           [] line[1] = "siblings" /\ cpu.threads = 0 -> [cpu EXCEPT !.threads = Number(line[2], 0)]
           [] OTHER -> cpu

CpuLines(blocks) == FlattenSeq([i \in DOMAIN blocks |-> Append(blocks[i], Blank)])

NoCpu == [model |-> Empty, cores |-> 0, threads |-> 0, done |-> FALSE]
CpuInfo(cpu) == [model |-> cpu.model, cores |-> cpu.cores, threads |-> cpu.threads]

collectCPU ==
    \E blocks \in IF platform = "linux" THEN CpuBlocks ELSE {NoFile} :
        Section("cpu", "memory", "cpu", CpuInfo(FoldLeft(CpuLine, NoCpu, CpuLines(blocks))), blocks)

\* Once both are positive the file is read no further.
MemLine(mem, line) ==
    IF (mem.total > 0 /\ mem.avail > 0) \/ line[2] \notin Nat THEN mem
    ELSE CASE line[1] = "MemTotal" -> [mem EXCEPT !.total = line[2]]
           [] line[1] = "MemAvailable" -> [mem EXCEPT !.avail = line[2]]
           [] OTHER -> mem

\* Mutant: the available kilobytes are taken for bytes.
MemoryInfoBytes(mem) ==
    LET total == Wrap(mem.total * 2 ^ UnitBits)
    IN  [total |-> total, avail |-> mem.avail, used |-> Wrap(total - mem.avail)]

\* From kB; "used := total - avail".
MemoryInfo(mem) ==
    LET total == Wrap(mem.total * 2 ^ UnitBits)
        avail == Wrap(mem.avail * 2 ^ UnitBits)
    IN  [total |-> total, avail |-> avail, used |-> Wrap(total - avail)]

collectMemory ==
    \E file \in IF platform = "linux" THEN MemFiles ELSE {NoFile} :
        Section("memory", "mounts", "memory",
                MemoryInfo(FoldLeft(MemLine, [total |-> 0, avail |-> 0], file)), file)

\* A list is taken, of which every entry is asked about later.
Lists(at, to, name, entries, true) ==
    /\ Advance(at, to)
    /\ listing' = entries /\ next' = 1
    /\ stable' = {i \in DOMAIN entries : true[i]}
    /\ info' = info @@ (name :> <<>>)
    /\ UNCHANGED <<platform, machineVars, task, columns, shown, changes, sources>>

\* The next entry adds value to the section, or nothing.
Adds(at, name, values) ==
    /\ stage = at /\ next \in DOMAIN listing
    /\ info' = [info EXCEPT ![name] = @ \o values]
    /\ next' = next + 1
    /\ UNCHANGED <<platform, machineVars, task, stage, listing, columns, shown, changes, sources>>

ListEnds(at, to) ==
    /\ Advance(at, to)
    /\ next \notin DOMAIN listing
    /\ UNCHANGED <<platform, machineVars, task, listing, next, info, columns, shown, boundVars,
                   sources, stable>>

Fails == faults < MaxFault /\ faults' = faults + 1

\* realFSTypes
IsReal(m) == m.type = "real"

\* /proc/mounts is read, or cannot be.  Windows has no disks, and so it is with the
\* interfaces.
readMounts ==
    LET real == IF platform = "linux" THEN SelectSeq(mounted, IsReal) ELSE <<>>
        top == [i \in DOMAIN real |-> Top(mounted, real[i].at) = real[i]]
    IN  \/ Lists("mounts", "statfs", "disks", real, top) /\ UNCHANGED faults
        \/ Lists("mounts", "statfs", "disks", <<>>, <<>>) /\ Fails

DiskInfo(m, c) ==
    LET total == Wrap(c.blocks * c.size)
        free == Wrap(c.free * c.size)
    IN  [dev |-> m.dev, at |-> m.at, type |-> m.type, total |-> total, free |-> free,
         used |-> Wrap(total - free)]

\* Mutant: the figures of the root, whatever is mounted where.
StatfsRoot(m) == DiskInfo(m, Capacity[Root])

Statfs(m) == DiskInfo(m, Capacity[Top(mounted, m.at).dev])

collectDisk ==
    \/ Adds("statfs", "disks", <<Statfs(listing[next])>>) /\ UNCHANGED <<faults, stable>>
    \/ Adds("statfs", "disks", <<>>) /\ Fails /\ stable' = stable \ {next}

disksEnd == ListEnds("statfs", "interfaces")

NoMac == "00:00:00:00:00:00"

\* net.Interfaces, of which an error leaves the section empty.
listInterfaces ==
    LET all == IF platform = "linux" \/ task = "start" THEN nics ELSE <<>>
    IN  \/ Lists("interfaces", "addrs", "nets", all, [i \in DOMAIN all |-> TRUE]) /\ UNCHANGED faults
        \/ Lists("interfaces", "addrs", "nets", <<>>, <<>>) /\ Fails

\* iface.Addrs: those it has now; without the interface, none or an error.
Addrs(n) == IF Present(nics, n.name) = {} THEN <<>>
            ELSE (CHOOSE p \in Present(nics, n.name) : TRUE).addrs

NetInfo(n, addrs) ==
    [name |-> n.name, mac |-> IF n.mac = Empty THEN NoMac ELSE n.mac, ips |-> addrs, loop |-> n.loop]

collectNetInfo ==
    /\ task = "report"
    /\ \/ Adds("addrs", "nets", <<NetInfo(listing[next], Addrs(listing[next]))>>)
          /\ UNCHANGED <<faults, stable>>
       \/ Adds("addrs", "nets", <<>>) /\ Fails /\ stable' = stable \ {next}

\* SysInfo leaves out interfaces that are down, the loopback, and other than global
\* unicast addresses.
SysNet(n, addrs) ==
    IF ~n.up \/ n.loop THEN <<>>
    ELSE <<[name |-> n.name, mac |-> n.mac, ips |-> SelectSeq(addrs, LAMBDA a : a \in Global)]>>

collectSysNet ==
    /\ task = "start"
    /\ \/ Adds("addrs", "nets", SysNet(listing[next], Addrs(listing[next]))) /\ UNCHANGED <<faults, stable>>
       \/ Adds("addrs", "nets", SysNet(listing[next], <<>>)) /\ Fails /\ stable' = stable \ {next}

netsEnd == ListEnds("addrs", IF task = "start" THEN "version" ELSE "bios")

\* A section of three DMI fields is absent when all are empty.
DmiInfo(fields) == IF \A i \in 1..3 : fields[i] = Empty THEN <<>> ELSE <<fields>>

DmiFields == IF platform = "linux" THEN Dmi ELSE {<<Empty, Empty, Empty>>}

collectBIOS == \E fields \in DmiFields : Section("bios", "board", "bios", DmiInfo(fields), NoFile)
collectMotherboard == \E fields \in DmiFields : Section("board", "save", "board", DmiInfo(fields), NoFile)

collectHostname ==
    \E name \in {"host", "unknown"} : Section("hostname", "interfaces", "hostname", name, NoFile)

\* The first PRETTY_NAME of the first file that is there.
readOSRelease(file) ==
    LET names == SelectSeq(file, LAMBDA line : line[1] = "PRETTY_NAME")
    IN  IF names = <<>> THEN "unknown" ELSE Head(names)[2]

collectOSVersion ==
    IF platform = "linux"
    THEN \E file \in ReleaseFiles : Section("version", "registered", "version", readOSRelease(file), file)
    ELSE Section("version", "registered", "version", "windows", NoFile)

-----------------------------------------------------------------------------
(* The server and the command line *)

\* int64(n) of an unsigned n, and back.
Int64(n) == IF n >= 2 ^ (Width - 1) THEN n - 2 ^ Width ELSE n
Uint64(n) == Wrap(n)

\* The text of a list, as tokens.
marshalJSONArray(items) ==
    <<"[">> \o FlattenSeq([i \in DOMAIN items |-> IF i = 1 THEN <<items[i]>> ELSE <<",", items[i]>>]) \o <<"]">>

\* The texts in quotes.
splitJSON(text) == SelectSeq(text, LAMBDA token : token \in Addresses)

parseJSONStringArray(text) == IF text = <<"[", "]">> THEN <<>> ELSE splitJSON(text)

Convert(record, fields, convert(_)) ==
    [f \in DOMAIN record |-> IF f \in fields THEN convert(record[f]) ELSE record[f]]

Sizes == {"total", "avail", "used", "free"}

SaveHardwareReport ==
    /\ Advance("save", "load")
    /\ columns' = [info EXCEPT !.memory = Convert(@, Sizes, Int64),
                               !.disks = [i \in DOMAIN @ |-> Convert(@[i], Sizes, Int64)],
                               !.nets = [i \in DOMAIN @ |-> Convert(@[i], {"ips"}, marshalJSONArray)]]
    /\ UNCHANGED <<platform, machineVars, task, listing, next, info, shown, boundVars, sources, stable>>

\* The tables other than hardware_reports, each with a loader that answers an error with
\* nothing.
Loaded == {"disks", "nets", "bios", "board"}

LoadHardware(lost) ==
    LET whole == [columns EXCEPT !.memory = Convert(@, Sizes, Uint64),
                                 !.disks = [i \in DOMAIN @ |-> Convert(@[i], Sizes, Uint64)],
                                 !.nets = [i \in DOMAIN @ |-> Convert(@[i], {"ips"}, parseJSONStringArray)]]
    IN  [f \in DOMAIN whole |-> IF f \in lost THEN <<>> ELSE whole[f]]

\* Mutant: the loop starts from the bytes and not from the kilobytes.
ExponentFromBytes(b) ==
    LET exp[n \in 0 .. 2 ^ Width - 1] == IF n < 2 ^ UnitBits THEN 0 ELSE 1 + exp[n \div 2 ^ UnitBits]
    IN  exp[b]

\* How often the loop of formatBytes multiplies: "n := b / unit; n >= unit; n /= unit".
Exponent(b) ==
    LET exp[n \in 0 .. 2 ^ Width - 1] == IF n < 2 ^ UnitBits THEN 0 ELSE 1 + exp[n \div 2 ^ UnitBits]
    IN  exp[b \div 2 ^ UnitBits]

Letters == <<"K", "M", "G", "T", "P", "E">>

\* The number of bytes, to be divided, and the index of the letter of its unit; 0 for "B".
formatBytes(b) == [bytes |-> b, letter |-> IF b < 2 ^ UnitBits THEN 0 ELSE Exponent(b) + 1]

memPercent(used, total) == IF total = 0 THEN 0 ELSE (100 * used) \div total

Usage(r) == [used |-> formatBytes(r.used), total |-> formatBytes(r.total), percent |-> memPercent(r.used, r.total)]

\* Disks have no mount point here and interfaces no loopback flag; no addresses are "-".
printHardwareBlock(hw) ==
    [cpu |-> hw.cpu, memory |-> Usage(hw.memory), bios |-> hw.bios, board |-> hw.board,
     disks |-> [i \in DOMAIN hw.disks |-> Usage(hw.disks[i]) @@ [dev |-> hw.disks[i].dev, type |-> hw.disks[i].type]],
     nets |-> [i \in DOMAIN hw.nets |-> [name |-> hw.nets[i].name, mac |-> hw.nets[i].mac,
                                         ips |-> IF hw.nets[i].ips = <<>> THEN <<"-">> ELSE hw.nets[i].ips]]]

GetTerminalHardware ==
    /\ Advance("load", "printed")
    /\ \E lost \in SUBSET Loaded :
          /\ lost # {} => faults < MaxFault
          /\ faults' = IF lost = {} THEN faults ELSE faults + 1
          /\ shown' = [json |-> LoadHardware(lost), text |-> printHardwareBlock(LoadHardware(lost)), lost |-> lost]
    /\ UNCHANGED <<platform, machineVars, task, listing, next, info, columns, changes, sources, stable>>

Next ==
    \/ \E d \in Disks \ {Root}, at \in {m.at : m \in ToSet(mounted)} : Mount(d, at)
    \/ \E i \in DOMAIN mounted : Unmount(i)
    \/ \E i \in DOMAIN nics : Unplug(i) \/ (\E a \in Addresses : Readdress(i, a))
    \/ collectCPU \/ collectMemory \/ readMounts \/ collectDisk \/ disksEnd
    \/ listInterfaces \/ collectNetInfo \/ collectSysNet \/ netsEnd
    \/ collectBIOS \/ collectMotherboard
    \/ collectHostname \/ collectOSVersion
    \/ SaveHardwareReport \/ GetTerminalHardware

Spec == Init /\ [][Next]_vars

-----------------------------------------------------------------------------
Collected(section) == section \in DOMAIN info

\* On a machine whose blocks of /proc/cpuinfo give the same fields, whatever their order,
\* the processor is the one they describe, though reading stops at the first gap that
\* follows a model and a number of cores (collectCPU).
CpuOfBlocks ==
    Collected("cpu") /\ platform = "linux" =>
        LET blocks == sources["cpu"]
            Field(b, key) == {l[2] : l \in {l \in ToSet(blocks[b]) : l[1] = key}}
            Says(b) == /\ info.cpu.model \in Field(b, "model name") \cup {Empty}
                       /\ \A n \in {<<"cpu cores", info.cpu.cores>>, <<"siblings", info.cpu.threads>>} :
                             IF Field(b, n[1]) \cap Nat = {} THEN n[2] = 0 ELSE n[2] \in Field(b, n[1])
                       /\ info.cpu.model = Empty => Field(b, "model name") = {}
        IN  (\A b, c \in DOMAIN blocks : ToSet(blocks[b]) = ToSet(blocks[c])) =>
                \A b \in DOMAIN blocks : Says(b)

\* Of a machine that has no more memory available than in total, the admin sees figures
\* that add up and no more than 100 per cent in use, the conversions to kilobytes, to
\* columns and back included (collectMemory, SaveHardwareReport, GetLatestHardware).
MemoryAddsUp ==
    stage = "printed" /\ platform = "linux" =>
        LET Value(key) == LET lines == SelectSeq(sources["memory"], LAMBDA l : l[1] = key /\ l[2] \in Nat)
                          IN  IF lines = <<>> THEN 0 ELSE Head(lines)[2] * 2 ^ UnitBits
            shownMemory == shown.json.memory
        IN  Value("MemAvailable") <= Value("MemTotal") =>
                /\ shownMemory.total = Value("MemTotal") /\ shownMemory.avail = Value("MemAvailable")
                /\ shownMemory.used + shownMemory.avail = shownMemory.total
                /\ shown.text.memory.percent <= 100

\* A disk that stayed mounted, and uncovered, from the listing until it was asked about
\* is reported once and with its own figures (collectDisks).
DisksOwn ==
    stage = "statfs" =>
        \A i \in stable : i < next =>
            /\ Cardinality({k \in DOMAIN info.disks : info.disks[k].dev = listing[i].dev
                                                      /\ info.disks[k].at = listing[i].at}) = 1
            /\ \E k \in DOMAIN info.disks :
                  info.disks[k] = DiskInfo(listing[i], Capacity[listing[i].dev])

\* An interface that stayed as listed until it was asked about is reported with all its
\* addresses; SysInfo has those of the interfaces that are up (both collectNetwork).
AddressesOwn ==
    stage = "addrs" =>
        \A i \in stable : i < next =>
            LET n == listing[i]
                own == {k \in DOMAIN info.nets : info.nets[k].name = n.name}
            IN  IF task = "report" THEN \E k \in own : info.nets[k].ips = n.addrs
                ELSE IF n.up /\ ~n.loop
                     THEN \E k \in own : ToSet(info.nets[k].ips) = ToSet(n.addrs) \cap Global
                     ELSE own = {}

\* What is collected is the machine's own, though it changes meanwhile.
CollectedIsOwn == CpuOfBlocks /\ DisksOwn /\ AddressesOwn

\* Every size, one that wrapped around included, has a letter (formatBytes would panic).
SizesPrintable ==
    \A r \in {shown.text.memory} \cup ToSet(shown.text.disks) :
        {r.used.letter, r.total.letter} \subseteq {0} \cup DOMAIN Letters

\* What is shown is what the client collected, section by section, absent sections
\* absent, but for those whose query failed, and can be printed.
ShownIsCollected ==
    stage = "printed" =>
        /\ \A section \in DOMAIN info :
              shown.json[section] = IF section \in shown.lost THEN <<>> ELSE info[section]
        /\ SizesPrintable
=============================================================================
