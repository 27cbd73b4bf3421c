SPECIFICATION Spec
CONSTANTS
    root = root
    data = data
    stick = stick
    v4 = v4
    local = local
    none = none
    junk = junk
    Root = root
    Empty = none
    Disks <- SomeDisks
    Capacity <- SomeCapacity
    Global = {v4}
    Addresses = {v4, local}
    CpuBlocks <- SomeCpuBlocks
    MemFiles <- SomeMemFiles
    MountTables <- SomeMountTables
    Interfaces <- SomeInterfaces
    Dmi <- SomeDmi
    ReleaseFiles <- SomeReleaseFiles
    Width = 13
    UnitBits = 2
    MaxChange = 1
    MaxFault = 1
INVARIANTS CollectedIsOwn MemoryAddsUp ShownIsCollected
CHECK_DEADLOCK FALSE
