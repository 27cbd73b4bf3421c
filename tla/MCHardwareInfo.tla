-------------------------- MODULE MCHardwareInfo --------------------------
\* An instance of HardwareInfo for TLC.
EXTENDS HardwareInfo

CONSTANTS root, data, stick, v4, local, none, junk

SomeDisks == {root, data, stick}
SomeCapacity == (root :> [blocks |-> 9, free |-> 4, size |-> 2])
                @@ (data :> [blocks |-> 5, free |-> 0, size |-> 1])
                @@ (stick :> [blocks |-> 1, free |-> 1, size |-> 4])

Model == <<"model name", "one">>
Threads(n) == <<"siblings", n>>
Cores(n) == <<"cpu cores", n>>
SomeCpuBlocks ==
    LET usual == <<Model, Threads(2), Cores(1)>>
        other == <<Cores(1), <<"flags", none>>, Model, Threads(2)>>
    IN  {<<>>, <<usual, usual>>, <<usual, other>>, <<other>>,
         <<<<Cores(1)>>, <<Cores(1)>>>>, <<<<Model, Cores(junk)>>, <<Model, Cores(junk)>>>>,
         <<<<Model>>, <<Threads(4), Cores(2)>>>>}

Total(n) == <<"MemTotal", n>>
Avail(n) == <<"MemAvailable", n>>
\* The largest total fills the upper half of the width.
SomeMemFiles ==
    {<<>>, <<Total(5), <<"MemFree", 1>>, Avail(3)>>, <<Avail(2), Total(2)>>, <<Total(7)>>,
     <<Total(junk), Avail(3)>>, <<Total(1500), Avail(100), Total(2)>>}

On(d, place, kind) == [dev |-> d, at |-> place, type |-> kind]
SomeMountTables ==
    {<<On(root, "/", "real")>>,
     <<On(root, "/", "real"), On(none, "/proc", "virtual"), On(data, "/m", "real")>>,
     <<On(root, "/", "real"), On(data, "/m", "real"), On(stick, "/m", "real")>>,
     <<On(root, "/", "real"), On(data, "/m", "real"), On(data, "/n", "real")>>}

Nic(id, isUp, isLoop, hw, all) == [name |-> id, up |-> isUp, loop |-> isLoop, mac |-> hw, addrs |-> all]
SomeInterfaces ==
    LET lo == Nic("lo", TRUE, TRUE, none, <<local>>)
    IN  {<<lo>>, <<lo, Nic("eth", TRUE, FALSE, "mac", <<local, v4>>)>>,
         <<lo, Nic("eth", FALSE, FALSE, "mac", <<>>), Nic("tun", TRUE, FALSE, none, <<v4>>)>>}

SomeDmi == {<<none, none, none>>, <<"maker", none, "serial">>}
SomeReleaseFiles == {<<>>, <<<<"ID", "x">>, <<"PRETTY_NAME", "one">>, <<"PRETTY_NAME", "two">>>>}
=============================================================================
