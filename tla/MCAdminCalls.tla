--------------------------- MODULE MCAdminCalls ---------------------------
\* Instances of AdminCalls for TLC.
EXTENDS AdminCalls

\* Devices are interchangeable.
Symmetry == Permutations(Devices)

At(second, place) == [local |-> second, zone |-> place]

\* Without bounds, one or two, the two the wrong way round, another zone.
SomeRanges ==
    {<<None, None>>, <<At(1, "Z"), None>>, <<None, At(0, "Z")>>, <<At(0, "Z"), At(1, "Z")>>,
     <<At(1, "Z"), At(0, "Z")>>, <<None, At(1, "+")>>}
=============================================================================
