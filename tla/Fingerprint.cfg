SPECIFICATION Spec
CONSTANTS
    Clients = {c1, c2}
    Machines = {m1, m2}
    Accounts = {a1, a2}
    SourceCount = 1
    Genuine = {g1, g2}
    Names = {n1, n2}
    Kernels = {k1}
    Filler = Filler
    Empty = Empty
    MaxChange = 1
    MaxFault = 1
SYMMETRY Symmetry
INVARIANTS StoredIdIsKept SharedIdHasReason
CHECK_DEADLOCK FALSE
