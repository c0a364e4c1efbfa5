SPECIFICATION Spec
CONSTANTS
    Procs = {p1, p2}
    MaxOps = 2
    MaxTime = 1
    MaxFaults = 0
    TTL = 1
    Grace = 1
    Life = 3
SYMMETRY Symmetry
INVARIANT AdvancePreservesSession
