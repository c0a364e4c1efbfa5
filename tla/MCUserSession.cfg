SPECIFICATION Spec
CONSTANTS
    Procs = {p1, p2}
    MaxOps = 3
    MaxTime = 3
    MaxFaults = 1
    TTL = 1
    Grace = 1
    Life = 3
SYMMETRY Symmetry
INVARIANTS TypeOK RevokedStaysOut LoserIsRecovered
PROPERTY StoreSpec
