SPECIFICATION Spec
CONSTANTS
    Tabs = {a, b}
    Locks = TRUE
    MaxLogins = 2
    MaxActs = 2
    MaxRefresh = 1
    MaxFaults = 1
SYMMETRY Symmetry
INVARIANTS TypeOK SignedOutStaysOut ReuseNeedsLoss
PROPERTY CredentialsMoveForward
