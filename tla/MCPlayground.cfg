SPECIFICATION Spec
CONSTANTS
    MaxRequests = 2
    MaxAttached = 1
    MaxEdits = 1
    MaxLeaves = 1
    MaxFaults = 1
    MaxQueue = 0
    MaxStored = 2
INVARIANTS TypeOK AnswersKeepToTheirRequest IdleIsSettled  SeenIsKept
PROPERTY EndedAnswersStay
