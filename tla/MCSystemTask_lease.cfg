SPECIFICATION FairSpec
CONSTANTS
  Nodes = {n1, n2}
  MaxTasks = 2
  Legacy = {}
  TTL = 1
  MaxStall = 1
  MaxDbErrors = 1
  MaxCrashes = 1
INVARIANTS TypeOK RunningIsLeased OneRunnerPerTask
PROPERTIES EndedIsFinal ActiveEventuallyEnds
