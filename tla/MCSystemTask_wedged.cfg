SPECIFICATION FairSpec
CONSTANTS
  Nodes = {n1, n2}
  MaxTasks = 1
  Legacy = {}
  TTL = 1
  MaxStall = 2
  MaxDbErrors = 0
  MaxCrashes = 0
PROPERTY ActiveEventuallyEnds
