SPECIFICATION FairSpec
CONSTANTS
  Passes = {p1, p2}
  MaxTasks = 2
  Legacy = {1}
  Quota = 2
  Actuals = {1, 3}
  SweepLimit = 1
  QueryLimit = 1
  MaxOverlaps = 2
  MaxFaults = 1
INVARIANTS TypeOK BilledOnce OwedIsRecorded BooksAgree
PROPERTIES NeverReopened TaskEventuallyEnds
