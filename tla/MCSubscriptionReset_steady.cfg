SPECIFICATION FairSpec
CONSTANTS
  s1 = s1
  s2 = s2
  s3 = s3
  Subs = {s1, s2, s3}
  Period <- Periods
  EndTime <- Ends
  Changing = {s1}
  NewPeriods = {0, 4}
  BatchSize = 2
  MaxClock = 5
  MaxAdmin = 1
  MaxFaults = 1
INVARIANTS TypeOK ScheduleFollowsLastReset
PROPERTIES WipedOnlyAtBoundary DueEventuallyReset
