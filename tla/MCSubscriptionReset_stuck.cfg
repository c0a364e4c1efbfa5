SPECIFICATION FairSpec
CONSTANTS
  s1 = s1
  s2 = s2
  s3 = s3
  Subs = {s1, s2}
  Period <- StuckPeriods
  EndTime <- StuckEnds
  Changing = {s1}
  NewPeriods = {0}
  BatchSize = 1
  MaxClock = 3
  MaxAdmin = 0
  MaxFaults = 0
PROPERTY DueEventuallyReset
