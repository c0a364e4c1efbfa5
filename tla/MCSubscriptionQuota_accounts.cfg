SPECIFICATION Spec
CONSTANTS
  r1 = r1
  r2 = r2
  Requests = {r1, r2}
  Subs = {1, 2}
  Total <- TwoTotals
  Amounts = {1, 3}
  MaxAttempts = 3
  MaxDbErrors = 2
  MaxResets = 1
  SaveMayFail = FALSE
  CanEnd = TRUE
SYMMETRY Symmetry
INVARIANTS TypeOK WithinTotal UsedCoversRequests RefundRecorded
