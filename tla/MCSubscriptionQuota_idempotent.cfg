SPECIFICATION Spec
CONSTANTS
  r1 = r1
  r2 = r2
  Requests = {r1, r2}
  Subs = {1}
  Total <- OneTotal
  Amounts = {1, 2}
  MaxAttempts = 3
  MaxDbErrors = 1
  MaxResets = 1
  SaveMayFail = TRUE
  CanEnd = FALSE
INVARIANT RefundIdempotent
