\* Two concurrent requests on one wallet, one token and one subscription:
\* fallback in both directions, the trust bypass (a balance above 2), a retry
\* that reserves again, one database error each, crashes, an expiry.
SPECIFICATION Spec
CONSTANTS
  r1 = r1
  r2 = r2
  Requests = {r1, r2}
  Profiles <- MixedProfiles
  PreQuotas = {0, 2}
  Actuals = {1, 3}
  Fee = 1
  InitWallet = 3
  InitToken = 4
  SubTotal = 3
  TokenUnlimited = FALSE
  AllowOverflow = TRUE
  TrustQuota = 2
  MaxAttempts = 2
  MaxDbErrors = 1
  CanCrash = TRUE
SYMMETRY Symmetry
INVARIANTS
  TypeOK
  ServedChargedExactly
  FailedCostsNothing
  OverRefundedOnlyByRetry
  OverdraftIsUnsecured
  ChargedToOneSource
PROPERTY EveryStepAdvances
