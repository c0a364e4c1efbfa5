--------------------------- MODULE BillingSession ---------------------------
(***************************************************************************)
(* The billing lifecycle of a relayed request: NewBillingSession reserves  *)
(* an estimate on a token and on a funding source (the user's wallet, or a *)
(* subscription), each upstream attempt may raise the reservation          *)
(* (Reserve), a served request settles the difference to the actual price  *)
(* (Settle), a failed one is refunded by a background goroutine (Refund),  *)
(* and a policy violation is charged a fee on top.                         *)
(*                                                                         *)
(* Every call that reaches the database is a step of its own, so requests  *)
(* of the same user interleave between any two of them, and every such     *)
(* call may fail (DbError).  The three ledgers are atomic counters here;   *)
(* SubscriptionQuota models the transactions behind the subscription, all  *)
(* but one: the refund of a pre-consumption commits the quota in a         *)
(* transaction of its own before it saves its record, so a failing save    *)
(* gives back what the next try gives back again.                          *)
(***************************************************************************)
EXTENDS Integers, FiniteSets

CONSTANTS
  Requests,        \* concurrent requests of one user, all using one token
  Profiles,        \* what distinguishes requests: preference, playground, force
  PreQuotas,       \* estimates handed to PreConsumeBilling
  Actuals,         \* prices a served request may turn out to have
  Fee,             \* the violation fee, in quota units
  InitWallet, InitToken,
  SubTotal,        \* UserSubscription.AmountTotal (0 = unlimited)
  TokenUnlimited,  \* Token.UnlimitedQuota
  AllowOverflow,   \* UserSubscription.AllowWalletOverflow
  TrustQuota,      \* common.GetTrustQuota()
  MaxAttempts,     \* common.RetryTimes + 1
  MaxDbErrors,     \* bound: failing database calls per request
  CanCrash         \* may the process serving a request die?

Prefs == {"subscription_only", "wallet_only", "wallet_first", "subscription_first"}

ASSUME RequestsAssumption == IsFiniteSet(Requests)
ASSUME ProfilesAssumption ==
  Profiles \subseteq [pref : Prefs, playground : BOOLEAN, force : BOOLEAN]
ASSUME ProfilesNonEmpty == Profiles # {}
ASSUME QuotasAssumption == PreQuotas \subseteq Nat /\ Actuals \subseteq Nat
ASSUME LedgerAssumption ==
  InitWallet \in Nat /\ InitToken \in Nat /\ SubTotal \in Nat /\ Fee \in Nat
ASSUME BoundsAssumption ==
  TrustQuota \in Int /\ MaxAttempts \in Nat /\ MaxDbErrors \in Nat
ASSUME FlagsAssumption ==
  TokenUnlimited \in BOOLEAN /\ AllowOverflow \in BOOLEAN /\ CanCrash \in BOOLEAN

VARIABLES
  wallet,      \* User.Quota
  tokenQuota,  \* Token.RemainQuota
  subUsed,     \* UserSubscription.AmountUsed
  subActive,   \* is the subscription active (status and end_time)?
  pc,          \* where each request's goroutine is
  refundPc,    \* where the goroutine started by Refund is
  ses,         \* the BillingSession of each request and the caller's locals
  dbErrors,    \* how many database calls of each request have failed
  charged,     \* history: what each ledger has really lost to each request
  unsecured    \* history: what was taken without a balance check

ledgers == <<wallet, tokenQuota, subUsed, charged, unsecured>>
vars == <<wallet, tokenQuota, subUsed, subActive, pc, refundPc, ses, dbErrors,
          charged, unsecured>>

Sources == {"none", "wallet", "subscription"}
Steps == {"idle", "choose", "tryWallet", "preToken", "preFunding", "preRollback",
          "fallback", "attempt", "reserveFunding", "reserveToken", "reserveRollback",
          "dispatch", "settleFunding", "settleToken", "failing", "fee",
          "feeToken", "done"}
Tries == {"funding", "funding2", "funding3"}   \* the three tries of refundWithRetry
RefundSteps == Tries \cup {"none", "extra", "token", "done"}
Outcomes == {"open", "rejected", "served", "failed", "crashed"}

(* The fields of BillingSession and of its FundingSource, then the locals of *)
(* NewBillingSession, Relay and RelayTask that outlive a step.               *)
Session == [live : BOOLEAN,            \* relayInfo.Billing # nil
            source : Sources,
            pre : Nat,                 \* preConsumedQuota
            tokenConsumed : Nat,
            consumed : Nat,            \* WalletFunding.consumed / SubscriptionFunding.preConsumed
            extra : Nat,               \* extraReserved
            trusted : BOOLEAN, fundingSettled : BOOLEAN,
            settled : BOOLEAN, refunded : BOOLEAN,
            profile : Profiles,
            quota : Nat,               \* argument of NewBillingSession
            fallback : Sources, tokenSeen : Int,
            insufficient : BOOLEAN,    \* class of the funding error being rolled back
            target : Nat,              \* argument of Reserve
            attempt : Nat,
            actual : Nat,              \* argument of Settle
            violation : BOOLEAN, feePaid : BOOLEAN,
            outcome : Outcomes]

(* What the ledgers have lost to a request, what its pre-consumed subscription *)
(* quota was refunded first (given), and what it was refunded again (regiven)  *)
Charges == [wallet : Int, token : Int, sub : Int, given : Nat, regiven : Nat]
NoCharges == [wallet |-> 0, token |-> 0, sub |-> 0, given |-> 0, regiven |-> 0]

NoSession == [live |-> FALSE, source |-> "none", pre |-> 0, tokenConsumed |-> 0,
              consumed |-> 0, extra |-> 0, trusted |-> FALSE,
              fundingSettled |-> FALSE, settled |-> FALSE, refunded |-> FALSE,
              profile |-> CHOOSE p \in Profiles : TRUE, quota |-> 0,
              fallback |-> "none", tokenSeen |-> 0, insufficient |-> FALSE,
              target |-> 0, attempt |-> 0, actual |-> 0, violation |-> FALSE,
              feePaid |-> FALSE, outcome |-> "open"]

Init ==
  /\ wallet = InitWallet /\ tokenQuota = InitToken /\ subUsed = 0
  /\ subActive \in BOOLEAN
  /\ pc = [r \in Requests |-> "idle"]
  /\ refundPc = [r \in Requests |-> "none"]
  /\ ses = [r \in Requests |-> NoSession]
  /\ dbErrors = [r \in Requests |-> 0]
  /\ charged = [r \in Requests |-> NoCharges]
  /\ unsecured = [wallet |-> 0, token |-> 0]

-----------------------------------------------------------------------------
(* The ledgers. A positive d is taken from the user, a negative d given back. *)

Positive(d) == IF d > 0 THEN d ELSE 0

(* wallet: TryReserveUserQuota checks the balance, DecreaseUserQuota does not *)
MoveWallet(r, d, unchecked) ==
  /\ wallet' = wallet - d
  /\ charged' = [charged EXCEPT ![r].wallet = @ + d]
  /\ unsecured' = [unsecured EXCEPT !.wallet = @ + unchecked]
  /\ UNCHANGED <<tokenQuota, subUsed>>

MoveToken(r, d, unchecked) ==
  /\ tokenQuota' = tokenQuota - d
  /\ charged' = [charged EXCEPT ![r].token = @ + d]
  /\ unsecured' = [unsecured EXCEPT !.token = @ + unchecked]
  /\ UNCHANGED <<wallet, subUsed>>

(* PostConsumeUserSubscriptionDelta: clamped at zero, refused above the total *)
SubAfter(d) == IF subUsed + d < 0 THEN 0 ELSE subUsed + d
SubFits(d) == SubTotal = 0 \/ SubAfter(d) <= SubTotal

MoveSub(r, d) ==
  /\ subUsed' = SubAfter(d)
  /\ charged' = [charged EXCEPT ![r].sub = @ + SubAfter(d) - subUsed]
  /\ UNCHANGED <<wallet, tokenQuota, unsecured>>

(* RefundSubscriptionPreConsume: PostConsumeUserSubscriptionDelta commits by  *)
(* itself, outside the transaction that holds the record.                     *)
GivenBack(entry, c) ==
  [entry EXCEPT !.sub = @ + SubAfter(-c) - subUsed, !.given = c,
                !.regiven = @ + (IF entry.given > 0 THEN c ELSE 0)]

GiveBackSub(r, c) ==
  /\ subUsed' = SubAfter(-c)
  /\ charged' = [charged EXCEPT ![r] = GivenBack(charged[r], c)]
  /\ UNCHANGED <<wallet, tokenQuota, unsecured>>

WalletCanReserveUnchecked(d) == d \in Nat   \* mutant: relies on what tryWallet read
WalletCanReserve(d) == d <= wallet
TokenCanReserve(d) == TokenUnlimited \/ d <= tokenQuota
UncheckedToken(d) == IF TokenUnlimited THEN d ELSE 0

(* The outcome of a database call: it takes effect, or it fails without one *)
DbOk == UNCHANGED dbErrors
DbError(r) == /\ dbErrors[r] < MaxDbErrors
              /\ dbErrors' = [dbErrors EXCEPT ![r] = @ + 1]

(* A failing try of refundWithRetry: the number of tries is bound enough *)
TryError(r) == /\ MaxDbErrors > 0
               /\ dbErrors' = [dbErrors EXCEPT ![r] = IF @ < MaxDbErrors THEN @ + 1 ELSE @]

Goto(r, step) == pc' = [pc EXCEPT ![r] = step]
At(r, step) == pc[r] = step
Playground(r) == ses[r].profile.playground
BySub(r) == ses[r].source = "subscription"

-----------------------------------------------------------------------------
(* PreConsumeBilling and NewBillingSession *)

(* A request arrives. A free model enters the attempt loop without a session, *)
(* as RelayTask always does: it pre-consumes inside the first attempt.        *)
Start(r) ==
  /\ At(r, "idle")
  /\ \E p \in Profiles, q \in PreQuotas :
       ses' = [ses EXCEPT ![r] = [NoSession EXCEPT
                 !.profile = p, !.quota = q, !.tokenSeen = tokenQuota]]
  /\ \E first \in {"choose", "attempt"} : Goto(r, first)
  /\ UNCHANGED <<subActive, refundPc, dbErrors, ledgers>>

(* No session: PreConsumeBilling returns the API error, which ends the request. *)
Reject(r) ==
  /\ ses' = [ses EXCEPT ![r] = [@ EXCEPT !.source = "none", !.tokenConsumed = 0,
                                         !.outcome = "rejected"]]
  /\ Goto(r, "done")

(* RelayTask, which opens its session inside an attempt, sees an upstream error *)
(* in it instead and makes another attempt, as long as one is left.             *)
RetryTask(r) ==
  /\ ses[r].attempt \in 1 .. (MaxAttempts - 1)
  /\ ses' = [ses EXCEPT ![r] = [@ EXCEPT !.source = "none", !.tokenConsumed = 0,
                                         !.fallback = "none", !.insufficient = FALSE]]
  /\ Goto(r, "attempt")

NotOpened(r) == Reject(r) \/ RetryTask(r)

(* A fresh BillingSession for source src, its predecessor being discarded *)
Try(r, src, fallback) ==
  /\ ses' = [ses EXCEPT ![r] = [@ EXCEPT
               !.source = src, !.fallback = fallback, !.tokenConsumed = 0]]
  /\ Goto(r, IF src = "wallet" THEN "tryWallet" ELSE "preToken")

Choose(r) ==
  /\ At(r, "choose")
  /\ \/ /\ DbOk
        /\ CASE ses[r].profile.pref = "subscription_only" -> Try(r, "subscription", "none")
             [] ses[r].profile.pref = "wallet_only" -> Try(r, "wallet", "none")
             [] ses[r].profile.pref = "wallet_first" -> Try(r, "wallet", "subscription")
             [] ses[r].profile.pref = "subscription_first" ->
                  IF subActive THEN Try(r, "subscription", "wallet")
                               ELSE Try(r, "wallet", "none")
     \/ /\ ses[r].profile.pref = "subscription_first"
        /\ DbError(r) /\ NotOpened(r)
  /\ UNCHANGED <<subActive, refundPc, ledgers>>

(* ErrorCodeInsufficientUserQuota from the current source. The wallet behind  *)
(* a subscription is used only if no active subscription forbids it.          *)
FallBack(r) ==
  LET next == ses[r].fallback IN
  /\ At(r, "fallback")
  /\ \/ next = "none" /\ DbOk /\ NotOpened(r)
     \/ next = "subscription" /\ DbOk /\ Try(r, "subscription", "none")
     \/ /\ next = "wallet" /\ DbOk
        /\ IF subActive /\ ~AllowOverflow THEN NotOpened(r) ELSE Try(r, "wallet", "none")
     \/ next = "wallet" /\ DbError(r) /\ NotOpened(r)
  /\ UNCHANGED <<subActive, refundPc, ledgers>>

ShouldTrust(r, userQuota) ==
  /\ ~ses[r].profile.force
  /\ TrustQuota > 0
  /\ TokenUnlimited \/ ses[r].tokenSeen > TrustQuota
  /\ ses[r].source = "wallet" /\ userQuota > TrustQuota

(* What preConsume asks for: a subscription reserves at least one unit. *)
Amount(r) == IF BySub(r) /\ ses[r].quota = 0 THEN 1 ELSE ses[r].quota

(* The session is stored on relayInfo.Billing: before the attempt loop, or in *)
(* the middle of an attempt that found none.                                  *)
Opened(r, session) ==
  /\ ses' = [ses EXCEPT ![r] = [session EXCEPT !.live = TRUE]]
  /\ Goto(r, IF session.attempt = 0 THEN "attempt" ELSE "dispatch")

(* tryWallet reads the balance, and decides on trust from what it read *)
TryWallet(r) ==
  LET q == ses[r].quota IN
  /\ At(r, "tryWallet")
  /\ \/ /\ DbError(r) /\ NotOpened(r)
     \/ /\ wallet <= 0 \/ wallet - q < 0
        /\ DbOk /\ UNCHANGED ses /\ Goto(r, "fallback")
     \/ /\ wallet > 0 /\ wallet - q >= 0 /\ DbOk
        /\ IF ShouldTrust(r, wallet) \/ q = 0      \* nothing to pre-consume
             THEN Opened(r, [ses[r] EXCEPT !.trusted = ShouldTrust(r, wallet)])
             ELSE UNCHANGED ses /\ Goto(r, "preToken")
  /\ UNCHANGED <<subActive, refundPc, ledgers>>

(* preConsume, step 1: PreConsumeTokenQuota *)
PreConsumeToken(r) ==
  LET q == Amount(r)
      consumedAll == ses' = [ses EXCEPT ![r].tokenConsumed = q]
  IN
  /\ At(r, "preToken")
  /\ \/ /\ Playground(r) /\ consumedAll /\ Goto(r, "preFunding")
        /\ DbOk /\ UNCHANGED ledgers
     \/ /\ ~Playground(r) /\ TokenCanReserve(q) /\ consumedAll /\ Goto(r, "preFunding")
        /\ DbOk /\ MoveToken(r, q, UncheckedToken(q))
     \/ /\ ~Playground(r) /\ NotOpened(r)
        /\ \/ ~TokenCanReserve(q) /\ DbOk
           \/ DbError(r)
        /\ UNCHANGED ledgers
  /\ UNCHANGED <<subActive, refundPc>>

(* preConsume, step 2: funding.PreConsume, a conditional update of the wallet *)
(* or the transaction PreConsumeUserSubscription                              *)
PreConsumeFunding(r) ==
  LET q == Amount(r)
      enough == IF BySub(r) THEN subActive /\ SubFits(q) ELSE WalletCanReserve(q)
  IN
  /\ At(r, "preFunding")
  /\ \/ /\ enough /\ DbOk
        /\ Opened(r, [ses[r] EXCEPT !.pre = q, !.consumed = q])
        /\ IF BySub(r) THEN MoveSub(r, q) ELSE MoveWallet(r, q, 0)
     \/ /\ \/ ~enough /\ DbOk
           \/ DbError(r)
        /\ ses' = [ses EXCEPT ![r].insufficient = (dbErrors' = dbErrors)]
        /\ Goto(r, "preRollback")
        /\ UNCHANGED ledgers
  /\ UNCHANGED <<subActive, refundPc>>

(* The token is given back; a failing rollback is only logged. Then only an   *)
(* insufficient balance is worth trying the other source for.                 *)
PreConsumeRollback(r) ==
  /\ At(r, "preRollback")
  /\ \/ /\ ses[r].tokenConsumed > 0 /\ ~Playground(r)
        /\ \/ MoveToken(r, -ses[r].tokenConsumed, 0) /\ DbOk
           \/ UNCHANGED ledgers /\ DbError(r)
     \/ /\ ses[r].tokenConsumed = 0 \/ Playground(r)
        /\ UNCHANGED ledgers /\ DbOk
  /\ IF ses[r].insufficient
       THEN /\ ses' = [ses EXCEPT ![r].tokenConsumed = 0]
            /\ Goto(r, "fallback")
       ELSE NotOpened(r)
  /\ UNCHANGED <<subActive, refundPc>>

-----------------------------------------------------------------------------
(* runRelayAttempts, PrepareTieredBillingForSelectedGroup and Reserve *)

NextAttemptStuck(r) == ses[r].attempt   \* mutant: the retry is not counted

(* retryParam.IncreaseRetry *)
NextAttempt(r) == ses[r].attempt + 1

(* One turn of the loop up to the upstream call. The selected group may cost   *)
(* more than the estimate (a higher target), or need a session that a free     *)
(* start did not open.                                                         *)
BeginAttempt(r) ==
  /\ At(r, "attempt")
  /\ \/ /\ ses' = [ses EXCEPT ![r].outcome = "failed"]       \* getChannel failed
        /\ Goto(r, "failing")
     \/ /\ ses' = [ses EXCEPT ![r].attempt = NextAttempt(r)]         \* not tiered, or free group
        /\ Goto(r, "dispatch")
     \/ \E q \in PreQuotas :
          \/ /\ ~ses[r].live
             /\ ses' = [ses EXCEPT ![r] = [@ EXCEPT !.attempt = NextAttempt(r), !.quota = q]]
             /\ Goto(r, "choose")
          \/ /\ ses[r].live /\ (ses[r].trusted \/ q <= ses[r].pre)
             /\ ses' = [ses EXCEPT ![r].attempt = NextAttempt(r)]
             /\ Goto(r, "dispatch")
          \/ /\ ses[r].live /\ ~ses[r].trusted /\ q > ses[r].pre
             /\ ses' = [ses EXCEPT ![r] = [@ EXCEPT !.attempt = NextAttempt(r), !.target = q]]
             /\ Goto(r, "reserveFunding")
  /\ UNCHANGED <<subActive, refundPc, dbErrors, ledgers>>

Fail(r) == /\ ses' = [ses EXCEPT ![r].outcome = "failed"]
           /\ Goto(r, "failing")

ReserveDeltaSwapped(r) == ses[r].pre - ses[r].target   \* mutant: operands swapped
ReserveDelta(r) == ses[r].target - ses[r].pre

(* reserveFunding: the wallet pays unconditionally and may go negative *)
ReserveFunding(r) ==
  LET d == ReserveDelta(r) IN
  /\ At(r, "reserveFunding")
  /\ \/ /\ ses[r].source = "wallet" /\ DbOk /\ MoveWallet(r, d, d)
        /\ ses' = [ses EXCEPT ![r].consumed = @ + d]
        /\ Goto(r, "reserveToken")
     \/ /\ BySub(r) /\ SubFits(d) /\ DbOk /\ MoveSub(r, d)
        /\ UNCHANGED ses
        /\ Goto(r, "reserveToken")
     \/ /\ \/ BySub(r) /\ ~SubFits(d) /\ DbOk
           \/ DbError(r)
        /\ UNCHANGED ledgers /\ Fail(r)
  /\ UNCHANGED <<subActive, refundPc>>

(* reserveToken, and the bookkeeping once both reservations are made *)
ReserveToken(r) ==
  LET d == ReserveDelta(r)
      s == ses[r]
      reserved == /\ ses' = [ses EXCEPT ![r] = [s EXCEPT !.pre = s.pre + d,
                         !.extra = s.extra + d, !.tokenConsumed = s.tokenConsumed + d]]
                  /\ Goto(r, "dispatch")
  IN
  /\ At(r, "reserveToken")
  /\ \/ Playground(r) /\ reserved /\ DbOk /\ UNCHANGED ledgers
     \/ /\ ~Playground(r) /\ TokenCanReserve(d) /\ reserved /\ DbOk
        /\ MoveToken(r, d, UncheckedToken(d))
     \/ /\ ~Playground(r)
        /\ \/ ~TokenCanReserve(d) /\ DbOk
           \/ DbError(r)
        /\ UNCHANGED <<ses, ledgers>>
        /\ Goto(r, "reserveRollback")
  /\ UNCHANGED <<subActive, refundPc>>

(* rollbackFundingReserve: consumed goes down only if the money went back *)
ReserveRollback(r) ==
  LET d == ReserveDelta(r) IN
  /\ At(r, "reserveRollback")
  /\ \/ /\ ses[r].source = "wallet" /\ DbOk /\ MoveWallet(r, -d, 0)
        /\ ses' = [ses EXCEPT ![r] = [@ EXCEPT !.consumed = ses[r].consumed - d,
                                               !.outcome = "failed"]]
     \/ /\ BySub(r) /\ DbOk /\ MoveSub(r, -d)
        /\ ses' = [ses EXCEPT ![r].outcome = "failed"]
     \/ /\ DbError(r) /\ UNCHANGED ledgers
        /\ ses' = [ses EXCEPT ![r].outcome = "failed"]
  /\ Goto(r, "failing")
  /\ UNCHANGED <<subActive, refundPc>>

(* The upstream call: served at some price, refused for good (a policy        *)
(* violation is never retried), or failed with attempts left                  *)
Dispatch(r) ==
  /\ At(r, "dispatch")
  /\ \/ \E a \in Actuals :
          /\ ses' = [ses EXCEPT ![r] = [@ EXCEPT !.actual = a, !.outcome = "served"]]
          /\ Goto(r, "settleFunding")
     \/ /\ ses[r].attempt < MaxAttempts
        /\ UNCHANGED ses
        /\ Goto(r, "attempt")
     \/ \E v \in BOOLEAN :
          /\ ses' = [ses EXCEPT ![r] = [@ EXCEPT !.outcome = "failed", !.violation = v]]
          /\ Goto(r, "failing")
  /\ UNCHANGED <<subActive, refundPc, dbErrors, ledgers>>

-----------------------------------------------------------------------------
(* SettleBilling: Settle, or PostConsumeQuota when no session was opened *)

SettleDeltaFull(r) == ses[r].actual   \* mutant: the pre-consumed quota is charged twice
SettleDeltaEstimate(r) == ses[r].actual - ses[r].quota   \* mutant: settles against the estimate
SettleDelta(r) == ses[r].actual - ses[r].pre

SettleFunding(r) ==
  LET d == SettleDelta(r) IN
  /\ At(r, "settleFunding")
  /\ \/ /\ d = 0                                    \* nothing to adjust
        /\ ses' = [ses EXCEPT ![r].settled = @ \/ ses[r].live]
        /\ Goto(r, "done") /\ DbOk /\ UNCHANGED ledgers
     \/ /\ d # 0 /\ DbOk
        /\ \/ ~BySub(r) /\ MoveWallet(r, d, Positive(d))
           \/ BySub(r) /\ SubFits(d) /\ MoveSub(r, d)
        /\ ses' = [ses EXCEPT ![r].fundingSettled = ses[r].live]
        /\ Goto(r, "settleToken")
     \/ /\ d # 0                                    \* the error is only logged
        /\ \/ BySub(r) /\ ~SubFits(d) /\ DbOk
           \/ DbError(r)
        /\ UNCHANGED <<ses, ledgers>> /\ Goto(r, "done")
  /\ UNCHANGED <<subActive, refundPc>>

(* A failing token adjustment is only logged: the session is settled anyway. *)
SettleToken(r) ==
  LET d == SettleDelta(r) IN
  /\ At(r, "settleToken")
  /\ \/ Playground(r) /\ DbOk /\ UNCHANGED ledgers
     \/ ~Playground(r) /\ DbOk /\ MoveToken(r, d, Positive(d))
     \/ ~Playground(r) /\ DbError(r) /\ UNCHANGED ledgers
  /\ ses' = [ses EXCEPT ![r].settled = ses[r].live]
  /\ Goto(r, "done")
  /\ UNCHANGED <<subActive, refundPc>>

-----------------------------------------------------------------------------
(* The deferred handler of a failed request: Refund, then the violation fee *)

NeedsRefundSubscription(r) ==   \* mutant: only a subscription is refunded
  /\ ses[r].live
  /\ ~ses[r].settled /\ ~ses[r].refunded /\ ~ses[r].fundingSettled
  /\ BySub(r) /\ ses[r].consumed > 0

NeedsRefund(r) ==
  /\ ses[r].live
  /\ ~ses[r].settled /\ ~ses[r].refunded /\ ~ses[r].fundingSettled
  /\ ses[r].tokenConsumed > 0 \/ (BySub(r) /\ ses[r].consumed > 0)

Refund(r) ==
  /\ At(r, "failing")
  /\ IF NeedsRefund(r)
       THEN /\ ses' = [ses EXCEPT ![r].refunded = TRUE]
            /\ refundPc' = [refundPc EXCEPT ![r] = "funding"]
       ELSE UNCHANGED <<ses, refundPc>>
  /\ Goto(r, IF ses[r].violation /\ Fee > 0 THEN "fee" ELSE "done")
  /\ UNCHANGED <<subActive, dbErrors, ledgers>>

ChargeFeeWallet(r) ==   \* mutant: the fee ignores the billing source
  /\ At(r, "fee") /\ DbOk /\ MoveWallet(r, Fee, Fee)
  /\ ses' = [ses EXCEPT ![r].feePaid = TRUE]
  /\ Goto(r, "feeToken")
  /\ UNCHANGED <<subActive, refundPc>>

(* ChargeViolationFeeIfNeeded does not wait for the goroutine Refund started. *)
ChargeFee(r) ==
  /\ At(r, "fee")
  /\ \/ /\ DbOk
        /\ \/ ~BySub(r) /\ MoveWallet(r, Fee, Fee)
           \/ BySub(r) /\ SubFits(Fee) /\ MoveSub(r, Fee)
        /\ ses' = [ses EXCEPT ![r].feePaid = TRUE]
        /\ Goto(r, "feeToken")
     \/ /\ \/ BySub(r) /\ ~SubFits(Fee) /\ DbOk
           \/ DbError(r)
        /\ UNCHANGED <<ses, ledgers>> /\ Goto(r, "done")
  /\ UNCHANGED <<subActive, refundPc>>

ChargeFeeToken(r) ==
  /\ At(r, "feeToken")
  /\ \/ Playground(r) /\ DbOk /\ UNCHANGED ledgers
     \/ ~Playground(r) /\ DbOk /\ MoveToken(r, Fee, Fee)
     \/ ~Playground(r) /\ DbError(r) /\ UNCHANGED ledgers
  /\ Goto(r, "done")
  /\ UNCHANGED <<subActive, refundPc, ses>>

RefundGoto(r, step) == refundPc' = [refundPc EXCEPT ![r] = step]

NextTry(step) == CASE step = "funding" -> "funding2"
                   [] step = "funding2" -> "funding3"
                   [] step = "funding3" -> "extra"

(* The goroutine started by Refund makes three calls, each logged if it fails. *)
(* The wallet is refunded by one update. For a subscription refundWithRetry    *)
(* repeats a failing transaction, also one whose inner change is committed     *)
(* and only whose record could not be saved.                                   *)
RefundFunding(r) ==
  LET c == ses[r].consumed IN
  /\ refundPc[r] \in Tries
  /\ \/ c <= 0 /\ DbOk /\ UNCHANGED ledgers /\ RefundGoto(r, "extra")
     \/ /\ c > 0 /\ ~BySub(r) /\ RefundGoto(r, "extra")
        /\ \/ DbOk /\ MoveWallet(r, -c, 0)
           \/ DbError(r) /\ UNCHANGED ledgers
     \/ /\ c > 0 /\ BySub(r)
        /\ \/ DbOk /\ GiveBackSub(r, c) /\ RefundGoto(r, "extra")
           \/ TryError(r) /\ UNCHANGED ledgers /\ RefundGoto(r, NextTry(refundPc[r]))
           \/ TryError(r) /\ GiveBackSub(r, c) /\ RefundGoto(r, NextTry(refundPc[r]))
  /\ UNCHANGED <<subActive, pc, ses>>

RefundExtra(r) ==
  LET x == ses[r].extra
      due == x > 0 /\ BySub(r)
  IN
  /\ refundPc[r] = "extra"
  /\ \/ ~due /\ DbOk /\ UNCHANGED ledgers
     \/ due /\ DbOk /\ MoveSub(r, -x)
     \/ due /\ DbError(r) /\ UNCHANGED ledgers
  /\ RefundGoto(r, "token")
  /\ UNCHANGED <<subActive, pc, ses>>

RefundToken(r) ==
  LET c == ses[r].tokenConsumed
      due == c > 0 /\ ~Playground(r)
  IN
  /\ refundPc[r] = "token"
  /\ \/ ~due /\ DbOk /\ UNCHANGED ledgers
     \/ due /\ DbOk /\ MoveToken(r, -c, 0)
     \/ due /\ DbError(r) /\ UNCHANGED ledgers
  /\ RefundGoto(r, "done")
  /\ UNCHANGED <<subActive, pc, ses>>

-----------------------------------------------------------------------------
(* The environment *)

(* ExpireDueSubscriptions, an administrator, or end_time passing *)
ExpireSubscription ==
  /\ subActive /\ subActive' = FALSE
  /\ UNCHANGED <<pc, refundPc, ses, dbErrors, ledgers>>

(* The process dies: sessions and refund goroutines live in memory only. The   *)
(* profile and the source are kept to tell what was charged where.             *)
Crash(r) ==
  /\ CanCrash
  /\ \/ pc[r] \notin {"idle", "done"}
     \/ refundPc[r] \in Tries \cup {"extra", "token"}
  /\ Goto(r, "done")
  /\ refundPc' = [refundPc EXCEPT ![r] = "none"]
  /\ ses' = [ses EXCEPT ![r] = [NoSession EXCEPT
               !.profile = ses[r].profile, !.source = ses[r].source, !.outcome = "crashed"]]
  /\ UNCHANGED <<subActive, dbErrors, ledgers>>

RequestStep(r) ==
  \/ Choose(r) \/ FallBack(r) \/ TryWallet(r) \/ PreConsumeToken(r)
  \/ PreConsumeFunding(r) \/ PreConsumeRollback(r)
  \/ BeginAttempt(r) \/ ReserveFunding(r) \/ ReserveToken(r) \/ ReserveRollback(r)
  \/ Dispatch(r) \/ SettleFunding(r) \/ SettleToken(r)
  \/ Refund(r) \/ ChargeFee(r) \/ ChargeFeeToken(r)

RefundStep(r) == RefundFunding(r) \/ RefundExtra(r) \/ RefundToken(r)

Finished(r) == pc[r] = "done" /\ refundPc[r] \in {"none", "done"}

Terminated == (\A r \in Requests : Finished(r)) /\ UNCHANGED vars

Next ==
  \/ \E r \in Requests : Start(r) \/ RequestStep(r) \/ RefundStep(r) \/ Crash(r)
  \/ ExpireSubscription
  \/ Terminated

Spec == Init /\ [][Next]_vars

-----------------------------------------------------------------------------
(* Properties *)

(* Every variable keeps the type its Go counterpart has. *)
TypeOK ==
  /\ wallet \in Int /\ tokenQuota \in Int /\ subUsed \in Nat
  /\ subActive \in BOOLEAN
  /\ pc \in [Requests -> Steps] /\ refundPc \in [Requests -> RefundSteps]
  /\ ses \in [Requests -> Session]
  /\ dbErrors \in [Requests -> 0..MaxDbErrors]
  /\ charged \in [Requests -> Charges]
  /\ unsecured \in [wallet : Nat, token : Nat]

FundingCharged(r) == charged[r].wallet + charged[r].sub
TokenShare(r, amount) == IF Playground(r) THEN 0 ELSE amount
FeeCharged(r) == IF ses[r].feePaid THEN Fee ELSE 0

(* Nobody's subscription was refunded twice. Such a refund takes what other   *)
(* requests use, and clamps theirs (PostConsumeUserSubscriptionDelta).        *)
NoneRegiven == \A r \in Requests : charged[r].regiven = 0

(* A served request none of whose database calls failed has cost exactly its  *)
(* actual price, on its funding source and on its token, however often it was *)
(* re-reserved or fell back. The one exception is the one Settle has: a       *)
(* subscription without room for the difference keeps the pre-consumed amount. *)
ServedChargedExactly ==
  \A r \in Requests :
    Finished(r) /\ ses[r].outcome = "served" /\ dbErrors[r] = 0 /\ NoneRegiven =>
      \/ /\ FundingCharged(r) = ses[r].actual
         /\ charged[r].token = TokenShare(r, ses[r].actual)
      \/ /\ BySub(r) /\ ~ses[r].settled /\ ses[r].pre < ses[r].actual
         /\ FundingCharged(r) = ses[r].pre
         /\ charged[r].token = TokenShare(r, ses[r].pre)

(* A request that was rejected or failed, none of whose database calls        *)
(* failed, costs nothing once its refund goroutine is through, extra          *)
(* reservations included; only a violation fee may remain.                    *)
FailedCostsNothing ==
  \A r \in Requests :
    Finished(r) /\ ses[r].outcome \in {"rejected", "failed"} /\ dbErrors[r] = 0
      /\ NoneRegiven =>
      /\ FundingCharged(r) = FeeCharged(r)
      /\ charged[r].token = TokenShare(r, FeeCharged(r))

(* No sequence of database errors, crashes, rollbacks, settlements and        *)
(* refunds gives a request more back than it took, on the wallet and the      *)
(* token. A subscription can be given more, in one way only: refundWithRetry  *)
(* repeating a refund whose record could not be saved, at most twice, each    *)
(* time the pre-consumed amount.                                              *)
OverRefundedOnlyByRetry ==
  \A r \in Requests :
    /\ charged[r].wallet >= 0 /\ charged[r].token >= 0
    /\ charged[r].sub >= -charged[r].regiven
    /\ charged[r].regiven <= 2 * charged[r].given
    /\ charged[r].regiven > 0 => BySub(r) /\ dbErrors[r] > 0

(* However requests fall back between wallet and subscription, one of them    *)
(* only pays: a rejected source keeps nothing, a fee follows the source.      *)
ChargedToOneSource ==
  \A r \in Requests : charged[r].wallet = 0 \/ charged[r].sub = 0

(* Concurrent pre-consumption never overdraws: a ledger is below zero only by *)
(* what settlements, re-reservations and fees took without a balance check    *)
(* (wallet), or what an unlimited token spent.                                *)
OverdraftIsUnsecured ==
  /\ wallet >= -unsecured.wallet
  /\ tokenQuota >= -unsecured.token

(* Used quota stays within the subscription's total through concurrent        *)
(* pre-consumption, re-reservation, settlement and fees.                      *)
SubscriptionWithinTotal == SubTotal = 0 \/ subUsed <= SubTotal

(* How far a request and its refund goroutine have come. The stages up to     *)
(* "fallback" are passed a second time with the other source, all of them     *)
(* again in the next attempt.                                                 *)
Stage == [idle |-> 0, choose |-> 1, tryWallet |-> 2, preToken |-> 3, preFunding |-> 4,
          preRollback |-> 5, fallback |-> 6, reserveFunding |-> 13, reserveToken |-> 14,
          reserveRollback |-> 15, dispatch |-> 16, attempt |-> 17, settleFunding |-> 18,
          settleToken |-> 19, failing |-> 20, fee |-> 21, feeToken |-> 22, done |-> 23]
RefundStage == [none |-> 0, funding |-> 1, funding2 |-> 2, funding3 |-> 3, extra |-> 4,
                token |-> 5, done |-> 6]
SecondSource(r) == Stage[pc[r]] \in 2..6 /\ ses[r].fallback = "none"

Progress(r) == 100 * ses[r].attempt + Stage[pc[r]]
               + (IF SecondSource(r) THEN 6 ELSE 0) + RefundStage[refundPc[r]]

(* Every request ends with its refund goroutine, whatever fails: nothing it   *)
(* does ever takes it back, and (no deadlock) it is never stuck. A retry that *)
(* did not use up an attempt, or a fallback to the source that was tried      *)
(* first, would let runRelayAttempts or NewBillingSession go round for ever.  *)
EveryStepAdvances ==
  [][\A r \in Requests :
       <<pc[r], refundPc[r], ses[r]>> # <<pc'[r], refundPc'[r], ses'[r]>> =>
         Progress(r)' > Progress(r) \/ ses'[r].outcome = "crashed"]_vars
=============================================================================
