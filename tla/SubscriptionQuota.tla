-------------------------- MODULE SubscriptionQuota --------------------------
(***************************************************************************)
(* The transactions behind a subscription's quota: PreConsumeUserSub-      *)
(* scription picks a subscription and writes an idempotency record,        *)
(* PostConsumeUserSubscriptionDelta adjusts it, and a failed request is    *)
(* refunded by RefundSubscriptionPreConsume under refundWithRetry.  The    *)
(* refund is two transactions on two connections: the inner one lowers the *)
(* used amount and commits while the outer one still has to mark the       *)
(* record.  Period resets, expiry and the administrator run beside them.   *)
(***************************************************************************)
EXTENDS Integers, FiniteSets, FiniteSetsExt

CONSTANTS
  Requests,        \* relayed requests billed to subscriptions of one user
  Subs,            \* ids of the user's subscriptions, in (end_time, id) order
  Total,           \* AmountTotal of each (0 = unlimited)
  Amounts,         \* quotas a request may pre-consume, add or finally cost
  MaxAttempts,     \* refundWithRetry's maxAttempts
  MaxDbErrors,     \* bound: failing database calls per request
  MaxResets,       \* bound: period ends and administrative resets
  SaveMayFail,     \* may the outer transaction of a refund fail to commit?
  CanEnd           \* may subscriptions expire or be deleted, and requests crash?

ASSUME RequestsAssumption == IsFiniteSet(Requests)
ASSUME SubsAssumption == Subs \subseteq Nat \ {0} /\ Total \in [Subs -> Nat]
ASSUME AmountsAssumption == Amounts \subseteq Nat \ {0}
ASSUME AttemptsAssumption ==
  MaxAttempts \in Nat \ {0} /\ MaxDbErrors \in Nat /\ MaxResets \in Nat
ASSUME SwitchesAssumption == SaveMayFail \in BOOLEAN /\ CanEnd \in BOOLEAN

VARIABLES
  used,      \* UserSubscription.AmountUsed
  status,    \* UserSubscription.Status, or "deleted"
  due,       \* has next_reset_time passed?
  rec,       \* SubscriptionPreConsumeRecord, by request id
  req,       \* SubscriptionFunding and extraReserved of each request
  pc,        \* where each request is
  attempts,  \* tries of refundWithRetry so far
  dbErrors,
  resets,
  refunds    \* history: how often the inner transaction gave the amount back

vars == <<used, status, due, rec, req, pc, attempts, dbErrors, resets, refunds>>

Steps == {"start", "open", "refund", "inner", "outer", "extra", "served", "failed", "lost"}
NoRecord == [status |-> "none", sub |-> 0, amount |-> 0]
NoFunding == [sub |-> 0, pre |-> 0, extra |-> 0, cost |-> 0]

Init ==
  /\ used = [s \in Subs |-> 0]
  /\ status = [s \in Subs |-> "active"]
  /\ due = [s \in Subs |-> FALSE]
  /\ rec = [r \in Requests |-> NoRecord]
  /\ req = [r \in Requests |-> NoFunding]
  /\ pc = [r \in Requests |-> "start"]
  /\ attempts = [r \in Requests |-> 0]
  /\ dbErrors = [r \in Requests |-> 0]
  /\ resets = 0
  /\ refunds = [r \in Requests |-> 0]

Goto(r, step) == pc' = [pc EXCEPT ![r] = step]
DbOk == UNCHANGED dbErrors
DbError(r) == /\ dbErrors[r] < MaxDbErrors
              /\ dbErrors' = [dbErrors EXCEPT ![r] = @ + 1]

-----------------------------------------------------------------------------
(* PreConsumeUserSubscription *)

Active(s) == status[s] = "active"

(* maybeResetUserSubscriptionWithPlanTx: a due subscription starts at zero *)
UsedNow(s) == IF due[s] THEN 0 ELSE used[s]

FitsAny(s, a) == Total[s] = 0 \/ Total[s] - UsedNow(s) > 0   \* mutant: any room is enough
Fits(s, a) == Total[s] = 0 \/ Total[s] - UsedNow(s) >= a

(* One transaction: the first active subscription with room is charged, and  *)
(* every one looked at on the way is reset if it is due. Without room        *)
(* everything rolls back. The branches for an existing record are those of a *)
(* repeated request id, which the callers never produce.                     *)
PreConsume(r) ==
  /\ pc[r] = "start"
  /\ \E a \in Amounts :
       \/ \E s \in Subs :
            LET looked == {x \in Subs : Active(x) /\ x <= s} IN
            /\ Active(s) /\ Fits(s, a)
            /\ \A x \in looked \ {s} : ~Fits(x, a)
            /\ used' = [x \in Subs |-> IF x = s THEN UsedNow(s) + a
                                       ELSE IF x \in looked THEN UsedNow(x) ELSE used[x]]
            /\ due' = [x \in Subs |-> due[x] /\ x \notin looked]
            /\ rec' = [rec EXCEPT ![r] = [status |-> "consumed", sub |-> s, amount |-> a]]
            /\ req' = [req EXCEPT ![r] = [NoFunding EXCEPT !.sub = s, !.pre = a]]
            /\ Goto(r, "open") /\ DbOk
       \/ /\ \/ (\A s \in Subs : Active(s) => ~Fits(s, a)) /\ DbOk
             \/ DbError(r)
          /\ Goto(r, "failed")
          /\ UNCHANGED <<used, due, rec, req>>
  /\ UNCHANGED <<status, attempts, resets, refunds>>

-----------------------------------------------------------------------------
(* PostConsumeUserSubscriptionDelta, called by Reserve and by Settle *)

AfterUnclamped(s, d) == used[s] + d   \* mutant: a refund after a reset is not clamped
After(s, d) == IF used[s] + d < 0 THEN 0 ELSE used[s] + d
CanApply(s, d) == /\ s \in Subs /\ status[s] # "deleted"
                  /\ Total[s] = 0 \/ After(s, d) <= Total[s]
Apply(s, d) == used' = [used EXCEPT ![s] = After(s, d)]

(* What a session has pre-consumed, BillingSession.preConsumedQuota *)
PreConsumed(r) == req[r].pre + req[r].extra

(* Reserve raises the reservation; when it cannot, the request has failed. *)
Reserve(r) ==
  LET s == req[r].sub IN
  /\ pc[r] = "open"
  /\ \E target \in Amounts :
       LET d == target - PreConsumed(r) IN
       /\ d > 0
       /\ \/ /\ CanApply(s, d) /\ DbOk /\ Apply(s, d)
             /\ req' = [req EXCEPT ![r].extra = @ + d]
             /\ UNCHANGED pc
          \/ /\ \/ ~CanApply(s, d) /\ DbOk
                \/ DbError(r)
             /\ Goto(r, "refund")
             /\ UNCHANGED <<used, req>>
  /\ UNCHANGED <<status, due, rec, attempts, resets, refunds>>

(* Settle charges or returns the difference; an error is only logged. *)
SettleDeltaFirst(r, actual) == actual - req[r].pre   \* mutant: forgets what Reserve added
SettleDelta(r, actual) == actual - PreConsumed(r)

Settle(r) ==
  LET s == req[r].sub IN
  /\ pc[r] = "open"
  /\ \E actual \in Amounts \cup {0} :
       LET d == SettleDelta(r, actual) IN
       \/ /\ d = 0 \/ CanApply(s, d)
          /\ DbOk
          /\ IF d = 0 THEN UNCHANGED used ELSE Apply(s, d)
          /\ req' = [req EXCEPT ![r].cost = actual]
       \/ /\ d # 0
          /\ \/ ~CanApply(s, d) /\ DbOk
             \/ DbError(r)
          /\ req' = [req EXCEPT ![r].cost = PreConsumed(r)]
          /\ UNCHANGED used
  /\ Goto(r, "served")
  /\ UNCHANGED <<status, due, rec, attempts, resets, refunds>>

-----------------------------------------------------------------------------
(* refundWithRetry over RefundSubscriptionPreConsume, then the extra quota *)

(* The upstream failed for good. *)
Fail(r) ==
  /\ pc[r] = "open"
  /\ Goto(r, "refund")
  /\ UNCHANGED <<used, status, due, rec, req, attempts, dbErrors, resets, refunds>>

GiveUpEarly(r) == attempts[r] + 2 >= MaxAttempts   \* mutant: one try too few
GiveUp(r) == attempts[r] + 1 >= MaxAttempts

(* A try has returned an error: another one, or the error is logged. *)
TryFailed(r) ==
  /\ attempts' = [attempts EXCEPT ![r] = @ + 1]
  /\ Goto(r, IF GiveUp(r) THEN "extra" ELSE "refund")

(* The outer transaction begins and locks the record. *)
RefundOuterBegin(r) ==
  /\ pc[r] = "refund"
  /\ \/ /\ rec[r].status = "consumed" /\ DbOk
        /\ Goto(r, "inner") /\ UNCHANGED attempts
     \/ /\ rec[r].status = "refunded" /\ DbOk               \* already done
        /\ Goto(r, "extra") /\ UNCHANGED attempts
     \/ /\ DbError(r) /\ TryFailed(r)
  /\ UNCHANGED <<used, status, due, rec, req, resets, refunds>>

(* The inner transaction commits on its own. *)
RefundInner(r) ==
  LET s == rec[r].sub  a == rec[r].amount IN
  /\ pc[r] = "inner"
  /\ \/ /\ CanApply(s, -a) /\ DbOk /\ Apply(s, -a)
        /\ refunds' = [refunds EXCEPT ![r] = @ + 1]
        /\ Goto(r, "outer") /\ UNCHANGED attempts
     \/ /\ \/ ~CanApply(s, -a) /\ DbOk
           \/ DbError(r)
        /\ TryFailed(r) /\ UNCHANGED <<used, refunds>>
  /\ UNCHANGED <<status, due, rec, req, resets>>

(* The outer transaction marks the record and commits, or rolls back. *)
RefundOuterCommit(r) ==
  /\ pc[r] = "outer"
  /\ \/ /\ DbOk
        /\ rec' = [rec EXCEPT ![r].status = "refunded"]
        /\ Goto(r, "extra") /\ UNCHANGED attempts
     \/ /\ SaveMayFail /\ DbError(r) /\ TryFailed(r) /\ UNCHANGED rec
  /\ UNCHANGED <<used, status, due, req, resets, refunds>>

ExtraReserved(r) == req[r].extra

RefundExtra(r) ==
  LET s == req[r].sub  x == ExtraReserved(r) IN
  /\ pc[r] = "extra"
  /\ \/ x > 0 /\ CanApply(s, -x) /\ DbOk /\ Apply(s, -x)
     \/ /\ \/ x = 0 /\ DbOk
           \/ x > 0 /\ ~CanApply(s, -x) /\ DbOk
           \/ x > 0 /\ DbError(r)
        /\ UNCHANGED used
  /\ Goto(r, "failed")
  /\ UNCHANGED <<status, due, rec, req, attempts, resets, refunds>>

-----------------------------------------------------------------------------
(* Background tasks, the administrator, crashes *)

PeriodEnds(s) ==
  /\ resets < MaxResets /\ ~due[s]
  /\ due' = [due EXCEPT ![s] = TRUE] /\ resets' = resets + 1
  /\ UNCHANGED <<used, status, rec, req, pc, attempts, dbErrors, refunds>>

(* One transaction of ResetDueSubscriptions, on the locked row *)
ResetDue(s) ==
  /\ Active(s) /\ due[s]
  /\ used' = [used EXCEPT ![s] = 0] /\ due' = [due EXCEPT ![s] = FALSE]
  /\ UNCHANGED <<status, rec, req, pc, attempts, dbErrors, resets, refunds>>

(* AdminResetUserSubscriptionsByPlan and AdminResetPlanSubscriptions; with    *)
(* advanceResetTime the period starts again too                              *)
AdminReset(s) ==
  /\ Active(s) /\ resets < MaxResets
  /\ \E advance \in BOOLEAN : due' = [due EXCEPT ![s] = @ /\ ~advance]
  /\ used' = [used EXCEPT ![s] = 0] /\ resets' = resets + 1
  /\ UNCHANGED <<status, rec, req, pc, attempts, dbErrors, refunds>>

(* ExpireDueSubscriptions, AdminInvalidateUserSubscription and               *)
(* AdminDeleteUserSubscription                                               *)
EndSubscription(s) ==
  /\ CanEnd
  /\ \/ Active(s) /\ status' = [status EXCEPT ![s] = "ended"]
     \/ status[s] # "deleted" /\ status' = [status EXCEPT ![s] = "deleted"]
  /\ UNCHANGED <<used, due, rec, req, pc, attempts, dbErrors, resets, refunds>>

(* The process dies; the record stays as it is. *)
Crash(r) ==
  /\ CanEnd /\ pc[r] \in {"open", "refund", "inner", "outer", "extra"}
  /\ Goto(r, "lost")
  /\ UNCHANGED <<used, status, due, rec, req, attempts, dbErrors, resets, refunds>>

Finished(r) == pc[r] \in {"served", "failed", "lost"}

(* CleanupSubscriptionPreConsumeRecords, seven days after the request *)
Cleanup(r) ==
  /\ Finished(r) /\ rec[r].status # "none"
  /\ rec' = [rec EXCEPT ![r] = NoRecord]
  /\ UNCHANGED <<used, status, due, req, pc, attempts, dbErrors, resets, refunds>>

RefundStep(r) ==
  RefundOuterBegin(r) \/ RefundInner(r) \/ RefundOuterCommit(r) \/ RefundExtra(r)

Done == (\A r \in Requests : Finished(r)) /\ UNCHANGED vars

Next ==
  \/ \E r \in Requests : \/ PreConsume(r) \/ Reserve(r) \/ Settle(r) \/ Fail(r)
                         \/ RefundStep(r) \/ Crash(r) \/ Cleanup(r)
  \/ \E s \in Subs : PeriodEnds(s) \/ ResetDue(s) \/ AdminReset(s) \/ EndSubscription(s)
  \/ Done

Spec == Init /\ [][Next]_vars

-----------------------------------------------------------------------------
(* Properties *)

(* The rows and the requests have the types of their Go structs. *)
TypeOK ==
  /\ used \in [Subs -> Nat] /\ due \in [Subs -> BOOLEAN]
  /\ status \in [Subs -> {"active", "ended", "deleted"}]
  /\ rec \in [Requests -> [status : {"none", "consumed", "refunded"},
                           sub : Subs \cup {0}, amount : Nat]]
  /\ req \in [Requests -> [sub : Subs \cup {0}, pre : Nat, extra : Nat, cost : Nat]]
  /\ pc \in [Requests -> Steps]
  /\ attempts \in [Requests -> 0..MaxAttempts] /\ dbErrors \in [Requests -> 0..MaxDbErrors]
  /\ resets \in 0..MaxResets /\ refunds \in [Requests -> Nat]

(* No request pushes a subscription above its total, whichever of the three  *)
(* transactions charges it and however resets fall between them.             *)
WithinTotal == \A s \in Subs : Total[s] = 0 \/ used[s] <= Total[s]

(* What request r knows to have consumed of subscription s *)
Owed(r, s) ==
  IF req[r].sub # s THEN 0
  ELSE IF pc[r] = "served" THEN req[r].cost
  ELSE IF pc[r] \in {"open", "refund", "inner"} /\ refunds[r] = 0 THEN PreConsumed(r)
  ELSE IF pc[r] \in {"refund", "inner", "outer", "extra"} THEN req[r].extra
  ELSE 0

(* Without resets a subscription has used at least what its requests consumed *)
(* between them, and exactly that when nothing failed: no refund, retry or    *)
(* settlement eats into another request's consumption or leaves a part of its *)
(* own behind.                                                               *)
NothingFailed ==
  /\ \A r \in Requests : dbErrors[r] = 0 /\ pc[r] # "lost"
  /\ \A s \in Subs : status[s] # "deleted"
UsedCoversRequests ==
  resets = 0 =>
    \A s \in Subs :
      LET owed == MapThenSumSet(LAMBDA r : Owed(r, s), Requests)
      IN  used[s] >= owed /\ (NothingFailed => used[s] = owed)

(* A request that has failed leaves no record behind that still says          *)
(* consumed, as long as fewer calls fail than refundWithRetry makes tries and *)
(* the subscription has not been deleted meanwhile.                          *)
RefundRecorded ==
  \A r \in Requests :
    pc[r] = "failed" /\ dbErrors[r] < MaxAttempts /\ rec[r].status = "consumed" =>
      status[rec[r].sub] = "deleted"

(* The comment of RefundSubscriptionPreConsume (model/subscription.go:1186):  *)
(* it "is idempotent", so however often it is tried the amount goes back once. *)
RefundIdempotent == \A r \in Requests : refunds[r] <= 1
=============================================================================
