---------------------- MODULE SubscriptionQuota_proofs ----------------------
(***************************************************************************)
(* Proofs about SubscriptionQuota, for any requests, subscriptions, totals *)
(* and amounts: the types, that used quota stays within the total, how     *)
(* often a refund that is not idempotent can be applied, that a request    *)
(* which gave up left its refund recorded unless its calls failed, and     *)
(* that the used amounts cover what the requests have taken.               *)
(***************************************************************************)
EXTENDS SubscriptionQuota, FiniteSetTheorems, NaturalsInduction, WellFoundedInduction, TLAPS

Records == [status : {"none", "consumed", "refunded"}, sub : Subs \cup {0}, amount : Nat]
Fundings == [sub : Subs \cup {0}, pre : Nat, extra : Nat, cost : Nat]

(* A request that may still try a refund has tries left. *)
Trying == {"start", "open", "refund", "inner", "outer"}
TriesLeft == \A r \in Requests : pc[r] \in Trying => attempts[r] < MaxAttempts

Inv == TypeOK /\ TriesLeft /\ WithinTotal

(* A request at step p with n tries and e failed calls, f of whose tries have *)
(* given the amount back: each of them but the last one has failed since.     *)
NotYet == {"start", "open", "refund", "inner"}
Given(p, f, n, e) ==
  /\ f <= MaxAttempts /\ f <= 1 + e
  /\ p \in NotYet => f <= n /\ f <= e
  /\ p = "outer" => f <= n + 1
GivenOK == \A r \in Requests : Given(pc[r], refunds[r], attempts[r], dbErrors[r])

-----------------------------------------------------------------------------

(* A delta that PostConsumeUserSubscriptionDelta accepts keeps the total. *)
LEMMA ApplyKeeps ==
  ASSUME used \in [Subs -> Nat], WithinTotal, NEW s \in Subs, NEW d \in Int,
         CanApply(s, d), Apply(s, d)
  PROVE (used \in [Subs -> Nat])' /\ WithinTotal'
<1>1. After(s, d) \in Nat /\ (Total[s] = 0 \/ After(s, d) <= Total[s])
  BY DEF CanApply, After
<1>2. used' = [used EXCEPT ![s] = After(s, d)]
  BY DEF Apply
<1> QED
  BY <1>1, <1>2 DEF WithinTotal

(* A reset only lowers what is used. *)
LEMMA ResetKeeps ==
  ASSUME used \in [Subs -> Nat], WithinTotal, NEW s \in Subs, used' = [used EXCEPT ![s] = 0]
  PROVE (used \in [Subs -> Nat])' /\ WithinTotal'
<1>1. (used \in [Subs -> Nat])'
  OBVIOUS
<1>2. \A x \in Subs : used'[x] = 0 \/ used'[x] = used[x]
  OBVIOUS
<1>3. \A x \in Subs : Total[x] \in Nat
  BY SubsAssumption
<1>4. \A x \in Subs : Total[x] = 0 \/ used'[x] <= Total[x]
  BY <1>2, <1>3 DEF WithinTotal
<1> QED
  BY <1>1, <1>4 DEF WithinTotal

(* Goto moves one request to a known step. *)
LEMMA GotoType ==
  ASSUME TypeOK, NEW r \in Requests, NEW p \in Steps, Goto(r, p)
  PROVE (pc \in [Requests -> Steps])' /\ pc' = [pc EXCEPT ![r] = p]
  BY DEF TypeOK, Goto

(* A database call keeps the error count bounded. *)
LEMMA DbType ==
  ASSUME TypeOK, NEW r \in Requests, DbOk \/ DbError(r)
  PROVE (dbErrors \in [Requests -> 0..MaxDbErrors])'
  BY AttemptsAssumption DEF TypeOK, DbOk, DbError

(* Moving on without counting a try keeps the bound on tries. *)
LEMMA MoveKeepsTries ==
  ASSUME TypeOK, TriesLeft, NEW r \in Requests, NEW p \in Steps, Goto(r, p), attempts' = attempts,
         p \in Trying => pc[r] \in Trying
  PROVE TriesLeft'
  BY DEF TypeOK, TriesLeft, Goto

(* A failed try either has a successor or gives up. *)
LEMMA TryFailedKeeps ==
  ASSUME TypeOK, TriesLeft, NEW r \in Requests, pc[r] \in Trying, TryFailed(r)
  PROVE /\ (pc \in [Requests -> Steps])' /\ (attempts \in [Requests -> 0..MaxAttempts])'
        /\ TriesLeft' /\ pc'[r] \in {"refund", "extra"} /\ \A x \in Requests \ {r} : pc'[x] = pc[x]
<1>1. attempts[r] < MaxAttempts /\ attempts' = [attempts EXCEPT ![r] = @ + 1]
  BY DEF TriesLeft, TryFailed
<1>2. (attempts \in [Requests -> 0..MaxAttempts])'
  BY <1>1, AttemptsAssumption DEF TypeOK
<1>3. pc' = [pc EXCEPT ![r] = IF GiveUp(r) THEN "extra" ELSE "refund"]
  BY DEF TryFailed, Goto
<1>4. (pc \in [Requests -> Steps])'
  BY <1>3 DEF TypeOK, Steps
<1>5. TriesLeft'
  <2> SUFFICES ASSUME NEW x \in Requests, pc'[x] \in Trying PROVE attempts'[x] < MaxAttempts
    BY DEF TriesLeft
  <2>1. CASE x = r
    <3>1. ~GiveUp(r)
      BY <1>3, <2>1 DEF TypeOK, Trying
    <3> QED
      BY <1>1, <2>1, <3>1, AttemptsAssumption DEF TypeOK, GiveUp
  <2>2. CASE x # r
    BY <1>1, <1>3, <2>2 DEF TypeOK, TriesLeft
  <2> QED
    BY <2>1, <2>2
<1> QED
  BY <1>2, <1>3, <1>4, <1>5 DEF TypeOK

-----------------------------------------------------------------------------

(* Nothing is consumed, tried or refunded at first. *)
LEMMA InitInv == Init => Inv
<1> SUFFICES ASSUME Init PROVE Inv
  OBVIOUS
<1>1. used \in [Subs -> Nat] /\ WithinTotal
  BY SubsAssumption DEF Init, WithinTotal
<1>2. /\ due \in [Subs -> BOOLEAN] /\ status \in [Subs -> {"active", "ended", "deleted"}]
      /\ pc \in [Requests -> Steps]
  BY DEF Init, Steps
<1>3. rec \in [Requests -> Records] /\ req \in [Requests -> Fundings]
  BY DEF Init, NoRecord, NoFunding, Records, Fundings
<1>4. /\ attempts \in [Requests -> 0..MaxAttempts] /\ dbErrors \in [Requests -> 0..MaxDbErrors]
      /\ resets \in 0..MaxResets /\ refunds \in [Requests -> Nat]
  BY AttemptsAssumption DEF Init
<1>5. TriesLeft
  BY AttemptsAssumption DEF Init, TriesLeft
<1> QED
  BY <1>1, <1>2, <1>3, <1>4, <1>5 DEF Inv, TypeOK, Records, Fundings

(* PreConsume charges a subscription that has room for it. *)
LEMMA PreConsumeInv == ASSUME Inv, NEW r \in Requests, PreConsume(r) PROVE Inv'
<1>0. TypeOK /\ TriesLeft /\ WithinTotal /\ pc[r] = "start"
  BY DEF Inv, PreConsume
<1>1. UNCHANGED <<status, attempts, resets, refunds>>
  BY DEF PreConsume
<1>2. (dbErrors \in [Requests -> 0..MaxDbErrors])'
  BY <1>0, DbType DEF PreConsume
<1>3. PICK a \in Amounts :
        \/ \E s \in Subs :
             /\ Fits(s, a)
             /\ used' = [x \in Subs |->
                           IF x = s THEN UsedNow(s) + a
                           ELSE IF x \in {y \in Subs : Active(y) /\ y <= s} THEN UsedNow(x) ELSE used[x]]
             /\ due' = [x \in Subs |-> due[x] /\ x \notin {y \in Subs : Active(y) /\ y <= s}]
             /\ rec' = [rec EXCEPT ![r] = [status |-> "consumed", sub |-> s, amount |-> a]]
             /\ req' = [req EXCEPT ![r] = [NoFunding EXCEPT !.sub = s, !.pre = a]]
             /\ Goto(r, "open")
        \/ Goto(r, "failed") /\ UNCHANGED <<used, due, rec, req>>
  BY Zenon DEF PreConsume
<1>4. CASE Goto(r, "failed") /\ UNCHANGED <<used, due, rec, req>>
  <2>1. (pc \in [Requests -> Steps])' /\ TriesLeft'
    BY <1>0, <1>1, <1>4, GotoType, MoveKeepsTries DEF Steps, Trying
  <2> QED
    BY <1>0, <1>1, <1>2, <1>4, <2>1 DEF Inv, TypeOK, WithinTotal
<1>5. ASSUME NEW s \in Subs, Fits(s, a),
             used' = [x \in Subs |->
                        IF x = s THEN UsedNow(s) + a
                        ELSE IF x \in {y \in Subs : Active(y) /\ y <= s} THEN UsedNow(x) ELSE used[x]],
             due' = [x \in Subs |-> due[x] /\ x \notin {y \in Subs : Active(y) /\ y <= s}],
             rec' = [rec EXCEPT ![r] = [status |-> "consumed", sub |-> s, amount |-> a]],
             req' = [req EXCEPT ![r] = [NoFunding EXCEPT !.sub = s, !.pre = a]],
             Goto(r, "open")
      PROVE Inv'
  <2>1. (pc \in [Requests -> Steps])' /\ TriesLeft'
    BY <1>0, <1>1, <1>5, GotoType, MoveKeepsTries DEF Steps, Trying
  <2>2. \A x \in Subs : UsedNow(x) \in Nat /\ UsedNow(x) <= used[x]
    BY <1>0 DEF TypeOK, UsedNow
  <2>3. a \in Nat /\ (Total[s] = 0 \/ UsedNow(s) + a <= Total[s])
    BY <1>5, <2>2, AmountsAssumption, SubsAssumption DEF Fits
  <2>4. (used \in [Subs -> Nat])'
    BY <1>0, <1>5, <2>2, <2>3 DEF TypeOK
  <2>5. WithinTotal'
    <3> SUFFICES ASSUME NEW x \in Subs PROVE Total[x] = 0 \/ used'[x] <= Total[x]
      BY DEF WithinTotal
    <3>1. (used'[x] = UsedNow(s) + a /\ x = s) \/ used'[x] \in {UsedNow(x), used[x]}
      BY <1>5
    <3> QED
      BY <1>0, <2>2, <2>3, <3>1, SubsAssumption DEF WithinTotal, TypeOK
  <2>6. (due \in [Subs -> BOOLEAN])'
    BY <1>5
  <2>7. (rec \in [Requests -> Records])'
    <3>1. [status |-> "consumed", sub |-> s, amount |-> a] \in Records
      BY <2>3 DEF Records
    <3> QED
      BY <1>0, <1>5, <3>1 DEF TypeOK, Records
  <2>8. (req \in [Requests -> Fundings])'
    <3>1. [NoFunding EXCEPT !.sub = s, !.pre = a] \in Fundings
      BY <2>3 DEF NoFunding, Fundings
    <3> QED
      BY <1>0, <1>5, <3>1 DEF TypeOK, Fundings
  <2> QED
    BY <1>0, <1>1, <1>2, <2>1, <2>4, <2>5, <2>6, <2>7, <2>8 DEF Inv, TypeOK, Records, Fundings
<1> QED
  BY <1>3, <1>4, <1>5, Zenon

(* Reserve adds what fits, or the request fails. *)
LEMMA ReserveInv == ASSUME Inv, NEW r \in Requests, Reserve(r) PROVE Inv'
<1>0. TypeOK /\ TriesLeft /\ WithinTotal /\ pc[r] = "open"
  BY DEF Inv, Reserve
<1>1. UNCHANGED <<status, due, rec, attempts, resets, refunds>>
  BY DEF Reserve
<1>2. (dbErrors \in [Requests -> 0..MaxDbErrors])'
  BY <1>0, DbType DEF Reserve
<1>3. PICK target \in Amounts :
        LET d == target - PreConsumed(r) IN
        /\ d > 0
        /\ \/ /\ CanApply(req[r].sub, d) /\ Apply(req[r].sub, d)
              /\ req' = [req EXCEPT ![r].extra = @ + d] /\ UNCHANGED pc
           \/ Goto(r, "refund") /\ UNCHANGED <<used, req>>
  BY DEF Reserve
<1> DEFINE d == target - PreConsumed(r)
<1>4. CASE Goto(r, "refund") /\ UNCHANGED <<used, req>>
  <2>1. (pc \in [Requests -> Steps])' /\ TriesLeft'
    BY <1>0, <1>1, <1>4, GotoType, MoveKeepsTries DEF Steps, Trying
  <2> QED
    BY <1>0, <1>1, <1>2, <1>4, <2>1 DEF Inv, TypeOK, WithinTotal
<1>5. CASE /\ d > 0 /\ CanApply(req[r].sub, d) /\ Apply(req[r].sub, d)
           /\ req' = [req EXCEPT ![r].extra = @ + d] /\ UNCHANGED pc
  <2>1. d \in Nat
    BY <1>0, <1>5, AmountsAssumption DEF TypeOK, PreConsumed
  <2>2. req[r].sub \in Subs
    BY <1>5 DEF CanApply
  <2>3. (used \in [Subs -> Nat])' /\ WithinTotal'
    BY <1>0, <1>5, <2>1, <2>2, ApplyKeeps DEF TypeOK
  <2>4. (req \in [Requests -> Fundings])'
    BY <1>0, <1>5, <2>1 DEF TypeOK, Fundings
  <2>5. TriesLeft'
    BY <1>0, <1>1, <1>5 DEF TriesLeft
  <2> QED
    BY <1>0, <1>1, <1>2, <1>5, <2>3, <2>4, <2>5 DEF Inv, TypeOK, Fundings
<1> QED
  BY <1>3, <1>4, <1>5

(* Settle applies a delta that fits, or leaves the reservation. *)
LEMMA SettleInv == ASSUME Inv, NEW r \in Requests, Settle(r) PROVE Inv'
<1>0. TypeOK /\ TriesLeft /\ WithinTotal /\ pc[r] = "open"
  BY DEF Inv, Settle
<1>1. UNCHANGED <<status, due, rec, attempts, resets, refunds>> /\ Goto(r, "served")
  BY DEF Settle
<1>2. (dbErrors \in [Requests -> 0..MaxDbErrors])'
  BY <1>0, DbType DEF Settle
<1>3. (pc \in [Requests -> Steps])' /\ TriesLeft'
  BY <1>0, <1>1, GotoType, MoveKeepsTries DEF Steps, Trying
<1>4. PreConsumed(r) \in Nat
  BY <1>0 DEF TypeOK, PreConsumed
<1>5. PICK actual \in Amounts \cup {0} :
        \/ /\ \/ UNCHANGED used
              \/ CanApply(req[r].sub, SettleDelta(r, actual)) /\ Apply(req[r].sub, SettleDelta(r, actual))
           /\ req' = [req EXCEPT ![r].cost = actual]
        \/ req' = [req EXCEPT ![r].cost = PreConsumed(r)] /\ UNCHANGED used
  BY DEF Settle
<1>6. actual \in Nat /\ SettleDelta(r, actual) \in Int
  BY <1>4, AmountsAssumption DEF SettleDelta
<1>7. (req \in [Requests -> Fundings])'
  <2>1. ASSUME NEW c \in Nat, req' = [req EXCEPT ![r].cost = c] PROVE (req \in [Requests -> Fundings])'
    BY <1>0, <2>1 DEF TypeOK, Fundings
  <2> QED
    BY <1>4, <1>5, <1>6, <2>1
<1>8. (used \in [Subs -> Nat])' /\ WithinTotal'
  <2>1. CASE UNCHANGED used
    BY <1>0, <2>1 DEF TypeOK, WithinTotal
  <2>2. CASE CanApply(req[r].sub, SettleDelta(r, actual)) /\ Apply(req[r].sub, SettleDelta(r, actual))
    <3>1. req[r].sub \in Subs
      BY <2>2 DEF CanApply
    <3> QED
      BY <1>0, <1>6, <2>2, <3>1, ApplyKeeps DEF TypeOK
  <2> QED
    BY <1>5, <2>1, <2>2
<1> QED
  BY <1>0, <1>1, <1>2, <1>3, <1>7, <1>8 DEF Inv, TypeOK, Fundings

(* The steps of a refund return what was consumed and count the tries. *)
LEMMA RefundInv == ASSUME Inv, NEW r \in Requests, RefundStep(r) PROVE Inv'
<1>0. TypeOK /\ TriesLeft /\ WithinTotal
  BY DEF Inv
<1>1. UNCHANGED <<status, due, req, resets>>
  BY DEF RefundStep, RefundOuterBegin, RefundInner, RefundOuterCommit, RefundExtra
<1>2. (dbErrors \in [Requests -> 0..MaxDbErrors])'
  BY <1>0, DbType DEF RefundStep, RefundOuterBegin, RefundInner, RefundOuterCommit, RefundExtra
<1>3. (rec \in [Requests -> Records])'
  <2>1. rec' = rec \/ rec' = [rec EXCEPT ![r].status = "refunded"]
    BY DEF RefundStep, RefundOuterBegin, RefundInner, RefundOuterCommit, RefundExtra
  <2> QED
    BY <1>0, <2>1 DEF TypeOK, Records
<1>4. (refunds \in [Requests -> Nat])'
  <2>1. refunds' = refunds \/ refunds' = [refunds EXCEPT ![r] = @ + 1]
    BY DEF RefundStep, RefundOuterBegin, RefundInner, RefundOuterCommit, RefundExtra
  <2> QED
    BY <1>0, <2>1 DEF TypeOK
<1>5. (used \in [Subs -> Nat])' /\ WithinTotal'
  <2>1. \/ UNCHANGED used
        \/ CanApply(rec[r].sub, -rec[r].amount) /\ Apply(rec[r].sub, -rec[r].amount)
        \/ CanApply(req[r].sub, -ExtraReserved(r)) /\ Apply(req[r].sub, -ExtraReserved(r))
    BY DEF RefundStep, RefundOuterBegin, RefundInner, RefundOuterCommit, RefundExtra
  <2>2. CASE UNCHANGED used
    BY <1>0, <2>2 DEF TypeOK, WithinTotal
  <2>3. -rec[r].amount \in Int /\ -ExtraReserved(r) \in Int
    BY <1>0 DEF TypeOK, ExtraReserved
  <2>4. ASSUME NEW s, NEW e \in Int, CanApply(s, e), Apply(s, e)
        PROVE (used \in [Subs -> Nat])' /\ WithinTotal'
    <3>1. s \in Subs
      BY <2>4 DEF CanApply
    <3> QED
      BY <1>0, <2>4, <3>1, ApplyKeeps DEF TypeOK
  <2> QED
    BY <2>1, <2>2, <2>3, <2>4
<1>6. /\ (pc \in [Requests -> Steps])' /\ (attempts \in [Requests -> 0..MaxAttempts])'
      /\ TriesLeft'
  <2>1. CASE pc[r] \in Trying /\ TryFailed(r)
    BY <1>0, <2>1, TryFailedKeeps
  <2>2. ASSUME NEW p \in {"inner", "outer"}, pc[r] \in Trying, Goto(r, p), UNCHANGED attempts
        PROVE /\ (pc \in [Requests -> Steps])' /\ (attempts \in [Requests -> 0..MaxAttempts])'
              /\ TriesLeft'
    BY <1>0, <2>2, GotoType, MoveKeepsTries DEF Steps, TypeOK
  <2>3. ASSUME NEW p \in {"extra", "failed"}, Goto(r, p), UNCHANGED attempts
        PROVE /\ (pc \in [Requests -> Steps])' /\ (attempts \in [Requests -> 0..MaxAttempts])'
              /\ TriesLeft'
    BY <1>0, <2>3, GotoType, MoveKeepsTries DEF Steps, Trying, TypeOK
  <2> QED
    BY <2>1, <2>2, <2>3
    DEF RefundStep, RefundOuterBegin, RefundInner, RefundOuterCommit, RefundExtra, Trying
<1> QED
  BY <1>0, <1>1, <1>2, <1>3, <1>4, <1>5, <1>6 DEF Inv, TypeOK, Records

(* Failing upstreams, crashes and the cleanup of records touch no quota. *)
LEMMA EndingInv == ASSUME Inv, NEW r \in Requests, Fail(r) \/ Crash(r) \/ Cleanup(r) PROVE Inv'
<1>0. TypeOK /\ TriesLeft /\ WithinTotal
  BY DEF Inv
<1>1. UNCHANGED <<used, status, due, req, attempts, dbErrors, resets, refunds>>
  BY DEF Fail, Crash, Cleanup
<1>2. (pc \in [Requests -> Steps])' /\ TriesLeft'
  <2>1. CASE pc' = pc
    BY <1>0, <1>1, <2>1 DEF TypeOK, TriesLeft
  <2>2. CASE (pc[r] = "open" /\ Goto(r, "refund")) \/ Goto(r, "lost")
    BY <1>0, <1>1, <2>2, GotoType, MoveKeepsTries DEF Steps, Trying
  <2> QED
    BY <2>1, <2>2 DEF Fail, Crash, Cleanup
<1>3. (rec \in [Requests -> Records])'
  <2>1. NoRecord \in Records /\ (rec' = rec \/ rec' = [rec EXCEPT ![r] = NoRecord])
    BY DEF Fail, Crash, Cleanup, NoRecord, Records
  <2> QED
    BY <1>0, <2>1 DEF TypeOK, Records
<1> QED
  BY <1>0, <1>1, <1>2, <1>3 DEF Inv, TypeOK, WithinTotal, Records

(* Resets lower what is used; the end of a subscription leaves it. *)
LEMMA BackgroundInv ==
  ASSUME Inv, NEW s \in Subs, PeriodEnds(s) \/ ResetDue(s) \/ AdminReset(s) \/ EndSubscription(s)
  PROVE Inv'
<1>0. TypeOK /\ TriesLeft /\ WithinTotal
  BY DEF Inv
<1>1. UNCHANGED <<rec, req, pc, attempts, dbErrors, refunds>>
  BY DEF PeriodEnds, ResetDue, AdminReset, EndSubscription
<1>2. (used \in [Subs -> Nat])' /\ WithinTotal'
  <2>1. CASE used' = used
    BY <1>0, <2>1 DEF TypeOK, WithinTotal
  <2>2. CASE used' = [used EXCEPT ![s] = 0]
    BY <1>0, <2>2, ResetKeeps DEF TypeOK
  <2> QED
    BY <2>1, <2>2 DEF PeriodEnds, ResetDue, AdminReset, EndSubscription
<1>3. (due \in [Subs -> BOOLEAN])'
  BY <1>0 DEF TypeOK, PeriodEnds, ResetDue, AdminReset, EndSubscription
<1>4. (status \in [Subs -> {"active", "ended", "deleted"}])'
  BY <1>0 DEF TypeOK, PeriodEnds, ResetDue, AdminReset, EndSubscription
<1>5. (resets \in 0..MaxResets)'
  BY <1>0, AttemptsAssumption DEF TypeOK, PeriodEnds, ResetDue, AdminReset, EndSubscription
<1>6. TriesLeft'
  BY <1>0, <1>1 DEF TriesLeft
<1> QED
  BY <1>0, <1>1, <1>2, <1>3, <1>4, <1>5, <1>6 DEF Inv, TypeOK

(* Every step preserves the invariant. *)
LEMMA NextInv == Inv /\ [Next]_vars => Inv'
<1> SUFFICES ASSUME Inv, [Next]_vars PROVE Inv'
  OBVIOUS
<1>1. CASE UNCHANGED vars
  BY <1>1 DEF vars, Inv, TypeOK, TriesLeft, WithinTotal
<1> QED
  BY <1>1, PreConsumeInv, ReserveInv, SettleInv, RefundInv, EndingInv, BackgroundInv
  DEF Next, Done

-----------------------------------------------------------------------------

(* Every row, record and counter keeps its type; the tries of a refund never   *)
(* exceed refundWithRetry's limit and the used amount never goes negative.    *)
THEOREM TypeCorrect == Spec => []TypeOK
<1>1. Inv => TypeOK
  BY DEF Inv
<1> QED
  BY <1>1, InitInv, NextInv, PTL DEF Spec

(* However pre-consumption, reservation, settlement, refunds, resets and the   *)
(* administrator interleave, a subscription is never used above its total.    *)
THEOREM TotalHeld == Spec => []WithinTotal
<1>1. Inv => WithinTotal
  BY DEF Inv
<1> QED
  BY <1>1, InitInv, NextInv, PTL DEF Spec

(* A step that leaves the other requests alone *)
LEMMA GivenFrame ==
  ASSUME TypeOK, GivenOK, NEW r \in Requests,
         \A x \in Requests \ {r} : /\ pc'[x] = pc[x] /\ refunds'[x] = refunds[x]
                                   /\ attempts'[x] = attempts[x] /\ dbErrors'[x] = dbErrors[x],
         Given(pc'[r], refunds'[r], attempts'[r], dbErrors'[r])
  PROVE  GivenOK'
  BY DEF GivenOK

(* What is known of one request: a database call only raises its count. *)
LEMMA GivenFacts ==
  ASSUME Inv, GivenOK, NEW r \in Requests
  PROVE  /\ TypeOK /\ Given(pc[r], refunds[r], attempts[r], dbErrors[r])
         /\ refunds[r] \in Nat /\ attempts[r] \in Nat /\ dbErrors[r] \in Nat
         /\ MaxAttempts \in Nat /\ (pc[r] \in Trying => attempts[r] < MaxAttempts)
         /\ DbOk => dbErrors' = dbErrors
         /\ DbError(r) => /\ dbErrors'[r] = dbErrors[r] + 1
                          /\ \A x \in Requests \ {r} : dbErrors'[x] = dbErrors[x]
  BY AttemptsAssumption DEF Inv, TypeOK, TriesLeft, GivenOK, DbOk, DbError

(* A step that neither gives the amount back nor ends a try *)
LEMMA GivenMove ==
  ASSUME Inv, GivenOK, NEW r \in Requests, NEW p \in Steps, Goto(r, p), DbOk \/ DbError(r),
         UNCHANGED <<attempts, refunds>>, p \in NotYet => pc[r] \in NotYet, p # "outer"
  PROVE  GivenOK'
<1>1. pc'[r] = p /\ \A x \in Requests \ {r} : pc'[x] = pc[x]
  BY DEF Goto, Inv, TypeOK
<1>2. Given(p, refunds[r], attempts[r], dbErrors'[r])
  BY GivenFacts DEF Given
<1> QED
  BY <1>1, <1>2, GivenFacts, GivenFrame

(* A try has failed: in "outer" by a failing call, which may be given back again. *)
LEMMA GivenFailed ==
  ASSUME Inv, GivenOK, NEW r \in Requests, TryFailed(r), UNCHANGED refunds,
         \/ pc[r] \in {"refund", "inner"} /\ (DbOk \/ DbError(r))
         \/ pc[r] = "outer" /\ DbError(r)
  PROVE  GivenOK'
<1>1. /\ attempts'[r] = attempts[r] + 1 /\ attempts[r] < MaxAttempts
      /\ pc'[r] \in {"refund", "extra"}
      /\ \A x \in Requests \ {r} : pc'[x] = pc[x] /\ attempts'[x] = attempts[x]
  BY TryFailedKeeps DEF Inv, TypeOK, TriesLeft, TryFailed, Trying
<1>2. Given(pc'[r], refunds[r], attempts'[r], dbErrors'[r])
  BY <1>1, GivenFacts DEF Given, NotYet
<1> QED
  BY <1>1, <1>2, GivenFacts, GivenFrame

(* The inner transaction gives the amount back. *)
LEMMA GivenBack ==
  ASSUME Inv, GivenOK, NEW r \in Requests, pc[r] = "inner", Goto(r, "outer"), DbOk,
         refunds' = [refunds EXCEPT ![r] = @ + 1], UNCHANGED attempts
  PROVE  GivenOK'
<1>1. /\ pc'[r] = "outer" /\ refunds'[r] = refunds[r] + 1
      /\ \A x \in Requests \ {r} : pc'[x] = pc[x] /\ refunds'[x] = refunds[x]
  BY DEF Goto, Inv, TypeOK
<1>2. Given("outer", refunds[r] + 1, attempts[r], dbErrors[r])
  BY GivenFacts DEF Given, NotYet, Trying
<1> QED
  BY <1>1, <1>2, GivenFacts, GivenFrame

(* The refund of RefundSubscriptionPreConsume is not idempotent, for its inner *)
(* transaction stays when the outer one fails. But refundWithRetry bounds the  *)
(* harm: the amount goes back at most once per try, and every time but one of  *)
(* them is paid for by a failing database call of the same request. So it goes *)
(* back at most once where no call of the request failed.                      *)
THEOREM RefundsBounded ==
  Spec => [](\A r \in Requests : refunds[r] <= MaxAttempts /\ refunds[r] <= 1 + dbErrors[r])
<1>1. Init => GivenOK
  BY AttemptsAssumption DEF Init, GivenOK, Given
<1>2. Inv /\ GivenOK /\ [Next]_vars => GivenOK'
  <2> SUFFICES ASSUME Inv, GivenOK, [Next]_vars PROVE GivenOK'
    OBVIOUS
  <2>1. CASE UNCHANGED <<pc, refunds, attempts, dbErrors>>
    BY <2>1 DEF GivenOK
  <2>2. ASSUME NEW r \in Requests, UNCHANGED <<pc, attempts, refunds>>, DbOk \/ DbError(r)
        PROVE  GivenOK'
    <3>1. Given(pc[r], refunds[r], attempts[r], dbErrors'[r])
      BY <2>2, GivenFacts DEF Given
    <3> QED
      BY <2>2, <3>1, GivenFacts, GivenFrame
  <2>3. ASSUME NEW r \in Requests, PreConsume(r) \/ Reserve(r) \/ Settle(r) PROVE GivenOK'
    <3>1. CASE PreConsume(r)
      BY <3>1, GivenMove DEF PreConsume, NotYet, Steps
    <3>2. CASE Reserve(r)
      BY <2>2, <3>2, GivenMove DEF Reserve, NotYet, Steps
    <3>3. CASE Settle(r)
      BY <3>3, GivenMove DEF Settle, NotYet, Steps
    <3> QED
      BY <2>3, <3>1, <3>2, <3>3
  <2>4. ASSUME NEW r \in Requests, Fail(r) \/ Crash(r) \/ Cleanup(r) PROVE GivenOK'
    BY <2>1, <2>4, GivenMove DEF Fail, Crash, Cleanup, NotYet, Steps, DbOk
  <2>5. ASSUME NEW r \in Requests, RefundStep(r) PROVE GivenOK'
    <3>1. CASE RefundOuterBegin(r)
      BY <3>1, GivenMove, GivenFailed DEF RefundOuterBegin, NotYet, Steps
    <3>2. CASE RefundInner(r)
      BY <3>2, GivenBack, GivenFailed DEF RefundInner
    <3>3. CASE RefundOuterCommit(r)
      BY <3>3, GivenMove, GivenFailed DEF RefundOuterCommit, NotYet, Steps
    <3>4. CASE RefundExtra(r)
      BY <3>4, GivenMove DEF RefundExtra, NotYet, Steps
    <3> QED
      BY <2>5, <3>1, <3>2, <3>3, <3>4 DEF RefundStep
  <2> QED
    BY <2>1, <2>3, <2>4, <2>5
    DEF Next, Done, vars, PeriodEnds, ResetDue, AdminReset, EndSubscription
<1>3. GivenOK => \A r \in Requests : refunds[r] <= MaxAttempts /\ refunds[r] <= 1 + dbErrors[r]
  BY DEF GivenOK, Given
<1> QED
  BY <1>1, <1>2, <1>3, InitInv, NextInv, PTL DEF Spec
-----------------------------------------------------------------------------
(* Recorded refunds: the tries of a refund are used up by failing calls only, *)
(* as long as the subscription is there, and only a refund that has used up   *)
(* its tries leaves the record as it is.                                      *)

Tried(p, c, n, e, st) ==
  /\ c.status = "consumed" => c.sub \in Subs
  /\ p = "start" => c.status = "none" /\ n = 0
  /\ c.status = "consumed" /\ st[c.sub] # "deleted" =>
       n <= e /\ (p \in {"extra", "failed"} => n >= MaxAttempts)

TriedOK == \A r \in Requests : Tried(pc[r], rec[r], attempts[r], dbErrors[r], status)

(* A refund is refused only by a deleted subscription. *)
LEMMA RefundRefused ==
  ASSUME Inv, NEW s \in Subs, NEW a \in Nat, ~CanApply(s, -a)
  PROVE  status[s] = "deleted"
<1>1. used[s] \in Nat /\ Total[s] \in Nat /\ (Total[s] = 0 \/ used[s] <= Total[s])
  BY SubsAssumption DEF Inv, TypeOK, WithinTotal
<1>2. After(s, -a) \in Int /\ After(s, -a) <= used[s]
  BY <1>1 DEF After
<1> QED
  BY <1>1, <1>2 DEF CanApply

(* A step of r that leaves r in order keeps the others in order. *)
LEMMA TriedFrame ==
  ASSUME TypeOK, TriedOK, NEW r \in Requests, NEW p, NEW c, NEW n,
         pc' = [pc EXCEPT ![r] = p], rec' = [rec EXCEPT ![r] = c],
         attempts' = [attempts EXCEPT ![r] = n], DbOk \/ DbError(r), UNCHANGED status,
         Tried(p, c, n, dbErrors'[r], status)
  PROVE  TriedOK'
<1> SUFFICES ASSUME NEW q \in Requests
             PROVE  Tried(pc'[q], rec'[q], attempts'[q], dbErrors'[q], status')
  BY DEF TriedOK
<1>1. CASE q = r
  BY <1>1 DEF TypeOK
<1>2. CASE q # r
  <2>1. Tried(pc[q], rec[q], attempts[q], dbErrors[q], status)
    BY DEF TriedOK
  <2>2. dbErrors'[q] = dbErrors[q]
    BY <1>2 DEF TypeOK, DbOk, DbError
  <2>3. pc'[q] = pc[q] /\ rec'[q] = rec[q] /\ attempts'[q] = attempts[q]
    BY <1>2 DEF TypeOK
  <2> QED
    BY <2>1, <2>2, <2>3
<1> QED
  BY <1>1, <1>2

(* What is known of the request that moves *)
LEMMA TriedFacts ==
  ASSUME TypeOK, TriedOK, NEW r \in Requests
  PROVE  /\ Tried(pc[r], rec[r], attempts[r], dbErrors[r], status)
         /\ attempts[r] \in Nat /\ dbErrors[r] \in Nat /\ rec[r] \in Records
         /\ DbOk => dbErrors'[r] = dbErrors[r]
         /\ DbError(r) => dbErrors'[r] = dbErrors[r] + 1
         /\ rec' = rec => rec' = [rec EXCEPT ![r] = rec[r]]
         /\ attempts' = attempts => attempts' = [attempts EXCEPT ![r] = attempts[r]]
  BY DEF TypeOK, TriedOK, DbOk, DbError, Records

(* A step that counts no try and does not end the refund *)
LEMMA TriedMove ==
  ASSUME TypeOK, TriedOK, NEW r \in Requests, pc[r] # "start",
         NEW p \in {"open", "refund", "inner", "outer", "served", "lost"}, Goto(r, p),
         DbOk \/ DbError(r), UNCHANGED <<rec, attempts, status>>
  PROVE  TriedOK'
<1>1. Tried(p, rec[r], attempts[r], dbErrors'[r], status)
  BY TriedFacts DEF Tried
<1> QED
  BY <1>1, TriedFacts, TriedFrame DEF Goto

(* A failed try: it is another error, or the subscription is deleted. *)
LEMMA TriedFailed ==
  ASSUME TypeOK, TriedOK, NEW r \in Requests, pc[r] \in {"refund", "inner", "outer"}, TryFailed(r),
         \/ DbError(r)
         \/ DbOk /\ (rec[r].status = "consumed" => status[rec[r].sub] = "deleted"),
         UNCHANGED <<rec, status>>
  PROVE  TriedOK'
<1> DEFINE p == IF GiveUp(r) THEN "extra" ELSE "refund"
           n == attempts[r] + 1
<1>1. Tried(p, rec[r], n, dbErrors'[r], status)
  BY TriedFacts, AttemptsAssumption DEF Tried, GiveUp
<1>2. pc' = [pc EXCEPT ![r] = p] /\ attempts' = [attempts EXCEPT ![r] = n]
  BY DEF TryFailed, Goto
<1> QED
  BY <1>1, <1>2, TriedFacts, TriedFrame

(* The steps of a request before its refund *)
LEMMA TriedForward ==
  ASSUME TypeOK, TriedOK, NEW r \in Requests,
         PreConsume(r) \/ Reserve(r) \/ Settle(r) \/ Fail(r) \/ Crash(r) \/ Cleanup(r)
  PROVE  TriedOK'
<1>1. CASE PreConsume(r)
  <2>1. UNCHANGED <<status, attempts>> /\ pc[r] = "start" /\ (DbOk \/ DbError(r))
    BY <1>1 DEF PreConsume
  <2>2. ASSUME NEW a \in Amounts, NEW s \in Subs, Goto(r, "open"),
               rec' = [rec EXCEPT ![r] = [status |-> "consumed", sub |-> s, amount |-> a]]
        PROVE  TriedOK'
    <3> DEFINE c == [status |-> "consumed", sub |-> s, amount |-> a]
    <3>1. Tried("open", c, attempts[r], dbErrors'[r], status)
      BY <2>1, TriedFacts DEF Tried
    <3> QED
      BY <2>1, <2>2, <3>1, TriedFacts, TriedFrame DEF Goto
  <2>3. CASE Goto(r, "failed") /\ UNCHANGED rec
    <3>1. Tried("failed", rec[r], attempts[r], dbErrors'[r], status)
      BY <2>1, TriedFacts DEF Tried
    <3> QED
      BY <2>1, <2>3, <3>1, TriedFacts, TriedFrame DEF Goto
  <2> QED
    BY <1>1, <2>2, <2>3, Zenon DEF PreConsume
<1>2. CASE Reserve(r)
  <2>1. pc[r] = "open" /\ UNCHANGED <<rec, attempts, status>> /\ (DbOk \/ DbError(r))
    BY <1>2 DEF Reserve
  <2>2. Goto(r, "open") \/ Goto(r, "refund")
    <3>1. UNCHANGED pc \/ Goto(r, "refund")
      BY <1>2 DEF Reserve
    <3> QED
      BY <2>1, <3>1 DEF Goto, TypeOK
  <2> QED
    BY <2>1, <2>2, TriedMove
<1>3. CASE Settle(r) \/ Fail(r) \/ Crash(r)
  BY <1>3, TriedMove DEF Settle, Fail, Crash, DbOk
<1>4. CASE Cleanup(r)
  <2>1. Tried(pc[r], NoRecord, attempts[r], dbErrors'[r], status)
    BY <1>4, TriedFacts DEF Tried, NoRecord, Cleanup, Finished
  <2>2. pc' = [pc EXCEPT ![r] = pc[r]] /\ rec' = [rec EXCEPT ![r] = NoRecord]
    BY <1>4 DEF Cleanup, TypeOK
  <2>3. attempts' = [attempts EXCEPT ![r] = attempts[r]] /\ DbOk /\ UNCHANGED status
    BY <1>4 DEF Cleanup, DbOk, TypeOK
  <2> QED
    BY <2>1, <2>2, <2>3, TriedFrame
<1> QED
  BY <1>1, <1>2, <1>3, <1>4

(* The steps of the refund *)
LEMMA TriedRefund ==
  ASSUME Inv, TriedOK, NEW r \in Requests, RefundStep(r)
  PROVE  TriedOK'
<1>0. TypeOK /\ UNCHANGED status
  BY DEF Inv, RefundStep, RefundOuterBegin, RefundInner, RefundOuterCommit, RefundExtra
<1>1. CASE RefundOuterBegin(r)
  <2>1. CASE rec[r].status = "refunded" /\ DbOk /\ Goto(r, "extra") /\ UNCHANGED attempts
    <3>1. Tried("extra", rec[r], attempts[r], dbErrors'[r], status)
      BY <1>0, <2>1, TriedFacts DEF Tried
    <3>2. UNCHANGED rec /\ pc' = [pc EXCEPT ![r] = "extra"]
      BY <1>1, <2>1 DEF Goto, RefundOuterBegin
    <3>3. rec' = [rec EXCEPT ![r] = rec[r]] /\ attempts' = [attempts EXCEPT ![r] = attempts[r]]
      BY <1>0, <2>1, <3>2, TriedFacts
    <3>4. (DbOk \/ DbError(r)) /\ TypeOK /\ UNCHANGED status
      BY <1>0, <2>1
    <3> QED
      BY ONLY TriedOK, <3>1, <3>2, <3>3, <3>4, r \in Requests, TriedFrame
  <2> QED
    BY <1>0, <1>1, <2>1, TriedMove, TriedFailed DEF RefundOuterBegin
<1>2. CASE RefundInner(r)
  <2>1. CASE ~CanApply(rec[r].sub, -rec[r].amount) /\ DbOk /\ TryFailed(r)
    <3>1. rec[r].status = "consumed" => status[rec[r].sub] = "deleted"
      BY <1>0, <2>1, TriedFacts, RefundRefused DEF Tried, Records
    <3> QED
      BY <1>0, <1>2, <2>1, <3>1, TriedFailed DEF RefundInner
  <2> QED
    BY <1>0, <1>2, <2>1, TriedMove, TriedFailed DEF RefundInner
<1>3. CASE RefundOuterCommit(r)
  <2>1. CASE DbOk /\ rec' = [rec EXCEPT ![r].status = "refunded"] /\ Goto(r, "extra") /\ UNCHANGED attempts
    <3> DEFINE c == [rec[r] EXCEPT !.status = "refunded"]
    <3>1. Tried("extra", c, attempts[r], dbErrors'[r], status)
      BY <1>0, <2>1, TriedFacts DEF Tried, Records
    <3> QED
      BY <1>0, <2>1, <3>1, TriedFacts, TriedFrame DEF Goto
  <2> QED
    BY <1>0, <1>3, <2>1, TriedFailed DEF RefundOuterCommit
<1>4. CASE RefundExtra(r)
  <2>1. Tried("failed", rec[r], attempts[r], dbErrors'[r], status)
    BY <1>0, <1>4, TriedFacts DEF Tried, RefundExtra
  <2> QED
    BY <1>0, <1>4, <2>1, TriedFacts, TriedFrame DEF Goto, RefundExtra
<1> QED
  BY <1>1, <1>2, <1>3, <1>4 DEF RefundStep

(* A record that still says consumed after a refund means that every try met  *)
(* a failing call, or that the subscription was deleted.                      *)
THEOREM RefundsRecorded == Spec => []RefundRecorded
<1>1. Init => TriedOK
  BY DEF Init, TriedOK, Tried, NoRecord
<1>2. Inv /\ TriedOK /\ [Next]_vars => TriedOK'
  <2> SUFFICES ASSUME Inv, TriedOK, [Next]_vars PROVE TriedOK'
    OBVIOUS
  <2>0. TypeOK
    BY DEF Inv
  <2>1. ASSUME NEW s \in Subs, PeriodEnds(s) \/ ResetDue(s) \/ AdminReset(s) \/ EndSubscription(s)
        PROVE  TriedOK'
    <3>1. UNCHANGED <<pc, rec, attempts, dbErrors>>
      BY <2>1 DEF PeriodEnds, ResetDue, AdminReset, EndSubscription
    <3>2. \A x \in Subs : status[x] = "deleted" => status'[x] = "deleted"
      <4>1. CASE EndSubscription(s)
        BY <2>0, <4>1 DEF EndSubscription, Active, TypeOK
      <4>2. CASE UNCHANGED status
        BY <4>2
      <4> QED
        BY <2>1, <4>1, <4>2 DEF PeriodEnds, ResetDue, AdminReset
    <3> QED
      BY <3>1, <3>2 DEF TriedOK, Tried
  <2>2. CASE UNCHANGED vars
    BY <2>2 DEF vars, TriedOK
  <2> QED
    BY <2>0, <2>1, <2>2, TriedForward, TriedRefund DEF Next, Done
<1>3. Inv /\ TriedOK => RefundRecorded
  <2> SUFFICES ASSUME Inv, TriedOK, NEW r \in Requests, pc[r] = "failed",
                      dbErrors[r] < MaxAttempts, rec[r].status = "consumed"
               PROVE  status[rec[r].sub] = "deleted"
    BY DEF RefundRecorded
  <2> QED
    BY TriedFacts, AttemptsAssumption DEF Tried, Inv
<1> QED
  BY <1>1, <1>2, <1>3, InitInv, NextInv, PTL DEF Spec
-----------------------------------------------------------------------------
(* Sums over sets of requests.  g holds the sum of f over every subset of S, *)
(* taken in the order in which MapThenSumSet takes it.                       *)

First(T) == CHOOSE x \in T : TRUE
Sums(g, f, S) ==
  \A T \in SUBSET S : g[T] = IF T = {} THEN 0 ELSE f[First(T)] + g[T \ {First(T)}]

(* A non-empty set of natural numbers has a least element. *)
LEMMA Least ==
  ASSUME NEW T \in SUBSET Nat, T # {}
  PROVE  \E x \in T : \A y \in T : x <= y
<1> DEFINE R == {p \in Nat \X Nat : p[1] < p[2]}
<1>1. IsWellFoundedOn(R, Nat)
  BY NatLessThanWellFounded DEF OpToRel
<1> HIDE DEF R
<1>2. PICK x \in T : \A y \in T : ~ (<<y, x>> \in R)
  BY <1>1, WFMin
<1>3. \A y \in T : ~(y < x)
  BY <1>2 DEF R
<1> QED
  BY <1>3

(* A family of subsets that holds every subset whose first element can be     *)
(* taken away holds them all.                                                 *)
LEMMA SubsetByFirst ==
  ASSUME NEW S, IsFiniteSet(S), NEW H \in SUBSET (SUBSET S),
         \A T \in SUBSET S : (T # {} => T \ {First(T)} \in H) => T \in H
  PROVE  S \in H
<1> DEFINE B == (SUBSET S) \ H
           N == {Cardinality(T) : T \in B}
<1>1. SUFFICES ASSUME S \notin H PROVE FALSE
  OBVIOUS
<1>2. \A T \in B : IsFiniteSet(T) /\ Cardinality(T) \in Nat
  BY FS_Subset, FS_CardinalityType
<1>3. N \in SUBSET Nat /\ N # {}
  BY <1>1, <1>2
<1>4. PICK k \in N : \A n \in N : k <= n
  <2> HIDE DEF N
  <2> QED
    BY <1>3, Least
<1>5. PICK T \in B : k = Cardinality(T)
  BY <1>4
<1>6. T # {} /\ T \ {First(T)} \in B
  BY <1>5
<1>7. First(T) \in T
  BY <1>6 DEF First
<1>8. Cardinality(T \ {First(T)}) = k - 1
  BY <1>2, <1>5, <1>7, FS_RemoveElement
<1>9. k <= k - 1
  BY <1>4, <1>6, <1>8
<1> QED
  BY <1>3, <1>4, <1>9

(* Zeros sum to zero. *)
LEMMA SumsZero ==
  ASSUME NEW S, NEW f, \A x \in S : f[x] = 0
  PROVE  \E g : Sums(g, f, S) /\ g[S] = 0
<1> DEFINE g == [T \in SUBSET S |-> 0]
<1>1. ASSUME NEW T \in SUBSET S PROVE g[T] = IF T = {} THEN 0 ELSE f[First(T)] + g[T \ {First(T)}]
  <2>1. CASE T = {}
    BY <2>1
  <2>2. CASE T # {}
    <3>1. First(T) \in S /\ T \ {First(T)} \in SUBSET S
      BY <2>2 DEF First
    <3>2. f[First(T)] = 0 /\ g[T \ {First(T)}] = 0
      BY <3>1
    <3> QED
      BY <2>2, <3>2
  <2> QED
    BY <2>1, <2>2
<1>2. g[S] = 0
  OBVIOUS
<1> HIDE DEF g
<1> QED
  BY <1>1, <1>2 DEF Sums

(* The sums are integers, and of natural numbers none is more than the sum. *)
LEMMA SumsCover ==
  ASSUME NEW S, IsFiniteSet(S), NEW f, \A x \in S : f[x] \in Nat, NEW g, Sums(g, f, S)
  PROVE  g[S] \in Nat /\ \A x \in S : f[x] <= g[S]
<1> DEFINE H == {T \in SUBSET S : g[T] \in Nat /\ \A x \in T : f[x] <= g[T]}
<1>1. ASSUME NEW T \in SUBSET S, T # {} => T \ {First(T)} \in H PROVE T \in H
  <2>1. CASE T = {}
    BY <2>1 DEF Sums
  <2>2. CASE T # {}
    <3> DEFINE a == First(T)
               U == T \ {a}
    <3>1. a \in T /\ g[T] = f[a] + g[U]
      BY <2>2 DEF First, Sums
    <3>2. U \in H
      BY <1>1, <2>2
    <3> HIDE DEF a
    <3>3. f[a] \in Nat /\ g[U] \in Nat /\ \A x \in U : f[x] <= g[U]
      BY <3>1, <3>2
    <3>4. g[T] \in Nat
      BY <3>1, <3>3
    <3>5. ASSUME NEW x \in T PROVE f[x] <= g[T]
      <4>1. f[x] \in Nat /\ (x = a \/ f[x] <= g[U])
        BY <3>3
      <4> QED
        BY <3>1, <3>3, <4>1
    <3> QED
      BY <3>4, <3>5
  <2> QED
    BY <2>1, <2>2
<1>2. S \in H
  <2>1. H \in SUBSET (SUBSET S)
    OBVIOUS
  <2> HIDE DEF H
  <2> QED
    BY <1>1, <2>1, SubsetByFirst
<1> QED
  BY <1>2

(* h is f with the value of r changed by d *)
Changed(h, f, S, r, d) ==
  /\ r \in S /\ d \in Int /\ h[r] = f[r] + d
  /\ \A x \in S : f[x] \in Nat /\ (x # r => h[x] = f[x])

(* When one value changes by d, so does the sum. *)
LEMMA SumsChange ==
  ASSUME NEW S, IsFiniteSet(S), NEW f, NEW h, NEW d, NEW r, Changed(h, f, S, r, d), NEW g, Sums(g, f, S)
  PROVE  \E e : Sums(e, h, S) /\ e[S] = g[S] + d
<1> USE DEF Changed
<1> DEFINE e == [T \in SUBSET S |-> IF r \in T THEN g[T] + d ELSE g[T]]
<1>0. ASSUME NEW T \in SUBSET S PROVE g[T] \in Int
  <2>1. IsFiniteSet(T) /\ Sums(g, f, T) /\ \A x \in T : f[x] \in Nat
    <3>1. \A U \in SUBSET T : U \in SUBSET S
      OBVIOUS
    <3> QED
      BY <3>1, FS_Subset DEF Sums
  <2>2. g[T] \in Nat
    BY <2>1, SumsCover
  <2> QED
    BY <2>2
<1>1. ASSUME NEW T \in SUBSET S PROVE e[T] = IF T = {} THEN 0 ELSE h[First(T)] + e[T \ {First(T)}]
  <2>1. CASE T = {}
    BY <2>1 DEF Sums
  <2>2. CASE T # {}
    <3> DEFINE a == First(T)
               U == T \ {a}
    <3>1. a \in T /\ U \in SUBSET S /\ g[T] = f[a] + g[U]
      BY <2>2 DEF First, Sums
    <3>2. g[T] \in Int /\ g[U] \in Int /\ f[a] \in Int
      BY <1>0, <3>1
    <3> HIDE DEF a
    <3>3. CASE a = r
      <4>1. e[T] = g[T] + d /\ e[U] = g[U] /\ h[a] = f[a] + d
        BY <3>1, <3>3
      <4>2. e[T] = h[a] + e[U]
        BY <3>1, <3>2, <4>1
      <4> QED
        BY <2>2, <4>2 DEF a
    <3>4. CASE a # r
      <4>1. h[a] = f[a] /\ (r \in T <=> r \in U)
        BY <3>1, <3>4
      <4>2. (e[T] = g[T] + d /\ e[U] = g[U] + d) \/ (e[T] = g[T] /\ e[U] = g[U])
        BY <3>1, <4>1
      <4>3. e[T] = h[a] + e[U]
        BY <3>1, <3>2, <4>1, <4>2
      <4> QED
        BY <2>2, <4>3 DEF a
    <3> QED
      BY <3>3, <3>4
  <2> QED
    BY <2>1, <2>2
<1>2. e[S] = g[S] + d
  OBVIOUS
<1> HIDE DEF e
<1> QED
  BY <1>1, <1>2 DEF Sums

(* There is only one sum. *)
LEMMA SumsUnique ==
  ASSUME NEW S, IsFiniteSet(S), NEW f, NEW g, Sums(g, f, S), NEW e, Sums(e, f, S)
  PROVE  g[S] = e[S]
<1> DEFINE H == {T \in SUBSET S : g[T] = e[T]}
<1>1. ASSUME NEW T \in SUBSET S, T # {} => T \ {First(T)} \in H PROVE T \in H
  BY <1>1 DEF Sums
<1>2. S \in H
  <2>1. H \in SUBSET (SUBSET S)
    OBVIOUS
  <2> HIDE DEF H
  <2> QED
    BY <1>1, <2>1, SubsetByFirst
<1> QED
  BY <1>2

(* What each request owes to s *)
Owings(s) == [r \in Requests |-> Owed(r, s)]

(* UsedCoversRequests takes the sum of what is owed. *)
LEMMA SumIsTaken ==
  ASSUME NEW s, NEW g, Sums(g, Owings(s), Requests)
  PROVE  MapThenSumSet(LAMBDA r : Owed(r, s), Requests) = g[Requests]
<1> DEFINE P(e) == e = [T \in SUBSET Requests |->
                          IF T = {} THEN 0
                          ELSE LET x == CHOOSE x \in T : TRUE IN Owed(x, s) + e[T \ {x}]]
           sum == CHOOSE e : P(e)
<1>1. MapThenSumSet(LAMBDA r : Owed(r, s), Requests) = sum[Requests]
  BY DEF MapThenSumSet, MapThenFoldSet
<1> HIDE DEF P
<1>2. \E e : P(e)
  <2> DEFINE e == [T \in SUBSET Requests |-> g[T]]
  <2>1. ASSUME NEW T \in SUBSET Requests, T # {}
        PROVE  /\ First(T) \in Requests /\ T \ {First(T)} \in SUBSET Requests
               /\ g[T] = Owed(First(T), s) + e[T \ {First(T)}]
    <3>1. First(T) \in Requests /\ T \ {First(T)} \in SUBSET Requests
      BY <2>1 DEF First
    <3>2. g[T] = Owings(s)[First(T)] + g[T \ {First(T)}]
      BY <2>1 DEF Sums
    <3> QED
      BY <3>1, <3>2 DEF Owings
  <2>2. g[{}] = 0
    BY DEF Sums
  <2>3. \A T \in SUBSET Requests : e[T] = IF T = {} THEN 0 ELSE Owed(First(T), s) + e[T \ {First(T)}]
    BY <2>1, <2>2
  <2>4. e = [T \in SUBSET Requests |-> e[T]]
    OBVIOUS
  <2> HIDE DEF e
  <2>5. e = [T \in SUBSET Requests |-> IF T = {} THEN 0 ELSE Owed(First(T), s) + e[T \ {First(T)}]]
    BY <2>3, <2>4
  <2> QED
    BY <2>5 DEF P, First
<1>3. P(sum)
  BY <1>2
<1> HIDE DEF sum
<1>4. Sums(sum, Owings(s), Requests)
  <2>1. ASSUME NEW T \in SUBSET Requests
        PROVE  sum[T] = IF T = {} THEN 0 ELSE Owings(s)[First(T)] + sum[T \ {First(T)}]
    <3>1. sum[T] = IF T = {} THEN 0 ELSE Owed(First(T), s) + sum[T \ {First(T)}]
      BY <1>3 DEF P, First
    <3>2. T # {} => First(T) \in Requests
      BY DEF First
    <3> QED
      BY <3>1, <3>2 DEF Owings
  <2> QED
    BY <2>1 DEF Sums
<1> QED
  BY <1>1, <1>4, RequestsAssumption, SumsUnique

-----------------------------------------------------------------------------
(* What was used covers the requests. Until its refund has ended a request    *)
(* has the funding its record says, and gives it back once.                   *)

Holding == {"open", "refund", "inner", "outer", "extra"}
Funded(r) ==
  /\ pc[r] = "start" => req[r].sub = 0
  /\ pc[r] \in Holding => req[r].sub \in Subs
  /\ pc[r] \in {"open", "refund", "inner", "outer"} =>
       rec[r].sub = req[r].sub /\ rec[r].amount = req[r].pre
  /\ pc[r] \in {"open", "refund", "inner"} => rec[r].status = "consumed"
  /\ pc[r] \in NotYet => refunds[r] = 0
FundedOK == \A r \in Requests : Funded(r)

(* One subscription covers what its requests owe *)
Covers(s) ==
  \E g : /\ Sums(g, Owings(s), Requests)
         /\ used[s] >= g[Requests] /\ (NothingFailed => used[s] = g[Requests])
CoversOK == resets = 0 => \A s \in Subs : ~due[s] /\ Covers(s)

(* What is owed is a natural number, and of an open request what it holds. *)
LEMMA OwedIs ==
  ASSUME TypeOK, NEW r \in Requests, NEW s
  PROVE  Owed(r, s) \in Nat /\ Owings(s)[r] = Owed(r, s)
<1>1. req[r] \in Fundings
  BY DEF TypeOK, Fundings
<1>2. req[r].pre \in Nat /\ req[r].extra \in Nat /\ req[r].cost \in Nat
  BY <1>1 DEF Fundings
<1> QED
  BY <1>2 DEF Owed, PreConsumed, Owings

(* A subscription has used at least what each of its requests owes. *)
LEMMA OwedIsUsed ==
  ASSUME TypeOK, CoversOK, resets = 0, NEW r \in Requests, NEW s \in Subs
  PROVE  Owed(r, s) <= used[s]
<1>1. PICK g : Sums(g, Owings(s), Requests) /\ used[s] >= g[Requests]
  BY DEF CoversOK, Covers
<1>2. \A x \in Requests : Owings(s)[x] \in Nat
  BY OwedIs
<1>3. g[Requests] \in Nat /\ Owings(s)[r] <= g[Requests]
  BY <1>1, <1>2, RequestsAssumption, SumsCover
<1> QED
  BY <1>1, <1>3, OwedIs DEF TypeOK

(* A step of one request changes the used amount by what it owes more or     *)
(* less, or something has failed and the used amount is higher.              *)
Balanced(r, s) ==
  /\ used'[s] >= used[s] + (Owed(r, s)' - Owed(r, s))
  /\ NothingFailed' => NothingFailed /\ used'[s] = used[s] + (Owed(r, s)' - Owed(r, s))

(* The other requests stay as they are *)
Apart(r) ==
  \A q \in Requests \ {r} : pc'[q] = pc[q] /\ req'[q] = req[q] /\ refunds'[q] = refunds[q]

(* A step that is balanced for the one request it serves, and touches no     *)
(* other, keeps the used amounts covering what the requests owe.              *)
LEMMA BalancedCovers ==
  ASSUME TypeOK, TypeOK', NEW r \in Requests, NEW s \in Subs, Covers(s), Apart(r), Balanced(r, s)
  PROVE  Covers(s)'
<1> DEFINE f == Owings(s)
           h == Owings(s)'
           d == Owed(r, s)' - Owed(r, s)
<1>1. PICK g : /\ Sums(g, f, Requests)
               /\ used[s] >= g[Requests] /\ (NothingFailed => used[s] = g[Requests])
  BY DEF Covers
<1>2. \A x \in Requests : f[x] \in Nat /\ f[x] = Owed(x, s)
  BY OwedIs
<1>3. Owed(r, s)' \in Nat /\ h[r] = Owed(r, s)'
  <2>1. req'[r] \in Fundings
    BY DEF TypeOK, Fundings
  <2>2. req'[r].pre \in Nat /\ req'[r].extra \in Nat /\ req'[r].cost \in Nat
    BY <2>1 DEF Fundings
  <2> QED
    BY <2>2 DEF Owed, PreConsumed, Owings
<1>4. d \in Int /\ h[r] = f[r] + d
  BY <1>2, <1>3
<1>5. ASSUME NEW x \in Requests \ {r} PROVE h[x] = f[x]
  <2>1. pc'[x] = pc[x] /\ req'[x] = req[x] /\ refunds'[x] = refunds[x]
    BY DEF Apart
  <2>2. Owed(x, s)' = Owed(x, s)
    BY <2>1 DEF Owed, PreConsumed
  <2> QED
    BY <2>2 DEF Owings
<1>6. g[Requests] \in Nat
  BY <1>1, <1>2, RequestsAssumption, SumsCover
<1>7. used'[s] >= used[s] + d /\ (NothingFailed' => NothingFailed /\ used'[s] = used[s] + d)
  BY DEF Balanced
<1> HIDE DEF f, h, d
<1>8. PICK e : Sums(e, h, Requests) /\ e[Requests] = g[Requests] + d
  <2>1. Changed(h, f, Requests, r, d)
    BY <1>2, <1>4, <1>5 DEF Changed
  <2> QED
    BY ONLY <1>1, <2>1, RequestsAssumption, SumsChange
<1>9. used[s] \in Nat /\ used'[s] \in Nat
  BY DEF TypeOK
<1>10. used'[s] >= e[Requests] /\ (NothingFailed' => used'[s] = e[Requests])
  BY <1>1, <1>4, <1>6, <1>7, <1>8, <1>9
<1> QED
  BY <1>8, <1>10 DEF Covers, h

(* A step of r that is balanced keeps everything covered. *)
LEMMA CoversStep ==
  ASSUME TypeOK, TypeOK', CoversOK, NEW r \in Requests, Apart(r), UNCHANGED resets,
         resets = 0 => \A s \in Subs : ~due'[s] /\ Balanced(r, s)
  PROVE  CoversOK'
<1> SUFFICES ASSUME resets' = 0, NEW s \in Subs PROVE ~due'[s] /\ Covers(s)'
  BY DEF CoversOK
<1>1. resets = 0
  OBVIOUS
<1>2. Covers(s)
  BY <1>1 DEF CoversOK
<1> QED
  BY <1>1, <1>2, BalancedCovers

(* A step of r that leaves r in order keeps the others in order. *)
LEMMA FundedStep ==
  ASSUME FundedOK, NEW r \in Requests, Apart(r), \A q \in Requests \ {r} : rec'[q] = rec[q], Funded(r)'
  PROVE  FundedOK'
<1> SUFFICES ASSUME NEW q \in Requests PROVE Funded(q)'
  BY DEF FundedOK
<1>1. CASE q # r
  <2>1. pc'[q] = pc[q] /\ req'[q] = req[q] /\ refunds'[q] = refunds[q] /\ rec'[q] = rec[q]
    BY <1>1 DEF Apart
  <2>2. Funded(q)
    BY DEF FundedOK
  <2> QED
    BY <2>1, <2>2 DEF Funded
<1> QED
  BY <1>1

(* What has failed stays failed, and a failing call is a failure. *)
LEMMA Failing ==
  ASSUME TypeOK, NEW r \in Requests, DbOk \/ DbError(r), Apart(r), pc[r] # "lost", UNCHANGED status
  PROVE  (NothingFailed' => NothingFailed) /\ (DbError(r) => ~NothingFailed')
<1>1. dbErrors \in [Requests -> 0..MaxDbErrors]
  BY DEF TypeOK
<1>2. \A q \in Requests : dbErrors[q] \in Nat /\ dbErrors'[q] >= dbErrors[q]
  BY <1>1, AttemptsAssumption DEF DbOk, DbError
<1>3. DbError(r) => dbErrors'[r] # 0
  BY <1>1, AttemptsAssumption DEF DbError
<1>4. NothingFailed' => \A q \in Requests : dbErrors[q] = 0
  BY <1>2 DEF NothingFailed
<1>5. NothingFailed' => \A q \in Requests : pc[q] # "lost"
  BY DEF NothingFailed, Apart
<1> QED
  BY <1>3, <1>4, <1>5 DEF NothingFailed

(* A delta that does not take more than is used is added as it is. *)
LEMMA Applied ==
  ASSUME TypeOK, NEW s \in Subs, NEW d \in Int, Apply(s, d), 0 <= used[s] + d
  PROVE  \A x \in Subs : used'[x] = used[x] + (IF x = s THEN d ELSE 0)
<1>1. used \in [Subs -> Nat]
  BY DEF TypeOK
<1>2. After(s, d) = used[s] + d
  BY <1>1 DEF After
<1>3. used' = [used EXCEPT ![s] = used[s] + d]
  BY <1>2 DEF Apply
<1> QED
  BY <1>1, <1>3

(* What is known of a request that moves *)
LEMMA FundedFacts ==
  ASSUME TypeOK, FundedOK, NEW r \in Requests
  PROVE  /\ Funded(r) /\ req[r] \in Fundings
         /\ req[r].pre \in Nat /\ req[r].extra \in Nat /\ req[r].cost \in Nat
         /\ PreConsumed(r) = req[r].pre + req[r].extra /\ PreConsumed(r) \in Nat
         /\ \A s \in Subs : s # 0 /\ used[s] \in Nat
<1>1. Funded(r) /\ req[r] \in Fundings
  BY DEF FundedOK, TypeOK, Fundings
<1>2. req[r].pre \in Nat /\ req[r].extra \in Nat /\ req[r].cost \in Nat
  BY <1>1 DEF Fundings
<1>3. \A s \in Subs : s # 0 /\ used[s] \in Nat
  BY SubsAssumption DEF TypeOK
<1> QED
  BY <1>1, <1>2, <1>3 DEF PreConsumed

(* The funding and the place of r change, those of the others do not. *)
LEMMA OneMoves ==
  ASSUME TypeOK, NEW r \in Requests, NEW p, pc' = [pc EXCEPT ![r] = p], UNCHANGED <<req, refunds>>
  PROVE  Apart(r) /\ pc'[r] = p
  BY DEF TypeOK, Apart

(* A request takes its quota from a subscription. *)
LEMMA PreConsumeCovers ==
  ASSUME TypeOK, TypeOK', FundedOK, CoversOK, NEW r \in Requests, PreConsume(r)
  PROVE  FundedOK' /\ CoversOK'
<1>0. /\ pc[r] = "start" /\ UNCHANGED <<status, attempts, resets, refunds>> /\ (DbOk \/ DbError(r))
  BY DEF PreConsume
<1>1. /\ req[r].sub = 0 /\ refunds[r] = 0 /\ (\A x \in Subs : x # 0 /\ used[x] \in Nat)
  BY <1>0, FundedFacts DEF Funded, NotYet
<1>2. \A x \in Subs : Owed(r, x) = 0
  BY <1>1 DEF Owed
<1>3. PICK a \in Amounts :
        \/ \E s \in Subs :
             /\ used' = [x \in Subs |->
                           IF x = s THEN UsedNow(s) + a
                           ELSE IF x \in {y \in Subs : Active(y) /\ y <= s} THEN UsedNow(x) ELSE used[x]]
             /\ due' = [x \in Subs |-> due[x] /\ x \notin {y \in Subs : Active(y) /\ y <= s}]
             /\ rec' = [rec EXCEPT ![r] = [status |-> "consumed", sub |-> s, amount |-> a]]
             /\ req' = [req EXCEPT ![r] = [NoFunding EXCEPT !.sub = s, !.pre = a]]
             /\ Goto(r, "open")
        \/ Goto(r, "failed") /\ UNCHANGED <<used, due, rec, req>>
  BY Zenon DEF PreConsume
<1>4. CASE Goto(r, "failed") /\ UNCHANGED <<used, due, rec, req>>
  <2>1. Apart(r) /\ pc'[r] = "failed"
    BY <1>0, <1>4, OneMoves DEF Goto
  <2>2. Funded(r)'
    BY <2>1 DEF Funded, Holding, NotYet
  <2>3. FundedOK'
    BY <1>4, <2>1, <2>2, FundedStep
  <2>4. ASSUME NEW x \in Subs PROVE Balanced(r, x)
    <3>1. Owed(r, x)' = 0
      BY <2>1 DEF Owed
    <3> QED
      BY <1>0, <1>1, <1>2, <1>4, <2>1, <3>1, Failing DEF Balanced
  <2>5. CoversOK'
    BY <1>0, <1>4, <2>1, <2>4, CoversStep DEF CoversOK
  <2> QED
    BY <2>3, <2>5
<1>5. ASSUME NEW s \in Subs,
             used' = [x \in Subs |->
                        IF x = s THEN UsedNow(s) + a
                        ELSE IF x \in {y \in Subs : Active(y) /\ y <= s} THEN UsedNow(x) ELSE used[x]],
             due' = [x \in Subs |-> due[x] /\ x \notin {y \in Subs : Active(y) /\ y <= s}],
             rec' = [rec EXCEPT ![r] = [status |-> "consumed", sub |-> s, amount |-> a]],
             req' = [req EXCEPT ![r] = [NoFunding EXCEPT !.sub = s, !.pre = a]],
             Goto(r, "open")
      PROVE FundedOK' /\ CoversOK'
  <2> DEFINE n == [NoFunding EXCEPT !.sub = s, !.pre = a]
             c == [status |-> "consumed", sub |-> s, amount |-> a]
  <2>1. n.sub = s /\ n.pre = a /\ n.extra = 0 /\ c.status = "consumed" /\ c.sub = s /\ c.amount = a
    BY DEF NoFunding
  <2>2. req' = [req EXCEPT ![r] = n] /\ rec' = [rec EXCEPT ![r] = c] /\ pc' = [pc EXCEPT ![r] = "open"]
    BY <1>5 DEF Goto
  <2> HIDE DEF n, c
  <2>3. /\ req'[r] = n /\ rec'[r] = c /\ pc'[r] = "open"
        /\ \A q \in Requests \ {r} : req'[q] = req[q] /\ rec'[q] = rec[q] /\ pc'[q] = pc[q]
    BY <2>2 DEF TypeOK
  <2>4. Apart(r) /\ refunds'[r] = 0
    BY <1>0, <1>1, <2>3 DEF Apart
  <2>5. Funded(r)'
    BY <2>1, <2>3, <2>4, <1>5 DEF Funded, Holding, NotYet
  <2>6. FundedOK'
    BY <2>3, <2>4, <2>5, FundedStep
  <2>7. a \in Nat
    BY AmountsAssumption
  <2>8. ASSUME resets = 0, NEW x \in Subs PROVE ~due'[x] /\ Balanced(r, x)
    <3>1. \A y \in Subs : ~due[y] /\ UsedNow(y) = used[y]
      BY <2>8 DEF CoversOK, UsedNow
    <3>2. used'[x] = used[x] + (IF x = s THEN a ELSE 0)
      BY <1>1, <1>5, <2>7, <3>1
    <3>3. Owed(r, x)' = IF x = s THEN a ELSE 0
      BY <2>1, <2>3, <2>4, <2>7 DEF Owed, PreConsumed
    <3>4. ~due'[x]
      BY <1>5, <3>1
    <3> QED
      BY <1>0, <1>1, <1>2, <2>4, <2>7, <3>2, <3>3, <3>4, Failing DEF Balanced
  <2>9. CoversOK'
    BY <1>0, <2>4, <2>8, CoversStep
  <2> QED
    BY <2>6, <2>9
<1> QED
  BY <1>3, <1>4, <1>5, Zenon

(* Reserve adds to the funding what it adds to the used amount. *)
LEMMA ReserveCovers ==
  ASSUME TypeOK, TypeOK', FundedOK, CoversOK, NEW r \in Requests, Reserve(r)
  PROVE  FundedOK' /\ CoversOK'
<1> DEFINE u == req[r].sub
<1>0. /\ pc[r] = "open" /\ UNCHANGED <<status, due, rec, attempts, resets, refunds>> /\ (DbOk \/ DbError(r))
  BY DEF Reserve
<1>1. /\ u \in Subs /\ refunds[r] = 0 /\ rec[r].sub = u /\ rec[r].amount = req[r].pre
      /\ rec[r].status = "consumed"
      /\ req[r] \in Fundings /\ req[r].pre \in Nat /\ req[r].extra \in Nat
      /\ PreConsumed(r) = req[r].pre + req[r].extra /\ PreConsumed(r) \in Nat
      /\ \A s \in Subs : used[s] \in Nat
  BY <1>0, FundedFacts DEF Funded, NotYet, Holding
<1>2. \A x \in Subs : Owed(r, x) = IF x = u THEN PreConsumed(r) ELSE 0
  BY <1>0, <1>1 DEF Owed
<1>3. PICK target \in Amounts :
        LET d == target - PreConsumed(r) IN
        /\ d > 0
        /\ \/ Apply(u, d) /\ req' = [req EXCEPT ![r].extra = @ + d] /\ UNCHANGED pc
           \/ Goto(r, "refund") /\ UNCHANGED <<used, req>>
  BY DEF Reserve
<1> DEFINE d == target - PreConsumed(r)
<1>4. CASE Goto(r, "refund") /\ UNCHANGED <<used, req>>
  <2>1. Apart(r) /\ pc'[r] = "refund"
    BY <1>0, <1>4, OneMoves DEF Goto
  <2>2. Funded(r)'
    BY <1>0, <1>1, <1>4, <2>1 DEF Funded, Holding, NotYet
  <2>3. FundedOK'
    BY <1>0, <2>1, <2>2, FundedStep
  <2>4. ASSUME NEW x \in Subs PROVE Balanced(r, x)
    <3>1. Owed(r, x)' = Owed(r, x) /\ Owed(r, x) \in Nat
      BY <1>0, <1>1, <1>2, <1>4, <2>1 DEF Owed, PreConsumed
    <3> QED
      BY <1>0, <1>1, <1>4, <2>1, <3>1, Failing DEF Balanced
  <2>5. CoversOK'
    BY <1>0, <2>1, <2>4, CoversStep DEF CoversOK
  <2> QED
    BY <2>3, <2>5
<1>5. CASE d > 0 /\ Apply(u, d) /\ req' = [req EXCEPT ![r].extra = @ + d] /\ UNCHANGED pc
  <2>1. d \in Nat
    BY <1>1, <1>5, AmountsAssumption
  <2> DEFINE n == [req[r] EXCEPT !.extra = req[r].extra + d]
  <2> HIDE DEF d
  <2>2. n.sub = u /\ n.pre = req[r].pre /\ n.extra = req[r].extra + d
    BY <1>1 DEF Fundings
  <2>3. req' = [req EXCEPT ![r] = n]
    BY <1>5
  <2> HIDE DEF n
  <2>4. req'[r] = n /\ \A q \in Requests \ {r} : req'[q] = req[q]
    BY <2>3 DEF TypeOK
  <2>5. Apart(r)
    BY <1>0, <1>5, <2>4 DEF Apart
  <2>6. Funded(r)'
    BY <1>0, <1>1, <1>5, <2>2, <2>4 DEF Funded, Holding, NotYet
  <2>7. FundedOK'
    BY <1>0, <2>5, <2>6, FundedStep
  <2>8. \A x \in Subs : used'[x] = used[x] + (IF x = u THEN d ELSE 0)
    BY <1>1, <1>5, <2>1, Applied
  <2>9. ASSUME NEW x \in Subs PROVE Balanced(r, x)
    <3>1. Owed(r, x)' = IF x = u THEN PreConsumed(r) + d ELSE 0
      BY <1>0, <1>1, <1>5, <2>1, <2>2, <2>4 DEF Owed, PreConsumed
    <3> QED
      BY <1>0, <1>1, <1>2, <2>1, <2>5, <2>8, <3>1, Failing DEF Balanced
  <2>10. CoversOK'
    BY <1>0, <2>5, <2>9, CoversStep DEF CoversOK
  <2> QED
    BY <2>7, <2>10
<1> QED
  BY <1>3, <1>4, <1>5

(* Settle makes the used amount what the request costs, or leaves both. *)
LEMMA SettleCovers ==
  ASSUME TypeOK, TypeOK', FundedOK, CoversOK, NEW r \in Requests, Settle(r)
  PROVE  FundedOK' /\ CoversOK'
<1> DEFINE u == req[r].sub
<1>0. /\ pc[r] = "open" /\ UNCHANGED <<status, due, rec, attempts, resets, refunds>> /\ (DbOk \/ DbError(r))
      /\ Goto(r, "served")
  BY DEF Settle
<1>1. /\ u \in Subs /\ refunds[r] = 0 /\ req[r] \in Fundings
      /\ PreConsumed(r) = req[r].pre + req[r].extra /\ PreConsumed(r) \in Nat
      /\ \A s \in Subs : used[s] \in Nat
  BY <1>0, FundedFacts DEF Funded, NotYet, Holding
<1>2. \A x \in Subs : Owed(r, x) = IF x = u THEN PreConsumed(r) ELSE 0
  BY <1>0, <1>1 DEF Owed
<1>3. PICK cost \in Nat :
        /\ req' = [req EXCEPT ![r].cost = cost]
        /\ \/ cost = PreConsumed(r) /\ UNCHANGED used
           \/ Apply(u, cost - PreConsumed(r))
  <2>1. PICK actual \in Amounts \cup {0} :
          \/ /\ IF SettleDelta(r, actual) = 0 THEN UNCHANGED used ELSE Apply(u, SettleDelta(r, actual))
             /\ req' = [req EXCEPT ![r].cost = actual]
          \/ req' = [req EXCEPT ![r].cost = PreConsumed(r)] /\ UNCHANGED used
    BY DEF Settle
  <2>2. actual \in Nat /\ (SettleDelta(r, actual) = 0 => actual = PreConsumed(r))
    BY <1>1, AmountsAssumption DEF SettleDelta
  <2> QED
    BY <1>1, <2>1, <2>2 DEF SettleDelta
<1> DEFINE n == [req[r] EXCEPT !.cost = cost]
<1>4. n.sub = u /\ n.cost = cost
  BY <1>1 DEF Fundings
<1>5. req' = [req EXCEPT ![r] = n] /\ pc' = [pc EXCEPT ![r] = "served"]
  BY <1>0, <1>3 DEF Goto
<1> HIDE DEF n
<1>6. req'[r] = n /\ pc'[r] = "served" /\ \A q \in Requests \ {r} : req'[q] = req[q] /\ pc'[q] = pc[q]
  BY <1>5 DEF TypeOK
<1>7. Apart(r)
  BY <1>0, <1>6 DEF Apart
<1>8. FundedOK'
  <2>1. Funded(r)'
    BY <1>6 DEF Funded, Holding, NotYet
  <2> QED
    BY <1>0, <1>7, <2>1, FundedStep
<1>9. ASSUME resets = 0, NEW x \in Subs PROVE Balanced(r, x)
  <2>1. Owed(r, x)' = IF x = u THEN cost ELSE 0
    BY <1>4, <1>6 DEF Owed
  <2>2. PreConsumed(r) <= used[u]
    BY <1>1, <1>2, <1>9, OwedIsUsed
  <2>3. used'[x] = used[x] + (IF x = u THEN cost - PreConsumed(r) ELSE 0)
    <3>1. CASE cost = PreConsumed(r) /\ UNCHANGED used
      BY <1>1, <3>1
    <3>2. CASE Apply(u, cost - PreConsumed(r))
      <4> DEFINE d == cost - PreConsumed(r)
      <4>1. d \in Int /\ 0 <= used[u] + d
        BY <1>1, <1>3, <2>2
      <4> HIDE DEF d
      <4>2. \A y \in Subs : used'[y] = used[y] + (IF y = u THEN d ELSE 0)
        BY <1>1, <3>2, <4>1, Applied DEF d
      <4> QED
        BY <4>2 DEF d
    <3> QED
      BY <1>3, <3>1, <3>2
  <2> QED
    BY <1>0, <1>1, <1>2, <1>3, <1>7, <2>1, <2>3, Failing DEF Balanced
<1>10. CoversOK'
  BY <1>0, <1>7, <1>9, CoversStep DEF CoversOK
<1> QED
  BY <1>8, <1>10

(* A step that moves r and leaves the funding and the used amount alone; what  *)
(* r owes may go down only with a failure.                                    *)
LEMMA MoveCovers ==
  ASSUME TypeOK, TypeOK', CoversOK, NEW r \in Requests, NEW p, Goto(r, p), pc[r] # "lost",
         DbOk \/ DbError(r), UNCHANGED <<used, due, status, req, refunds, resets>>,
         \A x \in Subs : /\ Owed(r, x)' <= Owed(r, x)
                         /\ Owed(r, x)' = Owed(r, x) \/ ~NothingFailed'
  PROVE  CoversOK'
<1>1. Apart(r)
  BY OneMoves DEF Goto
<1>2. ASSUME NEW x \in Subs PROVE Balanced(r, x)
  <2>1. Owed(r, x)' \in Nat
    <3>1. req'[r] \in Fundings
      BY DEF TypeOK, Fundings
    <3>2. req'[r].pre \in Nat /\ req'[r].extra \in Nat /\ req'[r].cost \in Nat
      BY <3>1 DEF Fundings
    <3> QED
      BY <3>2 DEF Owed, PreConsumed
  <2>2. Owed(r, x) \in Nat /\ used[x] \in Nat
    BY OwedIs DEF TypeOK
  <2> QED
    BY <1>1, <2>1, <2>2, Failing DEF Balanced
<1> QED
  BY <1>1, <1>2, CoversStep DEF CoversOK

(* A failing upstream, a crash, the clean-up of records. *)
LEMMA EndingCovers ==
  ASSUME TypeOK, TypeOK', FundedOK, CoversOK, NEW r \in Requests, Fail(r) \/ Crash(r) \/ Cleanup(r)
  PROVE  FundedOK' /\ CoversOK'
<1>0. UNCHANGED <<used, status, due, req, dbErrors, resets, refunds>>
  BY DEF Fail, Crash, Cleanup
<1>f. /\ Funded(r) /\ req[r].pre \in Nat /\ req[r].extra \in Nat
      /\ PreConsumed(r) = req[r].pre + req[r].extra
  BY FundedFacts
<1>1. CASE Fail(r)
  <2>1. pc[r] = "open" /\ Goto(r, "refund") /\ UNCHANGED rec
    BY <1>1 DEF Fail
  <2>2. Apart(r) /\ pc'[r] = "refund"
    BY <1>0, <2>1, OneMoves DEF Goto
  <2>3. Funded(r)'
    BY <1>0, <1>f, <2>1, <2>2 DEF Funded, Holding, NotYet
  <2>4. \A x \in Subs : Owed(r, x)' = Owed(r, x) /\ Owed(r, x) \in Nat
    BY <1>0, <1>f, <2>1, <2>2, OwedIs DEF Owed, PreConsumed, Funded, NotYet
  <2>5. CoversOK'
    BY <1>0, <2>1, <2>4, MoveCovers DEF DbOk
  <2> QED
    BY <2>1, <2>2, <2>3, <2>5, FundedStep
<1>2. CASE Crash(r)
  <2>1. pc[r] \in Holding /\ pc[r] # "lost" /\ Goto(r, "lost") /\ UNCHANGED rec
    BY <1>2 DEF Crash, Holding
  <2>2. Apart(r) /\ pc'[r] = "lost"
    BY <1>0, <2>1, OneMoves DEF Goto
  <2>3. Funded(r)'
    BY <2>2 DEF Funded, Holding, NotYet
  <2>4. \A x \in Subs : Owed(r, x)' = 0 /\ Owed(r, x) \in Nat
    BY <2>2, OwedIs DEF Owed
  <2>5. ~NothingFailed'
    BY <2>2 DEF NothingFailed
  <2>6. \A x \in Subs : /\ Owed(r, x)' <= Owed(r, x)
                        /\ Owed(r, x)' = Owed(r, x) \/ ~NothingFailed'
    BY <2>4, <2>5
  <2>7. CoversOK'
    BY <1>0, <2>1, <2>6, MoveCovers DEF DbOk
  <2> QED
    BY <2>1, <2>2, <2>3, <2>7, FundedStep
<1>3. CASE Cleanup(r)
  <2>1. Finished(r) /\ UNCHANGED pc /\ rec' = [rec EXCEPT ![r] = NoRecord]
    BY <1>3 DEF Cleanup
  <2>2. Apart(r) /\ \A q \in Requests \ {r} : rec'[q] = rec[q]
    BY <1>0, <2>1 DEF Apart, TypeOK
  <2>3. Funded(r)'
    BY <2>1 DEF Funded, Holding, NotYet, Finished
  <2>4. \A x \in Subs : Owed(r, x)' = Owed(r, x) /\ Owed(r, x) \in Nat /\ used[x] \in Nat
    BY <1>0, <2>1, OwedIs DEF Owed, PreConsumed, TypeOK
  <2>5. NothingFailed' = NothingFailed
    BY <1>0, <2>1 DEF NothingFailed
  <2>6. \A x \in Subs : Balanced(r, x)
    BY <1>0, <2>4, <2>5 DEF Balanced
  <2>7. CoversOK'
    BY <1>0, <2>2, <2>6, CoversStep DEF CoversOK
  <2> QED
    BY <2>2, <2>3, <2>7, FundedStep
<1> QED
  BY <1>1, <1>2, <1>3

(* A try that fails: what the request gives up on is a failure. *)
LEMMA TryFailedCovers ==
  ASSUME TypeOK, TypeOK', FundedOK, CoversOK, NEW r \in Requests, pc[r] \in {"refund", "inner"},
         TryFailed(r), DbOk \/ DbError(r), ~NothingFailed',
         UNCHANGED <<used, due, status, rec, req, refunds, resets>>
  PROVE  FundedOK' /\ CoversOK'
<1>1. PICK p \in {"refund", "extra"} : Goto(r, p)
  BY DEF TryFailed
<1>2. Apart(r) /\ pc'[r] = p
  BY <1>1, OneMoves DEF Goto
<1>3. /\ Funded(r) /\ req[r].pre \in Nat /\ req[r].extra \in Nat
      /\ PreConsumed(r) = req[r].pre + req[r].extra
  BY FundedFacts
<1>4. Funded(r)'
  BY <1>2, <1>3 DEF Funded, Holding, NotYet
<1>5. ASSUME NEW x \in Subs PROVE Owed(r, x)' <= Owed(r, x)
  BY <1>2, <1>3 DEF Owed, PreConsumed, Funded, NotYet
<1>6. CoversOK'
  BY <1>1, <1>5, MoveCovers
<1> QED
  BY <1>2, <1>4, <1>6, FundedStep

(* The refund gives back what was pre-consumed, once, and then the extra. *)
LEMMA RefundCovers ==
  ASSUME ~SaveMayFail, Inv, TypeOK', FundedOK, CoversOK, NEW r \in Requests, RefundStep(r)
  PROVE  FundedOK' /\ CoversOK'
<1> DEFINE u == req[r].sub
<1>0. TypeOK /\ UNCHANGED <<status, due, req, resets>>
  BY DEF Inv, RefundStep, RefundOuterBegin, RefundInner, RefundOuterCommit, RefundExtra
<1>1. /\ Funded(r) /\ req[r].pre \in Nat /\ req[r].extra \in Nat
      /\ PreConsumed(r) = req[r].pre + req[r].extra
      /\ \A x \in Subs : x # 0 /\ used[x] \in Nat
  BY <1>0, FundedFacts
<1>2. ASSUME NEW p, pc'[r] = p, Apart(r), pc[r] # "lost", DbError(r) PROVE ~NothingFailed'
  BY <1>0, <1>2, Failing
<1>3. CASE RefundOuterBegin(r)
  <2>1. pc[r] = "refund" /\ UNCHANGED <<used, rec, refunds>> /\ rec[r].status = "consumed" /\ refunds[r] = 0
    BY <1>1, <1>3 DEF RefundOuterBegin, Funded, NotYet
  <2>2. (DbOk /\ Goto(r, "inner")) \/ (DbError(r) /\ TryFailed(r))
    BY <1>3, <2>1 DEF RefundOuterBegin
  <2>3. CASE DbOk /\ Goto(r, "inner")
    <3>1. Apart(r) /\ pc'[r] = "inner"
      BY <1>0, <2>1, <2>3, OneMoves DEF Goto
    <3>2. Funded(r)'
      BY <1>0, <1>1, <2>1, <3>1 DEF Funded, Holding, NotYet
    <3>3. \A x \in Subs : Owed(r, x)' = Owed(r, x) /\ Owed(r, x) \in Nat
      BY <1>0, <2>1, <3>1, OwedIs DEF Owed, PreConsumed
    <3>4. CoversOK'
      BY <1>0, <2>1, <2>3, <3>3, MoveCovers
    <3> QED
      BY <2>1, <3>1, <3>2, <3>4, FundedStep
  <2>4. CASE DbError(r) /\ TryFailed(r)
    <3>1. Apart(r)
      BY <1>0, <2>1, <2>4, OneMoves DEF TryFailed, Goto
    <3>2. ~NothingFailed'
      BY <1>2, <2>1, <2>4, <3>1
    <3> QED
      BY <1>0, <2>1, <2>4, <3>2, TryFailedCovers
  <2> QED
    BY <2>2, <2>3, <2>4
<1>4. CASE RefundInner(r)
  <2> DEFINE a == req[r].pre
  <2>1. /\ pc[r] = "inner" /\ UNCHANGED rec /\ refunds[r] = 0 /\ u \in Subs
        /\ rec[r].sub = u /\ rec[r].amount = a
    BY <1>1, <1>4 DEF RefundInner, Funded, NotYet, Holding
  <2>2. \/ DbOk /\ Apply(u, -a) /\ refunds' = [refunds EXCEPT ![r] = @ + 1] /\ Goto(r, "outer")
        \/ /\ (~CanApply(u, -a) /\ DbOk) \/ DbError(r)
           /\ TryFailed(r) /\ UNCHANGED <<used, refunds>>
    BY <1>4, <2>1 DEF RefundInner
  <2>3. CASE DbOk /\ Apply(u, -a) /\ refunds' = [refunds EXCEPT ![r] = @ + 1] /\ Goto(r, "outer")
    <3>1. pc'[r] = "outer" /\ Apart(r)
      BY <1>0, <2>3 DEF Goto, TypeOK, Apart
    <3>2. Funded(r)'
      BY <1>0, <1>1, <2>1, <3>1 DEF Funded, Holding, NotYet
    <3>3. \A x \in Subs : /\ Owed(r, x) = IF x = u THEN a + req[r].extra ELSE 0
                          /\ Owed(r, x)' = IF x = u THEN req[r].extra ELSE 0
      BY <1>0, <2>1, <3>1 DEF Owed, PreConsumed
    <3>4. ASSUME resets = 0, NEW x \in Subs PROVE Balanced(r, x)
      <4> DEFINE d == -a
      <4>1. a + req[r].extra <= used[u]
        BY <1>0, <2>1, <3>3, <3>4, OwedIsUsed
      <4>2. d \in Int /\ 0 <= used[u] + d
        BY <1>1, <2>1, <4>1
      <4> HIDE DEF d
      <4>3. \A y \in Subs : used'[y] = used[y] + (IF y = u THEN d ELSE 0)
        BY <1>0, <2>1, <2>3, <4>2, Applied DEF d
      <4>4. used'[x] = used[x] + (Owed(r, x)' - Owed(r, x)) /\ used'[x] \in Int
        BY <1>1, <3>3, <4>2, <4>3 DEF d
      <4> QED
        BY <1>0, <2>1, <2>3, <3>1, <4>4, Failing DEF Balanced
    <3>5. CoversOK'
      BY <1>0, <3>1, <3>4, CoversStep DEF CoversOK
    <3> QED
      BY <2>1, <3>1, <3>2, <3>5, FundedStep
  <2>4. CASE /\ (~CanApply(u, -a) /\ DbOk) \/ DbError(r)
             /\ TryFailed(r) /\ UNCHANGED <<used, refunds>>
    <3>1. Apart(r)
      BY <1>0, <2>4, OneMoves DEF TryFailed, Goto
    <3>2. CASE DbError(r)
      <4>1. ~NothingFailed'
        BY <1>2, <2>1, <3>1, <3>2
      <4> QED
        BY <1>0, <2>1, <2>4, <3>2, <4>1, TryFailedCovers
    <3>3. CASE ~CanApply(u, -a) /\ DbOk
      <4>1. status[u] = "deleted"
        BY <1>1, <2>1, <3>3, RefundRefused
      <4>2. ~NothingFailed'
        BY <1>0, <2>1, <4>1 DEF NothingFailed
      <4> QED
        BY <1>0, <2>1, <2>4, <3>3, <4>2, TryFailedCovers
    <3> QED
      BY <2>4, <3>2, <3>3
  <2> QED
    BY <2>2, <2>3, <2>4
<1>5. CASE RefundOuterCommit(r)
  <2>1. /\ pc[r] = "outer" /\ UNCHANGED <<used, refunds>> /\ DbOk /\ Goto(r, "extra")
        /\ rec' = [rec EXCEPT ![r].status = "refunded"]
    BY <1>5 DEF RefundOuterCommit
  <2>2. Apart(r) /\ pc'[r] = "extra" /\ \A q \in Requests \ {r} : rec'[q] = rec[q]
    BY <1>0, <2>1, OneMoves DEF Goto, TypeOK
  <2>3. Funded(r)'
    BY <1>0, <1>1, <2>1, <2>2 DEF Funded, Holding, NotYet
  <2>4. \A x \in Subs : Owed(r, x)' = Owed(r, x) /\ Owed(r, x) \in Nat
    BY <1>0, <2>1, <2>2, OwedIs DEF Owed, PreConsumed
  <2>5. CoversOK'
    BY <1>0, <2>1, <2>4, MoveCovers
  <2> QED
    BY <2>2, <2>3, <2>5, FundedStep
<1>6. CASE RefundExtra(r)
  <2> DEFINE e == req[r].extra
  <2>1. pc[r] = "extra" /\ u \in Subs /\ UNCHANGED <<rec, refunds>> /\ Goto(r, "failed") /\ (DbOk \/ DbError(r))
    BY <1>1, <1>6 DEF RefundExtra, Funded, Holding
  <2>2. Apart(r) /\ pc'[r] = "failed"
    BY <1>0, <2>1, OneMoves DEF Goto
  <2>3. Funded(r)'
    BY <2>2 DEF Funded, Holding, NotYet
  <2>4. \A x \in Subs : Owed(r, x) = (IF x = u THEN e ELSE 0) /\ Owed(r, x)' = 0
    BY <2>1, <2>2 DEF Owed, PreConsumed
  <2>5. \/ Apply(u, -e)
        \/ UNCHANGED used /\ (e = 0 \/ ~CanApply(u, -e) \/ DbError(r))
    BY <1>6 DEF RefundExtra, ExtraReserved
  <2>6. CASE Apply(u, -e)
    <3>1. ASSUME resets = 0, NEW x \in Subs PROVE Balanced(r, x)
      <4> DEFINE d == -e
      <4>1. e <= used[u]
        BY <1>0, <2>1, <2>4, <3>1, OwedIsUsed
      <4>2. d \in Int /\ 0 <= used[u] + d
        BY <1>1, <2>1, <4>1
      <4> HIDE DEF d
      <4>3. \A y \in Subs : used'[y] = used[y] + (IF y = u THEN d ELSE 0)
        BY <1>0, <2>1, <2>6, <4>2, Applied DEF d
      <4>4. used'[x] = used[x] + (Owed(r, x)' - Owed(r, x)) /\ used'[x] \in Int
        BY <1>1, <2>4, <4>2, <4>3 DEF d
      <4> QED
        BY <1>0, <2>1, <2>2, <4>4, Failing DEF Balanced
    <3>2. CoversOK'
      BY <1>0, <2>2, <3>1, CoversStep DEF CoversOK
    <3> QED
      BY <2>1, <2>2, <2>3, <3>2, FundedStep
  <2>7. CASE UNCHANGED used /\ (e = 0 \/ ~CanApply(u, -e) \/ DbError(r))
    <3>1. e = 0 \/ ~NothingFailed'
      <4>1. CASE ~CanApply(u, -e)
        <5>1. status[u] = "deleted"
          BY <1>1, <2>1, <4>1, RefundRefused
        <5> QED
          BY <1>0, <2>1, <5>1 DEF NothingFailed
      <4>2. CASE DbError(r)
        BY <1>2, <2>1, <2>2, <4>2
      <4> QED
        BY <2>7, <4>1, <4>2
    <3>2. \A x \in Subs : /\ Owed(r, x)' <= Owed(r, x)
                          /\ Owed(r, x)' = Owed(r, x) \/ ~NothingFailed'
      BY <1>1, <2>4, <3>1
    <3>3. CoversOK'
      BY <1>0, <2>1, <2>7, <3>2, MoveCovers
    <3> QED
      BY <2>1, <2>2, <2>3, <3>3, FundedStep
  <2> QED
    BY <2>5, <2>6, <2>7
<1> QED
  BY <1>3, <1>4, <1>5, <1>6 DEF RefundStep

(* The background: only a reset lowers what is used. *)
LEMMA BackgroundCovers ==
  ASSUME TypeOK, FundedOK, CoversOK, NEW s \in Subs,
         PeriodEnds(s) \/ ResetDue(s) \/ AdminReset(s) \/ EndSubscription(s)
  PROVE  FundedOK' /\ CoversOK'
<1>1. UNCHANGED <<rec, req, pc, dbErrors, refunds>>
  BY DEF PeriodEnds, ResetDue, AdminReset, EndSubscription
<1>2. FundedOK'
  BY <1>1 DEF FundedOK, Funded
<1>3. resets' = 0 => resets = 0 /\ UNCHANGED <<used, due>>
  <2>1. resets \in Nat
    BY AttemptsAssumption DEF TypeOK
  <2>2. CASE PeriodEnds(s) \/ AdminReset(s)
    BY <2>1, <2>2 DEF PeriodEnds, AdminReset
  <2>3. CASE ResetDue(s)
    BY <2>3 DEF ResetDue, CoversOK
  <2>4. CASE EndSubscription(s)
    BY <2>4 DEF EndSubscription
  <2> QED
    BY <2>2, <2>3, <2>4
<1>4. NothingFailed' => NothingFailed
  <2>1. \A x \in Subs : status[x] = "deleted" => status'[x] = "deleted"
    <3>1. CASE EndSubscription(s)
      BY <3>1 DEF EndSubscription, Active, TypeOK
    <3>2. CASE UNCHANGED status
      BY <3>2
    <3> QED
      BY <3>1, <3>2 DEF PeriodEnds, ResetDue, AdminReset
  <2> QED
    BY <1>1, <2>1 DEF NothingFailed
<1>5. ASSUME NEW x \in Subs PROVE Owings(x)' = Owings(x)
  BY <1>1 DEF Owings, Owed, PreConsumed
<1>6. CoversOK'
  BY <1>3, <1>4, <1>5 DEF CoversOK, Covers
<1> QED
  BY <1>2, <1>6

(* Without resets a subscription has used at least what its requests hold or   *)
(* cost between them, and exactly that as long as no database call has failed, *)
(* no process has died and no subscription was deleted; whenever the outer     *)
(* transaction of a refund commits. No refund, retry or settlement takes from  *)
(* another request's consumption, or leaves a part of its own behind.          *)
THEOREM UsedCovers == ASSUME ~SaveMayFail PROVE Spec => []UsedCoversRequests
<1>1. Init => FundedOK /\ CoversOK
  <2> SUFFICES ASSUME Init PROVE FundedOK /\ CoversOK
    OBVIOUS
  <2>1. FundedOK
    BY DEF Init, FundedOK, Funded, Holding, NotYet, NoFunding
  <2>2. ASSUME NEW s \in Subs PROVE ~due[s] /\ Covers(s)
    <3>1. s # 0 /\ \A r \in Requests : req[r].sub = 0
      BY SubsAssumption DEF Init, NoFunding
    <3>2. \A r \in Requests : Owings(s)[r] = 0
      BY <3>1 DEF Owings, Owed
    <3>3. PICK g : Sums(g, Owings(s), Requests) /\ g[Requests] = 0
      BY <3>2, SumsZero
    <3>4. used[s] = 0 /\ ~due[s]
      BY DEF Init
    <3> QED
      BY <3>3, <3>4 DEF Covers
  <2> QED
    BY <2>1, <2>2 DEF CoversOK
<1>2. Inv /\ Inv' /\ FundedOK /\ CoversOK /\ [Next]_vars => FundedOK' /\ CoversOK'
  <2> SUFFICES ASSUME Inv, Inv', FundedOK, CoversOK, [Next]_vars PROVE FundedOK' /\ CoversOK'
    OBVIOUS
  <2>0. TypeOK /\ TypeOK'
    BY DEF Inv
  <2>1. CASE UNCHANGED vars
    BY <2>1 DEF vars, FundedOK, Funded, CoversOK, Covers, Owings, Owed, PreConsumed, NothingFailed
  <2> QED
    BY <2>0, <2>1, PreConsumeCovers, ReserveCovers, SettleCovers, EndingCovers, RefundCovers, BackgroundCovers
    DEF Next, Done
<1>3. CoversOK => UsedCoversRequests
  <2> SUFFICES ASSUME CoversOK, resets = 0, NEW s \in Subs
               PROVE  LET owed == MapThenSumSet(LAMBDA r : Owed(r, s), Requests)
                      IN  used[s] >= owed /\ (NothingFailed => used[s] = owed)
    BY DEF UsedCoversRequests
  <2>1. PICK g : /\ Sums(g, Owings(s), Requests)
                 /\ used[s] >= g[Requests] /\ (NothingFailed => used[s] = g[Requests])
    BY DEF CoversOK, Covers
  <2>2. MapThenSumSet(LAMBDA r : Owed(r, s), Requests) = g[Requests]
    BY <2>1, SumIsTaken
  <2> QED
    BY <2>1, <2>2
<1> QED
  BY <1>1, <1>2, <1>3, InitInv, NextInv, PTL DEF Spec

=============================================================================
