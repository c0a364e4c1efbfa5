-------------------------- MODULE SubscriptionReset --------------------------
(***************************************************************************)
(* Quota periods of subscriptions.  The background task of the master node *)
(* (runSubscriptionQuotaResetOnce) expires subscriptions and resets the    *)
(* due ones batch by batch; every pre-consumption resets a due             *)
(* subscription on its way.  Both end in maybeResetUserSubscription-       *)
(* WithPlanTx, on a locked row but with a time read earlier.               *)
(***************************************************************************)
EXTENDS Integers, FiniteSets, FiniteSetsExt

CONSTANTS
  Subs,          \* subscriptions, each of a plan of its own
  Period,        \* the reset period of each plan, in ticks (0 = never)
  EndTime,       \* UserSubscription.EndTime of each
  Changing,      \* the subscriptions whose plan the administrator may edit
  NewPeriods,    \* the periods such a plan may get
  BatchSize,     \* subscriptionResetBatchSize
  MaxClock,      \* bound: ticks
  MaxAdmin,      \* bound: administrative resets
  MaxFaults      \* bound: failing database calls of the task

ASSUME SubsAssumption == IsFiniteSet(Subs)
ASSUME PeriodAssumption ==
  Period \in [Subs -> Nat] /\ EndTime \in [Subs -> Nat \ {0}]
ASSUME ChangingAssumption == Changing \subseteq Subs /\ NewPeriods \subseteq Nat
ASSUME SizeAssumption ==
  BatchSize \in Nat \ {0} /\ MaxClock \in Nat /\ MaxAdmin \in Nat /\ MaxFaults \in Nat

VARIABLES
  clock,
  period,    \* SubscriptionPlan.QuotaResetPeriod, as a number of ticks
  sub,       \* the UserSubscription rows
  job,       \* the background task
  admin,     \* administrative resets so far
  faults     \* failed calls so far

vars == <<clock, period, sub, job, admin, faults>>

(* calcNextResetTime of a calendar period: the next boundary, none after the *)
(* end. A custom period, which counts from the base, is not modelled.        *)
CalcNext(base, p, end) ==
  LET next == ((base \div p) + 1) * p IN
  IF p = 0 \/ next > end THEN 0 ELSE next

(* The task between two batches *)
JobAt(pc) == [pc |-> pc, now |-> 0, todo |-> {}, count |-> 0]

Init ==
  /\ clock = 0
  /\ period = Period
  /\ sub = [s \in Subs |-> [next |-> CalcNext(0, Period[s], EndTime[s]), last |-> 0,
                            active |-> TRUE, used |-> FALSE]]
  /\ job = JobAt("idle")
  /\ admin = 0
  /\ faults = 0

-----------------------------------------------------------------------------
(* maybeResetUserSubscriptionWithPlanTx *)

PassedLate(b, now) == b < now   \* mutant: a boundary counts one tick late
PassedEarly(b, now) == b <= now + 1   \* mutant: a boundary counts one tick early
Passed(b, now) == b <= now

(* The boundaries the loop walks over, from the last reset up to now. *)
Boundaries(s, now) ==
  {b \in (sub[s].last + 1)..EndTime[s] : period[s] # 0 /\ b % period[s] = 0 /\ Passed(b, now)}

MaybeResetKeepsLast(s, now) ==   \* mutant: LastResetTime is not saved
  LET crossed == Boundaries(s, now) IN
  IF sub[s].next > now \/ crossed = {} THEN sub[s]
  ELSE [sub[s] EXCEPT !.used = FALSE,
                      !.next = CalcNext(Max(crossed), period[s], EndTime[s])]

MaybeReset(s, now) ==
  LET row == sub[s]
      crossed == Boundaries(s, now)
      next == CalcNext(row.last, period[s], EndTime[s])
  IN
  IF row.next > now \/ period[s] = 0 THEN row
  ELSE IF crossed # {}
    THEN [row EXCEPT !.used = FALSE, !.last = Max(crossed),
                     !.next = CalcNext(Max(crossed), period[s], EndTime[s])]
  ELSE IF row.next = 0 THEN [row EXCEPT !.next = next]
  ELSE row

(* A request pre-consumes: the row is locked, reset if due, then charged. *)
Use(s) ==
  /\ sub[s].active /\ EndTime[s] > clock
  /\ sub' = [sub EXCEPT ![s] = [MaybeReset(s, clock) EXCEPT !.used = TRUE]]
  /\ UNCHANGED <<clock, period, job, admin, faults>>

-----------------------------------------------------------------------------
(* runSubscriptionQuotaResetOnce *)

(* The ticker fires; ExpireDueSubscriptions ends what is over. *)
JobExpire ==
  /\ job.pc = "idle"
  /\ sub' = [s \in Subs |-> [sub[s] EXCEPT !.active = @ /\ EndTime[s] > clock]]
  /\ job' = JobAt("list")
  /\ UNCHANGED <<clock, period, admin, faults>>

Due(s, now) == sub[s].next > 0 /\ sub[s].next <= now

LimitNone(n) == n   \* mutant: the batch is not limited
Limit(n) == IF n < BatchSize THEN n ELSE BatchSize

(* ResetDueSubscriptions reads a batch, earliest next_reset_time first. *)
JobList ==
  LET due == {s \in Subs : sub[s].active /\ Due(s, clock)} IN
  /\ job.pc = "list"
  /\ \E batch \in SUBSET due :
       /\ Cardinality(batch) = Limit(Cardinality(due))
       /\ \A s \in batch, x \in due \ batch : sub[s].next <= sub[x].next
       /\ job' = IF batch = {} THEN JobAt("idle")
                 ELSE [pc |-> "reset", now |-> clock, todo |-> batch, count |-> 0]
  /\ UNCHANGED <<clock, period, sub, admin, faults>>

(* One transaction per row: the row is read again under its lock. *)
JobReset ==
  /\ job.pc = "reset"
  /\ \E s \in job.todo :
       IF Due(s, job.now)
         THEN /\ sub' = [sub EXCEPT ![s] = MaybeReset(s, job.now)]
              /\ job' = [job EXCEPT !.todo = @ \ {s}, !.count = @ + 1]
         ELSE /\ job' = [job EXCEPT !.todo = @ \ {s}]
              /\ UNCHANGED sub
  /\ UNCHANGED <<clock, period, admin, faults>>

More(n) == n >= BatchSize

(* A full batch asks for another one; then the task is over until the next tick. *)
JobBatchEnds ==
  /\ job.pc = "reset" /\ job.todo = {}
  /\ job' = JobAt(IF More(job.count) THEN "list" ELSE "idle")
  /\ UNCHANGED <<clock, period, sub, admin, faults>>

(* A failing call ends the task until the next tick; its transaction, if it   *)
(* had one open, is rolled back.                                             *)
JobFails ==
  /\ job.pc # "idle" /\ faults < MaxFaults
  /\ job' = JobAt("idle")
  /\ faults' = faults + 1
  /\ UNCHANGED <<clock, period, sub, admin>>

-----------------------------------------------------------------------------
(* The administrator and time *)

(* AdminUpdateSubscriptionPlan leaves next_reset_time of the subscriptions alone. *)
ChangePlan(s) ==
  /\ s \in Changing
  /\ \E p \in NewPeriods : period' = [period EXCEPT ![s] = p]
  /\ UNCHANGED <<clock, sub, job, admin, faults>>

(* resetUserSubscriptionTx; LastResetTime is cleared when no reset follows *)
AdminReset(s) ==
  /\ sub[s].active /\ EndTime[s] > clock /\ admin < MaxAdmin
  /\ \E advance \in BOOLEAN :
       LET next == CalcNext(clock, period[s], EndTime[s]) IN
       sub' = [sub EXCEPT ![s] =
                 IF advance THEN [@ EXCEPT !.used = FALSE, !.next = next,
                                           !.last = IF next > 0 THEN clock ELSE 0]
                            ELSE [@ EXCEPT !.used = FALSE]]
  /\ admin' = admin + 1
  /\ UNCHANGED <<clock, period, job, faults>>

Tick ==
  /\ clock < MaxClock /\ clock' = clock + 1
  /\ UNCHANGED <<period, sub, job, admin, faults>>

JobStep == JobExpire \/ JobList \/ JobReset \/ JobBatchEnds

Next ==
  \/ \E s \in Subs : Use(s) \/ ChangePlan(s) \/ AdminReset(s)
  \/ JobStep
  \/ JobFails
  \/ Tick

Spec == Init /\ [][Next]_vars

(* The ticker goroutine runs for ever. *)
FairSpec == Spec /\ WF_vars(JobStep)

-----------------------------------------------------------------------------
(* Properties *)

(* The rows, the task and the clock stay within their types. *)
TypeOK ==
  /\ clock \in 0..MaxClock /\ period \in [Subs -> Nat] /\ admin \in 0..MaxAdmin
  /\ faults \in 0..MaxFaults
  /\ sub \in [Subs -> [next : Nat, last : Nat, active : BOOLEAN, used : BOOLEAN]]
  /\ job \in [pc : {"idle", "list", "reset"}, now : 0..MaxClock, todo : SUBSET Subs,
              count : 0..BatchSize]

(* Whatever the background task read before a request reset the row itself,   *)
(* consumption is wiped only when a period boundary lies between the last     *)
(* reset and now: nobody gets a period's quota twice.                         *)
WipedOnlyAtBoundary ==
  [][\A s \in Subs :
       sub[s].used /\ ~sub'[s].used /\ admin' = admin =>
         \E b \in (sub[s].last + 1)..clock : b % period[s] = 0]_vars

(* The schedule of a subscription whose plan was never edited is the one its  *)
(* last reset implies: no interleaving of task, requests and administrator    *)
(* skips or repeats a period.                                                 *)
ScheduleFollowsLastReset ==
  \A s \in Subs \ Changing :
    sub[s].next # 0 => sub[s].next = CalcNext(sub[s].last, period[s], EndTime[s])

(* The comment of ResetDueSubscriptions (model/subscription.go:1212) says it   *)
(* resets the subscriptions whose next_reset_time has passed: every due one   *)
(* is eventually reset, by the task or by a request, unless it expires.       *)
DueEventuallyReset ==
  \A s \in Subs \ Changing :
    sub[s].active /\ Due(s, clock) ~> ~sub[s].active \/ ~Due(s, clock)
=============================================================================
