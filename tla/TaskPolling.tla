---------------------------- MODULE TaskPolling ----------------------------
(***************************************************************************)
(* Asynchronous (video) tasks after their submission: passes of            *)
(* RunTaskPollingOnce fail the tasks that timed out, ask the upstream      *)
(* about the others, end a task with a compare-and-swap on its status, and *)
(* the winner refunds it or settles the difference to its actual price.    *)
(*                                                                         *)
(* A pass works on copies it listed before.  Passes follow one another;    *)
(* two overlap when a node has lost the lease of its system task and its   *)
(* handler goes on.  Every database statement is a step.                   *)
(***************************************************************************)
EXTENDS Integers, FiniteSets

CONSTANTS
  Passes,        \* handlers that can be at work together
  MaxTasks,      \* bound: submitted tasks
  Legacy,        \* tasks submitted before TaskRefundLegacyCutoff
  Quota,         \* quota charged at submission
  Actuals,       \* what a finished task may turn out to cost
  SweepLimit,    \* rows a sweep lists
  QueryLimit,    \* TaskQueryLimit
  MaxOverlaps,   \* bound: passes begun beside another one
  MaxFaults      \* bound: failing statements and crashes

Tasks == 1..MaxTasks   \* in the order of their submission

ASSUME TasksAssumption == MaxTasks \in Nat /\ Legacy \subseteq Tasks
ASSUME QuotaAssumption == Quota \in Nat \ {0} /\ Actuals \subseteq Nat \ {0}
ASSUME LimitsAssumption == SweepLimit \in Nat \ {0} /\ QueryLimit \in Nat \ {0}
ASSUME BoundsAssumption == MaxOverlaps \in Nat /\ MaxFaults \in Nat

VARIABLES
  row,        \* tasks: status, progress = "100%"?, quota
  book,       \* what the task costs its funding source, its token, the usage counters
  old,        \* tasks whose submit_time is before the sweep's cutoff
  pass,       \* phase of each pass
  work,       \* a pass's copy of a task, and how far it is with it
  overlaps,
  faults

vars == <<row, book, old, pass, work, overlaps, faults>>

Open == {"NOT_START", "QUEUED", "IN_PROGRESS"}   \* SUBMITTED is handled as QUEUED
Ended == {"SUCCESS", "FAILURE"}
Billing == {"fund", "token", "usage", "record"}

NoRow == [status |-> "none", full |-> FALSE, quota |-> 0]
NoWork == [pc |-> "none", status |-> "none", quota |-> 0, due |-> 0]
Copy(pc, t) == [pc |-> pc, status |-> row[t].status, quota |-> row[t].quota, due |-> 0]

Init ==
  /\ row = [t \in Tasks |-> NoRow]
  /\ book = [t \in Tasks |-> [funding |-> 0, token |-> 0, used |-> 0]]
  /\ old = {}
  /\ pass = [p \in Passes |-> "idle"]
  /\ work = [p \in Passes |-> [t \in Tasks |-> NoWork]]
  /\ overlaps = 0
  /\ faults = 0

DbOk == UNCHANGED faults
Fault == faults < MaxFaults /\ faults' = faults + 1

-----------------------------------------------------------------------------
(* RelayTask inserts the row of a task whose request has been settled; what  *)
(* a settlement that fails leaves behind is BillingSession's subject         *)

Submit(t) ==
  /\ row[t].status = "none"
  /\ \A u \in 1..(t - 1) : row[u].status # "none"
  /\ row' = [row EXCEPT ![t] = [status |-> "NOT_START", full |-> FALSE, quota |-> Quota]]
  /\ book' = [book EXCEPT ![t] = [funding |-> Quota, token |-> Quota, used |-> Quota]]
  /\ UNCHANGED <<old, pass, work, overlaps, faults>>

(* The timeout of a task passes, the oldest first                            *)
Age(t) ==
  /\ row[t].status # "none" /\ t \notin old
  /\ 1..(t - 1) \subseteq old
  /\ old' = old \cup {t}
  /\ UNCHANGED <<row, book, pass, work, overlaps, faults>>

-----------------------------------------------------------------------------
(* Passes *)

Unfinished == {t \in Tasks : row[t].status \in Open /\ ~row[t].full}

FirstOf(S, limit) == {t \in S : Cardinality({u \in S : u < t}) < limit}

TimedOutStarted == FirstOf({t \in Unfinished \cap old : row[t].status = "IN_PROGRESS"}, SweepLimit)   \* mutant: only tasks that have started
GetTimedOutUnfinishedTasks == FirstOf(Unfinished \cap old, SweepLimit)
GetAllUnFinishSyncTasks == FirstOf(Unfinished, QueryLimit)

Take(p, pc, S) ==
  work' = [work EXCEPT ![p] = [t \in Tasks |-> IF t \in S THEN Copy(pc, t) ELSE NoWork]]

(* A failing query lists nothing.                                            *)
List(p, pc, S) == \/ Take(p, pc, S) /\ DbOk
                  \/ Take(p, pc, {}) /\ Fault

Alone(p) == \A q \in Passes \ {p} : pass[q] = "idle"

SweepBegin(p) ==
  /\ pass[p] = "idle" /\ Unfinished # {}
  /\ \/ Alone(p) /\ UNCHANGED overlaps
     \/ ~Alone(p) /\ overlaps < MaxOverlaps /\ overlaps' = overlaps + 1
  /\ pass' = [pass EXCEPT ![p] = "sweep"]
  /\ List(p, "sweep", GetTimedOutUnfinishedTasks)
  /\ UNCHANGED <<row, book, old>>

Through(p) == \A t \in Tasks : work[p][t] = NoWork

PollBegin(p) ==
  /\ pass[p] = "sweep" /\ Through(p)
  /\ pass' = [pass EXCEPT ![p] = "poll"]
  /\ List(p, "poll", GetAllUnFinishSyncTasks)
  /\ UNCHANGED <<row, book, old, overlaps>>

PassEnd(p) ==
  /\ pass[p] = "poll" /\ Through(p)
  /\ pass' = [pass EXCEPT ![p] = "idle"]
  /\ UNCHANGED <<row, book, old, work, overlaps, faults>>

Done(p, t) == work' = [work EXCEPT ![p][t] = NoWork]

-----------------------------------------------------------------------------
(* UpdateWithStatus writes the whole copy, quota included, if the status is  *)
(* still the one listed.                                                     *)

Matches(p, t) == row[t].status = work[p][t].status

Write(t, status, full, quota) ==
  row' = [row EXCEPT ![t] = [status |-> status, full |-> full, quota |-> quota]]

(* Billing goes on to make the task cost due, if it does not yet             *)
Bill(p, t, due) ==
  work' = [work EXCEPT ![p][t] = IF due # @.quota THEN [@ EXCEPT !.pc = "fund", !.due = due]
                                 ELSE NoWork]

EndTaskLoserBills(p, t, status, quota, due) ==   \* mutant: a lost swap is billed as well
  /\ Bill(p, t, due) /\ DbOk
  /\ IF Matches(p, t) THEN Write(t, status, TRUE, quota) ELSE UNCHANGED row

(* The status ends; only the winner bills. An update that reports an error   *)
(* may have taken effect.                                                    *)
EndTask(p, t, status, quota, due) ==
  \/ Matches(p, t) /\ Write(t, status, TRUE, quota) /\ Bill(p, t, due) /\ DbOk
  \/ ~Matches(p, t) /\ UNCHANGED row /\ Done(p, t) /\ DbOk
  \/ Fault /\ Done(p, t) /\ \/ UNCHANGED row
                            \/ Matches(p, t) /\ Write(t, status, TRUE, quota)

(* sweepTimedOutTasks: a legacy task loses its quota and is not refunded     *)
SweepTask(p, t) ==
  /\ work[p][t].pc = "sweep"
  /\ IF t \in Legacy THEN EndTask(p, t, "FAILURE", 0, work[p][t].quota)
                     ELSE EndTask(p, t, "FAILURE", work[p][t].quota, 0)
  /\ UNCHANGED <<book, old, pass, overlaps>>

(* updateVideoSingleTask. The upstream's answer is chosen when it is applied: *)
(* none that counts (or the pass is cancelled), a progress, an end            *)
PollNothing(p, t) == UNCHANGED <<row, faults>> /\ Done(p, t)

PollProgressUnguarded(p, t) ==   \* mutant: progress is saved without the guard
  \E status \in {"QUEUED", "IN_PROGRESS"}, full \in BOOLEAN :
    /\ Write(t, status, full, work[p][t].quota)
    /\ Done(p, t) /\ DbOk

PollProgress(p, t) ==
  \E status \in {"QUEUED", "IN_PROGRESS"}, full \in BOOLEAN :
    /\ IF Matches(p, t) THEN Write(t, status, full, work[p][t].quota) ELSE UNCHANGED row
    /\ Done(p, t) /\ DbOk

(* settleTaskBillingOnComplete keeps the quota, or finds the actual one      *)
PollSuccess(p, t) ==
  \E due \in Actuals \cup {work[p][t].quota} : EndTask(p, t, "SUCCESS", work[p][t].quota, due)

PollFailureCleared(p, t) == EndTask(p, t, "FAILURE", 0, 0)   \* mutant: the quota is cleared with the status
PollFailure(p, t) == EndTask(p, t, "FAILURE", work[p][t].quota, 0)

(* TaskBulkUpdateByID, for a row without upstream id or whose channel is     *)
(* gone: no guard, no refund                                                 *)
BulkFail(p, t) ==
  /\ row' = [row EXCEPT ![t].status = "FAILURE", ![t].full = TRUE]
  /\ Done(p, t) /\ DbOk

PollTask(p, t) ==
  /\ work[p][t].pc = "poll"
  /\ \/ PollNothing(p, t) \/ PollProgress(p, t) \/ PollSuccess(p, t)
     \/ PollFailure(p, t) \/ BulkFail(p, t)
  /\ UNCHANGED <<book, old, pass, overlaps>>

-----------------------------------------------------------------------------
(* RefundTaskQuota (due is 0) and RecalculateTaskQuota, statement by         *)
(* statement; the refund clears the row's quota last, the settlement writes  *)
(* it before the usage counters.                                             *)

Refunding(p, t) == work[p][t].due = 0
Delta(p, t) == work[p][t].due - work[p][t].quota
GotoBilling(p, t, pc) == work' = [work EXCEPT ![p][t].pc = pc]

(* taskAdjustFunding: the source may refuse or be gone, which ends it        *)
AdjustFunding(p, t) ==
  /\ work[p][t].pc = "fund"
  /\ \/ book' = [book EXCEPT ![t].funding = @ + Delta(p, t)] /\ GotoBilling(p, t, "token")
     \/ UNCHANGED book /\ Done(p, t)
  /\ UNCHANGED <<row, old, pass, overlaps, faults>>

AdjustTokenRefundsOnly(p, t) ==   \* mutant: a settlement leaves the token alone
  /\ work[p][t].pc = "token"
  /\ \/ book' = [book EXCEPT ![t].token = IF Refunding(p, t) THEN @ + Delta(p, t) ELSE @] /\ DbOk
     \/ Fault /\ UNCHANGED book
  /\ GotoBilling(p, t, IF Refunding(p, t) THEN "usage" ELSE "record")
  /\ UNCHANGED <<row, old, pass, overlaps>>

(* taskAdjustTokenQuota: a failure is logged only                            *)
AdjustToken(p, t) ==
  /\ work[p][t].pc = "token"
  /\ \/ book' = [book EXCEPT ![t].token = @ + Delta(p, t)] /\ DbOk
     \/ Fault /\ UNCHANGED book
  /\ GotoBilling(p, t, IF Refunding(p, t) THEN "usage" ELSE "record")
  /\ UNCHANGED <<row, old, pass, overlaps>>

(* UpdateUserUsedQuota and UpdateChannelUsedQuota, counted together          *)
AdjustUsage(p, t) ==
  /\ work[p][t].pc = "usage"
  /\ \/ book' = [book EXCEPT ![t].used = @ + Delta(p, t)] /\ DbOk
     \/ Fault /\ UNCHANGED book
  /\ IF Refunding(p, t) THEN GotoBilling(p, t, "record") ELSE Done(p, t)
  /\ UNCHANGED <<row, old, pass, overlaps>>

RecordDelta(p, t) ==   \* mutant: the difference is stored, not the price
  /\ work[p][t].pc = "record"
  /\ \/ row' = [row EXCEPT ![t].quota = Delta(p, t)] /\ DbOk
     \/ Fault /\ UNCHANGED row
  /\ IF Refunding(p, t) THEN Done(p, t) ELSE GotoBilling(p, t, "usage")
  /\ UNCHANGED <<book, old, pass, overlaps>>

(* UpdateQuota                                                               *)
RecordQuota(p, t) ==
  /\ work[p][t].pc = "record"
  /\ \/ row' = [row EXCEPT ![t].quota = work[p][t].due] /\ DbOk
     \/ Fault /\ UNCHANGED row
  /\ IF Refunding(p, t) THEN Done(p, t) ELSE GotoBilling(p, t, "usage")
  /\ UNCHANGED <<book, old, pass, overlaps>>

(* The process of a pass dies *)
Crash(p) ==
  /\ pass[p] # "idle" /\ Fault
  /\ pass' = [pass EXCEPT ![p] = "idle"]
  /\ work' = [work EXCEPT ![p] = [t \in Tasks |-> NoWork]]
  /\ UNCHANGED <<row, book, old, overlaps>>

-----------------------------------------------------------------------------
BillStep(p, t) == AdjustFunding(p, t) \/ AdjustToken(p, t) \/ AdjustUsage(p, t) \/ RecordQuota(p, t)
TaskStep(p, t) == SweepTask(p, t) \/ PollTask(p, t) \/ BillStep(p, t)

PassStep(p) ==
  \/ SweepBegin(p) \/ PollBegin(p) \/ PassEnd(p)
  \/ \E t \in Tasks : TaskStep(p, t)

(* No task is unfinished: no pass is scheduled                               *)
Quiet == Unfinished = {} /\ (\A p \in Passes : pass[p] = "idle") /\ UNCHANGED vars

Next ==
  \/ \E t \in Tasks : Submit(t) \/ Age(t)
  \/ \E p \in Passes : PassStep(p) \/ Crash(p)
  \/ Quiet

Spec == Init /\ [][Next]_vars

(* The scheduler enqueues a pass while a task is unfinished, a pass goes on  *)
(* until it is through, and the timeout is enabled.                          *)
FairSpec ==
  /\ Spec
  /\ \A p \in Passes : WF_vars(PassStep(p))
  /\ \A t \in Tasks : WF_vars(Age(t))

-----------------------------------------------------------------------------
(* Properties *)

Rows == [status : Open \cup Ended \cup {"none"}, full : BOOLEAN, quota : Nat]
Books == [funding : Int, token : Int, used : Int]
Works == [pc : Billing \cup {"none", "sweep", "poll"}, status : Open \cup Ended \cup {"none"},
          quota : Nat, due : Nat]

(* The rows, the books and the copies have the shapes of the Go types; a row *)
(* never holds a negative quota.                                             *)
TypeOK ==
  /\ row \in [Tasks -> Rows] /\ book \in [Tasks -> Books] /\ old \subseteq Tasks
  /\ pass \in [Passes -> {"idle", "sweep", "poll"}]
  /\ work \in [Passes -> [Tasks -> Works]]
  /\ overlaps \in 0..MaxOverlaps /\ faults \in 0..MaxFaults

(* A task is refunded or settled at most once, whoever of the sweep, a poll  *)
(* and a poll of a node that lost its lease ends it, and whatever fails or   *)
(* dies: it costs its estimate, nothing, or one actual price.                *)
BilledOnce ==
  \A t \in Tasks : row[t].status # "none" => book[t].funding \in {Quota, 0} \cup Actuals

(* "On failure the quota is kept, for an explicit retry or reconciliation"   *)
(* (RefundTaskQuota): while a task still costs its user something, its row   *)
(* says so, after any crash between the swap, the refund and the clearing of *)
(* the quota. Legacy tasks are the documented exception.                     *)
OwedIsRecorded ==
  \A t \in Tasks \ Legacy : row[t].status # "none" /\ book[t].funding # 0 => row[t].quota # 0

(* When nothing has failed and nobody is billing a task, its funding source, *)
(* its token, the usage counters and its row agree on what it costs, also    *)
(* when passes overlapped or a bulk update ended it meanwhile.               *)
AtRest(t) == \A p \in Passes : work[p][t].pc \notin Billing
BooksAgree ==
  faults = 0 =>
    \A t \in Tasks : row[t].status # "none" /\ AtRest(t) =>
      /\ book[t].token = book[t].funding /\ book[t].used = book[t].funding
      /\ row[t].quota = book[t].funding \/ (t \in Legacy /\ row[t].status = "FAILURE")

(* A late answer to a poll never reopens a task that has ended.              *)
NeverReopened ==
  [][\A t \in Tasks : row[t].status \in Ended => row'[t].status \in Ended]_vars

(* Every task ends by an answer or by the timeout, behind any number of      *)
(* older ones, unless an upstream has reported 100 % of a task it has not    *)
(* ended: such a row is listed neither by the polls nor by the sweep.        *)
TaskEventuallyEnds ==
  \A t \in Tasks : row[t].status \in Open ~> row[t].status \in Ended \/ row[t].full
=============================================================================
