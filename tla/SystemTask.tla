----------------------------- MODULE SystemTask -----------------------------
(***************************************************************************)
(* System tasks of one type (log cleanup, channel test, async task poll),  *)
(* shared by the master nodes through two tables: system_tasks, where the  *)
(* unique index on active_key admits one active row of a type, and         *)
(* system_task_locks, the lease of the node that runs it.  Every database  *)
(* statement is a step of its own; a multi-statement operation (claiming,  *)
(* expiring a stale lock) keeps using the time it read when it began.      *)
(*                                                                         *)
(* Time is relative: a lease holds its remaining ticks and an operation    *)
(* the ticks since it read the clock, so "locked_until < now" of an        *)
(* operation of age a is left < -a.                                        *)
(***************************************************************************)
EXTENDS Integers, FiniteSets

CONSTANTS
  Nodes,         \* runner ids: a restarted process draws a new one
  MaxTasks,      \* bound: rows of system_tasks
  Legacy,        \* pending rows without active_key, left by an older version
  TTL,           \* systemTaskLockTTL
  MaxStall,      \* bound: ticks an operation may take from reading the clock
  MaxDbErrors,   \* bound: failing database statements
  MaxCrashes     \* bound: processes that die

Tasks == 1..MaxTasks

ASSUME TasksAssumption == MaxTasks \in Nat /\ Legacy \subseteq Tasks /\ 0 \notin Nodes
ASSUME TimeAssumption == TTL \in Nat \ {0} /\ MaxStall \in Nat
ASSUME FaultsAssumption == MaxDbErrors \in Nat /\ MaxCrashes \in Nat

VARIABLES
  task,      \* system_tasks: status, active_key set?, locked_by
  lock,      \* the row of system_task_locks, task 0 when there is none
  loop,      \* the runner goroutine of each node
  run,       \* the handler goroutine of a task on a node
  dbErrors,
  crashes

vars == <<task, lock, loop, run, dbErrors, crashes>>

NoTask == [status |-> "none", active |-> FALSE, by |-> 0]
NoLock == [task |-> 0, by |-> 0, left |-> 0]
Idle == [pc |-> "idle", task |-> 0, seen |-> 0, by |-> 0, age |-> 0]

Init ==
  /\ task = [t \in Tasks |-> IF t \in Legacy THEN [NoTask EXCEPT !.status = "pending"] ELSE NoTask]
  /\ lock = NoLock
  /\ loop = [n \in Nodes |-> Idle]
  /\ run = [t \in Tasks |-> [n \in Nodes |-> "no"]]
  /\ dbErrors = 0
  /\ crashes = 0

DbOk == UNCHANGED dbErrors
DbError == dbErrors < MaxDbErrors /\ dbErrors' = dbErrors + 1
Goto(n, pc) == loop' = [loop EXCEPT ![n].pc = pc]
Rest(n) == loop' = [loop EXCEPT ![n] = Idle]

-----------------------------------------------------------------------------
(* Single statements *)

LockOf(t, n) == lock.task = t /\ lock.by = n

ExpiredEarly(age) == lock.task # 0 /\ lock.left <= -age   \* mutant: a tick too soon
Expired(age) == lock.task # 0 /\ lock.left < -age

(* MarkSystemTaskLeaseExpired *)
MarkLeaseExpired(t) ==
  task' = [task EXCEPT ![t] = IF @.status = "running"
                              THEN [@ EXCEPT !.status = "failed", !.active = FALSE] ELSE @]

(* ReleaseSystemTaskLock *)
Release(t, n) == lock' = IF LockOf(t, n) THEN NoLock ELSE lock

-----------------------------------------------------------------------------
(* Creating a task: the scheduler, EnqueueSystemTask, StartLogCleanupTask *)

ActiveStatus(t) == task[t].status \in {"pending", "running"}

(* runSystemTaskScheduler looks at the latest row of the type; the on-demand  *)
(* paths look at every active one, which the key decides anyway.             *)
LatestIsOver(t) == t > 1 => ~ActiveStatus(t - 1)

(* The unique index on active_key *)
KeyIsFree == \A u \in Tasks : ~task[u].active

CreateSystemTask(t) ==
  /\ task[t].status = "none"
  /\ \A u \in 1..(t - 1) : task[u].status # "none"
  /\ LatestIsOver(t) /\ KeyIsFree
  /\ task' = [task EXCEPT ![t] = [NoTask EXCEPT !.status = "pending", !.active = TRUE]]
  /\ UNCHANGED <<lock, loop, run, dbErrors, crashes>>

-----------------------------------------------------------------------------
(* ExpireStaleSystemTaskLocks *)

SweepBeginOwn(n) ==   \* mutant: a node only looks at the locks it holds itself
  /\ loop[n].pc = "idle" /\ Expired(0) /\ lock.by = n
  /\ loop' = [loop EXCEPT ![n] = [Idle EXCEPT !.pc = "sweepmark", !.task = lock.task, !.by = n]]
  /\ UNCHANGED <<task, lock, run, dbErrors, crashes>>

SweepBegin(n) ==
  /\ loop[n].pc = "idle" /\ Expired(0)
  /\ loop' = [loop EXCEPT ![n] = [Idle EXCEPT !.pc = "sweepmark", !.task = lock.task, !.by = lock.by]]
  /\ UNCHANGED <<task, lock, run, dbErrors, crashes>>

SweepMark(n) ==
  /\ loop[n].pc = "sweepmark"
  /\ \/ MarkLeaseExpired(loop[n].task) /\ Goto(n, "sweepdelete") /\ DbOk
     \/ DbError /\ Rest(n) /\ UNCHANGED task
  /\ UNCHANGED <<lock, run, crashes>>

SweepDelete(n) ==
  /\ loop[n].pc = "sweepdelete"
  /\ \/ /\ lock' = IF LockOf(loop[n].task, loop[n].by) /\ Expired(loop[n].age) THEN NoLock ELSE lock
        /\ DbOk
     \/ DbError /\ UNCHANGED lock
  /\ Rest(n)
  /\ UNCHANGED <<task, run, crashes>>

-----------------------------------------------------------------------------
(* ClaimSystemTask *)

EarliestPending(t) ==
  task[t].status = "pending" /\ \A u \in 1..(t - 1) : task[u].status # "pending"

ClaimBegin(n) ==
  /\ loop[n].pc = "idle"
  /\ \E t \in Tasks :
       /\ EarliestPending(t)
       /\ loop' = [loop EXCEPT ![n] = [Idle EXCEPT !.pc = "insert", !.task = t]]
  /\ UNCHANGED <<task, lock, run, dbErrors, crashes>>

LeaseTwice(n) == [task |-> loop[n].task, by |-> n, left |-> 2 * TTL - loop[n].age]   \* mutant: the TTL is added twice
Lease(n) == [task |-> loop[n].task, by |-> n, left |-> TTL - loop[n].age]

(* acquireSystemTaskLock: an insert                                          *)
ClaimInsert(n) ==
  /\ loop[n].pc = "insert"
  /\ \/ lock.task = 0 /\ lock' = Lease(n) /\ Goto(n, "cas") /\ DbOk
     \/ lock.task # 0 /\ DbOk /\ Goto(n, "look") /\ UNCHANGED lock
     \/ DbError /\ Goto(n, "look") /\ UNCHANGED lock
  /\ UNCHANGED <<task, run, crashes>>

(* ... when it is refused, or fails, a look at the row that is there by then *)
ClaimLook(n) ==
  /\ loop[n].pc = "look"
  /\ \/ /\ Expired(loop[n].age) /\ DbOk
        /\ loop' = [loop EXCEPT ![n].pc = "takeover", ![n].seen = lock.task]
     \/ ~Expired(loop[n].age) /\ DbOk /\ Rest(n)
     \/ DbError /\ Rest(n)
  /\ UNCHANGED <<task, lock, run, crashes>>

AfterTakeover(n) == IF loop[n].seen # loop[n].task THEN "mark" ELSE "cas"

(* ... and a conditional update of an expired one                            *)
ClaimTakeover(n) ==
  /\ loop[n].pc = "takeover"
  /\ \/ Expired(loop[n].age) /\ lock' = Lease(n) /\ Goto(n, AfterTakeover(n)) /\ DbOk
     \/ ~Expired(loop[n].age) /\ Rest(n) /\ DbOk /\ UNCHANGED lock
     \/ DbError /\ Rest(n) /\ UNCHANGED lock
  /\ UNCHANGED <<task, run, crashes>>

ClaimMark(n) ==
  /\ loop[n].pc = "mark"
  /\ \/ MarkLeaseExpired(loop[n].seen) /\ Goto(n, "cas") /\ DbOk
     \/ DbError /\ Goto(n, "release") /\ UNCHANGED task
  /\ UNCHANGED <<lock, run, crashes>>

ClaimableAny(t) == TRUE   \* mutant: the update does not ask for a pending row
Claimable(t) == task[t].status = "pending"

(* pending -> running; the handler is dispatched unless the row cannot be    *)
(* read back                                                                 *)
ClaimRun(n) ==
  LET t == loop[n].task IN
  /\ loop[n].pc = "cas"
  /\ \/ /\ Claimable(t)
        /\ task' = [task EXCEPT ![t].status = "running", ![t].by = n]
        /\ \/ run' = [run EXCEPT ![t][n] = "on"] /\ DbOk
           \/ DbError /\ UNCHANGED run
        /\ Rest(n)
     \/ /\ \/ ~Claimable(t) /\ DbOk
           \/ DbError
        /\ Goto(n, "release") /\ UNCHANGED <<task, run>>
  /\ UNCHANGED <<lock, crashes>>

ClaimRelease(n) ==
  /\ loop[n].pc = "release"
  /\ \/ Release(loop[n].task, n) /\ DbOk
     \/ DbError /\ UNCHANGED lock
  /\ Rest(n)
  /\ UNCHANGED <<task, run, crashes>>

-----------------------------------------------------------------------------
(* A dispatched handler and its heartbeat. The time of a statement is read   *)
(* at most MaxStall ticks before the statement takes effect.                 *)

Leased(t, n, age) == LockOf(t, n) /\ lock.left >= -age

(* One tick of runWithLeaseHeartbeat: renew, or cancel and stop              *)
Heartbeat(t, n) ==
  /\ run[t][n] \in {"on", "finished"}
  /\ \/ \E age \in 0..MaxStall :
          /\ Leased(t, n, age)
          /\ lock' = [lock EXCEPT !.left = TTL - age]
          /\ UNCHANGED run /\ DbOk
     \/ /\ run[t][n] = "on"
        /\ \/ (\E age \in 0..MaxStall : ~Leased(t, n, age)) /\ DbOk
           \/ DbError
        /\ run' = [run EXCEPT ![t][n] = "cancelled"]
        /\ UNCHANGED lock
  /\ UNCHANGED <<task, loop, crashes>>

MayFinishLeased(t, n, age) == task[t].by = n /\ Leased(t, n, age)   \* mutant: ignores the status
MayFinish(t, n, age) ==
  task[t].status = "running" /\ task[t].by = n /\ Leased(t, n, age)

(* FinishSystemTask, which a cancelled handler calls too; a handler that has  *)
(* lost its lease, fails to save or panics just returns                      *)
HandlerEnds(t, n) ==
  /\ run[t][n] \in {"on", "cancelled"}
  /\ \/ \E age \in 0..MaxStall, result \in {"succeeded", "failed"} :
          /\ MayFinish(t, n, age)
          /\ task' = [task EXCEPT ![t].status = result, ![t].active = FALSE]
          /\ run' = [run EXCEPT ![t][n] = "finished"]
          /\ DbOk
     \/ /\ run' = [run EXCEPT ![t][n] = "done"]
        /\ UNCHANGED <<task, dbErrors>>
  /\ UNCHANGED <<lock, loop, crashes>>

FinishRelease(t, n) ==
  /\ run[t][n] = "finished"
  /\ \/ Release(t, n) /\ DbOk
     \/ DbError /\ UNCHANGED lock
  /\ run' = [run EXCEPT ![t][n] = "done"]
  /\ UNCHANGED <<task, loop, crashes>>

-----------------------------------------------------------------------------
(* Time and failures *)

Busy(n) == loop[n].pc \notin {"idle", "down"}

(* A lease that every operation sees as expired need not age further.        *)
Tick ==
  /\ \A n \in Nodes : Busy(n) => loop[n].age < MaxStall
  /\ lock' = IF lock.task # 0 /\ lock.left >= -MaxStall THEN [lock EXCEPT !.left = @ - 1] ELSE lock
  /\ loop' = [n \in Nodes |-> IF Busy(n) THEN [loop[n] EXCEPT !.age = @ + 1] ELSE loop[n]]
  /\ UNCHANGED <<task, run, dbErrors, crashes>>

Crash(n) ==
  /\ crashes < MaxCrashes /\ loop[n].pc # "down"
  /\ crashes' = crashes + 1
  /\ loop' = [loop EXCEPT ![n] = [Idle EXCEPT !.pc = "down"]]
  /\ run' = [t \in Tasks |-> [run[t] EXCEPT ![n] = IF @ = "no" THEN @ ELSE "done"]]
  /\ UNCHANGED <<task, lock, dbErrors>>

(* The rest of an operation the runner goroutine has begun *)
LoopStep(n) == \/ SweepMark(n) \/ SweepDelete(n)
               \/ ClaimInsert(n) \/ ClaimLook(n) \/ ClaimTakeover(n) \/ ClaimMark(n)
               \/ ClaimRun(n) \/ ClaimRelease(n)
HandlerStep(t, n) == HandlerEnds(t, n) \/ FinishRelease(t, n)

Next ==
  \/ \E t \in Tasks : CreateSystemTask(t)
  \/ \E n \in Nodes : SweepBegin(n) \/ ClaimBegin(n) \/ LoopStep(n) \/ Crash(n)
  \/ \E t \in Tasks, n \in Nodes : Heartbeat(t, n) \/ HandlerStep(t, n)
  \/ Tick

Spec == Init /\ [][Next]_vars

(* A pass of the runner begins with the stale-lock sweep and ends with the    *)
(* claims, whatever the previous one did; handlers return.                   *)
FairSpec ==
  /\ Spec /\ WF_vars(Tick)
  /\ \A n \in Nodes : SF_vars(SweepBegin(n)) /\ SF_vars(ClaimBegin(n)) /\ WF_vars(LoopStep(n))
  /\ \A t \in Tasks, n \in Nodes : WF_vars(HandlerStep(t, n))

-----------------------------------------------------------------------------
(* Properties *)

Statuses == {"none", "pending", "running", "succeeded", "failed"}
LoopPcs == {"idle", "sweepmark", "sweepdelete", "insert", "look", "takeover", "mark", "cas", "release", "down"}
RunStates == {"no", "on", "cancelled", "finished", "done"}

TaskRows == [status : Statuses, active : BOOLEAN, by : Nodes \cup {0}]
LockRows == [task : Tasks \cup {0}, by : Nodes \cup {0}, left : (-MaxStall - 1)..TTL]
LoopStates == [pc : LoopPcs, task : Tasks \cup {0}, seen : Tasks \cup {0},
               by : Nodes \cup {0}, age : 0..MaxStall]

(* The tables and the goroutines have the shapes of the Go types. *)
TypeOK ==
  /\ task \in [Tasks -> TaskRows]
  /\ lock \in LockRows
  /\ loop \in [Nodes -> LoopStates]
  /\ run \in [Tasks -> [Nodes -> RunStates]]
  /\ dbErrors \in 0..MaxDbErrors /\ crashes \in 0..MaxCrashes

(* A running row always has its runner's lock row beside it, so that some    *)
(* sweep can find it: claiming, finishing, expiring and releasing never      *)
(* separate the two, crashes and failing statements included.                *)
RunningIsLeased ==
  \A t \in Tasks : task[t].status = "running" => LockOf(t, task[t].by)

(* "the per-type lock guarantees only one runner executes the task"          *)
(* (runSystemTaskScheduler): no row is ever dispatched on two nodes.         *)
OneRunnerPerTask ==
  \A t \in Tasks : Cardinality({n \in Nodes : run[t][n] # "no"}) <= 1

(* What a run has ended with stays: a runner that comes back after its lease  *)
(* was expired cannot turn its failed row into a success.                    *)
EndedIsFinal ==
  [][\A t \in Tasks : task[t].status \in {"succeeded", "failed"} => task'[t].status = task[t].status]_vars

(* Every active task ends, so that its type can be scheduled again: expired   *)
(* leases are marked failed (systemTaskRunnerIdleInterval).                  *)
ActiveEventuallyEnds == \A t \in Tasks : ActiveStatus(t) ~> ~ActiveStatus(t)
=============================================================================
