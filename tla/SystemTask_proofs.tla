------------------------- MODULE SystemTask_proofs --------------------------
(***************************************************************************)
(* Proofs about SystemTask, for any number of nodes, rows and ticks: the   *)
(* types, that a running row keeps its lock row as long as no operation    *)
(* outlasts a lease, that a row is dispatched once and that its end is     *)
(* final.                                                                  *)
(***************************************************************************)
EXTENDS SystemTask, FiniteSetTheorems, TLAPS

(***************************************************************************)
(* The inductive invariant.  A running row is safe from every operation    *)
(* in flight: none that will delete or take over the lock may regard it as *)
(* expired (LateOps), and a claim that holds the lock holds it unexpired   *)
(* until it has updated its row (ClaimHoldsLock).                          *)
(***************************************************************************)
KeyTracksStatus == \A t \in Tasks : ActiveStatus(t) <=> task[t].active
OneActiveKey == \A t, u \in Tasks : task[t].active /\ task[u].active => t = u
UnclaimedHasNoRunner ==
  \A t \in Tasks : task[t].status \in {"none", "pending"} => task[t].by = 0
RunnerIsRecorded ==
  \A t \in Tasks, n \in Nodes : run[t][n] # "no" => task[t].by = n
FinishedHasEnded ==
  \A t \in Tasks, n \in Nodes : run[t][n] = "finished" => ~ActiveStatus(t)

Claiming == {"insert", "look", "takeover", "mark", "cas", "release"}
ClaimIsFirst ==
  \A n \in Nodes : loop[n].pc \in Claiming =>
    /\ loop[n].task \in Tasks /\ task[loop[n].task].by # n
    /\ task[loop[n].task].status # "none"
SweepHasTask ==
  \A n \in Nodes : loop[n].pc \in {"sweepmark", "sweepdelete"} => loop[n].task \in Tasks
TakeoverHasSeen ==
  \A n \in Nodes : loop[n].pc \in {"takeover", "mark"} => loop[n].seen \in Tasks
ClaimHoldsLock ==
  \A n \in Nodes : loop[n].pc \in {"mark", "cas"} =>
    LockOf(loop[n].task, n) /\ lock.left = TTL - loop[n].age
LateOps ==
  \A n \in Nodes, t \in Tasks :
    /\ task[t].status = "running"
    /\ \/ loop[n].pc \in {"insert", "look", "takeover"}
       \/ loop[n].pc = "sweepdelete" /\ loop[n].task = t
    => lock.left >= -loop[n].age

Dispatch == UnclaimedHasNoRunner /\ RunnerIsRecorded
Shape == TypeOK /\ SweepHasTask /\ TakeoverHasSeen /\ ClaimIsFirst /\ Dispatch
IInv == /\ Shape
        /\ KeyTracksStatus /\ OneActiveKey /\ FinishedHasEnded
        /\ ClaimHoldsLock /\ LateOps /\ RunningIsLeased

(* No rows of an older version, and no operation outlasts the lease it took. *)
Timely == Legacy = {} /\ MaxStall <= TTL

-----------------------------------------------------------------------------


(* Rows, locks and loop states stay in their sets under the updates made.   *)
LEMMA RowUpdates ==
  /\ NoTask \in TaskRows
  /\ [NoTask EXCEPT !.status = "pending"] \in TaskRows
  /\ [NoTask EXCEPT !.status = "pending", !.active = TRUE] \in TaskRows
  /\ \A r \in TaskRows : \A s \in {"succeeded", "failed"} :
       [r EXCEPT !.status = s, !.active = FALSE] \in TaskRows
  /\ \A r \in TaskRows, n \in Nodes : [r EXCEPT !.status = "running", !.by = n] \in TaskRows
  BY DEF TaskRows, NoTask, Statuses

(* The same for the lock row *)
LEMMA LockUpdates ==
  /\ NoLock \in LockRows
  /\ \A age \in 0..MaxStall :
       /\ TTL - age \in (-MaxStall - 1)..TTL
       /\ \A l \in LockRows : [l EXCEPT !.left = TTL - age] \in LockRows
  /\ \A l \in LockRows : l.left >= -MaxStall => [l EXCEPT !.left = @ - 1] \in LockRows
  BY TimeAssumption DEF LockRows, NoLock

(* The same for a runner's state *)
LEMMA LoopUpdates ==
  /\ Idle \in LoopStates /\ [Idle EXCEPT !.pc = "down"] \in LoopStates
  /\ \A t \in Tasks : [Idle EXCEPT !.pc = "insert", !.task = t] \in LoopStates
  /\ \A t \in Tasks \cup {0}, n \in Nodes \cup {0} :
       [Idle EXCEPT !.pc = "sweepmark", !.task = t, !.by = n] \in LoopStates
  /\ \A l \in LoopStates, p \in LoopPcs : [l EXCEPT !.pc = p] \in LoopStates
  /\ \A l \in LoopStates, t \in Tasks \cup {0} :
       [l EXCEPT !.pc = "takeover", !.seen = t] \in LoopStates
  /\ \A l \in LoopStates : l.age < MaxStall => [l EXCEPT !.age = @ + 1] \in LoopStates
<1>1. Idle \in LoopStates /\ [Idle EXCEPT !.pc = "down"] \in LoopStates
  BY TimeAssumption DEF LoopStates, Idle, LoopPcs
<1>2. \A t \in Tasks : [Idle EXCEPT !.pc = "insert", !.task = t] \in LoopStates
  <2>1. \A l \in LoopStates, t \in Tasks : [l EXCEPT !.pc = "insert", !.task = t] \in LoopStates
    BY DEF LoopStates, LoopPcs
  <2> QED
    BY <1>1, <2>1
<1>3. \A t \in Tasks \cup {0}, n \in Nodes \cup {0} :
        [Idle EXCEPT !.pc = "sweepmark", !.task = t, !.by = n] \in LoopStates
  <2>1. \A l \in LoopStates, t \in Tasks \cup {0}, n \in Nodes \cup {0} :
          [l EXCEPT !.pc = "sweepmark", !.task = t, !.by = n] \in LoopStates
    BY DEF LoopStates, LoopPcs
  <2> QED
    BY <1>1, <2>1
<1>4. \A l \in LoopStates, p \in LoopPcs : [l EXCEPT !.pc = p] \in LoopStates
  BY DEF LoopStates
<1>5. \A l \in LoopStates, t \in Tasks \cup {0} :
        [l EXCEPT !.pc = "takeover", !.seen = t] \in LoopStates
  BY DEF LoopStates, LoopPcs
<1>6. \A l \in LoopStates : l.age < MaxStall => [l EXCEPT !.age = @ + 1] \in LoopStates
  BY TimeAssumption DEF LoopStates
<1> QED
  BY <1>1, <1>2, <1>3, <1>4, <1>5, <1>6

(* The updates shared by several actions keep the types. *)
LEMMA MarkType == ASSUME TypeOK, NEW t, MarkLeaseExpired(t)
                  PROVE (task \in [Tasks -> TaskRows])'
<1>1. CASE t \in Tasks
  BY <1>1, RowUpdates DEF TypeOK, MarkLeaseExpired
<1>2. CASE t \notin Tasks
  <2>1. task' = task
    BY <1>2 DEF TypeOK, MarkLeaseExpired
  <2> QED
    BY <2>1 DEF TypeOK
<1> QED
  BY <1>1, <1>2

(* Moving a runner on keeps its type. *)
LEMMA GotoType == ASSUME TypeOK, NEW n \in Nodes, NEW p \in LoopPcs, Goto(n, p)
                  PROVE (loop \in [Nodes -> LoopStates])'
  BY LoopUpdates DEF TypeOK, Goto

(* So does its return to rest. *)
LEMMA RestType == ASSUME TypeOK, NEW n \in Nodes, Rest(n)
                  PROVE (loop \in [Nodes -> LoopStates])'
  BY LoopUpdates DEF TypeOK, Rest

(* What the shared updates do, field by field *)
LEMMA IdleFields == Idle.pc = "idle"
  BY DEF Idle

(* Goto changes the place and nothing else. *)
LEMMA GotoEffect ==
  ASSUME TypeOK, NEW n \in Nodes, NEW p, Goto(n, p)
  PROVE \A m \in Nodes :
          /\ loop'[m].pc = IF m = n THEN p ELSE loop[m].pc
          /\ loop'[m].task = loop[m].task /\ loop'[m].seen = loop[m].seen
          /\ loop'[m].by = loop[m].by /\ loop'[m].age = loop[m].age
  BY DEF TypeOK, LoopStates, Goto

(* Rest forgets the operation of one runner only. *)
LEMMA RestEffect ==
  ASSUME TypeOK, NEW n \in Nodes, Rest(n)
  PROVE loop'[n].pc = "idle" /\ \A m \in Nodes \ {n} : loop'[m] = loop[m]
  BY IdleFields DEF TypeOK, Rest

(* Marking ends a running row and leaves every other one alone. *)
LEMMA MarkEffect ==
  ASSUME TypeOK, NEW u, MarkLeaseExpired(u)
  PROVE \A t \in Tasks :
          /\ task'[t].by = task[t].by
          /\ IF t = u /\ task[t].status = "running"
             THEN task'[t].status = "failed" /\ task'[t].active = FALSE
             ELSE task'[t] = task[t]
  BY DEF TypeOK, TaskRows, MarkLeaseExpired

(* The tables are well formed at first. *)
LEMMA InitType == Init => TypeOK
<1> SUFFICES ASSUME Init PROVE TypeOK
  OBVIOUS
<1>1. task \in [Tasks -> TaskRows]
  BY RowUpdates DEF Init
<1>2. lock \in LockRows /\ loop \in [Nodes -> LoopStates]
  BY LockUpdates, LoopUpdates DEF Init
<1>3. run \in [Tasks -> [Nodes -> RunStates]]
  BY DEF Init, RunStates
<1>4. dbErrors \in 0..MaxDbErrors /\ crashes \in 0..MaxCrashes
  BY FaultsAssumption DEF Init
<1> QED
  BY <1>1, <1>2, <1>3, <1>4 DEF TypeOK

(* Every step keeps them well formed. *)
LEMMA NextType == TypeOK /\ [Next]_vars => TypeOK'
<1> SUFFICES ASSUME TypeOK, [Next]_vars PROVE TypeOK'
  OBVIOUS
<1>1. ASSUME NEW t \in Tasks, CreateSystemTask(t) PROVE TypeOK'
  <2>1. (task \in [Tasks -> TaskRows])'
    BY <1>1, RowUpdates DEF TypeOK, CreateSystemTask
  <2> QED
    BY <1>1, <2>1 DEF TypeOK, CreateSystemTask
<1>2. ASSUME NEW n \in Nodes, SweepBegin(n) PROVE TypeOK'
  <2>1. (loop \in [Nodes -> LoopStates])'
    BY <1>2, LoopUpdates DEF TypeOK, SweepBegin, Expired, LoopPcs, LockRows
  <2> QED
    BY <1>2, <2>1 DEF TypeOK, SweepBegin
<1>3. ASSUME NEW n \in Nodes, ClaimBegin(n) PROVE TypeOK'
  <2>1. (loop \in [Nodes -> LoopStates])'
    BY <1>3, LoopUpdates DEF TypeOK, ClaimBegin, LoopPcs
  <2> QED
    BY <1>3, <2>1 DEF TypeOK, ClaimBegin
<1>4. ASSUME NEW n \in Nodes, SweepMark(n) PROVE TypeOK'
  <2>1. (task \in [Tasks -> TaskRows])'
    BY <1>4, MarkType DEF TypeOK, SweepMark
  <2>2. (loop \in [Nodes -> LoopStates])'
    BY <1>4, GotoType, RestType DEF SweepMark, LoopPcs
  <2>3. (dbErrors \in 0..MaxDbErrors)'
    BY <1>4, FaultsAssumption DEF TypeOK, SweepMark, MarkLeaseExpired, Goto, Rest, DbOk, DbError
  <2> QED
    BY <1>4, <2>1, <2>2, <2>3 DEF TypeOK, SweepMark
<1>5. ASSUME NEW n \in Nodes, SweepDelete(n) PROVE TypeOK'
  <2>1. (lock \in LockRows)'
    BY <1>5, LockUpdates DEF TypeOK, SweepDelete, Rest, DbOk, DbError
  <2>2. (loop \in [Nodes -> LoopStates])'
    BY <1>5, LoopUpdates DEF TypeOK, SweepDelete, Rest, DbOk, DbError, LoopPcs
  <2>3. (dbErrors \in 0..MaxDbErrors)'
    BY <1>5, FaultsAssumption DEF TypeOK, SweepDelete, Rest, DbOk, DbError
  <2> QED
    BY <1>5, <2>1, <2>2, <2>3 DEF TypeOK, SweepDelete
<1>6. ASSUME NEW n \in Nodes, ClaimInsert(n) PROVE TypeOK'
  <2>1. (lock \in LockRows)'
    BY <1>6, LockUpdates DEF TypeOK, ClaimInsert, Goto, DbOk, DbError, Lease, LockRows,
       LoopStates
  <2>2. (loop \in [Nodes -> LoopStates])'
    BY <1>6, GotoType DEF ClaimInsert, LoopPcs
  <2>3. (dbErrors \in 0..MaxDbErrors)'
    BY <1>6, FaultsAssumption DEF TypeOK, ClaimInsert, Goto, DbOk, DbError
  <2> QED
    BY <1>6, <2>1, <2>2, <2>3 DEF TypeOK, ClaimInsert
<1>l. ASSUME NEW n \in Nodes, ClaimLook(n) PROVE TypeOK'
  <2>1. (loop \in [Nodes -> LoopStates])'
    <3>1. lock.task \in Tasks \cup {0}
      BY DEF TypeOK, LockRows
    <3>2. CASE loop' = [loop EXCEPT ![n].pc = "takeover", ![n].seen = lock.task]
      BY <3>1, <3>2, LoopUpdates DEF TypeOK
    <3> QED
      BY <1>l, <3>2, RestType DEF ClaimLook
  <2>2. (dbErrors \in 0..MaxDbErrors)'
    BY <1>l, FaultsAssumption DEF TypeOK, ClaimLook, Rest, DbOk, DbError
  <2> QED
    BY <1>l, <2>1, <2>2 DEF TypeOK, ClaimLook
<1>7. ASSUME NEW n \in Nodes, ClaimTakeover(n) PROVE TypeOK'
  <2>1. (lock \in LockRows)'
    BY <1>7, LockUpdates DEF TypeOK, ClaimTakeover, AfterTakeover, Goto, Rest, DbOk, DbError,
       Lease, LockRows, LoopStates
  <2>2. (loop \in [Nodes -> LoopStates])'
    BY <1>7, GotoType, RestType DEF ClaimTakeover, AfterTakeover, LoopPcs
  <2>3. (dbErrors \in 0..MaxDbErrors)'
    BY <1>7, FaultsAssumption DEF TypeOK, ClaimTakeover, AfterTakeover, Goto, Rest, DbOk, DbError
  <2> QED
    BY <1>7, <2>1, <2>2, <2>3 DEF TypeOK, ClaimTakeover
<1>8. ASSUME NEW n \in Nodes, ClaimMark(n) PROVE TypeOK'
  <2>1. (task \in [Tasks -> TaskRows])'
    BY <1>8, MarkType DEF TypeOK, ClaimMark
  <2>2. (loop \in [Nodes -> LoopStates])'
    BY <1>8, GotoType DEF ClaimMark, LoopPcs
  <2>3. (dbErrors \in 0..MaxDbErrors)'
    BY <1>8, FaultsAssumption DEF TypeOK, ClaimMark, MarkLeaseExpired, Goto, DbOk, DbError
  <2> QED
    BY <1>8, <2>1, <2>2, <2>3 DEF TypeOK, ClaimMark
<1>9. ASSUME NEW n \in Nodes, ClaimRun(n) PROVE TypeOK'
  <2>1. (task \in [Tasks -> TaskRows])'
    <3>1. CASE task' = [task EXCEPT ![loop[n].task].status = "running", ![loop[n].task].by = n]
      BY <3>1, RowUpdates DEF TypeOK
    <3> QED
      BY <1>9, <3>1 DEF TypeOK, ClaimRun
  <2>2. (loop \in [Nodes -> LoopStates])'
    BY <1>9, GotoType, RestType DEF ClaimRun, LoopPcs
  <2>3. (run \in [Tasks -> [Nodes -> RunStates]])'
    BY <1>9 DEF TypeOK, ClaimRun, Goto, Rest, DbOk, DbError, RunStates
  <2>4. (dbErrors \in 0..MaxDbErrors)'
    BY <1>9, FaultsAssumption DEF TypeOK, ClaimRun, Goto, Rest, DbOk, DbError
  <2> QED
    BY <1>9, <2>1, <2>2, <2>3, <2>4 DEF TypeOK, ClaimRun
<1>10. ASSUME NEW n \in Nodes, ClaimRelease(n) PROVE TypeOK'
  <2>1. (lock \in LockRows)'
    BY <1>10, LockUpdates DEF TypeOK, ClaimRelease, Release, Rest, DbOk, DbError
  <2>2. (loop \in [Nodes -> LoopStates])'
    BY <1>10, LoopUpdates DEF TypeOK, ClaimRelease, Release, Rest, DbOk, DbError, LoopPcs
  <2>3. (dbErrors \in 0..MaxDbErrors)'
    BY <1>10, FaultsAssumption DEF TypeOK, ClaimRelease, Release, Rest, DbOk, DbError
  <2> QED
    BY <1>10, <2>1, <2>2, <2>3 DEF TypeOK, ClaimRelease
<1>11. ASSUME NEW n \in Nodes, Crash(n) PROVE TypeOK'
  <2>1. (loop \in [Nodes -> LoopStates])'
    BY <1>11, LoopUpdates DEF TypeOK, Crash, LoopPcs
  <2>2. (run \in [Tasks -> [Nodes -> RunStates]])'
    BY <1>11 DEF TypeOK, Crash, RunStates
  <2>3. (crashes \in 0..MaxCrashes)'
    BY <1>11, FaultsAssumption DEF TypeOK, Crash
  <2> QED
    BY <1>11, <2>1, <2>2, <2>3 DEF TypeOK, Crash
<1>12. ASSUME NEW t \in Tasks, NEW n \in Nodes, Heartbeat(t, n) PROVE TypeOK'
  <2>1. (lock \in LockRows)'
    BY <1>12, LockUpdates DEF TypeOK, Heartbeat, DbOk, DbError
  <2>2. (run \in [Tasks -> [Nodes -> RunStates]])'
    BY <1>12 DEF TypeOK, Heartbeat, DbOk, DbError, RunStates
  <2>3. (dbErrors \in 0..MaxDbErrors)'
    BY <1>12, FaultsAssumption DEF TypeOK, Heartbeat, DbOk, DbError
  <2> QED
    BY <1>12, <2>1, <2>2, <2>3 DEF TypeOK, Heartbeat
<1>13. ASSUME NEW t \in Tasks, NEW n \in Nodes, HandlerEnds(t, n) PROVE TypeOK'
  <2>1. (task \in [Tasks -> TaskRows])'
    <3>1. ASSUME NEW s \in {"succeeded", "failed"},
                 task' = [task EXCEPT ![t].status = s, ![t].active = FALSE]
          PROVE (task \in [Tasks -> TaskRows])'
      BY <3>1, RowUpdates DEF TypeOK
    <3> QED
      BY <1>13, <3>1 DEF TypeOK, HandlerEnds
  <2>2. (run \in [Tasks -> [Nodes -> RunStates]])'
    <3>1. run' = [run EXCEPT ![t][n] = "finished"] \/ run' = [run EXCEPT ![t][n] = "done"]
      BY <1>13 DEF HandlerEnds
    <3> QED
      BY <3>1 DEF TypeOK, RunStates
  <2> QED
    BY <1>13, <2>1, <2>2 DEF TypeOK, HandlerEnds, DbOk
<1>14. ASSUME NEW t \in Tasks, NEW n \in Nodes, FinishRelease(t, n) PROVE TypeOK'
  <2>1. (lock \in LockRows)'
    BY <1>14, LockUpdates DEF TypeOK, FinishRelease, Release, DbOk, DbError
  <2>2. (run \in [Tasks -> [Nodes -> RunStates]])'
    BY <1>14 DEF TypeOK, FinishRelease, Release, DbOk, DbError, RunStates
  <2>3. (dbErrors \in 0..MaxDbErrors)'
    BY <1>14, FaultsAssumption DEF TypeOK, FinishRelease, Release, DbOk, DbError
  <2> QED
    BY <1>14, <2>1, <2>2, <2>3 DEF TypeOK, FinishRelease
<1>15. ASSUME Tick PROVE TypeOK'
  <2>1. (lock \in LockRows)'
    BY <1>15, LockUpdates DEF TypeOK, Tick, Busy
  <2>2. (loop \in [Nodes -> LoopStates])'
    BY <1>15, LoopUpdates DEF TypeOK, Tick, Busy, LoopStates
  <2> QED
    BY <1>15, <2>1, <2>2 DEF TypeOK, Tick
<1>16. ASSUME UNCHANGED vars PROVE TypeOK'
  BY <1>16 DEF vars, TypeOK
<1> QED
  BY <1>1, <1>2, <1>3, <1>4, <1>5, <1>6, <1>l, <1>7, <1>8, <1>9, <1>10, <1>11, <1>12, <1>13, <1>14,
     <1>15, <1>16 DEF Next, LoopStep, HandlerStep

(* Init establishes the invariant. *)
LEMMA InitInv == ASSUME Timely, Init PROVE IInv
<1>1. \A t \in Tasks : task[t].status = "none" /\ ~task[t].active /\ task[t].by = 0
  BY DEF Init, Timely, NoTask
<1>2. \A t \in Tasks, n \in Nodes : run[t][n] = "no"
  BY DEF Init
<1>3. \A n \in Nodes : loop[n].pc = "idle"
  BY DEF Init, Idle
<1>4. Shape
  BY <1>1, <1>2, <1>3, InitType
  DEF Shape, SweepHasTask, TakeoverHasSeen, ClaimIsFirst, Claiming, Dispatch,
      UnclaimedHasNoRunner, RunnerIsRecorded
<1>5. KeyTracksStatus /\ OneActiveKey /\ FinishedHasEnded
  BY <1>1, <1>2 DEF KeyTracksStatus, OneActiveKey, FinishedHasEnded, ActiveStatus
<1>6. ClaimHoldsLock /\ LateOps /\ RunningIsLeased
  BY <1>1, <1>3 DEF ClaimHoldsLock, LateOps, RunningIsLeased
<1> QED
  BY <1>4, <1>5, <1>6 DEF IInv

(* A new row is pending and alone in having the key. *)
LEMMA CreateSystemTaskInv ==
  ASSUME Timely, IInv, TypeOK', NEW t \in Tasks, CreateSystemTask(t)
  PROVE IInv'
<1>0. TypeOK
  BY DEF IInv, Shape
<1>1. task[t].status = "none" /\ \A u \in Tasks : ~task[u].active
  BY <1>0 DEF CreateSystemTask, KeyIsFree
<1>2. /\ task'[t].status = "pending" /\ task'[t].active /\ task'[t].by = 0
      /\ \A u \in Tasks \ {t} : task'[u] = task[u]
  BY <1>0 DEF CreateSystemTask, NoTask, TypeOK, TaskRows
<1>3. UNCHANGED <<lock, loop, run>>
  BY DEF CreateSystemTask
<1>4. SweepHasTask' /\ TakeoverHasSeen' /\ ClaimHoldsLock'
  BY <1>3 DEF IInv, Shape, Dispatch, SweepHasTask, TakeoverHasSeen, ClaimHoldsLock, LockOf
<1>5. ClaimIsFirst'
  BY <1>1, <1>2, <1>3
  DEF IInv, Shape, ClaimIsFirst, Claiming
<1>6. UnclaimedHasNoRunner'
  BY <1>1, <1>2, <1>3
  DEF IInv, Shape, Dispatch, UnclaimedHasNoRunner
<1>7. RunnerIsRecorded'
  BY <1>1, <1>2, <1>3
  DEF IInv, Shape, Dispatch, RunnerIsRecorded, UnclaimedHasNoRunner
<1>8. KeyTracksStatus'
  BY <1>1, <1>2, <1>3
  DEF IInv, KeyTracksStatus, ActiveStatus
<1>9. OneActiveKey'
  BY <1>1, <1>2, <1>3
  DEF IInv, OneActiveKey
<1>10. FinishedHasEnded'
  BY <1>1, <1>2, <1>3, TasksAssumption
  DEF IInv, Shape, Dispatch, FinishedHasEnded, UnclaimedHasNoRunner, RunnerIsRecorded,
      ActiveStatus
<1>11. LateOps'
  BY <1>1, <1>2, <1>3
  DEF IInv, LateOps
<1>12. RunningIsLeased'
  BY <1>1, <1>2, <1>3
  DEF IInv, RunningIsLeased, LockOf
<1> QED
  BY <1>4, <1>5, <1>6, <1>7, <1>8, <1>9, <1>10, <1>11, <1>12 DEF IInv, Shape, Dispatch

(* Reading a stale lock promises nothing yet. *)
LEMMA SweepBeginInv ==
  ASSUME Timely, IInv, TypeOK', NEW n \in Nodes, SweepBegin(n)
  PROVE IInv'
<1>0. TypeOK
  BY DEF IInv, Shape
<1>1. /\ loop'[n].pc = "sweepmark" /\ loop'[n].task \in Tasks
      /\ \A m \in Nodes \ {n} : loop'[m] = loop[m]
  BY <1>0 DEF SweepBegin, Expired, Idle, TypeOK, LockRows
<1>2. UNCHANGED <<task, lock, run>>
  BY DEF SweepBegin
<1>3. /\ UnclaimedHasNoRunner'
      /\ RunnerIsRecorded'
      /\ KeyTracksStatus'
      /\ OneActiveKey'
      /\ FinishedHasEnded'
      /\ RunningIsLeased'
  BY <1>2 DEF IInv, Shape, Dispatch, UnclaimedHasNoRunner, RunnerIsRecorded, KeyTracksStatus,
     OneActiveKey, FinishedHasEnded, RunningIsLeased, ActiveStatus, LockOf
<1>4. SweepHasTask'
  BY <1>1, <1>2
  DEF IInv, Shape, SweepHasTask
<1>5. TakeoverHasSeen'
  BY <1>1, <1>2
  DEF IInv, Shape, TakeoverHasSeen
<1>6. ClaimIsFirst'
  BY <1>1, <1>2
  DEF IInv, Shape, ClaimIsFirst, Claiming
<1>7. ClaimHoldsLock'
  BY <1>1, <1>2
  DEF IInv, ClaimHoldsLock, LockOf
<1>8. LateOps'
  BY <1>1, <1>2
  DEF IInv, LateOps
<1> QED
  BY <1>3, <1>4, <1>5, <1>6, <1>7, <1>8 DEF IInv, Shape, Dispatch

(* A claim starts from a pending row, so no row is running and none is late. *)
LEMMA ClaimBeginInv ==
  ASSUME Timely, IInv, TypeOK', NEW n \in Nodes, ClaimBegin(n)
  PROVE IInv'
<1>0. TypeOK
  BY DEF IInv, Shape
<1>1. \E t \in Tasks : task[t].status = "pending" /\ loop'[n].pc = "insert" /\ loop'[n].task = t
  BY <1>0 DEF ClaimBegin, EarliestPending, Idle, TypeOK
<1>2. \A m \in Nodes \ {n} : loop'[m] = loop[m]
  BY <1>0 DEF ClaimBegin, TypeOK
<1>3. UNCHANGED <<task, lock, run>>
  BY DEF ClaimBegin
<1>4. /\ UnclaimedHasNoRunner'
      /\ RunnerIsRecorded'
      /\ KeyTracksStatus'
      /\ OneActiveKey'
      /\ FinishedHasEnded'
      /\ RunningIsLeased'
  BY <1>3 DEF IInv, Shape, Dispatch, UnclaimedHasNoRunner, RunnerIsRecorded, KeyTracksStatus,
     OneActiveKey, FinishedHasEnded, RunningIsLeased, ActiveStatus, LockOf
<1>5. SweepHasTask'
  BY <1>1, <1>2, <1>3
  DEF IInv, Shape, SweepHasTask
<1>6. TakeoverHasSeen'
  BY <1>1, <1>2, <1>3
  DEF IInv, Shape, TakeoverHasSeen
<1>7. ClaimIsFirst'
  BY <1>1, <1>2, <1>3, TasksAssumption
  DEF IInv, Shape, Dispatch, ClaimIsFirst, UnclaimedHasNoRunner, RunnerIsRecorded, Claiming
<1>8. ClaimHoldsLock'
  BY <1>1, <1>2, <1>3
  DEF IInv, ClaimHoldsLock, LockOf
<1>9. LateOps'
  BY <1>1, <1>2, <1>3
  DEF IInv, LateOps, KeyTracksStatus, OneActiveKey, ActiveStatus
<1> QED
  BY <1>4, <1>5, <1>6, <1>7, <1>8, <1>9 DEF IInv, Shape, Dispatch

(* Once marked, the row of the stale lock is not running. *)
LEMMA SweepMarkInv ==
  ASSUME Timely, IInv, TypeOK', NEW n \in Nodes, SweepMark(n)
  PROVE IInv'
<1>0. TypeOK
  BY DEF IInv, Shape
<1>1. loop[n].pc = "sweepmark"
  BY <1>0 DEF SweepMark
<1>2. \/ /\ \A m \in Nodes :
              /\ loop'[m].pc = IF m = n THEN "sweepdelete" ELSE loop[m].pc
              /\ loop'[m].task = loop[m].task /\ loop'[m].seen = loop[m].seen /\ loop'[m].age = loop[m].age
         /\ \A t \in Tasks :
              /\ task'[t].by = task[t].by
              /\ IF t = loop[n].task /\ task[t].status = "running"
                 THEN task'[t].status = "failed" /\ task'[t].active = FALSE
                 ELSE task'[t] = task[t]
      \/ /\ loop'[n].pc = "idle" /\ \A m \in Nodes \ {n} : loop'[m] = loop[m]
         /\ task' = task
  BY <1>0, GotoEffect, RestEffect, MarkEffect DEF SweepMark
<1>3. UNCHANGED <<lock, run>>
  BY DEF SweepMark
<1>4. SweepHasTask'
  BY <1>1, <1>2, <1>3
  DEF IInv, Shape, SweepHasTask
<1>5. TakeoverHasSeen'
  BY <1>1, <1>2, <1>3
  DEF IInv, Shape, TakeoverHasSeen
<1>6. ClaimIsFirst'
  BY <1>1, <1>2, <1>3
  DEF IInv, Shape, ClaimIsFirst, Claiming
<1>7. UnclaimedHasNoRunner'
  BY <1>1, <1>2, <1>3
  DEF IInv, Shape, Dispatch, UnclaimedHasNoRunner
<1>8. RunnerIsRecorded'
  BY <1>1, <1>2, <1>3
  DEF IInv, Shape, Dispatch, RunnerIsRecorded
<1>9. KeyTracksStatus'
  BY <1>1, <1>2, <1>3
  DEF IInv, KeyTracksStatus, ActiveStatus
<1>10. OneActiveKey'
  BY <1>1, <1>2, <1>3
  DEF IInv, OneActiveKey
<1>11. FinishedHasEnded'
  BY <1>1, <1>2, <1>3
  DEF IInv, FinishedHasEnded, ActiveStatus
<1>12. ClaimHoldsLock'
  BY <1>1, <1>2, <1>3
  DEF IInv, Shape, Dispatch, ClaimHoldsLock, ClaimIsFirst, RunnerIsRecorded, LockOf, Claiming
<1>13. LateOps'
  <2> SUFFICES ASSUME NEW m \in Nodes, NEW u \in Tasks, (task[u].status = "running")',
                      \/ loop'[m].pc \in {"insert", "look", "takeover"}
                      \/ loop'[m].pc = "sweepdelete" /\ loop'[m].task = u
               PROVE lock'.left >= -loop'[m].age
    BY DEF LateOps
  <2>1. task[u].status = "running"
    BY <1>2
  <2>2. CASE m = n
    BY <1>1, <1>2, <2>1, <2>2
  <2>3. CASE m # n
    <3>1. loop'[m].pc = loop[m].pc /\ loop'[m].task = loop[m].task /\ loop'[m].age = loop[m].age
      BY <1>2, <2>3
    <3> QED
      BY <1>3, <2>1, <3>1 DEF IInv, LateOps
  <2> QED
    BY <2>2, <2>3
<1>14. RunningIsLeased'
  BY <1>1, <1>2, <1>3
  DEF IInv, RunningIsLeased, LockOf
<1> QED
  BY <1>4, <1>5, <1>6, <1>7, <1>8, <1>9, <1>10, <1>11, <1>12, <1>13, <1>14 DEF IInv, Shape,
     Dispatch

(* The lock deleted is not that of a running row: LateOps forbids it. *)
LEMMA SweepDeleteInv ==
  ASSUME Timely, IInv, TypeOK', NEW n \in Nodes, SweepDelete(n)
  PROVE IInv'
<1>0. TypeOK
  BY DEF IInv, Shape
<1>1. loop[n].pc = "sweepdelete"
  BY <1>0 DEF SweepDelete
<1>2. loop'[n].pc = "idle" /\ \A m \in Nodes \ {n} : loop'[m] = loop[m]
  BY <1>0, RestEffect DEF SweepDelete
<1>3. lock' # lock => LockOf(loop[n].task, loop[n].by) /\ lock.left < -loop[n].age
  BY <1>0 DEF SweepDelete, Expired
<1>4. UNCHANGED <<task, run>>
  BY DEF SweepDelete
<1>5. /\ UnclaimedHasNoRunner'
      /\ RunnerIsRecorded'
      /\ KeyTracksStatus'
      /\ OneActiveKey'
      /\ FinishedHasEnded'
  BY <1>4 DEF IInv, Shape, Dispatch, UnclaimedHasNoRunner, RunnerIsRecorded, KeyTracksStatus,
     OneActiveKey, FinishedHasEnded, ActiveStatus
<1>6. SweepHasTask'
  BY <1>1, <1>2, <1>3, <1>4
  DEF IInv, Shape, SweepHasTask, LockOf
<1>7. TakeoverHasSeen'
  BY <1>1, <1>2, <1>3, <1>4
  DEF IInv, Shape, TakeoverHasSeen, LockOf
<1>8. ClaimIsFirst'
  BY <1>1, <1>2, <1>3, <1>4
  DEF IInv, Shape, ClaimIsFirst, Claiming, LockOf
<1>9. ClaimHoldsLock'
  <2> SUFFICES ASSUME NEW m \in Nodes, loop'[m].pc \in {"mark", "cas"}
               PROVE /\ lock'.task = loop'[m].task /\ lock'.by = m
                     /\ lock'.left = TTL - loop'[m].age
    BY DEF ClaimHoldsLock, LockOf
  <2>1. loop[m].pc \in {"mark", "cas"} /\ loop'[m] = loop[m]
    BY <1>2
  <2>2. lock.task = loop[m].task /\ lock.by = m /\ lock.left = TTL - loop[m].age
    BY <2>1 DEF IInv, ClaimHoldsLock, LockOf
  <2>3. ~(lock.left < -loop[n].age)
    BY <1>0, <2>2, TimeAssumption DEF Timely, TypeOK, LoopStates
  <2> QED
    BY <1>3, <2>1, <2>2, <2>3
<1>10. LateOps'
  <2> SUFFICES ASSUME NEW m \in Nodes, NEW u \in Tasks, (task[u].status = "running")',
                      \/ loop'[m].pc \in {"insert", "look", "takeover"}
                      \/ loop'[m].pc = "sweepdelete" /\ loop'[m].task = u
               PROVE lock'.left >= -loop'[m].age
    BY DEF LateOps
  <2>1. task[u].status = "running" /\ LockOf(u, task[u].by)
    BY <1>4 DEF IInv, RunningIsLeased
  <2>2. loop[n].task = u => lock.left >= -loop[n].age
    BY <1>1, <2>1 DEF IInv, LateOps
  <2>3. lock' = lock
    BY <1>0, <1>3, <2>1, <2>2 DEF LockOf, TypeOK, LockRows, LoopStates
  <2> QED
    BY <1>2, <2>1, <2>3 DEF IInv, LateOps
<1>11. RunningIsLeased'
  <2> SUFFICES ASSUME NEW u \in Tasks, task'[u].status = "running"
               PROVE lock'.task = u /\ lock'.by = task'[u].by
    BY DEF RunningIsLeased, LockOf
  <2>1. task[u].status = "running" /\ LockOf(u, task[u].by)
    BY <1>4 DEF IInv, RunningIsLeased
  <2>2. loop[n].task = u => lock.left >= -loop[n].age
    BY <1>1, <2>1 DEF IInv, LateOps
  <2>3. lock' = lock
    BY <1>0, <1>3, <2>1, <2>2 DEF LockOf, TypeOK, LockRows, LoopStates
  <2> QED
    BY <1>4, <2>1, <2>3 DEF LockOf
<1> QED
  BY <1>5, <1>6, <1>7, <1>8, <1>9, <1>10, <1>11 DEF IInv, Shape, Dispatch

(* A claim that has not got the lock row yet; it takes no lock from a       *)
(* running row.                                                             *)
LEMMA AcquireInv ==
  ASSUME Timely, IInv, TypeOK', NEW n \in Nodes, loop[n].pc \in {"insert", "look"}, UNCHANGED <<task, run>>,
         \/ /\ lock.task = 0
            /\ lock'.task = loop[n].task /\ lock'.by = n /\ lock'.left = TTL - loop[n].age
            /\ \A m \in Nodes :
                 /\ loop'[m].pc = IF m = n THEN "cas" ELSE loop[m].pc
                 /\ loop'[m].task = loop[m].task /\ loop'[m].seen = loop[m].seen /\ loop'[m].age = loop[m].age
         \/ /\ lock' = lock
            /\ \/ loop'[n].pc = "look"
               \/ loop'[n].pc = "takeover" /\ loop'[n].seen \in Tasks
            /\ loop'[n].task = loop[n].task /\ loop'[n].age = loop[n].age
            /\ \A m \in Nodes \ {n} : loop'[m] = loop[m]
         \/ lock' = lock /\ loop'[n].pc = "idle" /\ \A m \in Nodes \ {n} : loop'[m] = loop[m]
  PROVE IInv'
<1>0. TypeOK
  BY DEF IInv, Shape
<1>1. loop[n].pc \in {"insert", "look"}
  OBVIOUS
<1>2. \/ /\ lock.task = 0
         /\ lock'.task = loop[n].task /\ lock'.by = n /\ lock'.left = TTL - loop[n].age
         /\ \A m \in Nodes :
              /\ loop'[m].pc = IF m = n THEN "cas" ELSE loop[m].pc
              /\ loop'[m].task = loop[m].task /\ loop'[m].seen = loop[m].seen /\ loop'[m].age = loop[m].age
      \/ /\ lock' = lock
         /\ \/ loop'[n].pc = "look"
            \/ loop'[n].pc = "takeover" /\ loop'[n].seen \in Tasks
         /\ loop'[n].task = loop[n].task /\ loop'[n].age = loop[n].age
         /\ \A m \in Nodes \ {n} : loop'[m] = loop[m]
      \/ lock' = lock /\ loop'[n].pc = "idle" /\ \A m \in Nodes \ {n} : loop'[m] = loop[m]
  OBVIOUS
<1>3. UNCHANGED <<task, run>>
  OBVIOUS
<1>4. /\ UnclaimedHasNoRunner'
      /\ RunnerIsRecorded'
      /\ KeyTracksStatus'
      /\ OneActiveKey'
      /\ FinishedHasEnded'
  BY <1>3 DEF IInv, Shape, Dispatch, UnclaimedHasNoRunner, RunnerIsRecorded, KeyTracksStatus,
     OneActiveKey, FinishedHasEnded, ActiveStatus
<1>5. SweepHasTask'
  BY <1>1, <1>2, <1>3
  DEF IInv, Shape, SweepHasTask, LockOf
<1>6. TakeoverHasSeen'
  BY <1>1, <1>2, <1>3
  DEF IInv, Shape, TakeoverHasSeen, LockOf
<1>7. ClaimIsFirst'
  BY <1>1, <1>2, <1>3
  DEF IInv, Shape, ClaimIsFirst, Claiming, LockOf
<1>8. ClaimHoldsLock'
  <2> SUFFICES ASSUME NEW m \in Nodes, loop'[m].pc \in {"mark", "cas"}
               PROVE /\ lock'.task = loop'[m].task /\ lock'.by = m
                     /\ lock'.left = TTL - loop'[m].age
    BY DEF ClaimHoldsLock, LockOf
  <2>1. CASE m = n
    BY <1>2, <2>1
  <2>2. CASE m # n
    <3>1. loop[m].pc \in {"mark", "cas"} /\ loop'[m].task = loop[m].task /\ loop'[m].age = loop[m].age
      BY <1>2, <2>2
    <3>2. lock.task = loop[m].task /\ lock.by = m /\ lock.left = TTL - loop[m].age /\ loop[m].task \in Tasks
      BY <3>1 DEF IInv, Shape, ClaimIsFirst, Claiming, ClaimHoldsLock, LockOf
    <3>3. lock.task # 0
      BY <3>2, TasksAssumption DEF Tasks
    <3> QED
      BY <1>2, <3>1, <3>2, <3>3
  <2> QED
    BY <2>1, <2>2
<1>9. LateOps'
  <2> SUFFICES ASSUME NEW m \in Nodes, NEW u \in Tasks, (task[u].status = "running")',
                      \/ loop'[m].pc \in {"insert", "look", "takeover"}
                      \/ loop'[m].pc = "sweepdelete" /\ loop'[m].task = u
               PROVE lock'.left >= -loop'[m].age
    BY DEF LateOps
  <2>1. task[u].status = "running" /\ lock.task = u
    BY <1>3 DEF IInv, RunningIsLeased, LockOf
  <2>2. lock' = lock
    BY <1>2, <2>1, TasksAssumption DEF Tasks
  <2>3. CASE m = n
    <3>1. loop'[m].age = loop[m].age
      BY <1>2, <2>3
    <3> QED
      BY <1>1, <2>1, <2>2, <2>3, <3>1 DEF IInv, LateOps
  <2>4. CASE m # n
    <3>1. loop'[m].pc = loop[m].pc /\ loop'[m].task = loop[m].task /\ loop'[m].age = loop[m].age
      BY <1>2, <2>4
    <3> QED
      BY <2>1, <2>2, <3>1 DEF IInv, LateOps
  <2> QED
    BY <2>3, <2>4
<1>10. RunningIsLeased'
  BY <1>0, <1>1, <1>2, <1>3, TasksAssumption
  DEF IInv, Shape, RunningIsLeased, LockOf, TypeOK, Tasks
<1> QED
  BY <1>4, <1>5, <1>6, <1>7, <1>8, <1>9, <1>10 DEF IInv, Shape, Dispatch

(* The lock row is inserted where there is none. *)
LEMMA ClaimInsertInv ==
  ASSUME Timely, IInv, TypeOK', NEW n \in Nodes, ClaimInsert(n)
  PROVE IInv'
<1>0. TypeOK
  BY DEF IInv, Shape
<1>1. loop[n].pc = "insert" /\ UNCHANGED <<task, run>>
  BY DEF ClaimInsert
<1>2. CASE lock.task = 0 /\ lock' = Lease(n) /\ Goto(n, "cas")
  <2>1. lock'.task = loop[n].task /\ lock'.by = n /\ lock'.left = TTL - loop[n].age
    BY <1>2 DEF Lease
  <2>2. \A m \in Nodes :
          /\ loop'[m].pc = IF m = n THEN "cas" ELSE loop[m].pc
          /\ loop'[m].task = loop[m].task /\ loop'[m].seen = loop[m].seen /\ loop'[m].age = loop[m].age
    BY <1>0, <1>2, GotoEffect
  <2> QED
    BY <1>1, <1>2, <2>1, <2>2, AcquireInv
<1>3. CASE Goto(n, "look") /\ lock' = lock
  <2>1. /\ loop'[n].pc = "look" /\ loop'[n].task = loop[n].task /\ loop'[n].age = loop[n].age
        /\ \A m \in Nodes \ {n} : loop'[m] = loop[m]
    BY <1>0, <1>3 DEF Goto, TypeOK, LoopStates
  <2> QED
    BY <1>1, <1>3, <2>1, AcquireInv
<1> QED
  BY <1>2, <1>3 DEF ClaimInsert

(* A refused claim looks at the lock row that is there. *)
LEMMA ClaimLookInv ==
  ASSUME Timely, IInv, TypeOK', NEW n \in Nodes, ClaimLook(n)
  PROVE IInv'
<1>0. TypeOK
  BY DEF IInv, Shape
<1>1. loop[n].pc = "look" /\ UNCHANGED <<task, lock, run>>
  BY DEF ClaimLook
<1>2. CASE loop' = [loop EXCEPT ![n].pc = "takeover", ![n].seen = lock.task] /\ Expired(loop[n].age)
  <2>1. /\ loop'[n].pc = "takeover" /\ loop'[n].seen \in Tasks
        /\ loop'[n].task = loop[n].task /\ loop'[n].age = loop[n].age
        /\ \A m \in Nodes \ {n} : loop'[m] = loop[m]
    BY <1>0, <1>2 DEF Expired, TypeOK, LoopStates, LockRows
  <2> QED
    BY <1>1, <2>1, AcquireInv
<1>3. CASE Rest(n)
  <2>1. loop'[n].pc = "idle" /\ \A m \in Nodes \ {n} : loop'[m] = loop[m]
    BY <1>0, <1>3, RestEffect
  <2> QED
    BY <1>1, <2>1, AcquireInv
<1> QED
  BY <1>2, <1>3 DEF ClaimLook

(* A lock that is expired for the claim is not that of a running row. *)
LEMMA ClaimTakeoverInv ==
  ASSUME Timely, IInv, TypeOK', NEW n \in Nodes, ClaimTakeover(n)
  PROVE IInv'
<1>0. TypeOK
  BY DEF IInv, Shape
<1>1. loop[n].pc = "takeover"
  BY <1>0 DEF ClaimTakeover
<1>2. \/ /\ lock.task # 0 /\ lock.left < -loop[n].age
         /\ lock'.task = loop[n].task /\ lock'.by = n /\ lock'.left = TTL - loop[n].age
         /\ loop'[n].pc \in {"mark", "cas"}
         /\ \A m \in Nodes :
              /\ m # n => loop'[m].pc = loop[m].pc
              /\ loop'[m].task = loop[m].task /\ loop'[m].seen = loop[m].seen /\ loop'[m].age = loop[m].age
      \/ lock' = lock /\ loop'[n].pc = "idle" /\ \A m \in Nodes \ {n} : loop'[m] = loop[m]
  BY <1>0, GotoEffect, RestEffect DEF ClaimTakeover, AfterTakeover, Lease, Expired
<1>3. UNCHANGED <<task, run>>
  BY DEF ClaimTakeover
<1>4. /\ UnclaimedHasNoRunner'
      /\ RunnerIsRecorded'
      /\ KeyTracksStatus'
      /\ OneActiveKey'
      /\ FinishedHasEnded'
  BY <1>3 DEF IInv, Shape, Dispatch, UnclaimedHasNoRunner, RunnerIsRecorded, KeyTracksStatus,
     OneActiveKey, FinishedHasEnded, ActiveStatus
<1>5. SweepHasTask'
  BY <1>1, <1>2, <1>3
  DEF IInv, Shape, SweepHasTask, LockOf
<1>6. TakeoverHasSeen'
  BY <1>1, <1>2, <1>3
  DEF IInv, Shape, TakeoverHasSeen, LockOf
<1>7. ClaimIsFirst'
  BY <1>1, <1>2, <1>3
  DEF IInv, Shape, ClaimIsFirst, Claiming, LockOf
<1>8. ClaimHoldsLock'
  <2> SUFFICES ASSUME NEW m \in Nodes, loop'[m].pc \in {"mark", "cas"}
               PROVE /\ lock'.task = loop'[m].task /\ lock'.by = m
                     /\ lock'.left = TTL - loop'[m].age
    BY DEF ClaimHoldsLock, LockOf
  <2>1. CASE m = n
    BY <1>2, <2>1
  <2>2. CASE m # n
    <3>1. loop[m].pc \in {"mark", "cas"} /\ loop'[m].task = loop[m].task /\ loop'[m].age = loop[m].age
      BY <1>2, <2>2
    <3>2. lock.task = loop[m].task /\ lock.by = m /\ lock.left = TTL - loop[m].age
      BY <3>1 DEF IInv, ClaimHoldsLock, LockOf
    <3>3. ~(lock.left < -loop[n].age)
      BY <1>0, <3>2, TimeAssumption DEF Timely, TypeOK, LoopStates
    <3> QED
      BY <1>2, <3>1, <3>2, <3>3
  <2> QED
    BY <2>1, <2>2
<1>9. LateOps'
  <2> SUFFICES ASSUME NEW m \in Nodes, NEW u \in Tasks, (task[u].status = "running")',
                      \/ loop'[m].pc \in {"insert", "look", "takeover"}
                      \/ loop'[m].pc = "sweepdelete" /\ loop'[m].task = u
               PROVE lock'.left >= -loop'[m].age
    BY DEF LateOps
  <2>1. task[u].status = "running" /\ lock.left >= -loop[n].age
    BY <1>1, <1>3 DEF IInv, LateOps
  <2>2. lock' = lock /\ loop'[n].pc = "idle" /\ \A k \in Nodes \ {n} : loop'[k] = loop[k]
    BY <1>0, <1>2, <2>1, TimeAssumption DEF TypeOK, LockRows, LoopStates
  <2> QED
    BY <2>1, <2>2 DEF IInv, LateOps
<1>10. RunningIsLeased'
  BY <1>0, <1>1, <1>2, <1>3, TasksAssumption, TimeAssumption
  DEF IInv, Shape, RunningIsLeased, LateOps, ClaimIsFirst, SweepHasTask, LockOf, Claiming,
      TypeOK, Tasks, Timely, LockRows, LoopStates
<1> QED
  BY <1>4, <1>5, <1>6, <1>7, <1>8, <1>9, <1>10 DEF IInv, Shape, Dispatch

(* Marking the old run keeps the claim's own lock. *)
LEMMA ClaimMarkInv ==
  ASSUME Timely, IInv, TypeOK', NEW n \in Nodes, ClaimMark(n)
  PROVE IInv'
<1>0. TypeOK
  BY DEF IInv, Shape
<1>1. loop[n].pc = "mark"
  BY <1>0 DEF ClaimMark
<1>2. /\ loop'[n].pc \in {"cas", "release"}
      /\ \A m \in Nodes :
           /\ m # n => loop'[m].pc = loop[m].pc
           /\ loop'[m].task = loop[m].task /\ loop'[m].seen = loop[m].seen /\ loop'[m].age = loop[m].age
  BY <1>0, GotoEffect DEF ClaimMark
<1>3. \A t \in Tasks :
        /\ task'[t].by = task[t].by
        /\ \/ task[t].status = "running" /\ task'[t].status = "failed" /\ task'[t].active = FALSE
           \/ task'[t] = task[t]
  BY <1>0, MarkEffect DEF ClaimMark
<1>4. UNCHANGED <<lock, run>>
  BY DEF ClaimMark
<1>5. SweepHasTask'
  BY <1>1, <1>2, <1>3, <1>4
  DEF IInv, Shape, SweepHasTask, LockOf
<1>6. TakeoverHasSeen'
  BY <1>1, <1>2, <1>3, <1>4
  DEF IInv, Shape, TakeoverHasSeen, LockOf
<1>7. ClaimIsFirst'
  BY <1>1, <1>2, <1>3, <1>4
  DEF IInv, Shape, ClaimIsFirst, Claiming, LockOf
<1>8. UnclaimedHasNoRunner'
  BY <1>1, <1>2, <1>3, <1>4
  DEF IInv, Shape, Dispatch, UnclaimedHasNoRunner, LockOf
<1>9. RunnerIsRecorded'
  BY <1>1, <1>2, <1>3, <1>4
  DEF IInv, Shape, Dispatch, RunnerIsRecorded, LockOf
<1>10. KeyTracksStatus'
  BY <1>1, <1>2, <1>3, <1>4
  DEF IInv, KeyTracksStatus, ActiveStatus, LockOf
<1>11. OneActiveKey'
  BY <1>1, <1>2, <1>3, <1>4
  DEF IInv, OneActiveKey, LockOf
<1>12. FinishedHasEnded'
  BY <1>1, <1>2, <1>3, <1>4
  DEF IInv, FinishedHasEnded, ActiveStatus, LockOf
<1>13. ClaimHoldsLock'
  <2> SUFFICES ASSUME NEW m \in Nodes, loop'[m].pc \in {"mark", "cas"}
               PROVE /\ lock'.task = loop'[m].task /\ lock'.by = m
                     /\ lock'.left = TTL - loop'[m].age
    BY DEF ClaimHoldsLock, LockOf
  <2>1. loop[m].pc \in {"mark", "cas"} /\ loop'[m].task = loop[m].task /\ loop'[m].age = loop[m].age
    BY <1>1, <1>2
  <2> QED
    BY <1>4, <2>1 DEF IInv, ClaimHoldsLock, LockOf
<1>14. LateOps'
  BY <1>1, <1>2, <1>3, <1>4
  DEF IInv, LateOps, LockOf
<1>15. RunningIsLeased'
  BY <1>1, <1>2, <1>3, <1>4
  DEF IInv, RunningIsLeased, LockOf
<1> QED
  BY <1>5, <1>6, <1>7, <1>8, <1>9, <1>10, <1>11, <1>12, <1>13, <1>14, <1>15 DEF IInv, Shape,
     Dispatch

(* The row becomes running under the lock the claim holds, unexpired. *)
LEMMA ClaimRunInv ==
  ASSUME Timely, IInv, TypeOK', NEW n \in Nodes, ClaimRun(n)
  PROVE IInv'
<1>0. TypeOK
  BY DEF IInv, Shape
<1>1. loop[n].pc = "cas" /\ loop[n].task \in Tasks
  BY <1>0 DEF ClaimRun, IInv, Shape, ClaimIsFirst, Claiming
<1>2. \/ /\ task[loop[n].task].status = "pending"
         /\ task'[loop[n].task].status = "running" /\ task'[loop[n].task].by = n
         /\ task'[loop[n].task].active = task[loop[n].task].active
         /\ \A t \in Tasks \ {loop[n].task} : task'[t] = task[t]
         /\ \A t \in Tasks, m \in Nodes :
              run'[t][m] = run[t][m] \/ (t = loop[n].task /\ m = n /\ run'[t][m] = "on")
         /\ loop'[n].pc = "idle" /\ \A m \in Nodes \ {n} : loop'[m] = loop[m]
      \/ /\ task' = task /\ run' = run
         /\ \A m \in Nodes :
              /\ loop'[m].pc = IF m = n THEN "release" ELSE loop[m].pc
              /\ loop'[m].task = loop[m].task /\ loop'[m].seen = loop[m].seen /\ loop'[m].age = loop[m].age
  <2> DEFINE t == loop[n].task
  <2>1. CASE /\ Claimable(t) /\ Rest(n)
             /\ task' = [task EXCEPT ![t].status = "running", ![t].by = n]
             /\ run' = [run EXCEPT ![t][n] = "on"] \/ run' = run
    <3>1. /\ task'[t].status = "running" /\ task'[t].by = n /\ task'[t].active = task[t].active
          /\ \A u \in Tasks \ {t} : task'[u] = task[u]
      BY <1>0, <1>1, <2>1 DEF TypeOK, TaskRows
    <3>2. \A u \in Tasks, m \in Nodes : run'[u][m] = run[u][m] \/ (u = t /\ m = n /\ run'[u][m] = "on")
      BY <1>0, <1>1, <2>1 DEF TypeOK
    <3> QED
      BY <1>0, <2>1, <3>1, <3>2, RestEffect DEF Claimable
  <2>2. CASE task' = task /\ run' = run /\ Goto(n, "release")
    BY <1>0, <2>2, GotoEffect
  <2> QED
    BY <2>1, <2>2 DEF ClaimRun, DbOk
<1>3. UNCHANGED <<lock>>
  BY DEF ClaimRun
<1>4. SweepHasTask'
  BY <1>1, <1>2, <1>3
  DEF IInv, Shape, SweepHasTask, LockOf
<1>5. TakeoverHasSeen'
  BY <1>1, <1>2, <1>3
  DEF IInv, Shape, TakeoverHasSeen, LockOf
<1>6. ClaimIsFirst'
  <2> SUFFICES ASSUME NEW m \in Nodes, loop'[m].pc \in Claiming
               PROVE /\ loop'[m].task \in Tasks /\ task'[loop'[m].task].by # m
                     /\ task'[loop'[m].task].status # "none"
    BY DEF ClaimIsFirst
  <2>1. loop[m].pc \in Claiming /\ loop'[m].task = loop[m].task
    BY <1>1, <1>2 DEF Claiming
  <2>2. loop[m].task \in Tasks /\ task[loop[m].task].by # m /\ task[loop[m].task].status # "none"
    BY <2>1 DEF IInv, Shape, ClaimIsFirst
  <2>3. m = n => task' = task
    BY <1>2, <2>1 DEF Claiming
  <2> QED
    BY <1>1, <1>2, <2>1, <2>2, <2>3
<1>7. UnclaimedHasNoRunner'
  BY <1>1, <1>2, <1>3
  DEF IInv, Shape, Dispatch, UnclaimedHasNoRunner, LockOf
<1>8. RunnerIsRecorded'
  BY <1>1, <1>2, <1>3, TasksAssumption
  DEF IInv, Shape, Dispatch, RunnerIsRecorded, KeyTracksStatus, FinishedHasEnded,
      UnclaimedHasNoRunner, ActiveStatus, LockOf
<1>9. KeyTracksStatus'
  BY <1>1, <1>2, <1>3
  DEF IInv, KeyTracksStatus, ActiveStatus, LockOf
<1>10. OneActiveKey'
  BY <1>1, <1>2, <1>3
  DEF IInv, OneActiveKey, LockOf
<1>11. FinishedHasEnded'
  BY <1>1, <1>2, <1>3
  DEF IInv, Shape, Dispatch, FinishedHasEnded, KeyTracksStatus, UnclaimedHasNoRunner,
      RunnerIsRecorded, ActiveStatus, LockOf
<1>12. ClaimHoldsLock'
  BY <1>1, <1>2, <1>3
  DEF IInv, ClaimHoldsLock, LockOf
<1>13. LateOps'
  BY <1>0, <1>1, <1>2, <1>3, TasksAssumption, TimeAssumption
  DEF IInv, Shape, LateOps, ClaimHoldsLock, LockOf, TypeOK, Tasks, Timely, LockRows, LoopStates
<1>14. RunningIsLeased'
  BY <1>1, <1>2, <1>3
  DEF IInv, Shape, Dispatch, RunningIsLeased, ClaimHoldsLock, ClaimIsFirst, RunnerIsRecorded,
      UnclaimedHasNoRunner, FinishedHasEnded, LockOf, Claiming, ActiveStatus
<1> QED
  BY <1>4, <1>5, <1>6, <1>7, <1>8, <1>9, <1>10, <1>11, <1>12, <1>13, <1>14 DEF IInv, Shape,
     Dispatch

(* A claim that failed never ran the row, so the lock it drops is no run's. *)
LEMMA ClaimReleaseInv ==
  ASSUME Timely, IInv, TypeOK', NEW n \in Nodes, ClaimRelease(n)
  PROVE IInv'
<1>0. TypeOK
  BY DEF IInv, Shape
<1>1. loop[n].pc = "release"
  BY <1>0 DEF ClaimRelease
<1>2. loop'[n].pc = "idle" /\ \A m \in Nodes \ {n} : loop'[m] = loop[m]
  BY <1>0, RestEffect DEF ClaimRelease
<1>3. lock' # lock => LockOf(loop[n].task, n)
  BY <1>0 DEF ClaimRelease, Release
<1>4. UNCHANGED <<task, run>>
  BY DEF ClaimRelease
<1>5. /\ UnclaimedHasNoRunner'
      /\ RunnerIsRecorded'
      /\ KeyTracksStatus'
      /\ OneActiveKey'
      /\ FinishedHasEnded'
  BY <1>4 DEF IInv, Shape, Dispatch, UnclaimedHasNoRunner, RunnerIsRecorded, KeyTracksStatus,
     OneActiveKey, FinishedHasEnded, ActiveStatus
<1>6. SweepHasTask'
  BY <1>1, <1>2, <1>3, <1>4
  DEF IInv, Shape, SweepHasTask, LockOf
<1>7. TakeoverHasSeen'
  BY <1>1, <1>2, <1>3, <1>4
  DEF IInv, Shape, TakeoverHasSeen, LockOf
<1>8. ClaimIsFirst'
  BY <1>1, <1>2, <1>3, <1>4
  DEF IInv, Shape, ClaimIsFirst, Claiming, LockOf
<1>9. ClaimHoldsLock'
  BY <1>1, <1>2, <1>3, <1>4
  DEF IInv, Shape, Dispatch, ClaimHoldsLock, UnclaimedHasNoRunner, RunnerIsRecorded, LockOf
<1>10. LateOps'
  <2> SUFFICES ASSUME NEW m \in Nodes, NEW u \in Tasks, (task[u].status = "running")',
                      \/ loop'[m].pc \in {"insert", "look", "takeover"}
                      \/ loop'[m].pc = "sweepdelete" /\ loop'[m].task = u
               PROVE lock'.left >= -loop'[m].age
    BY DEF LateOps
  <2>1. task[u].status = "running" /\ LockOf(u, task[u].by)
    BY <1>4 DEF IInv, RunningIsLeased
  <2>2. task[loop[n].task].by # n
    BY <1>1 DEF IInv, Shape, ClaimIsFirst, Claiming
  <2>3. lock' = lock
    BY <1>3, <2>1, <2>2 DEF LockOf
  <2> QED
    BY <1>2, <2>1, <2>3 DEF IInv, LateOps
<1>11. RunningIsLeased'
  BY <1>1, <1>2, <1>3, <1>4
  DEF IInv, Shape, Dispatch, RunningIsLeased, ClaimIsFirst, RunnerIsRecorded, LockOf, Claiming
<1> QED
  BY <1>5, <1>6, <1>7, <1>8, <1>9, <1>10, <1>11 DEF IInv, Shape, Dispatch

(* A dead node leaves the tables as they are. *)
LEMMA CrashInv ==
  ASSUME Timely, IInv, TypeOK', NEW n \in Nodes, Crash(n)
  PROVE IInv'
<1>0. TypeOK
  BY DEF IInv, Shape
<1>1. loop'[n].pc = "down" /\ \A m \in Nodes \ {n} : loop'[m] = loop[m]
  BY <1>0 DEF Crash, Idle, TypeOK
<1>2. \A t \in Tasks, m \in Nodes : run'[t][m] = run[t][m] \/ (run[t][m] # "no" /\ run'[t][m] = "done")
  BY <1>0 DEF Crash, TypeOK
<1>3. UNCHANGED <<task, lock>>
  BY DEF Crash
<1>4. UnclaimedHasNoRunner' /\ KeyTracksStatus' /\ OneActiveKey' /\ RunningIsLeased'
  BY <1>3 DEF IInv, Shape, Dispatch, UnclaimedHasNoRunner, KeyTracksStatus, OneActiveKey,
     RunningIsLeased, ActiveStatus, LockOf
<1>5. SweepHasTask'
  BY <1>1, <1>2, <1>3
  DEF IInv, Shape, SweepHasTask
<1>6. TakeoverHasSeen'
  BY <1>1, <1>2, <1>3
  DEF IInv, Shape, TakeoverHasSeen
<1>7. ClaimIsFirst'
  BY <1>1, <1>2, <1>3
  DEF IInv, Shape, ClaimIsFirst, Claiming
<1>8. RunnerIsRecorded'
  BY <1>1, <1>2, <1>3
  DEF IInv, Shape, Dispatch, RunnerIsRecorded
<1>9. FinishedHasEnded'
  BY <1>1, <1>2, <1>3
  DEF IInv, FinishedHasEnded, ActiveStatus
<1>10. ClaimHoldsLock'
  BY <1>1, <1>2, <1>3
  DEF IInv, ClaimHoldsLock, KeyTracksStatus, OneActiveKey, LockOf, ActiveStatus
<1>11. LateOps'
  BY <1>1, <1>2, <1>3
  DEF IInv, LateOps
<1> QED
  BY <1>4, <1>5, <1>6, <1>7, <1>8, <1>9, <1>10, <1>11 DEF IInv, Shape, Dispatch

(* A renewal moves only the runner's own lock, and never into the past. *)
LEMMA HeartbeatInv ==
  ASSUME Timely, IInv, TypeOK', NEW t \in Tasks, NEW n \in Nodes, Heartbeat(t, n)
  PROVE IInv'
<1>0. TypeOK
  BY DEF IInv, Shape
<1>1. run[t][n] # "no"
  BY <1>0 DEF Heartbeat
<1>2. \/ /\ LockOf(t, n) /\ lock'.task = t /\ lock'.by = n /\ run' = run
         /\ \E age \in 0..MaxStall : lock'.left = TTL - age
      \/ lock' = lock /\ run' = [run EXCEPT ![t][n] = "cancelled"]
  BY <1>0 DEF Heartbeat, Leased, LockOf, TypeOK, LockRows
<1>3. \A u \in Tasks, m \in Nodes :
        run'[u][m] = run[u][m] \/ (u = t /\ m = n /\ run'[u][m] = "cancelled")
  BY <1>0, <1>2 DEF TypeOK
<1>4. UNCHANGED <<task, loop>>
  BY DEF Heartbeat
<1>5. /\ SweepHasTask'
      /\ TakeoverHasSeen'
      /\ ClaimIsFirst'
      /\ UnclaimedHasNoRunner'
      /\ KeyTracksStatus'
      /\ OneActiveKey'
  BY <1>4 DEF IInv, Shape, Dispatch, SweepHasTask, TakeoverHasSeen, ClaimIsFirst,
     UnclaimedHasNoRunner, KeyTracksStatus, OneActiveKey, Claiming, ActiveStatus
<1>6. RunnerIsRecorded'
  BY <1>1, <1>2, <1>3, <1>4
  DEF IInv, Shape, Dispatch, RunnerIsRecorded, ClaimHoldsLock, LockOf
<1>7. FinishedHasEnded'
  BY <1>1, <1>2, <1>3, <1>4
  DEF IInv, FinishedHasEnded, ClaimHoldsLock, ActiveStatus, LockOf
<1>8. ClaimHoldsLock'
  BY <1>1, <1>2, <1>3, <1>4
  DEF IInv, Shape, Dispatch, ClaimHoldsLock, ClaimIsFirst, RunnerIsRecorded, LockOf, Claiming
<1>9. LateOps'
  BY <1>0, <1>1, <1>2, <1>3, <1>4, TasksAssumption, TimeAssumption
  DEF IInv, Shape, LateOps, LockOf, TypeOK, Tasks, Timely, LockRows, LoopStates
<1>10. RunningIsLeased'
  BY <1>1, <1>2, <1>3, <1>4
  DEF IInv, RunningIsLeased, LockOf
<1> QED
  BY <1>5, <1>6, <1>7, <1>8, <1>9, <1>10 DEF IInv, Shape, Dispatch

(* A handler ends its own running row or nothing. *)
LEMMA HandlerEndsInv ==
  ASSUME Timely, IInv, TypeOK', NEW t \in Tasks, NEW n \in Nodes, HandlerEnds(t, n)
  PROVE IInv'
<1>0. TypeOK
  BY DEF IInv, Shape
<1>1. run[t][n] # "no"
  BY <1>0 DEF HandlerEnds
<1>2. \/ /\ task[t].status = "running" /\ task'[t].by = task[t].by
         /\ task'[t].status \in {"succeeded", "failed"} /\ task'[t].active = FALSE
         /\ \A u \in Tasks \ {t} : task'[u] = task[u]
         /\ run' = [run EXCEPT ![t][n] = "finished"]
      \/ task' = task /\ run' = [run EXCEPT ![t][n] = "done"]
  BY <1>0 DEF HandlerEnds, MayFinish, TypeOK, TaskRows
<1>3. \A u \in Tasks : task'[u].by = task[u].by
  BY <1>2
<1>4. \A u \in Tasks, m \in Nodes :
        \/ run'[u][m] = run[u][m]
        \/ u = t /\ m = n /\ (run'[u][m] = "finished" => task'[u].status \in {"succeeded", "failed"})
  BY <1>0, <1>2 DEF TypeOK
<1>5. UNCHANGED <<lock, loop>>
  BY DEF HandlerEnds
<1>6. SweepHasTask' /\ TakeoverHasSeen' /\ ClaimHoldsLock'
  BY <1>5 DEF IInv, Shape, Dispatch, SweepHasTask, TakeoverHasSeen, ClaimHoldsLock, LockOf
<1>7. ClaimIsFirst'
  BY <1>1, <1>2, <1>3, <1>4, <1>5
  DEF IInv, Shape, Dispatch, ClaimIsFirst, UnclaimedHasNoRunner, RunnerIsRecorded, Claiming
<1>8. UnclaimedHasNoRunner'
  BY <1>1, <1>2, <1>3, <1>4, <1>5
  DEF IInv, Shape, Dispatch, UnclaimedHasNoRunner
<1>9. RunnerIsRecorded'
  BY <1>1, <1>2, <1>3, <1>4, <1>5
  DEF IInv, Shape, Dispatch, RunnerIsRecorded, ClaimIsFirst, Claiming
<1>10. KeyTracksStatus'
  BY <1>1, <1>2, <1>3, <1>4, <1>5
  DEF IInv, KeyTracksStatus, ActiveStatus
<1>11. OneActiveKey'
  BY <1>1, <1>2, <1>3, <1>4, <1>5
  DEF IInv, OneActiveKey
<1>12. FinishedHasEnded'
  BY <1>1, <1>2, <1>3, <1>4, <1>5
  DEF IInv, FinishedHasEnded, ClaimHoldsLock, ActiveStatus, LockOf
<1>13. LateOps'
  BY <1>1, <1>2, <1>3, <1>4, <1>5
  DEF IInv, LateOps
<1>14. RunningIsLeased'
  BY <1>1, <1>2, <1>3, <1>4, <1>5
  DEF IInv, RunningIsLeased, LockOf
<1> QED
  BY <1>6, <1>7, <1>8, <1>9, <1>10, <1>11, <1>12, <1>13, <1>14 DEF IInv, Shape, Dispatch

(* The lock released belongs to a row that has ended. *)
LEMMA FinishReleaseInv ==
  ASSUME Timely, IInv, TypeOK', NEW t \in Tasks, NEW n \in Nodes, FinishRelease(t, n)
  PROVE IInv'
<1>0. TypeOK
  BY DEF IInv, Shape
<1>1. run[t][n] = "finished" /\ run' = [run EXCEPT ![t][n] = "done"]
  BY <1>0 DEF FinishRelease
<1>2. lock' # lock => LockOf(t, n)
  BY <1>0 DEF FinishRelease, Release
<1>3. UNCHANGED <<task, loop>>
  BY DEF FinishRelease
<1>4. /\ SweepHasTask'
      /\ TakeoverHasSeen'
      /\ ClaimIsFirst'
      /\ UnclaimedHasNoRunner'
      /\ KeyTracksStatus'
      /\ OneActiveKey'
  BY <1>3 DEF IInv, Shape, Dispatch, SweepHasTask, TakeoverHasSeen, ClaimIsFirst,
     UnclaimedHasNoRunner, KeyTracksStatus, OneActiveKey, Claiming, ActiveStatus
<1>5. RunnerIsRecorded'
  BY <1>1, <1>2, <1>3
  DEF IInv, Shape, Dispatch, RunnerIsRecorded, LockOf
<1>6. FinishedHasEnded'
  BY <1>1, <1>2, <1>3
  DEF IInv, FinishedHasEnded, ActiveStatus, LockOf
<1>7. ClaimHoldsLock'
  <2> SUFFICES ASSUME NEW m \in Nodes, loop'[m].pc \in {"mark", "cas"}
               PROVE /\ lock'.task = loop'[m].task /\ lock'.by = m
                     /\ lock'.left = TTL - loop'[m].age
    BY DEF ClaimHoldsLock, LockOf
  <2>1. lock.task = loop[m].task /\ lock.by = m /\ lock.left = TTL - loop[m].age
    BY <1>3 DEF IInv, ClaimHoldsLock, LockOf
  <2>2. task[loop[m].task].by # m /\ task[t].by = n
    BY <1>1, <1>3 DEF IInv, Shape, Dispatch, ClaimIsFirst, Claiming, RunnerIsRecorded
  <2>3. lock' = lock
    BY <1>2, <2>1, <2>2 DEF LockOf
  <2> QED
    BY <1>3, <2>1, <2>3
<1>8. LateOps'
  <2> SUFFICES ASSUME NEW m \in Nodes, NEW u \in Tasks, (task[u].status = "running")',
                      \/ loop'[m].pc \in {"insert", "look", "takeover"}
                      \/ loop'[m].pc = "sweepdelete" /\ loop'[m].task = u
               PROVE lock'.left >= -loop'[m].age
    BY DEF LateOps
  <2>1. task[u].status = "running" /\ LockOf(u, task[u].by)
    BY <1>3 DEF IInv, RunningIsLeased
  <2>2. task[t].status # "running"
    BY <1>1 DEF IInv, FinishedHasEnded, ActiveStatus
  <2>3. lock' = lock
    BY <1>2, <2>1, <2>2 DEF LockOf
  <2> QED
    BY <1>3, <2>1, <2>3 DEF IInv, LateOps
<1>9. RunningIsLeased'
  BY <1>1, <1>2, <1>3
  DEF IInv, Shape, Dispatch, RunningIsLeased, ClaimHoldsLock, ClaimIsFirst, RunnerIsRecorded,
      UnclaimedHasNoRunner, FinishedHasEnded, LockOf, Claiming, ActiveStatus
<1> QED
  BY <1>4, <1>5, <1>6, <1>7, <1>8, <1>9 DEF IInv, Shape, Dispatch

(* An operation ages as fast as the lock does. *)
LEMMA TickInv ==
  ASSUME Timely, IInv, TypeOK', Tick
  PROVE IInv'
<1>0. TypeOK
  BY DEF IInv, Shape
<1>1. \A m \in Nodes :
        /\ loop'[m].pc = loop[m].pc /\ loop'[m].task = loop[m].task /\ loop'[m].seen = loop[m].seen
        /\ loop[m].pc \notin {"idle", "down"} => loop'[m].age = loop[m].age + 1
  BY <1>0 DEF Tick, Busy, TypeOK, LoopStates
<1>2. /\ lock'.task = lock.task /\ lock'.by = lock.by
      /\ \/ lock'.left = lock.left - 1
         \/ lock'.left = lock.left /\ (lock.task # 0 => lock.left < -MaxStall)
  BY <1>0, TimeAssumption DEF Tick, TypeOK, LockRows
<1>3. UNCHANGED <<task, run>>
  BY DEF Tick
<1>4. /\ UnclaimedHasNoRunner'
      /\ RunnerIsRecorded'
      /\ KeyTracksStatus'
      /\ OneActiveKey'
      /\ FinishedHasEnded'
  BY <1>3 DEF IInv, Shape, Dispatch, UnclaimedHasNoRunner, RunnerIsRecorded, KeyTracksStatus,
     OneActiveKey, FinishedHasEnded, ActiveStatus
<1>5. SweepHasTask'
  BY <1>1, <1>2, <1>3
  DEF IInv, Shape, SweepHasTask, LockOf
<1>6. TakeoverHasSeen'
  BY <1>1, <1>2, <1>3
  DEF IInv, Shape, TakeoverHasSeen, LockOf
<1>7. ClaimIsFirst'
  BY <1>1, <1>2, <1>3
  DEF IInv, Shape, ClaimIsFirst, Claiming, LockOf
<1>8. ClaimHoldsLock'
  <2> SUFFICES ASSUME NEW m \in Nodes, loop'[m].pc \in {"mark", "cas"}
               PROVE /\ lock'.task = loop'[m].task /\ lock'.by = m
                     /\ lock'.left = TTL - loop'[m].age
    BY DEF ClaimHoldsLock, LockOf
  <2>1. loop[m].pc \in {"mark", "cas"} /\ loop'[m].task = loop[m].task /\ loop'[m].age = loop[m].age + 1
    BY <1>1
  <2>2. lock.task = loop[m].task /\ lock.by = m /\ lock.left = TTL - loop[m].age /\ loop[m].task \in Tasks
    BY <2>1 DEF IInv, Shape, ClaimIsFirst, Claiming, ClaimHoldsLock, LockOf
  <2>3. lock.task # 0
    BY <2>2, TasksAssumption DEF Tasks
  <2> QED
    BY <1>0, <1>2, <2>1, <2>2, <2>3, TimeAssumption DEF TypeOK, LockRows, LoopStates
<1>9. LateOps'
  <2> SUFFICES ASSUME NEW m \in Nodes, NEW u \in Tasks, (task[u].status = "running")',
                      \/ loop'[m].pc \in {"insert", "look", "takeover"}
                      \/ loop'[m].pc = "sweepdelete" /\ loop'[m].task = u
               PROVE lock'.left >= -loop'[m].age
    BY DEF LateOps
  <2>1. loop'[m].pc = loop[m].pc /\ loop'[m].task = loop[m].task /\ loop'[m].age = loop[m].age + 1
    BY <1>1
  <2>2. lock.left >= -loop[m].age
    BY <1>3, <2>1 DEF IInv, LateOps
  <2> QED
    BY <1>0, <1>2, <2>1, <2>2, TimeAssumption DEF TypeOK, LockRows, LoopStates
<1>10. RunningIsLeased'
  BY <1>1, <1>2, <1>3
  DEF IInv, RunningIsLeased, LockOf
<1> QED
  BY <1>4, <1>5, <1>6, <1>7, <1>8, <1>9, <1>10 DEF IInv, Shape, Dispatch

(* Every step preserves the invariant. *)
LEMMA NextInv == ASSUME Timely PROVE IInv /\ [Next]_vars => IInv'
<1> SUFFICES ASSUME IInv, [Next]_vars PROVE IInv'
  OBVIOUS
<1>1. TypeOK'
  BY NextType DEF IInv, Shape
<1>2. CASE UNCHANGED vars
  BY <1>2 DEF vars, IInv, Shape, TypeOK, SweepHasTask, TakeoverHasSeen, ClaimIsFirst, Dispatch,
     UnclaimedHasNoRunner, RunnerIsRecorded, KeyTracksStatus, OneActiveKey, FinishedHasEnded,
     ClaimHoldsLock, LateOps, RunningIsLeased, LockOf, ActiveStatus
<1>3. CASE Next
  BY <1>1, <1>3, CreateSystemTaskInv, SweepBeginInv, ClaimBeginInv, SweepMarkInv,
     SweepDeleteInv, ClaimInsertInv, ClaimLookInv, ClaimTakeoverInv, ClaimMarkInv, ClaimRunInv,
     ClaimReleaseInv, CrashInv, HeartbeatInv, HandlerEndsInv, FinishReleaseInv, TickInv DEF
     Next, LoopStep, HandlerStep
<1> QED
  BY <1>2, <1>3

(* A row is claimed from pending, where nobody has it yet, and never returns  *)
(* there: this needs neither the lock nor time.                              *)
LEMMA NextDispatch == TypeOK /\ Dispatch /\ [Next]_vars => Dispatch'
<1> SUFFICES ASSUME TypeOK, Dispatch, [Next]_vars PROVE Dispatch'
  OBVIOUS
<1> USE DEF Dispatch, UnclaimedHasNoRunner, RunnerIsRecorded
<1>1. ASSUME NEW t \in Tasks, CreateSystemTask(t) PROVE Dispatch'
  <2>1. /\ task[t].status = "none" /\ run' = run
        /\ task'[t].by = 0 /\ \A u \in Tasks \ {t} : task'[u] = task[u]
    BY <1>1 DEF CreateSystemTask, NoTask, TypeOK, TaskRows
  <2> QED
    BY <2>1, TasksAssumption
<1>2. ASSUME NEW u, MarkLeaseExpired(u), run' = run PROVE Dispatch'
  BY <1>2, MarkEffect
<1>3. ASSUME NEW n \in Nodes, ClaimRun(n) PROVE Dispatch'
  <2> DEFINE t == loop[n].task
  <2>1. CASE /\ t \in Tasks /\ Claimable(t)
             /\ task' = [task EXCEPT ![t].status = "running", ![t].by = n]
             /\ run' = [run EXCEPT ![t][n] = "on"] \/ run' = run
    <3>1. /\ task'[t].status = "running" /\ task'[t].by = n
          /\ \A u \in Tasks \ {t} : task'[u] = task[u]
      BY <2>1 DEF TypeOK, TaskRows
    <3>2. \A m \in Nodes : run[t][m] = "no"
      BY <2>1, TasksAssumption DEF Claimable
    <3>3. \A u \in Tasks, m \in Nodes : run'[u][m] = run[u][m] \/ (u = t /\ m = n)
      BY <2>1 DEF TypeOK
    <3>4. UnclaimedHasNoRunner'
      BY <2>1, <3>1
    <3>5. ASSUME NEW u \in Tasks, NEW m \in Nodes, run'[u][m] # "no" PROVE task'[u].by = m
      <4>1. CASE u = t
        BY <3>1, <3>2, <3>3, <3>5, <4>1
      <4>2. CASE u # t
        BY <3>1, <3>3, <3>5, <4>2
      <4> QED
        BY <4>1, <4>2
    <3> QED
      BY <3>4, <3>5
  <2>2. CASE t \notin Tasks
    <3>1. task' = task /\ run' = run
      BY <1>3, <2>2 DEF ClaimRun, DbOk, TypeOK
    <3> QED
      BY <3>1
  <2>3. CASE task' = task /\ run' = run
    BY <2>3
  <2> QED
    BY <1>3, <2>1, <2>2, <2>3 DEF ClaimRun, DbOk
<1>4. ASSUME NEW t \in Tasks, NEW n \in Nodes, HandlerEnds(t, n) PROVE Dispatch'
  <2>1. run[t][n] # "no"
    BY <1>4 DEF HandlerEnds
  <2>2. \/ /\ task[t].status = "running" /\ task'[t].by = task[t].by
           /\ task'[t].status \in {"succeeded", "failed"}
           /\ \A u \in Tasks \ {t} : task'[u] = task[u]
           /\ run' = [run EXCEPT ![t][n] = "finished"]
        \/ task' = task /\ run' = [run EXCEPT ![t][n] = "done"]
    BY <1>4 DEF HandlerEnds, MayFinish, TypeOK, TaskRows
  <2>3. \A u \in Tasks, m \in Nodes : run'[u][m] = run[u][m] \/ (u = t /\ m = n)
    BY <2>2 DEF TypeOK
  <2>4. \A u \in Tasks : task'[u].by = task[u].by
    BY <2>2
  <2> QED
    BY <2>1, <2>2, <2>3, <2>4
<1>5. ASSUME NEW t \in Tasks, NEW n \in Nodes, Heartbeat(t, n) \/ FinishRelease(t, n) PROVE Dispatch'
  <2>1. task' = task /\ run[t][n] # "no"
    BY <1>5 DEF Heartbeat, FinishRelease
  <2>2. \A u \in Tasks, m \in Nodes : run'[u][m] = run[u][m] \/ (u = t /\ m = n)
    BY <1>5 DEF Heartbeat, FinishRelease, TypeOK
  <2> QED
    BY <2>1, <2>2
<1>6. ASSUME NEW n \in Nodes, Crash(n) PROVE Dispatch'
  <2>1. task' = task
    BY <1>6 DEF Crash
  <2>2. \A u \in Tasks, m \in Nodes : run'[u][m] # "no" => run[u][m] # "no"
    BY <1>6 DEF Crash, TypeOK
  <2> QED
    BY <2>1, <2>2
<1>7. CASE task' = task /\ run' = run
  BY <1>7
<1> QED
  BY <1>1, <1>2, <1>3, <1>4, <1>5, <1>6, <1>7
  DEF Next, LoopStep, HandlerStep, vars, SweepBegin, SweepMark, SweepDelete, ClaimBegin,
      ClaimInsert, ClaimLook, ClaimTakeover, ClaimMark, ClaimRelease, Tick

-----------------------------------------------------------------------------

(* The tables and goroutines keep their types, for every number of nodes,    *)
(* rows, ticks, failing statements and crashes.                              *)
THEOREM TypeCorrect == Spec => []TypeOK
  BY InitType, NextType, PTL DEF Spec

(* Without rows of an older version, and with no operation outlasting the     *)
(* lease it took, a row that is running always has its runner's lock row, so  *)
(* that a sweep can find it when the runner dies.                            *)
THEOREM LeaseKept == ASSUME Timely PROVE Spec => []RunningIsLeased
<1>1. IInv => RunningIsLeased
  BY DEF IInv
<1> QED
  BY InitInv, NextInv, <1>1, PTL DEF Spec

(* The per-type lock and the update of the row let only one node execute a    *)
(* task; this holds however long operations take.                            *)
THEOREM DispatchedOnce == Spec => []OneRunnerPerTask
<1>1. Init => Dispatch
  BY TasksAssumption DEF Init, Dispatch, UnclaimedHasNoRunner, RunnerIsRecorded, NoTask
<1>2. Dispatch => OneRunnerPerTask
  <2> SUFFICES ASSUME Dispatch, NEW t \in Tasks
               PROVE Cardinality({n \in Nodes : run[t][n] # "no"}) <= 1
    BY DEF OneRunnerPerTask
  <2> DEFINE S == {n \in Nodes : run[t][n] # "no"}
  <2>1. S \subseteq {task[t].by}
    BY DEF Dispatch, RunnerIsRecorded
  <2>2. S = {} \/ S = {task[t].by}
    BY <2>1
  <2>3. Cardinality({}) = 0 /\ Cardinality({task[t].by}) = 1
    BY FS_EmptySet, FS_Singleton
  <2> HIDE DEF S
  <2>4. Cardinality(S) <= 1
    BY <2>2, <2>3
  <2> QED
    BY <2>4 DEF S
<1> QED
  BY <1>1, <1>2, InitType, NextType, NextDispatch, PTL DEF Spec

(* A run that has succeeded or failed stays so: no late handler, sweep or     *)
(* claim writes its row again.                                               *)
THEOREM EndIsFinal == Spec => EndedIsFinal
<1> DEFINE Final ==
      \A t \in Tasks : task[t].status \in {"succeeded", "failed"} => task'[t].status = task[t].status
<1>1. TypeOK /\ [Next]_vars => [Final]_vars
  <2> SUFFICES ASSUME TypeOK, Next PROVE Final
    OBVIOUS
  <2>1. ASSUME NEW u \in Tasks, CreateSystemTask(u) PROVE Final
    BY <2>1 DEF CreateSystemTask, TypeOK, TaskRows
  <2>2. ASSUME NEW u, MarkLeaseExpired(u) PROVE Final
    BY <2>2, MarkEffect
  <2>3. ASSUME NEW n \in Nodes, ClaimRun(n) PROVE Final
    BY <2>3 DEF ClaimRun, Claimable, TypeOK, TaskRows
  <2>4. ASSUME NEW u \in Tasks, NEW n \in Nodes, HandlerEnds(u, n) PROVE Final
    BY <2>4 DEF HandlerEnds, MayFinish, TypeOK, TaskRows
  <2>5. CASE task' = task
    BY <2>5
  <2> QED
    BY <2>1, <2>2, <2>3, <2>4, <2>5
    DEF Next, LoopStep, HandlerStep, SweepBegin, SweepMark, SweepDelete, ClaimBegin, ClaimInsert,
        ClaimLook, ClaimTakeover, ClaimMark, ClaimRelease, Crash, Heartbeat, FinishRelease, Tick
<1> QED
  BY <1>1, TypeCorrect, PTL DEF Spec, EndedIsFinal
=============================================================================
