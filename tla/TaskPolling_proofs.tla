------------------------ MODULE TaskPolling_proofs -------------------------
(***************************************************************************)
(* Proofs about TaskPolling, for any number of passes, tasks, overlaps and *)
(* faults, any quota and any prices: the types, that a task is billed at   *)
(* most once, that a row never forgets what its task costs, that the books *)
(* agree and that an ended task is not reopened.                           *)
(***************************************************************************)
EXTENDS TaskPolling, TLAPS

(***************************************************************************)
(* The inductive invariant, task by task.  The copy a pass holds before    *)
(* its swap is of an open row, whose quota and books are those of the      *)
(* submission; so the swap can be won only while nobody bills the task,    *)
(* and the one winner finds in the books what its copy says.  BillAt is    *)
(* where the money is at each of its statements.                           *)
(***************************************************************************)
CopyInv(p, t) ==
  work[p][t].pc \in {"sweep", "poll"} =>
    row[t].status # "none" /\ work[p][t].status \in Open /\ work[p][t].quota = Quota

OpenInv(t) ==
  row[t].status \in Open =>
    /\ row[t].quota = Quota
    /\ book[t] = [funding |-> Quota, token |-> Quota, used |-> Quota]
    /\ AtRest(t)

BillAt(p, t) ==
  LET w == work[p][t] IN
  /\ row[t].status \in Ended
  /\ w.quota = Quota /\ w.due \in Actuals \cup {0}
  /\ book[t].funding = IF w.pc = "fund" THEN Quota ELSE w.due
  /\ w.pc # "usage" \/ w.due = 0 => row[t].quota = Quota
  /\ faults = 0 =>
       /\ book[t].token = IF w.pc \in {"fund", "token"} THEN Quota ELSE w.due
       /\ book[t].used = IF w.pc = "record" /\ w.due = 0 THEN 0 ELSE Quota
       /\ w.pc = "usage" /\ w.due # 0 => row[t].quota = w.due

BillerInv(p, t) ==
  work[p][t].pc \in Billing =>
    /\ BillAt(p, t)
    /\ \A q \in Passes : work[q][t].pc \in Billing => q = p

RestInv(t) ==
  row[t].status # "none" =>
    /\ book[t].funding \in {Quota, 0} \cup Actuals
    /\ t \notin Legacy /\ book[t].funding # 0 => row[t].quota # 0
    /\ faults = 0 /\ AtRest(t) =>
         /\ book[t].token = book[t].funding /\ book[t].used = book[t].funding
         /\ row[t].quota = book[t].funding \/ (t \in Legacy /\ row[t].status = "FAILURE")

TaskInv(t) ==
  /\ \A p \in Passes : CopyInv(p, t) /\ BillerInv(p, t)
  /\ OpenInv(t) /\ RestInv(t)

IdleInv == \A p \in Passes : pass[p] = "idle" => Through(p)

IInv == TypeOK /\ IdleInv /\ \A t \in Tasks : TaskInv(t)

-----------------------------------------------------------------------------
(* Types of the values the actions write *)
LEMMA ValueTypes ==
  /\ NoRow \in Rows /\ NoWork \in Works
  /\ [funding |-> Quota, token |-> Quota, used |-> Quota] \in Books
  /\ [funding |-> 0, token |-> 0, used |-> 0] \in Books
  /\ \A w \in Works, pc \in Billing : [w EXCEPT !.pc = pc] \in Works
  /\ \A w \in Works, due \in Nat : [w EXCEPT !.pc = "fund", !.due = due] \in Works
<1>1. NoRow \in Rows /\ NoWork \in Works
  BY DEF NoRow, NoWork, Rows, Works
<1>2. /\ [funding |-> Quota, token |-> Quota, used |-> Quota] \in Books
      /\ [funding |-> 0, token |-> 0, used |-> 0] \in Books
  BY QuotaAssumption DEF Books
<1>3. \A w \in Works, pc \in Billing : [w EXCEPT !.pc = pc] \in Works
  BY DEF Works
<1>4. \A w \in Works, due \in Nat : [w EXCEPT !.pc = "fund", !.due = due] \in Works
  BY DEF Works, Billing
<1> QED
  BY <1>1, <1>2, <1>3, <1>4

(* A list is a set of unfinished tasks. *)
LEMMA ListsUnfinished ==
  /\ GetTimedOutUnfinishedTasks \subseteq Unfinished
  /\ GetAllUnFinishSyncTasks \subseteq Unfinished
  BY DEF GetTimedOutUnfinishedTasks, GetAllUnFinishSyncTasks, FirstOf

(* What an action leaves alone keeps its invariant; faults only add up. *)
LEMMA Frame ==
  ASSUME NEW t \in Tasks, TaskInv(t),
         row'[t] = row[t], book'[t] = book[t],
         \A q \in Passes : work'[q][t] = work[q][t],
         faults' = 0 => faults = 0
  PROVE  TaskInv(t)'
<1>1. AtRest(t)' <=> AtRest(t)
  BY DEF AtRest
<1>2. OpenInv(t)' /\ RestInv(t)'
  BY <1>1 DEF TaskInv, OpenInv, RestInv
<1>3. ASSUME NEW p \in Passes PROVE CopyInv(p, t)' /\ BillerInv(p, t)'
  BY <1>3 DEF TaskInv, CopyInv, BillerInv, BillAt
<1> QED
  BY <1>2, <1>3 DEF TaskInv

(* A step of one pass on one task: its invariant for that task is left to    *)
(* show.                                                                     *)
LEMMA PointStep ==
  ASSUME IInv, NEW p \in Passes, NEW t \in Tasks, work[p][t].pc # "none",
         NEW w \in Works, work' = [work EXCEPT ![p][t] = w],
         row' \in [Tasks -> Rows], book' \in [Tasks -> Books],
         \A u \in Tasks \ {t} : row'[u] = row[u] /\ book'[u] = book[u],
         UNCHANGED <<old, pass, overlaps>>,
         faults' = faults \/ (faults' = faults + 1 /\ faults < MaxFaults),
         TaskInv(t)'
  PROVE  IInv'
<1>1. work \in [Passes -> [Tasks -> Works]] /\ faults \in 0..MaxFaults
  BY DEF IInv, TypeOK
<1>2. work' \in [Passes -> [Tasks -> Works]]
  BY <1>1
<1>3. faults' \in 0..MaxFaults /\ (faults' = 0 => faults = 0)
  BY <1>1, BoundsAssumption
<1>4. TypeOK'
  BY <1>2, <1>3 DEF IInv, TypeOK
<1>5. \A q \in Passes, u \in Tasks : u # t => work'[q][u] = work[q][u]
  BY <1>1
<1>6. \A u \in Tasks : TaskInv(u)'
  <2>1. ASSUME NEW u \in Tasks, u # t PROVE TaskInv(u)'
    BY <1>3, <1>5, <2>1, Frame DEF IInv
  <2> QED
    BY <2>1
<1>7. IdleInv'
  <2>1. pass[p] # "idle"
    <3>1. work[p][t] # NoWork
      BY DEF NoWork
    <3> QED
      BY <3>1 DEF IInv, IdleInv, Through
  <2>2. \A q \in Passes : q # p => work'[q] = work[q]
    BY <1>1
  <2> QED
    BY <2>1, <2>2 DEF IInv, IdleInv, Through
<1> QED
  BY <1>4, <1>6, <1>7 DEF IInv

(* A copy that is given up before its swap leaves the task as it is. *)
LEMMA DropCopy ==
  ASSUME IInv, NEW p \in Passes, NEW t \in Tasks, work[p][t].pc \in {"sweep", "poll"},
         work' = [work EXCEPT ![p][t] = NoWork],
         row'[t] = row[t], book'[t] = book[t], faults' = 0 => faults = 0
  PROVE  TaskInv(t)'
<1>1. work \in [Passes -> [Tasks -> Works]] /\ TaskInv(t)
  BY DEF IInv, TypeOK
<1>2. /\ work'[p][t] = NoWork
      /\ \A q \in Passes : q # p => work'[q][t] = work[q][t]
  BY <1>1
<1>3. AtRest(t)' <=> AtRest(t)
  BY <1>2 DEF AtRest, NoWork, Billing
<1>4. OpenInv(t)' /\ RestInv(t)'
  BY <1>1, <1>3 DEF TaskInv, OpenInv, RestInv
<1>5. ASSUME NEW q \in Passes PROVE CopyInv(q, t)' /\ BillerInv(q, t)'
  <2>1. CASE q = p
    BY <1>2, <2>1 DEF CopyInv, BillerInv, NoWork, Billing
  <2>2. CASE q # p
    <3>1. CopyInv(q, t)'
      BY <1>1, <1>2, <2>2 DEF TaskInv, CopyInv
    <3>2. BillerInv(q, t)'
      BY <1>1, <1>2, <2>2 DEF TaskInv, BillerInv, BillAt, NoWork, Billing
    <3> QED
      BY <3>1, <3>2
  <2> QED
    BY <2>1, <2>2
<1> QED
  BY <1>4, <1>5 DEF TaskInv

(* A guarded or an unguarded write of a row that others may be billing:      *)
(* nobody is when the row is open.                                           *)
LEMMA EndTaskKeeps ==
  ASSUME IInv, NEW p \in Passes, NEW t \in Tasks, work[p][t].pc \in {"sweep", "poll"},
         NEW status \in Ended, NEW quota \in Nat, NEW due \in Nat,
         EndTask(p, t, status, quota, due), UNCHANGED <<book, old, pass, overlaps>>,
         \/ quota = work[p][t].quota /\ due \in Actuals \cup {0, work[p][t].quota}
         \/ t \in Legacy /\ status = "FAILURE" /\ quota = 0 /\ due = work[p][t].quota
  PROVE  IInv'
<1> DEFINE ended == [status |-> status, full |-> TRUE, quota |-> quota]
<1>1. /\ row \in [Tasks -> Rows] /\ book \in [Tasks -> Books]
      /\ work \in [Passes -> [Tasks -> Works]] /\ TaskInv(t) /\ faults \in Nat
  BY BoundsAssumption DEF IInv, TypeOK
<1>2. ended \in Rows
  BY DEF Rows, Ended
<1>3. work[p][t].quota = Quota /\ work[p][t].status \in Open /\ work[p][t] \in Works
  BY <1>1 DEF TaskInv, CopyInv
<1>4. faults' = faults \/ (faults' = faults + 1 /\ faults < MaxFaults)
  BY DEF EndTask, DbOk, Fault
<1>5. CASE UNCHANGED row /\ Done(p, t)
  <2>1. TaskInv(t)'
    <3>1. faults' = 0 => faults = 0
      BY <1>1, <1>4
    <3>2. work' = [work EXCEPT ![p][t] = NoWork] /\ row'[t] = row[t] /\ book'[t] = book[t]
      BY <1>5 DEF Done
    <3> QED
      BY <3>1, <3>2, DropCopy
  <2> QED
    BY <1>1, <1>4, <1>5, <2>1, ValueTypes, PointStep DEF Done
<1>6. CASE Matches(p, t) /\ Write(t, status, TRUE, quota) /\ ((Bill(p, t, due) /\ DbOk) \/ (Done(p, t) /\ Fault))
  <2>1. /\ row' \in [Tasks -> Rows] /\ row'[t] = ended
        /\ \A u \in Tasks \ {t} : row'[u] = row[u]
    BY <1>1, <1>2, <1>6 DEF Write
  <2>2. /\ row[t].status \in Open /\ row[t].quota = Quota /\ AtRest(t)
        /\ book[t] = [funding |-> Quota, token |-> Quota, used |-> Quota]
    BY <1>1, <1>3, <1>6 DEF Matches, TaskInv, OpenInv
  <2>3. PICK w \in Works :
          /\ work' = [work EXCEPT ![p][t] = w]
          /\ \/ w = NoWork
             \/ /\ w.pc = "fund" /\ w.due = due /\ w.quota = Quota /\ due # Quota
                /\ quota = Quota /\ due \in Actuals \cup {0}
    <3>1. CASE Done(p, t) /\ Fault
      BY <1>1, <3>1, ValueTypes DEF Done, Fault
    <3>2. CASE Bill(p, t, due) /\ DbOk /\ due = Quota
      BY <1>1, <1>3, <3>2, ValueTypes DEF Bill
    <3>3. CASE Bill(p, t, due) /\ DbOk /\ due # Quota
      <4>1. [work[p][t] EXCEPT !.pc = "fund", !.due = due] \in Works
        BY <1>3, ValueTypes
      <4>2. work' = [work EXCEPT ![p][t] = [work[p][t] EXCEPT !.pc = "fund", !.due = due]]
        BY <1>1, <1>3, <3>3 DEF Bill
      <4>3. /\ [work[p][t] EXCEPT !.pc = "fund", !.due = due].pc = "fund"
            /\ [work[p][t] EXCEPT !.pc = "fund", !.due = due].due = due
            /\ [work[p][t] EXCEPT !.pc = "fund", !.due = due].quota = Quota
        BY <1>3 DEF Works
      <4> QED
        BY <1>3, <3>3, <4>1, <4>2, <4>3
    <3> QED
      BY <1>6, <3>1, <3>2, <3>3
  <2>4. /\ work'[p][t] = w
        /\ \A q \in Passes : q # p => work'[q][t] = work[q][t]
    BY <1>1, <2>3
  <2>5. ASSUME NEW q \in Passes PROVE CopyInv(q, t)' /\ BillerInv(q, t)'
    <3>1. CASE q # p
      BY <1>1, <2>1, <2>2, <2>4, <3>1 DEF TaskInv, CopyInv, BillerInv, AtRest, Ended
    <3>2. CASE q = p
      <4>1. CopyInv(q, t)'
        <5>1. w.pc \notin {"sweep", "poll"}
          BY <2>3 DEF NoWork
        <5> QED
          BY <2>4, <3>2, <5>1 DEF CopyInv
      <4>2. CASE w = NoWork
        BY <2>4, <3>2, <4>1, <4>2 DEF BillerInv, NoWork, Billing
      <4>3. CASE w # NoWork
        <5>1. BillAt(q, t)'
          BY <2>1, <2>2, <2>3, <2>4, <3>2, <4>3 DEF BillAt
        <5>2. \A r \in Passes : work'[r][t].pc \in Billing => r = q
          BY <2>2, <2>4, <3>2 DEF AtRest
        <5> QED
          BY <4>1, <5>1, <5>2 DEF BillerInv
      <4> QED
        BY <4>2, <4>3
    <3> QED
      BY <3>1, <3>2
  <2>6. OpenInv(t)'
    BY <2>1 DEF OpenInv, Ended, Open
  <2>7. RestInv(t)'
    <3>1. quota # 0 \/ t \in Legacy
      BY <1>3, QuotaAssumption
    <3>2. w # NoWork => ~AtRest(t)'
      <4>1. w # NoWork => w.pc = "fund" /\ work'[p][t] = w
        BY <2>3, <2>4
      <4> QED
        BY <4>1 DEF AtRest, Billing
    <3>3. quota = Quota \/ (t \in Legacy /\ status = "FAILURE")
      BY <1>3
    <3> QED
      BY <2>1, <2>2, <2>3, <3>1, <3>2, <3>3 DEF RestInv
  <2>8. TaskInv(t)'
    BY <2>5, <2>6, <2>7 DEF TaskInv
  <2> QED
    BY <1>1, <1>4, <2>1, <2>3, <2>8, PointStep
<1>7. \/ Matches(p, t) /\ Write(t, status, TRUE, quota) /\ Bill(p, t, due) /\ DbOk
      \/ ~Matches(p, t) /\ UNCHANGED row /\ Done(p, t) /\ DbOk
      \/ Fault /\ Done(p, t) /\ (UNCHANGED row \/ (Matches(p, t) /\ Write(t, status, TRUE, quota)))
  BY Zenon DEF EndTask
<1> QED
  BY <1>5, <1>6, <1>7

(* sweepTimedOutTasks on one task *)
LEMMA SweepKeeps ==
  ASSUME IInv, NEW p \in Passes, NEW t \in Tasks, SweepTask(p, t) PROVE IInv'
<1>1. work[p][t].pc = "sweep" /\ work[p][t].quota \in Nat
  BY DEF SweepTask, IInv, TypeOK, Works
<1>2. UNCHANGED <<book, old, pass, overlaps>> /\ "FAILURE" \in Ended
  BY DEF SweepTask, Ended
<1>3. CASE t \in Legacy
  <2>1. EndTask(p, t, "FAILURE", 0, work[p][t].quota)
    BY <1>3 DEF SweepTask
  <2> QED
    BY <1>1, <1>2, <1>3, <2>1, EndTaskKeeps
<1>4. CASE t \notin Legacy
  <2>1. EndTask(p, t, "FAILURE", work[p][t].quota, 0)
    BY <1>4 DEF SweepTask
  <2> QED
    BY <1>1, <1>2, <2>1, EndTaskKeeps
<1> QED
  BY <1>3, <1>4

(* The two updates of a poll that do not bill *)
LEMMA PollWriteKeeps ==
  ASSUME IInv, NEW p \in Passes, NEW t \in Tasks, work[p][t].pc = "poll",
         PollProgress(p, t) \/ BulkFail(p, t), UNCHANGED <<book, old, pass, overlaps>>
  PROVE  IInv'
<1>1. /\ row \in [Tasks -> Rows] /\ book \in [Tasks -> Books] /\ TaskInv(t)
      /\ work \in [Passes -> [Tasks -> Works]] /\ faults \in Nat
  BY BoundsAssumption DEF IInv, TypeOK
<1>2. work[p][t].quota = Quota /\ work[p][t].status \in Open /\ Quota \in Nat
  BY <1>1, QuotaAssumption DEF TaskInv, CopyInv
<1>3. work' = [work EXCEPT ![p][t] = NoWork] /\ faults' = faults
  BY DEF PollProgress, BulkFail, Done, DbOk
<1>4. PICK r \in Rows :
        /\ row' = [row EXCEPT ![t] = r]
        /\ \/ r = row[t]
           \/ r.status \in Open /\ r.quota = Quota /\ row[t].status \in Open
           \/ r.status = "FAILURE" /\ r.quota = row[t].quota
  <2>1. CASE BulkFail(p, t)
    <3> DEFINE r == [row[t] EXCEPT !.status = "FAILURE", !.full = TRUE]
    <3>1. r \in Rows /\ r.status = "FAILURE" /\ r.quota = row[t].quota
      BY <1>1 DEF Rows, Ended
    <3>2. row' = [row EXCEPT ![t] = r]
      BY <1>1, <2>1 DEF BulkFail, Rows
    <3> QED
      BY <3>1, <3>2
  <2>2. CASE PollProgress(p, t) /\ Matches(p, t)
    <3>1. PICK st \in {"QUEUED", "IN_PROGRESS"}, fl \in BOOLEAN : Write(t, st, fl, Quota)
      BY <1>2, <2>2 DEF PollProgress
    <3>2. [status |-> st, full |-> fl, quota |-> Quota] \in Rows
      BY <1>2, <3>1 DEF Rows, Open
    <3> QED
      BY <1>2, <2>2, <3>1, <3>2 DEF Write, Matches, Open
  <2>3. CASE PollProgress(p, t) /\ ~Matches(p, t)
    BY <1>1, <2>3 DEF PollProgress
  <2> QED
    BY <2>1, <2>2, <2>3
<1>5. /\ row' \in [Tasks -> Rows] /\ row'[t] = r
      /\ \A u \in Tasks \ {t} : row'[u] = row[u]
  BY <1>1, <1>4
<1>6. /\ work'[p][t] = NoWork
      /\ \A q \in Passes : q # p => work'[q][t] = work[q][t]
  BY <1>1, <1>3
<1>7. AtRest(t)' <=> AtRest(t)
  BY <1>6 DEF AtRest, NoWork, Billing
<1>8. r.status \in Open => row[t].status \in Open /\ r.quota = Quota
  BY <1>1, <1>4 DEF Open, TaskInv, OpenInv
<1>9. OpenInv(t)'
  BY <1>1, <1>5, <1>7, <1>8 DEF TaskInv, OpenInv
<1>10. RestInv(t)'
  <2>1. CASE r = row[t]
    BY <1>1, <1>3, <1>5, <1>7, <2>1 DEF TaskInv, RestInv
  <2>2. CASE row[t].status \in Open
    BY <1>1, <1>3, <1>4, <1>5, <1>7, <2>2, QuotaAssumption DEF TaskInv, OpenInv, RestInv
  <2>3. CASE r.status = "FAILURE" /\ r.quota = row[t].quota /\ row[t].status # "none"
    BY <1>1, <1>3, <1>5, <1>7, <2>3 DEF TaskInv, RestInv
  <2>4. row[t].status # "none"
    BY <1>1 DEF TaskInv, CopyInv
  <2> QED
    BY <1>4, <2>1, <2>2, <2>3, <2>4
<1>11. ASSUME NEW q \in Passes PROVE CopyInv(q, t)' /\ BillerInv(q, t)'
  <2>1. CASE q = p
    BY <1>6, <2>1 DEF CopyInv, BillerInv, NoWork, Billing
  <2>2. CASE q # p
    <3>1. CopyInv(q, t)'
      <4>1. r.status # "none"
        BY <1>1, <1>4 DEF TaskInv, CopyInv, Open
      <4> QED
        BY <1>1, <1>5, <1>6, <2>2, <4>1 DEF TaskInv, CopyInv
    <3>2. ASSUME work[q][t].pc \in Billing PROVE BillAt(q, t)'
      <4>1. BillAt(q, t) /\ row[t].status \in Ended
        BY <1>1, <3>2 DEF TaskInv, BillerInv, BillAt
      <4>2. r.status \in Ended /\ r.quota = row[t].quota
        BY <1>4, <4>1 DEF Open, Ended
      <4> QED
        BY <1>3, <1>5, <1>6, <2>2, <4>1, <4>2 DEF BillAt
    <3>3. BillerInv(q, t)'
      BY <1>1, <1>6, <2>2, <3>2 DEF TaskInv, BillerInv, NoWork, Billing
    <3> QED
      BY <3>1, <3>3
  <2> QED
    BY <2>1, <2>2
<1>12. TaskInv(t)'
  BY <1>9, <1>10, <1>11 DEF TaskInv
<1> QED
  BY <1>1, <1>3, <1>5, <1>12, ValueTypes, PointStep

(* A poll of one task *)
LEMMA PollKeeps ==
  ASSUME IInv, NEW p \in Passes, NEW t \in Tasks, PollTask(p, t) PROVE IInv'
<1>1. work[p][t].pc = "poll" /\ work[p][t].quota \in Nat
  BY DEF PollTask, IInv, TypeOK, Works
<1>2. UNCHANGED <<book, old, pass, overlaps>> /\ "FAILURE" \in Ended /\ "SUCCESS" \in Ended
  BY DEF PollTask, Ended
<1>3. CASE PollNothing(p, t)
  <2>1. /\ work' = [work EXCEPT ![p][t] = NoWork] /\ row' = row /\ book' = book
        /\ faults' = faults
    BY <1>2, <1>3 DEF PollNothing, Done
  <2>2. TaskInv(t)'
    BY <1>1, <2>1, DropCopy
  <2> QED
    BY <1>1, <1>2, <2>1, <2>2, ValueTypes, PointStep DEF IInv, TypeOK
<1>4. CASE PollProgress(p, t) \/ BulkFail(p, t)
  BY <1>1, <1>2, <1>4, PollWriteKeeps
<1>5. CASE PollSuccess(p, t)
  <2>1. PICK due \in Actuals \cup {work[p][t].quota} :
          EndTask(p, t, "SUCCESS", work[p][t].quota, due)
    BY <1>5 DEF PollSuccess
  <2>2. due \in Nat
    BY <1>1, QuotaAssumption
  <2> QED
    BY <1>1, <1>2, <2>1, <2>2, EndTaskKeeps
<1>6. CASE PollFailure(p, t)
  BY <1>1, <1>2, <1>6, EndTaskKeeps DEF PollFailure
<1> QED
  BY <1>3, <1>4, <1>5, <1>6 DEF PollTask

-----------------------------------------------------------------------------
(* The statements of RefundTaskQuota and RecalculateTaskQuota: the one that  *)
(* bills goes from w to v, the row and the book change only as it says.      *)
LEMMA BillStepKeeps ==
  ASSUME IInv, NEW p \in Passes, NEW t \in Tasks, BillStep(p, t) PROVE IInv'
<1> DEFINE w == work[p][t]
<1>1. /\ row \in [Tasks -> Rows] /\ book \in [Tasks -> Books] /\ TaskInv(t)
      /\ work \in [Passes -> [Tasks -> Works]] /\ faults \in Nat
      /\ row[t] \in Rows /\ book[t] \in Books /\ w \in Works
  BY BoundsAssumption DEF IInv, TypeOK
<1>2. w.pc \in Billing /\ UNCHANGED <<old, pass, overlaps>>
  BY DEF BillStep, AdjustFunding, AdjustToken, AdjustUsage, RecordQuota, Billing
<1>3. BillAt(p, t) /\ \A q \in Passes : work[q][t].pc \in Billing => q = p
  BY <1>1, <1>2 DEF TaskInv, BillerInv
<1>4. /\ w.quota = Quota /\ w.due \in Actuals \cup {0} /\ w.due \in Nat /\ Quota \in Nat \ {0}
      /\ row[t].status \in Ended /\ row[t].status # "none"
  <2>1. w.quota = Quota /\ w.due \in Actuals \cup {0} /\ row[t].status \in Ended
    BY <1>3 DEF BillAt
  <2>2. Quota \in Nat \ {0} /\ \A d \in Actuals \cup {0} : d \in Nat
    BY QuotaAssumption
  <2>3. row[t].status # "none"
    BY <2>1 DEF Ended
  <2> QED
    BY <2>1, <2>2, <2>3
<1>5. Delta(p, t) \in Int /\ Delta(p, t) = w.due - Quota /\ (Refunding(p, t) <=> w.due = 0)
  BY <1>4 DEF Delta, Refunding
<1>6. faults' = faults \/ (faults' = faults + 1 /\ faults < MaxFaults)
  BY DEF BillStep, AdjustFunding, AdjustToken, AdjustUsage, RecordQuota, DbOk, Fault
<1>7. PICK b \in Books : book' = [book EXCEPT ![t] = b]
  <2>1. \A f \in Int : /\ [book[t] EXCEPT !.funding = f] \in Books
                       /\ [book[t] EXCEPT !.token = f] \in Books
                       /\ [book[t] EXCEPT !.used = f] \in Books
    BY <1>1 DEF Books
  <2>2. /\ book[t].funding + Delta(p, t) \in Int /\ book[t].token + Delta(p, t) \in Int
        /\ book[t].used + Delta(p, t) \in Int
    BY <1>1, <1>5 DEF Books
  <2>3. CASE book' = book
    BY <1>1, <2>3
  <2>4. CASE book' = [book EXCEPT ![t].funding = @ + Delta(p, t)]
    BY <1>1, <2>1, <2>2, <2>4
  <2>5. CASE book' = [book EXCEPT ![t].token = @ + Delta(p, t)]
    BY <1>1, <2>1, <2>2, <2>5
  <2>6. CASE book' = [book EXCEPT ![t].used = @ + Delta(p, t)]
    BY <1>1, <2>1, <2>2, <2>6
  <2> QED
    BY <2>3, <2>4, <2>5, <2>6 DEF BillStep, AdjustFunding, AdjustToken, AdjustUsage, RecordQuota
<1>8. PICK r \in Rows : row' = [row EXCEPT ![t] = r] /\ r.status = row[t].status
  <2>1. CASE row' = row
    BY <1>1, <2>1
  <2>2. CASE row' = [row EXCEPT ![t].quota = w.due]
    <3>1. [row[t] EXCEPT !.quota = w.due] \in Rows /\ [row[t] EXCEPT !.quota = w.due].status = row[t].status
      BY <1>1, <1>4 DEF Rows
    <3> QED
      BY <1>1, <2>2, <3>1
  <2> QED
    BY <2>1, <2>2 DEF BillStep, AdjustFunding, AdjustToken, AdjustUsage, RecordQuota
<1>9. PICK v \in Works :
        /\ work' = [work EXCEPT ![p][t] = v]
        /\ v = NoWork \/ (v.pc \in Billing /\ v.due = w.due /\ v.quota = w.quota)
  <2>1. CASE Done(p, t)
    BY <2>1, ValueTypes DEF Done
  <2>2. ASSUME NEW pc \in Billing, GotoBilling(p, t, pc)
        PROVE  \E v \in Works :
                 /\ work' = [work EXCEPT ![p][t] = v]
                 /\ v.pc \in Billing /\ v.due = w.due /\ v.quota = w.quota
    <3>1. work' = [work EXCEPT ![p][t] = [w EXCEPT !.pc = pc]]
      BY <1>1, <2>2 DEF GotoBilling
    <3>2. /\ [w EXCEPT !.pc = pc] \in Works /\ [w EXCEPT !.pc = pc].pc = pc
          /\ [w EXCEPT !.pc = pc].due = w.due /\ [w EXCEPT !.pc = pc].quota = w.quota
      BY <1>1, ValueTypes DEF Works
    <3> QED
      BY <3>1, <3>2
  <2>3. Done(p, t) \/ \E pc \in Billing : GotoBilling(p, t, pc)
    BY DEF BillStep, AdjustFunding, AdjustToken, AdjustUsage, RecordQuota, Billing
  <2> QED
    BY <2>1, <2>2, <2>3
<1>10. /\ row'[t] = r /\ book'[t] = b /\ work'[p][t] = v
       /\ row' \in [Tasks -> Rows] /\ book' \in [Tasks -> Books]
       /\ \A u \in Tasks \ {t} : row'[u] = row[u] /\ book'[u] = book[u]
       /\ \A q \in Passes : q # p => work'[q][t] = work[q][t] /\ work[q][t].pc \notin Billing
  BY <1>1, <1>3, <1>7, <1>8, <1>9
<1>11. (v # NoWork => BillAt(p, t)') /\ RestInv(t)'
  <2>1. /\ r.status = row[t].status
        /\ v # NoWork => v.pc \in Billing /\ v.due = w.due /\ v.quota = Quota /\ ~AtRest(t)'
    BY <1>4, <1>8, <1>9, <1>10 DEF AtRest
  <2>2. RestInv(t)
    BY <1>1 DEF TaskInv
  <2>3. CASE AdjustFunding(p, t)
    <3>1. w.pc = "fund" /\ r = row[t] /\ faults' = faults
      BY <1>10, <2>3 DEF AdjustFunding
    <3>2. CASE book' = [book EXCEPT ![t].funding = @ + Delta(p, t)] /\ GotoBilling(p, t, "token")
      <4>1. b.funding = w.due /\ b.token = book[t].token /\ b.used = book[t].used
        BY <1>1, <1>3, <1>4, <1>5, <1>10, <3>1, <3>2 DEF BillAt, Books
      <4>2. v.pc = "token" /\ v # NoWork
        BY <1>1, <1>10, <3>2 DEF GotoBilling, Works, NoWork
      <4> QED
        BY <1>3, <1>4, <1>10, <2>1, <3>1, <4>1, <4>2 DEF BillAt, RestInv
    <3>3. CASE book' = book /\ Done(p, t)
      <4>1. b = book[t] /\ v = NoWork
        BY <1>1, <1>10, <3>3 DEF Done
      <4> QED
        BY <1>3, <1>4, <1>10, <3>1, <4>1 DEF BillAt, RestInv
    <3> QED
      BY <2>3, <3>2, <3>3 DEF AdjustFunding
  <2>4. CASE AdjustToken(p, t)
    <3>1. w.pc = "token" /\ r = row[t] /\ b.funding = book[t].funding /\ b.used = book[t].used
      BY <1>1, <1>10, <2>4 DEF AdjustToken, Books
    <3>2. faults' = 0 => faults = 0 /\ b.token = w.due
      BY <1>1, <1>3, <1>4, <1>5, <1>10, <2>4, <3>1 DEF AdjustToken, BillAt, Books, DbOk, Fault
    <3>3. v # NoWork /\ v.pc = IF w.due = 0 THEN "usage" ELSE "record"
      BY <1>1, <1>5, <1>10, <2>4 DEF AdjustToken, GotoBilling, Works, NoWork
    <3> QED
      BY <1>3, <1>4, <1>10, <2>1, <3>1, <3>2, <3>3 DEF BillAt, RestInv
  <2>5. CASE AdjustUsage(p, t)
    <3>1. w.pc = "usage" /\ r = row[t] /\ b.funding = book[t].funding /\ b.token = book[t].token
      BY <1>1, <1>10, <2>5 DEF AdjustUsage, Books
    <3>2. faults' = 0 => faults = 0 /\ b.used = w.due
      BY <1>1, <1>3, <1>4, <1>5, <1>10, <2>5, <3>1 DEF AdjustUsage, BillAt, Books, DbOk, Fault
    <3>3. /\ w.due = 0 => v # NoWork /\ v.pc = "record"
          /\ w.due # 0 => v = NoWork
      BY <1>1, <1>5, <1>10, <2>5 DEF AdjustUsage, GotoBilling, Done, Works, NoWork
    <3> QED
      BY <1>3, <1>4, <1>10, <2>1, <2>2, <3>1, <3>2, <3>3 DEF BillAt, RestInv
  <2>6. CASE RecordQuota(p, t)
    <3>1. w.pc = "record" /\ b = book[t] /\ (r.quota = w.due \/ r.quota = Quota)
      BY <1>1, <1>3, <1>10, <2>6 DEF RecordQuota, BillAt, Rows
    <3>2. faults' = 0 => faults = 0 /\ r.quota = w.due
      BY <1>1, <1>4, <1>10, <2>6 DEF RecordQuota, Rows, DbOk, Fault
    <3>3. /\ w.due # 0 => v # NoWork /\ v.pc = "usage"
          /\ w.due = 0 => v = NoWork
      BY <1>1, <1>5, <1>10, <2>6 DEF RecordQuota, GotoBilling, Done, Works, NoWork
    <3> QED
      BY <1>3, <1>4, <1>10, <2>1, <3>1, <3>2, <3>3 DEF BillAt, RestInv
  <2> QED
    BY <2>3, <2>4, <2>5, <2>6 DEF BillStep
<1>12. ASSUME NEW q \in Passes PROVE CopyInv(q, t)' /\ BillerInv(q, t)'
  <2>1. CASE q = p
    BY <1>9, <1>10, <1>11, <2>1 DEF CopyInv, BillerInv, NoWork, Billing
  <2>2. CASE q # p
    BY <1>1, <1>8, <1>10, <2>2 DEF TaskInv, CopyInv, BillerInv
  <2> QED
    BY <2>1, <2>2
<1>13. OpenInv(t)'
  BY <1>4, <1>8, <1>10 DEF OpenInv, Open, Ended
<1>14. TaskInv(t)'
  BY <1>11, <1>12, <1>13 DEF TaskInv
<1>15. work[p][t].pc # "none"
  BY <1>2 DEF Billing
<1> QED
  BY <1>2, <1>6, <1>9, <1>10, <1>14, <1>15, PointStep

-----------------------------------------------------------------------------
(* The steps of a whole pass: listing, ending, dying. A pass bills nothing   *)
(* when it lists, and a crash counts as a fault.                             *)
LEMMA TakeKeeps ==
  ASSUME IInv, NEW p \in Passes, NEW pc \in {"sweep", "poll"}, NEW S, S \subseteq Unfinished,
         Take(p, pc, S), UNCHANGED <<row, book>>,
         Through(p) \/ faults' # 0, faults' = 0 => faults = 0
  PROVE  /\ work' \in [Passes -> [Tasks -> Works]]
         /\ \A t \in Tasks : TaskInv(t)'
         /\ \A q \in Passes : q # p => work'[q] = work[q]
         /\ S = {} => Through(p)'
<1>1. /\ work \in [Passes -> [Tasks -> Works]] /\ row \in [Tasks -> Rows]
      /\ \A t \in Tasks : TaskInv(t)
  BY DEF IInv, TypeOK
<1>2. \A t \in Tasks :
        /\ Copy(pc, t) \in Works /\ Copy(pc, t).pc = pc
        /\ Copy(pc, t).status = row[t].status /\ Copy(pc, t).quota = row[t].quota
  BY <1>1 DEF Copy, Works, Rows
<1>3. [t \in Tasks |-> IF t \in S THEN Copy(pc, t) ELSE NoWork] \in [Tasks -> Works]
  BY <1>2, ValueTypes
<1>4. /\ work' \in [Passes -> [Tasks -> Works]]
      /\ \A q \in Passes : q # p => work'[q] = work[q]
      /\ \A t \in Tasks : work'[p][t] = IF t \in S THEN Copy(pc, t) ELSE NoWork
  BY <1>1, <1>3 DEF Take
<1>5. ASSUME NEW t \in Tasks PROVE TaskInv(t)'
  <2>1. work'[p][t].pc \notin Billing /\ (t \notin S => work'[p][t].pc = "none")
    <3>1. CASE t \in S
      <4>1. work'[p][t].pc = pc
        BY <1>2, <1>4, <3>1
      <4> QED
        BY <3>1, <4>1 DEF Billing
    <3>2. CASE t \notin S
      BY <1>4, <3>2 DEF NoWork, Billing
    <3> QED
      BY <3>1, <3>2
  <2>2. AtRest(t) => AtRest(t)'
    BY <1>4, <2>1 DEF AtRest
  <2>3. faults' = 0 /\ AtRest(t)' => AtRest(t)
    BY <1>4 DEF AtRest, Through, NoWork, Billing
  <2>4. OpenInv(t)' /\ RestInv(t)'
    BY <1>1, <2>2, <2>3 DEF TaskInv, OpenInv, RestInv
  <2>5. t \in S => row[t].status \in Open /\ row[t].quota = Quota
    BY <1>1 DEF TaskInv, OpenInv, Unfinished
  <2>6. ASSUME NEW q \in Passes PROVE CopyInv(q, t)' /\ BillerInv(q, t)'
    <3>1. CASE q = p
      <4>1. BillerInv(q, t)'
        BY <2>1, <3>1 DEF BillerInv
      <4>2. CASE t \in S
        <5>1. work'[p][t].status = row[t].status /\ work'[p][t].quota = row[t].quota
          BY <1>2, <1>4, <4>2
        <5>2. row[t].status # "none"
          BY <2>5, <4>2 DEF Open
        <5> QED
          BY <2>5, <3>1, <4>1, <4>2, <5>1, <5>2 DEF CopyInv
      <4>3. CASE t \notin S
        BY <2>1, <3>1, <4>1, <4>3 DEF CopyInv
      <4> QED
        BY <4>2, <4>3
    <3>2. CASE q # p
      <4>1. CopyInv(q, t)'
        BY <1>1, <1>4, <3>2 DEF TaskInv, CopyInv
      <4>2. ASSUME work[q][t].pc \in Billing PROVE BillAt(q, t)'
        <5>1. BillAt(q, t) /\ work'[q][t] = work[q][t]
          BY <1>1, <1>4, <3>2, <4>2 DEF TaskInv, BillerInv
        <5> QED
          BY <5>1 DEF BillAt
      <4>3. ASSUME work[q][t].pc \in Billing, NEW i \in Passes, work'[i][t].pc \in Billing
            PROVE  i = q
        <5>1. i # p /\ work'[i][t] = work[i][t]
          BY <1>4, <2>1, <4>3
        <5> QED
          BY <1>1, <4>3, <5>1 DEF TaskInv, BillerInv
      <4>4. BillerInv(q, t)'
        BY <1>4, <3>2, <4>2, <4>3 DEF BillerInv
      <4> QED
        BY <4>1, <4>4
    <3> QED
      BY <3>1, <3>2
  <2> QED
    BY <2>4, <2>6 DEF TaskInv
<1>6. S = {} => Through(p)'
  BY <1>4 DEF Through
<1> QED
  BY <1>4, <1>5, <1>6

(* The beginning of a pass, of its polls, and a crash *)
LEMMA ListKeeps ==
  ASSUME IInv, NEW p \in Passes, SweepBegin(p) \/ PollBegin(p) \/ Crash(p) PROVE IInv'
<1>1. /\ faults \in 0..MaxFaults /\ overlaps \in 0..MaxOverlaps
      /\ pass \in [Passes -> {"idle", "sweep", "poll"}]
  BY DEF IInv, TypeOK
<1>2. /\ faults' \in 0..MaxFaults /\ overlaps' \in 0..MaxOverlaps /\ (faults' = 0 => faults = 0)
      /\ UNCHANGED <<row, book, old>>
  BY <1>1, BoundsAssumption DEF SweepBegin, PollBegin, Crash, List, DbOk, Fault
<1>3. Through(p) \/ faults' # 0
  <2>1. SweepBegin(p) => Through(p)
    BY DEF SweepBegin, IInv, IdleInv
  <2>2. Crash(p) => faults' # 0
    BY <1>1 DEF Crash, Fault
  <2> QED
    BY <2>1, <2>2 DEF PollBegin
<1>4. PICK ph \in {"idle", "sweep", "poll"}, pc \in {"sweep", "poll"}, S \in SUBSET Unfinished :
        pass' = [pass EXCEPT ![p] = ph] /\ Take(p, pc, S) /\ (ph = "idle" => S = {})
  <2>1. CASE SweepBegin(p)
    BY <2>1, ListsUnfinished DEF SweepBegin, List
  <2>2. CASE PollBegin(p)
    BY <2>2, ListsUnfinished DEF PollBegin, List
  <2>3. CASE Crash(p)
    <3>1. [t \in Tasks |-> NoWork] = [t \in Tasks |-> IF t \in {} THEN Copy("poll", t) ELSE NoWork]
      OBVIOUS
    <3>2. pass' = [pass EXCEPT ![p] = "idle"] /\ Take(p, "poll", {})
      BY <2>3, <3>1 DEF Crash, Take
    <3> QED
      BY <3>2
  <2> QED
    BY <2>1, <2>2, <2>3
<1>5. /\ work' \in [Passes -> [Tasks -> Works]]
      /\ \A t \in Tasks : TaskInv(t)'
      /\ \A q \in Passes : q # p => work'[q] = work[q]
      /\ S = {} => Through(p)'
  BY <1>2, <1>3, <1>4, TakeKeeps
<1>6. TypeOK'
  BY <1>1, <1>2, <1>4, <1>5 DEF IInv, TypeOK
<1>7. IdleInv'
  BY <1>1, <1>4, <1>5 DEF IInv, IdleInv, Through
<1> QED
  BY <1>5, <1>6, <1>7 DEF IInv

(* A task is submitted. *)
LEMMA SubmitKeeps ==
  ASSUME IInv, NEW t \in Tasks, Submit(t) PROVE IInv'
<1> DEFINE r == [status |-> "NOT_START", full |-> FALSE, quota |-> Quota]
           b == [funding |-> Quota, token |-> Quota, used |-> Quota]
<1>1. /\ row \in [Tasks -> Rows] /\ book \in [Tasks -> Books] /\ row[t].status = "none"
      /\ \A u \in Tasks : TaskInv(u)
  BY DEF IInv, TypeOK, Submit
<1>2. r \in Rows /\ b \in Books
  BY QuotaAssumption, ValueTypes DEF Rows, Open
<1>3. /\ row' = [row EXCEPT ![t] = r] /\ book' = [book EXCEPT ![t] = b]
      /\ UNCHANGED <<old, pass, work, overlaps, faults>>
  BY DEF Submit
<1>4. TypeOK'
  BY <1>1, <1>2, <1>3 DEF IInv, TypeOK
<1>5. \A p \in Passes : work[p][t].pc \notin Billing \cup {"sweep", "poll"}
  BY <1>1 DEF TaskInv, CopyInv, BillerInv, BillAt, Ended
<1>6. row'[t] = r /\ book'[t] = b
  BY <1>1, <1>3
<1>7. TaskInv(t)'
  <2>1. \A p \in Passes : CopyInv(p, t)' /\ BillerInv(p, t)'
    BY <1>3, <1>5 DEF CopyInv, BillerInv
  <2>2. AtRest(t)'
    BY <1>3, <1>5 DEF AtRest
  <2>3. OpenInv(t)' /\ RestInv(t)'
    BY <1>6, <2>2, QuotaAssumption DEF OpenInv, RestInv
  <2> QED
    BY <2>1, <2>3 DEF TaskInv
<1>8. ASSUME NEW u \in Tasks, u # t PROVE TaskInv(u)'
  BY <1>1, <1>3, <1>8, Frame
<1>9. IdleInv'
  BY <1>3 DEF IInv, IdleInv, Through
<1> QED
  BY <1>4, <1>7, <1>8, <1>9 DEF IInv

(* Time passes, a pass is through, or nothing happens. *)
LEMMA QuietKeeps ==
  ASSUME IInv, (\E t \in Tasks : Age(t)) \/ (\E p \in Passes : PassEnd(p)) \/ UNCHANGED vars
  PROVE  IInv'
<1>1. UNCHANGED <<row, book, work, overlaps, faults>> /\ old' \subseteq Tasks
  BY DEF Age, PassEnd, vars, IInv, TypeOK
<1>2. /\ pass' \in [Passes -> {"idle", "sweep", "poll"}]
      /\ \A p \in Passes : pass'[p] = "idle" => pass[p] = "idle" \/ Through(p)
  BY DEF Age, PassEnd, vars, IInv, TypeOK
<1>3. TypeOK'
  BY <1>1, <1>2 DEF IInv, TypeOK
<1>4. ASSUME NEW t \in Tasks PROVE TaskInv(t)'
  BY <1>1, Frame DEF IInv
<1>5. IdleInv'
  BY <1>1, <1>2 DEF IInv, IdleInv, Through
<1> QED
  BY <1>3, <1>4, <1>5 DEF IInv

-----------------------------------------------------------------------------
(* Without tasks nothing is listed or billed. *)
LEMMA InitIInv == Init => IInv
<1> SUFFICES ASSUME Init PROVE IInv
  OBVIOUS
<1>1. TypeOK
  <2>1. row \in [Tasks -> Rows] /\ book \in [Tasks -> Books] /\ work \in [Passes -> [Tasks -> Works]]
    BY ValueTypes DEF Init
  <2>2. overlaps \in 0..MaxOverlaps /\ faults \in 0..MaxFaults
    BY BoundsAssumption DEF Init
  <2>3. old \subseteq Tasks /\ pass \in [Passes -> {"idle", "sweep", "poll"}]
    BY DEF Init
  <2> QED
    BY <2>1, <2>2, <2>3 DEF TypeOK
<1>2. IdleInv
  BY DEF Init, IdleInv, Through
<1>3. ASSUME NEW t \in Tasks PROVE TaskInv(t)
  BY DEF Init, TaskInv, CopyInv, BillerInv, OpenInv, RestInv, NoRow, NoWork, Open, Billing
<1> QED
  BY <1>1, <1>2, <1>3 DEF IInv

(* Every step keeps the invariant. *)
LEMMA NextIInv == IInv /\ [Next]_vars => IInv'
<1> SUFFICES ASSUME IInv, [Next]_vars PROVE IInv'
  OBVIOUS
<1>1. ASSUME NEW t \in Tasks, Submit(t) PROVE IInv'
  BY <1>1, SubmitKeeps
<1>2. ASSUME NEW p \in Passes, NEW t \in Tasks, TaskStep(p, t) PROVE IInv'
  BY <1>2, SweepKeeps, PollKeeps, BillStepKeeps DEF TaskStep
<1>3. ASSUME NEW p \in Passes, SweepBegin(p) \/ PollBegin(p) \/ Crash(p) PROVE IInv'
  BY <1>3, ListKeeps
<1>4. CASE (\E t \in Tasks : Age(t)) \/ (\E p \in Passes : PassEnd(p)) \/ UNCHANGED vars
  BY <1>4, QuietKeeps
<1> QED
  BY <1>1, <1>2, <1>3, <1>4 DEF Next, PassStep, Quiet

(* The inductive invariant holds throughout: nobody bills an open task, and   *)
(* one pass at most bills an ended one.                                      *)
THEOREM Invariance == Spec => []IInv
  BY InitIInv, NextIInv, PTL DEF Spec

(* Rows, books, copies and counters keep their types; a row's quota is never *)
(* negative.                                                                 *)
THEOREM TypeCorrect == Spec => []TypeOK
<1>1. IInv => TypeOK
  BY DEF IInv
<1> QED
  BY <1>1, Invariance, PTL

(* A task is refunded or settled once at most, however many passes overlap   *)
(* and whatever fails.                                                       *)
THEOREM BilledAtMostOnce == Spec => []BilledOnce
<1>1. IInv => BilledOnce
  BY DEF IInv, TaskInv, RestInv, BilledOnce
<1> QED
  BY <1>1, Invariance, PTL

(* What a task still costs its user can be read off its row after any crash. *)
THEOREM NothingOwedIsForgotten == Spec => []OwedIsRecorded
<1>1. IInv => OwedIsRecorded
  BY DEF IInv, TaskInv, RestInv, OwedIsRecorded
<1> QED
  BY <1>1, Invariance, PTL

(* Without faults the four records of a task's cost agree at rest.           *)
THEOREM BooksAgreeAtRest == Spec => []BooksAgree
<1>1. IInv => BooksAgree
  BY DEF IInv, TaskInv, RestInv, BooksAgree
<1> QED
  BY <1>1, Invariance, PTL

(* Only guarded writes set an open status, and the guard is an open status.  *)
THEOREM EndIsNotReopened == Spec => NeverReopened
<1>1. IInv /\ [Next]_vars =>
        [\A t \in Tasks : row[t].status \in Ended => row'[t].status \in Ended]_vars
  <2> SUFFICES ASSUME IInv, Next, NEW t \in Tasks, row[t].status \in Ended
               PROVE  row'[t].status \in Ended
    BY DEF vars
  <2>1. row \in [Tasks -> Rows] /\ row[t] \in Rows /\ row[t].status \notin Open /\ row[t].status # "none"
    BY DEF IInv, TypeOK, Ended, Open
  <2>2. ASSUME NEW u \in Tasks, Submit(u) PROVE row'[t].status \in Ended
    BY <2>1, <2>2 DEF Submit
  <2>3. ASSUME NEW p \in Passes, NEW u \in Tasks, NEW s \in Ended, NEW q, NEW d,
               EndTask(p, u, s, q, d)
        PROVE  row'[t].status \in Ended
    BY <2>1, <2>3 DEF EndTask, Write
  <2>4. ASSUME NEW p \in Passes, NEW u \in Tasks, SweepTask(p, u) PROVE row'[t].status \in Ended
    BY <2>3, <2>4 DEF SweepTask, Ended
  <2>5. ASSUME NEW p \in Passes, NEW u \in Tasks, PollTask(p, u) PROVE row'[t].status \in Ended
    <3>1. CASE PollNothing(p, u)
      BY <3>1 DEF PollNothing
    <3>2. CASE PollProgress(p, u)
      <4>1. work[p][u].status \in Open
        BY <2>5 DEF PollTask, IInv, TaskInv, CopyInv
      <4> QED
        BY <2>1, <3>2, <4>1 DEF PollProgress, Matches, Write
    <3>3. CASE PollSuccess(p, u) \/ PollFailure(p, u)
      BY <2>3, <3>3 DEF PollSuccess, PollFailure, Ended
    <3>4. CASE BulkFail(p, u)
      BY <2>1, <3>4 DEF BulkFail, Rows, Ended
    <3> QED
      BY <2>5, <3>1, <3>2, <3>3, <3>4 DEF PollTask
  <2>6. ASSUME NEW p \in Passes, NEW u \in Tasks, BillStep(p, u) PROVE row'[t].status \in Ended
    BY <2>1, <2>6 DEF BillStep, AdjustFunding, AdjustToken, AdjustUsage, RecordQuota, Rows
  <2> QED
    BY <2>2, <2>4, <2>5, <2>6
    DEF Next, PassStep, TaskStep, Age, SweepBegin, PollBegin, PassEnd, Crash, Quiet, vars
<1> QED
  BY <1>1, Invariance, PTL DEF Spec, NeverReopened
=============================================================================
