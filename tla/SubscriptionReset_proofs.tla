---------------------- MODULE SubscriptionReset_proofs ----------------------
(***************************************************************************)
(* Proofs about SubscriptionReset, for any subscriptions, periods, ends,   *)
(* batch size and number of administrative resets and faults: the types,   *)
(* that the schedule follows the last reset, that consumption is wiped     *)
(* only at a boundary, and that the task leaves no row due that it reset.  *)
(***************************************************************************)
EXTENDS SubscriptionReset, FiniteSetTheorems, WellFoundedInduction, TLAPS

(***************************************************************************)
(* Least elements and greatest elements.  The principle of the least       *)
(* natural number is taken from the well-foundedness of < on Nat.          *)
(***************************************************************************)

(* A non-empty set of natural numbers has a least element. *)
LEMMA Least ==
  ASSUME NEW T \in SUBSET Nat, T # {}
  PROVE  \E x \in T : \A y \in T : x <= y
<1> DEFINE R == {ss \in Nat \X Nat : ss[1] < ss[2]}
<1>1. IsWellFoundedOn(R, Nat)
  BY NatLessThanWellFounded DEF OpToRel
<1> HIDE DEF R
<1>2. PICK x \in T : \A y \in T : ~ (<<y, x>> \in R)
  BY <1>1, WFMin
<1>3. \A y \in T : ~(y < x)
  BY <1>2 DEF R
<1> QED BY <1>3

(* Max of a bounded set of integers that is not empty is its greatest      *)
(* element.                                                                *)
LEMMA MaxProperty ==
  ASSUME NEW S \in SUBSET Int, S # {}, NEW hi \in Int, \A x \in S : x <= hi
  PROVE  Max(S) \in S /\ \A x \in S : x <= Max(S)
<1> DEFINE T == {n \in Nat : hi - n \in S}
<1>1. T # {}
  <2>1. PICK x \in S : TRUE
    OBVIOUS
  <2>2. hi - x \in Nat /\ hi - (hi - x) = x
    BY <2>1
  <2> QED BY <2>2
<1>2. PICK n \in T : \A m \in T : n <= m
  BY <1>1, Least
<1>3. hi - n \in S /\ \A x \in S : x <= hi - n
  <2>1. ASSUME NEW x \in S PROVE x <= hi - n
    <3>1. hi - x \in T
      OBVIOUS
    <3> QED BY <3>1, <1>2
  <2> QED BY <2>1
<1> QED BY <1>3 DEF Max

-----------------------------------------------------------------------------
(* calcNextResetTime *)

(* The next calendar boundary: a multiple of the period after the base. *)
LEMMA NextBoundary ==
  ASSUME NEW base \in Nat, NEW p \in Nat \ {0}
  PROVE  LET n == ((base \div p) + 1) * p IN n \in Nat /\ n > base /\ n % p = 0
<1>1. base \div p \in Nat /\ ((base \div p) + 1) * p > base
  OBVIOUS
<1>2. ASSUME NEW q \in Nat PROVE q * p \in Nat /\ (q * p) % p = 0
  OBVIOUS
<1> QED BY <1>1, <1>2

(* What calcNextResetTime returns: nothing, or a boundary after the base   *)
(* and not after the end.                                                  *)
LEMMA CalcNextIs ==
  ASSUME NEW base \in Nat, NEW p \in Nat, NEW end \in Nat
  PROVE  /\ CalcNext(base, p, end) \in Nat
         /\ CalcNext(base, p, end) # 0 =>
              /\ p # 0 /\ CalcNext(base, p, end) > base /\ CalcNext(base, p, end) <= end
              /\ CalcNext(base, p, end) % p = 0
<1>1. CASE p = 0
  BY <1>1 DEF CalcNext
<1>2. CASE p # 0
  <2> DEFINE n == ((base \div p) + 1) * p
  <2>1. n \in Nat /\ n > base /\ n % p = 0
    BY <1>2, NextBoundary
  <2>2. CalcNext(base, p, end) = IF n > end THEN 0 ELSE n
    BY <1>2 DEF CalcNext
  <2> HIDE DEF n
  <2> QED BY <1>2, <2>1, <2>2
<1> QED BY <1>1, <1>2

(* maybeResetUserSubscriptionWithPlanTx *)

Row == [next : Nat, last : Nat, active : BOOLEAN, used : BOOLEAN]

(* The schedule of a row whose plan was not edited. *)
OnSchedule(s, row) ==
  row.next # 0 => row.next = CalcNext(row.last, Period[s], EndTime[s])

(* Which ticks are boundaries that have been passed. *)
LEMMA BoundaryIs ==
  ASSUME TypeOK, NEW s \in Subs, NEW now \in Nat, NEW b \in Int
  PROVE  b \in Boundaries(s, now) <=>
           /\ sub[s].last < b /\ b <= EndTime[s] /\ b <= now
           /\ period[s] # 0 /\ b % period[s] = 0
<1>1. sub[s].last \in Nat /\ EndTime[s] \in Nat
  BY PeriodAssumption DEF TypeOK
<1> QED BY <1>1 DEF Boundaries, Passed

(* They are natural numbers, and the last of them is one of them. *)
LEMMA LastBoundary ==
  ASSUME TypeOK, NEW s \in Subs, NEW now \in Nat, Boundaries(s, now) # {}
  PROVE  /\ Max(Boundaries(s, now)) \in Boundaries(s, now)
         /\ Max(Boundaries(s, now)) \in Nat
         /\ \A b \in Boundaries(s, now) : b <= Max(Boundaries(s, now))
<1> DEFINE B == Boundaries(s, now)
<1>1. sub[s].last \in Nat /\ EndTime[s] \in Nat
  BY PeriodAssumption DEF TypeOK
<1>2. B \subseteq (sub[s].last + 1)..EndTime[s]
  BY DEF Boundaries
<1>3. B # {}
  OBVIOUS
<1> HIDE DEF B
<1>4. B \subseteq Nat /\ \A x \in B : x <= EndTime[s]
  <2>1. ASSUME NEW x \in B PROVE x \in Nat /\ x <= EndTime[s]
    <3>1. x \in (sub[s].last + 1)..EndTime[s]
      BY ONLY <1>2, <2>1
    <3> QED BY ONLY <1>1, <3>1
  <2> QED BY ONLY <2>1
<1>5. Max(B) \in B /\ \A x \in B : x <= Max(B)
  <2>1. B \in SUBSET Int /\ EndTime[s] \in Int
    BY <1>1, <1>4
  <2> QED BY ONLY <1>3, <1>4, <2>1, MaxProperty
<1> QED BY <1>4, <1>5 DEF B

(* A reset writes a row; the row is on schedule if it was; what was used   *)
(* is wiped only when a boundary lies between the last reset and now.      *)
LEMMA MaybeResetIs ==
  ASSUME TypeOK, NEW s \in Subs, NEW now \in Nat
  PROVE  /\ MaybeReset(s, now) \in Row
         /\ period[s] = Period[s] /\ OnSchedule(s, sub[s]) => OnSchedule(s, MaybeReset(s, now))
         /\ sub[s].used /\ ~MaybeReset(s, now).used =>
              \E b \in (sub[s].last + 1)..now : b % period[s] = 0
<1> DEFINE row == sub[s]
           m == Max(Boundaries(s, now))
           end == EndTime[s]
           p == period[s]
<1>1. row \in Row /\ end \in Nat /\ p \in Nat
  BY PeriodAssumption DEF TypeOK, Row
<1>2. CASE row.next > now \/ p = 0
  BY <1>1, <1>2 DEF MaybeReset
<1>3. CASE ~(row.next > now \/ p = 0) /\ Boundaries(s, now) # {}
  <2>1. m \in Boundaries(s, now) /\ m \in Nat
    BY <1>3, LastBoundary
  <2>2. MaybeReset(s, now) = [row EXCEPT !.used = FALSE, !.last = m, !.next = CalcNext(m, p, end)]
    BY <1>3 DEF MaybeReset
  <2>3. m \in (row.last + 1)..now /\ m % p = 0
    BY <1>1, <2>1, BoundaryIs DEF Row
  <2>4. CalcNext(m, p, end) \in Nat
    BY <1>1, <2>1, CalcNextIs
  <2> HIDE DEF m
  <2> QED BY <1>1, <2>1, <2>2, <2>3, <2>4 DEF Row, OnSchedule
<1>4. CASE ~(row.next > now \/ p = 0) /\ Boundaries(s, now) = {}
  <2>1. CalcNext(row.last, p, end) \in Nat
    BY <1>1, CalcNextIs DEF Row
  <2>2. MaybeReset(s, now) = IF row.next = 0 THEN [row EXCEPT !.next = CalcNext(row.last, p, end)]
                                             ELSE row
    BY <1>4 DEF MaybeReset
  <2> QED BY <1>1, <2>1, <2>2 DEF Row, OnSchedule
<1> QED BY <1>2, <1>3, <1>4

(* A reset of a due row on schedule leaves it not due: it has no next      *)
(* reset, or one after now.                                                *)
LEMMA ResetIsDone ==
  ASSUME TypeOK, NEW s \in Subs, NEW now \in Nat,
         period[s] = Period[s], OnSchedule(s, sub[s]), Due(s, now)
  PROVE  MaybeReset(s, now).next = 0 \/ MaybeReset(s, now).next > now
<1> DEFINE row == sub[s]
           m == Max(Boundaries(s, now))
           end == EndTime[s]
           p == period[s]
           n == CalcNext(m, p, end)
<1>1. row \in Row /\ end \in Nat /\ p \in Nat
  BY PeriodAssumption DEF TypeOK, Row
<1>2. row.next = CalcNext(row.last, p, end) /\ row.next # 0 /\ row.next <= now
  BY <1>1 DEF OnSchedule, Due, Row
<1>3. row.next \in Boundaries(s, now) /\ p # 0
  <2>1. row.next > row.last /\ row.next <= end /\ p # 0 /\ row.next % p = 0
    BY <1>1, <1>2, CalcNextIs DEF Row
  <2> QED BY <1>1, <1>2, <2>1, BoundaryIs DEF Row
<1>4. m \in Boundaries(s, now) /\ m \in Nat /\ \A b \in Boundaries(s, now) : b <= m
  BY <1>3, LastBoundary
<1>5. MaybeReset(s, now).next = n
  BY <1>1, <1>2, <1>3 DEF MaybeReset, Row
<1>6. n \in Nat /\ (n # 0 => n > m /\ n <= end /\ n % p = 0)
  BY <1>1, <1>4, CalcNextIs
<1>7. ASSUME n # 0, n <= now PROVE FALSE
  <2>1. m > row.last
    BY <1>1, <1>4, BoundaryIs DEF Row
  <2>2. n \in Boundaries(s, now)
    <3> HIDE DEF n, m
    <3>1. n \in Int /\ n > row.last
      BY <1>1, <1>4, <1>6, <1>7, <2>1 DEF Row
    <3> QED BY <1>3, <1>6, <1>7, <3>1, BoundaryIs
  <2> QED BY <1>4, <1>6, <1>7, <2>2
<1> QED BY <1>5, <1>6, <1>7

-----------------------------------------------------------------------------
(***************************************************************************)
(* The inductive invariant.  The count of a batch stays in its type        *)
(* because what is counted and what is still to do fit into the batch; a   *)
(* row is wiped at a boundary before the clock because the time the task   *)
(* has read is not ahead of the clock; and an unedited plan has the period *)
(* it began with.                                                          *)
(***************************************************************************)
BatchFits ==
  /\ job.count + Cardinality(job.todo) <= BatchSize
  /\ job.pc # "reset" => job.todo = {}
TimeWasRead == job.now <= clock
PlansKept == \A s \in Subs \ Changing : period[s] = Period[s]

IInv == TypeOK /\ BatchFits /\ TimeWasRead /\ PlansKept /\ ScheduleFollowsLastReset

(* The numbers of the task, and the rows still to do. *)
LEMMA JobTypes ==
  ASSUME TypeOK
  PROVE  /\ clock \in Nat /\ job.now \in Nat /\ job.count \in Nat /\ BatchSize \in Nat
         /\ job.todo \subseteq Subs /\ IsFiniteSet(job.todo) /\ Cardinality(job.todo) \in Nat
<1>1. job.todo \subseteq Subs
  BY DEF TypeOK
<1>2. IsFiniteSet(job.todo) /\ Cardinality(job.todo) \in Nat
  BY <1>1, SubsAssumption, FS_Subset, FS_CardinalityType
<1> QED BY <1>1, <1>2, SizeAssumption DEF TypeOK

(* A task between two batches satisfies the invariant's part about it. *)
LEMMA JobAtIs ==
  ASSUME NEW pc \in {"idle", "list", "reset"}, job' = JobAt(pc), clock' \in 0..MaxClock
  PROVE  /\ job' \in [pc : {"idle", "list", "reset"}, now : 0..MaxClock, todo : SUBSET Subs,
                      count : 0..BatchSize]
         /\ BatchFits' /\ TimeWasRead'
<1>1. job'.now = 0 /\ job'.todo = {} /\ job'.count = 0 /\ job'.pc = pc
  BY DEF JobAt
<1>2. Cardinality({}) = 0
  BY FS_EmptySet
<1> QED BY <1>1, <1>2, SizeAssumption DEF JobAt, BatchFits, TimeWasRead

(* Writing one row: types, schedule. *)
LEMMA RowWritten ==
  ASSUME IInv, NEW s \in Subs, NEW row \in Row,
         sub' = [sub EXCEPT ![s] = row], UNCHANGED period,
         s \notin Changing => OnSchedule(s, row)
  PROVE  /\ sub' \in [Subs -> Row] /\ PlansKept' /\ ScheduleFollowsLastReset'
<1>1. sub \in [Subs -> Row] /\ PlansKept /\ ScheduleFollowsLastReset
  BY DEF IInv, TypeOK, Row
<1> QED BY <1>1 DEF PlansKept, ScheduleFollowsLastReset, OnSchedule

(* An unedited row is on schedule, and its plan has its first period. *)
LEMMA ScheduleOf ==
  ASSUME IInv, NEW s \in Subs \ Changing
  PROVE  period[s] = Period[s] /\ OnSchedule(s, sub[s])
BY DEF IInv, PlansKept, ScheduleFollowsLastReset, OnSchedule

LEMMA InitInv == Init => IInv
<1> SUFFICES ASSUME Init PROVE IInv
  OBVIOUS
<1>1. \A s \in Subs : CalcNext(0, Period[s], EndTime[s]) \in Nat
  BY CalcNextIs, PeriodAssumption
<1>2. job.now = 0 /\ job.todo = {} /\ job.count = 0 /\ job.pc = "idle"
  BY DEF Init, JobAt
<1>3. Cardinality({}) = 0
  BY FS_EmptySet
<1>4. TypeOK
  <2>1. sub \in [Subs -> [next : Nat, last : Nat, active : BOOLEAN, used : BOOLEAN]]
    BY <1>1 DEF Init
  <2>2. job \in [pc : {"idle", "list", "reset"}, now : 0..MaxClock, todo : SUBSET Subs,
              count : 0..BatchSize]
    BY SizeAssumption DEF Init, JobAt
  <2> QED BY <2>1, <2>2, PeriodAssumption, SizeAssumption DEF Init, TypeOK
<1> QED
  BY <1>2, <1>3, <1>4, SizeAssumption
  DEF Init, IInv, BatchFits, TimeWasRead, PlansKept, ScheduleFollowsLastReset

LEMMA UseInv ==
  ASSUME IInv, NEW s \in Subs, Use(s)
  PROVE  IInv'
<1> DEFINE row == [MaybeReset(s, clock) EXCEPT !.used = TRUE]
<1>1. TypeOK /\ clock \in Nat
  BY JobTypes DEF IInv
<1>2. MaybeReset(s, clock) \in Row /\ (s \notin Changing => OnSchedule(s, MaybeReset(s, clock)))
  BY <1>1, MaybeResetIs, ScheduleOf
<1>3. row \in Row /\ (s \notin Changing => OnSchedule(s, row))
  BY <1>2 DEF Row, OnSchedule
<1>4. sub' \in [Subs -> Row] /\ PlansKept' /\ ScheduleFollowsLastReset'
  BY <1>3, RowWritten DEF Use
<1> QED BY <1>1, <1>4 DEF Use, IInv, TypeOK, Row, BatchFits, TimeWasRead

LEMMA JobExpireInv ==
  ASSUME IInv, JobExpire
  PROVE  IInv'
<1>1. sub' \in [Subs -> Row] /\ PlansKept' /\ ScheduleFollowsLastReset'
  <2>1. sub \in [Subs -> Row] /\ PlansKept /\ ScheduleFollowsLastReset
    BY DEF IInv, TypeOK, Row
  <2>2. ASSUME NEW s \in Subs
        PROVE  sub'[s].next = sub[s].next /\ sub'[s].last = sub[s].last /\ sub'[s] \in Row
    BY <2>1 DEF JobExpire, Row
  <2>3. sub' \in [Subs -> Row]
    BY <2>2 DEF JobExpire
  <2> QED BY <2>1, <2>2, <2>3 DEF JobExpire, PlansKept, ScheduleFollowsLastReset
<1>2. BatchFits' /\ TimeWasRead' /\ job' \in [pc : {"idle", "list", "reset"}, now : 0..MaxClock,
                                              todo : SUBSET Subs, count : 0..BatchSize]
  BY JobAtIs DEF JobExpire, IInv, TypeOK
<1> QED BY <1>1, <1>2 DEF JobExpire, IInv, TypeOK, Row

LEMMA JobListInv ==
  ASSUME IInv, JobList
  PROVE  IInv'
<1> DEFINE due == {s \in Subs : sub[s].active /\ Due(s, clock)}
<1>1. PICK batch \in SUBSET due :
        /\ Cardinality(batch) = Limit(Cardinality(due))
        /\ job' = IF batch = {} THEN JobAt("idle")
                  ELSE [pc |-> "reset", now |-> clock, todo |-> batch, count |-> 0]
  BY DEF JobList
<1>2. BatchFits' /\ TimeWasRead' /\ job' \in [pc : {"idle", "list", "reset"}, now : 0..MaxClock,
                                              todo : SUBSET Subs, count : 0..BatchSize]
  <2>1. CASE batch = {}
    BY <1>1, <2>1, JobAtIs DEF JobList, IInv, TypeOK
  <2>2. CASE batch # {}
    <3>1. job'.now = clock /\ job'.todo = batch /\ job'.count = 0
      BY <1>1, <2>2
    <3>2. Cardinality(due) \in Nat
      BY SubsAssumption, FS_Subset, FS_CardinalityType
    <3>3. Cardinality(batch) \in Nat /\ Cardinality(batch) <= BatchSize
      <4> HIDE DEF due
      <4> QED BY <1>1, <3>2, SizeAssumption DEF Limit
    <3>4. clock \in 0..MaxClock /\ clock' = clock
      BY DEF JobList, IInv, TypeOK
    <3> QED BY <1>1, <2>2, <3>1, <3>3, <3>4, SizeAssumption DEF BatchFits, TimeWasRead
  <2> QED BY <2>1, <2>2
<1> QED BY <1>2 DEF JobList, IInv, TypeOK, PlansKept, ScheduleFollowsLastReset

LEMMA JobResetInv ==
  ASSUME IInv, JobReset
  PROVE  IInv'
<1>1. PICK s \in job.todo :
        IF Due(s, job.now)
          THEN /\ sub' = [sub EXCEPT ![s] = MaybeReset(s, job.now)]
               /\ job' = [job EXCEPT !.todo = @ \ {s}, !.count = @ + 1]
          ELSE /\ job' = [job EXCEPT !.todo = @ \ {s}]
               /\ UNCHANGED sub
  BY DEF JobReset
<1>2. TypeOK /\ job.now \in Nat /\ job.count \in Nat /\ BatchSize \in Nat /\ s \in Subs
  BY JobTypes DEF IInv
<1>3. IsFiniteSet(job.todo) /\ Cardinality(job.todo) \in Nat
  BY JobTypes DEF IInv
<1>4. Cardinality(job.todo \ {s}) = Cardinality(job.todo) - 1
  BY <1>3, FS_RemoveElement
<1>5. /\ job' \in [pc : {"idle", "list", "reset"}, now : 0..MaxClock, todo : SUBSET Subs,
                   count : Nat]
      /\ job'.now = job.now /\ job'.todo = job.todo \ {s}
      /\ job'.count \in {job.count, job.count + 1} /\ job'.pc = job.pc
  <2>1. job \in [pc : {"idle", "list", "reset"}, now : 0..MaxClock, todo : SUBSET Subs,
                 count : 0..BatchSize]
    BY <1>2 DEF TypeOK
  <2>2. job' = [job EXCEPT !.todo = @ \ {s}] \/ job' = [job EXCEPT !.todo = @ \ {s}, !.count = @ + 1]
    BY <1>1
  <2>3. job.count + 1 \in Nat
    BY <1>2
  <2> QED BY <1>2, <2>1, <2>2, <2>3
<1>6. Cardinality(job.todo \ {s}) \in Nat
  BY <1>3, FS_RemoveElement, FS_CardinalityType
<1>7. BatchFits' /\ TimeWasRead' /\ job' \in [pc : {"idle", "list", "reset"}, now : 0..MaxClock,
                                              todo : SUBSET Subs, count : 0..BatchSize]
  <2>1. job.count + Cardinality(job.todo) <= BatchSize /\ job.now <= clock /\ clock' = clock
    BY DEF IInv, BatchFits, TimeWasRead, JobReset
  <2> job.pc = "reset"
    BY DEF JobReset
  <2>2. job'.count + Cardinality(job'.todo) <= BatchSize
    BY <1>2, <1>3, <1>4, <1>5, <2>1
  <2>3. job'.count \in 0..BatchSize
    BY <1>2, <1>5, <1>6, <2>2
  <2> QED BY <1>5, <2>1, <2>2, <2>3 DEF BatchFits, TimeWasRead
<1>8. sub' \in [Subs -> Row] /\ PlansKept' /\ ScheduleFollowsLastReset'
  <2>1. CASE Due(s, job.now)
    <3>1. MaybeReset(s, job.now) \in Row
          /\ (s \notin Changing => OnSchedule(s, MaybeReset(s, job.now)))
      BY <1>2, MaybeResetIs, ScheduleOf
    <3> QED BY <1>1, <1>2, <2>1, <3>1, RowWritten DEF JobReset
  <2>2. CASE ~Due(s, job.now)
    BY <1>1, <2>2 DEF JobReset, IInv, TypeOK, Row, PlansKept, ScheduleFollowsLastReset
  <2> QED BY <2>1, <2>2
<1> QED BY <1>7, <1>8 DEF JobReset, IInv, TypeOK, Row

LEMMA JobEndsInv ==
  ASSUME IInv, JobBatchEnds \/ JobFails
  PROVE  IInv'
<1>1. BatchFits' /\ TimeWasRead' /\ job' \in [pc : {"idle", "list", "reset"}, now : 0..MaxClock,
                                              todo : SUBSET Subs, count : 0..BatchSize]
  BY JobAtIs DEF JobBatchEnds, JobFails, IInv, TypeOK
<1> QED
  BY <1>1, SizeAssumption
  DEF JobBatchEnds, JobFails, IInv, TypeOK, PlansKept, ScheduleFollowsLastReset

LEMMA ChangePlanInv ==
  ASSUME IInv, NEW s \in Subs, ChangePlan(s)
  PROVE  IInv'
<1>1. PICK p \in Nat : period' = [period EXCEPT ![s] = p]
  BY ChangingAssumption DEF ChangePlan
<1>2. s \in Changing /\ period \in [Subs -> Nat]
  BY DEF ChangePlan, IInv, TypeOK
<1> QED
  BY <1>1, <1>2
  DEF ChangePlan, IInv, TypeOK, BatchFits, TimeWasRead, PlansKept, ScheduleFollowsLastReset

LEMMA AdminResetInv ==
  ASSUME IInv, NEW s \in Subs, AdminReset(s)
  PROVE  IInv'
<1> DEFINE next == CalcNext(clock, period[s], EndTime[s])
<1>1. clock \in Nat /\ period[s] \in Nat /\ EndTime[s] \in Nat /\ sub \in [Subs -> Row]
  BY PeriodAssumption, JobTypes DEF IInv, TypeOK, Row
<1>2. next \in Nat
  BY <1>1, CalcNextIs
<1>3. PICK advance \in BOOLEAN :
        sub' = [sub EXCEPT ![s] =
                  IF advance THEN [@ EXCEPT !.used = FALSE, !.next = next,
                                            !.last = IF next > 0 THEN clock ELSE 0]
                             ELSE [@ EXCEPT !.used = FALSE]]
  BY DEF AdminReset
<1> DEFINE row == IF advance THEN [sub[s] EXCEPT !.used = FALSE, !.next = next,
                                                 !.last = IF next > 0 THEN clock ELSE 0]
                             ELSE [sub[s] EXCEPT !.used = FALSE]
<1>4. sub' = [sub EXCEPT ![s] = row]
  BY <1>1, <1>3
<1>5. row \in Row
  <2> HIDE DEF next
  <2> QED BY <1>1, <1>2 DEF Row
<1>6. s \notin Changing => OnSchedule(s, row)
  <2> SUFFICES ASSUME s \notin Changing PROVE OnSchedule(s, row)
    OBVIOUS
  <2>1. period[s] = Period[s] /\ OnSchedule(s, sub[s])
    BY ScheduleOf
  <2>2. next = CalcNext(clock, Period[s], EndTime[s])
    BY <2>1
  <2> HIDE DEF next
  <2> QED BY <1>1, <1>2, <2>1, <2>2 DEF OnSchedule, Row
<1> HIDE DEF row
<1>7. sub' \in [Subs -> Row] /\ PlansKept' /\ ScheduleFollowsLastReset'
  BY <1>4, <1>5, <1>6, RowWritten DEF AdminReset
<1>8. admin' \in 0..MaxAdmin
  BY SizeAssumption DEF AdminReset, IInv, TypeOK
<1> QED BY <1>7, <1>8 DEF AdminReset, IInv, TypeOK, Row, BatchFits, TimeWasRead

LEMMA TickInv ==
  ASSUME IInv, Tick
  PROVE  IInv'
<1>1. clock' \in 0..MaxClock /\ clock' = clock + 1 /\ clock \in Nat /\ job.now \in Nat
  BY SizeAssumption DEF Tick, IInv, TypeOK
<1> QED BY <1>1 DEF Tick, IInv, TypeOK, BatchFits, TimeWasRead, PlansKept, ScheduleFollowsLastReset

(* Every step preserves the invariant. *)
LEMMA NextInv == IInv /\ [Next]_vars => IInv'
<1> SUFFICES ASSUME IInv, [Next]_vars PROVE IInv'
  OBVIOUS
<1>1. CASE UNCHANGED vars
  BY <1>1 DEF vars, IInv, TypeOK, BatchFits, TimeWasRead, PlansKept, ScheduleFollowsLastReset
<1>2. CASE \E s \in Subs : Use(s) \/ ChangePlan(s) \/ AdminReset(s)
  BY <1>2, UseInv, ChangePlanInv, AdminResetInv
<1>3. CASE JobStep \/ JobFails \/ Tick
  BY <1>3, JobExpireInv, JobListInv, JobResetInv, JobEndsInv, TickInv DEF JobStep
<1> QED BY <1>1, <1>2, <1>3 DEF Next

(* The invariant holds throughout. *)
LEMMA Invariance == Spec => []IInv
BY InitInv, NextInv, PTL DEF Spec

-----------------------------------------------------------------------------
(* The theorems *)

(* The rows, the task and the clock stay within their types; a batch never *)
(* counts more rows than ResetDueSubscriptions asked for.                  *)
THEOREM TypeCorrect == Spec => []TypeOK
<1>1. IInv => TypeOK
  BY DEF IInv
<1> QED BY <1>1, Invariance, PTL

(* The next reset of a subscription whose plan was never edited is the one *)
(* its last reset implies, whatever the task, requests and administrator   *)
(* do in between (maybeResetUserSubscriptionWithPlanTx).                   *)
THEOREM ScheduleFollows == Spec => []ScheduleFollowsLastReset
<1>1. IInv => ScheduleFollowsLastReset
  BY DEF IInv
<1> QED BY <1>1, Invariance, PTL

(* What a step does to the rows that it wipes. *)
LEMMA WipeStep ==
  ASSUME IInv, [Next]_vars, NEW s \in Subs, sub[s].used, ~sub'[s].used, admin' = admin
  PROVE  \E b \in (sub[s].last + 1)..clock : b % period[s] = 0
<1>1. sub \in [Subs -> Row] /\ TypeOK /\ job.now \in Nat /\ clock \in Nat
  BY JobTypes DEF IInv, TypeOK, Row
<1>2. CASE UNCHANGED sub
  BY <1>2
<1>3. ASSUME NEW x \in Subs, Use(x) PROVE FALSE
  <2>1. MaybeReset(x, clock) \in Row
    BY <1>1, MaybeResetIs
  <2> QED BY <1>1, <1>3, <2>1 DEF Use, Row
<1>4. ASSUME NEW x \in Subs, AdminReset(x) PROVE FALSE
  BY <1>4 DEF AdminReset, IInv, TypeOK
<1>5. CASE JobExpire
  BY <1>1, <1>5 DEF JobExpire, Row
<1>6. CASE JobReset
  <2>1. PICK x \in job.todo : IF Due(x, job.now)
                                THEN sub' = [sub EXCEPT ![x] = MaybeReset(x, job.now)]
                                ELSE UNCHANGED sub
    BY <1>6 DEF JobReset
  <2>2. x = s /\ ~MaybeReset(s, job.now).used
    BY <1>1, <2>1
  <2>3. PICK b \in (sub[s].last + 1)..job.now : b % period[s] = 0
    BY <1>1, <2>2, MaybeResetIs
  <2>4. b \in (sub[s].last + 1)..clock
    BY <1>1, <2>3 DEF IInv, TimeWasRead, Row
  <2> QED BY <2>3, <2>4
<1>7. UNCHANGED sub \/ JobExpire \/ JobReset \/ \E x \in Subs : Use(x) \/ AdminReset(x)
  BY DEF Next, vars, JobStep, JobList, JobBatchEnds, JobFails, Tick, ChangePlan
<1> QED BY <1>2, <1>3, <1>4, <1>5, <1>6, <1>7

(* Nobody gets a period's quota twice: consumption is wiped only when a    *)
(* boundary lies between the last reset and now, however old the time and  *)
(* the list are that the task works with (ResetDueSubscriptions).          *)
THEOREM WipedAtBoundary == Spec => WipedOnlyAtBoundary
<1> DEFINE A == \A s \in Subs :
                  sub[s].used /\ ~sub'[s].used /\ admin' = admin =>
                    \E b \in (sub[s].last + 1)..clock : b % period[s] = 0
<1>1. IInv /\ [Next]_vars => [A]_vars
  BY WipeStep
<1>2. WipedOnlyAtBoundary <=> [][A]_vars
  BY DEF WipedOnlyAtBoundary
<1> HIDE DEF A
<1> QED BY <1>1, <1>2, Invariance, PTL DEF Spec

(* A row the task has gone through is not due any more at the time the     *)
(* batch was listed, unless an administrator edits its plan.               *)
ResetIsFinal ==
  [][\A s \in (job.todo \ job'.todo) \ Changing :
       job'.pc = "reset" => ~(sub'[s].next > 0 /\ sub'[s].next <= job.now)]_vars

LEMMA FinalStep ==
  ASSUME IInv, [Next]_vars, NEW s \in (job.todo \ job'.todo) \ Changing, job'.pc = "reset"
  PROVE  ~(sub'[s].next > 0 /\ sub'[s].next <= job.now)
<1>1. TypeOK /\ sub \in [Subs -> Row] /\ job.now \in Nat /\ s \in Subs
  BY JobTypes DEF IInv, TypeOK, Row
<1>2. JobReset \/ JobList
  <2>1. job' # job
    OBVIOUS
  <2>2. JobReset \/ JobList \/ JobExpire \/ JobBatchEnds \/ JobFails
    BY <2>1 DEF Next, vars, Use, ChangePlan, AdminReset, JobStep, Tick
  <2>3. ~(JobExpire \/ JobBatchEnds \/ JobFails)
    BY DEF JobExpire, JobBatchEnds, JobFails, JobAt
  <2> QED BY <2>2, <2>3
<1>3. CASE JobReset
  <2>1. PICK x \in job.todo :
          IF Due(x, job.now)
            THEN /\ sub' = [sub EXCEPT ![x] = MaybeReset(x, job.now)]
                 /\ job' = [job EXCEPT !.todo = @ \ {x}, !.count = @ + 1]
            ELSE /\ job' = [job EXCEPT !.todo = @ \ {x}]
                 /\ UNCHANGED sub
    BY <1>3 DEF JobReset
  <2>2. job'.todo = job.todo \ {x}
    BY <2>1 DEF IInv, TypeOK
  <2>3. x = s
    BY <2>2
  <2>4. CASE Due(s, job.now)
    <3>1. MaybeReset(s, job.now).next = 0 \/ MaybeReset(s, job.now).next > job.now
      BY <1>1, <2>4, ScheduleOf, ResetIsDone
    <3>2. MaybeReset(s, job.now) \in Row
      BY <1>1, MaybeResetIs
    <3> QED BY <1>1, <2>1, <2>3, <2>4, <3>1, <3>2 DEF Row
  <2>5. CASE ~Due(s, job.now)
    BY <2>1, <2>3, <2>5 DEF Due
  <2> QED BY <2>4, <2>5
<1>4. CASE JobList
  BY <1>4 DEF JobList, IInv, BatchFits
<1> QED BY <1>2, <1>3, <1>4

(* One transaction of the task is enough for a row: maybeResetUser-        *)
(* SubscriptionWithPlanTx walks over every boundary passed, so the row has *)
(* no next reset or one after the time the batch was listed. A full batch  *)
(* asks for the next one and cannot meet the same unedited rows again.     *)
THEOREM ResetOnceIsEnough == Spec => ResetIsFinal
<1> DEFINE A == \A s \in (job.todo \ job'.todo) \ Changing :
                  job'.pc = "reset" => ~(sub'[s].next > 0 /\ sub'[s].next <= job.now)
<1>1. IInv /\ [Next]_vars => [A]_vars
  BY FinalStep
<1>2. ResetIsFinal <=> [][A]_vars
  BY DEF ResetIsFinal
<1> HIDE DEF A
<1> QED BY <1>1, <1>2, Invariance, PTL DEF Spec
=============================================================================
