------------------------ MODULE UserSession_proofs ------------------------
(***************************************************************************)
(* Proofs about UserSession for any number of servers, requests and faults  *)
(* and any length of the cache lifetime, the replay window and the session: *)
(* its types, that a refresh that loses its race is always answered with    *)
(* the winner's token, that it implements SessionStore, and that a revoked  *)
(* session stays out.                                                       *)
(***************************************************************************)
EXTENDS UserSession, TLAPS

Sessions == [status : {"active", "revoked"}, ver : Nat \ {0}, auth : Nat \ {0},
             gen : Nat \ {0}, prev : Nat, until : Nat,
             why : Kinds \cup {"none", "user_security_changed", "refresh_reuse"}]
Entries == [st : {"none", "active", "revoking", "revoked"}, ver : Nat, auth : Nat, exp : Nat]
Pcs == {"idle", "load", "read", "write", "written", "confirm", "loaded", "bump", "advance",
        "rotate", "swap", "candidate", "fence", "kill", "tombstone", "done"}
Results == {"none", "accepted", "rejected", "invalid", "race", "error", "ok"}
Ops == [kind : Kinds \cup {"none", "login"}, pc : Pcs,
        phase : {"none", "create", "load", "rotate", "advance"},
        tok : [ver : Nat, auth : Nat], gen : Nat, dl : Nat, at : Nat, tries : 0..3,
        snap : Sessions, born : Nat, after : {"open", "loose", "sealed"}, res : Results]

(* A request in the midst of its work, against the row r                    *)
OpInv(o, r) ==
    /\ o.pc \in {"load", "read"} => o.phase = "load"
    /\ o.pc \in {"write", "written", "confirm"} => o.phase # "none"
    /\ o.kind = "refresh" /\ o.pc # "done" => o.gen > 0
    /\ o.pc \in {"rotate", "swap"} => o.kind = "refresh" /\ o.phase = "rotate"
    /\ o.pc \in {"write", "written", "confirm"} /\ o.phase \in {"create", "rotate"} => o.gen < r.gen
    /\ o.pc = "swap" => o.tries = 3 /\ Life > o.at /\ o.gen <= r.gen
    /\ o.pc = "rotate" => o.tries = 3 \/ (o.tries = 2 /\ (r.status # "active" \/ o.gen < r.gen))
    /\ o.pc \in {"candidate", "fence", "kill", "tombstone"} => o.kind # "login"
    /\ o.res # "race"

CacheOK == cache \in Entries
           /\ (cache.st = "none" \/ (cache.exp > now /\ cache.ver > 0 /\ cache.auth > 0))
RowOK == row \in Sessions /\ (row.prev > 0 => row.gen = row.prev + 1)
CountsOK ==
    /\ now \in 0..MaxTime /\ begun \in 0..MaxOps /\ faults \in 0..MaxFaults
    /\ userAuth \in Nat \ {0}
    /\ ended \in [how : {"open", "loose", "sealed"}, at : Nat]
GivenOK == issued \subseteq [ver : Nat \ {0}, auth : Nat \ {0}]
           /\ answers \subseteq Nat \X (Nat \ {0})
OpsOK == op \in [Procs -> Ops] /\ \A q \in Procs : OpInv(op[q], row)

IInv == CountsOK /\ RowOK /\ CacheOK /\ GivenOK /\ OpsOK

-----------------------------------------------------------------------------
(* The records that are put together all the time                           *)

LEMMA Constants ==
    /\ MaxOps \in Nat /\ MaxTime \in Nat /\ MaxFaults \in Nat
    /\ TTL \in Nat /\ TTL > 0 /\ Grace \in Nat /\ Life \in Nat /\ Life > 0
BY SessionAssumption

LEMMA NewRowOK == NewRow \in Sessions
BY DEF NewRow, Sessions, Kinds

LEMMA IdleOK == Idle \in Ops /\ Idle.res = "none"
BY NewRowOK DEF Idle, Ops, NoTok, Pcs, Results, Kinds

(* What a request knows of the row stays true while the row moves on        *)
LEMMA Monotone ==
    ASSUME NEW o \in Ops, NEW r \in Sessions, NEW s \in Sessions,
           OpInv(o, r), r.gen <= s.gen, r.status # "active" => s.status # "active"
    PROVE  OpInv(o, s)
BY DEF OpInv, Ops, Sessions

LEMMA Replace ==
    ASSUME OpsOK, RowOK, NEW p \in Procs, NEW o \in Ops,
           op' = [op EXCEPT ![p] = o], row' \in Sessions,
           row.gen <= row'.gen, row.status # "active" => row'.status # "active",
           OpInv(o, row')
    PROVE  OpsOK'
<1>1. op' \in [Procs -> Ops]
  BY DEF OpsOK
<1>2. ASSUME NEW q \in Procs PROVE OpInv(op'[q], row')
  <2>1. CASE q = p
    BY <2>1 DEF OpsOK
  <2>2. CASE q # p
    <3>1. op'[q] = op[q] /\ op[q] \in Ops /\ OpInv(op[q], row) /\ row \in Sessions
      BY <2>2 DEF OpsOK, RowOK
    <3>2. OpInv(op[q], row')
      BY <3>1, Monotone
    <3> QED BY <3>1, <3>2
  <2> QED BY <2>1, <2>2
<1> QED BY <1>1, <1>2 DEF OpsOK

LEMMA ResultOK ==
    ASSUME OpsOK, RowOK, NEW p \in Procs, NEW res \in Results, res # "race",
           Result(p, res), row' = row
    PROVE  OpsOK'
<1> DEFINE o == [Idle EXCEPT !.kind = op[p].kind, !.pc = "done", !.tok = op[p].tok,
                             !.born = op[p].born, !.after = op[p].after, !.res = res]
<1>1. op[p] \in Ops
  BY DEF OpsOK
<1>2. o \in Ops
  <2>1. "done" \in Pcs
    BY DEF Pcs
  <2>2. /\ op[p].kind \in Kinds \cup {"none", "login"} /\ op[p].tok \in [ver : Nat, auth : Nat]
        /\ op[p].born \in Nat /\ op[p].after \in {"open", "loose", "sealed"}
    BY <1>1 DEF Ops
  <2>3. Idle \in Ops
    BY IdleOK
  <2> QED BY <2>1, <2>2, <2>3 DEF Ops
<1>3. o.pc = "done" /\ o.res = res
  BY IdleOK DEF Ops
<1>4. OpInv(o, row)
  BY <1>3 DEF OpInv
<1>5. op' = [op EXCEPT ![p] = o]
  BY DEF Result
<1> HIDE DEF o
<1>6. row' \in Sessions /\ row.gen <= row'.gen
  BY DEF RowOK, Sessions
<1>7. OpInv(o, row')
  BY <1>4
<1> QED BY <1>2, <1>5, <1>6, <1>7, Replace

LEMMA GotoOK ==
    ASSUME OpsOK, RowOK, NEW p \in Procs, NEW pc \in Pcs, Goto(p, pc), row' \in Sessions,
           row.gen <= row'.gen, row.status # "active" => row'.status # "active",
           OpInv([op[p] EXCEPT !.pc = pc], row')
    PROVE  OpsOK'
<1> DEFINE o == [op[p] EXCEPT !.pc = pc]
<1>1. o \in Ops
  BY DEF OpsOK, Ops
<1>2. op' = [op EXCEPT ![p] = o]
  BY DEF Goto
<1> HIDE DEF o
<1> QED BY <1>1, <1>2, Replace DEF o

LEMMA ReplyOK ==
    ASSUME OpsOK, RowOK, GivenOK, NEW p \in Procs, NEW res \in Results, res # "race",
           Reply(p, res), row' = row
    PROVE  OpsOK' /\ GivenOK'
BY ResultOK DEF Reply, GivenOK

LEMMA BundleOK ==
    ASSUME GivenOK, NEW s \in Sessions, Bundle(s)
    PROVE  issued' \subseteq [ver : Nat \ {0}, auth : Nat \ {0}]
BY DEF GivenOK, Bundle, Sessions

LEMMA AnsweredOK ==
    ASSUME OpsOK, RowOK, GivenOK, NEW p \in Procs, NEW s \in Sessions, Answered(p, s), row' = row
    PROVE  OpsOK' /\ GivenOK'
<1>1. OpsOK'
  BY ResultOK DEF Answered, Results
<1>2. op[p].gen \in Nat
  BY DEF OpsOK, Ops
<1>3. answers' \subseteq Nat \X (Nat \ {0})
  BY <1>2 DEF Answered, GivenOK
<1> QED BY <1>1, <1>3, BundleOK DEF Answered, GivenOK

(* The cache write and its three callers                                    *)
Writing == {"write", "written", "confirm"}

LEMMA ProceedOK ==
    ASSUME OpsOK, RowOK, GivenOK, NEW p \in Procs, op[p].pc \in Writing, Proceed(p), row' = row
    PROVE  OpsOK' /\ GivenOK'
<1>1. op[p] \in Ops /\ OpInv(op[p], row)
  BY DEF OpsOK
<1>2. op[p].snap \in Sessions /\ op[p].phase \in {"create", "load", "rotate", "advance"}
  BY <1>1 DEF Ops, OpInv, Writing
<1>3. row' \in Sessions /\ row.gen <= row'.gen
  BY DEF RowOK, Sessions
<1>4. CASE op[p].phase = "load"
  <2>1. Goto(p, "loaded") /\ UNCHANGED <<issued, answers>>
    BY <1>4 DEF Proceed
  <2>2. OpInv([op[p] EXCEPT !.pc = "loaded"], row')
    BY <1>1 DEF OpInv, Ops, Writing
  <2>3. "loaded" \in Pcs
    BY DEF Pcs
  <2>4. OpsOK'
    BY <2>1, <2>2, <2>3, <1>3, GotoOK
  <2> QED BY <2>1, <2>4 DEF GivenOK
<1>5. CASE op[p].phase \in {"create", "rotate"}
  <2>1. Answered(p, op[p].snap)
    BY <1>5 DEF Proceed
  <2> QED BY <2>1, <1>2, AnsweredOK
<1>6. CASE op[p].phase = "advance"
  <2>1. Result(p, "accepted") /\ Bundle(op[p].snap) /\ UNCHANGED answers
    BY <1>6 DEF Proceed
  <2>2. OpsOK'
    BY <2>1, ResultOK DEF Results
  <2> QED BY <2>1, <2>2, <1>2, BundleOK DEF GivenOK
<1> QED BY <1>2, <1>4, <1>5, <1>6

LEMMA RefuseOK ==
    ASSUME OpsOK, RowOK, GivenOK, NEW p \in Procs, Refuse(p), row' = row
    PROVE  OpsOK' /\ GivenOK'
<1> DEFINE res == IF op[p].phase = "load" THEN "rejected" ELSE "error"
<1>1. res \in Results /\ res # "race"
  BY DEF Results
<1>2. Reply(p, res)
  BY DEF Refuse
<1> HIDE DEF res
<1> QED BY <1>1, <1>2, ReplyOK

LEMMA UnwrittenOK ==
    ASSUME OpsOK, RowOK, GivenOK, NEW p \in Procs, op[p].pc \in Writing, Unwritten(p), row' = row
    PROVE  OpsOK' /\ GivenOK'
<1>1. CASE op[p].phase = "advance"
  BY <1>1, ReplyOK DEF Unwritten, Results
<1>2. CASE op[p].phase # "advance"
  BY <1>2, ProceedOK DEF Unwritten
<1> QED BY <1>1, <1>2

LEMMA DenyOK ==
    ASSUME CountsOK, NEW st \in {"revoking", "revoked"}, NEW s \in Sessions
    PROVE  Deny(st, s) \in Entries /\ Deny(st, s).exp > now /\ Deny(st, s).ver > 0 /\ Deny(st, s).auth > 0
<1>1. DenyUntil \in Nat /\ DenyUntil > now
  BY Constants DEF DenyUntil, Most, Least, CountsOK
<1> QED BY <1>1 DEF Deny, Entries, Sessions

LEMMA SnapshotOK ==
    ASSUME CountsOK, NEW s \in Sessions, NEW dl \in Nat
    PROVE  /\ Snapshot(s, dl) \in Entries
           /\ Snapshot(s, dl).st = "none" \/ (Snapshot(s, dl).exp > now /\ Snapshot(s, dl).ver > 0
                                               /\ Snapshot(s, dl).auth > 0)
<1> DEFINE e == [st |-> "active", ver |-> s.ver, auth |-> s.auth, exp |-> Least(dl, Life)]
<1>1. Least(dl, Life) \in Nat
  BY Constants DEF Least
<1>2. e \in Entries /\ e.ver > 0 /\ e.auth > 0
  BY <1>1 DEF Entries, Sessions
<1>3. NoEntry \in Entries /\ NoEntry.st = "none"
  BY DEF NoEntry, Entries
<1>4. Snapshot(s, dl) = Alive(e)
  BY DEF Snapshot
<1> HIDE DEF e
<1> QED BY <1>2, <1>3, <1>4 DEF Alive

(* Redis refuses, fails or takes a deny entry                               *)
LEMMA FailsOK == ASSUME CountsOK, RedisFails PROVE faults' \in 0..MaxFaults
BY Constants DEF CountsOK, RedisFails

-----------------------------------------------------------------------------
(* One lemma for each action                                                *)

LEMMA ArriveOK ==
    ASSUME IInv, NEW p \in Procs, NEW o \in Ops, Arrive(p, o), o.res = "none",
           o.pc \in {"load", "candidate"}, o.pc = "load" => o.phase = "load",
           o.kind = "refresh" => o.gen > 0, o.kind # "login"
    PROVE  IInv'
<1> DEFINE n == [o EXCEPT !.born = now, !.after = ended.how]
<1>0. now \in Nat /\ ended.how \in {"open", "loose", "sealed"}
  BY Constants DEF IInv, CountsOK
<1>1. n \in Ops /\ n.pc = o.pc /\ n.phase = o.phase /\ n.kind = o.kind /\ n.gen = o.gen /\ n.res = o.res
  BY <1>0 DEF Ops
<1>2. op' = [op EXCEPT ![p] = n]
  BY DEF Arrive
<1>3. OpInv(n, row)
  BY <1>1 DEF OpInv
<1> HIDE DEF n
<1>4. row' = row /\ row' \in Sessions /\ row.gen <= row'.gen
  BY DEF IInv, RowOK, Sessions, Arrive
<1>5. OpsOK'
  BY <1>1, <1>2, <1>3, <1>4, Replace DEF IInv
<1>6. begun' \in 0..MaxOps
  BY Constants DEF Arrive, IInv, CountsOK
<1> QED BY <1>5, <1>6 DEF IInv, Arrive, CountsOK, RowOK, CacheOK, GivenOK

LEMMA BeginAccessOK == ASSUME IInv, NEW p \in Procs, BeginAccess(p) PROVE IInv'
<1>1. PICK t \in issued, k \in {"access", "advance"} :
         Arrive(p, [Idle EXCEPT !.kind = k, !.pc = "load", !.phase = "load", !.tok = t])
  BY DEF BeginAccess
<1> DEFINE o == [Idle EXCEPT !.kind = k, !.pc = "load", !.phase = "load", !.tok = t]
<1>2. t \in [ver : Nat, auth : Nat]
  BY DEF IInv, GivenOK
<1>3. o \in Ops /\ o.res = "none" /\ o.pc = "load" /\ o.phase = "load"
        /\ o.kind # "refresh" /\ o.kind # "login"
  BY <1>2, IdleOK DEF Ops, Pcs, Kinds
<1>4. Arrive(p, o)
  BY <1>1
<1> HIDE DEF o
<1> QED BY <1>3, <1>4, ArriveOK

LEMMA HeldOK == ASSUME GivenOK, NEW g \in Held PROVE g \in Nat /\ g > 0
BY DEF GivenOK, Held

LEMMA BeginRefreshOK == ASSUME IInv, NEW p \in Procs, BeginRefresh(p) PROVE IInv'
<1>1. PICK g \in Held :
         Arrive(p, [Idle EXCEPT !.kind = "refresh", !.pc = "load", !.phase = "load", !.gen = g])
  BY DEF BeginRefresh
<1> DEFINE o == [Idle EXCEPT !.kind = "refresh", !.pc = "load", !.phase = "load", !.gen = g]
<1>2. g \in Nat /\ g > 0
  BY HeldOK DEF IInv
<1>3. o \in Ops /\ o.res = "none" /\ o.pc = "load" /\ o.phase = "load"
        /\ o.gen > 0 /\ o.kind # "login"
  BY <1>2, IdleOK DEF Ops, Pcs, Kinds
<1>4. Arrive(p, o)
  BY <1>1
<1> HIDE DEF o
<1> QED BY <1>3, <1>4, ArriveOK

LEMMA BeginRevokeOK == ASSUME IInv, NEW p \in Procs, BeginRevoke(p) PROVE IInv'
<1>0. now \in Nat
  BY Constants DEF IInv, CountsOK
<1>1. CASE \E k \in {"revoke", "bulk"} :
              Arrive(p, [Idle EXCEPT !.kind = k, !.pc = "candidate", !.at = now])
  <2>1. PICK k \in {"revoke", "bulk"} :
              Arrive(p, [Idle EXCEPT !.kind = k, !.pc = "candidate", !.at = now])
    BY <1>1
  <2> DEFINE o == [Idle EXCEPT !.kind = k, !.pc = "candidate", !.at = now]
  <2>2. o \in Ops /\ o.res = "none" /\ o.pc = "candidate" /\ o.kind \notin {"refresh", "login"}
    BY <1>0, IdleOK DEF Ops, Pcs, Kinds
  <2>3. Arrive(p, o)
    BY <2>1
  <2> HIDE DEF o
  <2> QED BY <2>2, <2>3, ArriveOK
<1>2. CASE \E g \in Held :
              Arrive(p, [Idle EXCEPT !.kind = "logout", !.pc = "candidate", !.at = now, !.gen = g])
  <2>1. PICK g \in Held :
              Arrive(p, [Idle EXCEPT !.kind = "logout", !.pc = "candidate", !.at = now, !.gen = g])
    BY <1>2
  <2> DEFINE o == [Idle EXCEPT !.kind = "logout", !.pc = "candidate", !.at = now, !.gen = g]
  <2>2. g \in Nat
    BY HeldOK DEF IInv
  <2>3. o \in Ops /\ o.res = "none" /\ o.pc = "candidate" /\ o.kind \notin {"refresh", "login"}
    BY <1>0, <2>2, IdleOK DEF Ops, Pcs, Kinds
  <2>4. Arrive(p, o)
    BY <2>1
  <2> HIDE DEF o
  <2> QED BY <2>3, <2>4, ArriveOK
<1> QED BY <1>1, <1>2 DEF BeginRevoke

(* What most steps start from                                               *)
LEMMA Facts ==
    ASSUME IInv, NEW p \in Procs
    PROVE  /\ now \in Nat /\ Deadline \in Nat
           /\ op[p] \in Ops /\ OpInv(op[p], row) /\ op[p].snap \in Sessions
           /\ row \in Sessions /\ row.gen <= row.gen
           /\ OpsOK /\ RowOK /\ GivenOK /\ CountsOK /\ CacheOK
BY Constants DEF IInv, CountsOK, OpsOK, RowOK, Ops, Sessions, Deadline

LEMMA ReadCacheOK == ASSUME IInv, NEW p \in Procs, ReadCache(p) PROVE IInv'
<1>1. op[p].pc = "load" /\ row' = row /\ UNCHANGED <<now, row, userAuth, cache, begun, ended>>
  BY DEF ReadCache
<1>2. op[p].phase = "load" /\ (op[p].kind = "refresh" => op[p].gen > 0) /\ op[p].res # "race"
  BY <1>1, Facts DEF OpInv
<1>3. OpsOK' /\ GivenOK' /\ faults' \in 0..MaxFaults
  <2>1. CASE Reply(p, "rejected") /\ UNCHANGED faults
    <3>1. OpsOK' /\ GivenOK'
      BY <1>1, <2>1, Facts, ReplyOK DEF Results
    <3> QED BY <2>1, <3>1 DEF IInv, CountsOK
  <2>2. CASE /\ cache.st = "active"
             /\ op' = [op EXCEPT ![p].pc = "loaded",
                              ![p].snap = [NewRow EXCEPT !.ver = cache.ver, !.auth = cache.auth]]
             /\ UNCHANGED <<faults, issued, answers>>
    <3> DEFINE s == [NewRow EXCEPT !.ver = cache.ver, !.auth = cache.auth]
               o == [op[p] EXCEPT !.pc = "loaded", !.snap = s]
    <3>0. cache.ver \in Nat \ {0} /\ cache.auth \in Nat \ {0}
      BY <2>2, Facts DEF CacheOK, Entries
    <3>1. s \in Sessions
      BY <3>0, NewRowOK DEF Sessions
    <3> HIDE DEF s
    <3>2. o \in Ops /\ o.pc = "loaded" /\ o.kind = op[p].kind /\ o.gen = op[p].gen /\ o.res = op[p].res
      BY <3>1, Facts DEF Ops, Pcs
    <3>3. op' = [op EXCEPT ![p] = o]
      BY <2>2, Facts DEF s, OpsOK
    <3> HIDE DEF o
    <3>4. OpInv(o, row')
      BY <3>2, <1>1, <1>2 DEF OpInv
    <3>5. OpsOK'
      BY <3>2, <3>3, <3>4, <1>1, Facts, Replace
    <3> QED BY <2>2, <3>5 DEF IInv, GivenOK, CountsOK
  <2>3. CASE /\ UNCHANGED faults \/ RedisFails
             /\ op' = [op EXCEPT ![p].pc = "read", ![p].dl = Deadline]
             /\ UNCHANGED <<issued, answers>>
    <3> DEFINE o == [op[p] EXCEPT !.pc = "read", !.dl = Deadline]
    <3>2. o \in Ops /\ o.pc = "read" /\ o.kind = op[p].kind /\ o.gen = op[p].gen /\ o.res = op[p].res
                    /\ o.phase = op[p].phase
      BY Facts DEF Ops, Pcs
    <3>3. op' = [op EXCEPT ![p] = o]
      BY <2>3, Facts DEF OpsOK
    <3> HIDE DEF o
    <3>4. OpInv(o, row')
      BY <3>2, <1>1, <1>2 DEF OpInv
    <3>5. OpsOK'
      BY <3>2, <3>3, <3>4, <1>1, Facts, Replace
    <3>6. faults' \in 0..MaxFaults
      BY <2>3, FailsOK DEF IInv, CountsOK
    <3> QED BY <2>3, <3>5, <3>6 DEF IInv, GivenOK
  <2> QED BY <2>1, <2>2, <2>3 DEF ReadCache
<1> QED BY <1>1, <1>3 DEF IInv, CountsOK, RowOK, CacheOK

LEMMA ReadRowOK == ASSUME IInv, NEW p \in Procs, ReadRow(p) PROVE IInv'
<1>1. op[p].pc = "read" /\ row' = row /\ UNCHANGED <<now, row, userAuth, begun, ended>>
  BY DEF ReadRow
<1>2. op[p].phase = "load" /\ (op[p].kind = "refresh" => op[p].gen > 0) /\ op[p].res # "race"
  BY <1>1, Facts DEF OpInv
<1>3. CASE Active(row, now)
  <2>1. op' = [op EXCEPT ![p].pc = "write", ![p].snap = row] /\ UNCHANGED <<cache, faults, issued, answers>>
    BY <1>3 DEF ReadRow
  <2> DEFINE o == [op[p] EXCEPT !.pc = "write", !.snap = row]
  <2>2. o \in Ops /\ o.pc = "write" /\ o.kind = op[p].kind /\ o.gen = op[p].gen /\ o.res = op[p].res
                  /\ o.phase = op[p].phase
    BY Facts DEF Ops, Pcs
  <2>3. op' = [op EXCEPT ![p] = o]
    BY <2>1, Facts DEF OpsOK
  <2> HIDE DEF o
  <2>4. OpInv(o, row')
    BY <2>2, <1>1, <1>2 DEF OpInv
  <2>5. OpsOK'
    BY <2>2, <2>3, <2>4, <1>1, Facts, Replace
  <2> QED BY <1>1, <2>1, <2>5 DEF IInv, CountsOK, RowOK, CacheOK, GivenOK
<1>4. CASE ~Active(row, now)
  <2>1. /\ Reply(p, "rejected")
        /\ \/ cache' = (IF RefusesDeny(row) THEN cache ELSE Deny("revoked", row)) /\ UNCHANGED faults
           \/ RedisFails /\ UNCHANGED cache
    BY <1>4 DEF ReadRow
  <2>2. OpsOK' /\ GivenOK'
    BY <1>1, <2>1, Facts, ReplyOK DEF Results
  <2>3. CacheOK'
    <3>1. CASE cache' = cache
      BY <1>1, <3>1, Facts DEF CacheOK
    <3>2. CASE cache' = Deny("revoked", row)
      BY <1>1, <3>2, Facts, DenyOK DEF CacheOK
    <3> QED BY <2>1, <3>1, <3>2
  <2>4. faults' \in 0..MaxFaults
    BY <2>1, FailsOK DEF IInv, CountsOK
  <2> QED BY <1>1, <2>2, <2>3, <2>4 DEF IInv, CountsOK, RowOK
<1> QED BY <1>3, <1>4

LEMMA WriteActiveOK == ASSUME IInv, NEW p \in Procs, WriteActive(p) PROVE IInv'
<1>1. op[p].pc = "write" /\ row' = row /\ UNCHANGED <<now, row, userAuth, begun, ended>>
  BY DEF WriteActive
<1>2. op[p].pc \in Writing /\ op[p].dl \in Nat
  BY <1>1, Facts DEF Writing, Ops
<1>3. ASSUME NEW pc \in {"written", "confirm"}, Goto(p, pc), UNCHANGED <<issued, answers>>
      PROVE  OpsOK' /\ GivenOK'
  <2>1. pc \in Pcs
    BY DEF Pcs
  <2>2. OpInv([op[p] EXCEPT !.pc = pc], row')
    BY <1>1, Facts DEF OpInv, Ops
  <2>3. OpsOK'
    BY <1>1, <1>3, <2>1, <2>2, Facts, GotoOK
  <2> QED BY <1>3, <2>3 DEF IInv, GivenOK
<1>4. OpsOK' /\ GivenOK' /\ CacheOK' /\ faults' \in 0..MaxFaults
  <2>1. CASE Goto(p, "confirm") /\ UNCHANGED <<cache, faults, issued, answers>>
    BY <1>1, <1>3, <2>1 DEF IInv, CountsOK, CacheOK
  <2>2. CASE Refuse(p) /\ UNCHANGED <<cache, faults>>
    <3>1. OpsOK' /\ GivenOK'
      BY <1>1, <2>2, Facts, RefuseOK
    <3> QED BY <1>1, <2>2, <3>1 DEF IInv, CountsOK, CacheOK
  <2>3. CASE /\ cache' = Snapshot(op[p].snap, op[p].dl)
             /\ Goto(p, "written") /\ UNCHANGED <<faults, issued, answers>>
    <3>1. CacheOK'
      BY <1>1, <1>2, <2>3, Facts, SnapshotOK DEF CacheOK
    <3> QED BY <1>3, <2>3, <3>1 DEF IInv, CountsOK
  <2>4. CASE RedisFails /\ Unwritten(p) /\ UNCHANGED cache
    <3>1. OpsOK' /\ GivenOK'
      BY <1>1, <1>2, <2>4, Facts, UnwrittenOK
    <3>2. CacheOK'
      BY <1>1, <2>4, Facts DEF CacheOK
    <3> QED BY <2>4, <3>1, <3>2, Facts, FailsOK
  <2> QED BY <2>1, <2>2, <2>3, <2>4 DEF WriteActive
<1> QED BY <1>1, <1>4 DEF IInv, CountsOK, RowOK

LEMMA WrittenOK == ASSUME IInv, NEW p \in Procs, Written(p) PROVE IInv'
<1>1. op[p].pc = "written" /\ row' = row /\ UNCHANGED <<now, row, userAuth, cache, begun, faults, ended>>
  BY DEF Written
<1>2. OpsOK' /\ GivenOK'
  <2>1. CASE Goto(p, "confirm") /\ UNCHANGED <<issued, answers>>
    <3>1. "confirm" \in Pcs
      BY DEF Pcs
    <3>2. OpInv([op[p] EXCEPT !.pc = "confirm"], row')
      BY <1>1, Facts DEF OpInv, Ops
    <3>3. OpsOK'
      BY <1>1, <2>1, <3>1, <3>2, Facts, GotoOK
    <3> QED BY <2>1, <3>3 DEF IInv, GivenOK
  <2>2. CASE Refuse(p)
    BY <1>1, <2>2, Facts, RefuseOK
  <2>3. CASE Proceed(p)
    BY <1>1, <2>3, Facts, ProceedOK DEF Writing
  <2> QED BY <2>1, <2>2, <2>3 DEF Written
<1> QED BY <1>1, <1>2 DEF IInv, CountsOK, RowOK, CacheOK

LEMMA ConfirmOK == ASSUME IInv, NEW p \in Procs, Confirm(p) PROVE IInv'
<1>1. op[p].pc = "confirm" /\ row' = row /\ UNCHANGED <<now, row, userAuth, cache, begun, faults, ended>>
  BY DEF Confirm
<1>2. CASE Proceed(p)
  <2>1. OpsOK' /\ GivenOK'
    BY <1>1, <1>2, Facts, ProceedOK DEF Writing
  <2> QED BY <1>1, <2>1 DEF IInv, CountsOK, RowOK, CacheOK
<1>3. CASE Refuse(p)
  <2>1. OpsOK' /\ GivenOK'
    BY <1>1, <1>3, Facts, RefuseOK
  <2> QED BY <1>1, <2>1 DEF IInv, CountsOK, RowOK, CacheOK
<1> QED BY <1>2, <1>3 DEF Confirm

LEMMA ValidateOK == ASSUME IInv, NEW p \in Procs, Validate(p) PROVE IInv'
<1>1. /\ op[p].pc = "loaded" /\ op[p].kind \in {"access", "advance"}
      /\ row' = row /\ UNCHANGED <<now, row, userAuth, cache, begun, faults, ended>>
  BY DEF Validate
<1>2. OpsOK' /\ GivenOK'
  <2>1. CASE \E res \in {"rejected", "accepted"} : Reply(p, res)
    <3>1. PICK res \in {"rejected", "accepted"} : Reply(p, res)
      BY <2>1
    <3>2. res \in Results /\ res # "race"
      BY DEF Results
    <3> QED BY <1>1, <3>1, <3>2, Facts, ReplyOK
  <2>2. CASE op[p].kind = "advance" /\ Goto(p, "bump") /\ UNCHANGED <<issued, answers>>
    <3>1. OpInv([op[p] EXCEPT !.pc = "bump"], row')
      BY <1>1, <2>2, Facts DEF OpInv, Ops
    <3>2. "bump" \in Pcs
      BY DEF Pcs
    <3>3. OpsOK'
      BY <1>1, <2>2, <3>1, <3>2, Facts, GotoOK
    <3> QED BY <2>2, <3>3 DEF IInv, GivenOK
  <2> QED BY <2>1, <2>2 DEF Validate
<1> QED BY <1>1, <1>2 DEF IInv, CountsOK, RowOK, CacheOK

LEMMA BumpOK == ASSUME IInv, NEW p \in Procs, Bump(p) PROVE IInv'
<1>1. /\ op[p].pc = "bump" /\ userAuth' = userAuth + 1
      /\ row' = row /\ UNCHANGED <<now, row, cache, begun, faults, ended, issued, answers>>
      /\ op' = [op EXCEPT ![p].pc = "advance", ![p].snap.auth = userAuth + 1,
                          ![p].dl = Deadline, ![p].at = now]
  BY DEF Bump
<1> DEFINE s == [op[p].snap EXCEPT !.auth = userAuth + 1]
           o == [op[p] EXCEPT !.pc = "advance", !.snap = s, !.dl = Deadline, !.at = now]
<1>2. userAuth' \in Nat \ {0}
  BY <1>1 DEF IInv, CountsOK
<1>3. s \in Sessions
  BY <1>1, <1>2, Facts DEF Sessions
<1>4. op' = [op EXCEPT ![p] = o]
  BY <1>1, Facts DEF OpsOK, Ops
<1> HIDE DEF s
<1>5. o \in Ops /\ o.pc = "advance" /\ o.kind = op[p].kind /\ o.gen = op[p].gen /\ o.res = op[p].res
  BY <1>3, Facts DEF Ops, Pcs
<1> HIDE DEF o
<1>6. op[p].res # "race" /\ (op[p].kind = "refresh" => op[p].gen > 0)
  BY <1>1, Facts DEF OpInv
<1>7. OpInv(o, row')
  BY <1>5, <1>6, <1>1 DEF OpInv
<1>8. OpsOK'
  BY <1>4, <1>5, <1>7, <1>1, Facts, Replace
<1> QED BY <1>1, <1>2, <1>8 DEF IInv, CountsOK, RowOK, CacheOK, GivenOK

LEMMA AdvanceOK == ASSUME IInv, NEW p \in Procs, Advance(p) PROVE IInv'
<1>1. op[p].pc = "advance" /\ UNCHANGED <<now, userAuth, cache, begun, faults, ended>>
  BY DEF Advance
<1>2. CASE Reply(p, "error") /\ UNCHANGED row
  <2>1. OpsOK' /\ GivenOK'
    BY <1>2, Facts, ReplyOK DEF Results
  <2> QED BY <1>1, <1>2, <2>1 DEF IInv, CountsOK, RowOK, CacheOK
<1>3. ASSUME NEW next, next = [row EXCEPT !.ver = @ + 1, !.auth = op[p].snap.auth],
             row' = next,
             op' = [op EXCEPT ![p].pc = "write", ![p].phase = "advance", ![p].snap = next],
             UNCHANGED <<issued, answers>>
      PROVE  IInv'
  <2> DEFINE o == [op[p] EXCEPT !.pc = "write", !.phase = "advance", !.snap = next]
  <2> DEFINE v == row.ver + 1
  <2>0. v \in Nat \ {0} /\ op[p].snap.auth \in Nat \ {0} /\ next = [row EXCEPT !.ver = v, !.auth = op[p].snap.auth]
    BY <1>3, Facts DEF Sessions
  <2> HIDE DEF v
  <2>1a. next \in Sessions
    BY <2>0, Facts DEF Sessions
  <2>1b. next.gen = row.gen /\ next.status = row.status /\ next.prev = row.prev
    BY <2>0, Facts DEF Sessions
  <2>1. /\ next \in Sessions /\ next.gen = row.gen /\ next.status = row.status
        /\ next.prev = row.prev /\ row.gen <= row.gen
    BY <2>1a, <2>1b, Facts
  <2>2a. o \in Ops
    BY <2>1a, Facts DEF Ops, Pcs
  <2>2b. o.pc = "write" /\ o.phase = "advance" /\ o.kind = op[p].kind /\ o.res = op[p].res
                  /\ o.gen = op[p].gen
    BY Facts DEF Ops
  <2>2. o \in Ops /\ o.pc = "write" /\ o.phase = "advance" /\ o.kind = op[p].kind /\ o.res = op[p].res
                  /\ o.gen = op[p].gen
    BY <2>2a, <2>2b
  <2>3. op' = [op EXCEPT ![p] = o]
    BY <1>3, Facts DEF OpsOK
  <2> HIDE DEF o
  <2>4. OpInv(o, row')
    BY <2>2, <1>1, Facts DEF OpInv
  <2>5. OpsOK'
    BY <1>3, <2>1, <2>2, <2>3, <2>4, Facts, Replace
  <2>6. RowOK'
    BY <1>3, <2>1, Facts DEF RowOK
  <2> QED BY <1>1, <1>3, <2>5, <2>6 DEF IInv, CountsOK, CacheOK, GivenOK
<1> QED BY <1>2, <1>3 DEF Advance

LEMMA StartRotationOK == ASSUME IInv, NEW p \in Procs, StartRotation(p) PROVE IInv'
<1>1. /\ op[p].pc = "loaded" /\ op[p].kind = "refresh" /\ row' = row
      /\ UNCHANGED <<now, row, userAuth, cache, begun, faults, ended>>
  BY DEF StartRotation
<1>2. op[p].gen > 0 /\ op[p].res # "race"
  BY <1>1, Facts DEF OpInv
<1>3. OpsOK' /\ GivenOK'
  <2>1. CASE Reply(p, "rejected")
    BY <1>1, <2>1, Facts, ReplyOK DEF Results
  <2>2. CASE /\ op' = [op EXCEPT ![p].pc = "candidate", ![p].at = now]
             /\ UNCHANGED <<issued, answers>>
    <3> DEFINE o == [op[p] EXCEPT !.pc = "candidate", !.at = now]
    <3>1. o \in Ops /\ o.pc = "candidate" /\ o.gen = op[p].gen /\ o.res = op[p].res /\ o.kind = op[p].kind
      BY Facts DEF Ops, Pcs
    <3>2. op' = [op EXCEPT ![p] = o]
      BY <2>2, Facts DEF OpsOK
    <3> HIDE DEF o
    <3>3. OpInv(o, row')
      BY <3>1, <1>1, <1>2 DEF OpInv
    <3>4. OpsOK'
      BY <3>1, <3>2, <3>3, <1>1, Facts, Replace
    <3> QED BY <2>2, <3>4 DEF IInv, GivenOK
  <2>3. CASE /\ op' = [op EXCEPT ![p].pc = "rotate", ![p].phase = "rotate", ![p].at = now, ![p].tries = 3]
             /\ UNCHANGED <<issued, answers>>
    <3> DEFINE o == [op[p] EXCEPT !.pc = "rotate", !.phase = "rotate", !.at = now, !.tries = 3]
    <3>0. 3 \in 0..3
      OBVIOUS
    <3>1a. o \in Ops
      BY <3>0, Facts DEF Ops, Pcs
    <3>1b. /\ o.pc = "rotate" /\ o.phase = "rotate" /\ o.tries = 3 /\ o.kind = op[p].kind
           /\ o.gen = op[p].gen /\ o.res = op[p].res
      BY Facts DEF Ops
    <3>1. /\ o \in Ops /\ o.pc = "rotate" /\ o.phase = "rotate" /\ o.tries = 3 /\ o.kind = op[p].kind
          /\ o.gen = op[p].gen /\ o.res = op[p].res
      BY <3>1a, <3>1b
    <3>2. op' = [op EXCEPT ![p] = o]
      BY <2>3, Facts DEF OpsOK
    <3> HIDE DEF o
    <3>3. OpInv(o, row')
      BY <3>1, <1>1, <1>2 DEF OpInv
    <3>4. OpsOK'
      BY <3>1, <3>2, <3>3, <1>1, Facts, Replace
    <3> QED BY <2>3, <3>4 DEF IInv, GivenOK
  <2> QED BY <2>1, <2>2, <2>3 DEF StartRotation
<1> QED BY <1>1, <1>3 DEF IInv, CountsOK, RowOK, CacheOK

(* The token that was replaced is the one before the current                *)
LEMMA RotateOK == ASSUME IInv, NEW p \in Procs, Rotate(p) PROVE IInv'
<1>1. op[p].pc = "rotate" /\ row' = row /\ UNCHANGED <<now, row, userAuth, cache, begun, faults, ended>>
  BY DEF Rotate
<1>2. /\ op[p].gen > 0 /\ op[p].res # "race" /\ op[p].kind = "refresh" /\ op[p].phase = "rotate" /\ op[p].at \in Nat /\ op[p].gen \in Nat
      /\ op[p].tries = 3 \/ (op[p].tries = 2 /\ (row.status # "active" \/ op[p].gen < row.gen))
  BY <1>1, Facts DEF OpInv, Ops
<1>3. OpsOK' /\ GivenOK'
  <2>1. CASE \E res \in {"error", "invalid"} : Reply(p, res)
    <3>1. PICK res \in {"error", "invalid"} : Reply(p, res)
      BY <2>1
    <3>2. res \in Results /\ res # "race"
      BY DEF Results
    <3> QED BY <1>1, <3>1, <3>2, Facts, ReplyOK
  <2>2. CASE /\ Active(row, op[p].at) /\ row.gen = op[p].gen
             /\ op' = [op EXCEPT ![p].pc = "swap", ![p].snap = row, ![p].dl = Deadline]
             /\ UNCHANGED <<issued, answers>>
    <3> DEFINE o == [op[p] EXCEPT !.pc = "swap", !.snap = row, !.dl = Deadline]
    <3>1. o \in Ops /\ o.pc = "swap" /\ o.gen = op[p].gen /\ o.res = op[p].res /\ o.kind = op[p].kind
                    /\ o.tries = op[p].tries /\ o.at = op[p].at /\ o.phase = op[p].phase
      BY Facts DEF Ops, Pcs
    <3>2. op' = [op EXCEPT ![p] = o]
      BY <2>2, Facts DEF OpsOK
    <3> HIDE DEF o
    <3>3. op[p].tries = 3 /\ Life > op[p].at /\ op[p].gen <= row.gen
      BY <2>2, <1>2 DEF Active
    <3>4. OpInv(o, row')
      BY <3>1, <3>3, <1>1, <1>2 DEF OpInv
    <3>5. OpsOK'
      BY <3>1, <3>2, <3>4, <1>1, Facts, Replace
    <3> QED BY <2>2, <3>5 DEF IInv, GivenOK
  <2>3. CASE Answered(p, row)
    BY <1>1, <2>3, Facts, AnsweredOK
  <2>4. CASE row.prev = op[p].gen /\ row.gen # op[p].gen + 1
    <3>1. row.prev > 0
      BY <2>4, <1>2
    <3> QED BY <2>4, <3>1 DEF IInv, RowOK
  <2>5. CASE op' = [op EXCEPT ![p].pc = "fence", ![p].snap = row] /\ UNCHANGED <<issued, answers>>
    <3> DEFINE o == [op[p] EXCEPT !.pc = "fence", !.snap = row]
    <3>1. o \in Ops /\ o.pc = "fence" /\ o.gen = op[p].gen /\ o.res = op[p].res /\ o.kind = op[p].kind
      BY Facts DEF Ops, Pcs
    <3>2. op' = [op EXCEPT ![p] = o]
      BY <2>5, Facts DEF OpsOK
    <3> HIDE DEF o
    <3>3. OpInv(o, row')
      BY <3>1, <1>1, <1>2 DEF OpInv
    <3>4. OpsOK'
      BY <3>1, <3>2, <3>3, <1>1, Facts, Replace
    <3> QED BY <2>5, <3>4 DEF IInv, GivenOK
  <2> QED BY <2>1, <2>2, <2>3, <2>4, <2>5 DEF Rotate
<1> QED BY <1>1, <1>3 DEF IInv, CountsOK, RowOK, CacheOK

(* The swap hands the row on by one generation, or finds that another did  *)
LEMMA SwapOK == ASSUME IInv, NEW p \in Procs, Swap(p) PROVE IInv'
<1>1. op[p].pc = "swap" /\ UNCHANGED <<now, userAuth, cache, begun, faults, ended>>
  BY DEF Swap
<1>2. /\ op[p].gen > 0 /\ op[p].res # "race" /\ op[p].kind = "refresh" /\ op[p].phase = "rotate"
      /\ op[p].gen \in Nat /\ op[p].at \in Nat /\ op[p].tries = 3 /\ Life > op[p].at /\ op[p].gen <= row.gen
  BY <1>1, Facts DEF OpInv, Ops
<1>3. CASE Active(row, op[p].at) /\ row.gen = op[p].gen
  <2>1. row' = Swapped(row, op[p].gen, op[p].at) /\ Goto(p, "write") /\ UNCHANGED <<issued, answers>>
    BY <1>3 DEF Swap
  <2> DEFINE g == op[p].gen + 1
             u == op[p].at + Grace
             o == [op[p] EXCEPT !.pc = "write"]
  <2>2. g \in Nat \ {0} /\ u \in Nat /\ g > op[p].gen /\ g > row.gen
    BY <1>2, <1>3, Constants
  <2>3. row' = [row EXCEPT !.gen = g, !.prev = op[p].gen, !.until = u]
    BY <2>1 DEF Swapped
  <2>4. g = op[p].gen + 1
    OBVIOUS
  <2> HIDE DEF g, u
  <2>5. row' \in Sessions
    BY <2>2, <2>3, <1>2, Facts DEF Sessions
  <2>6. row'.gen = g /\ row'.prev = op[p].gen /\ row'.status = row.status
    BY <2>3, Facts DEF Sessions
  <2>7. RowOK'
    BY <2>4, <2>5, <2>6 DEF RowOK
  <2>8. row.gen <= row'.gen
    BY <2>2, <2>6, Facts DEF Sessions
  <2>9. o.pc = "write" /\ o.phase = "rotate" /\ o.gen = op[p].gen /\ o.res = op[p].res
    BY <1>2, Facts DEF Ops
  <2> HIDE DEF o
  <2>10. OpInv(o, row')
    BY <2>9, <2>6, <2>2, <1>2 DEF OpInv
  <2>11. "write" \in Pcs
    BY DEF Pcs
  <2>12. OpsOK'
    BY <2>1, <2>5, <2>6, <2>8, <2>10, <2>11, Facts, GotoOK DEF o
  <2> QED BY <1>1, <2>1, <2>7, <2>12 DEF IInv, CountsOK, CacheOK, GivenOK
<1>4. CASE ~(Active(row, op[p].at) /\ row.gen = op[p].gen)
  <2>1. /\ row' = row /\ UNCHANGED <<issued, answers>>
        /\ op' = [op EXCEPT ![p].pc = "rotate", ![p].tries = @ - 1]
    BY <1>2, <1>4 DEF Swap
  <2> DEFINE o == [op[p] EXCEPT !.pc = "rotate", !.tries = 2]
  <2>2. op[p].tries - 1 = 2
    BY <1>2
  <2>3. op' = [op EXCEPT ![p] = o]
    BY <2>1, <2>2, Facts DEF OpsOK, Ops
  <2>4. o \in Ops
    <3>1. 2 \in 0..3 /\ "rotate" \in Pcs
      BY DEF Pcs
    <3> QED BY <3>1, Facts DEF Ops
  <2>5. /\ o.pc = "rotate" /\ o.tries = 2 /\ o.phase = "rotate" /\ o.kind = "refresh"
        /\ o.gen = op[p].gen /\ o.res = op[p].res
    BY <1>2, Facts DEF Ops
  <2> HIDE DEF o
  <2>6. row.gen \in Nat
    BY Facts DEF Sessions
  <2>7. row.status # "active" \/ op[p].gen < row.gen
    BY <1>2, <1>4, <2>6 DEF Active
  <2>8. OpInv(o, row')
    BY <2>1, <2>5, <2>7, <1>2 DEF OpInv
  <2>9. OpsOK'
    BY <2>1, <2>3, <2>4, <2>8, Facts, Replace
  <2> QED BY <1>1, <2>1, <2>9 DEF IInv, CountsOK, RowOK, CacheOK, GivenOK
<1> QED BY <1>3, <1>4

LEMMA GoneOK ==
    ASSUME IInv, NEW how \in {"loose", "sealed"}, Gone(how)
    PROVE  ended' \in [how : {"open", "loose", "sealed"}, at : Nat]
BY Constants DEF Gone, IInv, CountsOK

LEMMA CandidateOK == ASSUME IInv, NEW p \in Procs, Candidate(p) PROVE IInv'
<1>1. op[p].pc = "candidate" /\ row' = row /\ UNCHANGED <<now, row, userAuth, cache, begun, faults>>
  BY DEF Candidate
<1>2. (op[p].kind = "refresh" => op[p].gen > 0) /\ op[p].res # "race" /\ op[p].kind # "login"
  BY <1>1, Facts DEF OpInv
<1>3. CASE op' = [op EXCEPT ![p].pc = "fence", ![p].snap = row] /\ UNCHANGED <<issued, answers, ended>>
  <2> DEFINE o == [op[p] EXCEPT !.pc = "fence", !.snap = row]
  <2>1. o \in Ops /\ o.pc = "fence" /\ o.gen = op[p].gen /\ o.res = op[p].res /\ o.kind = op[p].kind
    BY Facts DEF Ops, Pcs
  <2>2. op' = [op EXCEPT ![p] = o]
    BY <1>3, Facts DEF OpsOK
  <2> HIDE DEF o
  <2>3. OpInv(o, row')
    BY <2>1, <1>2 DEF OpInv
  <2>4. OpsOK'
    BY <2>1, <2>2, <2>3, <1>1, Facts, Replace
  <2> QED BY <1>1, <1>3, <2>4 DEF IInv, CountsOK, RowOK, CacheOK, GivenOK
<1>4. CASE /\ Reply(p, IF Refreshing(p) THEN "rejected" ELSE "ok")
           /\ UNCHANGED ended \/ Gone("loose")
  <2>1. PICK res \in {"rejected", "ok"} : Reply(p, res)
    BY <1>4
  <2>2. res \in Results /\ res # "race"
    BY DEF Results
  <2>3. OpsOK' /\ GivenOK'
    BY <1>1, <2>1, <2>2, Facts, ReplyOK
  <2>4. ended' \in [how : {"open", "loose", "sealed"}, at : Nat]
    BY <1>4, GoneOK DEF IInv, CountsOK
  <2> QED BY <1>1, <2>3, <2>4 DEF IInv, CountsOK, RowOK, CacheOK
<1> QED BY <1>3, <1>4 DEF Candidate

LEMMA FenceOK == ASSUME IInv, NEW p \in Procs, Fence(p) PROVE IInv'
<1>1. op[p].pc = "fence" /\ row' = row /\ UNCHANGED <<now, row, userAuth, begun, ended>>
  BY DEF Fence
<1>2. CASE /\ cache' = Deny("revoking", op[p].snap) /\ Goto(p, "kill")
           /\ UNCHANGED <<faults, issued, answers>>
  <2>1. OpInv([op[p] EXCEPT !.pc = "kill"], row')
    BY <1>1, Facts DEF OpInv, Ops
  <2>2. "kill" \in Pcs
    BY DEF Pcs
  <2>3. OpsOK'
    BY <1>1, <1>2, <2>1, <2>2, Facts, GotoOK
  <2>4. CacheOK'
    BY <1>1, <1>2, Facts, DenyOK DEF CacheOK
  <2> QED BY <1>1, <1>2, <2>3, <2>4 DEF IInv, CountsOK, RowOK, GivenOK
<1>3. CASE /\ UNCHANGED faults \/ RedisFails
           /\ Reply(p, IF Refreshing(p) /\ op[p].phase = "load" THEN "rejected" ELSE "error")
           /\ UNCHANGED cache
  <2>1. PICK res \in {"rejected", "error"} : Reply(p, res)
    BY <1>3
  <2>2. res \in Results /\ res # "race"
    BY DEF Results
  <2>3. OpsOK' /\ GivenOK'
    BY <1>1, <2>1, <2>2, Facts, ReplyOK
  <2>4. faults' \in 0..MaxFaults
    BY <1>3, FailsOK DEF IInv, CountsOK
  <2> QED BY <1>1, <1>3, <2>3, <2>4 DEF IInv, CountsOK, RowOK, CacheOK
<1> QED BY <1>2, <1>3 DEF Fence

LEMMA KillOK == ASSUME IInv, NEW p \in Procs, Kill(p) PROVE IInv'
<1>1. op[p].pc = "kill" /\ UNCHANGED <<now, userAuth, cache, begun, faults>>
  BY DEF Kill
<1>e. ended' \in [how : {"open", "loose", "sealed"}, at : Nat]
  <2>1. ended' = ended \/ Gone("loose")
    BY DEF Kill
  <2> QED BY <2>1, GoneOK DEF IInv, CountsOK
<1>2. (op[p].kind = "refresh" => op[p].gen > 0) /\ op[p].res # "race" /\ op[p].kind # "login"
  BY <1>1, Facts DEF OpInv
<1>3. CASE row.status = "active"
  <2> DEFINE s == IF op[p].kind = "bulk" THEN row ELSE op[p].snap
             o == [op[p] EXCEPT !.pc = "tombstone", !.snap = s]
             r == [row EXCEPT !.status = "revoked", !.why = Reason(p)]
  <2>1. row' = r /\ UNCHANGED <<issued, answers>>
    BY <1>3 DEF Kill
  <2>2. op' = [op EXCEPT ![p] = o]
    BY <1>3, Facts DEF Kill, OpsOK, Ops
  <2>3. s \in Sessions
    BY Facts
  <2> HIDE DEF s
  <2>4. o \in Ops /\ o.pc = "tombstone" /\ o.gen = op[p].gen /\ o.res = op[p].res /\ o.kind = op[p].kind
    BY <2>3, Facts DEF Ops, Pcs
  <2>5. Reason(p) \in (Kinds \cup {"none", "user_security_changed", "refresh_reuse"}) \/ op[p].kind = "login"
    BY Facts DEF Reason, Refreshing, Ops
  <2>6. op[p].kind # "login"
    BY <1>2
  <2>7. r \in Sessions
    BY <2>5, <2>6, Facts DEF Sessions
  <2>8. r.gen = row.gen /\ r.prev = row.prev /\ r.status # "active"
    BY Facts DEF Sessions
  <2> HIDE DEF o, r
  <2>9. OpInv(o, row')
    BY <2>4, <1>2 DEF OpInv
  <2>10. OpsOK'
    BY <2>1, <2>2, <2>4, <2>7, <2>8, <2>9, Facts, Replace
  <2>11. RowOK'
    BY <2>1, <2>7, <2>8, Facts DEF RowOK
  <2> QED BY <1>1, <1>e, <2>1, <2>10, <2>11 DEF IInv, CountsOK, CacheOK, GivenOK
<1>4. CASE row.status # "active"
  <2>1. row' = row
    BY <1>4 DEF Kill
  <2>2. OpsOK' /\ GivenOK'
    <3>1. CASE Goto(p, "candidate") /\ UNCHANGED <<issued, answers>>
      <4>1. OpInv([op[p] EXCEPT !.pc = "candidate"], row')
        BY <1>1, <2>1, Facts DEF OpInv, Ops
      <4>2. "candidate" \in Pcs
        BY DEF Pcs
      <4>3. OpsOK'
        BY <2>1, <3>1, <4>1, <4>2, Facts, GotoOK
      <4> QED BY <3>1, <4>3 DEF IInv, GivenOK
    <3>2. CASE \E res \in {"error", "rejected", "ok"} : Reply(p, res)
      <4>1. PICK res \in {"error", "rejected", "ok"} : Reply(p, res)
        BY <3>2
      <4>2. res \in Results /\ res # "race"
        BY DEF Results
      <4> QED BY <2>1, <4>1, <4>2, Facts, ReplyOK
    <3> QED BY <1>4, <3>1, <3>2 DEF Kill
  <2> QED BY <1>1, <1>e, <2>1, <2>2 DEF IInv, CountsOK, RowOK, CacheOK
<1> QED BY <1>3, <1>4

LEMMA AcknowledgeOK ==
    ASSUME IInv, NEW p \in Procs, NEW how \in {"loose", "sealed"}, op[p].pc = "tombstone",
           Acknowledge(p, how), row' = row
    PROVE  OpsOK' /\ GivenOK' /\ ended' \in [how : {"open", "loose", "sealed"}, at : Nat]
<1>1. ended' \in [how : {"open", "loose", "sealed"}, at : Nat]
  BY GoneOK DEF Acknowledge
<1>2. CASE op[p].kind = "bulk"
  <2>1. Goto(p, "candidate") /\ UNCHANGED <<issued, answers>>
    BY <1>2 DEF Acknowledge
  <2>2. OpInv([op[p] EXCEPT !.pc = "candidate"], row')
    BY Facts DEF OpInv, Ops
  <2>3. "candidate" \in Pcs
    BY DEF Pcs
  <2>4. OpsOK'
    BY <2>1, <2>2, <2>3, Facts, GotoOK
  <2> QED BY <1>1, <2>1, <2>4 DEF IInv, GivenOK
<1>3. CASE op[p].kind # "bulk"
  <2>1. PICK res \in {"rejected", "ok"} : Reply(p, res)
    BY <1>3 DEF Acknowledge
  <2>2. res \in Results /\ res # "race"
    BY DEF Results
  <2> QED BY <1>1, <2>1, <2>2, Facts, ReplyOK
<1> QED BY <1>2, <1>3

LEMMA TombstoneOK == ASSUME IInv, NEW p \in Procs, Tombstone(p) PROVE IInv'
<1>1. op[p].pc = "tombstone" /\ row' = row /\ UNCHANGED <<now, row, userAuth, begun>>
  BY DEF Tombstone
<1>2. CASE cache' = Deny("revoked", op[p].snap) /\ Acknowledge(p, "sealed") /\ UNCHANGED faults
  <2>1. CacheOK'
    BY <1>1, <1>2, Facts, DenyOK DEF CacheOK
  <2>2. OpsOK' /\ GivenOK' /\ ended' \in [how : {"open", "loose", "sealed"}, at : Nat]
    BY <1>1, <1>2, AcknowledgeOK
  <2> QED BY <1>1, <1>2, <2>1, <2>2 DEF IInv, CountsOK, RowOK
<1>3. CASE (UNCHANGED faults \/ RedisFails) /\ Acknowledge(p, "loose") /\ UNCHANGED cache
  <2>1. faults' \in 0..MaxFaults
    BY <1>3, FailsOK DEF IInv, CountsOK
  <2>2. OpsOK' /\ GivenOK' /\ ended' \in [how : {"open", "loose", "sealed"}, at : Nat]
    BY <1>1, <1>3, AcknowledgeOK
  <2> QED BY <1>1, <1>3, <2>1, <2>2 DEF IInv, CountsOK, RowOK, CacheOK
<1> QED BY <1>2, <1>3 DEF Tombstone

LEMMA TickOK == ASSUME IInv, Tick PROVE IInv'
<1>1. now' \in 0..MaxTime /\ now \in Nat /\ now' = now + 1
  BY Constants DEF Tick, IInv, CountsOK
<1>2. CacheOK'
  <2>1. NoEntry \in Entries /\ NoEntry.st = "none"
    BY DEF NoEntry, Entries
  <2> QED BY <2>1, <1>1 DEF Tick, IInv, CacheOK, Entries
<1> QED BY <1>1, <1>2 DEF Tick, IInv, CountsOK, RowOK, GivenOK, OpsOK

LEMMA InitOK == ASSUME Init PROVE IInv
<1>1. PICK creator \in Procs :
         op = [p \in Procs |-> IF p = creator
                               THEN [Idle EXCEPT !.kind = "login", !.pc = "write",
                                                 !.phase = "create", !.dl = Deadline]
                               ELSE Idle]
  BY DEF Init
<1> DEFINE o == [Idle EXCEPT !.kind = "login", !.pc = "write", !.phase = "create", !.dl = Deadline]
<1>2. Deadline \in Nat
  BY Constants DEF Init, Deadline
<1>3. o \in Ops
  BY <1>2, IdleOK DEF Ops, Pcs
<1>4. o.pc = "write" /\ o.phase = "create" /\ o.kind = "login" /\ o.gen = 0 /\ o.res = "none"
  BY DEF Idle
<1>5. Idle.pc = "idle" /\ Idle.kind = "none" /\ Idle.res = "none"
  BY DEF Idle
<1>6. row \in Sessions /\ row.gen = 1 /\ row.prev = 0
  BY NewRowOK DEF Init, NewRow
<1>7. op = [p \in Procs |-> IF p = creator THEN o ELSE Idle]
  BY <1>1
<1> HIDE DEF o
<1>8. OpInv(o, row) /\ OpInv(Idle, row)
  BY <1>4, <1>5, <1>6 DEF OpInv
<1>9. OpsOK
  BY <1>3, <1>7, <1>8, IdleOK DEF OpsOK
<1>10. CacheOK
  BY DEF Init, CacheOK, NoEntry, Entries
<1> QED BY <1>6, <1>9, <1>10, Constants DEF Init, IInv, CountsOK, RowOK, GivenOK

-----------------------------------------------------------------------------
LEMMA StepOK == ASSUME IInv, NEW p \in Procs, Step(p) PROVE IInv'
BY ReadCacheOK, ReadRowOK, WriteActiveOK, WrittenOK, ConfirmOK, ValidateOK, BumpOK, AdvanceOK,
   StartRotationOK, RotateOK, SwapOK, CandidateOK, FenceOK, KillOK, TombstoneOK DEF Step

LEMMA Inductive == IInv /\ [Next]_vars => IInv'
<1> SUFFICES ASSUME IInv, [Next]_vars PROVE IInv'
  OBVIOUS
<1>1. CASE UNCHANGED vars
  BY <1>1 DEF vars, IInv, CountsOK, RowOK, CacheOK, GivenOK, OpsOK
<1>2. CASE Next
  <2>1. CASE \E p \in Procs : BeginAccess(p) \/ BeginRefresh(p) \/ BeginRevoke(p) \/ Step(p)
    BY <2>1, BeginAccessOK, BeginRefreshOK, BeginRevokeOK, StepOK
  <2>2. CASE Done
    BY <2>2, <1>1 DEF Done
  <2> QED BY <1>2, <2>1, <2>2, TickOK DEF Next
<1> QED BY <1>1, <1>2

LEMMA Invariance == Spec => []IInv
BY InitOK, Inductive, PTL DEF Spec

(* Every variable keeps its type, whatever the interleaving of the requests *)
(* with each other, the clock and the failures of Redis.                    *)
THEOREM TypeCorrect == Spec => []TypeOK
<1>1. IInv => TypeOK
  <2> SUFFICES ASSUME IInv PROVE TypeOK
    OBVIOUS
  <2>1. ASSUME NEW p \in Procs
        PROVE  op[p].pc \in Pcs /\ op[p].res \in Results /\ op[p].tries \in 0..3
    BY DEF IInv, OpsOK, Ops
  <2>2. row \in Sessions /\ cache \in Entries /\ (cache.st = "none" \/ cache.exp > now)
    BY DEF IInv, RowOK, CacheOK
  <2>3. answers \subseteq Nat \X Nat
    BY DEF IInv, GivenOK
  <2> QED BY <2>1, <2>2, <2>3 DEF IInv, TypeOK, CountsOK, GivenOK, Sessions, Entries, Pcs, Results
<1> QED BY <1>1, Invariance, PTL

(* However many refreshes present the same token at once, none runs out of  *)
(* rounds and none is told of a race: the token that was replaced is the    *)
(* one before the current, so the loser of a swap is given the winner's.    *)
THEOREM LosersAreRecovered == Spec => []LoserIsRecovered
<1>1. IInv => LoserIsRecovered
  BY DEF IInv, OpsOK, OpInv, LoserIsRecovered
<1> QED BY <1>1, Invariance, PTL

-----------------------------------------------------------------------------
(* The chain of tokens that the row stands for                              *)
View == [status |-> IF row.status = "active" THEN "active" ELSE "over",
         gen |-> row.gen,
         open |-> row.prev > 0 /\ now <= row.until]

StoreStep == [Store!Next]_<<View, answers>>

LEMMA ViewInit == ASSUME Init PROVE Store!Init
<1>1. row.status = "active" /\ row.gen = 1 /\ row.prev = 0 /\ answers = {}
  BY DEF Init, NewRow
<1>2. (row.prev > 0 /\ now <= row.until) = FALSE
  BY <1>1
<1> QED BY <1>1, <1>2 DEF Store!Init, Store!NewRow

LEMMA SameView == ASSUME row' = row, now' = now PROVE View' = View
BY DEF View

LEMMA Stutters == ASSUME row' = row, now' = now, answers' = answers PROVE StoreStep
BY SameView DEF StoreStep

(* A client is answered with the successor of what it presented, and the    *)
(* row has that already                                                     *)
LEMMA AnsweredStep ==
    ASSUME IInv, NEW p \in Procs, NEW s, Answered(p, s), row' = row, now' = now, op[p].gen < row.gen
    PROVE  StoreStep
<1>1. op[p].gen \in 0..(row.gen - 1)
  BY Facts DEF Ops, Sessions
<1>2. answers' = answers \cup {<<op[p].gen, op[p].gen + 1>>}
  BY DEF Answered
<1>3. View' = View /\ View.gen = row.gen
  BY SameView DEF View
<1>4. Store!Answer
  BY <1>1, <1>2, <1>3 DEF Store!Answer, View
<1> QED BY <1>4 DEF StoreStep, Store!Next

LEMMA ProceedStep ==
    ASSUME IInv, NEW p \in Procs, op[p].pc \in Writing, Proceed(p), row' = row, now' = now
    PROVE  StoreStep
<1>1. op[p].phase \in {"create", "rotate"} => op[p].gen < row.gen
  BY Facts DEF OpInv, Writing
<1>2. op[p].phase \in {"create", "load", "rotate", "advance"}
  BY Facts DEF Ops, OpInv, Writing
<1>3. CASE op[p].phase \in {"create", "rotate"}
  <2>1. Answered(p, op[p].snap)
    BY <1>3 DEF Proceed
  <2> QED BY <1>1, <1>3, <2>1, AnsweredStep
<1>4. CASE op[p].phase = "load"
  BY <1>4, Stutters DEF Proceed
<1>5. CASE op[p].phase = "advance"
  BY <1>5, Stutters DEF Proceed
<1> QED BY <1>2, <1>3, <1>4, <1>5

(* Every cache write that ends in an answer                                 *)
LEMMA WritingStep ==
    ASSUME IInv, NEW p \in Procs, WriteActive(p) \/ Written(p) \/ Confirm(p)
    PROVE  StoreStep
<1>1. op[p].pc \in Writing /\ row' = row /\ now' = now
  BY DEF WriteActive, Written, Confirm, Writing
<1>2. CASE answers' = answers
  BY <1>1, <1>2, Stutters
<1>3. CASE Proceed(p)
  BY <1>1, <1>3, ProceedStep
<1>4. CASE Refuse(p)
  BY <1>2, <1>4 DEF Refuse, Reply
<1>5. CASE Unwritten(p)
  BY <1>2, <1>3, <1>5 DEF Unwritten, Reply
<1> QED BY <1>2, <1>3, <1>4, <1>5 DEF WriteActive, Written, Confirm

LEMMA RotateStep == ASSUME IInv, NEW p \in Procs, Rotate(p) PROVE StoreStep
<1>1. row' = row /\ now' = now
  BY DEF Rotate
<1>2. CASE answers' = answers
  BY <1>1, <1>2, Stutters
<1>3. CASE row.gen = op[p].gen + 1 /\ Answered(p, row)
  <2>1. op[p].gen < row.gen
    BY <1>3, Facts DEF Ops, Sessions
  <2> QED BY <1>1, <1>3, <2>1, AnsweredStep
<1> QED BY <1>2, <1>3 DEF Rotate, Reply

LEMMA SwapStep == ASSUME IInv, NEW p \in Procs, Swap(p) PROVE StoreStep
<1>1. now' = now /\ op[p].pc = "swap"
  BY DEF Swap
<1>2. CASE row' = row
  <2>1. answers' = answers
    BY <1>2 DEF Swap, Reply
  <2> QED BY <1>1, <1>2, <2>1, Stutters
<1>3. CASE Active(row, op[p].at) /\ row.gen = op[p].gen /\ row' = Swapped(row, op[p].gen, op[p].at)
           /\ answers' = answers
  <2>1. op[p].gen \in Nat /\ op[p].gen > 0
    BY <1>1, Facts DEF OpInv, Ops
  <2>2. row'.status = "active" /\ row'.gen = row.gen + 1 /\ row'.prev > 0 /\ row.status = "active"
    BY <1>3, <2>1, Facts DEF Swapped, Active, Sessions
  <2> DEFINE v == View
             w == row'.prev > 0 /\ now' <= row'.until
  <2>3. View' = [status |-> "active", gen |-> row.gen + 1, open |-> w]
    BY <2>2 DEF View
  <2>4. View.status = "active" /\ View.gen = row.gen
    BY <2>2 DEF View
  <2>5. Store!Rotated(View) = [status |-> "active", gen |-> row.gen + 1, open |-> TRUE]
    BY <2>4 DEF Store!Rotated
  <2>6. Store!Closed(Store!Rotated(View)) = [status |-> "active", gen |-> row.gen + 1, open |-> FALSE]
    BY <2>5 DEF Store!Closed
  <2>7. View' \in {Store!Rotated(View), Store!Closed(Store!Rotated(View))}
    <3>1. w = TRUE \/ w = FALSE
      OBVIOUS
    <3> HIDE DEF w
    <3> QED BY <3>1, <2>3, <2>5, <2>6
  <2>8. Store!Rotate
    BY <1>3, <2>4, <2>7 DEF Store!Rotate, View
  <2> QED BY <2>8 DEF StoreStep, Store!Next
<1> QED BY <1>2, <1>3 DEF Swap

LEMMA AdvanceStep == ASSUME IInv, NEW p \in Procs, Advance(p) PROVE StoreStep
<1>1. now' = now /\ answers' = answers
  BY DEF Advance, Reply
<1>2. row'.status = row.status /\ row'.gen = row.gen /\ row'.prev = row.prev /\ row'.until = row.until
  BY Facts DEF Advance, Sessions
<1>3. View' = View
  BY <1>1, <1>2 DEF View
<1> QED BY <1>1, <1>3 DEF StoreStep

LEMMA KillStep == ASSUME IInv, NEW p \in Procs, Kill(p) PROVE StoreStep
<1>1. now' = now /\ answers' = answers
  BY DEF Kill, Goto, Reply
<1>2. CASE row' = row
  BY <1>1, <1>2, Stutters
<1>3. CASE row.status = "active" /\ row' = [row EXCEPT !.status = "revoked", !.why = Reason(p)]
  <2>1. row'.status = "revoked" /\ row'.gen = row.gen /\ row'.prev = row.prev /\ row'.until = row.until
    BY <1>3, Facts DEF Sessions
  <2>2. View' = Store!Ended(View)
    BY <1>1, <1>3, <2>1 DEF View, Store!Ended
  <2>3. View.status = "active"
    BY <1>3 DEF View
  <2>4. Store!End
    BY <1>1, <2>2, <2>3 DEF Store!End, View
  <2> QED BY <2>4 DEF StoreStep, Store!Next
<1> QED BY <1>2, <1>3 DEF Kill

(* Time closes the replay window                                            *)
LEMMA TickStep == ASSUME IInv, Tick PROVE StoreStep
<1>1. row' = row /\ answers' = answers /\ now' = now + 1 /\ now \in Nat /\ row.until \in Nat
  BY Constants DEF Tick, IInv, CountsOK, RowOK, Sessions
<1> DEFINE w == row.prev > 0 /\ now <= row.until
           x == row.prev > 0 /\ now + 1 <= row.until
           st == IF row.status = "active" THEN "active" ELSE "over"
<1>2. View = [status |-> st, gen |-> row.gen, open |-> w]
  BY DEF View
<1>3. View' = [status |-> st, gen |-> row.gen, open |-> x]
  BY <1>1 DEF View
<1>4. x = w \/ x = FALSE
  BY <1>1
<1> HIDE DEF w, x, st
<1>5. CASE x = w
  BY <1>1, <1>2, <1>3, <1>5 DEF StoreStep
<1>6. CASE x = FALSE
  <2>1. View' = Store!Closed(View)
    BY <1>2, <1>3, <1>6 DEF Store!Closed
  <2>2. Store!Close
    BY <1>1, <2>1 DEF Store!Close, View
  <2> QED BY <2>2 DEF StoreStep, Store!Next
<1> QED BY <1>4, <1>5, <1>6

(* The steps that leave the row and the answers alone                       *)
LEMMA QuietStep ==
    ASSUME NEW p \in Procs,
           \/ BeginAccess(p) \/ BeginRefresh(p) \/ BeginRevoke(p)
           \/ ReadCache(p) \/ ReadRow(p) \/ Validate(p) \/ Bump(p) \/ StartRotation(p)
           \/ Candidate(p) \/ Fence(p) \/ Tombstone(p)
    PROVE  StoreStep
<1>1. CASE BeginAccess(p) \/ BeginRefresh(p) \/ BeginRevoke(p)
  BY <1>1, Stutters DEF BeginAccess, BeginRefresh, BeginRevoke, Arrive
<1>2. CASE ReadCache(p) \/ ReadRow(p)
  BY <1>2, Stutters DEF ReadCache, ReadRow, Reply
<1>3. CASE Validate(p) \/ Bump(p) \/ StartRotation(p)
  BY <1>3, Stutters DEF Validate, Bump, StartRotation, Reply
<1>4. CASE Candidate(p) \/ Fence(p) \/ Tombstone(p)
  BY <1>4, Stutters DEF Candidate, Fence, Tombstone, Acknowledge, Reply
<1> QED BY <1>1, <1>2, <1>3, <1>4

LEMMA Simulation == IInv /\ [Next]_vars => StoreStep
<1> SUFFICES ASSUME IInv, [Next]_vars PROVE StoreStep
  OBVIOUS
<1>1. CASE UNCHANGED vars
  BY <1>1, Stutters DEF vars
<1>2. CASE \E p \in Procs : BeginAccess(p) \/ BeginRefresh(p) \/ BeginRevoke(p) \/ Step(p)
  BY <1>2, QuietStep, WritingStep, RotateStep, SwapStep, AdvanceStep, KillStep DEF Step
<1>3. CASE Tick
  BY <1>3, TickStep
<1>4. CASE Done
  BY <1>1, <1>4 DEF Done
<1> QED BY <1>1, <1>2, <1>3, <1>4 DEF Next

(* The servers, their cache and their races implement the abstract store:   *)
(* one chain of generations, an answer is the successor of what was         *)
(* presented and in the table before it is given, and an ended session      *)
(* neither rotates nor comes back.                                          *)
THEOREM Refinement == Spec => StoreSpec
<1>1. Init => Store!Init
  BY ViewInit
<1>2. IInv /\ [Next]_vars => [Store!Next]_<<View, answers>>
  BY Simulation DEF StoreStep
<1> QED BY <1>1, <1>2, Invariance, PTL DEF Spec, StoreSpec, Store!Spec, View

-----------------------------------------------------------------------------
(* A revoked session stays out. The row is revoked before anybody is told;  *)
(* from then on nobody reads an active row, and the snapshots still on      *)
(* their way were read before, so that their deadline is at most one cache  *)
(* lifetime away. A tombstone outlasts every one of those deadlines.        *)
Denies(c) == c.st \in {"revoking", "revoked"}

(* A request that came when the tombstone had failed may still be let in    *)
MayEnter(o, e) == o.after = "loose" /\ o.born < e.at + TTL

(* A request, at time n with a row of status st, the cache c and e the way  *)
(* the session ended                                                        *)
OpR(o, n, st, c, e) ==
    /\ o.dl <= n + TTL /\ o.born <= n
    /\ o.after # "open" => e.how # "open"
    /\ o.after = "sealed" => e.how = "sealed"
    /\ o.pc = "tombstone" => st = "revoked"
    /\ o.pc = "write" /\ e.how # "open" => o.dl <= e.at + TTL
    /\ o.pc = "write" /\ e.how = "sealed" =>
          Least(o.dl, Life) <= n \/ (Denies(c) /\ Least(o.dl, Life) <= c.exp)
    /\ o.after # "open" =>
          /\ o.pc \notin {"write", "written", "confirm"}
          /\ o.pc = "loaded" \/ o.res = "accepted" => MayEnter(o, e)

CacheR == cache.st = "active" =>
    /\ cache.exp <= now + TTL /\ ended.how # "sealed"
    /\ ended.how = "loose" => cache.exp <= ended.at + TTL
EndedR == ended.how # "open" => row.status = "revoked"
OpsR == \A q \in Procs : OpR(op[q], now, row.status, cache, ended)
RInv == IInv /\ EndedR /\ CacheR /\ OpsR

(* What a step may do around a request that does not take it                *)
Env ==
    /\ now' >= now
    /\ row.status = "revoked" => row'.status = "revoked"
    /\ ended.how # "open" => ended'.how # "open" /\ ended'.at = ended.at
    /\ ended.how = "sealed" => ended'.how = "sealed"
    /\ ended.how = "open" /\ ended'.how # "open" => ended'.at = now
    /\ ended'.how = "sealed" =>
          \/ Denies(cache') /\ cache'.exp >= Least(now + TTL, Life)
          \/ ended.how = "sealed" /\ (cache' = cache \/ ~Denies(cache) \/ cache.exp <= now')

LEMMA EnvR ==
    ASSUME IInv, IInv', Env, NEW o \in Ops, OpR(o, now, row.status, cache, ended)
    PROVE  OpR(o, now', row'.status, cache', ended')
<1>1. now \in Nat /\ now' \in Nat /\ o.dl \in Nat /\ o.born \in Nat /\ ended.at \in Nat /\ ended'.at \in Nat
        /\ cache.exp \in Nat /\ cache'.exp \in Nat /\ TTL \in Nat /\ Life \in Nat
  BY Constants DEF IInv, CountsOK, CacheOK, Entries, Ops
<1>2. o.dl <= now' + TTL /\ o.born <= now'
  BY <1>1 DEF Env, OpR
<1>3. /\ o.after # "open" => ended'.how # "open"
      /\ o.after = "sealed" => ended'.how = "sealed"
      /\ o.pc = "tombstone" => row'.status = "revoked"
  BY DEF Env, OpR
<1>4. ASSUME o.pc = "write", ended'.how # "open" PROVE o.dl <= ended'.at + TTL
  BY <1>1, <1>4 DEF Env, OpR
<1>5. ASSUME o.pc = "write", ended'.how = "sealed"
      PROVE  Least(o.dl, Life) <= now' \/ (Denies(cache') /\ Least(o.dl, Life) <= cache'.exp)
  <2>1. CASE Denies(cache') /\ cache'.exp >= Least(now + TTL, Life)
    BY <1>1, <2>1 DEF OpR, Least
  <2>2. CASE ended.how = "sealed" /\ (cache' = cache \/ ~Denies(cache) \/ cache.exp <= now')
    <3>1. Least(o.dl, Life) <= now \/ (Denies(cache) /\ Least(o.dl, Life) <= cache.exp)
      BY <1>5, <2>2 DEF OpR
    <3>2. Least(o.dl, Life) \in Nat /\ now <= now'
      BY <1>1 DEF Least, Env
    <3> QED BY <1>1, <2>2, <3>1, <3>2
  <2> QED BY <1>5, <2>1, <2>2 DEF Env
<1>6. ASSUME o.after # "open"
      PROVE  /\ o.pc \notin {"write", "written", "confirm"}
             /\ o.pc = "loaded" \/ o.res = "accepted" => MayEnter(o, ended')
  BY <1>6 DEF Env, OpR, MayEnter
<1> QED BY <1>2, <1>3, <1>4, <1>5, <1>6 DEF OpR

(* The step of one request                                                  *)
LEMMA StepR ==
    ASSUME RInv, IInv', NEW p \in Procs, Env, EndedR', CacheR',
           NEW o, op' = [op EXCEPT ![p] = o],
           OpR(o, now', row'.status, cache', ended')
    PROVE  RInv'
<1>1. ASSUME NEW q \in Procs PROVE OpR(op'[q], now', row'.status, cache', ended')
  <2>1. CASE q = p
    BY <2>1 DEF RInv, IInv, OpsOK
  <2>2. CASE q # p
    <3>1. op'[q] = op[q] /\ op[q] \in Ops /\ OpR(op[q], now, row.status, cache, ended)
      BY <2>2 DEF RInv, IInv, OpsOK, OpsR
    <3>2. OpR(op[q], now', row'.status, cache', ended')
      BY <3>1, EnvR DEF RInv
    <3> QED BY <3>1, <3>2
  <2> QED BY <2>1, <2>2
<1>2. OpsR'
  BY <1>1 DEF OpsR
<1> QED BY <1>2 DEF RInv

(* A reply; only one that accepts has something to show                     *)
LEMMA ResultR ==
    ASSUME RInv, IInv', NEW p \in Procs, NEW res, Result(p, res), Env, EndedR', CacheR',
           res = "accepted" /\ op[p].after # "open" => MayEnter(op[p], ended)
    PROVE  RInv'
<1> DEFINE o == [Idle EXCEPT !.kind = op[p].kind, !.pc = "done", !.tok = op[p].tok,
                             !.born = op[p].born, !.after = op[p].after, !.res = res]
<1>1. op' = [op EXCEPT ![p] = o]
  BY DEF Result
<1>2. op[p] \in Ops /\ OpR(op[p], now, row.status, cache, ended)
  BY DEF RInv, IInv, OpsOK, OpsR
<1>3. o.pc = "done" /\ o.dl = 0 /\ o.born = op[p].born /\ o.after = op[p].after /\ o.res = res
  BY IdleOK DEF Ops, Idle
<1>4. OpR(op[p], now', row'.status, cache', ended')
  BY <1>2, EnvR DEF RInv
<1>5. 0 <= now' + TTL
  <2>1. now' \in Nat /\ TTL \in Nat
    BY Constants DEF IInv, CountsOK
  <2> QED BY <2>1
<1> HIDE DEF o
<1>6. op[p].after # "open" => ended'.at = ended.at
  BY <1>2 DEF OpR, Env
<1>7. o.dl <= now' + TTL
  BY <1>3, <1>5
<1>8. o.after # "open" /\ o.res = "accepted" => MayEnter(o, ended')
  BY <1>3, <1>6 DEF MayEnter
<1>9. OpR(o, now', row'.status, cache', ended')
  BY <1>3, <1>4, <1>7, <1>8 DEF OpR
<1> QED BY <1>1, <1>9, StepR

(* A move to where nothing is claimed of the request                        *)
Free == {"read", "bump", "advance", "rotate", "swap", "candidate", "fence", "kill"}
LEMMA FreeR ==
    ASSUME RInv, IInv', NEW p \in Procs, NEW o, op' = [op EXCEPT ![p] = o],
           Env, EndedR', CacheR',
           o.pc \in Free, o.born = op[p].born, o.after = op[p].after, o.res = op[p].res,
           o.dl \in {op[p].dl, Deadline}
    PROVE  RInv'
<1>1. op[p] \in Ops /\ OpR(op[p], now, row.status, cache, ended)
  BY DEF RInv, IInv, OpsOK, OpsR
<1>2. OpR(op[p], now', row'.status, cache', ended')
  BY <1>1, EnvR DEF RInv
<1>3. now \in Nat /\ now' \in Nat /\ now <= now'
  BY Constants DEF RInv, IInv, CountsOK, Env
<1>4. o.dl <= now' + TTL
  BY <1>2, <1>3, Constants DEF OpR, Deadline
<1>5. OpR(o, now', row'.status, cache', ended')
  BY <1>2, <1>4 DEF OpR, Free, MayEnter
<1> QED BY <1>5, StepR

(* Nothing around the request changes, or the row is revoked only           *)
LEMMA Quiet ==
    ASSUME RInv, UNCHANGED <<now, cache, ended>>, row.status = "revoked" => row'.status = "revoked"
    PROVE  Env /\ EndedR' /\ CacheR'
<1>1. now \in Nat
  BY Constants DEF RInv, IInv, CountsOK
<1> QED BY <1>1 DEF RInv, Env, EndedR, CacheR

(* A deny entry is in place                                                 *)
LEMMA DenyR ==
    ASSUME RInv, NEW st \in {"revoking", "revoked"}, NEW s, cache' = Deny(st, s),
           now' = now, row' = row, ended.how = "open" /\ ended'.how # "open" => ended'.at = now,
           ended'.how # "open" => row.status = "revoked",
           ended.how # "open" => ended'.how # "open" /\ ended'.at = ended.at,
           ended.how = "sealed" => ended'.how = "sealed"
    PROVE  Env /\ EndedR' /\ CacheR'
<1>1. now \in Nat /\ TTL \in Nat /\ Life \in Nat
  BY Constants DEF RInv, IInv, CountsOK
<1>2. cache'.st = st /\ cache'.exp = DenyUntil
  BY DEF Deny
<1>3. DenyUntil >= Least(now + TTL, Life)
  BY <1>1 DEF DenyUntil, Least, Most
<1>4. Denies(cache') /\ cache'.st # "active"
  BY <1>2 DEF Denies
<1> QED BY <1>1, <1>2, <1>3, <1>4 DEF Env, EndedR, CacheR

LEMMA Known ==
    ASSUME RInv, NEW p \in Procs
    PROVE  /\ IInv /\ now \in Nat /\ op[p] \in Ops /\ op \in [Procs -> Ops]
           /\ OpR(op[p], now, row.status, cache, ended)
           /\ ended.how \in {"open", "loose", "sealed"} /\ row.status \in {"active", "revoked"}
           /\ ended.how # "open" => row.status = "revoked"
           /\ ended.how # "open" \/ op[p].after # "open" => row.status # "active"
BY Facts DEF RInv, IInv, CountsOK, OpsOK, OpsR, OpR, RowOK, Sessions, EndedR

LEMMA NoAccept ==
    ASSUME RInv, IInv', NEW p \in Procs, NEW res, res # "accepted", Result(p, res), Env, EndedR', CacheR'
    PROVE  RInv'
BY ResultR

LEMMA ArriveR ==
    ASSUME RInv, IInv', NEW p \in Procs, NEW o \in Ops, Arrive(p, o), o.dl = 0, o.res = "none",
           o.pc \in {"load", "candidate"}
    PROVE  RInv'
<1> DEFINE n == [o EXCEPT !.born = now, !.after = ended.how]
<1>1. op' = [op EXCEPT ![p] = n] /\ UNCHANGED <<now, row, cache, ended>>
  BY DEF Arrive
<1>2. n.dl = 0 /\ n.res = "none" /\ n.pc = o.pc /\ n.born = now /\ n.after = ended.how
  BY DEF Ops
<1> HIDE DEF n
<1>3. OpR(n, now, row.status, cache, ended)
  BY <1>2, Known, Constants DEF OpR
<1>4. OpR(n, now', row'.status, cache', ended')
  BY <1>1, <1>3
<1>5. Env /\ EndedR' /\ CacheR'
  BY <1>1, Quiet
<1> QED BY <1>1, <1>4, <1>5, StepR

LEMMA BeginR ==
    ASSUME RInv, IInv', NEW p \in Procs, BeginAccess(p) \/ BeginRefresh(p) \/ BeginRevoke(p)
    PROVE  RInv'
<1>1. \E o : /\ Arrive(p, o) /\ o \in Ops /\ o.dl = 0 /\ o.res = "none" /\ o.pc \in {"load", "candidate"}
  <2>1. CASE BeginAccess(p)
    <3>1. PICK t \in issued, k \in {"access", "advance"} :
         Arrive(p, [Idle EXCEPT !.kind = k, !.pc = "load", !.phase = "load", !.tok = t])
      BY <2>1 DEF BeginAccess
    <3> DEFINE o == [Idle EXCEPT !.kind = k, !.pc = "load", !.phase = "load", !.tok = t]
    <3>2. t \in [ver : Nat, auth : Nat]
      BY DEF RInv, IInv, GivenOK
    <3>3. o \in Ops /\ o.res = "none" /\ o.pc = "load"
      BY <3>2, IdleOK DEF Ops, Pcs, Kinds
    <3>4. o.dl = 0
      BY DEF Idle
    <3> QED BY <3>1, <3>3, <3>4
  <2>2. CASE BeginRefresh(p)
    <3>1. PICK g \in Held :
         Arrive(p, [Idle EXCEPT !.kind = "refresh", !.pc = "load", !.phase = "load", !.gen = g])
      BY <2>2 DEF BeginRefresh
    <3> DEFINE o == [Idle EXCEPT !.kind = "refresh", !.pc = "load", !.phase = "load", !.gen = g]
    <3>2. g \in Nat
      BY HeldOK DEF RInv, IInv
    <3>3. o \in Ops /\ o.res = "none" /\ o.pc = "load"
      BY <3>2, IdleOK DEF Ops, Pcs, Kinds
    <3>4. o.dl = 0
      BY DEF Idle
    <3> QED BY <3>1, <3>3, <3>4
  <2>3. CASE \E k \in {"revoke", "bulk"} :
              Arrive(p, [Idle EXCEPT !.kind = k, !.pc = "candidate", !.at = now])
    <3>1. PICK k \in {"revoke", "bulk"} :
              Arrive(p, [Idle EXCEPT !.kind = k, !.pc = "candidate", !.at = now])
      BY <2>3
    <3> DEFINE o == [Idle EXCEPT !.kind = k, !.pc = "candidate", !.at = now]
    <3>3. o \in Ops /\ o.res = "none" /\ o.pc = "candidate"
      BY IdleOK, Known DEF Ops, Pcs, Kinds
    <3>4. o.dl = 0
      BY DEF Idle
    <3> QED BY <3>1, <3>3, <3>4
  <2>4. CASE \E g \in Held :
              Arrive(p, [Idle EXCEPT !.kind = "logout", !.pc = "candidate", !.at = now, !.gen = g])
    <3>1. PICK g \in Held :
              Arrive(p, [Idle EXCEPT !.kind = "logout", !.pc = "candidate", !.at = now, !.gen = g])
      BY <2>4
    <3> DEFINE o == [Idle EXCEPT !.kind = "logout", !.pc = "candidate", !.at = now, !.gen = g]
    <3>2. g \in Nat
      BY HeldOK DEF RInv, IInv
    <3>3. o \in Ops /\ o.res = "none" /\ o.pc = "candidate"
      BY <3>2, IdleOK, Known DEF Ops, Pcs, Kinds
    <3>4. o.dl = 0
      BY DEF Idle
    <3> QED BY <3>1, <3>3, <3>4
  <2> QED BY <2>1, <2>2, <2>3, <2>4 DEF BeginRevoke
<1> QED BY <1>1, ArriveR

LEMMA ReadCacheR == ASSUME RInv, IInv', NEW p \in Procs, ReadCache(p) PROVE RInv'
<1>1. op[p].pc = "load" /\ UNCHANGED <<now, row, cache, ended>>
  BY DEF ReadCache
<1>2. Env /\ EndedR' /\ CacheR'
  BY <1>1, Quiet
<1>3. CASE Reply(p, "rejected")
  BY <1>2, <1>3, NoAccept DEF Reply
<1>4. CASE /\ cache.st = "active"
           /\ op' = [op EXCEPT ![p].pc = "loaded",
                              ![p].snap = [NewRow EXCEPT !.ver = cache.ver, !.auth = cache.auth]]
  <2> DEFINE o == [op[p] EXCEPT !.pc = "loaded",
                                !.snap = [NewRow EXCEPT !.ver = cache.ver, !.auth = cache.auth]]
  <2>1. op' = [op EXCEPT ![p] = o]
    BY <1>4, Known
  <2>2. o.pc = "loaded" /\ o.dl = op[p].dl /\ o.born = op[p].born /\ o.after = op[p].after /\ o.res = op[p].res
    BY Known DEF Ops
  <2> HIDE DEF o
  <2>3. ASSUME op[p].after # "open" PROVE MayEnter(op[p], ended)
    <3>1. ended.how = "loose" /\ op[p].after = "loose" /\ cache.exp <= ended.at + TTL
      BY <1>4, <2>3, Known DEF OpR, RInv, CacheR, Ops
    <3>2. op[p].born <= now /\ cache.exp > now
      BY <1>4, Known DEF OpR, IInv, CacheOK
    <3>3. op[p].born \in Nat /\ cache.exp \in Nat /\ ended.at \in Nat
      BY Known DEF Ops, IInv, CacheOK, Entries, CountsOK
    <3> QED BY <3>1, <3>2, <3>3, Known, Constants DEF MayEnter
  <2>4. OpR(o, now, row.status, cache, ended)
    BY <2>2, <2>3, Known DEF OpR, MayEnter
  <2>5. OpR(o, now', row'.status, cache', ended')
    BY <1>1, <2>4
  <2> QED BY <1>2, <2>1, <2>5, StepR
<1>5. CASE op' = [op EXCEPT ![p].pc = "read", ![p].dl = Deadline]
  <2> DEFINE o == [op[p] EXCEPT !.pc = "read", !.dl = Deadline]
  <2>1. op' = [op EXCEPT ![p] = o]
    BY <1>5, Known
  <2>2. o.pc \in Free /\ o.dl = Deadline /\ o.born = op[p].born /\ o.after = op[p].after /\ o.res = op[p].res
    BY Known DEF Ops, Free
  <2> HIDE DEF o
  <2> QED BY <1>2, <2>1, <2>2, FreeR
<1> QED BY <1>3, <1>4, <1>5 DEF ReadCache

(* A row that is active lets a snapshot of it through                       *)
LEMMA FillR ==
    ASSUME RInv, IInv', NEW p \in Procs, NEW o, op' = [op EXCEPT ![p] = o],
           UNCHANGED <<now, cache, ended>>, row.status = "active",
           o.pc = "write", o.born = op[p].born, o.after = op[p].after, o.res = op[p].res,
           o.dl = op[p].dl
    PROVE  RInv'
<1>1. op[p].after = "open" /\ ended.how = "open"
  BY Known
<1>2. OpR(o, now', row'.status, cache', ended')
  BY <1>1, Known DEF OpR
<1> QED BY <1>2, Quiet, StepR

LEMMA ReadRowR == ASSUME RInv, IInv', NEW p \in Procs, ReadRow(p) PROVE RInv'
<1>1. op[p].pc = "read" /\ UNCHANGED <<now, row, ended>>
  BY DEF ReadRow
<1>2. CASE Active(row, now)
  <2>1. op' = [op EXCEPT ![p].pc = "write", ![p].snap = row] /\ UNCHANGED cache
    BY <1>2 DEF ReadRow
  <2> DEFINE o == [op[p] EXCEPT !.pc = "write", !.snap = row]
  <2>2. op' = [op EXCEPT ![p] = o]
    BY <2>1, Known
  <2>3. o.pc = "write" /\ o.dl = op[p].dl /\ o.born = op[p].born /\ o.after = op[p].after /\ o.res = op[p].res
    BY Known DEF Ops
  <2> HIDE DEF o
  <2> QED BY <1>1, <1>2, <2>1, <2>2, <2>3, FillR DEF Active
<1>3. CASE ~Active(row, now)
  <2>1. Reply(p, "rejected") /\ (cache' = cache \/ cache' = Deny("revoked", row))
    BY <1>3 DEF ReadRow
  <2>2. CASE cache' = cache
    BY <1>1, <2>1, <2>2, Quiet, NoAccept DEF Reply
  <2>3. CASE cache' = Deny("revoked", row)
    <3>1. Env /\ EndedR' /\ CacheR'
      BY <1>1, <2>3, Known, DenyR
    <3> QED BY <2>1, <3>1, NoAccept DEF Reply
  <2> QED BY <2>1, <2>2, <2>3
<1> QED BY <1>2, <1>3

(* What follows the write of a snapshot: whoever gets here was not late     *)
LEMMA ProceedR ==
    ASSUME RInv, IInv', NEW p \in Procs, op[p].pc \in Writing, Env, EndedR', CacheR',
           Proceed(p) \/ Refuse(p) \/ Unwritten(p) \/ Goto(p, "confirm") \/ Goto(p, "written")
    PROVE  RInv'
<1>1. op[p].after = "open"
  BY Known DEF OpR, Writing
<1>2. ASSUME NEW res, Result(p, res) PROVE RInv'
  BY <1>1, <1>2, ResultR
<1>3. ASSUME NEW pc \in {"loaded", "confirm", "written"}, Goto(p, pc) PROVE RInv'
  <2> DEFINE o == [op[p] EXCEPT !.pc = pc]
  <2>1. op' = [op EXCEPT ![p] = o]
    BY <1>3, Known DEF Goto
  <2>2. o.pc = pc /\ o.dl = op[p].dl /\ o.born = op[p].born /\ o.after = op[p].after /\ o.res = op[p].res
    BY Known DEF Ops
  <2> HIDE DEF o
  <2>3. OpR(op[p], now', row'.status, cache', ended')
    BY Known, EnvR
  <2>4. OpR(o, now', row'.status, cache', ended')
    BY <1>1, <2>2, <2>3 DEF OpR
  <2> QED BY <2>1, <2>4, StepR
<1>4. op[p].phase \in {"create", "load", "rotate", "advance"}
  BY Facts, Known DEF Ops, OpInv, Writing
<1>5. CASE Refuse(p)
  BY <1>2, <1>5 DEF Refuse, Reply
<1>6. CASE Proceed(p)
  <2>1. CASE op[p].phase = "load"
    BY <1>3, <1>6, <2>1 DEF Proceed
  <2>2. CASE op[p].phase \in {"create", "rotate"}
    BY <1>2, <1>6, <2>2 DEF Proceed, Answered
  <2>3. CASE op[p].phase = "advance"
    BY <1>2, <1>6, <2>3 DEF Proceed
  <2> QED BY <1>4, <2>1, <2>2, <2>3
<1>7. CASE Unwritten(p)
  BY <1>2, <1>6, <1>7 DEF Unwritten, Reply
<1> QED BY <1>3, <1>5, <1>6, <1>7

LEMMA WriteActiveR == ASSUME RInv, IInv', NEW p \in Procs, WriteActive(p) PROVE RInv'
<1>1. op[p].pc = "write" /\ op[p].pc \in Writing /\ UNCHANGED <<now, row, ended>>
  BY DEF WriteActive, Writing
<1>2. CASE cache' = cache /\ (Goto(p, "confirm") \/ Refuse(p) \/ Unwritten(p))
  BY <1>1, <1>2, Quiet, ProceedR
<1>3. CASE /\ ~RefusesActive(op[p].snap)
           /\ cache' = Snapshot(op[p].snap, op[p].dl)
           /\ Goto(p, "written")
  <2> DEFINE s == op[p].snap
             dl == op[p].dl
             lim == Least(dl, Life)
             e == [st |-> "active", ver |-> s.ver, auth |-> s.auth, exp |-> lim]
  <2>1. dl \in Nat /\ now \in Nat /\ lim \in Nat /\ lim <= dl /\ ended.at \in Nat /\ TTL \in Nat
    BY Known, Constants DEF Ops, Least, IInv, CountsOK
  <2>2. cache' = IF lim > now THEN e ELSE NoEntry
    BY <1>3 DEF Snapshot, Alive
  <2>3. ~Denies(cache)
    BY <1>3 DEF RefusesActive, Denies
  <2>4. ended.how = "sealed" => lim <= now
    BY <1>1, <2>3, Known DEF OpR
  <2>5. ended.how # "open" => dl <= ended.at + TTL
    BY <1>1, Known DEF OpR
  <2>6. dl <= now + TTL
    BY Known DEF OpR
  <2>7. CacheR'
    <3>1. CASE lim > now
      <4>1. ended'.how # "sealed" /\ cache'.exp = lim
        BY <1>1, <2>1, <2>2, <2>4, <3>1
      <4>2. cache'.exp <= now' + TTL
        BY <1>1, <2>1, <2>6, <4>1
      <4>3. ended'.how = "loose" => cache'.exp <= ended'.at + TTL
        BY <1>1, <2>1, <2>5, <4>1
      <4> QED BY <4>1, <4>2, <4>3 DEF CacheR
    <3>2. CASE ~(lim > now)
      BY <2>2, <3>2 DEF CacheR, NoEntry
    <3> QED BY <3>1, <3>2
  <2>8. Env
    BY <1>1, <2>1, <2>3 DEF Env
  <2>9. EndedR'
    BY <1>1 DEF RInv, EndedR
  <2> QED BY <1>1, <1>3, <2>7, <2>8, <2>9, ProceedR
<1> QED BY <1>2, <1>3 DEF WriteActive

LEMMA ConfirmedR == ASSUME RInv, IInv', NEW p \in Procs, Written(p) \/ Confirm(p) PROVE RInv'
<1>1. op[p].pc \in Writing /\ UNCHANGED <<now, row, cache, ended>>
  BY DEF Written, Confirm, Writing
<1>2. Proceed(p) \/ Refuse(p) \/ Goto(p, "confirm")
  BY DEF Written, Confirm
<1> QED BY <1>1, <1>2, Quiet, ProceedR

LEMMA GotoR ==
    ASSUME RInv, IInv', NEW p \in Procs, NEW pc \in Free, Goto(p, pc), Env, EndedR', CacheR'
    PROVE  RInv'
<1> DEFINE o == [op[p] EXCEPT !.pc = pc]
<1>1. op' = [op EXCEPT ![p] = o]
  BY Known DEF Goto
<1>2. o.pc \in Free /\ o.dl = op[p].dl /\ o.born = op[p].born /\ o.after = op[p].after /\ o.res = op[p].res
  BY Known DEF Ops
<1> HIDE DEF o
<1> QED BY <1>1, <1>2, FreeR

LEMMA ValidateR == ASSUME RInv, IInv', NEW p \in Procs, Validate(p) PROVE RInv'
<1>1. op[p].pc = "loaded" /\ UNCHANGED <<now, row, cache, ended>>
  BY DEF Validate
<1>2. Env /\ EndedR' /\ CacheR'
  BY <1>1, Quiet
<1>3. op[p].after # "open" => MayEnter(op[p], ended)
  BY <1>1, Known DEF OpR
<1>4. CASE Reply(p, "rejected") \/ Reply(p, "accepted")
  BY <1>2, <1>3, <1>4, ResultR DEF Reply
<1>5. CASE Goto(p, "bump")
  BY <1>2, <1>5, GotoR DEF Free
<1> QED BY <1>4, <1>5 DEF Validate

LEMMA BumpR == ASSUME RInv, IInv', NEW p \in Procs, Bump(p) PROVE RInv'
<1>1. op[p].pc = "bump" /\ UNCHANGED <<now, row, cache, ended>>
      /\ op' = [op EXCEPT ![p].pc = "advance", ![p].snap.auth = userAuth + 1,
                          ![p].dl = Deadline, ![p].at = now]
  BY DEF Bump
<1>2. Env /\ EndedR' /\ CacheR'
  BY <1>1, Quiet
<1> DEFINE o == [op[p] EXCEPT !.pc = "advance", !.snap.auth = userAuth + 1,
                              !.dl = Deadline, !.at = now]
<1>3. op' = [op EXCEPT ![p] = o]
  BY <1>1, Known
<1>4. o.pc \in Free /\ o.dl = Deadline /\ o.born = op[p].born /\ o.after = op[p].after /\ o.res = op[p].res
  BY Known DEF Ops, Free
<1> HIDE DEF o
<1> QED BY <1>2, <1>3, <1>4, FreeR

LEMMA AdvanceR == ASSUME RInv, IInv', NEW p \in Procs, Advance(p) PROVE RInv'
<1>1. op[p].pc = "advance" /\ UNCHANGED <<now, cache, ended>>
  BY DEF Advance
<1> DEFINE next == [row EXCEPT !.ver = @ + 1, !.auth = op[p].snap.auth]
<1>2. CASE row.status = "active" /\ op' = [op EXCEPT ![p].pc = "write", ![p].phase = "advance", ![p].snap = next]
  <2> DEFINE o == [op[p] EXCEPT !.pc = "write", !.phase = "advance", !.snap = next]
  <2>1. op' = [op EXCEPT ![p] = o]
    BY <1>2, Known
  <2>2. o.pc = "write" /\ o.dl = op[p].dl /\ o.born = op[p].born /\ o.after = op[p].after /\ o.res = op[p].res
    BY Known DEF Ops
  <2> HIDE DEF o
  <2> QED BY <1>1, <1>2, <2>1, <2>2, FillR
<1>3. CASE Reply(p, "error") /\ UNCHANGED row
  BY <1>1, <1>3, Quiet, NoAccept DEF Reply
<1> QED BY <1>2, <1>3 DEF Advance, Active

LEMMA StartRotationR == ASSUME RInv, IInv', NEW p \in Procs, StartRotation(p) PROVE RInv'
<1>1. UNCHANGED <<now, row, cache, ended>>
  BY DEF StartRotation
<1>2. Env /\ EndedR' /\ CacheR'
  BY <1>1, Quiet
<1>3. CASE Reply(p, "rejected")
  BY <1>2, <1>3, NoAccept DEF Reply
<1>4. CASE op' = [op EXCEPT ![p].pc = "candidate", ![p].at = now]
  <2> DEFINE o == [op[p] EXCEPT !.pc = "candidate", !.at = now]
  <2>1. op' = [op EXCEPT ![p] = o]
    BY <1>4, Known
  <2>2. o.pc \in Free /\ o.dl = op[p].dl /\ o.born = op[p].born /\ o.after = op[p].after /\ o.res = op[p].res
    BY Known DEF Ops, Free
  <2> HIDE DEF o
  <2> QED BY <1>2, <2>1, <2>2, FreeR
<1>5. CASE op' = [op EXCEPT ![p].pc = "rotate", ![p].phase = "rotate", ![p].at = now, ![p].tries = 3]
  <2> DEFINE o == [op[p] EXCEPT !.pc = "rotate", !.phase = "rotate", !.at = now, !.tries = 3]
  <2>1. op' = [op EXCEPT ![p] = o]
    BY <1>5, Known
  <2>2. o.pc \in Free /\ o.dl = op[p].dl /\ o.born = op[p].born /\ o.after = op[p].after /\ o.res = op[p].res
    BY Known DEF Ops, Free
  <2> HIDE DEF o
  <2> QED BY <1>2, <2>1, <2>2, FreeR
<1> QED BY <1>3, <1>4, <1>5 DEF StartRotation

LEMMA RotateR == ASSUME RInv, IInv', NEW p \in Procs, Rotate(p) PROVE RInv'
<1>1. UNCHANGED <<now, row, cache, ended>>
  BY DEF Rotate
<1>2. Env /\ EndedR' /\ CacheR'
  BY <1>1, Quiet
<1>3. CASE Reply(p, "error") \/ Reply(p, "invalid") \/ Reply(p, "race")
  BY <1>2, <1>3, NoAccept DEF Reply
<1>4. CASE row.status = "active" /\ Answered(p, row)
  <2>1. op[p].after = "open"
    BY <1>4, Known
  <2> QED BY <1>2, <1>4, <2>1, ResultR DEF Answered
<1>5. CASE op' = [op EXCEPT ![p].pc = "swap", ![p].snap = row, ![p].dl = Deadline]
  <2> DEFINE o == [op[p] EXCEPT !.pc = "swap", !.snap = row, !.dl = Deadline]
  <2>1. op' = [op EXCEPT ![p] = o]
    BY <1>5, Known
  <2>2. o.pc \in Free /\ o.dl = Deadline /\ o.born = op[p].born /\ o.after = op[p].after /\ o.res = op[p].res
    BY Known DEF Ops, Free
  <2> HIDE DEF o
  <2> QED BY <1>2, <2>1, <2>2, FreeR
<1>6. CASE op' = [op EXCEPT ![p].pc = "fence", ![p].snap = row]
  <2> DEFINE o == [op[p] EXCEPT !.pc = "fence", !.snap = row]
  <2>1. op' = [op EXCEPT ![p] = o]
    BY <1>6, Known
  <2>2. o.pc \in Free /\ o.dl = op[p].dl /\ o.born = op[p].born /\ o.after = op[p].after /\ o.res = op[p].res
    BY Known DEF Ops, Free
  <2> HIDE DEF o
  <2> QED BY <1>2, <2>1, <2>2, FreeR
<1> QED BY <1>3, <1>4, <1>5, <1>6 DEF Rotate, Active

LEMMA SwapR == ASSUME RInv, IInv', NEW p \in Procs, Swap(p) PROVE RInv'
<1>1. op[p].pc = "swap" /\ UNCHANGED <<now, cache, ended>>
  BY DEF Swap
<1>2. CASE row.status = "active" /\ Goto(p, "write")
  <2> DEFINE o == [op[p] EXCEPT !.pc = "write"]
  <2>1. op' = [op EXCEPT ![p] = o]
    BY <1>2, Known DEF Goto
  <2>2. o.pc = "write" /\ o.dl = op[p].dl /\ o.born = op[p].born /\ o.after = op[p].after /\ o.res = op[p].res
    BY Known DEF Ops
  <2> HIDE DEF o
  <2> QED BY <1>1, <1>2, <2>1, <2>2, FillR
<1>3. CASE Reply(p, "invalid") /\ UNCHANGED row
  BY <1>1, <1>3, Quiet, NoAccept DEF Reply
<1>4. CASE op' = [op EXCEPT ![p].pc = "rotate", ![p].tries = @ - 1] /\ UNCHANGED row
  <2> DEFINE o == [op[p] EXCEPT !.pc = "rotate", !.tries = @ - 1]
  <2>1. op' = [op EXCEPT ![p] = o]
    BY <1>4, Known
  <2>2. o.pc \in Free /\ o.dl = op[p].dl /\ o.born = op[p].born /\ o.after = op[p].after /\ o.res = op[p].res
    BY Known DEF Ops, Free
  <2> HIDE DEF o
  <2> QED BY <1>1, <1>4, <2>1, <2>2, Quiet, FreeR
<1> QED BY <1>2, <1>3, <1>4 DEF Swap, Active

(* The moves of a revocation                                                *)
LEMMA GoneR ==
    ASSUME RInv, Gone("loose"), UNCHANGED <<now, row, cache>>, row.status = "revoked"
    PROVE  Env /\ EndedR' /\ CacheR'
<1>1. now \in Nat /\ TTL \in Nat /\ ended.at \in Nat /\ ended.how \in {"open", "loose", "sealed"}
  BY Constants DEF RInv, IInv, CountsOK
<1>2. ended'.how = (IF ended.how = "sealed" THEN "sealed" ELSE "loose")
      /\ ended'.at = (IF ended.how = "open" THEN now ELSE ended.at)
  BY DEF Gone
<1>3. Env
  BY <1>1, <1>2 DEF Env
<1>4. CacheR'
  BY <1>1, <1>2 DEF RInv, CacheR
<1> QED BY <1>3, <1>4 DEF EndedR

LEMMA CandidateR == ASSUME RInv, IInv', NEW p \in Procs, Candidate(p) PROVE RInv'
<1>1. UNCHANGED <<now, row, cache>>
  BY DEF Candidate
<1>2. CASE op' = [op EXCEPT ![p].pc = "fence", ![p].snap = row] /\ UNCHANGED ended
  <2> DEFINE o == [op[p] EXCEPT !.pc = "fence", !.snap = row]
  <2>1. op' = [op EXCEPT ![p] = o]
    BY <1>2, Known
  <2>2. o.pc \in Free /\ o.dl = op[p].dl /\ o.born = op[p].born /\ o.after = op[p].after /\ o.res = op[p].res
    BY Known DEF Ops, Free
  <2> HIDE DEF o
  <2> QED BY <1>1, <1>2, <2>1, <2>2, Quiet, FreeR
<1>3. CASE /\ Reply(p, IF Refreshing(p) THEN "rejected" ELSE "ok")
           /\ IF row.status = "active" THEN UNCHANGED ended ELSE Gone("loose")
  <2>1. Env /\ EndedR' /\ CacheR'
    BY <1>1, <1>3, Quiet, GoneR, Known
  <2> QED BY <1>3, <2>1, NoAccept DEF Reply
<1> QED BY <1>2, <1>3 DEF Candidate

LEMMA FenceR == ASSUME RInv, IInv', NEW p \in Procs, Fence(p) PROVE RInv'
<1>1. UNCHANGED <<now, row, ended>>
  BY DEF Fence
<1>2. CASE cache' = Deny("revoking", op[p].snap) /\ Goto(p, "kill")
  <2>1. Env /\ EndedR' /\ CacheR'
    BY <1>1, <1>2, Known, DenyR
  <2>2. "kill" \in Free
    BY DEF Free
  <2> QED BY <1>2, <2>1, <2>2, GotoR
<1>3. CASE /\ cache' = cache
           /\ Reply(p, IF Refreshing(p) /\ op[p].phase = "load" THEN "rejected" ELSE "error")
  BY <1>1, <1>3, Quiet, NoAccept DEF Reply
<1> QED BY <1>2, <1>3 DEF Fence

LEMMA KillR == ASSUME RInv, IInv', NEW p \in Procs, Kill(p) PROVE RInv'
<1>1. op[p].pc = "kill" /\ UNCHANGED <<now, cache>>
  BY DEF Kill
<1>2. CASE row.status = "active"
  <2> DEFINE s == IF op[p].kind = "bulk" THEN row ELSE op[p].snap
             o == [op[p] EXCEPT !.pc = "tombstone", !.snap = s]
  <2>1. row' = [row EXCEPT !.status = "revoked", !.why = Reason(p)]
        /\ op' = [op EXCEPT ![p].pc = "tombstone", ![p].snap = IF op[p].kind = "bulk" THEN row ELSE @]
        /\ ended' = ended
    BY <1>2 DEF Kill
  <2>2. row'.status = "revoked"
    BY <2>1, Facts, Known DEF Sessions
  <2>3. op' = [op EXCEPT ![p] = o]
    BY <2>1, Known
  <2>4. o.pc = "tombstone" /\ o.dl = op[p].dl /\ o.born = op[p].born /\ o.after = op[p].after /\ o.res = op[p].res
    BY Known DEF Ops
  <2> HIDE DEF o
  <2>5. OpR(o, now', row'.status, cache', ended')
    BY <1>1, <2>1, <2>2, <2>4, Known DEF OpR, MayEnter
  <2> QED BY <1>1, <2>1, <2>2, <2>3, <2>5, Quiet, StepR
<1>3. CASE row.status # "active" /\ UNCHANGED <<row, ended>> /\ Goto(p, "candidate")
  BY <1>1, <1>3, Quiet, GotoR DEF Free
<1>4. CASE /\ row.status # "active" /\ UNCHANGED row
           /\ ended' = ended \/ Gone("loose")
           /\ Reply(p, IF op[p].phase = "rotate" THEN "error"
                       ELSE IF Refreshing(p) THEN "rejected" ELSE "ok")
  <2>1. row.status = "revoked"
    BY <1>4, Known, Facts DEF Sessions
  <2>2. Env /\ EndedR' /\ CacheR'
    BY <1>1, <1>4, <2>1, Quiet, GoneR
  <2> QED BY <1>4, <2>2, NoAccept DEF Reply
<1> QED BY <1>2, <1>3, <1>4 DEF Kill

LEMMA TombstoneR == ASSUME RInv, IInv', NEW p \in Procs, Tombstone(p) PROVE RInv'
<1>1. op[p].pc = "tombstone" /\ UNCHANGED <<now, row>> /\ row.status = "revoked"
  BY Known DEF Tombstone, OpR
<1>2. \/ Goto(p, "candidate")
      \/ Reply(p, IF Refreshing(p) THEN "rejected" ELSE "ok")
  BY DEF Tombstone, Acknowledge
<1>3. Env /\ EndedR' /\ CacheR'
  <2>1. CASE cache' = Deny("revoked", op[p].snap) /\ Gone("sealed")
    <3>1. ended'.how = "sealed" /\ ended'.at = (IF ended.how = "open" THEN now ELSE ended.at)
      BY <2>1 DEF Gone
    <3> QED BY <1>1, <2>1, <3>1, DenyR
  <2>2. CASE cache' = cache /\ Gone("loose")
    BY <1>1, <2>2, GoneR
  <2> QED BY <2>1, <2>2 DEF Tombstone, Acknowledge
<1> QED BY <1>2, <1>3, GotoR, NoAccept DEF Free, Reply

LEMMA TickR == ASSUME RInv, IInv', Tick PROVE RInv'
<1>1. now \in Nat /\ now' = now + 1 /\ UNCHANGED <<row, op, ended>> /\ cache.exp \in Nat /\ ended.at \in Nat
  BY Constants DEF Tick, RInv, IInv, CountsOK, CacheOK, Entries
<1>2. cache' = cache \/ (cache' = NoEntry /\ cache.exp <= now')
  BY <1>1 DEF Tick
<1>3. Env
  BY <1>1, <1>2 DEF Env
<1>4. CacheR' /\ EndedR'
  BY <1>1, <1>2, Constants DEF RInv, CacheR, EndedR, NoEntry
<1>5. ASSUME NEW q \in Procs PROVE OpR(op'[q], now', row'.status, cache', ended')
  BY <1>1, <1>3, Known, EnvR
<1> QED BY <1>4, <1>5 DEF RInv, OpsR

LEMMA InitR == ASSUME Init PROVE RInv
<1>1. IInv
  BY InitOK
<1>2. ended.how = "open" /\ now = 0 /\ cache.st = "none" /\ Deadline = now + TTL
  BY DEF Init, NoEntry, Deadline
<1>3. ASSUME NEW q \in Procs
      PROVE  op[q].dl \in {0, Deadline} /\ op[q].born = 0 /\ op[q].after = "open" /\ op[q].pc # "tombstone"
  BY DEF Init, Idle
<1>4. OpsR
  BY <1>2, <1>3, Constants DEF OpsR, OpR
<1> QED BY <1>1, <1>2, <1>4 DEF RInv, EndedR, CacheR

LEMMA NextR == RInv /\ [Next]_vars => RInv'
<1> SUFFICES ASSUME RInv, [Next]_vars PROVE RInv'
  OBVIOUS
<1>1. IInv'
  BY Inductive DEF RInv
<1>2. CASE UNCHANGED vars
  BY <1>1, <1>2 DEF vars, RInv, EndedR, CacheR, OpsR
<1>3. CASE Next
  <2>1. ASSUME NEW p \in Procs, BeginAccess(p) \/ BeginRefresh(p) \/ BeginRevoke(p) PROVE RInv'
    BY <1>1, <2>1, BeginR
  <2>2. ASSUME NEW p \in Procs, Step(p) PROVE RInv'
    BY <1>1, <2>2, ReadCacheR, ReadRowR, WriteActiveR, ConfirmedR, ValidateR, BumpR, AdvanceR, StartRotationR,
       RotateR, SwapR, CandidateR, FenceR, KillR, TombstoneR DEF Step
  <2>3. CASE Done
    BY <2>3, <1>2 DEF Done
  <2> QED BY <1>1, <1>3, <2>1, <2>2, <2>3, TickR DEF Next
<1> QED BY <1>2, <1>3

(* Once a revocation has been acknowledged behind its tombstone, no request *)
(* that starts later is let in, whatever the servers, their number, the     *)
(* cache lifetime and the failures of Redis; where the tombstone failed the *)
(* session comes through for less than one cache lifetime (RevokeUserSession,*)
(* revokeUserSessions, GetUserSessionCached).                               *)
THEOREM RevokedAreOut == Spec => []RevokedStaysOut
<1>1. RInv => RevokedStaysOut
  BY DEF RInv, OpsR, OpR, RevokedStaysOut, MayEnter
<1> QED BY <1>1, InitR, NextR, PTL DEF Spec
=============================================================================
