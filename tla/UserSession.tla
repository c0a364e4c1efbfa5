---------------------------- MODULE UserSession ----------------------------
(***************************************************************************)
(* One login session: its row in user_sessions, its snapshot in Redis, and  *)
(* the requests that work on both at once from any number of servers:       *)
(* validation of an access token, refresh, the three kinds of revocation    *)
(* and the advance to a new security version. Every database statement,     *)
(* transaction and Redis command is a step; the clock moves between any two *)
(* of them. The user's own auth version is read and bumped atomically: its  *)
(* cache has a version floor of its own that keeps older values out.        *)
(***************************************************************************)
EXTENDS Integers, FiniteSets

CONSTANTS Procs,      \* requests that may be served at the same time
          MaxOps,     \* requests in all
          MaxTime,    \* ticks of the clock
          MaxFaults,  \* Redis commands that fail
          TTL,        \* ticks a cached snapshot or a tombstone lives
          Grace,      \* ticks of RefreshReplayWindow
          Life        \* ticks until the session expires

ASSUME SessionAssumption ==
    /\ MaxOps \in Nat /\ MaxTime \in Nat /\ MaxFaults \in Nat
    /\ TTL \in Nat \ {0} /\ Grace \in Nat /\ Life \in Nat \ {0}

VARIABLES now, row, userAuth, cache, op, issued, answers, begun, faults,
          ended   \* how and when a revocation was first acknowledged

vars == <<now, row, userAuth, cache, op, issued, answers, begun, faults, ended>>

Kinds == {"access", "advance", "refresh", "revoke", "logout", "bulk"}
NoEntry == [st |-> "none", ver |-> 0, auth |-> 0, exp |-> 0]
NoTok == [ver |-> 0, auth |-> 0]
NewRow == [status |-> "active", ver |-> 1, auth |-> 1, gen |-> 1, prev |-> 0,
           until |-> 0, why |-> "none"]
Idle == [kind |-> "none", pc |-> "idle", phase |-> "none", tok |-> NoTok, gen |-> 0,
         dl |-> 0, at |-> 0, tries |-> 0, snap |-> NewRow,
         born |-> 0, after |-> "open", res |-> "none"]

Least(a, b) == IF a < b THEN a ELSE b
Most(a, b) == IF a > b THEN a ELSE b
Deadline == now + TTL
DenyUntilUnclamped == now + Least(TTL, Life - now)
DenyUntil == now + Most(1, Least(TTL, Life - now))

(* The login has inserted the row and not yet its snapshot                  *)
Init ==
    /\ now = 0 /\ row = NewRow /\ userAuth = 1 /\ cache = NoEntry
    /\ \E creator \in Procs :
          op = [p \in Procs |-> IF p = creator
                               THEN [Idle EXCEPT !.kind = "login", !.pc = "write",
                                                 !.phase = "create", !.dl = Deadline]
                               ELSE Idle]
    /\ issued = {} /\ answers = {}
    /\ begun = 0 /\ faults = 0
    /\ ended = [how |-> "open", at |-> 0]

(* Redis drops what has expired, a snapshot published too late at once *)
Alive(entry) == IF entry.exp > now THEN entry ELSE NoEntry
SnapshotRestarted(s, dl) ==
    Alive([st |-> "active", ver |-> s.ver, auth |-> s.auth, exp |-> Least(now + TTL, Life)])
Snapshot(s, dl) ==
    Alive([st |-> "active", ver |-> s.ver, auth |-> s.auth, exp |-> Least(dl, Life)])
Deny(st, s) == [st |-> st, ver |-> s.ver, auth |-> s.auth, exp |-> DenyUntil]

(* The script of writeUserSessionCache *)
RefusesActive(s) == cache.st \in {"revoking", "revoked"} \/ cache.ver > s.ver
RefusesDeny(s) == cache.ver > s.ver

RedisFails == faults < MaxFaults /\ faults' = faults + 1

Goto(p, pc) == op' = [op EXCEPT ![p].pc = pc]
Result(p, res) ==
    op' = [op EXCEPT ![p] = [Idle EXCEPT !.kind = op[p].kind, !.pc = "done", !.tok = op[p].tok,
                             !.born = op[p].born, !.after = op[p].after, !.res = res]]

(* A reply without credentials *)
Reply(p, res) == Result(p, res) /\ UNCHANGED <<issued, answers>>

(* issueAuthBundle for the snapshot at hand, with the first refresh token   *)
(* for a login and the next one for a refresh                               *)
Bundle(s) == issued' = issued \cup {[ver |-> s.ver, auth |-> s.auth]}
Answered(p, s) ==
    /\ Result(p, "accepted")
    /\ Bundle(s)
    /\ answers' = answers \cup {<<op[p].gen, op[p].gen + 1>>}

Held == {a[2] : a \in answers}
Active(r, t) == r.status = "active" /\ Life > t

-----------------------------------------------------------------------------
(* Requests arrive: with an access token, with a refresh token, or from     *)
(* another session of the user                                              *)
Arrive(p, new) ==
    /\ op[p].pc \in {"idle", "done"}
    /\ begun < MaxOps /\ begun' = begun + 1
    /\ op' = [op EXCEPT ![p] = [new EXCEPT !.born = now, !.after = ended.how]]
    /\ UNCHANGED <<now, row, userAuth, cache, issued, answers, faults, ended>>

BeginAccess(p) == \E t \in issued, k \in {"access", "advance"} :
    Arrive(p, [Idle EXCEPT !.kind = k, !.pc = "load", !.phase = "load", !.tok = t])
BeginRefresh(p) == \E g \in Held :
    Arrive(p, [Idle EXCEPT !.kind = "refresh", !.pc = "load", !.phase = "load", !.gen = g])
BeginRevoke(p) ==
    \/ \E k \in {"revoke", "bulk"} : Arrive(p, [Idle EXCEPT !.kind = k, !.pc = "candidate", !.at = now])
    \/ \E g \in Held : Arrive(p, [Idle EXCEPT !.kind = "logout", !.pc = "candidate", !.at = now, !.gen = g])

-----------------------------------------------------------------------------
(* GetUserSessionCached: the cache, or the row and then the cache           *)
ReadCache(p) ==
    /\ op[p].pc = "load"
    /\ \/ /\ cache.st \in {"revoking", "revoked"} \/ (cache.st = "active" /\ Life <= now)
          /\ Reply(p, "rejected")
          /\ UNCHANGED faults
       \/ /\ cache.st = "active" /\ Life > now
          /\ op' = [op EXCEPT ![p].pc = "loaded",
                              ![p].snap = [NewRow EXCEPT !.ver = cache.ver, !.auth = cache.auth]]
          /\ UNCHANGED <<faults, issued, answers>>
       \/ /\ (cache.st = "none" /\ UNCHANGED faults) \/ RedisFails
          /\ op' = [op EXCEPT ![p].pc = "read", ![p].dl = Deadline]
          /\ UNCHANGED <<issued, answers>>
    /\ UNCHANGED <<now, row, userAuth, cache, begun, ended>>

(* An inactive row, which stays so, is published as revoked if Redis takes  *)
(* it, at once                                                              *)
ReadRow(p) ==
    /\ op[p].pc = "read"
    /\ IF Active(row, now)
       THEN /\ op' = [op EXCEPT ![p].pc = "write", ![p].snap = row]
            /\ UNCHANGED <<cache, faults, issued, answers>>
       ELSE /\ Reply(p, "rejected")
            /\ \/ cache' = (IF RefusesDeny(row) THEN cache ELSE Deny("revoked", row)) /\ UNCHANGED faults
               \/ RedisFails /\ UNCHANGED cache
    /\ UNCHANGED <<now, row, userAuth, begun, ended>>

(* What the caller of writeUserSessionCache does next: when the snapshot is *)
(* in place, when it was refused, and when Redis failed                     *)
Proceed(p) ==
    CASE op[p].phase = "load" -> Goto(p, "loaded") /\ UNCHANGED <<issued, answers>>
      [] op[p].phase \in {"create", "rotate"} -> Answered(p, op[p].snap)
      [] op[p].phase = "advance" -> Result(p, "accepted") /\ Bundle(op[p].snap) /\ UNCHANGED answers
Refuse(p) == Reply(p, IF op[p].phase = "load" THEN "rejected" ELSE "error")
Unwritten(p) == IF op[p].phase = "advance" THEN Reply(p, "error") ELSE Proceed(p)

(* writeUserSessionCache of an active snapshot, up to its script. A script  *)
(* that the deadline overtakes on its way still runs.                       *)
WriteActive(p) ==
    /\ op[p].pc = "write"
    /\ \/ /\ now >= op[p].dl
          /\ Goto(p, "confirm")
          /\ UNCHANGED <<cache, faults, issued, answers>>
       \/ /\ RefusesActive(op[p].snap) \/ Life <= now
          /\ Refuse(p)
          /\ UNCHANGED <<cache, faults>>
       \/ /\ ~RefusesActive(op[p].snap)
          /\ cache' = Snapshot(op[p].snap, op[p].dl)
          /\ Goto(p, "written")
          /\ UNCHANGED <<faults, issued, answers>>
       \/ /\ RedisFails
          /\ Unwritten(p)
          /\ UNCHANGED cache
    /\ UNCHANGED <<now, row, userAuth, begun, ended>>

(* ... and from completedAt on                                              *)
Written(p) ==
    /\ op[p].pc = "written"
    /\ \/ now >= op[p].dl /\ Goto(p, "confirm") /\ UNCHANGED <<issued, answers>>
       \/ now < op[p].dl /\ Life <= now /\ Refuse(p)
       \/ now < op[p].dl /\ Life > now /\ Proceed(p)
    /\ UNCHANGED <<now, row, userAuth, cache, begun, faults, ended>>

(* confirmUserSessionActiveSnapshot                                         *)
Confirmed(s) == Active(row, now) /\ row.ver = s.ver /\ row.auth = s.auth
Confirm(p) ==
    /\ op[p].pc = "confirm"
    /\ IF Confirmed(op[p].snap) THEN Proceed(p) ELSE Refuse(p)
    /\ UNCHANGED <<now, row, userAuth, cache, begun, faults, ended>>

-----------------------------------------------------------------------------
(* ValidateLoginSession                                                     *)
Valid(t, s) == Life > now /\ s.ver = t.ver /\ s.auth = t.auth /\ userAuth = t.auth

Validate(p) ==
    /\ op[p].pc = "loaded" /\ op[p].kind \in {"access", "advance"}
    /\ \/ ~Valid(op[p].tok, op[p].snap) /\ Reply(p, "rejected")
       \/ /\ Valid(op[p].tok, op[p].snap) /\ op[p].kind = "access"
          /\ Reply(p, "accepted")
       \/ /\ Valid(op[p].tok, op[p].snap) /\ op[p].kind = "advance"
          /\ Goto(p, "bump") /\ UNCHANGED <<issued, answers>>
    /\ UNCHANGED <<now, row, userAuth, cache, begun, faults, ended>>

(* BumpUserAuthVersion: the user's version is committed before the session  *)
(* follows                                                                  *)
Bump(p) ==
    /\ op[p].pc = "bump"
    /\ userAuth' = userAuth + 1
    /\ op' = [op EXCEPT ![p].pc = "advance", ![p].snap.auth = userAuth + 1,
                        ![p].dl = Deadline, ![p].at = now]
    /\ UNCHANGED <<now, row, cache, begun, faults, ended, issued, answers>>

(* AdvanceUserSessionAuthVersion up to the cache                            *)
Advance(p) ==
    /\ op[p].pc = "advance"
    /\ IF Active(row, op[p].at) /\ row.ver = op[p].tok.ver /\ row.auth = op[p].tok.auth
       THEN LET next == [row EXCEPT !.ver = @ + 1, !.auth = op[p].snap.auth] IN
            /\ row' = next
            /\ op' = [op EXCEPT ![p].pc = "write", ![p].phase = "advance", ![p].snap = next]
            /\ UNCHANGED <<issued, answers>>
       ELSE Reply(p, "error") /\ UNCHANGED row
    /\ UNCHANGED <<now, userAuth, cache, begun, faults, ended>>

-----------------------------------------------------------------------------
(* RefreshLoginSession once the session is loaded                           *)
StartRotation(p) ==
    /\ op[p].pc = "loaded" /\ op[p].kind = "refresh"
    /\ \/ Life <= now /\ Reply(p, "rejected")
       \/ /\ Life > now /\ UNCHANGED <<issued, answers>>
          /\ IF userAuth # op[p].snap.auth
             THEN op' = [op EXCEPT ![p].pc = "candidate", ![p].at = now]
             ELSE op' = [op EXCEPT ![p].pc = "rotate", ![p].phase = "rotate",
                                   ![p].at = now, ![p].tries = 3]
    /\ UNCHANGED <<now, row, userAuth, cache, begun, faults, ended>>

(* RotateUserSessionRefresh: the round that reads                           *)
Rotate(p) ==
    /\ op[p].pc = "rotate"
    /\ \/ ~Active(row, op[p].at) /\ Reply(p, "error")
       \/ /\ Active(row, op[p].at) /\ row.gen = op[p].gen
          /\ op' = [op EXCEPT ![p].pc = "swap", ![p].snap = row, ![p].dl = Deadline]
          /\ UNCHANGED <<issued, answers>>
       \/ /\ Active(row, op[p].at) /\ row.gen # op[p].gen /\ row.prev # op[p].gen
          /\ Reply(p, "invalid")
       \/ /\ Active(row, op[p].at) /\ row.gen # op[p].gen /\ row.prev = op[p].gen
          /\ IF op[p].at <= row.until
             THEN IF row.gen = op[p].gen + 1 THEN Answered(p, row) ELSE Reply(p, "race")
             ELSE /\ op' = [op EXCEPT ![p].pc = "fence", ![p].snap = row]
                  /\ UNCHANGED <<issued, answers>>
    /\ UNCHANGED <<now, row, userAuth, cache, begun, faults, ended>>

SwappedKeepingOpen(r, g, t) ==
    [r EXCEPT !.gen = g + 1, !.prev = IF t <= r.until THEN @ ELSE g, !.until = t + Grace]
Swapped(r, g, t) == [r EXCEPT !.gen = g + 1, !.prev = g, !.until = t + Grace]

SwapBlindly(p) ==
    /\ op[p].pc = "swap"
    /\ row' = Swapped(row, op[p].gen, op[p].at)
    /\ Goto(p, "write")
    /\ UNCHANGED <<now, userAuth, cache, begun, faults, ended, issued, answers>>

(* ... and its compare-and-swap; a round that loses reads again             *)
Swap(p) ==
    /\ op[p].pc = "swap"
    /\ IF Active(row, op[p].at) /\ row.gen = op[p].gen
       THEN /\ row' = Swapped(row, op[p].gen, op[p].at)
            /\ Goto(p, "write")
            /\ UNCHANGED <<issued, answers>>
       ELSE /\ UNCHANGED row
            /\ IF op[p].tries = 1 THEN Reply(p, "invalid")
               ELSE /\ op' = [op EXCEPT ![p].pc = "rotate", ![p].tries = @ - 1]
                    /\ UNCHANGED <<issued, answers>>
    /\ UNCHANGED <<now, userAuth, cache, begun, faults, ended>>

-----------------------------------------------------------------------------
(* The revocations: RevokeUserSession, RevokeUserSessionByRefreshHash and   *)
(* revokeUserSessions with this session among its candidates. A refresh     *)
(* comes here when the user's version moved on, or for a replayed token.    *)
Possesses(p, r) ==
    op[p].kind # "logout" \/ r.gen = op[p].gen \/ (r.prev = op[p].gen /\ op[p].at <= r.until)
Refreshing(p) == op[p].kind = "refresh"
Reason(p) == IF ~Refreshing(p) THEN op[p].kind
             ELSE IF op[p].phase = "load" THEN "user_security_changed" ELSE "refresh_reuse"

(* Someone is told that the session is gone; a tombstone seals that         *)
Gone(how) ==
    ended' = [how |-> IF "sealed" \in {how, ended.how} THEN "sealed" ELSE how,
              at |-> IF ended.how = "open" THEN now ELSE ended.at]

Candidate(p) ==
    /\ op[p].pc = "candidate"
    /\ IF Active(row, op[p].at) /\ Possesses(p, row)
       THEN /\ op' = [op EXCEPT ![p].pc = "fence", ![p].snap = row]
            /\ UNCHANGED <<issued, answers, ended>>
       ELSE /\ Reply(p, IF Refreshing(p) THEN "rejected" ELSE "ok")
            /\ IF row.status = "active" THEN UNCHANGED ended ELSE Gone("loose")
    /\ UNCHANGED <<now, row, userAuth, cache, begun, faults>>

(* The deny fence goes up before the row changes, or nothing happens        *)
Fence(p) ==
    /\ op[p].pc = "fence"
    /\ \/ /\ ~RefusesDeny(op[p].snap)
          /\ cache' = Deny("revoking", op[p].snap)
          /\ Goto(p, "kill")
          /\ UNCHANGED <<faults, issued, answers>>
       \/ /\ (RefusesDeny(op[p].snap) /\ UNCHANGED faults) \/ RedisFails
          /\ Reply(p, IF Refreshing(p) /\ op[p].phase = "load" THEN "rejected" ELSE "error")
          /\ UNCHANGED cache
    /\ UNCHANGED <<now, row, userAuth, begun, ended>>

(* The bulk revocation carries on with the row as it locked it. A row that  *)
(* another revocation has ended is acknowledged as it is.                   *)
Kill(p) ==
    /\ op[p].pc = "kill"
    /\ IF row.status = "active"
       THEN /\ row' = [row EXCEPT !.status = "revoked", !.why = Reason(p)]
            /\ op' = [op EXCEPT ![p].pc = "tombstone",
                                ![p].snap = IF op[p].kind = "bulk" THEN row ELSE @]
            /\ UNCHANGED <<issued, answers, ended>>
       ELSE /\ UNCHANGED row
            /\ IF op[p].kind = "bulk"
               THEN Goto(p, "candidate") /\ UNCHANGED <<issued, answers, ended>>
               ELSE /\ Reply(p, IF op[p].phase = "rotate" THEN "error"
                                ELSE IF Refreshing(p) THEN "rejected" ELSE "ok")
                    /\ IF op[p].phase = "rotate" THEN UNCHANGED ended ELSE Gone("loose")
    /\ UNCHANGED <<now, userAuth, cache, begun, faults>>

(* The tombstone's own failure is only logged: the caller is told that the  *)
(* session is gone                                                          *)
Acknowledge(p, how) ==
    /\ Gone(how)
    /\ IF op[p].kind = "bulk" THEN Goto(p, "candidate") /\ UNCHANGED <<issued, answers>>
       ELSE Reply(p, IF Refreshing(p) THEN "rejected" ELSE "ok")

Tombstone(p) ==
    /\ op[p].pc = "tombstone"
    /\ \/ /\ ~RefusesDeny(op[p].snap)
          /\ cache' = Deny("revoked", op[p].snap)
          /\ Acknowledge(p, "sealed")
          /\ UNCHANGED faults
       \/ /\ (RefusesDeny(op[p].snap) /\ UNCHANGED faults) \/ RedisFails
          /\ Acknowledge(p, "loose")
          /\ UNCHANGED cache
    /\ UNCHANGED <<now, row, userAuth, begun>>

-----------------------------------------------------------------------------
Tick ==
    /\ now < MaxTime /\ now' = now + 1
    /\ cache' = IF cache.exp > now + 1 THEN cache ELSE NoEntry
    /\ UNCHANGED <<row, userAuth, op, issued, answers, begun, faults, ended>>

Step(p) ==
    \/ ReadCache(p) \/ ReadRow(p) \/ WriteActive(p) \/ Written(p) \/ Confirm(p)
    \/ Validate(p) \/ Bump(p) \/ Advance(p) \/ StartRotation(p) \/ Rotate(p) \/ Swap(p)
    \/ Candidate(p) \/ Fence(p) \/ Kill(p) \/ Tombstone(p)

(* No request is left and nothing more is asked of the session              *)
Done == begun = MaxOps /\ (\A p \in Procs : op[p].pc \in {"idle", "done"}) /\ UNCHANGED vars

Next ==
    \/ \E p \in Procs : BeginAccess(p) \/ BeginRefresh(p) \/ BeginRevoke(p) \/ Step(p)
    \/ Tick \/ Done

Spec == Init /\ [][Next]_vars

-----------------------------------------------------------------------------
(* Every variable keeps its type; versions and generations start at 1, and  *)
(* Redis holds nothing that has expired.                                    *)
TypeOK ==
    /\ now \in 0..MaxTime /\ begun \in 0..MaxOps /\ faults \in 0..MaxFaults
    /\ row \in [status : {"active", "revoked"}, ver : Nat \ {0}, auth : Nat \ {0},
                gen : Nat \ {0}, prev : Nat, until : Nat,
                why : Kinds \cup {"none", "user_security_changed", "refresh_reuse"}]
    /\ userAuth \in Nat \ {0}
    /\ cache \in [st : {"none", "active", "revoking", "revoked"}, ver : Nat, auth : Nat, exp : Nat]
    /\ cache.st = "none" \/ cache.exp > now
    /\ issued \subseteq [ver : Nat \ {0}, auth : Nat \ {0}]
    /\ answers \subseteq Nat \X Nat
    /\ ended \in [how : {"open", "loose", "sealed"}, at : Nat]
    /\ \A p \in Procs :
          /\ op[p].pc \in {"idle", "load", "read", "write", "written", "confirm", "loaded", "bump", "advance",
                           "rotate", "swap", "candidate", "fence", "kill", "tombstone", "done"}
          /\ op[p].res \in {"none", "accepted", "rejected", "invalid", "race", "error", "ok"}
          /\ op[p].tries \in 0..3

(* Once a revocation has been acknowledged and its tombstone written, no    *)
(* request that starts later is let in with the session, however the reads, *)
(* fills and expiries of other requests fall around the fence, the row and  *)
(* the tombstone. Where the tombstone failed, and for a revocation that only *)
(* found the row revoked already, the session may come through the cache    *)
(* for one cache lifetime and no longer (GetUserSessionCached and the       *)
(* deadline of its snapshot, against RevokeUserSession, the logout by       *)
(* refresh token and revokeUserSessions).                                   *)
RevokedStaysOut ==
    \A p \in Procs : op[p].res = "accepted" =>
        \/ op[p].after = "open"
        \/ op[p].after = "loose" /\ op[p].born < ended.at + TTL

(* A rotation that lost its race finds the winner's generation to be the    *)
(* one after its own: the presented token is answered with its successor,   *)
(* runs out of rounds never, and AUTH_REFRESH_RACE is not an answer the     *)
(* server gives (RotateUserSessionRefresh, RefreshLoginSession).            *)
LoserIsRecovered ==
    \A p \in Procs : op[p].res # "race" /\ (op[p].pc = "swap" => op[p].tries > 1)

(* What the comment of AdvanceUserSessionAuthVersion says: the session that *)
(* makes a security change is preserved across it. Nobody else ends it      *)
(* because of the very change that is being made.                           *)
AdvancePreservesSession ==
    \A p \in Procs : op[p].pc = "advance" => row.why # "user_security_changed"

(* The table, seen as the chain of refresh tokens *)
Store == INSTANCE SessionStore WITH
    row <- [status |-> IF row.status = "active" THEN "active" ELSE "over",
            gen |-> row.gen,
            open |-> row.prev > 0 /\ now <= row.until]

(* However the requests interleave, the table and the answers the clients   *)
(* get are a behaviour of SessionStore: a generation follows the one before *)
(* it, an answer is the successor of what was presented and is already in   *)
(* the table, and an ended session neither rotates nor comes back.          *)
StoreSpec == Store!Spec
=============================================================================
