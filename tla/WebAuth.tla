------------------------------ MODULE WebAuth ------------------------------
(***************************************************************************)
(* The browser's side of a login: the tabs of one profile, each with its    *)
(* credentials in memory, one refresh at a time and one user action at a    *)
(* time; the cookie they share, which a response changes when it arrives,   *)
(* whatever the tab then does with the body; the Web Lock around refreshes; *)
(* and the messages by which tabs announce logins and logouts. The server   *)
(* answers a request in one step (its own concurrency is UserSession's).    *)
(***************************************************************************)
EXTENDS RefreshChain, Sequences, SequencesExt, FiniteSets

CONSTANTS Tabs,
          Locks,       \* navigator.locks exists
          MaxLogins,   \* sessions in all, the one of an earlier visit included
          MaxActs,     \* things the user does
          MaxRefresh,  \* refreshes that tabs start for themselves
          MaxFaults    \* requests or responses that are lost, or answered 5xx

ASSUME WebAssumption ==
    /\ Locks \in BOOLEAN /\ MaxLogins \in Nat \ {0}
    /\ MaxActs \in Nat /\ MaxRefresh \in Nat /\ MaxFaults \in Nat
    /\ IsFiniteSet(Tabs)

VARIABLES rows,     \* the server's sessions
          ver,      \* the session version an access token must carry
          jar,      \* the refresh cookie of the profile
          tab, queue, lock, acts, started, faults,
          adrift,   \* refresh cookies sent by pages that are gone
          left,     \* ended sessions that a tab has put away
          lost, reused

vars == <<rows, ver, jar, tab, queue, lock, acts, started, faults, adrift, left, lost, reused>>
server == <<rows, ver, reused>>
budget == <<acts, started, faults>>

Sids == 1..MaxLogins
NoRow == [NewRow EXCEPT !.status = "none"]
NoCookie == [sid |-> 0, gen |-> 0]
NoReply == [kind |-> "none", sid |-> 0, ver |-> 0, cookie |-> "keep", gen |-> 0]
NoRef == [pc |-> "none", current |-> FALSE, again |-> FALSE, expect |-> 0,
          sent |-> NoCookie, reply |-> NoReply]
NoAct == [op |-> "none", pc |-> "none", again |-> FALSE, sid |-> 0, ver |-> 0, fresh |-> FALSE,
          sent |-> NoCookie, reply |-> NoReply]

(* refreshAuthentication: a tab has one refresh, which later callers join   *)
NewRef == [NoRef EXCEPT !.pc = "lock", !.current = TRUE, !.again = TRUE]
WithRefresh(w) == IF w.ref.pc = "none" THEN [w EXCEPT !.ref = NewRef] ELSE w

(* A page that has just been loaded bootstraps before it shows anything     *)
NewTab == [sid |-> 0, ver |-> 0, fresh |-> FALSE, boot |-> "checking", ref |-> NewRef, act |-> NoAct]

Init ==
    /\ rows = [s \in Sids |-> IF s = 1 THEN NewRow ELSE NoRow]
    /\ ver = [s \in Sids |-> 1]
    /\ jar = [sid |-> 1, gen |-> 1]
    /\ tab = [t \in Tabs |-> NewTab]
    /\ queue = [t \in Tabs |-> <<>>]
    /\ lock \in SetToSeqs(Tabs)
    /\ acts = 0 /\ started = 0 /\ faults = 0
    /\ adrift = {} /\ left = [t \in Tabs |-> {}] /\ lost = FALSE /\ reused = FALSE

-----------------------------------------------------------------------------
(* The store and authEpoch. Every setBundle and reset but the one of a      *)
(* session mismatch makes a refresh under way stale.                        *)
Superseded(w) == [w EXCEPT !.ref.current = FALSE]
Reset(w, boot) == [w EXCEPT !.sid = 0, !.ver = 0, !.fresh = FALSE, !.boot = boot]
ApplyAuthBundleSameEpoch(w, r) ==
    [w EXCEPT !.sid = r.sid, !.ver = r.ver, !.fresh = TRUE, !.boot = "complete"]
ApplyAuthBundle(w, r) ==
    Superseded([w EXCEPT !.sid = r.sid, !.ver = r.ver, !.fresh = TRUE, !.boot = "complete"])
ClearAuthenticationSameEpoch(w) == Reset(w, "complete")
ClearAuthentication(w) == Superseded(Reset(w, "complete"))

Publish(t, kind, sid) ==
    queue' = [u \in Tabs |-> IF u # t /\ sid # 0 THEN Append(queue[u], [kind |-> kind, sid |-> sid])
                             ELSE queue[u]]

(* A tab puts its session away, knowing or not knowing that it is over      *)
PutAway(t, sid) ==
    left' = IF sid # 0 /\ rows[sid].status = "over" THEN [left EXCEPT ![t] = @ \cup {sid}] ELSE left

(* The lock is held by the first tab in line; a tab stands there as long as *)
(* its refresh runs                                                         *)
LineKept(t, w) ==
    lock' = IF w.ref.pc = "none" \/ t \in ToSet(lock) THEN lock ELSE Append(lock, t)
Line(t, w) ==
    lock' = IF w.ref.pc = "none" THEN RemoveFirst(lock, t)
            ELSE IF t \in ToSet(lock) THEN lock ELSE Append(lock, t)
MayAlways(t) == TRUE
May(t) == ~Locks \/ Head(lock) = t

Become(t, w) == tab' = [tab EXCEPT ![t] = w] /\ Line(t, w)

(* window.location.reload or replace: the page and what it waits for are    *)
(* gone; a refresh may still reach the server, but no answer to it changes  *)
(* the cookie any more, and other requests are gone with the page           *)
Reload(t, w) ==
    /\ tab' = [tab EXCEPT ![t] = NewTab]
    /\ lock' = Append(RemoveFirst(lock, t), t)
    /\ adrift' = IF w.ref.pc = "asked" /\ w.ref.sent # NoCookie THEN adrift \cup {w.ref.sent} ELSE adrift
    /\ lost' = (lost \/ w.ref.pc \in {"asked", "answered"})
Stay(t, w) == Become(t, w) /\ UNCHANGED <<adrift, lost>>

-----------------------------------------------------------------------------
(* The server. Refresh: RefreshAuth and RefreshLoginSession                 *)
RefreshedRow(r, g) ==
    IF Current(r, g) THEN Rotated(r) ELSE IF Replayed(r, g) THEN Ended(r) ELSE r

Bare(kind, cookie) == [NoReply EXCEPT !.kind = kind, !.cookie = cookie]
RefreshReply(expect, c) ==
    CASE c = NoCookie -> Bare("401", "clear")
      [] c # NoCookie /\ expect \notin {0, c.sid} -> Bare("mismatch", "keep")
      [] c # NoCookie /\ expect \in {0, c.sid} ->
            IF Current(rows[c.sid], c.gen) \/ Recoverable(rows[c.sid], c.gen)
            THEN [kind |-> "ok", sid |-> c.sid, ver |-> ver[c.sid], cookie |-> "set", gen |-> c.gen + 1]
            ELSE Bare("401", "clear")

ServerRefreshes(expect, c) ==
    IF c = NoCookie \/ expect \notin {0, c.sid} THEN UNCHANGED <<rows, reused>>
    ELSE /\ rows' = [rows EXCEPT ![c.sid] = RefreshedRow(@, c.gen)]
         /\ reused' = (reused \/ Replayed(rows[c.sid], c.gen))

ServeRefresh(t) ==
    /\ tab[t].ref.pc = "asked"
    /\ ServerRefreshes(tab[t].ref.expect, tab[t].ref.sent)
    /\ tab' = [tab EXCEPT ![t].ref = [@ EXCEPT !.pc = "answered", !.expect = 0, !.sent = NoCookie,
                                               !.reply = RefreshReply(tab[t].ref.expect, tab[t].ref.sent)]]
    /\ UNCHANGED <<ver, jar, queue, lock, budget, adrift, left, lost>>

ServeAdrift(c) ==
    /\ adrift' = adrift \ {c}
    /\ ServerRefreshes(0, c)
    /\ UNCHANGED <<ver, jar, tab, queue, lock, budget, left, lost>>

(* A user action is answered; its own request is forgotten                  *)
Answer(t, r) ==
    tab' = [tab EXCEPT ![t].act = [NoAct EXCEPT !.op = tab[t].act.op, !.pc = "answered",
                                                     !.again = tab[t].act.again, !.reply = r]]

(* AuthLogout: the session of the access token, or that of the cookie       *)
LogoutMismatch(a) == a.sid # 0 /\ a.sent # NoCookie /\ a.sent.sid # a.sid
LogoutSid(a) == IF a.fresh THEN a.sid
                ELSE IF a.sent # NoCookie /\ (Current(rows[a.sent.sid], a.sent.gen)
                                               \/ Recoverable(rows[a.sent.sid], a.sent.gen))
                THEN a.sent.sid ELSE 0
TokenValid(a) == a.sid # 0 /\ a.fresh /\ rows[a.sid].status = "active" /\ ver[a.sid] = a.ver

ServeLogout(t) == LET a == tab[t].act IN
    /\ a.pc = "asked" /\ a.op = "logout"
    /\ rows' = IF LogoutMismatch(a) \/ LogoutSid(a) = 0 THEN rows
               ELSE [rows EXCEPT ![LogoutSid(a)] = Ended(@)]
    /\ Answer(t, IF LogoutMismatch(a) THEN Bare("mismatch", "keep")
                 ELSE Bare("ok", IF ~a.fresh \/ a.sent # NoCookie THEN "clear" ELSE "keep"))
    /\ UNCHANGED <<ver, jar, queue, lock, budget, adrift, left, lost, reused>>

(* A login creates a session; a security change advances the version of its *)
(* own; any other request only asks whether the token is good               *)
ServeLogin(t) == \E s \in Sids :
    /\ tab[t].act.pc = "asked" /\ tab[t].act.op = "login"
    /\ rows[s] = NoRow /\ \A u \in 1..(s - 1) : rows[u] # NoRow
    /\ rows' = [rows EXCEPT ![s] = NewRow]
    /\ Answer(t, [kind |-> "ok", sid |-> s, ver |-> ver[s], cookie |-> "set", gen |-> 1])
    /\ UNCHANGED <<ver, jar, queue, lock, budget, adrift, left, lost, reused>>

ServeCall(t) == LET a == tab[t].act IN
    /\ a.pc = "asked" /\ a.op \in {"api", "security"}
    /\ ver' = IF TokenValid(a) /\ a.op = "security" THEN [ver EXCEPT ![a.sid] = @ + 1] ELSE ver
    /\ Answer(t, IF TokenValid(a) THEN [NoReply EXCEPT !.kind = "ok", !.sid = a.sid, !.ver = ver'[a.sid]]
                 ELSE Bare("401", "keep"))
    /\ UNCHANGED <<rows, jar, queue, lock, budget, adrift, left, lost, reused>>

(* Another device ends a session; the replay window of one closes           *)
RevokeElsewhere(s) ==
    /\ rows[s].status = "active" /\ rows' = [rows EXCEPT ![s] = Ended(@)]
    /\ UNCHANGED <<ver, jar, tab, queue, lock, budget, adrift, left, lost, reused>>
CloseWindow(s) ==
    /\ rows[s].open /\ rows' = [rows EXCEPT ![s] = Closed(@)]
    /\ UNCHANGED <<ver, jar, tab, queue, lock, budget, adrift, left, lost, reused>>

(* What the browser does with a response before the page sees it            *)
SetCookie(r) == jar' = CASE r.cookie = "set" -> [sid |-> r.sid, gen |-> r.gen]
                         [] r.cookie = "clear" -> NoCookie
                         [] r.cookie = "keep" -> jar

-----------------------------------------------------------------------------
(* The promise of a refresh resolves; who waited for it goes on             *)
Settle(w, outcome) ==
    LET v == [w EXCEPT !.ref = NoRef] IN
    IF v.act.pc # "waiting" THEN v
    ELSE IF outcome = "authenticated" THEN [v EXCEPT !.act.pc = "send", !.act.again = FALSE]
    ELSE IF outcome = "anonymous" /\ v.act.op = "logout"
         THEN [ClearAuthentication(v) EXCEPT !.act = NoAct]
    ELSE [v EXCEPT !.act = NoAct]

(* A call whose refresh found nobody signed in redirects to the sign-in     *)
(* page, which is a new page unless the tab is there already                *)
Redirects(w, outcome) ==
    w.act.pc = "waiting" /\ w.act.op # "logout" /\ outcome \in {"anonymous", "out_of_sync"}
Settled(t, w, outcome) ==
    \/ Stay(t, Settle(w, outcome))
    \/ Redirects(w, outcome) /\ Reload(t, Settle(w, outcome))

(* createRefreshRunner: each round first asks whether it is still current   *)
SendRefresh(t) == LET w == tab[t] IN
    /\ w.ref.pc = "lock" /\ May(t)
    /\ IF w.ref.current
       THEN Stay(t, [w EXCEPT !.ref.pc = "asked", !.ref.expect = w.sid, !.ref.sent = jar])
       ELSE Stay(t, Settle(w, "transient"))
    /\ UNCHANGED <<server, jar, queue, budget, left>>

(* ... and so does the answer, whose cookie is in place by then. Nothing    *)
(* the server says here takes the runner to its last branch, out_of_sync.   *)
StillCurrent(w) == w.ref.current

ArriveRefresh(t) == LET w == tab[t] r == tab[t].ref.reply IN
    /\ w.ref.pc = "answered"
    /\ SetCookie(r)
    /\ \/ /\ ~StillCurrent(w)
          /\ Settled(t, w, "transient")
          /\ UNCHANGED <<queue, left>>
       \/ /\ StillCurrent(w) /\ r.kind = "ok"
          /\ Settled(t, ApplyAuthBundle(w, r), "authenticated")
          /\ UNCHANGED <<queue, left>>
       \/ /\ StillCurrent(w) /\ r.kind = "mismatch" /\ w.ref.again
          /\ Stay(t, [Reset(w, "idle") EXCEPT !.ref.pc = "lock", !.ref.again = FALSE,
                                             !.ref.reply = NoReply])
          /\ PutAway(t, w.sid) /\ UNCHANGED queue
       \/ /\ StillCurrent(w) /\ r.kind = "401"
          /\ Publish(t, "signed_out", w.sid)
          /\ PutAway(t, w.sid)
          /\ Settled(t, ClearAuthentication(w), "anonymous")
    /\ UNCHANGED <<server, budget>>

(* Lost on the way, or answered 5xx: the tab may try again later            *)
FailRefresh(t) == LET w == tab[t] IN
    /\ w.ref.pc \in {"asked", "answered"} /\ faults < MaxFaults
    /\ faults' = faults + 1
    /\ lost' = (lost \/ w.ref.reply.cookie = "set")
    /\ Become(t, Settle(IF w.ref.current THEN [w EXCEPT !.boot = "idle"] ELSE w, "transient"))
    /\ UNCHANGED <<server, jar, queue, acts, started, adrift, left>>

-----------------------------------------------------------------------------
(* The user: signing in is for tabs without a session                       *)
Free(t) == tab[t].act = NoAct /\ acts < MaxActs /\ acts' = acts + 1
Begin(t, act) ==
    /\ tab' = [tab EXCEPT ![t].act = act]
    /\ UNCHANGED <<server, jar, queue, lock, started, faults, adrift, left, lost>>

(* From the sign-in form, or from an OAuth page, which does not mind that   *)
(* the tab has a session                                                    *)
BeginLogin(t) ==
    /\ Free(t) /\ tab[t].boot # "checking"
    /\ Cardinality({s \in Sids : rows[s] = NoRow}) >
       Cardinality({u \in Tabs : tab[u].act.op = "login" /\ tab[u].act.pc = "asked"})
    /\ Begin(t, [NoAct EXCEPT !.op = "login", !.pc = "asked"])
BeginLogout(t) == Free(t) /\ Begin(t, [NoAct EXCEPT !.op = "logout", !.pc = "send", !.again = TRUE])
BeginSecurity(t) ==
    /\ Free(t) /\ tab[t].sid # 0
    /\ Begin(t, [NoAct EXCEPT !.op = "security", !.pc = "send", !.again = TRUE])

(* The axios interceptor meets a 401, of a request sent with any earlier    *)
(* token; a navigation meets a token that has run out                       *)
Starts(t) == IF tab[t].ref.pc = "none" THEN started < MaxRefresh /\ started' = started + 1
             ELSE UNCHANGED started
Unauthorized(t) ==
    /\ Free(t) /\ Starts(t)
    /\ Become(t, [WithRefresh(tab[t]) EXCEPT !.act = [NoAct EXCEPT !.op = "api", !.pc = "waiting"]])
    /\ UNCHANGED <<server, jar, queue, faults, adrift, left, lost>>
Navigate(t) == LET w == tab[t] IN
    /\ ~(w.sid # 0 /\ w.fresh) /\ ~(w.boot = "complete" /\ w.sid = 0)
    /\ Starts(t)
    /\ Become(t, [WithRefresh(w) EXCEPT !.boot = "checking"])
    /\ UNCHANGED <<server, jar, queue, acts, faults, adrift, left, lost>>
Expire(t) ==
    /\ tab[t].fresh /\ tab' = [tab EXCEPT ![t].fresh = FALSE]
    /\ UNCHANGED <<server, jar, queue, lock, budget, adrift, left, lost>>

SendAct(t) == LET w == tab[t] IN
    /\ w.act.pc = "send"
    /\ tab' = [tab EXCEPT ![t].act = [@ EXCEPT !.pc = "asked", !.sid = w.sid, !.ver = w.ver,
                                               !.fresh = w.fresh, !.sent = jar]]
    /\ UNCHANGED <<server, jar, queue, lock, budget, adrift, left, lost>>

(* A login is announced unless the tab has the session already; a rotation  *)
(* that came with a security change is for the session it was asked by      *)
HandleLoginSuccess(t, w, r) ==
    /\ Publish(t, "authenticated", IF r.sid = w.sid THEN 0 ELSE r.sid)
    /\ Stay(t, ApplyAuthBundle(w, r))
ApplyAuthRotation(w, r) == IF w.sid = r.sid THEN ApplyAuthBundle(w, r) ELSE w

(* The end of executeLogout                                                 *)
FinishLogout(t, w) ==
    /\ Publish(t, "signed_out", w.sid)
    /\ PutAway(t, w.sid)
    /\ Stay(t, ClearAuthentication(w))

Waits(w) == WithRefresh([w EXCEPT !.act = [NoAct EXCEPT !.op = w.act.op, !.pc = "waiting"]])

Finished(a) == (a.op = "api" /\ a.reply.kind = "ok") \/ (a.reply.kind = "mismatch" /\ ~a.again)

ArriveAct(t) == LET w == tab[t] r == tab[t].act.reply done == [tab[t] EXCEPT !.act = NoAct] IN
    /\ w.act.pc = "answered"
    /\ SetCookie(r)
    /\ \/ /\ w.act.op = "login"
          /\ HandleLoginSuccess(t, done, r)
          /\ UNCHANGED left
       \/ /\ w.act.op = "logout" /\ r.kind = "ok"
          /\ FinishLogout(t, done)
       \/ /\ w.act.op = "security" /\ r.kind = "ok"
          /\ Stay(t, ApplyAuthRotation(done, r))
          /\ UNCHANGED <<queue, left>>
       \/ /\ Finished(w.act)
          /\ Stay(t, done)
          /\ UNCHANGED <<queue, left>>
       \/ /\ r.kind \in {"mismatch", "401"} /\ w.act.again
          /\ Stay(t, Waits(w))
          /\ UNCHANGED <<queue, left>>
       \/ /\ r.kind = "401" /\ ~w.act.again
          /\ PutAway(t, w.sid)
          /\ Stay(t, ClearAuthentication(done)) \/ Reload(t, ClearAuthentication(done))
          /\ UNCHANGED queue
    /\ UNCHANGED <<server, budget>>

FailAct(t) ==
    /\ tab[t].act.pc \in {"asked", "answered"} /\ faults < MaxFaults
    /\ faults' = faults + 1
    /\ tab' = [tab EXCEPT ![t].act = NoAct]
    /\ UNCHANGED <<server, jar, queue, lock, acts, started, adrift, left, lost>>

(* The listener of RootLayout; every message is younger than its 60 seconds *)
Deliver(t) == LET w == tab[t] e == Head(queue[t]) IN
    /\ queue[t] # <<>>
    /\ queue' = [queue EXCEPT ![t] = Tail(@)]
    /\ \/ /\ e.kind = "authenticated" /\ e.sid # w.sid
          /\ Reload(t, w)
          /\ PutAway(t, w.sid)
       \/ /\ e.kind = "signed_out" /\ e.sid = w.sid
          /\ Stay(t, ClearAuthentication(w))
          /\ PutAway(t, w.sid)
       \/ /\ (e.kind = "authenticated") = (e.sid = w.sid)
          /\ UNCHANGED <<tab, lock, adrift, lost, left>>
    /\ UNCHANGED <<server, jar, budget>>

-----------------------------------------------------------------------------
Page(t) ==
    \/ SendRefresh(t) \/ ServeRefresh(t) \/ ArriveRefresh(t) \/ FailRefresh(t)
    \/ BeginLogin(t) \/ BeginLogout(t) \/ BeginSecurity(t) \/ Unauthorized(t) \/ Navigate(t)
    \/ Expire(t) \/ SendAct(t) \/ ServeLogin(t) \/ ServeLogout(t) \/ ServeCall(t)
    \/ ArriveAct(t) \/ FailAct(t) \/ Deliver(t)

(* Nothing runs, waits or is on its way. Where no step is left, it is here: *)
(* no tab waits for an answer, a lock or a refresh that will not come.      *)
Rest ==
    /\ \A t \in Tabs : tab[t].ref.pc = "none" /\ tab[t].act = NoAct /\ queue[t] = <<>>
    /\ UNCHANGED vars

Next ==
    \/ \E t \in Tabs : Page(t)
    \/ Rest
    \/ \E s \in Sids : RevokeElsewhere(s) \/ CloseWindow(s)
    \/ \E c \in adrift : ServeAdrift(c)

Spec == Init /\ [][Next]_vars

-----------------------------------------------------------------------------
(* Every variable keeps its type; the line for the lock is the tabs whose   *)
(* refresh runs.                                                            *)
TypeOK ==
    /\ rows \in [Sids -> Rows \cup {NoRow}] /\ ver \in [Sids -> Nat]
    /\ jar \in [sid : 0..MaxLogins, gen : Nat]
    /\ ToSet(lock) = {t \in Tabs : tab[t].ref.pc # "none"} /\ IsInjective(lock)
    /\ \A t \in Tabs :
          /\ tab[t].sid \in 0..MaxLogins /\ tab[t].boot \in {"idle", "checking", "complete"}
          /\ tab[t].ref.pc \in {"none", "lock", "asked", "answered"}
          /\ tab[t].act.pc \in {"none", "send", "asked", "answered", "waiting"}
          /\ tab[t].act.pc = "waiting" => tab[t].ref.pc # "none"

(* A tab that has put an ended session away, because its user signed out    *)
(* there, because another tab announced it or because the server refused    *)
(* it, never shows that session again, whatever answers to earlier          *)
(* refreshes still arrive (isCurrent in createRefreshRunner).               *)
SignedOutStaysOut == \A t \in Tabs : tab[t].sid \notin left[t]

(* While a tab keeps its session, its credentials do not go back to an      *)
(* older version of it: the answer to a refresh that a security change of   *)
(* the same tab overtook is dropped (authEpoch). Only the answer to an      *)
(* earlier security change, which has no such check, may arrive too late.   *)
CredentialsMoveForward ==
    [][\A t \in Tabs : tab'[t].sid = tab[t].sid /\ tab'[t].ver < tab[t].ver =>
            tab[t].act.op = "security" /\ tab'[t].act = NoAct]_vars

(* With Web Locks, a session is taken for stolen, and ended, only after an  *)
(* answer that carried a new cookie was lost, or a page was reloaded while  *)
(* it waited for a refresh: tabs that refresh together never present a      *)
(* token that another one has used up (performRefreshWithBrowserLock        *)
(* against RotateUserSessionRefresh).                                       *)
ReuseNeedsLoss == Locks /\ reused => lost
=============================================================================
