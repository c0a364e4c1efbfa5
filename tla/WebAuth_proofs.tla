--------------------------- MODULE WebAuth_proofs ---------------------------
(***************************************************************************)
(* Proofs about WebAuth for any number of tabs, logins, user actions and    *)
(* faults, with and without Web Locks: its types and the line for the lock, *)
(* that a tab never shows a session again that it has put away, that the    *)
(* credentials of a tab move forward, and that with Web Locks a session is  *)
(* taken for stolen only after an answer was lost.                          *)
(***************************************************************************)
EXTENDS WebAuth, SequenceTheorems, FiniteSetTheorems, TLAPS

CookieSet == {NoCookie} \cup [sid : Sids, gen : Nat]
Replies == [kind : {"none", "ok", "401", "mismatch"}, sid : 0..MaxLogins, ver : Nat,
            cookie : {"keep", "set", "clear"}, gen : Nat]
Refs == [pc : {"none", "lock", "asked", "answered"}, current : BOOLEAN, again : BOOLEAN,
         expect : 0..MaxLogins, sent : CookieSet, reply : Replies]
Acts == [op : {"none", "login", "logout", "security", "api"},
         pc : {"none", "send", "asked", "answered", "waiting"}, again : BOOLEAN,
         sid : 0..MaxLogins, ver : Nat, fresh : BOOLEAN, sent : CookieSet, reply : Replies]
Pages == [sid : 0..MaxLogins, ver : Nat, fresh : BOOLEAN, boot : {"idle", "checking", "complete"},
          ref : Refs, act : Acts]

(* A page by itself: a reply is there when it has been answered, only a     *)
(* refresh and a login bring a cookie, and what waits for a refresh waits   *)
(* for one that runs                                                        *)
RefOK(f) ==
    /\ f.reply.kind = "ok" \/ f.reply.cookie = "set" => f.reply.sid # 0
    /\ f.pc # "answered" => f.reply = NoReply
    /\ f.pc # "asked" => f.sent = NoCookie
ActOK(a) ==
    /\ a.reply.cookie = "set" => a.op = "login"
    /\ a.pc # "answered" => a.reply = NoReply
    /\ a.op = "login" => a.pc \in {"asked", "answered"}
    /\ a.op = "login" /\ a.pc = "answered" => a.reply.kind = "ok" /\ a.reply.sid # 0
    /\ a.op = "security" /\ a.reply.kind = "ok" => a.reply.sid # 0
PageOK(w) ==
    /\ w \in Pages
    /\ RefOK(w.ref) /\ ActOK(w.act)
    /\ w.act.pc = "waiting" => w.ref.pc # "none"
    /\ w.sid = 0 => w.ver = 0

(* A page among the sessions rs and their versions vs, lf the sessions it   *)
(* has put away                                                             *)
Known(r, vs) == r.kind = "ok" /\ r.sid # 0 => r.ver <= vs[r.sid]
Safe(w, lf, rs, vs) ==
    /\ lf \subseteq {s \in Sids : rs[s].status = "over"}
    /\ w.sid \notin lf
    /\ w.sid # 0 => w.ver <= vs[w.sid]
    /\ Known(w.ref.reply, vs) /\ Known(w.act.reply, vs)
    /\ w.ref.pc = "answered" /\ w.ref.current /\ w.ref.reply.kind = "ok" =>
          /\ w.ref.reply.sid \notin lf
          /\ w.ref.reply.sid = w.sid => w.ver <= w.ref.reply.ver

ServerOK == rows \in [Sids -> Rows \cup {NoRow}] /\ ver \in [Sids -> Nat]
BrowserOK == jar \in CookieSet /\ adrift \subseteq [sid : Sids, gen : Nat] /\ left \in [Tabs -> SUBSET Sids]
LineOK ==
    /\ lock \in Seq(Tabs) /\ IsInjective(lock)
    /\ ToSet(lock) = {t \in Tabs : tab[t].ref.pc # "none"}
PagesOK ==
    /\ tab \in [Tabs -> Pages]
    /\ \A t \in Tabs : PageOK(tab[t]) /\ Safe(tab[t], left[t], rows, ver)

(* The session of a login that has not reached its tab is known nowhere     *)
SeenBy(w, lf) == {w.sid, w.ref.sent.sid, w.ref.reply.sid} \cup lf
Seen == {jar.sid} \cup {c.sid : c \in adrift} \cup UNION {SeenBy(tab[t], left[t]) : t \in Tabs}
Pending(w) == w.act.op = "login" /\ w.act.pc = "answered"
LoginsOK ==
    /\ \A s \in Sids : rows[s] = NoRow => s \notin Seen
    /\ \A t \in Tabs : Pending(tab[t]) =>
          /\ tab[t].act.reply.sid \notin Seen
          /\ rows[tab[t].act.reply.sid] # NoRow
          /\ rows[tab[t].act.reply.sid].gen = tab[t].act.reply.gen
    /\ \A t, u \in Tabs : t # u /\ Pending(tab[t]) /\ Pending(tab[u]) =>
          tab[t].act.reply.sid # tab[u].act.reply.sid

(* With Web Locks, and as long as no answer was lost, one tab at a time has *)
(* a refresh under way, and the cookie is the newest of its session or is   *)
(* about to be replaced                                                     *)
Fresh(c, rs) == c.sid = 0 \/ rs[c.sid].status # "active" \/ c.gen = rs[c.sid].gen
Leads(t) == lock # <<>> /\ lock[1] = t
Carries(w) == w.ref.pc = "answered" /\ w.ref.reply.cookie = "set"
InTurn ==
    /\ ~reused /\ adrift = {}
    /\ \A t \in Tabs :
          /\ tab[t].ref.pc \in {"asked", "answered"} => Leads(t)
          /\ tab[t].ref.pc = "asked" => Fresh(tab[t].ref.sent, rows)
          /\ Carries(tab[t]) => Fresh(tab[t].ref.reply, rows)
    /\ Fresh(jar, rows) \/ \E t \in Tabs : Carries(tab[t])
TurnsOK == Locks /\ ~lost => InTurn

IInv == ServerOK /\ BrowserOK /\ LineOK /\ PagesOK /\ LoginsOK /\ TurnsOK

-----------------------------------------------------------------------------
(* A tab stands in line at most once: leaving takes it out, wherever it is  *)
(* in the line, and nobody overtakes anybody.                               *)
LEMMA Leaving ==
    ASSUME NEW T, NEW s \in Seq(T), NEW e, IsInjective(s)
    PROVE  /\ RemoveFirst(s, e) \in Seq(T) /\ IsInjective(RemoveFirst(s, e))
           /\ ToSet(RemoveFirst(s, e)) = ToSet(s) \ {e}
           /\ s # <<>> /\ s[1] # e => RemoveFirst(s, e) # <<>> /\ RemoveFirst(s, e)[1] = s[1]
<1>1. CASE ~\E i \in 1..Len(s) : s[i] = e
  <2>1. RemoveFirst(s, e) = s
    BY <1>1 DEF RemoveFirst
  <2>2. e \notin ToSet(s)
    BY <1>1 DEF ToSet
  <2> QED BY <2>1, <2>2
<1>2. CASE \E i \in 1..Len(s) : s[i] = e
  <2>1. PICK i \in 1..Len(s) : s[i] = e
    BY <1>2
  <2>2. {j \in 1..Len(s) : s[j] = e} = {i}
    BY <2>1 DEF IsInjective
  <2>3. SelectInSeq(s, LAMBDA v : v = e) = i
    <3>1. Min({i}) = i
      BY <2>1 DEF Min
    <3> QED BY <2>2, <3>1 DEF SelectInSeq
  <2> DEFINE a == SubSeq(s, 1, i-1)
             b == SubSeq(s, i+1, Len(s))
             r == a \o b
  <2>4. RemoveFirst(s, e) = r
    BY <1>2, <2>3 DEF RemoveFirst, RemoveAt
  <2>5. a \in Seq(T) /\ Len(a) = i - 1 /\ \A j \in 1..(i-1) : a[j] = s[j]
    BY <2>1
  <2>6. b \in Seq(T) /\ Len(b) = Len(s) - i /\ \A j \in 1..(Len(s) - i) : b[j] = s[i + j]
    BY <2>1
  <2> HIDE DEF a, b
  <2>7. /\ r \in Seq(T) /\ Len(r) = Len(a) + Len(b)
        /\ \A j \in 1 .. Len(a) + Len(b) : r[j] = IF j <= Len(a) THEN a[j] ELSE b[j - Len(a)]
    BY <2>5, <2>6, ConcatProperties
  <2> HIDE DEF r
  <2>8. Len(r) = Len(s) - 1 /\ DOMAIN r = 1..(Len(s) - 1)
    BY <2>1, <2>5, <2>6, <2>7
  <2>9. ASSUME NEW j \in 1..(Len(s) - 1) PROVE r[j] = s[IF j < i THEN j ELSE j + 1]
    <3>1. CASE j < i
      <4>1. j \in 1..(i - 1) /\ j <= Len(a) /\ j \in 1..Len(a) + Len(b)
        BY <2>1, <2>5, <2>6, <3>1
      <4> QED BY <2>5, <2>7, <3>1, <4>1
    <3>2. CASE j >= i
      <4>1. j - (i - 1) \in 1..(Len(s) - i) /\ i + (j - (i - 1)) = j + 1
        BY <2>1, <3>2
      <4>2. b[j - (i - 1)] = s[j + 1]
        BY <2>6, <4>1
      <4>3. r[j] = b[j - (i - 1)]
        BY <2>1, <2>5, <2>6, <2>7, <3>2
      <4> QED BY <2>1, <3>2, <4>2, <4>3
    <3> QED BY <2>1, <3>1, <3>2
  <2>10. IsInjective(r)
    <3>1. SUFFICES ASSUME NEW j \in 1..(Len(s) - 1), NEW k \in 1..(Len(s) - 1), r[j] = r[k] PROVE j = k
      BY <2>8 DEF IsInjective
    <3> DEFINE up(n) == IF n < i THEN n ELSE n + 1
    <3>2. s[up(j)] = s[up(k)]
      BY <3>1, <2>9
    <3>3. up(j) \in 1..Len(s) /\ up(k) \in 1..Len(s) /\ DOMAIN s = 1..Len(s)
      BY <2>1
    <3>4. up(j) = up(k)
      <4> HIDE DEF up
      <4> QED BY <3>2, <3>3 DEF IsInjective
    <3> QED BY <3>4, <2>1
  <2>11. ToSet(r) = ToSet(s) \ {e}
    <3>1. ToSet(r) \subseteq ToSet(s) \ {e}
      BY <2>1, <2>2, <2>8, <2>9 DEF ToSet
    <3>2. ASSUME NEW x \in ToSet(s) \ {e} PROVE x \in ToSet(r)
      <4>1. PICK j \in 1..Len(s) : x = s[j]
        BY DEF ToSet
      <4>2. CASE j < i
        BY <4>1, <4>2, <2>8, <2>9 DEF ToSet
      <4>3. CASE j > i
        <5>1. j - 1 \in 1..(Len(s) - 1) /\ r[j-1] = s[j]
          BY <4>3, <2>1, <2>9
        <5> QED BY <5>1, <4>1, <2>8 DEF ToSet
      <4> QED BY <4>1, <4>2, <4>3, <2>1
    <3> QED BY <3>1, <3>2
  <2>12. ASSUME s # <<>>, s[1] # e PROVE r # <<>> /\ r[1] = s[1]
    <3>1. i > 1 /\ 1 \in 1..(Len(s) - 1)
      BY <2>1, <2>12
    <3>2. r[1] = s[1]
      BY <3>1, <2>9
    <3> QED BY <3>1, <3>2, <2>8
  <2> QED BY <2>4, <2>7, <2>10, <2>11, <2>12
<1> QED BY <1>1, <1>2

LEMMA Joining ==
    ASSUME NEW T, NEW s \in Seq(T), NEW e \in T, IsInjective(s), e \notin ToSet(s)
    PROVE  /\ Append(s, e) \in Seq(T) /\ IsInjective(Append(s, e))
           /\ ToSet(Append(s, e)) = ToSet(s) \cup {e}
           /\ s # <<>> => Append(s, e) # <<>> /\ Append(s, e)[1] = s[1]
<1> DEFINE r == Append(s, e)
<1>1. r \in Seq(T) /\ Len(r) = Len(s) + 1 /\ r[Len(s) + 1] = e /\ \A i \in 1..Len(s) : r[i] = s[i]
  BY AppendProperties
<1> HIDE DEF r
<1>2. DOMAIN r = 1..(Len(s) + 1) /\ DOMAIN s = 1..Len(s) /\ Len(s) \in Nat
  BY <1>1
<1>3. \A i \in 1..Len(s) : s[i] # e
  BY <1>2 DEF ToSet
<1>4. IsInjective(r)
  BY <1>1, <1>2, <1>3 DEF IsInjective
<1>5. ToSet(r) = ToSet(s) \cup {e}
  <2>1. ToSet(r) \subseteq ToSet(s) \cup {e}
    BY <1>1, <1>2 DEF ToSet
  <2>2. e \in ToSet(r) /\ ToSet(s) \subseteq ToSet(r)
    BY <1>1, <1>2 DEF ToSet
  <2> QED BY <2>1, <2>2
<1>6. s # <<>> => r # <<>> /\ r[1] = s[1]
  BY <1>1, <1>2
<1> QED BY <1>1, <1>4, <1>5, <1>6 DEF r

-----------------------------------------------------------------------------
(* Pages, and what the tab does to them                                     *)

LEMMA Constants == MaxLogins \in Nat /\ Sids = 1..MaxLogins /\ 0 \notin Sids
                   /\ IsFiniteSet(Tabs)
BY WebAssumption DEF Sids

LEMMA NoReplyOK == /\ NoReply \in Replies /\ NoReply.kind = "none" /\ NoReply.cookie = "keep"
                   /\ NoReply.sid = 0 /\ NoCookie \in CookieSet /\ NoCookie.sid = 0
BY Constants DEF NoReply, Replies, NoCookie, CookieSet

LEMMA NoRefOK ==
    /\ NoRef \in Refs /\ RefOK(NoRef) /\ NoRef.pc = "none" /\ NoRef.reply = NoReply /\ NoRef.sent = NoCookie
    /\ NewRef \in Refs /\ RefOK(NewRef) /\ NewRef.pc = "lock" /\ NewRef.reply = NoReply
    /\ NewRef.sent = NoCookie
<1>1. NoRef \in Refs /\ NoRef.pc = "none" /\ NoRef.reply = NoReply /\ NoRef.sent = NoCookie
  BY NoReplyOK, Constants DEF NoRef, Refs
<1>2. NewRef \in Refs /\ NewRef.pc = "lock" /\ NewRef.reply = NoReply /\ NewRef.sent = NoCookie
  BY <1>1 DEF NewRef, Refs
<1> QED BY <1>1, <1>2, NoReplyOK DEF RefOK

LEMMA NoActOK == NoAct \in Acts /\ ActOK(NoAct) /\ NoAct.op = "none" /\ NoAct.pc = "none" /\ NoAct.reply = NoReply
BY NoReplyOK, Constants DEF NoAct, Acts, ActOK

(* A page put together from parts that are in order                         *)
LEMMA Assembled ==
    ASSUME NEW w, w \in Pages, RefOK(w.ref), ActOK(w.act),
           w.act.pc = "waiting" => w.ref.pc # "none", w.sid = 0 => w.ver = 0
    PROVE  PageOK(w)
BY DEF PageOK

LEMMA Parts ==
    ASSUME NEW w, PageOK(w)
    PROVE  /\ w \in Pages /\ w.ref \in Refs /\ w.act \in Acts /\ RefOK(w.ref) /\ ActOK(w.act)
           /\ w.sid \in 0..MaxLogins /\ w.ver \in Nat /\ w.fresh \in BOOLEAN
           /\ w.ref.reply \in Replies /\ w.act.reply \in Replies
           /\ w.ref.sent \in CookieSet /\ w.act.sent \in CookieSet
           /\ w.act.pc = "waiting" => w.ref.pc # "none"
           /\ w.sid = 0 => w.ver = 0
BY DEF PageOK, Pages, Refs, Acts

LEMMA NewTabOK ==
    /\ PageOK(NewTab) /\ NewTab.ref = NewRef /\ NewTab.act = NoAct /\ NewTab.sid = 0 /\ NewTab.ver = 0
BY NoRefOK, NoActOK, Constants DEF NewTab, PageOK, Pages

LEMMA ResetOK ==
    ASSUME NEW w \in Pages, NEW b \in {"idle", "checking", "complete"}
    PROVE  LET n == Reset(w, b) IN
           n \in Pages /\ n.sid = 0 /\ n.ver = 0 /\ n.ref = w.ref /\ n.act = w.act
<1> DEFINE f == FALSE
<1>1. 0 \in 0..MaxLogins /\ 0 \in Nat /\ f \in BOOLEAN
  BY Constants
<1>2. Reset(w, b) = [w EXCEPT !.sid = 0, !.ver = 0, !.fresh = f, !.boot = b]
  BY DEF Reset
<1> HIDE DEF f
<1> QED BY <1>1, <1>2 DEF Pages

LEMMA SupersededOK ==
    ASSUME NEW w \in Pages
    PROVE  LET v == Superseded(w) IN
           /\ v \in Pages /\ v.sid = w.sid /\ v.ver = w.ver /\ v.act = w.act
           /\ v.ref = [w.ref EXCEPT !.current = FALSE]
<1> DEFINE f == [w.ref EXCEPT !.current = FALSE]
<1>1. f \in Refs
  BY DEF Pages, Refs
<1>2. Superseded(w) = [w EXCEPT !.ref = f]
  BY DEF Superseded, Pages
<1> HIDE DEF f
<1>3. /\ Superseded(w) \in Pages /\ Superseded(w).sid = w.sid /\ Superseded(w).ver = w.ver
      /\ Superseded(w).act = w.act /\ Superseded(w).ref = f
  BY <1>1, <1>2 DEF Pages
<1> QED BY <1>3 DEF f

LEMMA ClearOK ==
    ASSUME NEW w, PageOK(w)
    PROVE  LET v == ClearAuthentication(w) IN
           /\ PageOK(v) /\ v.sid = 0 /\ v.ver = 0 /\ v.act = w.act
           /\ v.ref = [w.ref EXCEPT !.current = FALSE]
<1> DEFINE v == ClearAuthentication(w)
<1>1. /\ v.sid = 0 /\ v.ver = 0 /\ v.act = w.act /\ v.ref = [w.ref EXCEPT !.current = FALSE]
      /\ v \in Pages
  <2> DEFINE n == Reset(w, "complete")
  <2>1. n \in Pages /\ n.sid = 0 /\ n.ver = 0 /\ n.act = w.act /\ n.ref = w.ref
    BY Parts, ResetOK
  <2> HIDE DEF n
  <2>2. v = Superseded(n)
    BY DEF ClearAuthentication, n
  <2> QED BY <2>1, <2>2, Parts, SupersededOK
<1>2. RefOK(v.ref) /\ v.ref.pc = w.ref.pc
  BY <1>1, Parts DEF RefOK, Refs
<1> HIDE DEF v
<1>3. PageOK(v)
  BY <1>1, <1>2, Parts, Assembled
<1> QED BY <1>1, <1>3 DEF v

LEMMA ApplyOK ==
    ASSUME NEW w, PageOK(w), NEW r \in Replies, r.sid # 0
    PROVE  LET v == ApplyAuthBundle(w, r) IN
           /\ PageOK(v) /\ v.sid = r.sid /\ v.ver = r.ver /\ v.act = w.act
           /\ v.ref = [w.ref EXCEPT !.current = FALSE]
<1> DEFINE v == ApplyAuthBundle(w, r)
<1>1. /\ v.sid = r.sid /\ v.ver = r.ver /\ v.act = w.act /\ v.ref = [w.ref EXCEPT !.current = FALSE]
      /\ v \in Pages
  <2> DEFINE n == [w EXCEPT !.sid = r.sid, !.ver = r.ver, !.fresh = TRUE, !.boot = "complete"]
  <2>1. n \in Pages /\ n.sid = r.sid /\ n.ver = r.ver /\ n.act = w.act /\ n.ref = w.ref
    <3> DEFINE f == TRUE
    <3>1. w \in Pages /\ r.sid \in 0..MaxLogins /\ r.ver \in Nat /\ f \in BOOLEAN
      BY Parts DEF Replies
    <3>2. n = [w EXCEPT !.sid = r.sid, !.ver = r.ver, !.fresh = f, !.boot = "complete"]
      OBVIOUS
    <3> HIDE DEF f, n
    <3> QED BY <3>1, <3>2 DEF Pages
  <2> HIDE DEF n
  <2>2. v = Superseded(n)
    BY DEF ApplyAuthBundle, n
  <2> QED BY <2>1, <2>2, Parts, SupersededOK
<1>2. RefOK(v.ref) /\ v.ref.pc = w.ref.pc
  BY <1>1, Parts DEF RefOK, Refs
<1> HIDE DEF v
<1>3. PageOK(v)
  BY <1>1, <1>2, Parts, Assembled
<1> QED BY <1>1, <1>3 DEF v

(* Another user action, another refresh                                     *)
LEMMA ActingOK ==
    ASSUME NEW w, PageOK(w), NEW a \in Acts, ActOK(a), a.pc = "waiting" => w.ref.pc # "none"
    PROVE  LET v == [w EXCEPT !.act = a] IN
           PageOK(v) /\ v.act = a /\ v.ref = w.ref /\ v.sid = w.sid /\ v.ver = w.ver
<1> DEFINE v == [w EXCEPT !.act = a]
<1>1. v \in Pages /\ v.act = a /\ v.ref = w.ref /\ v.sid = w.sid /\ v.ver = w.ver
  BY Parts DEF Pages
<1> HIDE DEF v
<1>2. PageOK(v)
  BY <1>1, Parts, Assembled
<1> QED BY <1>1, <1>2 DEF v

LEMMA RefreshingOK ==
    ASSUME NEW w, PageOK(w), NEW f \in Refs, RefOK(f), w.act.pc = "waiting" => f.pc # "none"
    PROVE  LET v == [w EXCEPT !.ref = f] IN
           PageOK(v) /\ v.ref = f /\ v.act = w.act /\ v.sid = w.sid /\ v.ver = w.ver
<1> DEFINE v == [w EXCEPT !.ref = f]
<1>1. v \in Pages /\ v.ref = f /\ v.act = w.act /\ v.sid = w.sid /\ v.ver = w.ver
  BY Parts DEF Pages
<1> HIDE DEF v
<1>2. PageOK(v)
  BY <1>1, Parts, Assembled
<1> QED BY <1>1, <1>2 DEF v

LEMMA BootOK ==
    ASSUME NEW w, PageOK(w), NEW b \in {"idle", "checking", "complete"}
    PROVE  LET v == [w EXCEPT !.boot = b] IN
           PageOK(v) /\ v.ref = w.ref /\ v.act = w.act /\ v.sid = w.sid /\ v.ver = w.ver
<1> DEFINE v == [w EXCEPT !.boot = b]
<1>1. v \in Pages /\ v.ref = w.ref /\ v.act = w.act /\ v.sid = w.sid /\ v.ver = w.ver
  BY Parts DEF Pages
<1> HIDE DEF v
<1>2. PageOK(v)
  BY <1>1, Parts, Assembled
<1> QED BY <1>1, <1>2 DEF v

(* Who waited for a refresh waits no longer                                 *)
LEMMA SettleOK ==
    ASSUME NEW w, PageOK(w), NEW outcome
    PROVE  LET v == Settle(w, outcome) IN
           /\ PageOK(v) /\ v.ref.pc = "none"
           /\ (v.sid = w.sid /\ v.ver = w.ver) \/ (v.sid = 0 /\ v.ver = 0)
           /\ v.act = w.act \/ (v.act.reply = NoReply /\ ~Pending(v) /\ ~Pending(w))
<1> DEFINE n == [w EXCEPT !.ref = NoRef]
           v == Settle(w, outcome)
<1>1. n \in Pages /\ n.ref = NoRef /\ n.act = w.act /\ n.sid = w.sid /\ n.ver = w.ver
  BY Parts, NoRefOK DEF Pages
<1>2. CASE w.act.pc # "waiting"
  <2>1. v = n
    BY <1>1, <1>2 DEF Settle
  <2> HIDE DEF n, v
  <2>2. PageOK(n)
    BY <1>1, <1>2, Parts, NoRefOK, Assembled
  <2> QED BY <1>1, <2>1, <2>2, NoRefOK DEF v
<1>3. CASE w.act.pc = "waiting"
  <2>0. w.act \in Acts /\ w.act.reply = NoReply /\ w.act.op # "login" /\ ActOK(w.act)
    BY <1>3, Parts DEF ActOK
  <2>1. CASE v = [n EXCEPT !.act.pc = "send", !.act.again = FALSE]
    <3> DEFINE a == [w.act EXCEPT !.pc = "send", !.again = FALSE]
    <3>1. a \in Acts /\ ActOK(a) /\ a.pc = "send" /\ a.reply = NoReply /\ a.op = w.act.op
      BY <2>0, NoReplyOK DEF Acts, ActOK
    <3>2. v = [n EXCEPT !.act = a]
      BY <1>1, <2>1 DEF Pages
    <3>3. v \in Pages /\ v.ref = NoRef /\ v.act = a /\ v.sid = w.sid /\ v.ver = w.ver
      BY <1>1, <3>1, <3>2 DEF Pages
    <3> HIDE DEF a, v
    <3>4. PageOK(v)
      BY <3>1, <3>3, Parts, NoRefOK, Assembled
    <3> QED BY <3>1, <3>3, <3>4, <2>0, NoRefOK DEF v, Pending
  <2>2. CASE v = [n EXCEPT !.act = NoAct]
    <3>1. v \in Pages /\ v.ref = NoRef /\ v.act = NoAct /\ v.sid = w.sid /\ v.ver = w.ver
      BY <1>1, <2>2, NoActOK DEF Pages
    <3> HIDE DEF v
    <3>2. PageOK(v)
      BY <3>1, Parts, NoRefOK, NoActOK, Assembled
    <3> QED BY <3>1, <3>2, <2>0, NoActOK, NoRefOK DEF v, Pending
  <2>3. CASE v = [ClearAuthentication(n) EXCEPT !.act = NoAct]
    <3> DEFINE m == Reset(n, "complete")
               f == [NoRef EXCEPT !.current = FALSE]
    <3>1. m \in Pages /\ m.ref = NoRef /\ m.act = w.act /\ m.sid = 0 /\ m.ver = 0
      BY <1>1, ResetOK
    <3> HIDE DEF m, n
    <3>2. v = [Superseded(m) EXCEPT !.act = NoAct]
      BY <2>3 DEF ClearAuthentication, m
    <3>3. f \in Refs /\ f.pc = "none" /\ RefOK(f)
      BY NoRefOK DEF Refs, RefOK
    <3> HIDE DEF f
    <3>4. Superseded(m) \in Pages /\ Superseded(m).ref = f /\ Superseded(m).sid = 0 /\ Superseded(m).ver = 0
      BY <3>1, SupersededOK DEF f
    <3>5. v \in Pages /\ v.ref = f /\ v.act = NoAct /\ v.sid = 0 /\ v.ver = 0
      BY <3>2, <3>4, NoActOK DEF Pages
    <3> HIDE DEF v
    <3>6. PageOK(v)
      BY <3>3, <3>5, NoActOK, Assembled
    <3> QED BY <3>3, <3>5, <3>6, <2>0, NoActOK DEF v, Pending
  <2> QED BY <1>1, <1>3, <2>1, <2>2, <2>3 DEF Settle
<1> QED BY <1>2, <1>3

-----------------------------------------------------------------------------
(* What stays safe                                                          *)

LEMMA Over == ASSUME NEW lf, NEW rs, lf \subseteq {s \in Sids : rs[s].status = "over"} PROVE 0 \notin lf
BY Constants

LEMMA SafeNew ==
    ASSUME NEW lf, NEW rs, NEW vs, lf \subseteq {s \in Sids : rs[s].status = "over"}
    PROVE  Safe(NewTab, lf, rs, vs)
BY Over, NewTabOK, NoRefOK, NoActOK, NoReplyOK DEF Safe, Known

LEMMA SafeClear ==
    ASSUME NEW w, NEW lf, NEW rs, NEW vs, NEW ls, PageOK(w), Safe(w, lf, rs, vs),
           ls \subseteq {s \in Sids : rs[s].status = "over"}
    PROVE  Safe(ClearAuthentication(w), ls, rs, vs)
<1> DEFINE v == ClearAuthentication(w)
<1>1. v.sid = 0 /\ v.ver = 0 /\ v.act = w.act /\ v.ref = [w.ref EXCEPT !.current = FALSE]
  BY ClearOK
<1>2. w.ref \in Refs
  BY Parts
<1>3. v.ref.reply = w.ref.reply /\ ~v.ref.current
  BY <1>1, <1>2 DEF Refs
<1> HIDE DEF v
<1> QED BY <1>1, <1>3, Over DEF Safe, v

LEMMA SafeApply ==
    ASSUME NEW w, NEW lf, NEW rs, NEW vs, PageOK(w), Safe(w, lf, rs, vs),
           NEW r \in Replies, r.sid # 0, r.kind = "ok", Known(r, vs), r.sid \notin lf
    PROVE  Safe(ApplyAuthBundle(w, r), lf, rs, vs)
<1> DEFINE v == ApplyAuthBundle(w, r)
<1>1. v.sid = r.sid /\ v.ver = r.ver /\ v.act = w.act /\ v.ref = [w.ref EXCEPT !.current = FALSE]
  BY ApplyOK
<1>2. w.ref \in Refs
  BY Parts
<1>3. v.ref.reply = w.ref.reply /\ ~v.ref.current
  BY <1>1, <1>2 DEF Refs
<1> HIDE DEF v
<1> QED BY <1>1, <1>3 DEF Safe, Known, v

LEMMA SafeSettle ==
    ASSUME NEW w, NEW lf, NEW rs, NEW vs, PageOK(w), Safe(w, lf, rs, vs), NEW outcome
    PROVE  Safe(Settle(w, outcome), lf, rs, vs)
<1> DEFINE v == Settle(w, outcome)
<1>1. /\ PageOK(v) /\ v.ref.pc = "none"
      /\ (v.sid = w.sid /\ v.ver = w.ver) \/ (v.sid = 0 /\ v.ver = 0)
      /\ v.act = w.act \/ v.act.reply = NoReply
  BY SettleOK
<1> HIDE DEF v
<1>2. v.ref.reply = NoReply
  BY <1>1, Parts DEF RefOK
<1> QED BY <1>1, <1>2, NoReplyOK, Over DEF Safe, Known, v

(* A tab changes its user action only                                       *)
LEMMA SafeAct ==
    ASSUME NEW w, NEW v, NEW lf, NEW rs, NEW vs, Safe(w, lf, rs, vs),
           v.sid = w.sid, v.ver = w.ver, v.ref = w.ref, Known(v.act.reply, vs)
    PROVE  Safe(v, lf, rs, vs)
BY DEF Safe

(* A refresh without an answer                                              *)
LEMMA SafeRef ==
    ASSUME NEW w, NEW v, NEW lf, NEW rs, NEW vs, Safe(w, lf, rs, vs),
           (v.sid = w.sid /\ v.ver = w.ver) \/ (v.sid = 0 /\ v.ver = 0),
           v.ref.reply = NoReply, Known(v.act.reply, vs)
    PROVE  Safe(v, lf, rs, vs)
BY Over, NoReplyOK DEF Safe, Known

LEMMA PutAwayOK ==
    ASSUME IInv, NEW t \in Tabs, PutAway(t, tab[t].sid)
    PROVE  \E lf : /\ left' = [left EXCEPT ![t] = lf] /\ lf \subseteq left[t] \cup {tab[t].sid}
                   /\ lf \subseteq {s \in Sids : rows[s].status = "over"}
<1>1. left \in [Tabs -> SUBSET Sids] /\ PageOK(tab[t]) /\ Safe(tab[t], left[t], rows, ver)
  BY DEF IInv, BrowserOK, PagesOK
<1>2. left[t] \subseteq {s \in Sids : rows[s].status = "over"}
  BY <1>1 DEF Safe
<1>3. tab[t].sid # 0 => tab[t].sid \in Sids
  BY <1>1, Parts, Constants
<1>4. CASE tab[t].sid # 0 /\ rows[tab[t].sid].status = "over"
  <2> DEFINE lf == left[t] \cup {tab[t].sid}
  <2>1. left' = [left EXCEPT ![t] = lf]
    BY <1>1, <1>4 DEF PutAway
  <2>2. lf \subseteq {s \in Sids : rows[s].status = "over"}
    BY <1>2, <1>3, <1>4
  <2> QED BY <2>1, <2>2
<1>5. CASE ~(tab[t].sid # 0 /\ rows[tab[t].sid].status = "over")
  <2>1. left' = [left EXCEPT ![t] = left[t]]
    BY <1>1, <1>5 DEF PutAway
  <2> QED BY <1>2, <2>1
<1> QED BY <1>4, <1>5

-----------------------------------------------------------------------------
(* The line for the lock                                                    *)
Kept(t) == \A u \in Tabs : u # t /\ Leads(u) => Leads(u)'

LEMMA LineStep ==
    ASSUME LineOK, PagesOK, NEW t \in Tabs, NEW w, PageOK(w), tab' = [tab EXCEPT ![t] = w], Line(t, w)
    PROVE  LineOK' /\ Kept(t) /\ (Leads(t) /\ w.ref.pc # "none" => Leads(t)')
<1>1. lock \in Seq(Tabs) /\ IsInjective(lock) /\ ToSet(lock) = {u \in Tabs : tab[u].ref.pc # "none"}
  BY DEF LineOK
<1>2. tab'[t] = w /\ \A u \in Tabs : u # t => tab'[u] = tab[u]
  BY DEF PagesOK
<1>3. CASE w.ref.pc = "none"
  <2>1. lock' = RemoveFirst(lock, t)
    BY <1>3 DEF Line
  <2>2. /\ lock' \in Seq(Tabs) /\ IsInjective(lock') /\ ToSet(lock') = ToSet(lock) \ {t}
        /\ lock # <<>> /\ lock[1] # t => lock' # <<>> /\ lock'[1] = lock[1]
    BY <1>1, <2>1, Leaving
  <2>3. ToSet(lock') = {u \in Tabs : tab'[u].ref.pc # "none"}
    BY <1>1, <1>2, <1>3, <2>2
  <2> QED BY <1>3, <2>2, <2>3 DEF LineOK, Kept, Leads
<1>4. CASE w.ref.pc # "none" /\ t \in ToSet(lock)
  <2>1. lock' = lock
    BY <1>4 DEF Line
  <2>2. ToSet(lock') = {u \in Tabs : tab'[u].ref.pc # "none"}
    BY <1>1, <1>2, <1>4, <2>1
  <2> QED BY <1>1, <2>1, <2>2 DEF LineOK, Kept, Leads
<1>5. CASE w.ref.pc # "none" /\ t \notin ToSet(lock)
  <2>1. lock' = Append(lock, t)
    BY <1>5 DEF Line
  <2>2. /\ lock' \in Seq(Tabs) /\ IsInjective(lock') /\ ToSet(lock') = ToSet(lock) \cup {t}
        /\ lock # <<>> => lock' # <<>> /\ lock'[1] = lock[1]
    BY <1>1, <1>5, <2>1, Joining
  <2>3. ToSet(lock') = {u \in Tabs : tab'[u].ref.pc # "none"}
    BY <1>1, <1>2, <1>5, <2>2
  <2> QED BY <2>2, <2>3 DEF LineOK, Kept, Leads
<1> QED BY <1>3, <1>4, <1>5

LEMMA LineSame ==
    ASSUME LineOK, PagesOK, NEW t \in Tabs, NEW w, tab' = [tab EXCEPT ![t] = w], lock' = lock,
           w.ref.pc = "none" <=> tab[t].ref.pc = "none"
    PROVE  LineOK' /\ Kept(t) /\ (Leads(t) => Leads(t)')
<1>1. tab'[t] = w /\ \A u \in Tabs : u # t => tab'[u] = tab[u]
  BY DEF PagesOK
<1>2. {u \in Tabs : tab'[u].ref.pc # "none"} = {u \in Tabs : tab[u].ref.pc # "none"}
  BY <1>1
<1> QED BY <1>2 DEF LineOK, Kept, Leads

LEMMA LineReload ==
    ASSUME LineOK, PagesOK, NEW t \in Tabs, tab' = [tab EXCEPT ![t] = NewTab],
           lock' = Append(RemoveFirst(lock, t), t)
    PROVE  LineOK' /\ Kept(t)
<1>1. lock \in Seq(Tabs) /\ IsInjective(lock) /\ ToSet(lock) = {u \in Tabs : tab[u].ref.pc # "none"}
  BY DEF LineOK
<1>2. tab'[t] = NewTab /\ \A u \in Tabs : u # t => tab'[u] = tab[u]
  BY DEF PagesOK
<1> DEFINE l == RemoveFirst(lock, t)
<1>3. /\ l \in Seq(Tabs) /\ IsInjective(l) /\ ToSet(l) = ToSet(lock) \ {t}
      /\ lock # <<>> /\ lock[1] # t => l # <<>> /\ l[1] = lock[1]
  BY <1>1, Leaving
<1> HIDE DEF l
<1>4. /\ lock' \in Seq(Tabs) /\ IsInjective(lock') /\ ToSet(lock') = ToSet(l) \cup {t}
      /\ l # <<>> => lock' # <<>> /\ lock'[1] = l[1]
  BY <1>3, Joining DEF l
<1>5. NewTab.ref.pc # "none"
  BY NewTabOK, NoRefOK
<1>6. ToSet(lock') = {u \in Tabs : tab'[u].ref.pc # "none"}
  BY <1>1, <1>2, <1>3, <1>4, <1>5
<1> QED BY <1>3, <1>4, <1>6 DEF LineOK, Kept, Leads

-----------------------------------------------------------------------------
(* The step of a tab, seen from everywhere else                             *)
Grows == \A s \in Sids : (rows[s].status = "over" => rows'[s].status = "over") /\ ver[s] <= ver'[s]
RowsKept == \A s \in Sids : (rows'[s] = NoRow => rows[s] = NoRow) /\ (rows'[s].gen = rows[s].gen \/ s \in Seen)
Steady == \A s \in Sids : s \in Seen /\ rows'[s].status = "active" =>
              rows[s].status = "active" /\ rows'[s].gen = rows[s].gen

LEMMA Typed ==
    ASSUME IInv, NEW t \in Tabs
    PROVE  /\ PageOK(tab[t]) /\ Safe(tab[t], left[t], rows, ver) /\ tab \in [Tabs -> Pages]
           /\ left \in [Tabs -> SUBSET Sids] /\ jar \in CookieSet
           /\ rows \in [Sids -> Rows \cup {NoRow}] /\ ver \in [Sids -> Nat]
           /\ LineOK /\ PagesOK
           /\ left = [left EXCEPT ![t] = left[t]]
           /\ left[t] \subseteq {s \in Sids : rows[s].status = "over"}
<1>1. PageOK(tab[t]) /\ Safe(tab[t], left[t], rows, ver) /\ left \in [Tabs -> SUBSET Sids]
  BY DEF IInv, PagesOK, BrowserOK
<1> QED BY <1>1 DEF IInv, PagesOK, BrowserOK, ServerOK, Safe

LEMMA InSids == ASSUME NEW s \in 0..MaxLogins, s # 0 PROVE s \in Sids
BY Constants

LEMMA SafeGrows ==
    ASSUME IInv, ServerOK', Grows, NEW w, NEW lf, PageOK(w), Safe(w, lf, rows, ver)
    PROVE  Safe(w, lf, rows', ver')
<1>1. \A s \in Sids : ver[s] \in Nat /\ ver'[s] \in Nat
  BY DEF IInv, ServerOK
<1>2. /\ w.sid # 0 => w.sid \in Sids
      /\ w.ref.reply.sid # 0 => w.ref.reply.sid \in Sids
      /\ w.act.reply.sid # 0 => w.act.reply.sid \in Sids
      /\ w.ver \in Nat /\ w.ref.reply.ver \in Nat /\ w.act.reply.ver \in Nat
  BY Parts, InSids DEF Replies
<1>3. lf \subseteq {s \in Sids : rows'[s].status = "over"}
  BY DEF Safe, Grows
<1>4. w.sid # 0 => w.ver <= ver'[w.sid]
  BY <1>1, <1>2 DEF Safe, Grows
<1>5. Known(w.ref.reply, ver') /\ Known(w.act.reply, ver')
  BY <1>1, <1>2 DEF Safe, Grows, Known
<1> QED BY <1>3, <1>4, <1>5 DEF Safe

LEMMA PagesStep ==
    ASSUME IInv, ServerOK', Grows, NEW t \in Tabs, NEW w, NEW lf,
           tab' = [tab EXCEPT ![t] = w], left' = [left EXCEPT ![t] = lf],
           PageOK(w), Safe(w, lf, rows', ver')
    PROVE  PagesOK' /\ left' \in [Tabs -> SUBSET Sids]
<1>1. tab' \in [Tabs -> Pages]
  BY Typed, Parts
<1>2. left' \in [Tabs -> SUBSET Sids]
  BY Typed DEF Safe
<1>3. ASSUME NEW u \in Tabs PROVE PageOK(tab'[u]) /\ Safe(tab'[u], left'[u], rows', ver')
  <2>1. CASE u = t
    BY <2>1, Typed
  <2>2. CASE u # t
    <3>1. tab'[u] = tab[u] /\ left'[u] = left[u]
      BY <2>2, Typed
    <3>2. PageOK(tab[u]) /\ Safe(tab[u], left[u], rows, ver)
      BY Typed
    <3> QED BY <3>1, <3>2, SafeGrows
  <2> QED BY <2>1, <2>2
<1> QED BY <1>1, <1>2, <1>3 DEF PagesOK

(* Nothing becomes known but the session of a login that arrives            *)
LEMMA LoginsStep ==
    ASSUME IInv, RowsKept, NEW t \in Tabs, NEW w, NEW lf,
           tab' = [tab EXCEPT ![t] = w], left' = [left EXCEPT ![t] = lf],
           Pending(w) => w.act = tab[t].act,
           adrift' \subseteq adrift \cup ({tab[t].ref.sent} \ {NoCookie}),
           \A s \in SeenBy(w, lf) \cup {jar'.sid} :
              s \in Seen \cup {0} \/ (Pending(tab[t]) /\ ~Pending(w) /\ s = tab[t].act.reply.sid)
    PROVE  LoginsOK'
<1>1. tab'[t] = w /\ left'[t] = lf /\ \A u \in Tabs : u # t => tab'[u] = tab[u] /\ left'[u] = left[u]
  BY Typed
<1>2. ASSUME NEW s \in Sids, s \in Seen'
      PROVE  s \in Seen \/ (Pending(tab[t]) /\ ~Pending(w) /\ s = tab[t].act.reply.sid)
  <2>1. s # 0
    BY Constants
  <2>2. CASE s = jar'.sid
    BY <2>1, <2>2
  <2>3. CASE \E c \in adrift' : s = c.sid
    <3>1. PICK c \in adrift' : s = c.sid
      BY <2>3
    <3>2. c \in adrift => s \in Seen
      BY <3>1 DEF Seen
    <3>3. c = tab[t].ref.sent => s \in Seen
      BY <3>1 DEF Seen, SeenBy
    <3> QED BY <3>1, <3>2, <3>3
  <2>4. CASE \E u \in Tabs : s \in SeenBy(tab'[u], left'[u])
    <3>1. PICK u \in Tabs : s \in SeenBy(tab'[u], left'[u])
      BY <2>4
    <3>2. CASE u = t
      BY <1>1, <2>1, <3>1, <3>2
    <3>3. CASE u # t
      BY <1>1, <3>1, <3>3 DEF Seen
    <3> QED BY <3>2, <3>3
  <2> QED BY <1>2, <2>2, <2>3, <2>4 DEF Seen
<1>3. ASSUME NEW u \in Tabs, Pending(tab'[u])
      PROVE  /\ Pending(tab[u]) /\ tab'[u].act = tab[u].act
             /\ tab[u].act.reply.sid \in Sids
             /\ u = t => Pending(w)
  <2>1. Pending(tab[u]) /\ tab'[u].act = tab[u].act /\ (u = t => Pending(w))
    BY <1>1, <1>3 DEF Pending
  <2>2. PageOK(tab[u])
    BY Typed
  <2>3. tab[u].act.reply.sid # 0 /\ tab[u].act.reply.sid \in 0..MaxLogins
    BY <2>1, <2>2, Parts DEF Pending, ActOK, Replies
  <2> QED BY <2>1, <2>3, InSids
<1>4. ASSUME NEW s \in Sids, rows'[s] = NoRow PROVE s \notin Seen'
  <2>1. rows[s] = NoRow
    BY <1>4 DEF RowsKept
  <2>2. s \notin Seen /\ ~(Pending(tab[t]) /\ s = tab[t].act.reply.sid)
    BY <2>1 DEF IInv, LoginsOK
  <2> QED BY <2>2, <1>2
<1>5. ASSUME NEW u \in Tabs, Pending(tab'[u])
      PROVE  /\ tab'[u].act.reply.sid \notin Seen'
             /\ rows'[tab'[u].act.reply.sid] # NoRow
             /\ rows'[tab'[u].act.reply.sid].gen = tab'[u].act.reply.gen
  <2> DEFINE s == tab[u].act.reply.sid
  <2>1. Pending(tab[u]) /\ tab'[u].act = tab[u].act /\ s \in Sids /\ (u = t => Pending(w))
    BY <1>3, <1>5
  <2>2. s \notin Seen /\ rows[s] # NoRow /\ rows[s].gen = tab[u].act.reply.gen
    BY <2>1 DEF IInv, LoginsOK
  <2>3. ~(Pending(tab[t]) /\ ~Pending(w) /\ s = tab[t].act.reply.sid)
    BY <2>1 DEF IInv, LoginsOK
  <2> HIDE DEF s
  <2>4. s \notin Seen'
    BY <2>1, <2>2, <2>3, <1>2
  <2>5. rows'[s] # NoRow /\ rows'[s].gen = rows[s].gen
    BY <2>1, <2>2 DEF RowsKept
  <2> QED BY <2>1, <2>2, <2>4, <2>5 DEF s
<1>6. ASSUME NEW u \in Tabs, NEW v \in Tabs, u # v, Pending(tab'[u]), Pending(tab'[v])
      PROVE  tab'[u].act.reply.sid # tab'[v].act.reply.sid
  BY <1>3, <1>6 DEF IInv, LoginsOK
<1> QED BY <1>4, <1>5, <1>6 DEF LoginsOK

(* Whose turn it is                                                         *)
TurnOf(t, w) ==
    /\ w.ref.pc \in {"asked", "answered"} => Leads(t)'
    /\ w.ref.pc = "asked" => Fresh(w.ref.sent, rows')
    /\ Carries(w) => Fresh(w.ref.reply, rows')
    /\ Fresh(jar', rows') \/ Carries(w) \/ (jar' = jar /\ ~Carries(tab[t]))

LEMMA FreshSteady ==
    ASSUME Steady, NEW c, c.sid \in Seen, c.sid = 0 \/ c.sid \in Sids, Fresh(c, rows)
    PROVE  Fresh(c, rows')
BY DEF Steady, Fresh

LEMMA TurnsStep ==
    ASSUME IInv, Steady, reused' = reused, NEW t \in Tabs, NEW w, tab' = [tab EXCEPT ![t] = w], Kept(t),
           Locks /\ ~lost' => ~lost /\ adrift' = adrift,
           Locks /\ ~lost' /\ InTurn => TurnOf(t, w)
    PROVE  TurnsOK'
<1> SUFFICES ASSUME Locks, ~lost' PROVE InTurn'
  BY DEF TurnsOK
<1>1. ~lost /\ InTurn /\ TurnOf(t, w) /\ adrift' = adrift
  BY DEF IInv, TurnsOK
<1>2. tab'[t] = w /\ \A u \in Tabs : u # t => tab'[u] = tab[u]
  BY Typed
<1>3. ASSUME NEW u \in Tabs
      PROVE  /\ tab[u].ref.sent.sid \in Seen /\ tab[u].ref.reply.sid \in Seen
             /\ tab[u].ref.sent.sid = 0 \/ tab[u].ref.sent.sid \in Sids
             /\ tab[u].ref.reply.sid = 0 \/ tab[u].ref.reply.sid \in Sids
  <2>1. PageOK(tab[u])
    BY Typed
  <2>2. tab[u].ref.sent \in CookieSet /\ tab[u].ref.reply \in Replies
    BY <2>1, Parts
  <2>3. tab[u].ref.sent.sid \in Seen /\ tab[u].ref.reply.sid \in Seen
    BY DEF Seen, SeenBy
  <2> QED BY <2>2, <2>3, NoReplyOK, InSids DEF CookieSet, Replies
<1>4. ASSUME NEW u \in Tabs
      PROVE  /\ tab'[u].ref.pc \in {"asked", "answered"} => Leads(u)'
             /\ tab'[u].ref.pc = "asked" => Fresh(tab'[u].ref.sent, rows')
             /\ Carries(tab'[u]) => Fresh(tab'[u].ref.reply, rows')
  <2>1. CASE u = t
    BY <1>1, <1>2, <2>1 DEF TurnOf
  <2>2. CASE u # t
    <3>1. tab'[u] = tab[u]
      BY <1>2, <2>2
    <3>2. /\ tab[u].ref.pc \in {"asked", "answered"} => Leads(u)
          /\ tab[u].ref.pc = "asked" => Fresh(tab[u].ref.sent, rows)
          /\ Carries(tab[u]) => Fresh(tab[u].ref.reply, rows)
      BY <1>1 DEF InTurn
    <3>3. tab[u].ref.pc = "asked" => Fresh(tab[u].ref.sent, rows')
      BY <1>3, <3>2, FreshSteady
    <3>4. Carries(tab[u]) => Fresh(tab[u].ref.reply, rows')
      BY <1>3, <3>2, FreshSteady
    <3> QED BY <2>2, <3>1, <3>2, <3>3, <3>4 DEF Kept
  <2> QED BY <2>1, <2>2
<1>5. Fresh(jar', rows') \/ \E u \in Tabs : Carries(tab'[u])
  <2>1. CASE Carries(w)
    BY <1>2, <2>1
  <2>2. CASE jar' = jar /\ ~Carries(tab[t])
    <3>1. CASE Fresh(jar, rows)
      <4>1. jar.sid \in Seen /\ (jar.sid = 0 \/ jar.sid \in Sids)
        BY Typed, NoReplyOK DEF Seen, CookieSet
      <4> QED BY <2>2, <3>1, <4>1, FreshSteady
    <3>2. CASE \E u \in Tabs : Carries(tab[u])
      BY <1>2, <2>2, <3>2
    <3> QED BY <1>1, <3>1, <3>2 DEF InTurn
  <2> QED BY <1>1, <2>1, <2>2 DEF TurnOf
<1>6. ~reused' /\ adrift' = {}
  BY <1>1 DEF InTurn
<1> QED BY <1>4, <1>5, <1>6 DEF InTurn

(* All of it together, for a step that leaves the server alone              *)
LEMMA ServerSame ==
    ASSUME IInv, UNCHANGED server
    PROVE  ServerOK' /\ Grows /\ RowsKept /\ Steady /\ rows' = rows /\ ver' = ver /\ reused' = reused
<1>1. rows' = rows /\ ver' = ver /\ reused' = reused
  BY DEF server
<1>2. \A s \in Sids : ver[s] \in Nat
  BY DEF IInv, ServerOK
<1> QED BY <1>1, <1>2 DEF IInv, ServerOK, Grows, RowsKept, Steady

Familiar(t, w, s) == s \in Seen \cup {0} \/ (Pending(tab[t]) /\ ~Pending(w) /\ s = tab[t].act.reply.sid)

LEMMA PageStep ==
    ASSUME IInv, UNCHANGED server, NEW t \in Tabs, NEW w, NEW lf,
           tab' = [tab EXCEPT ![t] = w], left' = [left EXCEPT ![t] = lf],
           LineOK', Kept(t), PageOK(w), Safe(w, lf, rows, ver),
           Pending(w) => w.act = tab[t].act, lf \subseteq left[t] \cup {tab[t].sid},
           jar' \in CookieSet, Familiar(t, w, jar'.sid), Familiar(t, w, w.sid),
           Familiar(t, w, w.ref.sent.sid), Familiar(t, w, w.ref.reply.sid),
           adrift' \subseteq adrift \cup ({tab[t].ref.sent} \ {NoCookie}),
           Locks /\ ~lost' => ~lost /\ adrift' = adrift,
           Locks /\ ~lost' /\ InTurn => TurnOf(t, w)
    PROVE  IInv'
<1>1. ServerOK' /\ Grows /\ RowsKept /\ Steady /\ rows' = rows /\ ver' = ver /\ reused' = reused
  BY ServerSame
<1>2. PagesOK' /\ left' \in [Tabs -> SUBSET Sids]
  BY <1>1, PagesStep
<1>3. \A s \in SeenBy(w, lf) \cup {jar'.sid} : Familiar(t, w, s)
  <2>1. left[t] \subseteq Seen /\ tab[t].sid \in Seen
    BY DEF Seen, SeenBy
  <2>2. \A s \in lf : Familiar(t, w, s)
    BY <2>1 DEF Familiar
  <2> QED BY <2>2 DEF SeenBy
<1>4. LoginsOK'
  BY <1>1, <1>3, LoginsStep DEF Familiar
<1>5. TurnsOK'
  BY <1>1, TurnsStep
<1>6. adrift' \subseteq [sid : Sids, gen : Nat]
  <2>1. PageOK(tab[t]) /\ adrift \subseteq [sid : Sids, gen : Nat]
    BY Typed DEF IInv, BrowserOK
  <2>2. tab[t].ref.sent \in CookieSet
    BY <2>1, Parts
  <2> QED BY <2>1, <2>2 DEF CookieSet
<1> QED BY <1>1, <1>2, <1>4, <1>5, <1>6 DEF IInv, BrowserOK

-----------------------------------------------------------------------------
(* The steps of a page. A refresh that is where it was, or that starts      *)
Stage(v, u) ==
    \/ v.ref.pc = u.ref.pc /\ v.ref.sent = u.ref.sent /\ v.ref.reply = u.ref.reply
    \/ u.ref.pc = "none" /\ v.ref = NewRef

LEMMA Transition ==
    ASSUME IInv, UNCHANGED server, NEW t \in Tabs, NEW v, NEW lf,
           tab' = [tab EXCEPT ![t] = v], left' = [left EXCEPT ![t] = lf],
           LineOK', Kept(t), Leads(t) /\ v.ref.pc # "none" => Leads(t)',
           adrift' = adrift, lost' = lost,
           PageOK(v), Safe(v, lf, rows, ver), Stage(v, tab[t]),
           Pending(v) => v.act = tab[t].act, lf \subseteq left[t] \cup {tab[t].sid},
           jar' \in CookieSet, Familiar(t, v, jar'.sid), Familiar(t, v, v.sid),
           Fresh(jar', rows) \/ jar' = jar
    PROVE  IInv'
<1>1. tab[t].ref.sent.sid \in Seen /\ tab[t].ref.reply.sid \in Seen
  BY DEF Seen, SeenBy
<1>2. Familiar(t, v, v.ref.sent.sid) /\ Familiar(t, v, v.ref.reply.sid)
  BY <1>1, NoRefOK, NoReplyOK DEF Familiar, Stage
<1>3. rows' = rows
  BY DEF server
<1>4. ASSUME InTurn PROVE TurnOf(t, v)
  <2>1. CASE v.ref.pc = tab[t].ref.pc /\ v.ref.sent = tab[t].ref.sent /\ v.ref.reply = tab[t].ref.reply
    <3>1. /\ tab[t].ref.pc \in {"asked", "answered"} => Leads(t)
          /\ tab[t].ref.pc = "asked" => Fresh(tab[t].ref.sent, rows)
          /\ Carries(tab[t]) => Fresh(tab[t].ref.reply, rows)
      BY <1>4 DEF InTurn
    <3>2. Carries(v) <=> Carries(tab[t])
      BY <2>1 DEF Carries
    <3> QED BY <1>3, <2>1, <3>1, <3>2 DEF TurnOf
  <2>2. CASE tab[t].ref.pc = "none" /\ v.ref = NewRef
    <3>1. v.ref.pc = "lock" /\ ~Carries(v) /\ ~Carries(tab[t])
      BY <2>2, NoRefOK DEF Carries
    <3> QED BY <1>3, <3>1 DEF TurnOf
  <2> QED BY <2>1, <2>2 DEF Stage
<1>5. adrift' \subseteq adrift \cup ({tab[t].ref.sent} \ {NoCookie})
  OBVIOUS
<1> QED BY <1>2, <1>4, <1>5, PageStep

(* ... of which only the user action or the freshness of the token changes  *)
LEMMA ActStep ==
    ASSUME IInv, UNCHANGED server, NEW t \in Tabs, NEW v, tab' = [tab EXCEPT ![t] = v],
           UNCHANGED <<jar, lock, adrift, left, lost>>, PageOK(v),
           v.sid = tab[t].sid, v.ver = tab[t].ver, v.ref = tab[t].ref,
           Pending(v) => v.act = tab[t].act, Known(v.act.reply, ver)
    PROVE  IInv'
<1>1. LineOK' /\ Kept(t) /\ (Leads(t) => Leads(t)')
  BY LineSame, Typed
<1>2. Safe(v, left[t], rows, ver)
  BY SafeAct, Typed
<1>3. Familiar(t, v, jar'.sid) /\ Familiar(t, v, v.sid)
  BY DEF Familiar, Seen, SeenBy
<1>4. Stage(v, tab[t]) /\ left' = [left EXCEPT ![t] = left[t]] /\ jar' \in CookieSet
  BY Typed DEF Stage
<1> QED BY <1>1, <1>2, <1>3, <1>4, Transition

LEMMA BeginStep ==
    ASSUME IInv, NEW t \in Tabs, NEW a \in Acts, ActOK(a), a.pc # "waiting", a.pc # "answered", Begin(t, a)
    PROVE  IInv'
<1> DEFINE v == [tab[t] EXCEPT !.act = a]
<1>1. PageOK(tab[t]) /\ tab \in [Tabs -> Pages]
  BY Typed
<1>2. PageOK(v) /\ v.act = a /\ v.ref = tab[t].ref /\ v.sid = tab[t].sid /\ v.ver = tab[t].ver
  BY <1>1, ActingOK
<1>3. tab' = [tab EXCEPT ![t] = v] /\ UNCHANGED server /\ UNCHANGED <<jar, lock, adrift, left, lost>>
  BY <1>1 DEF Begin
<1> HIDE DEF v
<1>4. ~Pending(v) /\ Known(v.act.reply, ver)
  BY <1>2, NoReplyOK DEF Pending, Known, ActOK
<1> QED BY <1>2, <1>3, <1>4, ActStep

LEMMA BeginsStep ==
    ASSUME IInv, NEW t \in Tabs, BeginLogin(t) \/ BeginLogout(t) \/ BeginSecurity(t) PROVE IInv'
<1>1. ASSUME NEW op \in {"login", "logout", "security"}, NEW pc \in {"send", "asked"},
             op = "login" => pc = "asked",
             NEW a, a = [NoAct EXCEPT !.op = op, !.pc = pc] \/ a = [NoAct EXCEPT !.op = op, !.pc = pc, !.again = TRUE]
      PROVE  a \in Acts /\ ActOK(a) /\ a.pc # "waiting" /\ a.pc # "answered"
  <2>1. a \in Acts /\ a.pc = pc /\ a.op = op /\ a.reply = NoReply
    BY <1>1, NoActOK DEF Acts
  <2> QED BY <1>1, <2>1, NoReplyOK DEF ActOK
<1>2. CASE BeginLogin(t)
  <2> DEFINE a == [NoAct EXCEPT !.op = "login", !.pc = "asked"]
  <2>1. Begin(t, a)
    BY <1>2 DEF BeginLogin
  <2>2. a \in Acts /\ ActOK(a) /\ a.pc # "waiting" /\ a.pc # "answered"
    BY <1>1
  <2> HIDE DEF a
  <2> QED BY <2>1, <2>2, BeginStep
<1>3. CASE BeginLogout(t)
  <2> DEFINE a == [NoAct EXCEPT !.op = "logout", !.pc = "send", !.again = TRUE]
  <2>1. Begin(t, a)
    BY <1>3 DEF BeginLogout
  <2>2. a \in Acts /\ ActOK(a) /\ a.pc # "waiting" /\ a.pc # "answered"
    BY <1>1
  <2> HIDE DEF a
  <2> QED BY <2>1, <2>2, BeginStep
<1>4. CASE BeginSecurity(t)
  <2> DEFINE a == [NoAct EXCEPT !.op = "security", !.pc = "send", !.again = TRUE]
  <2>1. Begin(t, a)
    BY <1>4 DEF BeginSecurity
  <2>2. a \in Acts /\ ActOK(a) /\ a.pc # "waiting" /\ a.pc # "answered"
    BY <1>1
  <2> HIDE DEF a
  <2> QED BY <2>1, <2>2, BeginStep
<1> QED BY <1>2, <1>3, <1>4

LEMMA ExpireStep == ASSUME IInv, NEW t \in Tabs, Expire(t) PROVE IInv'
<1> DEFINE v == [tab[t] EXCEPT !.fresh = FALSE]
<1>1. PageOK(tab[t]) /\ tab \in [Tabs -> Pages] /\ Safe(tab[t], left[t], rows, ver)
  BY Typed
<1>2. v \in Pages /\ v.act = tab[t].act /\ v.ref = tab[t].ref /\ v.sid = tab[t].sid /\ v.ver = tab[t].ver
  BY <1>1, Parts DEF Pages
<1>3. tab' = [tab EXCEPT ![t] = v] /\ UNCHANGED server /\ UNCHANGED <<jar, lock, adrift, left, lost>>
  BY <1>1 DEF Expire
<1> HIDE DEF v
<1>4. PageOK(v)
  BY <1>1, <1>2, Parts, Assembled
<1> QED BY <1>1, <1>2, <1>3, <1>4, ActStep DEF Safe

LEMMA SendActStep == ASSUME IInv, NEW t \in Tabs, SendAct(t) PROVE IInv'
<1> DEFINE a == [tab[t].act EXCEPT !.pc = "asked", !.sid = tab[t].sid, !.ver = tab[t].ver,
                                   !.fresh = tab[t].fresh, !.sent = jar]
           v == [tab[t] EXCEPT !.act = a]
<1>1. PageOK(tab[t]) /\ tab \in [Tabs -> Pages] /\ jar \in CookieSet /\ tab[t].act.pc = "send"
  BY Typed DEF SendAct
<1>2. /\ tab[t].act \in Acts /\ ActOK(tab[t].act) /\ tab[t].act.reply = NoReply /\ tab[t].act.op # "login"
      /\ tab[t].sid \in 0..MaxLogins /\ tab[t].ver \in Nat /\ tab[t].fresh \in BOOLEAN
  BY <1>1, Parts DEF ActOK
<1>3. a \in Acts /\ a.pc = "asked" /\ a.reply = NoReply /\ a.op = tab[t].act.op
  BY <1>1, <1>2 DEF Acts
<1>4. tab' = [tab EXCEPT ![t] = v] /\ UNCHANGED server /\ UNCHANGED <<jar, lock, adrift, left, lost>>
  BY <1>1 DEF SendAct
<1> HIDE DEF a
<1>5. ActOK(a)
  BY <1>2, <1>3, NoReplyOK DEF ActOK
<1>6. PageOK(v) /\ v.act = a /\ v.ref = tab[t].ref /\ v.sid = tab[t].sid /\ v.ver = tab[t].ver
  BY <1>1, <1>3, <1>5, ActingOK
<1> HIDE DEF v
<1>7. ~Pending(v) /\ Known(v.act.reply, ver)
  BY <1>3, <1>6, NoReplyOK DEF Pending, Known
<1> QED BY <1>4, <1>6, <1>7, ActStep

LEMMA FailActStep == ASSUME IInv, NEW t \in Tabs, FailAct(t) PROVE IInv'
<1> DEFINE v == [tab[t] EXCEPT !.act = NoAct]
<1>1. PageOK(tab[t]) /\ tab \in [Tabs -> Pages]
  BY Typed
<1>2. PageOK(v) /\ v.act = NoAct /\ v.ref = tab[t].ref /\ v.sid = tab[t].sid /\ v.ver = tab[t].ver
  BY <1>1, NoActOK, ActingOK
<1>3. tab' = [tab EXCEPT ![t] = v] /\ UNCHANGED server /\ UNCHANGED <<jar, lock, adrift, left, lost>>
  BY <1>1 DEF FailAct
<1> HIDE DEF v
<1>4. ~Pending(v) /\ Known(v.act.reply, ver)
  BY <1>2, NoReplyOK, NoActOK DEF Pending, Known
<1> QED BY <1>2, <1>3, <1>4, ActStep

(* A refresh is asked for, and joined where one runs                        *)
LEMMA WithRefreshOK ==
    ASSUME NEW w, PageOK(w)
    PROVE  LET v == WithRefresh(w) IN
           /\ PageOK(v) /\ v.ref.pc # "none" /\ Stage(v, w)
           /\ v.sid = w.sid /\ v.ver = w.ver /\ v.act = w.act
           /\ v.ref.reply = w.ref.reply /\ (v.ref.current /\ v.ref.pc = "answered" => w.ref.current)
<1>1. CASE w.ref.pc = "none"
  <2> DEFINE v == [w EXCEPT !.ref = NewRef]
  <2>1. PageOK(v) /\ v.ref = NewRef /\ v.act = w.act /\ v.sid = w.sid /\ v.ver = w.ver
    BY NoRefOK, RefreshingOK
  <2>2. w.ref.reply = NoReply
    BY <1>1, Parts DEF RefOK
  <2>3. WithRefresh(w) = v
    BY <1>1 DEF WithRefresh
  <2> HIDE DEF v
  <2> QED BY <1>1, <2>1, <2>2, <2>3, NoRefOK DEF Stage
<1>2. CASE w.ref.pc # "none"
  <2>1. WithRefresh(w) = w
    BY <1>2 DEF WithRefresh
  <2> QED BY <1>2, <2>1 DEF Stage
<1> QED BY <1>1, <1>2

LEMMA SafeWithRefresh ==
    ASSUME NEW w, NEW lf, NEW rs, NEW vs, PageOK(w), Safe(w, lf, rs, vs)
    PROVE  Safe(WithRefresh(w), lf, rs, vs)
<1>1. CASE w.ref.pc = "none"
  <2> DEFINE v == WithRefresh(w)
  <2>1. v.ref.reply = NoReply /\ v.sid = w.sid /\ v.ver = w.ver /\ v.act = w.act
    BY <1>1, WithRefreshOK, Parts DEF RefOK
  <2> HIDE DEF v
  <2>2. Known(v.act.reply, vs)
    BY <2>1 DEF Safe
  <2>3. Safe(v, lf, rs, vs)
    BY <2>1, <2>2, SafeRef
  <2> QED BY <2>3 DEF v
<1>2. CASE w.ref.pc # "none"
  BY <1>2 DEF WithRefresh
<1> QED BY <1>1, <1>2

(* A tab that stays, its refresh where it was or just started               *)
LEMMA BecomeStep ==
    ASSUME IInv, UNCHANGED server, NEW t \in Tabs, NEW v, NEW lf, Become(t, v),
           UNCHANGED <<adrift, lost>>, left' = [left EXCEPT ![t] = lf],
           lf \subseteq left[t] \cup {tab[t].sid}, PageOK(v), Safe(v, lf, rows, ver), Stage(v, tab[t]),
           Pending(v) => v.act = tab[t].act,
           jar' \in CookieSet, Familiar(t, v, jar'.sid), Familiar(t, v, v.sid),
           Fresh(jar', rows) \/ jar' = jar
    PROVE  IInv'
<1>1. tab' = [tab EXCEPT ![t] = v] /\ Line(t, v)
  BY DEF Become
<1>2. LineOK' /\ Kept(t) /\ (Leads(t) /\ v.ref.pc # "none" => Leads(t)')
  BY <1>1, LineStep, Typed
<1> QED BY <1>1, <1>2, Transition

LEMMA UnauthorizedStep == ASSUME IInv, NEW t \in Tabs, Unauthorized(t) PROVE IInv'
<1> DEFINE a == [NoAct EXCEPT !.op = "api", !.pc = "waiting"]
           w == WithRefresh(tab[t])
           v == [w EXCEPT !.act = a]
<1>1. PageOK(tab[t]) /\ Safe(tab[t], left[t], rows, ver) /\ jar \in CookieSet
  BY Typed
<1>2. a \in Acts /\ a.pc = "waiting" /\ a.op = "api" /\ a.reply = NoReply
  BY NoActOK DEF Acts
<1>3. Become(t, v) /\ UNCHANGED server /\ UNCHANGED <<jar, adrift, left, lost>>
  BY DEF Unauthorized
<1> HIDE DEF a
<1>4. ActOK(a)
  BY <1>2, NoReplyOK DEF ActOK
<1>5. PageOK(w) /\ w.ref.pc # "none" /\ Stage(w, tab[t]) /\ w.sid = tab[t].sid /\ Safe(w, left[t], rows, ver)
  BY <1>1, WithRefreshOK, SafeWithRefresh
<1> HIDE DEF w
<1>6. PageOK(v) /\ v.act = a /\ v.ref = w.ref /\ v.sid = w.sid /\ v.ver = w.ver
  BY <1>2, <1>4, <1>5, ActingOK
<1> HIDE DEF v
<1>7. Safe(v, left[t], rows, ver)
  BY <1>2, <1>5, <1>6, NoReplyOK, SafeAct DEF Known
<1>8. Familiar(t, v, jar'.sid) /\ Familiar(t, v, v.sid) /\ Stage(v, tab[t]) /\ ~Pending(v)
  BY <1>2, <1>3, <1>5, <1>6 DEF Familiar, Seen, SeenBy, Stage, Pending
<1>9. left' = [left EXCEPT ![t] = left[t]]
  BY <1>3, Typed
<1> QED BY <1>1, <1>3, <1>6, <1>7, <1>8, <1>9, BecomeStep

LEMMA NavigateStep == ASSUME IInv, NEW t \in Tabs, Navigate(t) PROVE IInv'
<1> DEFINE w == WithRefresh(tab[t])
           v == [w EXCEPT !.boot = "checking"]
<1>1. PageOK(tab[t]) /\ Safe(tab[t], left[t], rows, ver) /\ jar \in CookieSet
  BY Typed
<1>2. Become(t, v) /\ UNCHANGED server /\ UNCHANGED <<jar, adrift, left, lost>>
  BY DEF Navigate
<1>3. PageOK(w) /\ Stage(w, tab[t]) /\ w.sid = tab[t].sid /\ w.act = tab[t].act /\ Safe(w, left[t], rows, ver)
  BY <1>1, WithRefreshOK, SafeWithRefresh
<1> HIDE DEF w
<1>4. PageOK(v) /\ v.act = w.act /\ v.ref = w.ref /\ v.sid = w.sid /\ v.ver = w.ver
  BY <1>3, BootOK
<1> HIDE DEF v
<1>5. Safe(v, left[t], rows, ver)
  BY <1>3, <1>4 DEF Safe
<1>6. Familiar(t, v, jar'.sid) /\ Familiar(t, v, v.sid) /\ Stage(v, tab[t])
  BY <1>2, <1>3, <1>4 DEF Familiar, Seen, SeenBy, Stage
<1>7. left' = [left EXCEPT ![t] = left[t]]
  BY <1>2, Typed
<1> QED BY <1>1, <1>2, <1>3, <1>4, <1>5, <1>6, <1>7, BecomeStep

-----------------------------------------------------------------------------
(* The steps of a refresh                                                   *)

LEMMA SendRefreshStep == ASSUME IInv, NEW t \in Tabs, SendRefresh(t) PROVE IInv'
<1>1. PageOK(tab[t]) /\ Safe(tab[t], left[t], rows, ver) /\ jar \in CookieSet /\ tab \in [Tabs -> Pages]
      /\ left = [left EXCEPT ![t] = left[t]] /\ LineOK /\ PagesOK
  BY Typed
<1>2. tab[t].ref.pc = "lock" /\ UNCHANGED server /\ jar' = jar /\ left' = left /\ May(t)
  BY DEF SendRefresh
<1>3. rows' = rows
  BY <1>2 DEF server
<1>4. CASE tab[t].ref.current
  <2> DEFINE f == [tab[t].ref EXCEPT !.pc = "asked", !.expect = tab[t].sid, !.sent = jar]
             v == [tab[t] EXCEPT !.ref = f]
  <2>1. Stay(t, v)
    <3>1. [tab[t] EXCEPT !.ref.pc = "asked", !.ref.expect = tab[t].sid, !.ref.sent = jar] = v
      BY <1>1, Parts DEF Pages, Refs
    <3> QED BY <1>4, <3>1 DEF SendRefresh
  <2>2. tab[t].ref \in Refs /\ RefOK(tab[t].ref) /\ tab[t].sid \in 0..MaxLogins /\ tab[t].ref.reply = NoReply
    BY <1>1, <1>2, Parts DEF RefOK
  <2>3. f \in Refs /\ f.pc = "asked" /\ f.sent = jar /\ f.reply = NoReply
    BY <1>1, <2>2 DEF Refs
  <2> HIDE DEF f
  <2>4. RefOK(f)
    BY <2>3, NoReplyOK DEF RefOK
  <2>5. PageOK(v) /\ v.ref = f /\ v.act = tab[t].act /\ v.sid = tab[t].sid /\ v.ver = tab[t].ver
    BY <1>1, <2>3, <2>4, RefreshingOK
  <2> HIDE DEF v
  <2>6. Safe(v, left[t], rows, ver)
    <3>1. Known(v.act.reply, ver)
      BY <1>1, <2>5 DEF Safe
    <3> QED BY <1>1, <2>3, <2>5, <3>1, SafeRef
  <2>7. tab' = [tab EXCEPT ![t] = v] /\ Line(t, v) /\ adrift' = adrift /\ lost' = lost
    BY <2>1 DEF Stay, Become
  <2>8. LineOK' /\ Kept(t) /\ (Leads(t) => Leads(t)')
    BY <1>1, <2>3, <2>5, <2>7, LineStep
  <2>9. ASSUME Locks, ~lost', InTurn PROVE TurnOf(t, v)
    <3>1. Leads(t)
      <4>1. t \in ToSet(lock) /\ lock \in Seq(Tabs)
        BY <1>1, <1>2 DEF LineOK
      <4>2. lock # <<>>
        BY <4>1 DEF ToSet
      <4>3. Head(lock) = lock[1]
        BY <4>1, <4>2
      <4> QED BY <1>2, <2>9, <4>2, <4>3 DEF May, Leads
    <3>2. ASSUME NEW u \in Tabs PROVE ~Carries(tab[u])
      <4>1. CASE u = t
        BY <1>2, <4>1 DEF Carries
      <4>2. CASE u # t
        BY <2>9, <3>1, <4>2 DEF InTurn, Carries, Leads
      <4> QED BY <4>1, <4>2
    <3>3. Fresh(jar, rows)
      BY <2>9, <3>2 DEF InTurn
    <3> QED BY <1>2, <1>3, <2>3, <2>5, <2>8, <3>1, <3>3 DEF TurnOf, Carries
  <2>10. /\ Familiar(t, v, jar'.sid) /\ Familiar(t, v, v.sid)
         /\ Familiar(t, v, v.ref.sent.sid) /\ Familiar(t, v, v.ref.reply.sid)
    BY <1>2, <2>3, <2>5, NoReplyOK DEF Familiar, Seen, SeenBy
  <2>11. left' = [left EXCEPT ![t] = left[t]] /\ jar' \in CookieSet
         /\ adrift' \subseteq adrift \cup ({tab[t].ref.sent} \ {NoCookie})
    BY <1>1, <1>2, <2>7
  <2> QED BY <1>2, <2>5, <2>6, <2>7, <2>8, <2>9, <2>10, <2>11, PageStep
<1>5. CASE ~tab[t].ref.current
  <2> DEFINE v == Settle(tab[t], "transient")
  <2>1. Stay(t, v)
    BY <1>5 DEF SendRefresh
  <2>2. PageOK(v) /\ v.ref.pc = "none" /\ (v.sid = tab[t].sid \/ v.sid = 0)
        /\ (v.act = tab[t].act \/ ~Pending(v)) /\ Safe(v, left[t], rows, ver)
    BY <1>1, SettleOK, SafeSettle
  <2> HIDE DEF v
  <2>3. tab' = [tab EXCEPT ![t] = v] /\ Line(t, v) /\ adrift' = adrift /\ lost' = lost
    BY <2>1 DEF Stay, Become
  <2>4. LineOK' /\ Kept(t)
    BY <1>1, <2>2, <2>3, LineStep
  <2>5. v.ref.reply = NoReply /\ v.ref.sent = NoCookie
    BY <2>2, Parts DEF RefOK
  <2>6. TurnOf(t, v)
    BY <1>2, <2>2 DEF TurnOf, Carries
  <2>7. /\ Familiar(t, v, jar'.sid) /\ Familiar(t, v, v.sid)
        /\ Familiar(t, v, v.ref.sent.sid) /\ Familiar(t, v, v.ref.reply.sid)
    BY <1>2, <2>2, <2>5, NoReplyOK DEF Familiar, Seen, SeenBy
  <2>8. left' = [left EXCEPT ![t] = left[t]] /\ jar' \in CookieSet
        /\ adrift' \subseteq adrift \cup ({tab[t].ref.sent} \ {NoCookie})
    BY <1>1, <1>2, <2>3
  <2> QED BY <1>2, <2>2, <2>3, <2>4, <2>6, <2>7, <2>8, PageStep
<1> QED BY <1>4, <1>5

(* The cookie of an answer                                                  *)
LEMMA RefCookie ==
    ASSUME IInv, NEW t \in Tabs, tab[t].ref.pc = "answered", SetCookie(tab[t].ref.reply)
    PROVE  /\ jar' \in CookieSet /\ jar'.sid \in Seen \cup {0}
           /\ InTurn => Fresh(jar', rows) \/ (jar' = jar /\ ~Carries(tab[t]))
<1> DEFINE r == tab[t].ref.reply
<1>1. r \in Replies /\ RefOK(tab[t].ref) /\ jar \in CookieSet
  BY Typed, Parts
<1>2. r.sid \in Seen /\ jar.sid \in Seen
  BY DEF Seen, SeenBy
<1>3. CASE r.cookie = "set"
  <2>1. jar' = [sid |-> r.sid, gen |-> r.gen]
    BY <1>3 DEF SetCookie
  <2>2. r.sid \in Sids /\ r.gen \in Nat
    BY <1>1, <1>3, InSids DEF RefOK, Replies
  <2>3. InTurn => Fresh(r, rows)
    BY <1>3 DEF InTurn, Carries
  <2> HIDE DEF r
  <2>4. InTurn => Fresh(jar', rows)
    BY <2>1, <2>3 DEF Fresh
  <2> QED BY <1>2, <2>1, <2>2, <2>4 DEF CookieSet
<1>4. CASE r.cookie = "clear"
  BY <1>4, NoReplyOK DEF SetCookie, Fresh
<1>5. CASE r.cookie = "keep"
  <2>1. jar' = jar /\ ~Carries(tab[t])
    BY <1>5 DEF SetCookie, Carries
  <2>2. CASE Fresh(jar, rows)
    BY <1>1, <1>2, <2>1, <2>2
  <2> QED BY <1>1, <1>2, <2>1
<1> QED BY <1>1, <1>3, <1>4, <1>5 DEF Replies

(* The page is gone, with the refresh that it had                           *)
LEMMA ReloadStep ==
    ASSUME IInv, UNCHANGED server, NEW t \in Tabs, NEW v, NEW lf, Reload(t, v),
           v.ref.sent \in {NoCookie, tab[t].ref.sent},
           left' = [left EXCEPT ![t] = lf], lf \subseteq left[t] \cup {tab[t].sid},
           lf \subseteq {s \in Sids : rows[s].status = "over"},
           jar' \in CookieSet, Familiar(t, NewTab, jar'.sid),
           InTurn /\ v.ref.pc \notin {"asked", "answered"} =>
              Fresh(jar', rows) \/ (jar' = jar /\ ~Carries(tab[t]))
    PROVE  IInv'
<1>1. LineOK /\ PagesOK /\ PageOK(tab[t]) /\ rows' = rows
  BY Typed DEF server
<1>2. tab' = [tab EXCEPT ![t] = NewTab] /\ lock' = Append(RemoveFirst(lock, t), t)
  BY DEF Reload
<1>3. adrift' \subseteq adrift \cup ({tab[t].ref.sent} \ {NoCookie})
  BY DEF Reload
<1>4. ~lost' => ~lost /\ v.ref.pc \notin {"asked", "answered"}
  BY DEF Reload
<1>5. ~lost' => adrift' = adrift
  BY <1>4 DEF Reload
<1>6. LineOK' /\ Kept(t)
  BY <1>1, <1>2, LineReload
<1>7. PageOK(NewTab) /\ Safe(NewTab, lf, rows, ver) /\ NewTab.ref = NewRef /\ NewTab.sid = 0
      /\ NewTab.act = NoAct
  BY NewTabOK, SafeNew
<1>8. ~lost' /\ InTurn => TurnOf(t, NewTab)
  BY <1>1, <1>4, <1>7, NoRefOK DEF TurnOf, Carries
<1>9. /\ Familiar(t, NewTab, NewTab.sid)
      /\ Familiar(t, NewTab, NewTab.ref.sent.sid) /\ Familiar(t, NewTab, NewTab.ref.reply.sid)
  BY <1>7, NoRefOK, NoReplyOK DEF Familiar
<1>10. ~Pending(NewTab)
  BY <1>7, NoActOK DEF Pending
<1> QED BY <1>2, <1>3, <1>4, <1>5, <1>6, <1>7, <1>8, <1>9, <1>10, PageStep

(* The refresh is over: the tab stays or goes to the sign-in page           *)
LEMMA OverStep ==
    ASSUME IInv, UNCHANGED server, NEW t \in Tabs, NEW v, NEW lf,
           Stay(t, v) \/ Reload(t, v), v.ref.pc = "none",
           left' = [left EXCEPT ![t] = lf], lf \subseteq left[t] \cup {tab[t].sid},
           PageOK(v), Safe(v, lf, rows, ver), Pending(v) => v.act = tab[t].act,
           jar' \in CookieSet, jar'.sid \in Seen \cup {0}, v.sid \in Seen \cup {0},
           InTurn => Fresh(jar', rows) \/ (jar' = jar /\ ~Carries(tab[t]))
    PROVE  IInv'
<1>1. LineOK /\ PagesOK /\ PageOK(tab[t]) /\ rows' = rows /\ lf \subseteq {s \in Sids : rows[s].status = "over"}
  BY Typed DEF server, Safe
<1>2. CASE Stay(t, v)
  <2>1. tab' = [tab EXCEPT ![t] = v] /\ Line(t, v) /\ adrift' = adrift /\ lost' = lost
    BY <1>2 DEF Stay, Become
  <2>2. LineOK' /\ Kept(t)
    BY <1>1, <2>1, LineStep
  <2>3. v.ref.reply = NoReply /\ v.ref.sent = NoCookie
    BY Parts DEF RefOK
  <2>4. InTurn => TurnOf(t, v)
    BY <1>1 DEF TurnOf, Carries
  <2>5. /\ Familiar(t, v, jar'.sid) /\ Familiar(t, v, v.sid)
        /\ Familiar(t, v, v.ref.sent.sid) /\ Familiar(t, v, v.ref.reply.sid)
    BY <2>3, NoReplyOK DEF Familiar
  <2>6. adrift' \subseteq adrift \cup ({tab[t].ref.sent} \ {NoCookie})
    BY <2>1
  <2> QED BY <2>1, <2>2, <2>4, <2>5, <2>6, PageStep
<1>3. CASE Reload(t, v)
  <2>1. v.ref.sent = NoCookie /\ Familiar(t, NewTab, jar'.sid)
    BY Parts DEF RefOK, Familiar
  <2> QED BY <1>1, <1>3, <2>1, ReloadStep
<1> QED BY <1>2, <1>3

LEMMA SettledStep ==
    ASSUME IInv, UNCHANGED server, NEW t \in Tabs, NEW w, NEW lf, NEW outcome, Settled(t, w, outcome),
           tab[t].ref.pc = "answered", SetCookie(tab[t].ref.reply),
           left' = [left EXCEPT ![t] = lf], lf \subseteq left[t] \cup {tab[t].sid},
           PageOK(w), Safe(w, lf, rows, ver), w.act = tab[t].act, w.sid \in Seen \cup {0}
    PROVE  IInv'
<1> DEFINE v == Settle(w, outcome)
<1>1. PageOK(v) /\ v.ref.pc = "none" /\ (v.sid = w.sid \/ v.sid = 0)
      /\ (v.act = w.act \/ ~Pending(v)) /\ Safe(v, lf, rows, ver)
  BY SettleOK, SafeSettle
<1>2. Stay(t, v) \/ Reload(t, v)
  BY DEF Settled
<1>3. /\ jar' \in CookieSet /\ jar'.sid \in Seen \cup {0}
      /\ InTurn => Fresh(jar', rows) \/ (jar' = jar /\ ~Carries(tab[t]))
  BY RefCookie
<1> HIDE DEF v
<1>4. v.sid \in Seen \cup {0} /\ (Pending(v) => v.act = tab[t].act)
  BY <1>1
<1> QED BY <1>1, <1>2, <1>3, <1>4, OverStep

LEMMA ArriveRefreshStep == ASSUME IInv, NEW t \in Tabs, ArriveRefresh(t) PROVE IInv'
<1> DEFINE w == tab[t]
           r == tab[t].ref.reply
<1>1. w.ref.pc = "answered" /\ SetCookie(r) /\ UNCHANGED server
  BY DEF ArriveRefresh
<1>2. PageOK(w) /\ Safe(w, left[t], rows, ver) /\ left = [left EXCEPT ![t] = left[t]]
      /\ left[t] \subseteq {s \in Sids : rows[s].status = "over"} /\ LineOK /\ PagesOK
  BY Typed
<1>3. r \in Replies /\ RefOK(w.ref) /\ w.ref \in Refs
  BY <1>2, Parts
<1>4. w.sid \in Seen /\ r.sid \in Seen
  BY DEF Seen, SeenBy
<1>5. CASE Settled(t, w, "transient") /\ UNCHANGED <<queue, left>>
  <2>1. left' = [left EXCEPT ![t] = left[t]] /\ w.sid \in Seen \cup {0} /\ left[t] \subseteq left[t] \cup {w.sid}
    BY <1>2, <1>4, <1>5
  <2> QED BY <1>1, <1>2, <1>5, <2>1, SettledStep
<1>6. CASE w.ref.current /\ r.kind = "ok" /\ Settled(t, ApplyAuthBundle(w, r), "authenticated")
           /\ UNCHANGED <<queue, left>>
  <2> DEFINE v == ApplyAuthBundle(w, r)
  <2>1. r.sid # 0 /\ Known(r, ver) /\ r.sid \notin left[t]
    BY <1>1, <1>2, <1>3, <1>6 DEF RefOK, Safe
  <2>2. PageOK(v) /\ v.sid = r.sid /\ v.act = w.act /\ Safe(v, left[t], rows, ver)
    BY <1>2, <1>3, <1>6, <2>1, ApplyOK, SafeApply
  <2>3. left' = [left EXCEPT ![t] = left[t]] /\ Settled(t, v, "authenticated")
    BY <1>2, <1>6
  <2> HIDE DEF v
  <2>4. v.sid \in Seen \cup {0} /\ left[t] \subseteq left[t] \cup {w.sid}
    BY <1>4, <2>2
  <2> QED BY <1>1, <2>2, <2>3, <2>4, SettledStep
<1>7. CASE /\ r.kind = "mismatch"
           /\ Stay(t, [Reset(w, "idle") EXCEPT !.ref.pc = "lock", !.ref.again = FALSE, !.ref.reply = NoReply])
           /\ PutAway(t, w.sid)
  <2> DEFINE n == Reset(w, "idle")
             f == [w.ref EXCEPT !.pc = "lock", !.again = FALSE, !.reply = NoReply]
             v == [n EXCEPT !.ref = f]
  <2>1. n \in Pages /\ n.sid = 0 /\ n.ver = 0 /\ n.ref = w.ref /\ n.act = w.act
    BY <1>2, Parts, ResetOK
  <2>2. PageOK(n)
    <3> HIDE DEF n
    <3> QED BY <1>2, <2>1, Parts, Assembled
  <2> HIDE DEF n
  <2>3. Stay(t, v)
    <3>1. [n EXCEPT !.ref.pc = "lock", !.ref.again = FALSE, !.ref.reply = NoReply] = v
      BY <2>1, <1>3 DEF Pages, Refs
    <3> QED BY <1>7, <3>1 DEF n
  <2>4. f \in Refs /\ f.pc = "lock" /\ f.reply = NoReply /\ f.sent = w.ref.sent
    BY <1>3, NoReplyOK DEF Refs
  <2> HIDE DEF f
  <2>5. RefOK(f) /\ f.sent = NoCookie
    BY <1>1, <1>3, <2>4, NoReplyOK DEF RefOK
  <2>6. PageOK(v) /\ v.ref = f /\ v.act = w.act /\ v.sid = 0 /\ v.ver = 0
    BY <2>1, <2>2, <2>4, <2>5, RefreshingOK
  <2> HIDE DEF v
  <2>7. PICK lf : /\ left' = [left EXCEPT ![t] = lf] /\ lf \subseteq left[t] \cup {w.sid}
                  /\ lf \subseteq {s \in Sids : rows[s].status = "over"}
    BY <1>7, PutAwayOK
  <2>8. Safe(v, lf, rows, ver)
    BY <1>2, <2>4, <2>6, <2>7, Over, NoReplyOK DEF Safe, Known
  <2>9. tab' = [tab EXCEPT ![t] = v] /\ Line(t, v) /\ adrift' = adrift /\ lost' = lost
    BY <2>3 DEF Stay, Become
  <2>10. LineOK' /\ Kept(t)
    BY <1>2, <2>6, <2>9, LineStep
  <2>11. /\ jar' \in CookieSet /\ jar'.sid \in Seen \cup {0}
         /\ InTurn => Fresh(jar', rows) \/ (jar' = jar /\ ~Carries(tab[t]))
    BY <1>1, RefCookie
  <2>12. InTurn => TurnOf(t, v)
    BY <1>1, <2>4, <2>6, <2>11 DEF TurnOf, Carries, server
  <2>13. /\ Familiar(t, v, jar'.sid) /\ Familiar(t, v, v.sid)
         /\ Familiar(t, v, v.ref.sent.sid) /\ Familiar(t, v, v.ref.reply.sid)
    BY <2>4, <2>5, <2>6, <2>11, NoReplyOK DEF Familiar
  <2>14. adrift' \subseteq adrift \cup ({tab[t].ref.sent} \ {NoCookie})
    BY <2>9
  <2> QED BY <1>1, <2>6, <2>7, <2>8, <2>9, <2>10, <2>11, <2>12, <2>13, <2>14, PageStep
<1>8. CASE PutAway(t, w.sid) /\ Settled(t, ClearAuthentication(w), "anonymous")
  <2> DEFINE v == ClearAuthentication(w)
  <2>1. PICK lf : /\ left' = [left EXCEPT ![t] = lf] /\ lf \subseteq left[t] \cup {w.sid}
                  /\ lf \subseteq {s \in Sids : rows[s].status = "over"}
    BY <1>8, PutAwayOK
  <2>2. PageOK(v) /\ v.sid = 0 /\ v.act = w.act /\ Safe(v, lf, rows, ver)
    BY <1>2, <2>1, ClearOK, SafeClear
  <2>3. Settled(t, v, "anonymous")
    BY <1>8
  <2> HIDE DEF v
  <2> QED BY <1>1, <2>1, <2>2, <2>3, SettledStep
<1> QED BY <1>5, <1>6, <1>7, <1>8 DEF ArriveRefresh, StillCurrent

LEMMA FailRefreshStep == ASSUME IInv, NEW t \in Tabs, FailRefresh(t) PROVE IInv'
<1> DEFINE w == IF tab[t].ref.current THEN [tab[t] EXCEPT !.boot = "idle"] ELSE tab[t]
           v == Settle(w, "transient")
<1>1. PageOK(tab[t]) /\ Safe(tab[t], left[t], rows, ver) /\ jar \in CookieSet
      /\ left = [left EXCEPT ![t] = left[t]] /\ LineOK /\ PagesOK
  BY Typed
<1>2. /\ Become(t, v) /\ UNCHANGED server /\ jar' = jar /\ left' = left /\ adrift' = adrift
      /\ lost' = (lost \/ tab[t].ref.reply.cookie = "set")
  BY DEF FailRefresh
<1>3. PageOK(w) /\ Safe(w, left[t], rows, ver) /\ w.sid = tab[t].sid /\ w.act = tab[t].act
  <2>1. CASE tab[t].ref.current
    <3> DEFINE n == [tab[t] EXCEPT !.boot = "idle"]
    <3>1. PageOK(n) /\ n.ref = tab[t].ref /\ n.act = tab[t].act /\ n.sid = tab[t].sid /\ n.ver = tab[t].ver
      BY <1>1, BootOK
    <3>2. w = n
      BY <2>1
    <3> HIDE DEF n, w
    <3>3. Safe(n, left[t], rows, ver)
      BY <1>1, <3>1 DEF Safe
    <3> QED BY <3>1, <3>2, <3>3
  <2>2. CASE ~tab[t].ref.current
    <3>1. w = tab[t]
      BY <2>2
    <3> QED BY <1>1, <3>1
  <2> QED BY <2>1, <2>2
<1> HIDE DEF w
<1>4. PageOK(v) /\ v.ref.pc = "none" /\ (v.sid = tab[t].sid \/ v.sid = 0)
      /\ (v.act = tab[t].act \/ ~Pending(v)) /\ Safe(v, left[t], rows, ver)
  BY <1>3, SettleOK, SafeSettle
<1> HIDE DEF v
<1>5. tab' = [tab EXCEPT ![t] = v] /\ Line(t, v)
  BY <1>2 DEF Become
<1>6. LineOK' /\ Kept(t)
  BY <1>1, <1>4, <1>5, LineStep
<1>7. v.ref.reply = NoReply /\ v.ref.sent = NoCookie
  BY <1>4, Parts DEF RefOK
<1>8. ~lost' => ~lost /\ TurnOf(t, v)
  BY <1>2, <1>4 DEF TurnOf, Carries
<1>9. /\ Familiar(t, v, jar'.sid) /\ Familiar(t, v, v.sid)
      /\ Familiar(t, v, v.ref.sent.sid) /\ Familiar(t, v, v.ref.reply.sid)
  BY <1>2, <1>4, <1>7, NoReplyOK DEF Familiar, Seen, SeenBy
<1>10. left' = [left EXCEPT ![t] = left[t]] /\ jar' \in CookieSet
       /\ adrift' \subseteq adrift \cup ({tab[t].ref.sent} \ {NoCookie})
  BY <1>1, <1>2
<1> QED BY <1>2, <1>4, <1>5, <1>6, <1>8, <1>9, <1>10, PageStep

-----------------------------------------------------------------------------
(* The answer to a user action. Only that to a login brings a cookie, the   *)
(* first of its session                                                     *)
LEMMA ActCookie ==
    ASSUME IInv, NEW t \in Tabs, tab[t].act.pc = "answered", SetCookie(tab[t].act.reply),
           NEW v, ~Pending(v)
    PROVE  jar' \in CookieSet /\ Familiar(t, v, jar'.sid) /\ (Fresh(jar', rows) \/ jar' = jar)
<1> DEFINE r == tab[t].act.reply
<1>1. r \in Replies /\ ActOK(tab[t].act) /\ jar \in CookieSet
  BY Typed, Parts
<1>2. CASE r.cookie = "set"
  <2>1. jar' = [sid |-> r.sid, gen |-> r.gen]
    BY <1>2 DEF SetCookie
  <2>2. Pending(tab[t]) /\ r.sid # 0
    BY <1>1, <1>2 DEF ActOK, Pending
  <2>3. r.sid \in Sids /\ r.gen \in Nat
    BY <1>1, <2>2, InSids DEF Replies
  <2>4. rows[r.sid].gen = r.gen
    BY <2>2 DEF IInv, LoginsOK
  <2>5. Familiar(t, v, r.sid)
    BY <2>2 DEF Familiar
  <2> HIDE DEF r
  <2> QED BY <2>1, <2>3, <2>4, <2>5 DEF CookieSet, Fresh
<1>3. CASE r.cookie = "clear"
  BY <1>3, NoReplyOK DEF SetCookie, Fresh, Familiar
<1>4. CASE r.cookie = "keep"
  <2>1. jar' = jar
    BY <1>4 DEF SetCookie
  <2> QED BY <1>1, <2>1 DEF Familiar, Seen
<1> QED BY <1>1, <1>2, <1>3, <1>4 DEF Replies

LEMMA AnsweredStep ==
    ASSUME IInv, UNCHANGED server, NEW t \in Tabs, NEW v, NEW lf, Stay(t, v),
           tab[t].act.pc = "answered", SetCookie(tab[t].act.reply),
           left' = [left EXCEPT ![t] = lf], lf \subseteq left[t] \cup {tab[t].sid},
           PageOK(v), Safe(v, lf, rows, ver), Stage(v, tab[t]), ~Pending(v), Familiar(t, v, v.sid)
    PROVE  IInv'
<1>1. jar' \in CookieSet /\ Familiar(t, v, jar'.sid) /\ (Fresh(jar', rows) \/ jar' = jar)
  BY ActCookie
<1>2. Become(t, v) /\ UNCHANGED <<adrift, lost>>
  BY DEF Stay
<1> QED BY <1>1, <1>2, BecomeStep

(* A refresh that is overtaken is still where it was                        *)
LEMMA SupersededStage ==
    ASSUME NEW u, NEW v, PageOK(u), v.ref = [u.ref EXCEPT !.current = FALSE]
    PROVE  Stage(v, u) /\ v.ref.pc = u.ref.pc /\ v.ref.sent = u.ref.sent
BY Parts DEF Stage, Refs

LEMMA WaitsOK ==
    ASSUME NEW w, PageOK(w), w.act.op # "login"
    PROVE  LET v == Waits(w) IN
           /\ PageOK(v) /\ Stage(v, w) /\ v.sid = w.sid /\ v.ver = w.ver /\ v.act.reply = NoReply
           /\ ~Pending(v) /\ v.ref = WithRefresh(w).ref
<1> DEFINE a == [NoAct EXCEPT !.op = w.act.op, !.pc = "waiting"]
           n == WithRefresh(w)
           v == [n EXCEPT !.act = a]
<1>1. w.act \in Acts /\ w \in Pages
  BY Parts
<1>2. a \in Acts /\ a.pc = "waiting" /\ a.op = w.act.op /\ a.reply = NoReply
  BY <1>1, NoActOK DEF Acts
<1>3. ActOK(a)
  <2> HIDE DEF a
  <2> QED BY <1>2, NoReplyOK DEF ActOK
<1>4. Waits(w) = v
  <2>1. CASE w.ref.pc = "none"
    <3>1. [w EXCEPT !.act = a].ref = w.ref
      BY <1>1 DEF Pages
    <3>2. Waits(w) = [[w EXCEPT !.act = a] EXCEPT !.ref = NewRef]
      BY <2>1, <3>1 DEF Waits, WithRefresh
    <3>3. v = [[w EXCEPT !.ref = NewRef] EXCEPT !.act = a]
      BY <2>1 DEF WithRefresh
    <3> HIDE DEF a
    <3> QED BY <1>1, <3>2, <3>3 DEF Pages
  <2>2. CASE w.ref.pc # "none"
    <3>1. [w EXCEPT !.act = a].ref = w.ref
      BY <1>1 DEF Pages
    <3> QED BY <2>2, <3>1 DEF Waits, WithRefresh
  <2> QED BY <2>1, <2>2
<1>5. PageOK(n) /\ n.ref.pc # "none" /\ Stage(n, w) /\ n.sid = w.sid /\ n.ver = w.ver
  BY WithRefreshOK
<1> HIDE DEF a, n
<1>6. PageOK(v) /\ v.act = a /\ v.ref = n.ref /\ v.sid = n.sid /\ v.ver = n.ver
  BY <1>2, <1>3, <1>5, ActingOK
<1> HIDE DEF v
<1> QED BY <1>2, <1>4, <1>5, <1>6 DEF Stage, Pending, n

LEMMA ArriveActStep == ASSUME IInv, NEW t \in Tabs, ArriveAct(t) PROVE IInv'
<1> DEFINE w == tab[t]
           r == tab[t].act.reply
           d == [tab[t] EXCEPT !.act = NoAct]
<1>1. w.act.pc = "answered" /\ SetCookie(r) /\ UNCHANGED server
  BY DEF ArriveAct
<1>2. PageOK(w) /\ Safe(w, left[t], rows, ver) /\ left = [left EXCEPT ![t] = left[t]]
      /\ left[t] \subseteq {s \in Sids : rows[s].status = "over"}
  BY Typed
<1>3. r \in Replies /\ ActOK(w.act) /\ Known(r, ver)
  BY <1>2, Parts DEF Safe
<1>4. w.sid \in Seen /\ left[t] \subseteq Seen
  BY DEF Seen, SeenBy
<1>5. PageOK(d) /\ d.act = NoAct /\ d.ref = w.ref /\ d.sid = w.sid /\ d.ver = w.ver
  BY <1>2, NoActOK, ActingOK
<1>6. ASSUME NEW v, v.act = NoAct PROVE ~Pending(v)
  BY <1>6, NoActOK DEF Pending
<1> HIDE DEF d
<1>7. Safe(d, left[t], rows, ver)
  <2>1. Known(d.act.reply, ver)
    BY <1>5, NoActOK, NoReplyOK DEF Known
  <2> QED BY <1>2, <1>5, <2>1, SafeAct
<1>8. ASSUME NEW v, v.ref = [d.ref EXCEPT !.current = FALSE] PROVE Stage(v, w) /\ v.ref.sent = w.ref.sent /\ v.ref.pc = w.ref.pc
  BY <1>2, <1>5, <1>8, SupersededStage
<1>9. Stage(d, w) /\ ~Pending(d)
  BY <1>5, <1>6 DEF Stage
<1>10. left' = left => left' = [left EXCEPT ![t] = left[t]] /\ left[t] \subseteq left[t] \cup {w.sid}
  BY <1>2
<1>11. CASE w.act.op = "login" /\ HandleLoginSuccess(t, d, r) /\ UNCHANGED left
  <2> DEFINE v == ApplyAuthBundle(d, r)
  <2>1. Pending(w) /\ r.kind = "ok" /\ r.sid # 0
    BY <1>1, <1>3, <1>11 DEF Pending, ActOK
  <2>2. r.sid \notin left[t]
    BY <1>4, <2>1 DEF IInv, LoginsOK
  <2>3. PageOK(v) /\ v.sid = r.sid /\ v.act = d.act /\ v.ref = [d.ref EXCEPT !.current = FALSE]
        /\ Safe(v, left[t], rows, ver)
    BY <1>3, <1>5, <1>7, <2>1, <2>2, ApplyOK, SafeApply
  <2>4. Stay(t, v)
    BY <1>11 DEF HandleLoginSuccess
  <2> HIDE DEF v
  <2>5. Stage(v, w) /\ ~Pending(v)
    BY <1>5, <1>6, <1>8, <2>3
  <2>6. Familiar(t, v, v.sid)
    BY <2>1, <2>3, <2>5 DEF Familiar
  <2> QED BY <1>1, <1>10, <1>11, <2>3, <2>4, <2>5, <2>6, AnsweredStep
<1>12. CASE FinishLogout(t, d)
  <2> DEFINE v == ClearAuthentication(d)
  <2>1. Stay(t, v) /\ PutAway(t, w.sid)
    BY <1>5, <1>12 DEF FinishLogout
  <2>2. PICK lf : /\ left' = [left EXCEPT ![t] = lf] /\ lf \subseteq left[t] \cup {w.sid}
                  /\ lf \subseteq {s \in Sids : rows[s].status = "over"}
    BY <2>1, PutAwayOK
  <2>3. PageOK(v) /\ v.sid = 0 /\ v.act = d.act /\ v.ref = [d.ref EXCEPT !.current = FALSE]
        /\ Safe(v, lf, rows, ver)
    BY <1>5, <1>7, <2>2, ClearOK, SafeClear
  <2> HIDE DEF v
  <2>4. Stage(v, w) /\ ~Pending(v) /\ Familiar(t, v, v.sid)
    BY <1>5, <1>6, <1>8, <2>3 DEF Familiar
  <2> QED BY <1>1, <2>1, <2>2, <2>3, <2>4, AnsweredStep
<1>13. CASE Stay(t, d) /\ UNCHANGED left
  <2>1. Familiar(t, d, d.sid)
    BY <1>4, <1>5 DEF Familiar
  <2> QED BY <1>1, <1>5, <1>7, <1>9, <1>10, <1>13, <2>1, AnsweredStep
<1>14. CASE w.act.op = "security" /\ r.kind = "ok" /\ Stay(t, ApplyAuthRotation(d, r)) /\ UNCHANGED left
  <2>1. CASE d.sid = r.sid
    <3> DEFINE v == ApplyAuthBundle(d, r)
    <3>1. Stay(t, v)
      BY <1>14, <2>1 DEF ApplyAuthRotation
    <3>2. r.sid # 0 /\ r.sid \notin left[t]
      BY <1>2, <1>3, <1>5, <1>14, <2>1 DEF ActOK, Safe
    <3>3. PageOK(v) /\ v.sid = r.sid /\ v.act = d.act /\ v.ref = [d.ref EXCEPT !.current = FALSE]
          /\ Safe(v, left[t], rows, ver)
      BY <1>3, <1>5, <1>7, <1>14, <3>2, ApplyOK, SafeApply
    <3> HIDE DEF v
    <3>4. Stage(v, w) /\ ~Pending(v) /\ Familiar(t, v, v.sid)
      BY <1>4, <1>5, <1>6, <1>8, <2>1, <3>3 DEF Familiar
    <3> QED BY <1>1, <1>10, <1>14, <3>1, <3>3, <3>4, AnsweredStep
  <2>2. CASE d.sid # r.sid
    BY <1>13, <1>14, <2>2 DEF ApplyAuthRotation
  <2> QED BY <2>1, <2>2
<1>15. CASE r.kind \in {"mismatch", "401"} /\ Stay(t, Waits(w)) /\ UNCHANGED left
  <2> DEFINE v == Waits(w)
  <2>1. w.act.op # "login"
    BY <1>1, <1>3, <1>15 DEF ActOK
  <2>2. /\ PageOK(v) /\ Stage(v, w) /\ v.sid = w.sid /\ v.ver = w.ver /\ v.act.reply = NoReply
        /\ ~Pending(v) /\ v.ref = WithRefresh(w).ref
    BY <1>2, <2>1, WaitsOK
  <2>3. Stay(t, v)
    BY <1>15
  <2> HIDE DEF v
  <2>4. Safe(v, left[t], rows, ver)
    <3> DEFINE n == WithRefresh(w)
    <3>1. Safe(n, left[t], rows, ver) /\ n.sid = w.sid /\ n.ver = w.ver
      BY <1>2, SafeWithRefresh, WithRefreshOK
    <3>2. v.ref = n.ref
      BY <2>2
    <3> HIDE DEF n
    <3> QED BY <2>2, <3>1, <3>2, NoReplyOK, SafeAct DEF Known
  <2>5. Familiar(t, v, v.sid)
    BY <1>4, <2>2 DEF Familiar
  <2> QED BY <1>1, <1>10, <1>15, <2>2, <2>3, <2>4, <2>5, AnsweredStep
<1>16. CASE PutAway(t, w.sid) /\ (Stay(t, ClearAuthentication(d)) \/ Reload(t, ClearAuthentication(d)))
  <2> DEFINE v == ClearAuthentication(d)
  <2>1. PICK lf : /\ left' = [left EXCEPT ![t] = lf] /\ lf \subseteq left[t] \cup {w.sid}
                  /\ lf \subseteq {s \in Sids : rows[s].status = "over"}
    BY <1>16, PutAwayOK
  <2>2. PageOK(v) /\ v.sid = 0 /\ v.act = d.act /\ v.ref = [d.ref EXCEPT !.current = FALSE]
        /\ Safe(v, lf, rows, ver)
    BY <1>5, <1>7, <2>1, ClearOK, SafeClear
  <2>3. Stay(t, v) \/ Reload(t, v)
    BY <1>16
  <2> HIDE DEF v
  <2>4. Stage(v, w) /\ ~Pending(v) /\ Familiar(t, v, v.sid) /\ v.ref.sent = w.ref.sent /\ v.ref.pc = w.ref.pc
    BY <1>5, <1>6, <1>8, <2>2 DEF Familiar
  <2>5. CASE Stay(t, v)
    BY <1>1, <2>1, <2>2, <2>4, <2>5, AnsweredStep
  <2>6. CASE Reload(t, v)
    <3>1. ~Pending(NewTab)
      BY <1>6, NewTabOK
    <3>2. jar' \in CookieSet /\ Familiar(t, NewTab, jar'.sid) /\ (Fresh(jar', rows) \/ jar' = jar)
      BY <1>1, <3>1, ActCookie
    <3>3. v.ref.pc \notin {"asked", "answered"} => ~Carries(tab[t])
      BY <2>4 DEF Carries
    <3> QED BY <1>1, <2>1, <2>4, <2>6, <3>2, <3>3, ReloadStep
  <2> QED BY <2>3, <2>5, <2>6
<1> QED BY <1>11, <1>12, <1>13, <1>14, <1>15, <1>16 DEF ArriveAct, d

(* What another tab announces                                               *)
LEMMA DeliverStep == ASSUME IInv, NEW t \in Tabs, Deliver(t) PROVE IInv'
<1> DEFINE w == tab[t]
<1>1. UNCHANGED server /\ jar' = jar /\ jar \in CookieSet /\ PageOK(w) /\ Safe(w, left[t], rows, ver)
      /\ tab \in [Tabs -> Pages] /\ left = [left EXCEPT ![t] = left[t]]
  BY Typed DEF Deliver
<1>2. w.sid \in Seen /\ jar'.sid \in Seen
  BY <1>1 DEF Seen, SeenBy
<1>3. CASE PutAway(t, w.sid) /\ Reload(t, w)
  <2>1. PICK lf : /\ left' = [left EXCEPT ![t] = lf] /\ lf \subseteq left[t] \cup {w.sid}
                  /\ lf \subseteq {s \in Sids : rows[s].status = "over"}
    BY <1>3, PutAwayOK
  <2>2. Familiar(t, NewTab, jar'.sid)
    BY <1>2 DEF Familiar
  <2>3. w.ref.pc \notin {"asked", "answered"} => ~Carries(tab[t])
    BY DEF Carries
  <2> QED BY <1>1, <1>3, <2>1, <2>2, <2>3, ReloadStep
<1>4. CASE PutAway(t, w.sid) /\ Stay(t, ClearAuthentication(w))
  <2> DEFINE v == ClearAuthentication(w)
  <2>1. PICK lf : /\ left' = [left EXCEPT ![t] = lf] /\ lf \subseteq left[t] \cup {w.sid}
                  /\ lf \subseteq {s \in Sids : rows[s].status = "over"}
    BY <1>4, PutAwayOK
  <2>2. PageOK(v) /\ v.sid = 0 /\ v.act = w.act /\ v.ref = [w.ref EXCEPT !.current = FALSE]
        /\ Safe(v, lf, rows, ver)
    BY <1>1, <2>1, ClearOK, SafeClear
  <2>3. Become(t, v) /\ UNCHANGED <<adrift, lost>>
    BY <1>4 DEF Stay
  <2> HIDE DEF v
  <2>4. Stage(v, w) /\ Familiar(t, v, v.sid) /\ Familiar(t, v, jar'.sid)
    BY <1>1, <1>2, <2>2, SupersededStage DEF Familiar
  <2> QED BY <1>1, <2>1, <2>2, <2>3, <2>4, BecomeStep
<1>5. CASE UNCHANGED <<tab, lock, adrift, lost, left>>
  <2>1. tab' = [tab EXCEPT ![t] = w]
    BY <1>1, <1>5
  <2> QED BY <1>1, <1>5, <2>1, ActStep DEF Safe
<1> QED BY <1>3, <1>4, <1>5 DEF Deliver

-----------------------------------------------------------------------------
(* The server. What it makes of a session                                   *)

LEMMA RowsOK ==
    /\ NewRow \in Rows /\ NewRow.status = "active" /\ NewRow.gen = 1
    /\ NoRow.status = "none" /\ NoRow.gen = 1 /\ NewRow # NoRow
    /\ \A r \in Rows : r # NoRow /\ r.status \in {"active", "over"} /\ r.gen \in Nat
BY DEF Rows, NewRow, NoRow

LEMMA RowMade ==
    ASSUME NEW r \in Rows \cup {NoRow}
    PROVE  /\ Ended(r) \in Rows /\ Ended(r).status = "over" /\ Ended(r).gen = r.gen
           /\ r.status = "active" => /\ Rotated(r) \in Rows /\ Rotated(r).status = "active"
                                     /\ Rotated(r).gen = r.gen + 1
           /\ r.open => Closed(r) \in Rows /\ Closed(r).status = r.status /\ Closed(r).gen = r.gen
<1>1. CASE r \in Rows
  BY <1>1 DEF Rows, Ended, Rotated, Closed
<1>2. CASE r = NoRow
  BY <1>2 DEF Rows, Ended, Rotated, Closed, NoRow, NewRow
<1> QED BY <1>1, <1>2

(* One session changes, and no version                                      *)
LEMMA RowStep ==
    ASSUME IInv, NEW s \in Sids, NEW r \in Rows, rows' = [rows EXCEPT ![s] = r], ver' = ver,
           rows[s].status = "over" => r.status = "over", r.gen = rows[s].gen \/ s \in Seen
    PROVE  ServerOK' /\ Grows /\ RowsKept
<1>1. rows \in [Sids -> Rows \cup {NoRow}] /\ ver \in [Sids -> Nat]
  BY DEF IInv, ServerOK
<1>2. rows'[s] = r /\ \A u \in Sids : u # s => rows'[u] = rows[u]
  BY <1>1
<1>3. ServerOK'
  BY <1>1 DEF ServerOK
<1>4. Grows
  BY <1>1, <1>2 DEF Grows
<1>5. RowsKept
  BY <1>2, RowsOK DEF RowsKept
<1> QED BY <1>3, <1>4, <1>5

LEMMA RowsSame ==
    ASSUME IInv, rows' = rows, ver' = ver PROVE ServerOK' /\ Grows /\ RowsKept /\ Steady
<1>1. \A s \in Sids : ver[s] \in Nat
  BY DEF IInv, ServerOK
<1> QED BY <1>1 DEF IInv, ServerOK, Grows, RowsKept, Steady

(* A step that the pages take no part in                                    *)
LEMMA AwayStep ==
    ASSUME IInv, ServerOK', Grows, RowsKept, TurnsOK', UNCHANGED <<jar, tab, lock, left>>,
           adrift' \subseteq adrift
    PROVE  IInv'
<1>1. PagesOK'
  <2>1. ASSUME NEW u \in Tabs PROVE PageOK(tab[u]) /\ Safe(tab[u], left[u], rows', ver')
    BY Typed, SafeGrows
  <2> QED BY <2>1 DEF PagesOK, IInv
<1>2. Seen' \subseteq Seen
  BY DEF Seen
<1>3. ASSUME NEW u \in Tabs, Pending(tab[u]) PROVE tab[u].act.reply.sid \in Sids
  <2>1. PageOK(tab[u])
    BY Typed
  <2>2. tab[u].act.reply.sid # 0 /\ tab[u].act.reply.sid \in 0..MaxLogins
    BY <1>3, <2>1, Parts DEF Pending, ActOK, Replies
  <2> QED BY <2>2, InSids
<1>4. LoginsOK'
  <2>1. \A s \in Sids : rows'[s] = NoRow => s \notin Seen'
    BY <1>2 DEF RowsKept, IInv, LoginsOK
  <2>2. ASSUME NEW u \in Tabs, Pending(tab[u])
        PROVE  /\ tab[u].act.reply.sid \notin Seen'
               /\ rows'[tab[u].act.reply.sid] # NoRow
               /\ rows'[tab[u].act.reply.sid].gen = tab[u].act.reply.gen
    <3> DEFINE s == tab[u].act.reply.sid
    <3>1. s \in Sids
      BY <1>3, <2>2
    <3>2. s \notin Seen /\ rows[s] # NoRow /\ rows[s].gen = tab[u].act.reply.gen
      BY <2>2 DEF IInv, LoginsOK
    <3> HIDE DEF s
    <3>3. rows'[s] # NoRow /\ rows'[s].gen = rows[s].gen
      BY <3>1, <3>2 DEF RowsKept
    <3> QED BY <1>2, <3>2, <3>3 DEF s
  <2>3. \A u, v \in Tabs : u # v /\ Pending(tab[u]) /\ Pending(tab[v]) =>
           tab[u].act.reply.sid # tab[v].act.reply.sid
    BY DEF IInv, LoginsOK
  <2> QED BY <2>1, <2>2, <2>3 DEF LoginsOK
<1>5. LineOK' /\ BrowserOK'
  BY DEF IInv, LineOK, BrowserOK
<1> QED BY <1>1, <1>4, <1>5 DEF IInv

LEMMA FreshPages ==
    ASSUME IInv, Steady, NEW u \in Tabs
    PROVE  /\ Fresh(jar, rows) => Fresh(jar, rows')
           /\ Fresh(tab[u].ref.sent, rows) => Fresh(tab[u].ref.sent, rows')
           /\ Fresh(tab[u].ref.reply, rows) => Fresh(tab[u].ref.reply, rows')
<1>1. PageOK(tab[u]) /\ jar \in CookieSet
  BY Typed
<1>2. tab[u].ref.sent \in CookieSet /\ tab[u].ref.reply \in Replies
  BY <1>1, Parts
<1>3. jar.sid \in Seen /\ tab[u].ref.sent.sid \in Seen /\ tab[u].ref.reply.sid \in Seen
  BY DEF Seen, SeenBy
<1>4. /\ jar.sid = 0 \/ jar.sid \in Sids
      /\ tab[u].ref.sent.sid = 0 \/ tab[u].ref.sent.sid \in Sids
      /\ tab[u].ref.reply.sid = 0 \/ tab[u].ref.reply.sid \in Sids
  BY <1>1, <1>2, NoReplyOK, InSids DEF CookieSet, Replies
<1>5. Fresh(jar, rows) => Fresh(jar, rows')
  BY <1>3, <1>4, FreshSteady
<1>6. Fresh(tab[u].ref.sent, rows) => Fresh(tab[u].ref.sent, rows')
  BY <1>3, <1>4, FreshSteady
<1>7. Fresh(tab[u].ref.reply, rows) => Fresh(tab[u].ref.reply, rows')
  BY <1>3, <1>4, FreshSteady
<1> QED BY <1>5, <1>6, <1>7

LEMMA TurnsAway ==
    ASSUME IInv, Steady, UNCHANGED <<jar, tab, lock, adrift>>, lost' = lost, reused' = reused
    PROVE  TurnsOK'
<1> SUFFICES ASSUME Locks, ~lost' PROVE InTurn'
  BY DEF TurnsOK
<1>1. InTurn
  BY DEF IInv, TurnsOK
<1>2. Fresh(jar, rows) => Fresh(jar, rows')
  <2>1. jar.sid \in Seen /\ (jar.sid = 0 \/ jar.sid \in Sids)
    BY NoReplyOK DEF Seen, CookieSet, IInv, BrowserOK
  <2> QED BY <2>1, FreshSteady
<1>3. ASSUME NEW u \in Tabs
      PROVE  /\ tab[u].ref.pc \in {"asked", "answered"} => Leads(u)'
             /\ tab[u].ref.pc = "asked" => Fresh(tab[u].ref.sent, rows')
             /\ Carries(tab[u]) => Fresh(tab[u].ref.reply, rows')
  BY <1>1, FreshPages DEF InTurn, Leads
<1> QED BY <1>1, <1>2, <1>3 DEF InTurn

LEMMA ElsewhereStep ==
    ASSUME IInv, NEW s \in Sids, RevokeElsewhere(s) \/ CloseWindow(s) PROVE IInv'
<1>1. rows \in [Sids -> Rows \cup {NoRow}]
  BY DEF IInv, ServerOK
<1>2. PICK r \in Rows : rows' = [rows EXCEPT ![s] = r] /\ r.gen = rows[s].gen
                        /\ (r.status = "over" \/ r.status = rows[s].status)
  <2>1. CASE RevokeElsewhere(s)
    <3>1. Ended(rows[s]) \in Rows /\ Ended(rows[s]).status = "over" /\ Ended(rows[s]).gen = rows[s].gen
      BY <1>1, RowMade
    <3> QED BY <2>1, <3>1 DEF RevokeElsewhere
  <2>2. CASE CloseWindow(s)
    <3>1. Closed(rows[s]) \in Rows /\ Closed(rows[s]).status = rows[s].status /\ Closed(rows[s]).gen = rows[s].gen
      BY <1>1, <2>2, RowMade DEF CloseWindow
    <3> QED BY <2>2, <3>1 DEF CloseWindow
  <2> QED BY <2>1, <2>2
<1>3. UNCHANGED <<jar, tab, lock, left, adrift>> /\ ver' = ver /\ lost' = lost /\ reused' = reused
  BY DEF RevokeElsewhere, CloseWindow
<1>4. ServerOK' /\ Grows /\ RowsKept
  BY <1>2, <1>3, RowStep
<1>5. Steady
  BY <1>1, <1>2 DEF Steady
<1>6. TurnsOK'
  BY <1>3, <1>5, TurnsAway
<1> QED BY <1>3, <1>4, <1>6, AwayStep

(* The refresh of a session that somebody knows                             *)
LEMMA RefreshedStep ==
    ASSUME IInv, NEW e, NEW c \in CookieSet, c # NoCookie => c.sid \in Seen,
           ServerRefreshes(e, c), ver' = ver
    PROVE  ServerOK' /\ Grows /\ RowsKept
<1>1. CASE rows' = rows
  BY <1>1, RowsSame
<1>2. CASE c # NoCookie /\ rows' = [rows EXCEPT ![c.sid] = RefreshedRow(@, c.gen)]
  <2> DEFINE r == rows[c.sid]
  <2>1. c.sid \in Sids /\ r \in Rows \cup {NoRow} /\ c.gen \in Nat
        /\ rows \in [Sids -> Rows \cup {NoRow}] /\ c.sid \in Seen
    BY <1>2 DEF CookieSet, IInv, ServerOK
  <2>2. r.status = "active" => r \in Rows
    BY <2>1, RowsOK
  <2>3. CASE RefreshedRow(r, c.gen) = r
    <3>1. rows' = rows
      BY <1>2, <2>1, <2>3
    <3> QED BY <3>1, <1>1
  <2>4. CASE r.status = "active" /\ RefreshedRow(r, c.gen) \in {Rotated(r), Ended(r)}
    <3> DEFINE n == RefreshedRow(r, c.gen)
    <3>1. n \in Rows
      BY <2>1, <2>4, RowMade
    <3>2. rows' = [rows EXCEPT ![c.sid] = n]
      BY <1>2, <2>1
    <3> HIDE DEF n
    <3> QED BY <2>1, <2>4, <3>1, <3>2, RowStep
  <2> QED BY <2>3, <2>4 DEF RefreshedRow, Current, Replayed
<1> QED BY <1>1, <1>2 DEF ServerRefreshes

LEMMA ServeAdriftStep == ASSUME IInv, NEW c \in adrift, ServeAdrift(c) PROVE IInv'
<1>1. c \in CookieSet /\ c.sid \in Seen
  BY DEF IInv, BrowserOK, CookieSet, Seen
<1>2. UNCHANGED <<jar, tab, lock, left>> /\ adrift' \subseteq adrift /\ ver' = ver /\ lost' = lost
      /\ ServerRefreshes(0, c)
  BY DEF ServeAdrift
<1>3. ServerOK' /\ Grows /\ RowsKept
  BY <1>1, <1>2, RefreshedStep
<1>4. TurnsOK'
  BY <1>2 DEF IInv, TurnsOK, InTurn
<1> QED BY <1>2, <1>3, <1>4, AwayStep

LEMMA RefreshReplyOK ==
    ASSUME IInv, NEW e, NEW c \in CookieSet
    PROVE  LET r == RefreshReply(e, c) IN
           /\ r \in Replies
           /\ \/ r.kind # "ok" /\ r.cookie # "set" /\ r.sid = 0
              \/ /\ c # NoCookie /\ e \in {0, c.sid} /\ r.sid = c.sid /\ r.gen = c.gen + 1
                 /\ r.ver = ver[c.sid] /\ r.cookie = "set"
                 /\ Current(rows[c.sid], c.gen) \/ Recoverable(rows[c.sid], c.gen)
           /\ c # NoCookie /\ e \in {0, c.sid} /\ Current(rows[c.sid], c.gen) => r.cookie = "set"
<1> DEFINE r == RefreshReply(e, c)
<1>1. ASSUME NEW k \in {"401", "mismatch"}, NEW o \in {"keep", "clear"}
      PROVE  Bare(k, o) \in Replies /\ Bare(k, o).kind # "ok" /\ Bare(k, o).cookie # "set" /\ Bare(k, o).sid = 0
  BY NoReplyOK DEF Bare, Replies
<1>2. CASE r \in {Bare("401", "clear"), Bare("mismatch", "keep")} /\
           ~(c # NoCookie /\ e \in {0, c.sid} /\ Current(rows[c.sid], c.gen))
  BY <1>1, <1>2
<1>3. CASE /\ c # NoCookie /\ e \in {0, c.sid}
           /\ Current(rows[c.sid], c.gen) \/ Recoverable(rows[c.sid], c.gen)
           /\ r = [kind |-> "ok", sid |-> c.sid, ver |-> ver[c.sid], cookie |-> "set", gen |-> c.gen + 1]
  <2>1. c.sid \in Sids /\ c.gen \in Nat /\ ver[c.sid] \in Nat /\ c.sid \in 0..MaxLogins
    BY <1>3, Constants DEF CookieSet, IInv, ServerOK
  <2> QED BY <1>3, <2>1 DEF Replies
<1>4. CASE c = NoCookie
  BY <1>2, <1>4 DEF RefreshReply
<1>5. CASE c # NoCookie /\ e \notin {0, c.sid}
  BY <1>2, <1>5 DEF RefreshReply
<1>6. CASE c # NoCookie /\ e \in {0, c.sid}
  <2>1. r = IF Current(rows[c.sid], c.gen) \/ Recoverable(rows[c.sid], c.gen)
            THEN [kind |-> "ok", sid |-> c.sid, ver |-> ver[c.sid], cookie |-> "set", gen |-> c.gen + 1]
            ELSE Bare("401", "clear")
    BY <1>6 DEF RefreshReply
  <2> HIDE DEF r
  <2>2. CASE Current(rows[c.sid], c.gen) \/ Recoverable(rows[c.sid], c.gen)
    BY <1>3, <1>6, <2>1, <2>2
  <2>3. CASE ~(Current(rows[c.sid], c.gen) \/ Recoverable(rows[c.sid], c.gen))
    BY <1>2, <2>1, <2>3
  <2> QED BY <2>2, <2>3
<1> QED BY <1>4, <1>5, <1>6

LEMMA ServeRefreshStep == ASSUME IInv, NEW t \in Tabs, ServeRefresh(t) PROVE IInv'
<1> DEFINE w == tab[t]
           c == tab[t].ref.sent
           e == tab[t].ref.expect
           r == RefreshReply(e, c)
           f == [w.ref EXCEPT !.pc = "answered", !.expect = 0, !.sent = NoCookie, !.reply = r]
           v == [w EXCEPT !.ref = f]
<1>1. PageOK(w) /\ Safe(w, left[t], rows, ver) /\ tab \in [Tabs -> Pages] /\ LineOK /\ PagesOK
      /\ left = [left EXCEPT ![t] = left[t]] /\ left[t] \subseteq {s \in Sids : rows[s].status = "over"}
  BY Typed
<1>2. w.ref \in Refs /\ c \in CookieSet /\ w.act \in Acts /\ w.sid \in 0..MaxLogins
  BY <1>1, Parts
<1>3. w.ref.pc = "asked" /\ ServerRefreshes(e, c) /\ ver' = ver
      /\ jar' = jar /\ lock' = lock /\ adrift' = adrift /\ left' = left /\ lost' = lost
  BY DEF ServeRefresh
<1>4. tab' = [tab EXCEPT ![t] = v]
  <2>1. tab' = [tab EXCEPT ![t].ref = f]
    BY DEF ServeRefresh
  <2> HIDE DEF f
  <2> QED BY <1>1, <2>1
<1>5. c.sid \in Seen /\ w.sid \in Seen /\ jar.sid \in Seen
  BY DEF Seen, SeenBy
<1>6. ServerOK' /\ Grows /\ RowsKept
  BY <1>2, <1>3, <1>5, RefreshedStep
<1>7. /\ r \in Replies
      /\ \/ r.kind # "ok" /\ r.cookie # "set" /\ r.sid = 0
         \/ /\ c # NoCookie /\ e \in {0, c.sid} /\ r.sid = c.sid /\ r.gen = c.gen + 1
            /\ r.ver = ver[c.sid] /\ r.cookie = "set"
            /\ Current(rows[c.sid], c.gen) \/ Recoverable(rows[c.sid], c.gen)
      /\ c # NoCookie /\ e \in {0, c.sid} /\ Current(rows[c.sid], c.gen) => r.cookie = "set"
  BY <1>2, RefreshReplyOK
<1>8. c # NoCookie => c.sid \in Sids /\ c.gen \in Nat /\ c.sid # 0
  BY <1>2, Constants DEF CookieSet
<1> HIDE DEF r
<1>9. f \in Refs /\ f.pc = "answered" /\ f.sent = NoCookie /\ f.reply = r
  <2>1. 0 \in 0..MaxLogins /\ NoCookie \in CookieSet
    BY Constants, NoReplyOK
  <2> QED BY <1>2, <1>7, <2>1 DEF Refs
<1> HIDE DEF f
<1>10. RefOK(f)
  BY <1>7, <1>8, <1>9 DEF RefOK
<1>11. PageOK(v) /\ v.ref = f /\ v.act = w.act /\ v.sid = w.sid /\ v.ver = w.ver
  BY <1>1, <1>9, <1>10, RefreshingOK
<1> HIDE DEF v
<1>12. Safe(v, left[t], rows', ver')
  <2>1. Safe(w, left[t], rows', ver')
    BY <1>1, <1>6, SafeGrows
  <2>2. \A s \in Sids : ver[s] \in Nat
    BY DEF IInv, ServerOK
  <2>3. r.kind = "ok" => r.sid = c.sid /\ r.sid \in Sids /\ r.ver = ver[r.sid] /\ rows[r.sid].status = "active"
    BY <1>7, <1>8 DEF Current, Recoverable
  <2>4. r.kind = "ok" => r.sid \notin left[t]
    BY <1>1, <2>3
  <2>5. Known(r, ver')
    BY <1>3, <2>2, <2>3 DEF Known
  <2>6. r.kind = "ok" /\ r.sid = w.sid => w.ver <= r.ver
    BY <1>1, <1>8, <2>3, Constants DEF Safe
  <2> QED BY <1>9, <1>11, <2>1, <2>4, <2>5, <2>6 DEF Safe
<1>13. PagesOK' /\ left' \in [Tabs -> SUBSET Sids]
  BY <1>1, <1>3, <1>4, <1>6, <1>11, <1>12, PagesStep
<1>14. LoginsOK'
  <2>1. left[t] \subseteq Seen /\ r.sid \in Seen \cup {0}
    <3>1. left[t] \subseteq SeenBy(tab[t], left[t])
      BY DEF SeenBy
    <3>2. SeenBy(tab[t], left[t]) \subseteq Seen
      BY DEF Seen
    <3>3. r.sid = 0 \/ r.sid = c.sid
      BY ONLY <1>7
    <3>4. r.sid \in Seen \cup {0}
      BY ONLY <1>5, <3>3
    <3> QED BY ONLY <3>1, <3>2, <3>4
  <2>2. \A s \in SeenBy(v, left[t]) \cup {jar'.sid} : s \in Seen \cup {0}
    BY <1>3, <1>5, <1>9, <1>11, <2>1, NoReplyOK DEF SeenBy
  <2>3. adrift' \subseteq adrift \cup ({tab[t].ref.sent} \ {NoCookie}) /\ left' = [left EXCEPT ![t] = left[t]]
    BY <1>1, <1>3
  <2> QED BY <1>4, <1>6, <1>11, <2>2, <2>3, LoginsStep
<1>15. LineOK' /\ BrowserOK'
  <2>1. LineOK'
    BY <1>1, <1>3, <1>4, <1>9, <1>11, LineSame
  <2> QED BY <1>3, <1>13, <2>1 DEF BrowserOK, IInv
<1>16. ASSUME Locks, ~lost PROVE InTurn'
  <2>1. InTurn
    BY <1>16 DEF IInv, TurnsOK
  <2>2. Leads(t) /\ Fresh(c, rows) /\ ~reused /\ adrift = {}
    BY <1>3, <2>1 DEF InTurn
  <2>3. \A u \in Tabs : u # t => tab[u].ref.pc \notin {"asked", "answered"}
    BY <2>1, <2>2 DEF InTurn, Leads
  <2>4. Fresh(jar, rows)
    <3>1. \A u \in Tabs : ~Carries(tab[u])
      BY <1>3, <2>3 DEF Carries
    <3> QED BY <2>1, <3>1 DEF InTurn
  <2>5. tab'[t] = v /\ \A u \in Tabs : u # t => tab'[u] = tab[u]
    BY <1>1, <1>4
  <2> DEFINE go == c # NoCookie /\ e \in {0, c.sid} /\ Current(rows[c.sid], c.gen)
  <2>6. CASE go
    <3>1. rows[c.sid] \in Rows /\ rows \in [Sids -> Rows \cup {NoRow}] /\ c.gen = rows[c.sid].gen
          /\ rows[c.sid].status = "active"
      BY <1>8, <2>6, RowsOK DEF IInv, ServerOK, Current
    <3>2. rows' = [rows EXCEPT ![c.sid] = Rotated(rows[c.sid])]
          /\ reused' = (reused \/ Replayed(rows[c.sid], c.gen))
      BY <1>3, <2>6, <3>1 DEF ServerRefreshes, RefreshedRow
    <3>3. ~Replayed(rows[c.sid], c.gen)
      BY <3>1, RowsOK DEF Replayed
    <3>4. rows'[c.sid].gen = c.gen + 1
      <4>1. rows'[c.sid] = Rotated(rows[c.sid])
        BY <1>8, <2>6, <3>1, <3>2
      <4>2. Rotated(rows[c.sid]).gen = rows[c.sid].gen + 1
        BY <3>1, RowMade
      <4> QED BY <3>1, <4>1, <4>2
    <3>5. r.cookie = "set" /\ r.sid = c.sid /\ r.gen = c.gen + 1
      BY <1>7, <2>6
    <3>6. Carries(v) /\ Fresh(v.ref.reply, rows')
      BY <1>9, <1>11, <3>4, <3>5 DEF Carries, Fresh
    <3>7. ~reused'
      BY <2>2, <3>2, <3>3
    <3> QED BY <1>3, <1>9, <1>11, <2>2, <2>3, <2>5, <3>6, <3>7 DEF InTurn, Leads, Carries
  <2>7. CASE ~go
    <3>1. rows' = rows /\ ~reused'
      <4>1. CASE c = NoCookie \/ e \notin {0, c.sid}
        BY <1>3, <2>2, <4>1 DEF ServerRefreshes
      <4>2. CASE c # NoCookie /\ e \in {0, c.sid}
        <5>1. rows[c.sid].status # "active"
          BY <1>8, <2>2, <2>7, <4>2 DEF Fresh, Current
        <5>2. rows' = [rows EXCEPT ![c.sid] = RefreshedRow(rows[c.sid], c.gen)]
              /\ reused' = (reused \/ Replayed(rows[c.sid], c.gen))
          BY <1>3, <1>8, <4>2 DEF ServerRefreshes, IInv, ServerOK
        <5>3. ~Replayed(rows[c.sid], c.gen) /\ RefreshedRow(rows[c.sid], c.gen) = rows[c.sid]
          BY <5>1 DEF RefreshedRow, Replayed, Current
        <5>4. rows' = rows
          BY <1>8, <4>2, <5>2, <5>3 DEF IInv, ServerOK
        <5> QED BY <2>2, <5>2, <5>3, <5>4
      <4> QED BY <4>1, <4>2
    <3>2. r.cookie # "set"
      <4>1. ASSUME r.cookie = "set" PROVE FALSE
        <5>1. c # NoCookie /\ e \in {0, c.sid} /\ rows[c.sid].status = "active"
          BY <1>7, <4>1 DEF Current, Recoverable
        <5> QED BY <1>8, <2>2, <2>7, <5>1 DEF Fresh, Current
      <4> QED BY <4>1
    <3>3. ~Carries(v)
      BY <1>9, <1>11, <3>2 DEF Carries
    <3> QED BY <1>3, <1>9, <1>11, <2>2, <2>3, <2>4, <2>5, <3>1, <3>3 DEF InTurn, Leads, Carries
  <2> QED BY <2>6, <2>7
<1>17. TurnsOK'
  BY <1>3, <1>16 DEF TurnsOK
<1> QED BY <1>6, <1>13, <1>14, <1>15, <1>17 DEF IInv

(* The answer to a user action                                              *)
LEMMA AnswerOK ==
    ASSUME IInv, NEW t \in Tabs, tab[t].act.pc = "asked", NEW r \in Replies, Answer(t, r),
           r.cookie = "set" => tab[t].act.op = "login",
           tab[t].act.op = "login" => r.kind = "ok" /\ r.sid # 0,
           tab[t].act.op = "security" /\ r.kind = "ok" => r.sid # 0
    PROVE  \E v : /\ tab' = [tab EXCEPT ![t] = v] /\ PageOK(v)
                  /\ v.ref = tab[t].ref /\ v.sid = tab[t].sid /\ v.ver = tab[t].ver
                  /\ v.act.reply = r /\ v.act.op = tab[t].act.op /\ v.act.pc = "answered"
<1> DEFINE w == tab[t]
           a == [NoAct EXCEPT !.op = w.act.op, !.pc = "answered", !.again = w.act.again, !.reply = r]
           v == [w EXCEPT !.act = a]
<1>1. PageOK(w) /\ tab \in [Tabs -> Pages] /\ w.act \in Acts
  BY Typed, Parts
<1>2. a \in Acts /\ a.pc = "answered" /\ a.op = w.act.op /\ a.reply = r
  BY <1>1, NoActOK DEF Acts
<1>3. tab' = [tab EXCEPT ![t] = v]
  <2>1. tab' = [tab EXCEPT ![t].act = a]
    BY DEF Answer
  <2> HIDE DEF a
  <2> QED BY <1>1, <2>1
<1> HIDE DEF a
<1>4. ActOK(a)
  BY <1>2 DEF ActOK
<1>5. PageOK(v) /\ v.act = a /\ v.ref = w.ref /\ v.sid = w.sid /\ v.ver = w.ver
  BY <1>1, <1>2, <1>4, ActingOK
<1> QED BY <1>2, <1>3, <1>5

LEMMA ServedStep ==
    ASSUME IInv, ServerOK', Grows, Steady, LoginsOK', reused' = reused, NEW t \in Tabs, NEW v,
           tab' = [tab EXCEPT ![t] = v], PageOK(v), Known(v.act.reply, ver'),
           v.ref = tab[t].ref, v.sid = tab[t].sid, v.ver = tab[t].ver,
           UNCHANGED <<jar, lock, adrift, left>>, lost' = lost
    PROVE  IInv'
<1>1. PageOK(tab[t]) /\ Safe(tab[t], left[t], rows, ver) /\ LineOK /\ PagesOK
      /\ left = [left EXCEPT ![t] = left[t]]
  BY Typed
<1>2. Safe(v, left[t], rows', ver')
  <2>1. Safe(tab[t], left[t], rows', ver')
    BY <1>1, SafeGrows
  <2> QED BY <2>1, SafeAct
<1>3. PagesOK' /\ left' \in [Tabs -> SUBSET Sids]
  BY <1>1, <1>2, PagesStep
<1>4. LineOK' /\ Kept(t) /\ (Leads(t) => Leads(t)')
  BY <1>1, LineSame
<1>5. TurnsOK'
  <2>1. ASSUME InTurn PROVE TurnOf(t, v)
    BY <1>4, <2>1, FreshPages DEF TurnOf, InTurn, Carries
  <2> QED BY <1>4, <2>1, TurnsStep
<1>6. BrowserOK'
  BY <1>3 DEF IInv, BrowserOK
<1> QED BY <1>3, <1>4, <1>5, <1>6 DEF IInv

(* ... that brings no new session                                           *)
LEMMA ServedLogins ==
    ASSUME IInv, RowsKept, NEW t \in Tabs, NEW v, tab' = [tab EXCEPT ![t] = v],
           v.act.op # "login", v.ref = tab[t].ref, v.sid = tab[t].sid, UNCHANGED <<jar, adrift, left>>
    PROVE  LoginsOK'
<1>1. left' = [left EXCEPT ![t] = left[t]] /\ ~Pending(v)
      /\ adrift' \subseteq adrift \cup ({tab[t].ref.sent} \ {NoCookie})
  BY Typed DEF Pending
<1>2. \A s \in SeenBy(v, left[t]) \cup {jar'.sid} : s \in Seen
  BY DEF Seen, SeenBy
<1> QED BY <1>1, <1>2, LoginsStep

LEMMA ServeLogoutStep == ASSUME IInv, NEW t \in Tabs, ServeLogout(t) PROVE IInv'
<1> DEFINE a == tab[t].act
           r == IF LogoutMismatch(a) THEN Bare("mismatch", "keep")
                ELSE Bare("ok", IF ~a.fresh \/ a.sent # NoCookie THEN "clear" ELSE "keep")
<1>1. PageOK(tab[t]) /\ rows \in [Sids -> Rows \cup {NoRow}] /\ a.pc = "asked" /\ a.op = "logout"
      /\ Answer(t, r) /\ ver' = ver /\ UNCHANGED <<jar, lock, adrift, left>> /\ lost' = lost /\ reused' = reused
  BY Typed DEF ServeLogout
<1>2. a \in Acts /\ a.sid \in 0..MaxLogins /\ a.sent \in CookieSet
  BY <1>1, Parts DEF Acts
<1>3. r \in Replies /\ r.cookie # "set" /\ r.sid = 0
  BY NoReplyOK DEF Bare, Replies
<1> HIDE DEF r
<1>4. PICK v : /\ tab' = [tab EXCEPT ![t] = v] /\ PageOK(v)
               /\ v.ref = tab[t].ref /\ v.sid = tab[t].sid /\ v.ver = tab[t].ver
               /\ v.act.reply = r /\ v.act.op = tab[t].act.op
  BY <1>1, <1>3, AnswerOK
<1>5. ServerOK' /\ Grows /\ RowsKept /\ Steady
  <2>1. CASE rows' = rows
    BY <1>1, <2>1, RowsSame
  <2>2. CASE LogoutSid(a) # 0 /\ rows' = [rows EXCEPT ![LogoutSid(a)] = Ended(@)]
    <3> DEFINE s == LogoutSid(a)
    <3>1. s \in Sids
      BY <1>2, <2>2, InSids DEF LogoutSid, CookieSet
    <3> HIDE DEF s
    <3>2. Ended(rows[s]) \in Rows /\ Ended(rows[s]).status = "over" /\ Ended(rows[s]).gen = rows[s].gen
      BY <1>1, <3>1, RowMade
    <3>3. rows' = [rows EXCEPT ![s] = Ended(rows[s])]
      BY <1>1, <2>2 DEF s
    <3>4. ServerOK' /\ Grows /\ RowsKept
      BY <1>1, <3>1, <3>2, <3>3, RowStep
    <3>5. Steady
      BY <1>1, <3>1, <3>2, <3>3 DEF Steady
    <3> QED BY <3>4, <3>5
  <2> QED BY <2>1, <2>2 DEF ServeLogout
<1>6. LoginsOK'
  BY <1>1, <1>4, <1>5, ServedLogins
<1>7. Known(v.act.reply, ver')
  BY <1>3, <1>4 DEF Known
<1> QED BY <1>1, <1>4, <1>5, <1>6, <1>7, ServedStep

LEMMA ServeCallStep == ASSUME IInv, NEW t \in Tabs, ServeCall(t) PROVE IInv'
<1> DEFINE a == tab[t].act
           ok == [NoReply EXCEPT !.kind = "ok", !.sid = a.sid, !.ver = ver'[a.sid]]
           r == IF TokenValid(a) THEN ok ELSE Bare("401", "keep")
<1>1. PageOK(tab[t]) /\ ver \in [Sids -> Nat] /\ a.pc = "asked" /\ a.op \in {"api", "security"}
      /\ Answer(t, r) /\ rows' = rows /\ UNCHANGED <<jar, lock, adrift, left>> /\ lost' = lost /\ reused' = reused
      /\ ver' = IF TokenValid(a) /\ a.op = "security" THEN [ver EXCEPT ![a.sid] = @ + 1] ELSE ver
  BY Typed DEF ServeCall
<1>2. a \in Acts /\ a.sid \in 0..MaxLogins /\ (TokenValid(a) => a.sid # 0 /\ a.sid \in Sids)
  BY <1>1, Parts, InSids DEF Acts, TokenValid
<1>3. ver' \in [Sids -> Nat] /\ \A s \in Sids : ver[s] <= ver'[s]
  BY <1>1, <1>2
<1>4. r \in Replies /\ r.cookie # "set" /\ (r.kind = "ok" => r.sid # 0) /\ Known(r, ver')
  <2>1. CASE TokenValid(a)
    <3>1. ver'[a.sid] \in Nat /\ r = ok
      BY <1>2, <1>3, <2>1
    <3>2. ok \in Replies /\ ok.cookie = "keep" /\ ok.sid = a.sid /\ ok.ver = ver'[a.sid]
      BY <1>2, <3>1, NoReplyOK DEF Replies
    <3> HIDE DEF ok, r
    <3> QED BY <1>2, <2>1, <3>1, <3>2 DEF Known
  <2>2. CASE ~TokenValid(a)
    BY <2>2, NoReplyOK DEF Bare, Replies, Known
  <2> QED BY <2>1, <2>2
<1> HIDE DEF r
<1>5. PICK v : /\ tab' = [tab EXCEPT ![t] = v] /\ PageOK(v)
               /\ v.ref = tab[t].ref /\ v.sid = tab[t].sid /\ v.ver = tab[t].ver
               /\ v.act.reply = r /\ v.act.op = tab[t].act.op
  BY <1>1, <1>4, AnswerOK
<1>6. ServerOK' /\ Grows /\ RowsKept /\ Steady
  BY <1>1, <1>3 DEF ServerOK, IInv, Grows, RowsKept, Steady
<1>7. LoginsOK'
  BY <1>1, <1>5, <1>6, ServedLogins
<1> QED BY <1>1, <1>4, <1>5, <1>6, <1>7, ServedStep

LEMMA ServeLoginStep == ASSUME IInv, NEW t \in Tabs, ServeLogin(t) PROVE IInv'
<1>1. PICK s \in Sids :
        /\ tab[t].act.pc = "asked" /\ tab[t].act.op = "login" /\ rows[s] = NoRow
        /\ rows' = [rows EXCEPT ![s] = NewRow]
        /\ Answer(t, [kind |-> "ok", sid |-> s, ver |-> ver[s], cookie |-> "set", gen |-> 1])
        /\ ver' = ver /\ UNCHANGED <<jar, lock, adrift, left>> /\ lost' = lost /\ reused' = reused
  BY DEF ServeLogin
<1> DEFINE r == [kind |-> "ok", sid |-> s, ver |-> ver[s], cookie |-> "set", gen |-> 1]
<1>2. rows \in [Sids -> Rows \cup {NoRow}] /\ ver \in [Sids -> Nat] /\ s # 0 /\ s \in 0..MaxLogins
  BY Constants DEF IInv, ServerOK
<1>3. r \in Replies /\ r.sid = s /\ r.kind = "ok" /\ r.gen = 1 /\ Known(r, ver')
  BY <1>1, <1>2 DEF Replies, Known
<1>4. Answer(t, r)
  BY <1>1
<1> HIDE DEF r
<1>5. PICK v : /\ tab' = [tab EXCEPT ![t] = v] /\ PageOK(v)
               /\ v.ref = tab[t].ref /\ v.sid = tab[t].sid /\ v.ver = tab[t].ver
               /\ v.act.reply = r /\ v.act.op = tab[t].act.op /\ v.act.pc = "answered"
  BY <1>1, <1>2, <1>3, <1>4, AnswerOK
<1>6. s \notin Seen
  BY <1>1 DEF IInv, LoginsOK
<1>7. rows'[s] = NewRow /\ \A u \in Sids : u # s => rows'[u] = rows[u]
  BY <1>1, <1>2
<1>8. ServerOK' /\ Grows /\ RowsKept
  BY <1>1, RowsOK, RowStep
<1>9. Steady
  BY <1>6, <1>7 DEF Steady
<1>10. tab'[t] = v /\ left' = left /\ \A u \in Tabs : u # t => tab'[u] = tab[u]
  BY <1>1, <1>5, Typed
<1>11. Seen' \subseteq Seen
  <2>1. \A u \in Tabs : SeenBy(tab'[u], left'[u]) = SeenBy(tab[u], left[u])
    BY <1>5, <1>10 DEF SeenBy
  <2> QED BY <1>1, <2>1 DEF Seen
<1>12. ASSUME NEW u \in Tabs, u # t, Pending(tab[u])
       PROVE  LET x == tab[u].act.reply.sid IN
              x \in Sids /\ x # s /\ x \notin Seen /\ rows'[x] # NoRow /\ rows'[x].gen = tab[u].act.reply.gen
  <2>1. PageOK(tab[u])
    BY Typed
  <2>2. tab[u].act.reply.sid # 0 /\ tab[u].act.reply.sid \in 0..MaxLogins
    BY <1>12, <2>1, Parts DEF Pending, ActOK, Replies
  <2>3. tab[u].act.reply.sid \in Sids
    BY <2>2, InSids
  <2> QED BY <1>1, <1>7, <1>12, <2>3 DEF IInv, LoginsOK
<1>13. LoginsOK'
  <2>1. \A x \in Sids : rows'[x] = NoRow => x \notin Seen'
    BY <1>8, <1>11 DEF RowsKept, IInv, LoginsOK
  <2>2. ASSUME NEW u \in Tabs, Pending(tab'[u])
        PROVE  /\ tab'[u].act.reply.sid \notin Seen'
               /\ rows'[tab'[u].act.reply.sid] # NoRow
               /\ rows'[tab'[u].act.reply.sid].gen = tab'[u].act.reply.gen
    <3>1. CASE u = t
      BY <1>3, <1>5, <1>6, <1>7, <1>10, <1>11, <3>1, RowsOK
    <3>2. CASE u # t
      BY <1>10, <1>11, <1>12, <2>2, <3>2
    <3> QED BY <3>1, <3>2
  <2>3. ASSUME NEW u \in Tabs, NEW x \in Tabs, u # x, Pending(tab'[u]), Pending(tab'[x])
        PROVE  tab'[u].act.reply.sid # tab'[x].act.reply.sid
    <3>1. CASE u = t
      BY <1>3, <1>5, <1>10, <1>12, <2>3, <3>1
    <3>2. CASE x = t
      BY <1>3, <1>5, <1>10, <1>12, <2>3, <3>2
    <3>3. CASE u # t /\ x # t
      BY <1>10, <2>3, <3>3 DEF IInv, LoginsOK
    <3> QED BY <3>1, <3>2, <3>3
  <2> QED BY <2>1, <2>2, <2>3 DEF LoginsOK
<1> QED BY <1>1, <1>3, <1>5, <1>8, <1>9, <1>13, ServedStep

-----------------------------------------------------------------------------
(* Where it starts: every tab is loaded, and they stand in line in some     *)
(* order                                                                    *)
LEMMA InLine == ASSUME NEW l \in SetToSeqs(Tabs) PROVE l \in Seq(Tabs) /\ IsInjective(l) /\ ToSet(l) = Tabs
<1> DEFINE n == Cardinality(Tabs)
<1>1. n \in Nat /\ IsFiniteSet(Tabs)
  BY Constants, FS_CardinalityType
<1>2. l \in [1..n -> Tabs] /\ \A i, j \in 1..n : i # j => l[i] # l[j]
  BY DEF SetToSeqs
<1>3. Cardinality(1..n) = n
  BY <1>1, FS_Interval
<1> HIDE DEF n
<1>4. l \in Seq(Tabs) /\ DOMAIN l = 1..n /\ IsInjective(l)
  <2>1. l \in Seq(Tabs) /\ DOMAIN l = 1..n
    BY <1>1, <1>2, SeqDef
  <2> QED BY <1>2, <2>1 DEF IsInjective
<1>5. l \in Injection(1..n, Tabs)
  BY <1>2 DEF Injection, IsInjective
<1>6. l \in Surjection(1..n, Tabs)
  BY <1>1, <1>3, <1>5, FS_Injection DEF n
<1>7. ToSet(l) = Tabs
  BY <1>2, <1>4, <1>6 DEF ToSet, Surjection
<1> QED BY <1>4, <1>7

LEMMA InitInv == Init => IInv
<1> SUFFICES ASSUME Init PROVE IInv
  OBVIOUS
<1>1. ServerOK
  BY RowsOK DEF Init, ServerOK
<1>2. BrowserOK
  BY WebAssumption DEF Init, BrowserOK, CookieSet, Sids
<1>3. \A t \in Tabs : tab[t] = NewTab /\ left[t] = {}
  BY DEF Init
<1>4. LineOK
  <2>1. lock \in Seq(Tabs) /\ IsInjective(lock) /\ ToSet(lock) = Tabs
    BY InLine DEF Init
  <2>2. \A t \in Tabs : tab[t].ref.pc # "none"
    BY <1>3, NewTabOK, NoRefOK
  <2> QED BY <2>1, <2>2 DEF LineOK
<1>5. PagesOK
  <2>1. tab \in [Tabs -> Pages]
    BY NewTabOK, Parts DEF Init
  <2> QED BY <1>3, <2>1, NewTabOK, SafeNew DEF PagesOK
<1>6. LoginsOK
  <2>1. \A t \in Tabs : SeenBy(tab[t], left[t]) = {0} /\ ~Pending(tab[t])
    BY <1>3, NewTabOK, NoRefOK, NoReplyOK, NoActOK DEF SeenBy, Pending
  <2>2. Seen \subseteq {0, 1}
    BY <2>1 DEF Seen, Init
  <2>3. \A s \in Sids : rows[s] = NoRow => s \notin {0, 1}
    BY Constants, RowsOK DEF Init
  <2> QED BY <2>1, <2>2, <2>3 DEF LoginsOK
<1>7. TurnsOK
  <2>1. \A t \in Tabs : tab[t].ref.pc = "lock" /\ ~Carries(tab[t])
    BY <1>3, NewTabOK, NoRefOK DEF Carries
  <2>2. Fresh(jar, rows)
    <3>1. 1 \in Sids
      BY WebAssumption DEF Sids
    <3> QED BY <3>1, RowsOK DEF Init, Fresh
  <2>3. ~reused /\ adrift = {}
    BY DEF Init
  <2> QED BY <2>1, <2>2, <2>3 DEF TurnsOK, InTurn
<1> QED BY <1>1, <1>2, <1>4, <1>5, <1>6, <1>7 DEF IInv

LEMMA StutterStep == ASSUME IInv, UNCHANGED vars PROVE IInv'
<1>1. rows' = rows /\ ver' = ver /\ UNCHANGED <<jar, tab, lock, left, adrift>> /\ lost' = lost /\ reused' = reused
  BY DEF vars
<1>2. ServerOK' /\ Grows /\ RowsKept /\ Steady
  BY <1>1, RowsSame
<1>3. TurnsOK'
  BY <1>1, <1>2, TurnsAway
<1> QED BY <1>1, <1>2, <1>3, AwayStep

LEMMA NextInv == IInv /\ [Next]_vars => IInv'
<1> SUFFICES ASSUME IInv, [Next]_vars PROVE IInv'
  OBVIOUS
<1>1. ASSUME NEW t \in Tabs, Page(t) PROVE IInv'
  <2>1. CASE SendRefresh(t) \/ ServeRefresh(t) \/ ArriveRefresh(t) \/ FailRefresh(t)
    BY <2>1, SendRefreshStep, ServeRefreshStep, ArriveRefreshStep, FailRefreshStep
  <2>2. CASE BeginLogin(t) \/ BeginLogout(t) \/ BeginSecurity(t) \/ Unauthorized(t) \/ Navigate(t)
    BY <2>2, BeginsStep, UnauthorizedStep, NavigateStep
  <2>3. CASE Expire(t) \/ SendAct(t) \/ FailAct(t) \/ Deliver(t) \/ ArriveAct(t)
    BY <2>3, ExpireStep, SendActStep, FailActStep, DeliverStep, ArriveActStep
  <2>4. CASE ServeLogin(t) \/ ServeLogout(t) \/ ServeCall(t)
    BY <2>4, ServeLoginStep, ServeLogoutStep, ServeCallStep
  <2> QED BY <1>1, <2>1, <2>2, <2>3, <2>4 DEF Page
<1>2. CASE Rest
  BY <1>2, StutterStep DEF Rest
<1>3. CASE UNCHANGED vars
  BY <1>3, StutterStep
<1> QED BY <1>1, <1>2, <1>3, ElsewhereStep, ServeAdriftStep DEF Next

(* The invariant holds throughout. *)
LEMMA Invariance == Spec => []IInv
BY InitInv, NextInv, PTL DEF Spec

-----------------------------------------------------------------------------
(* The theorems *)

(* Pages, cookies and sessions keep their types, and the line for the Web   *)
(* Lock is at all times the tabs whose refresh runs, each of them once, for *)
(* any number of tabs (performRefreshWithBrowserLock).                      *)
THEOREM TypeCorrect == Spec => []TypeOK
<1>1. IInv => TypeOK
  <2> SUFFICES ASSUME IInv PROVE TypeOK
    OBVIOUS
  <2>1. jar \in [sid : 0..MaxLogins, gen : Nat]
    BY Constants DEF IInv, BrowserOK, CookieSet, NoCookie
  <2>2. ASSUME NEW t \in Tabs
        PROVE  /\ tab[t].sid \in 0..MaxLogins /\ tab[t].boot \in {"idle", "checking", "complete"}
               /\ tab[t].ref.pc \in {"none", "lock", "asked", "answered"}
               /\ tab[t].act.pc \in {"none", "send", "asked", "answered", "waiting"}
               /\ tab[t].act.pc = "waiting" => tab[t].ref.pc # "none"
    BY Typed, Parts DEF Pages, Refs, Acts
  <2> QED BY <2>1, <2>2 DEF IInv, ServerOK, LineOK, TypeOK
<1> QED BY <1>1, Invariance, PTL

(* However answers, announcements and reloads interleave, a tab never shows *)
(* a session again that it has put away as over: a refresh that brings it   *)
(* back was asked for before and is stale when it arrives (isCurrent in     *)
(* createRefreshRunner), and a login never brings a session that any tab    *)
(* has seen.                                                                *)
THEOREM SignedOut == Spec => []SignedOutStaysOut
<1>1. IInv => SignedOutStaysOut
  BY DEF IInv, PagesOK, Safe, SignedOutStaysOut
<1> QED BY <1>1, Invariance, PTL

(* With Web Locks, any number of tabs may refresh together: the server      *)
(* takes none of their cookies for a stolen one unless an answer with a new *)
(* cookie was lost on its way (performRefreshWithBrowserLock,               *)
(* RotateUserSessionRefresh).                                               *)
THEOREM ReuseOnlyAfterLoss == Spec => []ReuseNeedsLoss
<1>1. IInv => ReuseNeedsLoss
  BY DEF IInv, TurnsOK, InTurn, ReuseNeedsLoss
<1> QED BY <1>1, Invariance, PTL

-----------------------------------------------------------------------------
(* What a step makes of the credentials of a tab                            *)
Ahead(w, v) == v.sid = w.sid /\ v.ver < w.ver => w.act.op = "security" /\ v.act = NoAct

LEMMA KeptAhead ==
    ASSUME NEW w, NEW v, PageOK(w), (v.sid = w.sid /\ v.ver = w.ver) \/ (v.sid = 0 /\ v.ver = 0)
    PROVE  Ahead(w, v)
<1>1. w.ver \in Nat /\ (w.sid = 0 => w.ver = 0)
  BY Parts
<1> QED BY <1>1 DEF Ahead

LEMMA OneAhead ==
    ASSUME IInv, NEW t \in Tabs, NEW v, tab' = [tab EXCEPT ![t] = v], Ahead(tab[t], v)
    PROVE  \A u \in Tabs : Ahead(tab[u], tab'[u])
<1>1. tab'[t] = v /\ \A u \in Tabs : u # t => tab'[u] = tab[u]
  BY Typed
<1>2. \A u \in Tabs : Ahead(tab[u], tab[u])
  BY Typed, KeptAhead
<1> QED BY <1>1, <1>2

LEMMA SettledAhead ==
    ASSUME IInv, NEW t \in Tabs, NEW w, PageOK(w), NEW outcome, Settled(t, w, outcome),
           w.sid # tab[t].sid \/ w.ver >= tab[t].ver \/ (w.sid = 0 /\ w.ver = 0)
    PROVE  \A u \in Tabs : Ahead(tab[u], tab'[u])
<1> DEFINE v == Settle(w, outcome)
<1>1. PageOK(v) /\ ((v.sid = w.sid /\ v.ver = w.ver) \/ (v.sid = 0 /\ v.ver = 0))
  BY SettleOK
<1>2. tab' = [tab EXCEPT ![t] = v] \/ tab' = [tab EXCEPT ![t] = NewTab]
  BY DEF Settled, Stay, Become, Reload
<1>3. PageOK(tab[t]) /\ NewTab.sid = 0 /\ NewTab.ver = 0
  BY Typed, NewTabOK
<1>4. tab[t].ver \in Nat /\ w.ver \in Nat /\ v.ver \in Nat /\ (tab[t].sid = 0 => tab[t].ver = 0)
  BY <1>1, <1>3, Parts
<1> HIDE DEF v
<1>5. Ahead(tab[t], v)
  BY <1>1, <1>4 DEF Ahead
<1>6. Ahead(tab[t], NewTab)
  BY <1>3, KeptAhead
<1> QED BY <1>2, <1>5, <1>6, OneAhead

LEMMA ArriveRefreshAhead ==
    ASSUME IInv, NEW t \in Tabs, ArriveRefresh(t) PROVE \A u \in Tabs : Ahead(tab[u], tab'[u])
<1> DEFINE w == tab[t]
           r == tab[t].ref.reply
<1>1. PageOK(w) /\ Safe(w, left[t], rows, ver) /\ w.ref.pc = "answered"
  BY Typed DEF ArriveRefresh
<1>2. r \in Replies /\ RefOK(w.ref) /\ w.ref \in Refs /\ w.ver \in Nat /\ w \in Pages
  BY <1>1, Parts
<1>3. CASE Settled(t, w, "transient")
  BY <1>1, <1>2, <1>3, SettledAhead
<1>4. CASE w.ref.current /\ r.kind = "ok" /\ Settled(t, ApplyAuthBundle(w, r), "authenticated")
  <2> DEFINE v == ApplyAuthBundle(w, r)
  <2>1. r.sid # 0 /\ r.ver \in Nat /\ (r.sid = w.sid => w.ver <= r.ver)
    BY <1>1, <1>2, <1>4 DEF RefOK, Safe, Replies
  <2>2. PageOK(v) /\ v.sid = r.sid /\ v.ver = r.ver /\ Settled(t, v, "authenticated")
    BY <1>1, <1>2, <1>4, <2>1, ApplyOK
  <2> HIDE DEF v
  <2>3. v.sid # w.sid \/ v.ver >= w.ver
    BY <1>2, <2>1, <2>2
  <2> QED BY <2>2, <2>3, SettledAhead
<1>5. CASE Stay(t, [Reset(w, "idle") EXCEPT !.ref.pc = "lock", !.ref.again = FALSE, !.ref.reply = NoReply])
  <2> DEFINE n == Reset(w, "idle")
             v == [n EXCEPT !.ref.pc = "lock", !.ref.again = FALSE, !.ref.reply = NoReply]
  <2>1. n \in Pages /\ n.sid = 0 /\ n.ver = 0
    BY <1>2, ResetOK
  <2>2. tab' = [tab EXCEPT ![t] = v]
    BY <1>5 DEF Stay, Become
  <2> HIDE DEF n
  <2>3. v.sid = 0 /\ v.ver = 0
    BY <2>1 DEF Pages
  <2> HIDE DEF v
  <2> QED BY <1>1, <2>2, <2>3, KeptAhead, OneAhead
<1>6. CASE Settled(t, ClearAuthentication(w), "anonymous")
  <2> DEFINE v == ClearAuthentication(w)
  <2>1. PageOK(v) /\ v.sid = 0 /\ v.ver = 0 /\ Settled(t, v, "anonymous")
    BY <1>1, <1>6, ClearOK
  <2> HIDE DEF v
  <2> QED BY <2>1, SettledAhead
<1> QED BY <1>3, <1>4, <1>5, <1>6 DEF ArriveRefresh, StillCurrent

LEMMA ArriveActAhead ==
    ASSUME IInv, NEW t \in Tabs, ArriveAct(t) PROVE \A u \in Tabs : Ahead(tab[u], tab'[u])
<1> DEFINE w == tab[t]
           r == tab[t].act.reply
           d == [tab[t] EXCEPT !.act = NoAct]
<1>1. PageOK(w) /\ w.act.pc = "answered"
  BY Typed DEF ArriveAct
<1>2. r \in Replies /\ ActOK(w.act)
  BY <1>1, Parts
<1>3. PageOK(d) /\ d.act = NoAct /\ d.sid = w.sid /\ d.ver = w.ver
  BY <1>1, NoActOK, ActingOK
<1> HIDE DEF d
<1>4. CASE w.act.op = "login" /\ HandleLoginSuccess(t, d, r)
  <2> DEFINE v == ApplyAuthBundle(d, r)
  <2>1. Pending(w) /\ r.sid # 0 /\ w.sid \in Seen
    BY <1>1, <1>2, <1>4 DEF Pending, ActOK, Seen, SeenBy
  <2>2. r.sid # w.sid
    BY <2>1 DEF IInv, LoginsOK
  <2>3. v.sid = r.sid
    BY <1>2, <1>3, <2>1, ApplyOK
  <2>4. tab' = [tab EXCEPT ![t] = v]
    BY <1>4 DEF HandleLoginSuccess, Stay, Become
  <2> HIDE DEF v
  <2>5. Ahead(w, v)
    BY <2>2, <2>3 DEF Ahead
  <2> QED BY <2>4, <2>5, OneAhead
<1>5. CASE FinishLogout(t, d) \/ Stay(t, ClearAuthentication(d)) \/ Reload(t, ClearAuthentication(d))
  <2> DEFINE v == ClearAuthentication(d)
  <2>1. v.sid = 0 /\ v.ver = 0 /\ NewTab.sid = 0 /\ NewTab.ver = 0
    BY <1>3, ClearOK, NewTabOK
  <2>2. tab' = [tab EXCEPT ![t] = v] \/ tab' = [tab EXCEPT ![t] = NewTab]
    BY <1>5 DEF FinishLogout, Stay, Become, Reload
  <2> HIDE DEF v
  <2>3. Ahead(w, v) /\ Ahead(w, NewTab)
    BY <1>1, <2>1, KeptAhead
  <2> QED BY <2>2, <2>3, OneAhead
<1>6. CASE Stay(t, d)
  <2>1. tab' = [tab EXCEPT ![t] = d]
    BY <1>6 DEF Stay, Become
  <2> QED BY <1>1, <1>3, <2>1, KeptAhead, OneAhead
<1>7. CASE w.act.op = "security" /\ r.kind = "ok" /\ Stay(t, ApplyAuthRotation(d, r))
  <2>1. CASE d.sid = r.sid
    <3> DEFINE v == ApplyAuthBundle(d, r)
    <3>1. tab' = [tab EXCEPT ![t] = v]
      BY <1>7, <2>1 DEF ApplyAuthRotation, Stay, Become
    <3>2. r.sid # 0
      BY <1>2, <1>7 DEF ActOK
    <3>3. v.act = NoAct
      BY <1>2, <1>3, <3>2, ApplyOK
    <3> HIDE DEF v
    <3>4. Ahead(w, v)
      BY <1>7, <3>3 DEF Ahead
    <3> QED BY <3>1, <3>4, OneAhead
  <2>2. CASE d.sid # r.sid
    BY <1>6, <1>7, <2>2 DEF ApplyAuthRotation
  <2> QED BY <2>1, <2>2
<1>8. CASE r.kind \in {"mismatch", "401"} /\ Stay(t, Waits(w))
  <2> DEFINE v == Waits(w)
  <2>1. w.act.op # "login"
    BY <1>1, <1>2, <1>8 DEF ActOK
  <2>2. v.sid = w.sid /\ v.ver = w.ver
    BY <1>1, <2>1, WaitsOK
  <2>3. tab' = [tab EXCEPT ![t] = v]
    BY <1>8 DEF Stay, Become
  <2> HIDE DEF v
  <2> QED BY <1>1, <2>2, <2>3, KeptAhead, OneAhead
<1> QED BY <1>4, <1>5, <1>6, <1>7, <1>8 DEF ArriveAct, d

(* The other steps keep the session and its version, or put them away       *)
LEMMA OtherAhead ==
    ASSUME IInv, NEW t \in Tabs, Page(t), ~ArriveRefresh(t), ~ArriveAct(t)
    PROVE  \A u \in Tabs : Ahead(tab[u], tab'[u])
<1> DEFINE w == tab[t]
<1>1. PageOK(w) /\ tab \in [Tabs -> Pages]
  BY Typed
<1>2. w \in Pages
  BY <1>1, Parts
<1>3. ASSUME NEW v, (v.sid = w.sid /\ v.ver = w.ver) \/ (v.sid = 0 /\ v.ver = 0), tab' = [tab EXCEPT ![t] = v]
      PROVE  \A u \in Tabs : Ahead(tab[u], tab'[u])
  BY <1>1, <1>3, KeptAhead, OneAhead
<1>4. ASSUME NEW a, tab' = [tab EXCEPT ![t].act = a] PROVE \A u \in Tabs : Ahead(tab[u], tab'[u])
  <2> DEFINE v == [w EXCEPT !.act = a]
  <2>1. v.sid = w.sid /\ v.ver = w.ver
    BY <1>2 DEF Pages
  <2>2. tab' = [tab EXCEPT ![t] = v]
    BY <1>1, <1>4
  <2> HIDE DEF v
  <2> QED BY <1>3, <2>1, <2>2
<1>5. CASE BeginLogin(t) \/ BeginLogout(t) \/ BeginSecurity(t)
  BY <1>4, <1>5 DEF BeginLogin, BeginLogout, BeginSecurity, Begin
<1>6. CASE SendAct(t)
  BY <1>4, <1>6 DEF SendAct
<1>7. CASE FailAct(t)
  BY <1>4, <1>7 DEF FailAct
<1>8. CASE ServeLogin(t)
  BY <1>4, <1>8 DEF ServeLogin, Answer
<1>9. CASE ServeLogout(t)
  BY <1>4, <1>9 DEF ServeLogout, Answer
<1>10. CASE ServeCall(t)
  BY <1>4, <1>10 DEF ServeCall, Answer
<1>11. CASE ServeRefresh(t)
  <2>1. PICK f : tab' = [tab EXCEPT ![t].ref = f]
    BY <1>11 DEF ServeRefresh
  <2> DEFINE v == [w EXCEPT !.ref = f]
  <2>2. v.sid = w.sid /\ v.ver = w.ver
    BY <1>2 DEF Pages
  <2>3. tab' = [tab EXCEPT ![t] = v]
    BY <1>1, <2>1
  <2> HIDE DEF v
  <2> QED BY <1>3, <2>2, <2>3
<1>12. CASE SendRefresh(t)
  <2> DEFINE v == [w EXCEPT !.ref.pc = "asked", !.ref.expect = w.sid, !.ref.sent = jar]
             n == Settle(w, "transient")
  <2>1. v.sid = w.sid /\ v.ver = w.ver
    BY <1>2 DEF Pages
  <2>2. (n.sid = w.sid /\ n.ver = w.ver) \/ (n.sid = 0 /\ n.ver = 0)
    BY <1>1, SettleOK
  <2>3. tab' = [tab EXCEPT ![t] = v] \/ tab' = [tab EXCEPT ![t] = n]
    BY <1>12 DEF SendRefresh, Stay, Become
  <2> HIDE DEF v, n
  <2> QED BY <1>3, <2>1, <2>2, <2>3
<1>13. CASE FailRefresh(t)
  <2> DEFINE m == [w EXCEPT !.boot = "idle"]
             v == Settle(m, "transient")
             n == Settle(w, "transient")
  <2>1. PageOK(m) /\ m.sid = w.sid /\ m.ver = w.ver
    BY <1>1, BootOK
  <2>2. tab' = [tab EXCEPT ![t] = v] \/ tab' = [tab EXCEPT ![t] = n]
    BY <1>13 DEF FailRefresh, Become
  <2> HIDE DEF m
  <2>3. (n.sid = w.sid /\ n.ver = w.ver) \/ (n.sid = 0 /\ n.ver = 0)
    BY <1>1, SettleOK
  <2>4. (v.sid = w.sid /\ v.ver = w.ver) \/ (v.sid = 0 /\ v.ver = 0)
    BY <2>1, SettleOK
  <2> HIDE DEF v, n
  <2> QED BY <1>3, <2>2, <2>3, <2>4
<1>14. CASE Unauthorized(t) \/ Navigate(t)
  <2> DEFINE n == WithRefresh(w)
             a == [NoAct EXCEPT !.op = "api", !.pc = "waiting"]
             v == [n EXCEPT !.act = a]
             b == [n EXCEPT !.boot = "checking"]
  <2>1. n.sid = w.sid /\ n.ver = w.ver /\ PageOK(n)
    BY <1>1, WithRefreshOK
  <2>2. tab' = [tab EXCEPT ![t] = v] \/ tab' = [tab EXCEPT ![t] = b]
    BY <1>14 DEF Unauthorized, Navigate, Become
  <2>3. n \in Pages
    BY <2>1, Parts
  <2> HIDE DEF n, a
  <2>4. v.sid = w.sid /\ v.ver = w.ver /\ b.sid = w.sid /\ b.ver = w.ver
    BY <2>1, <2>3 DEF Pages
  <2> HIDE DEF v, b
  <2> QED BY <1>3, <2>2, <2>4
<1>15. CASE Expire(t)
  <2> DEFINE v == [w EXCEPT !.fresh = FALSE]
  <2>1. v.sid = w.sid /\ v.ver = w.ver
    BY <1>2 DEF Pages
  <2>2. tab' = [tab EXCEPT ![t] = v]
    BY <1>1, <1>15 DEF Expire
  <2> HIDE DEF v
  <2> QED BY <1>3, <2>1, <2>2
<1>16. CASE Deliver(t)
  <2> DEFINE v == ClearAuthentication(w)
  <2>1. v.sid = 0 /\ v.ver = 0 /\ NewTab.sid = 0 /\ NewTab.ver = 0
    BY <1>1, ClearOK, NewTabOK
  <2>2. tab' = [tab EXCEPT ![t] = v] \/ tab' = [tab EXCEPT ![t] = NewTab] \/ tab' = [tab EXCEPT ![t] = w]
    BY <1>1, <1>16 DEF Deliver, Stay, Become, Reload
  <2> HIDE DEF v
  <2> QED BY <1>3, <2>1, <2>2
<1> QED BY <1>5, <1>6, <1>7, <1>8, <1>9, <1>10, <1>11, <1>12, <1>13, <1>14, <1>15, <1>16 DEF Page

LEMMA AheadStep == ASSUME IInv, [Next]_vars PROVE [\A t \in Tabs : Ahead(tab[t], tab'[t])]_vars
<1>1. ASSUME NEW t \in Tabs, Page(t) PROVE \A u \in Tabs : Ahead(tab[u], tab'[u])
  BY <1>1, ArriveRefreshAhead, ArriveActAhead, OtherAhead
<1>2. ASSUME tab' = tab PROVE \A u \in Tabs : Ahead(tab[u], tab'[u])
  BY <1>2, Typed, KeptAhead
<1> QED BY <1>1, <1>2 DEF Next, Rest, RevokeElsewhere, CloseWindow, ServeAdrift, vars

(* While a tab keeps its session its credentials move forward only: a       *)
(* refresh that a security change of the tab overtook brings an older       *)
(* version and is dropped (authEpoch), and one that is still current brings *)
(* at least the version the tab has. The answer to an earlier security      *)
(* change is the one exception (applyAuthRotation asks for no epoch).       *)
THEOREM MovesForward == Spec => CredentialsMoveForward
<1> DEFINE A == \A t \in Tabs : tab'[t].sid = tab[t].sid /\ tab'[t].ver < tab[t].ver =>
                    tab[t].act.op = "security" /\ tab'[t].act = NoAct
<1>1. IInv /\ [Next]_vars => [A]_vars
  BY AheadStep DEF Ahead
<1>2. CredentialsMoveForward <=> [][A]_vars
  BY DEF CredentialsMoveForward
<1> HIDE DEF A
<1> QED BY <1>1, <1>2, Invariance, PTL DEF Spec
=============================================================================
