------------------------- MODULE Playground_proofs -------------------------
(***************************************************************************)
(* Proofs about Playground for any number of requests, edits, failed writes *)
(* and updates that wait in React's queue: its types, that an answer holds  *)
(* the text of its own request only, that a page at rest shows no spinner,  *)
(* that no stream is left open, that what was seen is kept, and that an     *)
(* answer that has ended stays as it is.                                    *)
(***************************************************************************)
EXTENDS Playground, SequenceTheorems, NaturalsInduction, WellFoundedInduction, TLAPS

(***************************************************************************)
(* Numbers, and the functions that Drained and removeMessageByKey define    *)
(* by recursion                                                            *)
(***************************************************************************)

(* A non-empty set of natural numbers has a least element. *)
LEMMA Least ==
    ASSUME NEW T \in SUBSET Nat, T # {}
    PROVE  \E x \in T : \A y \in T : x <= y
<1> DEFINE R == {p \in Nat \X Nat : p[1] < p[2]}
<1>1. IsWellFoundedOn(R, Nat)
  BY NatLessThanWellFounded DEF OpToRel
<1> HIDE DEF R
<1>2. PICK x \in T : \A y \in T : ~ (<<y, x>> \in R)
  BY <1>1, WFMin
<1>3. \A y \in T : ~(y < x)
  BY <1>2 DEF R
<1> QED BY <1>3

(* What holds of 0, and of each number of 1..N if it holds of the one       *)
(* before, holds of 0..N.                                                   *)
LEMMA Stepwise ==
    ASSUME NEW N \in Nat, NEW H \in SUBSET (0..N), 0 \in H, \A n \in 1..N : n - 1 \in H => n \in H
    PROVE  H = 0..N
<1> DEFINE T == (0..N) \ H
<1>1. SUFFICES ASSUME T # {} PROVE FALSE
  OBVIOUS
<1>2. T \in SUBSET Nat
  OBVIOUS
<1>3. PICK k \in T : \A y \in T : k <= y
  <2> HIDE DEF T
  <2> QED BY <1>1, <1>2, Least
<1>4. k \in 1..N /\ k - 1 \in 0..N /\ ~(k <= k - 1)
  BY <1>3
<1>5. k - 1 \in H
  BY <1>3, <1>4
<1> QED BY <1>3, <1>4, <1>5

(* A set of numbers up to N that is not empty has a greatest element. *)
LEMMA Greatest ==
    ASSUME NEW N \in Nat, NEW T \in SUBSET (1..N), T # {}
    PROVE  \E x \in T : \A y \in T : y <= x
<1> DEFINE R == {N - x : x \in T}
<1>1. R \in SUBSET Nat /\ R # {}
  <2>1. \A x \in T : x \in 1..N
    OBVIOUS
  <2>2. \A x \in T : N - x \in Nat
    BY <2>1
  <2>3. PICK x \in T : TRUE
    OBVIOUS
  <2>4. N - x \in R
    OBVIOUS
  <2> QED BY <2>2, <2>4
<1>2. PICK k \in R : \A y \in R : k <= y
  <2> HIDE DEF R
  <2> QED BY <1>1, Least
<1>3. PICK x \in T : k = N - x
  BY <1>2
<1>4. ASSUME NEW y \in T PROVE y <= x
  <2>1. N - y \in R
    OBVIOUS
  <2>2. N - x <= N - y
    BY <1>2, <1>3, <2>1
  <2> QED BY <2>2
<1> QED BY <1>4

(* The updaters are run one after the other. *)
LEMMA DrainedIs ==
    ASSUME NEW q, Len(q) \in Nat, NEW m, NEW g
    PROVE  \E f : /\ f[0] = m /\ Drained(q, m, g) = f[Len(q)]
                  /\ \A n \in 1..Len(q) : f[n] = Applied(q[n], f[n - 1], g)
<1> DEFINE N == Len(q)
           Upto(k, f) == f = [n \in 0..k |-> IF n = 0 THEN m ELSE Applied(q[n], f[n - 1], g)]
           H == {k \in 0..N : \E f : Upto(k, f)}
<1>0. N \in Nat
  OBVIOUS
<1> HIDE DEF N
<1>1. 0 \in H
  <2> DEFINE f == [n \in 0..0 |-> m]
  <2>1. \A n \in 0..0 : n = 0
    OBVIOUS
  <2>2. Upto(0, f)
    BY <2>1
  <2>3. 0 \in 0..N
    BY <1>0
  <2> HIDE DEF Upto, f
  <2> QED BY <2>2, <2>3
<1>2. ASSUME NEW n \in 1..N, n - 1 \in H PROVE n \in H
  <2>1. PICK f : Upto(n - 1, f)
    BY <1>2
  <2> DEFINE h == [i \in 0..n |-> IF i = n THEN Applied(q[n], f[n - 1], g) ELSE f[i]]
  <2>2. \A i \in 0..(n - 1) : f[i] = IF i = 0 THEN m ELSE Applied(q[i], f[i - 1], g)
    BY <2>1
  <2>3. ASSUME NEW i \in 0..n PROVE h[i] = IF i = 0 THEN m ELSE Applied(q[i], h[i - 1], g)
    <3>1. CASE i = n
      <4>1. n - 1 \in 0..n /\ n - 1 # n /\ n # 0
        BY <1>0
      <4> QED BY <3>1, <4>1
    <3>2. CASE i # n
      <4>1. i \in 0..(n - 1) /\ i - 1 # n /\ (i # 0 => i - 1 \in 0..n)
        BY <1>0, <3>2
      <4> QED BY <2>2, <3>2, <4>1
    <3> QED BY <3>1, <3>2
  <2>4. h = [i \in 0..n |-> h[i]]
    OBVIOUS
  <2> HIDE DEF h
  <2>5. Upto(n, h)
    BY <2>3, <2>4
  <2>6. n \in 0..N
    BY <1>0
  <2> QED BY <2>5, <2>6
<1>3. H = 0..N
  <2>1. H \in SUBSET (0..N)
    OBVIOUS
  <2> HIDE DEF H
  <2> QED BY <1>0, <1>1, <1>2, <2>1, Stepwise
<1>4. \E f : Upto(N, f)
  <2>1. N \in H
    <3> HIDE DEF H
    <3> QED BY <1>0, <1>3
  <2> HIDE DEF Upto
  <2> QED BY <2>1
<1> DEFINE run == CHOOSE f : Upto(N, f)
<1>5. Upto(N, run)
  <2> HIDE DEF Upto
  <2> QED BY <1>4
<1>6. Drained(q, m, g) = run[N]
  BY DEF Drained, N
<1> HIDE DEF run
<1>7. \A n \in 0..N : run[n] = IF n = 0 THEN m ELSE Applied(q[n], run[n - 1], g)
  BY <1>5
<1>8. run[0] = m /\ \A n \in 1..N : run[n] = Applied(q[n], run[n - 1], g)
  BY <1>0, <1>7
<1> QED BY <1>6, <1>8 DEF N

(* If the updater at n takes the conversations of S[n-1] to those of S[n],  *)
(* the queue takes those of S[0] to those of S[Len(q)].                     *)
LEMMA DrainedIn ==
    ASSUME NEW q, Len(q) \in Nat, NEW g, NEW S, NEW m \in S[0],
           \A n \in 1..Len(q) : \A x \in S[n - 1] : Applied(q[n], x, g) \in S[n]
    PROVE  Drained(q, m, g) \in S[Len(q)]
<1>1. PICK f : /\ f[0] = m /\ Drained(q, m, g) = f[Len(q)]
               /\ \A n \in 1..Len(q) : f[n] = Applied(q[n], f[n - 1], g)
  BY DrainedIs
<1> DEFINE H == {n \in 0..Len(q) : f[n] \in S[n]}
<1>2. 0 \in H
  BY <1>1
<1>3. ASSUME NEW n \in 1..Len(q), n - 1 \in H PROVE n \in H
  <2>1. n \in 0..Len(q) /\ f[n - 1] \in S[n - 1]
    BY <1>3
  <2> QED BY <1>1, <2>1
<1>4. H = 0..Len(q)
  <2>1. H \in SUBSET (0..Len(q))
    OBVIOUS
  <2> HIDE DEF H
  <2> QED BY <1>2, <1>3, <2>1, Stepwise
<1> QED BY <1>1, <1>4

(* Nothing to run; and whatever waits, an update that puts a conversation   *)
(* there prevails if it is the last.                                        *)
LEMMA DrainedEmpty ==
    ASSUME NEW m, NEW g
    PROVE  Drained(<<>>, m, g) = m
<1> DEFINE q == << >>
<1>1. Len(q) = 0
  OBVIOUS
<1> HIDE DEF q
<1>2. \E f : f[0] = m /\ Drained(q, m, g) = f[Len(q)]
  BY <1>1, DrainedIs
<1> QED BY <1>1, <1>2 DEF q

(* A conversation that is put last replaces what the queue made. *)
LEMMA DrainedPut ==
    ASSUME NEW S, NEW q \in Seq(S), NEW m, NEW g, NEW n
    PROVE  Drained(q \o <<Put(n)>>, m, g) = n
<1> DEFINE p == q \o <<Put(n)>>
           N == Len(q) + 1
<1>1. Len(p) = N /\ N \in Nat /\ N \in 1..N
  BY LenProperties
<1>2. p[N] = Put(n)
  <2> HIDE DEF N
  <2> QED BY <1>1 DEF N
<1> HIDE DEF p, N
<1>3. PICK f : /\ Drained(p, m, g) = f[N]
               /\ \A k \in 1..N : f[k] = Applied(p[k], f[k - 1], g)
  BY <1>1, DrainedIs
<1>4. f[N] = Applied(Put(n), f[N - 1], g)
  BY <1>1, <1>2, <1>3
<1>5. Applied(Put(n), f[N - 1], g) = n
  BY DEF Applied, Put
<1> QED BY <1>3, <1>4, <1>5 DEF p
-----------------------------------------------------------------------------
(***************************************************************************)
(* Conversations                                                           *)
(***************************************************************************)

(* A message once l requests were made: a user's message has no status and  *)
(* an answer has one; the text of a request is in the answer to it          *)
Statuses == {"none", "loading", "streaming", "complete", "error"}
Texts == SUBSET ((-1)..MaxRequests)
Message(l) == [key : 1..(2 * l), from : {"user", "assistant"}, status : Statuses, text : Texts]
Sound(x) ==
    /\ x.from = "user" <=> x.status = "none"
    /\ \A t \in x.text : t > 0 => x.key = 2 * t
Talks(l) ==
    {m \in Seq(Message(l)) :
        /\ \A i \in 1..Len(m) : Sound(m[i])
        /\ \A i, j \in 1..Len(m) : m[i].key = m[j].key => i = j}

(* What may become of ms while a request is under way: only its last        *)
(* message changes                                                          *)
Heirs(ms, l) ==
    {m \in Talks(l) :
        /\ Len(m) = Len(ms)
        /\ \A i \in 1..Len(ms) : m[i].key = ms[i].key /\ (i < Len(ms) => m[i] = ms[i])}

(* The answer to request l is the last message and has not come to its end  *)
Waits(m, l) ==
    /\ Len(m) # 0
    /\ m[Len(m)].key = 2 * l /\ m[Len(m)].from = "assistant"
    /\ isAssistantMessagePending(m[Len(m)])

(* No message is pending but the last; no message is pending                *)
Tidy(m) == \A i \in 1..Len(m) : isAssistantMessagePending(m[i]) => i = Len(m)
Rests(m) == \A i \in 1..Len(m) : ~isAssistantMessagePending(m[i])

(* What EndedAnswersStay asks of one step                                   *)
Stays(m, n) ==
    \A i \in 1..Len(m), j \in 1..Len(n) :
        m[i].key = n[j].key /\ isAssistantMessageFinal(m[i]) =>
            n[j].status = m[i].status /\ n[j].text \in {m[i].text, {Typed}}

(* A conversation of fewer requests is one of more. *)
LEMMA TalksGrow ==
    ASSUME NEW l \in Nat, NEW k \in Nat, l <= k, NEW m \in Talks(l)
    PROVE  m \in Talks(k)
<1>1. m \in Seq(Message(l)) /\ Len(m) \in Nat
  BY DEF Talks
<1>2. \A i \in 1..Len(m) : m[i] \in Message(k)
  <2> TAKE i \in 1..Len(m)
  <2>1. m[i] \in Message(l)
    BY <1>1
  <2> QED BY <2>1 DEF Message
<1>3. m \in Seq(Message(k))
  BY <1>1, <1>2, SeqDef
<1> QED BY <1>3 DEF Talks

(* A heir of a tidy conversation is tidy, and at rest if its last message   *)
(* is; what has ended in a conversation that waits has ended in its heirs.  *)
LEMMA HeirsAre ==
    ASSUME NEW l \in Nat, NEW ms \in Talks(l), NEW m \in Heirs(ms, l)
    PROVE  /\ m \in Talks(l) /\ Len(m) = Len(ms)
           /\ Tidy(ms) => Tidy(m)
           /\ Tidy(ms) /\ (Len(m) # 0 => ~isAssistantMessagePending(m[Len(m)])) => Rests(m)
           /\ Waits(ms, l) => Stays(ms, m)
<1>1. /\ m \in Talks(l) /\ Len(m) = Len(ms) /\ Len(ms) \in Nat
      /\ \A i \in 1..Len(ms) : m[i].key = ms[i].key /\ (i < Len(ms) => m[i] = ms[i])
  BY DEF Heirs, Talks
<1>2. Tidy(ms) => Tidy(m)
  BY <1>1 DEF Tidy
<1>3. Tidy(ms) /\ (Len(m) # 0 => ~isAssistantMessagePending(m[Len(m)])) => Rests(m)
  BY <1>1, <1>2 DEF Tidy, Rests
<1>4. ASSUME Waits(ms, l) PROVE Stays(ms, m)
  <2> SUFFICES ASSUME NEW i \in 1..Len(ms), NEW j \in 1..Len(m), ms[i].key = m[j].key,
                      isAssistantMessageFinal(ms[i])
               PROVE  m[j] = ms[i]
    BY DEF Stays
  <2>1. m[i].key = m[j].key /\ i \in 1..Len(m)
    BY <1>1
  <2>2. i = j
    BY <1>1, <2>1 DEF Talks
  <2>3. i # Len(ms)
    BY <1>4 DEF Waits, isAssistantMessageFinal, isAssistantMessagePending
  <2> QED BY <1>1, <2>2, <2>3
<1> QED BY <1>1, <1>2, <1>3, <1>4

(* Each conversation is its own heir, and its heirs' heirs are its own. *)
LEMMA HeirsCompose ==
    ASSUME NEW l \in Nat, NEW ms \in Talks(l)
    PROVE  /\ ms \in Heirs(ms, l)
           /\ \A m \in Heirs(ms, l) : \A n \in Heirs(m, l) : n \in Heirs(ms, l)
<1>1. ms \in Heirs(ms, l)
  BY DEF Heirs
<1>2. ASSUME NEW m \in Heirs(ms, l), NEW n \in Heirs(m, l) PROVE n \in Heirs(ms, l)
  BY DEF Heirs
<1> QED BY <1>1, <1>2

(* The last message is replaced by one with its key. *)
EndsIn(n, m, y) == n = [m EXCEPT ![Len(m)] = y]

(* The last message is replaced by one with its key: an heir. *)
LEMMA LastReplaced ==
    ASSUME NEW l \in Nat, NEW m \in Talks(l), Len(m) # 0,
           NEW y \in Message(l), Sound(y), y.key = m[Len(m)].key,
           NEW n, EndsIn(n, m, y)
    PROVE  n \in Heirs(m, l) /\ Len(n) = Len(m) /\ n[Len(m)] = y
<1>1. m \in Seq(Message(l)) /\ Len(m) \in Nat /\ Len(m) \in 1..Len(m)
  BY DEF Talks
<1>2. n \in Seq(Message(l)) /\ Len(n) = Len(m) /\ n[Len(m)] = y
  BY <1>1, ExceptSeq DEF EndsIn
<1>3. \A i \in 1..Len(m) : n[i] = IF i = Len(m) THEN y ELSE m[i]
  BY <1>1 DEF EndsIn
<1>4. \A i \in 1..Len(m) : Sound(n[i]) /\ n[i].key = m[i].key
  BY <1>1, <1>3 DEF Talks
<1>5. n \in Talks(l)
  BY <1>1, <1>2, <1>4 DEF Talks
<1>6. n \in Heirs(m, l)
  BY <1>1, <1>2, <1>3, <1>4, <1>5 DEF Heirs
<1> QED BY <1>2, <1>6
-----------------------------------------------------------------------------
(***************************************************************************)
(* Updaters.  While request l is answered in generation g, those that wait *)
(* change the last message; the first one may have been run already.       *)
(***************************************************************************)

Ends == {"complete", "answer", "error"}
Changes(l, g) == [op : {"chunk"} \cup Ends, gen : {g}, text : SUBSET {l}]
Puts(ms, l) == [op : {"put"}, msgs : Heirs(ms, l)]

(* What an update of request l makes of its answer while that waits. *)
LEMMA UpdatedIs ==
    ASSUME NEW l \in 1..MaxRequests, NEW g, NEW u \in Changes(l, g),
           NEW x \in Message(l), Sound(x), x.key = 2 * l, x.from = "assistant",
           isAssistantMessagePending(x)
    PROVE  /\ Updated(u, x) \in Message(l) /\ Sound(Updated(u, x))
           /\ Updated(u, x).key = x.key /\ Updated(u, x).from = "assistant"
           /\ u.op = "chunk" => isAssistantMessagePending(Updated(u, x))
           /\ u.op \in Ends => ~isAssistantMessagePending(Updated(u, x))
<1> DEFINE y == Updated(u, x)
<1>0. MaxRequests \in Nat /\ l \in Nat
  BY PlaygroundAssumption
<1>1. u.op \in {"chunk"} \cup Ends /\ u.text \in SUBSET {l}
  BY DEF Changes
<1>2. /\ x.key \in 1..(2 * l) /\ x.from \in {"user", "assistant"} /\ x.status \in Statuses
      /\ x.text \in Texts /\ \A t \in x.text : t > 0 => x.key = 2 * t
      /\ x = [key |-> x.key, from |-> x.from, status |-> x.status, text |-> x.text]
  BY DEF Message, Sound
<1>3. u.text \in Texts /\ x.text \cup u.text \in Texts /\ {ErrorText} \in Texts
  BY <1>0, <1>1, <1>2 DEF Texts, ErrorText
<1>4. CASE u.op = "chunk"
  <2>1. y = [x EXCEPT !.status = "streaming", !.text = @ \cup u.text]
    BY <1>4 DEF Updated, applyStreamingChunk, isAssistantMessagePending
  <2>2. \A t \in x.text \cup u.text : t > 0 => x.key = 2 * t
    BY <1>1, <1>2
  <2>3. y = [key |-> x.key, from |-> x.from, status |-> "streaming", text |-> x.text \cup u.text]
    BY <1>2, <2>1
  <2> QED
    BY <1>2, <1>3, <1>4, <2>2, <2>3 DEF Message, Sound, Statuses, isAssistantMessagePending, Ends
<1>5. CASE u.op = "complete"
  <2>1. y = [x EXCEPT !.status = "complete"]
    BY <1>5 DEF Updated, completeAssistantMessage, isAssistantMessagePending, isAssistantMessageFinal
  <2>3. y = [key |-> x.key, from |-> x.from, status |-> "complete", text |-> x.text]
    BY <1>2, <2>1
  <2> QED
    BY <1>2, <1>3, <1>5, <2>3 DEF Message, Sound, Statuses, isAssistantMessagePending, Ends
<1>6. CASE u.op = "answer"
  <2>1. y = [[x EXCEPT !.status = "complete"] EXCEPT !.text = u.text]
    BY <1>6 DEF Updated, completeAssistantMessage
  <2>3. y = [key |-> x.key, from |-> x.from, status |-> "complete", text |-> u.text]
    BY <1>2, <2>1
  <2> QED
    BY <1>1, <1>2, <1>3, <1>6, <2>3 DEF Message, Sound, Statuses, isAssistantMessagePending, Ends
<1>7. CASE u.op = "error"
  <2>1. y = [x EXCEPT !.status = "error", !.text = {ErrorText}]
    BY <1>7 DEF Updated
  <2>3. y = [key |-> x.key, from |-> x.from, status |-> "error", text |-> {ErrorText}]
    BY <1>2, <2>1
  <2> QED
    BY <1>2, <1>3, <1>7, <2>3 DEF Message, Sound, Statuses, isAssistantMessagePending, Ends, ErrorText
<1> QED BY <1>1, <1>4, <1>5, <1>6, <1>7 DEF Ends

(* An update of the generation that is current goes to the answer that      *)
(* waits, and an end ends it.                                               *)
LEMMA AppliedIs ==
    ASSUME NEW l \in 1..MaxRequests, NEW g, NEW u \in Changes(l, g),
           NEW m \in Talks(l), Waits(m, l)
    PROVE  /\ Applied(u, m, g) \in Heirs(m, l)
           /\ u.op = "chunk" => Waits(Applied(u, m, g), l)
           /\ u.op \in Ends => LET n == Applied(u, m, g) IN ~isAssistantMessagePending(n[Len(n)])
<1> DEFINE x == m[Len(m)]
           y == Updated(u, x)
           n == Applied(u, m, g)
<1>0. l \in Nat
  BY PlaygroundAssumption
<1>1. Len(m) \in Nat /\ Len(m) \in 1..Len(m) /\ x \in Message(l) /\ Sound(x) /\ m # << >>
  BY DEF Waits, Talks
<1>2. /\ x.key = 2 * l /\ x.from = "assistant" /\ isAssistantMessagePending(x)
  BY DEF Waits
<1>3. u.op \notin {"put", "remove"} /\ u.gen = g
  BY DEF Changes, Ends
<1>4. EndsIn(n, m, y)
  BY <1>1, <1>2, <1>3 DEF Applied, updateLastAssistantMessage, Last, EndsIn
<1>5. /\ y \in Message(l) /\ Sound(y) /\ y.key = x.key /\ y.from = "assistant"
      /\ u.op = "chunk" => isAssistantMessagePending(y)
      /\ u.op \in Ends => ~isAssistantMessagePending(y)
  BY <1>1, <1>2, UpdatedIs
<1> HIDE DEF y
<1>6. n \in Heirs(m, l) /\ Len(n) = Len(m) /\ n[Len(m)] = y
  <2> HIDE DEF n
  <2> QED BY <1>0, <1>1, <1>4, <1>5, LastReplaced DEF Waits
<1> HIDE DEF n
<1>7. u.op = "chunk" => Waits(n, l)
  BY <1>1, <1>2, <1>5, <1>6 DEF Waits
<1>8. u.op \in Ends => ~isAssistantMessagePending(n[Len(n)])
  BY <1>5, <1>6
<1> QED BY <1>6, <1>7, <1>8 DEF n

(* An update of a generation that has passed does nothing. *)
LEMMA AppliedLate ==
    ASSUME NEW l, NEW h, NEW g, h # g, NEW u \in Changes(l, h), NEW m
    PROVE  Applied(u, m, g) = m
<1>1. u.op \notin {"put", "remove"} /\ u.gen = h
  BY DEF Changes, Ends
<1> QED BY <1>1 DEF Applied

(* The update that follows a stop ends the last answer if it has not ended. *)
LEMMA SettledIs ==
    ASSUME NEW l \in Nat, NEW g, NEW m \in Talks(l)
    PROVE  LET n == Applied(Change("settle", g, {}), m, g) IN
           /\ n \in Heirs(m, l) /\ Stays(m, n)
           /\ Len(n) # 0 => ~isAssistantMessagePending(n[Len(n)])
<1> DEFINE u == Change("settle", g, {})
           n == Applied(u, m, g)
           x == m[Len(m)]
<1>1. u.op = "settle" /\ u.gen = g
  BY DEF Change
<1> HIDE DEF u
<1>2. n = updateLastAssistantMessage(m, u)
  BY <1>1 DEF Applied
<1>3. Len(m) \in Nat /\ (m = << >> <=> Len(m) = 0)
  BY DEF Talks
<1>4. m \in Heirs(m, l)
  BY HeirsCompose
<1>5. Stays(m, m)
  BY DEF Stays, Talks
<1>6. CASE Len(m) = 0
  <2>1. n = m
    BY <1>2, <1>3, <1>6 DEF updateLastAssistantMessage
  <2> HIDE DEF n
  <2> QED BY <1>4, <1>5, <1>6, <2>1 DEF n, u
<1>7. CASE Len(m) # 0
  <2>1. x \in Message(l) /\ Sound(x) /\ Len(m) \in 1..Len(m)
    BY <1>3, <1>7 DEF Talks
  <2>2. /\ x.status \in Statuses
        /\ x = [key |-> x.key, from |-> x.from, status |-> x.status, text |-> x.text]
    BY <2>1 DEF Message
  <2>3. CASE ~(x.from = "assistant" /\ isAssistantMessagePending(x))
    <3>1. x.from # "assistant" => ~isAssistantMessagePending(x)
      BY <2>1 DEF Sound, Message, isAssistantMessagePending
    <3>2. x.from = "assistant" => Updated(u, x) = x
      BY <1>1, <2>3 DEF Updated
    <3>3. n = m
      <4>1. x.from = "assistant" => n = [m EXCEPT ![Len(m)] = x]
        BY <1>2, <1>3, <1>7, <3>2 DEF updateLastAssistantMessage, Last
      <4>2. m = [m EXCEPT ![Len(m)] = x]
        BY <2>1 DEF Talks
      <4>3. x.from # "assistant" => n = m
        BY <1>2 DEF updateLastAssistantMessage, Last
      <4> QED BY <4>1, <4>2, <4>3
    <3> HIDE DEF n
    <3> QED BY <1>4, <1>5, <2>3, <3>1, <3>3 DEF n, u
  <2>4. CASE x.from = "assistant" /\ isAssistantMessagePending(x)
    <3> DEFINE y == completeAssistantMessage(x)
    <3>1. Updated(u, x) = y
      BY <1>1, <2>4 DEF Updated
    <3>2. EndsIn(n, m, y)
      BY <1>2, <1>3, <1>7, <2>4, <3>1 DEF updateLastAssistantMessage, Last, EndsIn
    <3>3. y = [key |-> x.key, from |-> x.from, status |-> "complete", text |-> x.text]
      BY <2>2 DEF completeAssistantMessage
    <3>4. y \in Message(l) /\ Sound(y) /\ y.key = x.key /\ ~isAssistantMessagePending(y)
      BY <2>1, <2>4, <3>3 DEF Message, Sound, Statuses, isAssistantMessagePending
    <3> HIDE DEF y
    <3>5. n \in Heirs(m, l) /\ Len(n) = Len(m) /\ n[Len(m)] = y
      <4> HIDE DEF n
      <4> QED BY <1>7, <2>1, <3>2, <3>4, LastReplaced
    <3> HIDE DEF n
    <3>6. Stays(m, n)
      <4> SUFFICES ASSUME NEW i \in 1..Len(m), NEW j \in 1..Len(n), m[i].key = n[j].key,
                          isAssistantMessageFinal(m[i])
                   PROVE  n[j] = m[i]
        BY DEF Stays
      <4>1. n[i].key = n[j].key /\ n \in Talks(l)
        BY <3>5 DEF Heirs
      <4>2. i = j
        BY <3>5, <4>1 DEF Talks
      <4>3. i # Len(m)
        BY <2>4 DEF isAssistantMessageFinal, isAssistantMessagePending
      <4> QED BY <1>3, <3>5, <4>2, <4>3 DEF Heirs
    <3> QED BY <3>4, <3>5, <3>6 DEF n, u
  <2> QED BY <2>3, <2>4
<1> QED BY <1>3, <1>6, <1>7
-----------------------------------------------------------------------------
(***************************************************************************)
(* The queue.  lv is the request that is answered, or 0 when none is.      *)
(***************************************************************************)

(* An updater that was run at once is the first; an end is the last and     *)
(* comes after the request; whatever waits finds an answer to update        *)
QueueOK(q, ms, l, g, lv) ==
    /\ q \in Seq(Changes(l, g) \cup Puts(ms, l))
    /\ \A i \in 1..Len(q) :
          /\ q[i].op = "put" => i = 1 /\ (Len(q) > 1 \/ lv # 0 => Waits(q[i].msgs, l))
          /\ q[i].op \in Ends => i = Len(q) /\ lv = 0
    /\ lv # 0 \/ Len(q) # 0 => Waits(ms, l)

(* Once the queue is run no message is pending                              *)
Settles(q, ms) ==
    IF Len(q) = 0 THEN Rests(ms)
    ELSE q[Len(q)].op \in Ends \/ (q[Len(q)].op = "put" /\ Rests(q[Len(q)].msgs))

(* An empty queue needs only the answer that is waited for. *)
LEMMA QueueEmpty ==
    ASSUME NEW l \in Nat, NEW ms, NEW g, NEW lv, lv # 0 => Waits(ms, l)
    PROVE  QueueOK(<<>>, ms, l, g, lv)
<1> DEFINE q == << >>
<1>1. q \in Seq(Changes(l, g) \cup Puts(ms, l)) /\ Len(q) = 0
  OBVIOUS
<1> HIDE DEF q
<1>2. QueueOK(q, ms, l, g, lv)
  BY <1>1 DEF QueueOK
<1> QED BY <1>2 DEF q

(* An updater of the queue is one of the two kinds. *)
LEMMA QueueItem ==
    ASSUME NEW l, NEW ms, NEW g, NEW lv, NEW q, QueueOK(q, ms, l, g, lv), NEW i \in 1..Len(q)
    PROVE  \/ q[i] \in Puts(ms, l) /\ q[i].op = "put" /\ q[i].msgs \in Heirs(ms, l)
           \/ q[i] \in Changes(l, g) /\ q[i].op = "chunk"
           \/ q[i] \in Changes(l, g) /\ q[i].op \in Ends
<1>1. q[i] \in Changes(l, g) \cup Puts(ms, l)
  BY DEF QueueOK
<1> QED BY <1>1 DEF Changes, Puts

(* What a render makes of the conversation. *)
LEMMA DrainedQueue ==
    ASSUME NEW l \in 0..MaxRequests, NEW ms \in Talks(l), NEW g, NEW lv, NEW q, QueueOK(q, ms, l, g, lv)
    PROVE  LET m == Drained(q, ms, g) IN
           /\ m \in Heirs(ms, l) /\ m \in Talks(l) /\ Stays(ms, m)
           /\ lv # 0 => Waits(m, l)
           /\ Tidy(ms) => Tidy(m)
           /\ Tidy(ms) /\ Settles(q, ms) => Rests(m)
<1> DEFINE m == Drained(q, ms, g)
           N == Len(q)
<1>0. l \in Nat /\ N \in Nat
  BY PlaygroundAssumption DEF QueueOK
<1>1. CASE N = 0
  <2>1. q = << >>
    BY <1>1 DEF QueueOK
  <2>2. m = ms
    BY <2>1, DrainedEmpty
  <2>3. ms \in Heirs(ms, l)
    BY <1>0, HeirsCompose
  <2>4. Stays(ms, ms)
    BY DEF Stays, Talks
  <2>5. (lv # 0 => Waits(ms, l)) /\ (Settles(q, ms) => Rests(ms))
    BY <1>1 DEF QueueOK, Settles
  <2> HIDE DEF m
  <2> QED BY <2>2, <2>3, <2>4, <2>5 DEF m
<1>2. CASE N # 0
  <2> DEFINE W == {x \in Heirs(ms, l) : Waits(x, l)}
             E == {x \in Heirs(ms, l) :
                     /\ lv # 0 => Waits(x, l)
                     /\ q[N].op \in Ends => ~isAssistantMessagePending(x[Len(x)])
                     /\ q[N].op = "put" => x = q[N].msgs}
             S == [n \in 0..N |-> IF n = 0 THEN {ms} ELSE IF n < N THEN W ELSE E]
  <2>1. Waits(ms, l) /\ ms \in Heirs(ms, l)
    BY <1>0, <1>2, HeirsCompose DEF QueueOK
  <2>2. l \in 1..MaxRequests
    <3>1. ms[Len(ms)].key \in 1..(2 * l) /\ ms[Len(ms)].key = 2 * l
      BY <2>1 DEF Waits, Talks, Message
    <3> QED BY <1>0, <3>1
  <2>3. ms \in S[0]
    BY <1>0
  <2>4. ASSUME NEW n \in 1..N, NEW x \in S[n - 1] PROVE Applied(q[n], x, g) \in S[n]
    <3> DEFINE u == q[n]
               y == Applied(u, x, g)
    <3>1. x \in W
      <4>1. n = 1 => S[n - 1] = {ms}
        BY <1>0
      <4>2. n # 1 => S[n - 1] = W
        BY <1>0
      <4> HIDE DEF S
      <4> QED BY <2>1, <4>1, <4>2
    <3>2. S[n] = IF n < N THEN W ELSE E
      BY <1>0
    <3>3. x \in Heirs(ms, l) /\ Waits(x, l) /\ x \in Talks(l)
      BY <3>1 DEF Heirs
    <3> HIDE DEF S
    <3>4. CASE u.op = "put"
      <4>1. y = u.msgs
        BY <3>4 DEF Applied
      <4>2. u.msgs \in Heirs(ms, l)
        BY <3>4, QueueItem DEF Changes, Ends
      <4>3. n = 1 /\ (N > 1 \/ lv # 0 => Waits(u.msgs, l))
        BY <3>4 DEF QueueOK
      <4>4. u.op \notin Ends
        BY <3>4 DEF Ends
      <4> HIDE DEF y
      <4> QED BY <1>0, <3>2, <4>1, <4>2, <4>3, <4>4 DEF y
    <3>5. CASE u \in Changes(l, g)
      <4>1. /\ y \in Heirs(x, l)
            /\ u.op = "chunk" => Waits(y, l)
            /\ u.op \in Ends => ~isAssistantMessagePending(y[Len(y)])
        BY <2>2, <3>3, <3>5, AppliedIs
      <4>2. y \in Heirs(ms, l)
        BY <1>0, <3>3, <4>1, HeirsCompose
      <4>3. u.op # "put" /\ (u.op = "chunk" \/ u.op \in Ends)
        BY <3>5 DEF Changes, Ends
      <4>4. u.op \in Ends => n = N /\ lv = 0
        BY DEF QueueOK
      <4> HIDE DEF y
      <4>5. n < N => y \in W
        BY <1>0, <4>1, <4>2, <4>3, <4>4
      <4>6. n = N => y \in E
        BY <4>1, <4>2, <4>3, <4>4 DEF Ends
      <4> QED BY <1>0, <3>2, <4>5, <4>6 DEF y
    <3>6. u.op = "put" \/ u \in Changes(l, g)
      BY QueueItem
    <3> QED BY <3>4, <3>5, <3>6
  <2>5. m \in S[N]
    <3> HIDE DEF S, m
    <3>1. \A n \in 1..N : \A x \in S[n - 1] : Applied(q[n], x, g) \in S[n]
      BY <2>4
    <3> QED BY <1>0, <2>3, <3>1, DrainedIn DEF m
  <2>6. m \in E
    <3>1. S[N] = E
      BY <1>0, <1>2
    <3> HIDE DEF S, E, m
    <3> QED BY <2>5, <3>1
  <2> HIDE DEF m
  <2>7. Tidy(ms) /\ (Len(m) # 0 => ~isAssistantMessagePending(m[Len(m)])) => Rests(m)
    BY <1>0, <2>1, <2>6, HeirsAre
  <2>8. Tidy(ms) /\ Settles(q, ms) => Rests(m)
    BY <1>2, <2>6, <2>7 DEF Settles
  <2>9. m \in Talks(l) /\ Stays(ms, m) /\ (Tidy(ms) => Tidy(m))
    BY <1>0, <2>1, <2>6, HeirsAre
  <2> QED BY <2>6, <2>8, <2>9 DEF m
<1> QED BY <1>1, <1>2
(* A stop: whatever waits is of a generation that has passed, unless it was *)
(* run at once; then the last answer is ended.                              *)
LEMMA DrainedStopped ==
    ASSUME NEW l \in 0..MaxRequests, NEW ms \in Talks(l), NEW g, NEW h, g # h, NEW lv, NEW q,
           QueueOK(q, ms, l, g, lv)
    PROVE  LET m == Drained(Append(q, Change("settle", h, {})), ms, h) IN
           /\ m \in Talks(l) /\ Stays(ms, m)
           /\ Tidy(ms) => Tidy(m) /\ Rests(m)
<1> DEFINE s == Change("settle", h, {})
           p == Append(q, s)
           m == Drained(p, ms, h)
           N == Len(q)
           first == IF N # 0 /\ q[1].op = "put" THEN q[1].msgs ELSE ms
           S == [n \in 0..(N + 1) |-> IF n = 0 THEN {ms} ELSE IF n < N + 1 THEN {first}
                                      ELSE {Applied(s, first, h)}]
<1>0. l \in Nat /\ N \in Nat
  BY PlaygroundAssumption DEF QueueOK
<1>1. Len(p) = N + 1 /\ p[N + 1] = s /\ \A n \in 1..N : p[n] = q[n]
  <2>1. q \in Seq(Changes(l, g) \cup Puts(ms, l))
    BY DEF QueueOK
  <2> HIDE DEF s
  <2>2. \A n \in 1..(N + 1) : p[n] = IF n = N + 1 THEN s ELSE q[n]
    BY <2>1
  <2>3. Len(p) = N + 1
    BY <2>1
  <2>4. N + 1 \in 1..(N + 1) /\ \A n \in 1..N : n \in 1..(N + 1) /\ n # N + 1
    BY <1>0
  <2> HIDE DEF p
  <2> QED BY <2>2, <2>3, <2>4
<1>2. first \in Heirs(ms, l) /\ first \in Talks(l)
  <2>1. ms \in Heirs(ms, l)
    BY <1>0, HeirsCompose
  <2>2. N # 0 /\ q[1].op = "put" => q[1].msgs \in Heirs(ms, l)
    <3>1. N # 0 => 1 \in 1..N
      BY <1>0
    <3> QED BY <3>1, QueueItem DEF Changes, Ends
  <2> QED BY <2>1, <2>2 DEF Heirs
<1> HIDE DEF p, s
<1>3. ASSUME NEW n \in 1..(N + 1), NEW x \in S[n - 1] PROVE Applied(p[n], x, h) \in S[n]
  <2>1. CASE n = N + 1
    <3>1. x = first
      BY <1>0, <2>1
    <3>2. S[n] = {Applied(s, first, h)}
      BY <1>0, <2>1
    <3> HIDE DEF S, first
    <3> QED BY <1>1, <2>1, <3>1, <3>2
  <2>2. CASE n # N + 1
    <3>1. n \in 1..N /\ p[n] = q[n]
      BY <1>0, <1>1, <2>2
    <3>2. S[n] = {first} /\ (n # 1 => x = first) /\ (n = 1 => x = ms)
      BY <1>0, <2>2
    <3>3. CASE q[n].op = "put"
      <4>1. n = 1
        BY <3>1, <3>3 DEF QueueOK
      <4>2. Applied(q[n], x, h) = q[1].msgs /\ first = q[1].msgs
        BY <1>0, <3>1, <3>3, <4>1 DEF Applied
      <4> HIDE DEF S, first
      <4> QED BY <3>1, <3>2, <4>2
    <3>4. CASE q[n].op # "put"
      <4>1. q[n] \in Changes(l, g)
        BY <3>1, <3>4, QueueItem
      <4>2. Applied(q[n], x, h) = x
        BY <4>1, AppliedLate
      <4>3. n = 1 => first = ms
        BY <3>4
      <4> HIDE DEF S, first
      <4> QED BY <3>1, <3>2, <4>2, <4>3
    <3> QED BY <3>3, <3>4
  <2> QED BY <2>1, <2>2
<1>4. m = Applied(s, first, h)
  <2>1. ms \in S[0] /\ S[N + 1] = {Applied(s, first, h)}
    BY <1>0
  <2> HIDE DEF S, m
  <2>2. m \in S[N + 1]
    <3>1. \A n \in 1..(N + 1) : \A x \in S[n - 1] : Applied(p[n], x, h) \in S[n]
      BY <1>3
    <3>2. Len(p) \in Nat
      BY <1>0, <1>1
    <3> QED BY <1>1, <2>1, <3>1, <3>2, DrainedIn DEF m
  <2> QED BY <2>1, <2>2
<1> HIDE DEF m, first
<1>5. m \in Heirs(first, l) /\ Stays(first, m) /\ (Len(m) # 0 => ~isAssistantMessagePending(m[Len(m)]))
  BY <1>0, <1>2, <1>4, SettledIs DEF s
<1>6. m \in Heirs(ms, l)
  BY <1>0, <1>2, <1>5, HeirsCompose
<1>7. Stays(ms, m)
  <2>1. CASE N = 0
    <3>1. first = ms
      BY <2>1 DEF first
    <3> QED BY <1>5, <3>1
  <2>2. CASE N # 0
    <3>1. Waits(ms, l)
      BY <2>2 DEF QueueOK
    <3> QED BY <1>0, <1>6, <3>1, HeirsAre
  <2> QED BY <2>1, <2>2
<1>8. m \in Talks(l) /\ (Tidy(ms) => Tidy(m) /\ Rests(m))
  BY <1>0, <1>5, <1>6, HeirsAre
<1> QED BY <1>7, <1>8 DEF m, p, s

(* While a request is answered an update joins the queue, and the request   *)
(* may be over with it.                                                     *)
LEMMA QueueAppend ==
    ASSUME NEW l \in Nat, NEW ms, NEW g, NEW lv, lv # 0, NEW q, QueueOK(q, ms, l, g, lv),
           NEW u \in Changes(l, g), NEW v, u.op \in Ends => v = 0
    PROVE  QueueOK(Append(q, u), ms, l, g, v) /\ (u.op \in Ends => Settles(Append(q, u), ms))
<1> DEFINE p == Append(q, u)
           N == Len(q)
<1>1. q \in Seq(Changes(l, g) \cup Puts(ms, l)) /\ N \in Nat
  BY DEF QueueOK
<1>2. /\ p \in Seq(Changes(l, g) \cup Puts(ms, l)) /\ Len(p) = N + 1
      /\ \A n \in 1..(N + 1) : p[n] = IF n = N + 1 THEN u ELSE q[n]
  BY <1>1
<1> HIDE DEF p
<1>3. u.op # "put"
  BY DEF Changes, Ends
<1>4. ASSUME NEW i \in 1..(N + 1)
      PROVE  /\ p[i].op = "put" => i = 1 /\ Waits(p[i].msgs, l)
             /\ p[i].op \in Ends => i = N + 1 /\ v = 0
  <2>1. CASE i = N + 1
    BY <1>2, <1>3, <2>1
  <2>2. CASE i # N + 1
    <3>1. i \in 1..N /\ p[i] = q[i]
      BY <1>1, <1>2, <2>2
    <3> QED BY <3>1 DEF QueueOK
  <2> QED BY <2>1, <2>2
<1>5. QueueOK(p, ms, l, g, v)
  BY <1>1, <1>2, <1>4 DEF QueueOK
<1>6. u.op \in Ends => Settles(p, ms)
  <2>1. p[N + 1] = u /\ N + 1 # 0
    BY <1>1, <1>2
  <2> QED BY <1>2, <2>1 DEF Settles
<1> QED BY <1>5, <1>6 DEF p

(* The first update of an empty queue is run at once. *)
LEMMA QueueAtOnce ==
    ASSUME NEW l \in 1..MaxRequests, NEW ms \in Talks(l), NEW g, Waits(ms, l),
           NEW u \in Changes(l, g), NEW v, u.op \in Ends => v = 0
    PROVE  LET n == Applied(u, ms, g) IN
           /\ QueueOK(<<Put(n)>>, ms, l, g, v) /\ n \in Heirs(ms, l)
           /\ Tidy(ms) /\ u.op \in Ends => Settles(<<Put(n)>>, ms)
<1> DEFINE n == Applied(u, ms, g)
           p == <<Put(n)>>
<1>0. l \in Nat
  BY PlaygroundAssumption
<1>1. /\ n \in Heirs(ms, l)
      /\ u.op = "chunk" => Waits(n, l)
      /\ u.op \in Ends => ~isAssistantMessagePending(n[Len(n)])
  BY AppliedIs
<1> HIDE DEF n
<1>2. /\ Len(p) = 1 /\ p[1].op = "put" /\ p[1].msgs = n
      /\ p \in Seq(Changes(l, g) \cup Puts(ms, l))
  BY <1>1 DEF Put, Puts
<1> HIDE DEF p
<1>3. u.op = "chunk" \/ u.op \in Ends
  BY DEF Changes
<1>4. QueueOK(p, ms, l, g, v)
  <2>1. \A i \in 1..1 : i = 1
    OBVIOUS
  <2> QED BY <1>1, <1>2, <1>3, <2>1 DEF QueueOK, Ends
<1>5. Tidy(ms) /\ u.op \in Ends => Settles(p, ms)
  BY <1>0, <1>1, <1>2, HeirsAre DEF Settles
<1> QED BY <1>1, <1>4, <1>5 DEF p, n
(* What an event of the network or a frame queues: some text, an end, or    *)
(* the one before the other                                                 *)
Feeds(us, l, g, v) ==
    \E u \in Changes(l, g) :
       /\ v = 0 <=> u.op \in Ends
       /\ us = <<u>> \/ \E w \in Changes(l, g) : w.op = "chunk" /\ us = <<w, u>>

(* Sequences of one and two put after another one. *)
LEMMA JoinOne ==
    ASSUME NEW S, NEW q \in Seq(S), NEW u
    PROVE  q \o <<u>> = Append(q, u)
  OBVIOUS

(* Two updates after a queue are two appended one by one. *)
LEMMA JoinTwo ==
    ASSUME NEW S, NEW q \in Seq(S), NEW u \in S, NEW w \in S
    PROVE  q \o <<w, u>> = Append(Append(q, w), u)
<1> DEFINE a == q \o <<w, u>>
           b == Append(Append(q, w), u)
           N == Len(q)
<1>1. a \in Seq(S) /\ b \in Seq(S) /\ Append(q, w) \in Seq(S) /\ N \in Nat
  OBVIOUS
<1>2. Len(a) = N + 2 /\ Len(b) = N + 2
  BY <1>1
<1>3. ASSUME NEW i \in 1..(N + 2) PROVE a[i] = b[i]
  <2>1. CASE i \in 1..N
    BY <1>1, <2>1
  <2>2. CASE i = N + 1
    BY <1>1, <2>2
  <2>3. CASE i = N + 2
    BY <1>1, <2>3
  <2> QED BY <1>1, <2>1, <2>2, <2>3
<1> HIDE DEF a, b
<1>4. a = b
  BY <1>1, <1>2, <1>3, SeqEqual
<1> QED BY <1>4 DEF a, b

(* The parts of a sequence of two. *)
LEMMA PairParts ==
    ASSUME NEW w, NEW u
    PROVE  Head(<<w, u>>) = w /\ Tail(<<w, u>>) = <<u>>
<1> DEFINE s == <<w, u>>
           a == Tail(s)
           b == <<u>>
<1>1. s \in Seq({w, u}) /\ s # << >> /\ Len(s) = 2
  OBVIOUS
<1>2. a \in Seq({w, u}) /\ b \in Seq({w, u}) /\ Len(a) = 1 /\ Len(b) = 1
  BY <1>1, HeadTailProperties
<1>3. a[1] = s[2] /\ s[2] = u /\ b[1] = u
  BY <1>1, HeadTailProperties
<1> HIDE DEF a, b
<1>4. a = b
  BY <1>2, <1>3, SeqEqual
<1> QED BY <1>4 DEF a, b

(* What Deliver makes of the queue while a request is answered. *)
LEMMA Queued ==
    ASSUME NEW l \in 1..MaxRequests, msgs \in Talks(l), NEW lv, lv # 0,
           QueueOK(queue, msgs, l, chat.gen, lv),
           NEW us, NEW v, Feeds(us, l, chat.gen, v), NEW q \in Queuings(us)
    PROVE  /\ QueueOK(queue \o q, msgs, l, chat.gen, v) /\ Len(queue \o q) # 0
           /\ v = 0 /\ Tidy(msgs) => Settles(queue \o q, msgs)
           /\ q # us => Head(q).msgs \in Heirs(msgs, l)
<1> DEFINE g == chat.gen
           I == Changes(l, g) \cup Puts(msgs, l)
<1>0. l \in Nat
  BY PlaygroundAssumption
<1>1. PICK u \in Changes(l, g) :
          /\ v = 0 <=> u.op \in Ends
          /\ us = <<u>> \/ \E w \in Changes(l, g) : w.op = "chunk" /\ us = <<w, u>>
  BY DEF Feeds
<1>2. queue \in Seq(I) /\ Waits(msgs, l)
  BY DEF QueueOK
<1>3. \A w \in Changes(l, g) : w.op = "chunk" => w.op \notin Ends
  BY DEF Ends
<1>4. \A w \in Changes(l, g) : us = <<w, u>> => Head(us) = w /\ Tail(us) = <<u>>
  BY PairParts
<1>5. us = <<u>> => Head(us) = u /\ Tail(us) = << >>
  OBVIOUS
<1>6. \A p \in Seq(I) : \A x \in I : Append(p, x) \in Seq(I) /\ Len(Append(p, x)) # 0
  OBVIOUS
<1>7. CASE q = us
  <2>1. CASE us = <<u>>
    <3>1. queue \o q = Append(queue, u)
      BY <1>2, <1>7, <2>1, JoinOne
    <3> HIDE DEF I
    <3> QED BY <1>0, <1>1, <1>2, <1>6, <1>7, <3>1, QueueAppend DEF I
  <2>2. ASSUME NEW w \in Changes(l, g), w.op = "chunk", us = <<w, u>>
        PROVE  QueueOK(queue \o q, msgs, l, g, v) /\ Len(queue \o q) # 0 /\ (v = 0 => Settles(queue \o q, msgs))
    <3> DEFINE p == Append(queue, w)
    <3>1. queue \o q = Append(p, u)
      BY <1>2, <1>7, <2>2, JoinTwo
    <3>2. QueueOK(p, msgs, l, g, lv)
      BY <1>0, <1>3, <2>2, QueueAppend
    <3>3. p \in Seq(I)
      BY <1>2
    <3> HIDE DEF p, I
    <3>4. Len(Append(p, u)) # 0
      BY <1>6, <3>3 DEF I
    <3> QED BY <1>0, <1>1, <3>1, <3>2, <3>4, QueueAppend
  <2> QED BY <1>1, <1>7, <2>1, <2>2
<1>8. CASE q # us
  <2>1. queue = << >> /\ q = <<Put(Applied(Head(us), msgs, g))>> \o Tail(us)
    BY <1>8 DEF Queuings
  <2>2. CASE us = <<u>>
    <3> DEFINE n == Applied(u, msgs, g)
               p == <<Put(n)>>
    <3>1. /\ QueueOK(p, msgs, l, g, v) /\ n \in Heirs(msgs, l)
          /\ Tidy(msgs) /\ u.op \in Ends => Settles(p, msgs)
      BY <1>1, <1>2, QueueAtOnce
    <3>2. q = p /\ queue \o q = p
      BY <1>5, <2>1, <2>2
    <3> HIDE DEF n
    <3>3. Head(q).msgs = n /\ Len(p) # 0
      BY <3>2 DEF Put
    <3> HIDE DEF p
    <3> QED BY <1>1, <3>1, <3>2, <3>3
  <2>3. ASSUME NEW w \in Changes(l, g), w.op = "chunk", us = <<w, u>>
        PROVE  /\ QueueOK(queue \o q, msgs, l, g, v) /\ Len(queue \o q) # 0
               /\ v = 0 => Settles(queue \o q, msgs)
               /\ Head(q).msgs \in Heirs(msgs, l)
    <3> DEFINE n == Applied(w, msgs, g)
               p == <<Put(n)>>
    <3>1. QueueOK(p, msgs, l, g, lv) /\ n \in Heirs(msgs, l)
      BY <1>2, <1>3, <2>3, QueueAtOnce
    <3> HIDE DEF n
    <3>2. q = Append(p, u) /\ queue \o q = Append(p, u) /\ Len(Append(p, u)) # 0
      BY <1>4, <2>1, <2>3 DEF n
    <3>3. Head(q).msgs = n
      BY <3>2 DEF Put
    <3> HIDE DEF p
    <3> QED BY <1>0, <1>1, <3>1, <3>2, <3>3, QueueAppend
  <2> QED BY <1>1, <2>2, <2>3
<1> QED BY <1>7, <1>8
-----------------------------------------------------------------------------
(***************************************************************************)
(* What the user and the storage make of a conversation                    *)
(***************************************************************************)

(* n has only messages of m. *)
Drawn(n, m) == \A j \in 1..Len(n) : \E i \in 1..Len(m) : n[j] = m[i]

(* A conversation drawn from another keeps what has ended and rests. *)
LEMMA DrawnIs ==
    ASSUME NEW l \in Nat, NEW m \in Talks(l), NEW n, Drawn(n, m)
    PROVE  Stays(m, n) /\ (Rests(m) => Rests(n))
<1>1. Rests(m) => Rests(n)
  BY DEF Drawn, Rests
<1>2. ASSUME NEW i \in 1..Len(m), NEW j \in 1..Len(n), m[i].key = n[j].key PROVE n[j] = m[i]
  <2>1. PICK k \in 1..Len(m) : n[j] = m[k]
    BY DEF Drawn
  <2>2. i = k
    BY <1>2, <2>1 DEF Talks
  <2> QED BY <2>1, <2>2
<1> QED BY <1>1, <1>2 DEF Stays

(* A message with a key of its own is added. *)
LEMMA TalkAppend ==
    ASSUME NEW l \in Nat, NEW m \in Talks(l), NEW x \in Message(l), Sound(x),
           \A i \in 1..Len(m) : m[i].key # x.key
    PROVE  /\ Append(m, x) \in Talks(l) /\ Len(Append(m, x)) = Len(m) + 1
           /\ \A i \in 1..Len(m) : Append(m, x)[i] = m[i]
           /\ Append(m, x)[Len(m) + 1] = x
<1> DEFINE n == Append(m, x)
           N == Len(m)
<1>1. m \in Seq(Message(l)) /\ N \in Nat
  BY DEF Talks
<1>2. n \in Seq(Message(l)) /\ Len(n) = N + 1
  BY <1>1
<1>3. \A i \in 1..(N + 1) : n[i] = IF i = N + 1 THEN x ELSE m[i]
  BY <1>1
<1> HIDE DEF n
<1>4. n[N + 1] = x /\ \A i \in 1..N : n[i] = m[i]
  BY <1>1, <1>3
<1>5. \A i \in 1..(N + 1) : i \in 1..N \/ i = N + 1
  BY <1>1
<1>6. \A i \in 1..(N + 1) : Sound(n[i])
  BY <1>4, <1>5 DEF Talks
<1>7. ASSUME NEW i \in 1..(N + 1), NEW j \in 1..(N + 1), n[i].key = n[j].key PROVE i = j
  <2>1. CASE i \in 1..N /\ j \in 1..N
    BY <1>4, <1>7, <2>1 DEF Talks
  <2>2. CASE ~(i \in 1..N /\ j \in 1..N)
    BY <1>4, <1>5, <1>7, <2>2
  <2> QED BY <2>1, <2>2
<1>8. n \in Talks(l)
  BY <1>2, <1>6, <1>7 DEF Talks
<1> QED BY <1>2, <1>4, <1>8 DEF n

(* Messages are removed. *)
LEMMA RemovedIs ==
    ASSUME NEW l \in Nat, NEW m \in Talks(l), NEW key
    PROVE  removeMessageByKey(m, key) \in Talks(l) /\ Drawn(removeMessageByKey(m, key), m)
<1> DEFINE N == Len(m)
           Step(n, x) == IF m[n].key = key THEN x ELSE Append(x, m[n])
           Upto(k, f) == f = [n \in 0..k |-> IF n = 0 THEN << >>
                                             ELSE IF m[n].key = key THEN f[n - 1] ELSE Append(f[n - 1], m[n])]
           H == {k \in 0..N : \E f : Upto(k, f)}
<1>0. N \in Nat
  BY DEF Talks
<1> HIDE DEF N
<1>1. 0 \in H
  <2> DEFINE f == [n \in 0..0 |-> << >>]
  <2>1. \A n \in 0..0 : n = 0
    OBVIOUS
  <2>2. Upto(0, f)
    BY <2>1
  <2>3. 0 \in 0..N
    BY <1>0
  <2> HIDE DEF Upto, f
  <2> QED BY <2>2, <2>3
<1>2. ASSUME NEW n \in 1..N, n - 1 \in H PROVE n \in H
  <2>1. PICK f : Upto(n - 1, f)
    BY <1>2
  <2> DEFINE h == [i \in 0..n |-> IF i = n THEN Step(n, f[n - 1]) ELSE f[i]]
  <2>2. \A i \in 0..(n - 1) : f[i] = IF i = 0 THEN << >> ELSE Step(i, f[i - 1])
    BY <2>1
  <2>3. ASSUME NEW i \in 0..n PROVE h[i] = IF i = 0 THEN << >> ELSE Step(i, h[i - 1])
    <3> HIDE DEF Step
    <3>1. CASE i = n
      <4>1. n - 1 \in 0..n /\ n - 1 # n /\ n # 0
        BY <1>0
      <4> QED BY <3>1, <4>1
    <3>2. CASE i # n
      <4>1. i \in 0..(n - 1) /\ i - 1 # n /\ (i # 0 => i - 1 \in 0..n)
        BY <1>0, <3>2
      <4> QED BY <2>2, <3>2, <4>1
    <3> QED BY <3>1, <3>2
  <2>4. h = [i \in 0..n |-> h[i]]
    OBVIOUS
  <2> HIDE DEF h
  <2>5. Upto(n, h)
    BY <2>3, <2>4
  <2>6. n \in 0..N
    BY <1>0
  <2> HIDE DEF Upto
  <2> QED BY <2>5, <2>6
<1>3. H = 0..N
  <2>1. H \in SUBSET (0..N)
    OBVIOUS
  <2> HIDE DEF H
  <2> QED BY <1>0, <1>1, <1>2, <2>1, Stepwise
<1>4. \E f : Upto(N, f)
  <2>1. N \in H
    <3> HIDE DEF H
    <3> QED BY <1>0, <1>3
  <2> HIDE DEF Upto
  <2> QED BY <2>1
<1> DEFINE kept == CHOOSE f : Upto(N, f)
<1>5. Upto(N, kept)
  <2> HIDE DEF Upto
  <2> QED BY <1>4
<1>6. removeMessageByKey(m, key) = kept[N]
  BY DEF removeMessageByKey, N
<1> HIDE DEF kept
<1>7. \A n \in 0..N : kept[n] = IF n = 0 THEN << >> ELSE Step(n, kept[n - 1])
  BY <1>5
<1> DEFINE G == {k \in 0..N : /\ kept[k] \in Talks(l)
                              /\ \A j \in 1..Len(kept[k]) : \E i \in 1..k : kept[k][j] = m[i]}
<1>8. 0 \in G
  <2>1. kept[0] = << >>
    BY <1>0, <1>7
  <2>2. << >> \in Talks(l) /\ Len(<< >>) = 0
    BY DEF Talks
  <2>3. 0 \in 0..N
    BY <1>0
  <2> QED BY <2>1, <2>2, <2>3
<1>9. ASSUME NEW n \in 1..N, n - 1 \in G PROVE n \in G
  <2> DEFINE x == kept[n - 1]
             y == kept[n]
  <2>1. x \in Talks(l) /\ \A j \in 1..Len(x) : \E i \in 1..(n - 1) : x[j] = m[i]
    BY <1>9
  <2>2. y = Step(n, x) /\ n \in 0..N
    BY <1>0, <1>7
  <2>3. \A i \in 1..(n - 1) : i \in 1..n /\ i # n /\ i \in 1..N
    BY <1>0
  <2>4. n \in 1..n /\ n \in 1..Len(m)
    BY <1>0 DEF N
  <2> HIDE DEF x, y
  <2>5. CASE m[n].key = key
    <3>1. y = x
      BY <2>2, <2>5
    <3>2. \A j \in 1..Len(y) : \E i \in 1..n : y[j] = m[i]
      BY <2>1, <2>3, <3>1
    <3> QED BY <2>1, <2>2, <3>1, <3>2 DEF y
  <2>6. CASE m[n].key # key
    <3>1. y = Append(x, m[n])
      BY <2>2, <2>6
    <3>2. m[n] \in Message(l) /\ Sound(m[n])
      BY <2>4 DEF Talks
    <3>3. ASSUME NEW j \in 1..Len(x) PROVE x[j].key # m[n].key
      <4>1. PICK i \in 1..(n - 1) : x[j] = m[i]
        BY <2>1
      <4> QED BY <2>3, <2>4, <4>1 DEF Talks, N
    <3>4. /\ y \in Talks(l) /\ Len(y) = Len(x) + 1
          /\ \A i \in 1..Len(x) : y[i] = x[i]
          /\ y[Len(x) + 1] = m[n]
      BY <2>1, <3>1, <3>2, <3>3, TalkAppend
    <3>5. ASSUME NEW j \in 1..Len(y) PROVE \E i \in 1..n : y[j] = m[i]
      <4>1. Len(x) \in Nat
        BY <2>1 DEF Talks
      <4>2. j \in 1..Len(x) \/ j = Len(x) + 1
        BY <3>4, <4>1
      <4> QED BY <2>1, <2>3, <2>4, <3>4, <4>2
    <3> QED BY <2>2, <3>4, <3>5 DEF y
  <2> QED BY <2>5, <2>6
<1>10. G = 0..N
  <2>1. G \in SUBSET (0..N)
    OBVIOUS
  <2> HIDE DEF G
  <2> QED BY <1>0, <1>8, <1>9, <2>1, Stepwise
<1>11. N \in G
  <2> HIDE DEF G
  <2> QED BY <1>0, <1>10
<1> QED BY <1>6, <1>11 DEF Drawn, N
(* One message is replaced by one with its key. *)
Replaces(n, m, i, y) == n = [m EXCEPT ![i] = y]

(* One message is replaced by one with its key. *)
LEMMA OneReplaced ==
    ASSUME NEW l \in Nat, NEW m \in Talks(l), NEW i \in 1..Len(m),
           NEW y \in Message(l), Sound(y), y.key = m[i].key, NEW n, Replaces(n, m, i, y)
    PROVE  /\ n \in Talks(l) /\ Len(n) = Len(m)
           /\ \A j \in 1..Len(m) : n[j] = IF j = i THEN y ELSE m[j]
<1>1. m \in Seq(Message(l)) /\ Len(m) \in Nat
  BY DEF Talks
<1>2. /\ n \in Seq(Message(l)) /\ Len(n) = Len(m)
      /\ \A j \in 1..Len(m) : n[j] = IF j = i THEN y ELSE m[j]
  BY <1>1, ExceptSeq DEF Replaces
<1>3. \A j \in 1..Len(m) : Sound(n[j]) /\ n[j].key = m[j].key
  BY <1>1, <1>2 DEF Talks
<1>4. n \in Talks(l)
  BY <1>1, <1>2, <1>3 DEF Talks
<1> QED BY <1>2, <1>4

(* A message with another text. *)
LEMMA TextReplaced ==
    ASSUME NEW x, NEW t, x = [key |-> x.key, from |-> x.from, status |-> x.status, text |-> x.text]
    PROVE  [x EXCEPT !.text = t] = [key |-> x.key, from |-> x.from, status |-> x.status, text |-> t]
  OBVIOUS

(* The user edits a message. *)
LEMMA EditedIs ==
    ASSUME NEW l \in Nat, NEW m \in Talks(l), NEW i \in 1..Len(m)
    PROVE  LET n == [m EXCEPT ![i].text = {Typed}] IN
           /\ n \in Talks(l) /\ Stays(m, n)
           /\ Tidy(m) => Tidy(n)
           /\ Rests(m) => Rests(n)
           /\ Waits(m, l) => Waits(n, l)
<1> DEFINE x == m[i]
           y == [x EXCEPT !.text = {Typed}]
           n == [m EXCEPT ![i].text = {Typed}]
<1>1. x \in Message(l) /\ Sound(x) /\ Len(m) \in Nat
  BY DEF Talks
<1>2. {Typed} \in Texts
  BY PlaygroundAssumption DEF Texts, Typed
<1>3. x = [key |-> x.key, from |-> x.from, status |-> x.status, text |-> x.text]
  BY <1>1 DEF Message
<1>4. /\ y \in Message(l) /\ Sound(y) /\ y.key = x.key /\ y.from = x.from
      /\ y.status = x.status /\ y.text = {Typed}
  <2> HIDE DEF x
  <2>1. y = [key |-> x.key, from |-> x.from, status |-> x.status, text |-> {Typed}]
    BY <1>3, TextReplaced
  <2> HIDE DEF y
  <2>2. /\ y.key = x.key /\ y.from = x.from /\ y.status = x.status /\ y.text = {Typed}
    BY <2>1
  <2>3. y \in Message(l)
    BY <1>1, <1>2, <2>1 DEF Message
  <2>4. Sound(y)
    BY <1>1, <2>2 DEF Sound, Typed
  <2> QED BY <2>2, <2>3, <2>4
<1>5. Replaces(n, m, i, y)
  BY DEF Replaces
<1> HIDE DEF n, y
<1>6. /\ n \in Talks(l) /\ Len(n) = Len(m)
      /\ \A j \in 1..Len(m) : n[j] = IF j = i THEN y ELSE m[j]
  BY <1>4, <1>5, OneReplaced
<1>7. \A j \in 1..Len(m) : n[j].key = m[j].key /\ n[j].status = m[j].status /\ n[j].from = m[j].from
  BY <1>4, <1>6
<1>8. Stays(m, n)
  <2> SUFFICES ASSUME NEW a \in 1..Len(m), NEW b \in 1..Len(n), m[a].key = n[b].key
               PROVE  n[b].status = m[a].status /\ n[b].text \in {m[a].text, {Typed}}
    BY DEF Stays
  <2>1. a = b
    BY <1>6, <1>7 DEF Talks
  <2> QED BY <1>4, <1>6, <1>7, <2>1
<1>9. (Tidy(m) => Tidy(n)) /\ (Rests(m) => Rests(n))
  BY <1>6, <1>7 DEF Tidy, Rests, isAssistantMessagePending
<1>10. Waits(m, l) => Waits(n, l)
  <2>1. Len(m) # 0 => Len(m) \in 1..Len(m)
    BY <1>1
  <2> QED BY <1>6, <1>7, <2>1 DEF Waits, isAssistantMessagePending
<1> QED BY <1>6, <1>8, <1>9, <1>10 DEF n

(* A conversation is cut after message i. *)
LEMMA CutIs ==
    ASSUME NEW l \in Nat, NEW m \in Talks(l), NEW a \in 1..(Len(m) + 1), NEW b \in 0..Len(m), a <= b + 1
    PROVE  /\ SubSeq(m, a, b) \in Talks(l) /\ Len(SubSeq(m, a, b)) = b - a + 1
           /\ \A i \in 1..(b - a + 1) : SubSeq(m, a, b)[i] = m[a + i - 1]
<1> DEFINE n == SubSeq(m, a, b)
<1>1. m \in Seq(Message(l)) /\ Len(m) \in Nat
  BY DEF Talks
<1>2. n \in Seq(Message(l))
  BY <1>1, SubSeqProperties
<1>3. Len(n) = b - a + 1
  BY <1>1, SubSeqProperties
<1>4. \A i \in 1..(b - a + 1) : n[i] = m[a + i - 1]
  BY <1>1, SubSeqProperties
<1> HIDE DEF n
<1>5. \A i \in 1..(b - a + 1) : a + i - 1 \in 1..Len(m)
  BY <1>1
<1>6. \A i \in 1..(b - a + 1) : Sound(n[i])
  BY <1>4, <1>5 DEF Talks
<1>7. ASSUME NEW i \in 1..(b - a + 1), NEW j \in 1..(b - a + 1), n[i].key = n[j].key PROVE i = j
  <2>1. m[a + i - 1].key = m[a + j - 1].key
    BY <1>4, <1>7
  <2>2. a + i - 1 = a + j - 1
    BY <1>5, <2>1 DEF Talks
  <2> QED BY <2>2
<1>8. n \in Talks(l)
  BY <1>2, <1>3, <1>6, <1>7 DEF Talks
<1> QED BY <1>3, <1>4, <1>8 DEF n

(* The storage keeps the last messages. *)
LEMMA TrimmedIs ==
    ASSUME NEW l \in Nat, NEW m \in Talks(l)
    PROVE  /\ trimMessages(m) \in Talks(l) /\ Len(trimMessages(m)) <= MaxStored
           /\ Tidy(m) => Tidy(trimMessages(m))
<1> DEFINE N == Len(m)
           n == trimMessages(m)
<1>0. N \in Nat /\ MaxStored \in Nat
  BY PlaygroundAssumption DEF Talks
<1>1. CASE N <= MaxStored
  BY <1>1 DEF trimMessages
<1>2. CASE ~(N <= MaxStored)
  <2> DEFINE a == N - MaxStored + 1
  <2>1. n = SubSeq(m, a, N)
    BY <1>2 DEF trimMessages
  <2>2. a \in 1..(N + 1) /\ N \in 0..N /\ a <= N + 1 /\ N - a + 1 = MaxStored
    BY <1>0, <1>2
  <2> HIDE DEF a
  <2>3. /\ n \in Talks(l) /\ Len(n) = MaxStored
        /\ \A i \in 1..MaxStored : n[i] = m[a + i - 1]
    BY <2>1, <2>2, CutIs
  <2> HIDE DEF n
  <2>4. Tidy(m) => Tidy(n)
    <3>1. \A i \in 1..MaxStored : a + i - 1 \in 1..N /\ (a + i - 1 = N => i = MaxStored)
      BY <1>0, <2>2
    <3> QED BY <2>3, <3>1 DEF Tidy
  <2> QED BY <1>0, <2>3, <2>4 DEF n
<1> QED BY <1>1, <1>2
(* No message has the key of a request still to come. *)
LEMMA KeysUpTo ==
    ASSUME NEW l \in Nat, NEW m \in Talks(l)
    PROVE  \A j \in 1..Len(m) : m[j].key \in 1..(2 * l)
<1> TAKE j \in 1..Len(m)
<1>1. m[j] \in Message(l)
  BY DEF Talks
<1> QED BY <1>1 DEF Message

(* A new answer comes after the first i messages. *)
LEMMA AnswerAsked ==
    ASSUME NEW l \in Nat, l + 1 <= MaxRequests, NEW m \in Talks(l), NEW i \in 0..Len(m)
    PROVE  LET n == Append(SubSeq(m, 1, i), Loading(l + 1)) IN
           /\ n \in Talks(l + 1) /\ Waits(n, l + 1) /\ Stays(m, n)
           /\ (\A j \in 1..i : ~isAssistantMessagePending(m[j])) => Tidy(n)
<1> DEFINE k == SubSeq(m, 1, i)
           x == Loading(l + 1)
           n == Append(k, x)
<1>0. Len(m) \in Nat /\ i \in Nat
  BY DEF Talks
<1>1. k \in Talks(l) /\ Len(k) = i /\ \A j \in 1..i : k[j] = m[j]
  <2> DEFINE a == 1
  <2>1. a \in 1..(Len(m) + 1) /\ a <= i + 1 /\ i - a + 1 = i /\ \A j \in 1..i : a + j - 1 = j
    BY <1>0
  <2>2. k = SubSeq(m, a, i)
    OBVIOUS
  <2> HIDE DEF a, k
  <2> QED BY <2>1, <2>2, CutIs
<1> HIDE DEF k
<1>2. k \in Talks(l + 1)
  BY <1>1, TalksGrow
<1>3. x \in Message(l + 1) /\ Sound(x)
  BY DEF Loading, Message, Statuses, Texts, Sound
<1>4. x.key = 2 * (l + 1) /\ x.from = "assistant" /\ isAssistantMessagePending(x)
  BY DEF Loading, isAssistantMessagePending
<1> HIDE DEF x
<1>5. \A j \in 1..Len(m) : m[j].key \in 1..(2 * l)
  BY KeysUpTo
<1>6. \A j \in 1..i : k[j].key # x.key /\ j \in 1..Len(m)
  BY <1>0, <1>1, <1>4, <1>5
<1>7. /\ n \in Talks(l + 1) /\ Len(n) = i + 1
      /\ \A j \in 1..i : n[j] = k[j]
      /\ n[i + 1] = x
  BY <1>1, <1>2, <1>3, <1>6, TalkAppend
<1> HIDE DEF n
<1>8. \A j \in 1..(i + 1) : j \in 1..i \/ j = i + 1
  BY <1>0
<1>9. Waits(n, l + 1)
  BY <1>0, <1>4, <1>7 DEF Waits
<1>10. Stays(m, n)
  <2> SUFFICES ASSUME NEW a \in 1..Len(m), NEW b \in 1..Len(n), m[a].key = n[b].key
               PROVE  n[b] = m[a]
    BY DEF Stays
  <2>1. m[a].key # x.key
    BY <1>4, <1>5
  <2>2. b \in 1..i /\ n[b] = m[b] /\ b \in 1..Len(m)
    BY <1>1, <1>6, <1>7, <1>8, <2>1
  <2>3. a = b
    BY <2>2 DEF Talks
  <2> QED BY <2>2, <2>3
<1>11. (\A j \in 1..i : ~isAssistantMessagePending(m[j])) => Tidy(n)
  BY <1>1, <1>7, <1>8 DEF Tidy
<1> QED BY <1>7, <1>9, <1>10, <1>11 DEF n, k, x

(* A question and its answer come after the conversation. *)
LEMMA QuestionAsked ==
    ASSUME NEW l \in Nat, l + 1 <= MaxRequests, NEW m \in Talks(l)
    PROVE  LET n == m \o <<Question(l + 1), Loading(l + 1)>> IN
           /\ n \in Talks(l + 1) /\ Waits(n, l + 1) /\ Stays(m, n)
           /\ Rests(m) => Tidy(n)
<1> DEFINE y == Question(l + 1)
           x == Loading(l + 1)
           k == Append(m, y)
           n == m \o <<y, x>>
           N == Len(m)
<1>0. N \in Nat /\ m \in Talks(l + 1) /\ m \in Seq(Message(l + 1))
  <2>1. m \in Talks(l + 1)
    BY TalksGrow
  <2> QED BY <2>1 DEF Talks
<1>1. x \in Message(l + 1) /\ Sound(x) /\ y \in Message(l + 1) /\ Sound(y)
  BY PlaygroundAssumption DEF Loading, Question, Message, Statuses, Texts, Sound, Typed
<1>2. /\ x.key = 2 * (l + 1) /\ x.from = "assistant" /\ isAssistantMessagePending(x)
      /\ y.key = 2 * (l + 1) - 1 /\ ~isAssistantMessagePending(y)
  BY DEF Loading, Question, isAssistantMessagePending
<1>3. n = Append(k, x)
  BY <1>0, <1>1, JoinTwo
<1> HIDE DEF x, y, n
<1>4. \A j \in 1..N : m[j].key \in 1..(2 * l)
  BY KeysUpTo
<1>5. \A j \in 1..N : m[j].key # x.key /\ m[j].key # y.key
  BY <1>2, <1>4
<1>6. /\ k \in Talks(l + 1) /\ Len(k) = N + 1
      /\ \A j \in 1..N : k[j] = m[j]
      /\ k[N + 1] = y
  BY <1>0, <1>1, <1>5, TalkAppend
<1> HIDE DEF k
<1>7. \A j \in 1..(N + 1) : j \in 1..N \/ j = N + 1
  BY <1>0
<1>8. \A j \in 1..(N + 1) : k[j].key # x.key
  BY <1>2, <1>5, <1>6, <1>7
<1>9. /\ n \in Talks(l + 1) /\ Len(n) = N + 2
      /\ \A j \in 1..(N + 1) : n[j] = k[j]
      /\ n[N + 2] = x
  <2>1. N + 1 + 1 = N + 2
    BY <1>0
  <2> QED BY <1>1, <1>3, <1>6, <1>8, <2>1, TalkAppend
<1>10. \A j \in 1..(N + 2) : j \in 1..(N + 1) \/ j = N + 2
  BY <1>0
<1>11. Waits(n, l + 1)
  BY <1>0, <1>2, <1>9 DEF Waits
<1>12. Stays(m, n)
  <2> SUFFICES ASSUME NEW a \in 1..N, NEW b \in 1..Len(n), m[a].key = n[b].key
               PROVE  n[b] = m[a]
    BY DEF Stays
  <2>1. m[a].key # x.key /\ m[a].key # y.key
    BY <1>5
  <2>2. b \in 1..N /\ n[b] = m[b]
    BY <1>6, <1>7, <1>9, <1>10, <2>1
  <2>3. a = b
    BY <2>2 DEF Talks
  <2> QED BY <2>2, <2>3
<1>13. Rests(m) => Tidy(n)
  BY <1>2, <1>6, <1>7, <1>9, <1>10 DEF Tidy, Rests
<1> QED BY <1>9, <1>11, <1>12, <1>13 DEF n, x, y

(* The stored conversation is repaired when it is loaded. *)
LEMMA NormalizedIs ==
    ASSUME NEW l \in Nat, NEW x \in Message(l), Sound(x)
    PROVE  LET y == normalizeStoredMessageForLoad(x) IN
           /\ y \in Message(l) /\ Sound(y) /\ y.key = x.key
           /\ isAssistantMessagePending(y) => isAssistantMessagePending(x)
<1> DEFINE y == normalizeStoredMessageForLoad(x)
<1>1. x = [key |-> x.key, from |-> x.from, status |-> x.status, text |-> x.text]
  BY DEF Message
<1>2. CASE isAssistantMessagePending(x) /\ x.text # {}
  <2>1. y = [key |-> x.key, from |-> x.from, status |-> "complete", text |-> x.text]
    BY <1>1, <1>2 DEF normalizeStoredMessageForLoad, completeAssistantMessage
  <2>2. x.from = "assistant"
    BY <1>2 DEF Sound, Message, isAssistantMessagePending
  <2> HIDE DEF y
  <2>3. y.key = x.key /\ y.from = x.from /\ y.status = "complete" /\ y.text = x.text
    BY <2>1
  <2>4. y \in Message(l)
    BY <2>1 DEF Message, Statuses
  <2>5. Sound(y)
    BY <2>2, <2>3 DEF Sound
  <2> QED BY <1>2, <2>3, <2>4, <2>5 DEF y
<1>3. CASE ~(isAssistantMessagePending(x) /\ x.text # {})
  BY <1>3 DEF normalizeStoredMessageForLoad
<1> QED BY <1>2, <1>3

(* What is loaded is a conversation, at rest when the stored was tidy. *)
LEMMA LoadedIs ==
    ASSUME NEW l \in Nat, NEW m \in Talks(l)
    PROVE  /\ Loaded(m) \in Talks(l)
           /\ Tidy(m) => Rests(Loaded(m))
           /\ m = << >> => Loaded(m) = << >>
<1> DEFINE k == [i \in DOMAIN m |-> normalizeStoredMessageForLoad(m[i])]
           n == sanitizeMessagesOnLoad(k)
           N == Len(m)
           stuck == {i \in DOMAIN k : isAssistantMessagePending(k[i])}
           last == CHOOSE i \in stuck : \A j \in stuck : j <= i
<1>0. N \in Nat /\ DOMAIN m = 1..N /\ m \in Seq(Message(l))
  BY DEF Talks
<1>1. \A i \in 1..N : /\ k[i] \in Message(l) /\ Sound(k[i]) /\ k[i].key = m[i].key
                      /\ isAssistantMessagePending(k[i]) => isAssistantMessagePending(m[i])
  <2> TAKE i \in 1..N
  <2>1. m[i] \in Message(l) /\ Sound(m[i])
    BY DEF Talks
  <2>2. k[i] = normalizeStoredMessageForLoad(m[i])
    BY <1>0
  <2> HIDE DEF k
  <2> QED BY <2>1, <2>2, NormalizedIs
<1>2. DOMAIN k = 1..N /\ k = [i \in 1..N |-> k[i]]
  BY <1>0
<1>a. Loaded(m) = n
  BY DEF Loaded
<1>b. m = << >> => k = << >>
  BY <1>0
<1> HIDE DEF k
<1>3. k \in Seq(Message(l)) /\ Len(k) = N
  <2>1. k \in [1..N -> Message(l)]
    BY <1>1, <1>2
  <2> QED BY <1>0, <2>1, SeqDef
<1>4. k \in Talks(l)
  BY <1>1, <1>3 DEF Talks
<1>5. n = IF stuck = {} THEN k
          ELSE [k EXCEPT ![last].status = "error", ![last].text = {ErrorText}]
  BY DEF sanitizeMessagesOnLoad
<1>6. CASE stuck = {}
  <2>1. n = k
    BY <1>5, <1>6
  <2>2. Rests(k)
    BY <1>2, <1>3, <1>6 DEF Rests
  <2>3. m = << >> => n = << >>
    BY <1>b, <2>1
  <2> HIDE DEF n
  <2> QED BY <1>a, <1>4, <2>1, <2>2, <2>3
<1>7. CASE stuck # {}
  <2>1. stuck \in SUBSET (1..N)
    BY <1>2
  <2>2. last \in stuck /\ \A j \in stuck : j <= last
    <3> HIDE DEF stuck
    <3>1. \E i \in stuck : \A j \in stuck : j <= i
      BY <1>0, <1>7, <2>1, Greatest
    <3> QED BY <3>1
  <2> HIDE DEF last
  <2> DEFINE x == k[last]
             z == [x EXCEPT !.status = "error"]
             y == [z EXCEPT !.text = {ErrorText}]
  <2>3. last \in 1..N /\ isAssistantMessagePending(x)
    BY <2>1, <2>2
  <2>4. Replaces(n, k, last, y)
    <3>1. n = [k EXCEPT ![last].status = "error", ![last].text = {ErrorText}]
      BY <1>5, <1>7
    <3> QED BY <1>2, <2>3, <3>1 DEF Replaces
  <2>5. x \in Message(l) /\ Sound(x)
    BY <1>1, <2>3
  <2>6. x = [key |-> x.key, from |-> x.from, status |-> x.status, text |-> x.text]
    BY <2>5 DEF Message
  <2> HIDE DEF n
  <2>7. y \in Message(l) /\ Sound(y) /\ y.key = x.key /\ ~isAssistantMessagePending(y)
    <3> HIDE DEF x
    <3>1. z = [key |-> x.key, from |-> x.from, status |-> "error", text |-> x.text]
      BY <2>6
    <3>2. y = [key |-> x.key, from |-> x.from, status |-> "error", text |-> {ErrorText}]
      <4> HIDE DEF z
      <4>1. z.key = x.key /\ z.from = x.from /\ z.status = "error" /\ z.text = x.text
        BY <3>1
      <4> QED BY <3>1, <4>1, TextReplaced
    <3> HIDE DEF y
    <3>3. x.from = "assistant" /\ {ErrorText} \in Texts
      BY <2>3, <2>5, PlaygroundAssumption DEF Sound, Message, isAssistantMessagePending, Texts, ErrorText
    <3> QED BY <2>5, <3>2, <3>3 DEF Message, Statuses, Sound, ErrorText, isAssistantMessagePending
  <2> HIDE DEF y
  <2>8. /\ n \in Talks(l) /\ Len(n) = N
        /\ \A j \in 1..N : n[j] = IF j = last THEN y ELSE k[j]
    BY <1>3, <1>4, <2>3, <2>4, <2>7, OneReplaced
  <2>9. Tidy(m) => Rests(n)
    <3>1. Tidy(m) => \A j \in stuck : j = N
      BY <1>1, <2>1 DEF Tidy
    <3>2. Tidy(m) => \A j \in 1..N : isAssistantMessagePending(k[j]) => j = last
      BY <1>2, <2>2, <3>1
    <3> QED BY <2>7, <2>8, <3>2 DEF Rests
  <2>10. m # << >>
    BY <1>0, <2>3
  <2> QED BY <1>a, <2>8, <2>9, <2>10
<1> QED BY <1>6, <1>7
-----------------------------------------------------------------------------
(***************************************************************************)
(* The chat handler, the stream controller and the requests                *)
(***************************************************************************)

ChatSet == [gen : Nat, pgen : Nat, ptext : SUBSET Nat, frame : Nat, requesting : BOOLEAN, aborter : Nat]
CtlSet == [gen : Nat, source : Nat, streaming : BOOLEAN]
Request == [gen : Nat, sgen : Nat, at : {"headers", "open", "fetch", "closed"}, aborted : BOOLEAN]

(* The request that is answered: the last one, as long as it is of the      *)
(* handler's generation and has not ended                                   *)
Live(c, rs) ==
    IF Len(rs) # 0 /\ rs[Len(rs)].gen = c.gen /\ rs[Len(rs)].at # "closed" THEN Len(rs) ELSE 0

(* Only the last request can be of the generation that is current           *)
RequestsOK(c, rs) ==
    /\ rs \in Seq(Request) /\ Len(rs) <= MaxRequests
    /\ \A r \in 1..Len(rs) :
          rs[r].sgen = rs[r].gen /\ rs[r].gen <= c.gen /\ (r # Len(rs) => rs[r].gen < c.gen)

(* The two counters agree; the source, the fetch and the text that waits    *)
(* for a frame belong to the request that is answered                       *)
HandlerOK(c, k, rs) ==
    /\ c \in ChatSet /\ k \in CtlSet /\ RequestsOK(c, rs)
    /\ k.gen = c.gen /\ c.frame \in {0, c.gen} /\ c.pgen <= c.gen
    /\ Live(c, rs) # 0 => isGenerating(c, k)
    /\ k.source # 0 => k.source = Live(c, rs) /\ rs[k.source].at = "open"
    /\ \A r \in 1..Len(rs) : rs[r].at = "open" => k.source = r
    /\ c.aborter # 0 => c.aborter = Live(c, rs) /\ rs[c.aborter].at = "fetch"
    /\ Live(c, rs) # 0 /\ rs[Live(c, rs)].at = "fetch" =>
          c.aborter = Live(c, rs) /\ ~rs[Live(c, rs)].aborted
    /\ c.ptext # {} => c.pgen = c.gen /\ c.ptext = {Live(c, rs)} /\ k.source # 0

(* The request that is answered, if any, is the last. *)
LEMMA LiveIs ==
    ASSUME NEW c, NEW rs, RequestsOK(c, rs)
    PROVE  /\ Len(rs) \in 0..MaxRequests /\ Len(rs) \in Nat /\ MaxRequests \in Nat
           /\ Live(c, rs) \in 0..Len(rs) /\ Live(c, rs) \in {0, Len(rs)}
           /\ Live(c, rs) # 0 => /\ Len(rs) \in 1..Len(rs) /\ Len(rs) \in 1..MaxRequests
                                 /\ rs[Len(rs)].gen = c.gen /\ rs[Len(rs)].at # "closed"
<1>1. Len(rs) \in Nat /\ MaxRequests \in Nat /\ Len(rs) <= MaxRequests
  BY PlaygroundAssumption DEF RequestsOK
<1> QED BY <1>1 DEF Live

(* A request of the generation that is current is the last. *)
LEMMA CurrentIsLast ==
    ASSUME NEW c, c.gen \in Nat, NEW rs, RequestsOK(c, rs), NEW r \in 1..Len(rs), rs[r].gen = c.gen
    PROVE  r = Len(rs) /\ (rs[r].at # "closed" => Live(c, rs) = r)
<1>1. Len(rs) \in Nat
  BY LiveIs
<1>2. r = Len(rs)
  BY DEF RequestsOK
<1> QED BY <1>1, <1>2 DEF Live

(* A flush empties the buffer and leaves the rest of the handler. *)
LEMMA FlushIs ==
    ASSUME NEW c \in ChatSet, NEW d, d = flushStreamUpdates(c, c.gen)
    PROVE  /\ d \in ChatSet /\ d.gen = c.gen /\ d.pgen = c.pgen /\ d.frame = 0
           /\ d.aborter = c.aborter /\ (d.requesting <=> c.requesting)
           /\ c.pgen = c.gen => d.ptext = {}
           /\ c.pgen # c.gen => d.ptext = c.ptext
<1> DEFINE t == IF c.pgen = c.gen THEN {} ELSE c.ptext
<1>1. d = [c EXCEPT !.frame = 0, !.ptext = t]
  BY DEF flushStreamUpdates
<1>2. t \in SUBSET Nat /\ (c.pgen = c.gen => t = {}) /\ (c.pgen # c.gen => t = c.ptext)
  BY DEF ChatSet
<1> HIDE DEF t
<1>3. d \in ChatSet
  BY ONLY c \in ChatSet, <1>1, <1>2 DEF ChatSet
<1>4. d.frame = 0 /\ d.ptext = t
  BY <1>1 DEF ChatSet
<1>5. d.gen = c.gen /\ d.pgen = c.pgen /\ d.aborter = c.aborter /\ d.requesting = c.requesting
  BY <1>1 DEF ChatSet
<1> QED BY <1>2, <1>3, <1>4, <1>5

(* The text that waits is flushed: an update for the request that is        *)
(* answered.                                                                *)
LEMMA FlushedIs ==
    ASSUME NEW c, NEW k, NEW rs, HandlerOK(c, k, rs), NEW d, d = flushStreamUpdates(c, c.gen)
    PROVE  /\ HandlerOK(d, k, rs) /\ Live(d, rs) = Live(c, rs) /\ d.ptext = {} /\ d.gen = c.gen
           /\ \/ Flushing(c, c.gen) = << >>
              \/ Live(c, rs) # 0 /\ Feeds(Flushing(c, c.gen), Len(rs), c.gen, Live(c, rs))
<1>1. /\ d \in ChatSet /\ d.gen = c.gen /\ d.pgen = c.pgen /\ d.frame = 0
      /\ d.aborter = c.aborter /\ (d.requesting <=> c.requesting)
      /\ c.pgen = c.gen => d.ptext = {}
      /\ c.pgen # c.gen => d.ptext = c.ptext
  BY FlushIs DEF HandlerOK
<1>2. d.ptext = {}
  BY <1>1 DEF HandlerOK
<1>3. Live(d, rs) = Live(c, rs) /\ RequestsOK(d, rs)
  BY <1>1 DEF Live, RequestsOK, HandlerOK
<1>4. HandlerOK(d, k, rs)
  BY <1>1, <1>2, <1>3 DEF HandlerOK, isGenerating
<1>5. CASE ~HasPending(c, c.gen)
  BY <1>1, <1>2, <1>3, <1>4, <1>5 DEF Flushing
<1>6. CASE HasPending(c, c.gen)
  <2> DEFINE l == Len(rs)
             u == Change("chunk", c.gen, c.ptext)
  <2>1. Flushing(c, c.gen) = <<u>>
    BY <1>6 DEF Flushing
  <2>2. c.ptext = {Live(c, rs)} /\ k.source = Live(c, rs) /\ Live(c, rs) # 0
    BY <1>6 DEF HandlerOK, HasPending
  <2>3. c.ptext = {l}
    BY <2>2, LiveIs DEF HandlerOK
  <2>4. u \in Changes(l, c.gen) /\ u.op = "chunk" /\ "chunk" \notin Ends
    BY <2>3 DEF Changes, Change, Ends
  <2> HIDE DEF u
  <2>5. Feeds(<<u>>, l, c.gen, Live(c, rs))
    BY <2>2, <2>4 DEF Feeds
  <2> QED BY <1>1, <1>2, <1>3, <1>4, <2>1, <2>2, <2>5
<1> QED BY <1>5, <1>6
(* The frame is taken before the text is flushed. *)
LEMMA FrameTaken ==
    ASSUME NEW c, NEW k, NEW rs, HandlerOK(c, k, rs), NEW d, d = [c EXCEPT !.frame = 0]
    PROVE  HandlerOK(d, k, rs) /\ Live(d, rs) = Live(c, rs) /\ d.gen = c.gen
<1>1. c \in ChatSet
  BY DEF HandlerOK
<1>2. d \in ChatSet /\ d.frame = 0
  BY <1>1 DEF ChatSet
<1>3. d.gen = c.gen /\ d.pgen = c.pgen /\ d.ptext = c.ptext /\ d.aborter = c.aborter /\ d.requesting = c.requesting
  BY <1>1 DEF ChatSet
<1>4. Live(d, rs) = Live(c, rs) /\ RequestsOK(d, rs)
  BY <1>3 DEF Live, RequestsOK, HandlerOK
<1> QED BY <1>2, <1>3, <1>4 DEF HandlerOK, isGenerating

(* A request changes its place. *)
Moves(s, rs, r, x) == s = [rs EXCEPT ![r].at = x]

(* All else of the requests stays. *)
LEMMA MovedIs ==
    ASSUME NEW c, NEW rs, RequestsOK(c, rs), NEW r \in 1..Len(rs),
           NEW x \in {"open", "closed"}, NEW s, Moves(s, rs, r, x)
    PROVE  /\ RequestsOK(c, s) /\ Len(s) = Len(rs)
           /\ \A i \in 1..Len(rs) : /\ s[i].gen = rs[i].gen /\ s[i].aborted = rs[i].aborted
                                    /\ s[i].at = IF i = r THEN x ELSE rs[i].at
<1> DEFINE e == [rs[r] EXCEPT !.at = x]
<1>1. rs \in Seq(Request) /\ Len(rs) \in Nat /\ rs[r] \in Request
  BY DEF RequestsOK
<1>2. e \in Request /\ e.at = x
  BY <1>1 DEF Request
<1>3. e.gen = rs[r].gen /\ e.sgen = rs[r].sgen /\ e.aborted = rs[r].aborted
  BY <1>1 DEF Request
<1>4. s = [rs EXCEPT ![r] = e]
  BY DEF Moves
<1> HIDE DEF e
<1>5. /\ s \in Seq(Request) /\ Len(s) = Len(rs)
      /\ \A i \in 1..Len(rs) : s[i] = IF i = r THEN e ELSE rs[i]
  BY <1>1, <1>2, <1>4, ExceptSeq
<1>6. \A i \in 1..Len(rs) :
         /\ s[i].gen = rs[i].gen /\ s[i].sgen = rs[i].sgen /\ s[i].aborted = rs[i].aborted
         /\ s[i].at = IF i = r THEN x ELSE rs[i].at
  BY <1>2, <1>3, <1>5
<1>7. RequestsOK(c, s)
  BY <1>5, <1>6 DEF RequestsOK
<1> QED BY <1>5, <1>6, <1>7

(* A request that is not the one that is answered ends. *)
LEMMA GoneIs ==
    ASSUME NEW c, NEW k, NEW rs, HandlerOK(c, k, rs), NEW r \in 1..Len(rs), r # Live(c, rs),
           rs[r].at # "open", NEW s, Moves(s, rs, r, "closed")
    PROVE  HandlerOK(c, k, s) /\ Live(c, s) = Live(c, rs) /\ Len(s) = Len(rs)
<1>0. RequestsOK(c, rs) /\ c \in ChatSet
  BY DEF HandlerOK
<1>1. /\ RequestsOK(c, s) /\ Len(s) = Len(rs)
      /\ \A i \in 1..Len(rs) : /\ s[i].gen = rs[i].gen /\ s[i].aborted = rs[i].aborted
                               /\ s[i].at = IF i = r THEN "closed" ELSE rs[i].at
  BY <1>0, MovedIs
<1>2. Live(c, s) = Live(c, rs)
  <2>1. Len(rs) \in Nat /\ (Len(rs) # 0 => Len(rs) \in 1..Len(rs))
    BY <1>0, LiveIs
  <2> QED BY <1>1, <2>1 DEF Live
<1>3. Live(c, rs) \in 0..Len(rs) /\ (Live(c, rs) # 0 => Live(c, rs) \in 1..Len(rs))
  BY <1>0, LiveIs
<1>4. Live(c, rs) # 0 => s[Live(c, rs)].at = rs[Live(c, rs)].at /\ s[Live(c, rs)].aborted = rs[Live(c, rs)].aborted
  BY <1>1, <1>3
<1>5. \A i \in 1..Len(rs) : s[i].at = "open" => rs[i].at = "open"
  BY <1>1
<1> QED BY <1>1, <1>2, <1>3, <1>4, <1>5 DEF HandlerOK

(* The request that is answered is over: the handler forgets it. *)
Forgets(d, k, g) ==
    /\ d \in ChatSet /\ d.gen = g /\ d.pgen <= g /\ d.frame \in {0, g} /\ d.aborter = 0 /\ d.ptext = {}
    /\ k \in CtlSet /\ k.gen = g /\ k.source = 0

(* No request is answered from then on. *)
LEMMA OverIs ==
    ASSUME NEW c, NEW k, NEW rs, HandlerOK(c, k, rs), NEW r, r = Live(c, rs), r # 0,
           NEW s, Moves(s, rs, r, "closed"), NEW d, NEW j, Forgets(d, j, c.gen)
    PROVE  HandlerOK(d, j, s) /\ Live(d, s) = 0 /\ Len(s) = Len(rs)
<1>0. RequestsOK(c, rs) /\ c \in ChatSet
  BY DEF HandlerOK
<1>1. r \in 1..Len(rs) /\ r = Len(rs) /\ Len(rs) \in Nat
  BY <1>0, LiveIs
<1>2. /\ RequestsOK(c, s) /\ Len(s) = Len(rs)
      /\ \A i \in 1..Len(rs) : /\ s[i].gen = rs[i].gen /\ s[i].aborted = rs[i].aborted
                               /\ s[i].at = IF i = r THEN "closed" ELSE rs[i].at
  BY <1>0, <1>1, MovedIs
<1>3. Live(d, s) = 0
  BY <1>1, <1>2 DEF Live
<1>4. RequestsOK(d, s)
  BY <1>2 DEF RequestsOK, Forgets
<1>5. ASSUME NEW i \in 1..Len(rs) PROVE s[i].at # "open"
  <2>1. rs[i].at = "open" => i = r
    BY <1>1 DEF HandlerOK
  <2> QED BY <1>2, <2>1
<1> QED BY <1>2, <1>3, <1>4, <1>5 DEF HandlerOK, Forgets

(* All requests are of generations that have passed, none has a stream. *)
Behind(s, rs) ==
    /\ s \in Seq(Request) /\ Len(s) = Len(rs)
    /\ \A i \in 1..Len(rs) : s[i].gen = rs[i].gen /\ s[i].sgen = rs[i].sgen /\ s[i].at # "open"

(* After the counters move on, no request is answered. *)
LEMMA BehindIs ==
    ASSUME NEW c, NEW k, NEW rs, HandlerOK(c, k, rs), NEW s, Behind(s, rs),
           NEW d, NEW j, Forgets(d, j, c.gen + 1)
    PROVE  HandlerOK(d, j, s) /\ Live(d, s) = 0
<1>0. RequestsOK(c, rs) /\ c.gen \in Nat /\ Len(rs) \in Nat
  BY LiveIs DEF HandlerOK, ChatSet
<1>1. \A i \in 1..Len(s) : s[i].sgen = s[i].gen /\ s[i].gen < d.gen
  <2> TAKE i \in 1..Len(s)
  <2>1. s[i].gen = rs[i].gen /\ s[i].sgen = rs[i].sgen /\ i \in 1..Len(rs) /\ d.gen = c.gen + 1
    BY DEF Behind, Forgets
  <2>2. rs[i].sgen = rs[i].gen /\ rs[i].gen <= c.gen /\ rs[i].gen \in Nat
    <3>1. rs[i] \in Request
      BY <1>0, <2>1 DEF RequestsOK
    <3>2. rs[i].gen \in Nat
      BY <3>1 DEF Request
    <3> QED BY <1>0, <2>1, <3>2 DEF RequestsOK
  <2> QED BY <1>0, <2>1, <2>2
<1>2. Len(s) = Len(rs) /\ s \in Seq(Request)
  BY DEF Behind
<1>a. \A i \in 1..Len(s) : s[i].gen \in Nat
  <2> TAKE i \in 1..Len(s)
  <2>1. s[i] \in Request
    BY <1>2
  <2> QED BY <2>1 DEF Request
<1>b. d.gen \in Nat
  BY <1>0 DEF Forgets
<1>3. RequestsOK(d, s)
  <2>2. \A i \in 1..Len(s) : s[i].gen <= d.gen
    BY <1>1, <1>a, <1>b
  <2> QED BY <1>0, <1>1, <1>2, <2>2 DEF RequestsOK
<1>4. Live(d, s) = 0
  <2>1. Len(s) # 0 => Len(s) \in 1..Len(s)
    BY <1>0, <1>2
  <2>2. Len(s) # 0 => s[Len(s)].gen \in Nat /\ s[Len(s)].gen # d.gen
    BY <1>1, <1>a, <1>b, <2>1
  <2> QED BY <2>2 DEF Live
<1>5. \A i \in 1..Len(s) : s[i].at # "open"
  BY DEF Behind
<1> QED BY <1>3, <1>4, <1>5 DEF HandlerOK, Forgets
(* The source is closed and the fetch aborted; after a crash all is closed. *)
LEMMA DroppedIs ==
    ASSUME NEW c, NEW k, NEW rs, HandlerOK(c, k, rs)
    PROVE  /\ Behind(Dropped(rs, k, c), rs)
           /\ Behind([r \in DOMAIN rs |-> [rs[r] EXCEPT !.at = "closed"]], rs)
<1> DEFINE s == Dropped(rs, k, c)
           z == [r \in DOMAIN rs |-> [rs[r] EXCEPT !.at = "closed"]]
           E(r) == [rs[r] EXCEPT !.at = IF r = k.source THEN "closed" ELSE @, !.aborted = @ \/ r = c.aborter]
           G(r) == [rs[r] EXCEPT !.at = "closed"]
<1>0. rs \in Seq(Request) /\ Len(rs) \in Nat /\ DOMAIN rs = 1..Len(rs)
  BY DEF HandlerOK, RequestsOK
<1>1. ASSUME NEW r \in 1..Len(rs)
      PROVE  /\ E(r) \in Request /\ E(r).gen = rs[r].gen /\ E(r).sgen = rs[r].sgen /\ E(r).at # "open"
             /\ G(r) \in Request /\ G(r).gen = rs[r].gen /\ G(r).sgen = rs[r].sgen /\ G(r).at # "open"
  <2> DEFINE x == rs[r]
             a == IF r = k.source THEN "closed" ELSE x.at
             b == x.aborted \/ r = c.aborter
             e == [x EXCEPT !.at = a, !.aborted = b]
             h == [x EXCEPT !.at = "closed"]
  <2>1. x \in Request
    BY <1>0
  <2>2. x.at = "open" => k.source = r
    BY DEF HandlerOK
  <2>3. a \in {"headers", "open", "fetch", "closed"} /\ a # "open" /\ b \in BOOLEAN
    BY <2>1, <2>2 DEF Request
  <2>4. E(r) = e /\ G(r) = h
    OBVIOUS
  <2> HIDE DEF x, a, b
  <2>5. e \in Request
    BY <2>1, <2>3 DEF Request
  <2>6. e.gen = x.gen /\ e.sgen = x.sgen /\ e.at = a
    BY <2>1 DEF Request
  <2>7. h \in Request
    BY <2>1 DEF Request
  <2>8. h.gen = x.gen /\ h.sgen = x.sgen /\ h.at = "closed"
    BY <2>1 DEF Request
  <2> HIDE DEF e, h, E, G
  <2> QED BY <2>3, <2>4, <2>5, <2>6, <2>7, <2>8 DEF x
<1>2. s = [r \in 1..Len(rs) |-> E(r)] /\ z = [r \in 1..Len(rs) |-> G(r)]
  BY <1>0 DEF Dropped
<1> HIDE DEF E, G, s, z
<1>3. s \in [1..Len(rs) -> Request] /\ z \in [1..Len(rs) -> Request]
  BY <1>1, <1>2
<1>4. s \in Seq(Request) /\ Len(s) = Len(rs) /\ z \in Seq(Request) /\ Len(z) = Len(rs)
  BY <1>0, <1>3, SeqDef
<1>5. Behind(s, rs) /\ Behind(z, rs)
  BY <1>1, <1>2, <1>4 DEF Behind
<1> QED BY <1>5 DEF s, z

(* A new request is the one that is answered from then on. *)
Sends(d, j, s, x, c, k, rs) ==
    /\ d \in ChatSet /\ d.gen = c.gen + 1 /\ d.pgen = c.gen + 1 /\ d.frame = 0 /\ d.requesting
    /\ d.ptext = {} /\ j \in CtlSet /\ j.gen = c.gen + 1 /\ j.source = 0
    /\ x \in Request /\ x.gen = c.gen + 1 /\ x.sgen = c.gen + 1 /\ ~x.aborted
    /\ (x.at = "headers" /\ d.aborter = 0) \/ (x.at = "fetch" /\ d.aborter = Len(rs) + 1)
    /\ s = Append(Dropped(rs, k, c), x)

(* The handler and the controller after sendChat. *)
LEMMA SentIs ==
    ASSUME NEW c, NEW k, NEW rs, HandlerOK(c, k, rs), Len(rs) < MaxRequests,
           NEW d, NEW j, NEW s, NEW x, Sends(d, j, s, x, c, k, rs)
    PROVE  HandlerOK(d, j, s) /\ Live(d, s) = Len(rs) + 1 /\ Len(s) = Len(rs) + 1
<1> USE DEF Sends
<1> DEFINE p == Dropped(rs, k, c)
           N == Len(rs)
<1>0. RequestsOK(c, rs) /\ c.gen \in Nat /\ N \in Nat /\ MaxRequests \in Nat
  BY LiveIs DEF HandlerOK, ChatSet
<1>1. /\ p \in Seq(Request) /\ Len(p) = N
      /\ \A i \in 1..N : p[i].gen = rs[i].gen /\ p[i].sgen = rs[i].sgen /\ p[i].at # "open"
  <2>1. Behind(p, rs)
    BY DroppedIs
  <2> HIDE DEF p
  <2> QED BY <2>1 DEF Behind
<1>2. s = Append(p, x)
  OBVIOUS
<1> HIDE DEF p
<1>3. s \in Seq(Request) /\ Len(s) = N + 1
  BY <1>1, <1>2
<1>4. s[N + 1] = x /\ \A i \in 1..N : s[i] = p[i]
  BY <1>0, <1>1, <1>2
<1>5. \A i \in 1..(N + 1) : i \in 1..N \/ i = N + 1
  BY <1>0
<1>6. \A i \in 1..N : rs[i].sgen = rs[i].gen /\ rs[i].gen \in Nat /\ rs[i].gen <= c.gen
  <2> TAKE i \in 1..N
  <2>1. rs[i] \in Request
    BY <1>0 DEF RequestsOK
  <2>2. rs[i].gen \in Nat
    BY <2>1 DEF Request
  <2> QED BY <1>0, <2>2 DEF RequestsOK
<1>7. \A i \in 1..N : s[i].sgen = s[i].gen /\ s[i].gen <= d.gen /\ s[i].gen < d.gen /\ s[i].at # "open"
  <2> TAKE i \in 1..N
  <2>1. s[i] = p[i] /\ d.gen = c.gen + 1
    BY <1>4
  <2>2. s[i].gen = rs[i].gen /\ s[i].sgen = rs[i].sgen /\ s[i].at # "open"
    BY <1>1, <2>1
  <2> HIDE DEF Sends
  <2> QED BY <1>0, <1>6, <2>1, <2>2
<1>8. RequestsOK(d, s)
  <2>1. \A i \in 1..(N + 1) : s[i].sgen = s[i].gen /\ s[i].gen <= d.gen /\ (i # N + 1 => s[i].gen < d.gen)
    BY <1>0, <1>4, <1>5, <1>7
  <2> QED BY <1>0, <1>3, <2>1 DEF RequestsOK
<1>9. Live(d, s) = N + 1
  BY <1>0, <1>3, <1>4 DEF Live
<1>10. \A i \in 1..(N + 1) : s[i].at # "open"
  BY <1>4, <1>5, <1>7
<1>11. N + 1 # 0
  BY <1>0
<1> QED BY <1>0, <1>3, <1>4, <1>8, <1>9, <1>10, <1>11 DEF HandlerOK, isGenerating

(* The headers are there: the request that is answered gets a source. *)
LEMMA OpenedIs ==
    ASSUME NEW c, NEW k, NEW rs, HandlerOK(c, k, rs), NEW r, r = Live(c, rs), r # 0, rs[r].at = "headers",
           NEW s, Moves(s, rs, r, "open"),
           NEW j \in CtlSet, j.gen = c.gen, j.source = r, j.streaming
    PROVE  HandlerOK(c, j, s) /\ Live(c, s) = Live(c, rs) /\ Len(s) = Len(rs)
<1>0. RequestsOK(c, rs) /\ c \in ChatSet
  BY DEF HandlerOK
<1>1. r \in 1..Len(rs) /\ r = Len(rs) /\ Len(rs) \in Nat /\ rs[r].gen = c.gen
  BY <1>0, LiveIs
<1>2. /\ RequestsOK(c, s) /\ Len(s) = Len(rs)
      /\ \A i \in 1..Len(rs) : /\ s[i].gen = rs[i].gen /\ s[i].aborted = rs[i].aborted
                               /\ s[i].at = IF i = r THEN "open" ELSE rs[i].at
  BY <1>0, <1>1, MovedIs
<1>3. Live(c, s) = r
  BY <1>1, <1>2 DEF Live
<1>4. c.aborter = 0 /\ k.source = 0 /\ c.ptext = {}
  BY DEF HandlerOK
<1>5. \A i \in 1..Len(rs) : rs[i].at # "open"
  <2> TAKE i \in 1..Len(rs)
  <2>1. i # 0
    OBVIOUS
  <2> QED BY <1>4, <2>1 DEF HandlerOK
<1>6. \A i \in 1..Len(s) : s[i].at = "open" => i = r
  BY <1>2, <1>5
<1>7. s[r].at = "open"
  BY <1>1, <1>2
<1> QED BY <1>2, <1>3, <1>4, <1>6, <1>7 DEF HandlerOK, isGenerating

(* Text arrives on the source and waits for a frame. *)
LEMMA ReceivedIs ==
    ASSUME NEW c, NEW k, NEW rs, HandlerOK(c, k, rs), NEW r, r = Live(c, rs), r # 0, k.source = r,
           NEW d, d = handleStreamUpdate(c, c.gen, r)
    PROVE  HandlerOK(d, k, rs) /\ Live(d, rs) = Live(c, rs) /\ d.gen = c.gen
<1>0. c \in ChatSet /\ r \in Nat
  BY LiveIs DEF HandlerOK
<1>1. CASE c.pgen # c.gen
  BY <1>1 DEF handleStreamUpdate
<1>2. CASE c.pgen = c.gen
  <2> DEFINE f == IF c.frame = 0 THEN c.gen ELSE c.frame
             t == c.ptext \cup {r}
  <2>1. d = [c EXCEPT !.ptext = t, !.frame = f]
    BY <1>2 DEF handleStreamUpdate
  <2>2. t = {r} /\ f = c.gen /\ f \in Nat /\ t \in SUBSET Nat
    BY <1>0 DEF HandlerOK, ChatSet
  <2> HIDE DEF f, t
  <2>3. d \in ChatSet
    BY <1>0, <2>1, <2>2 DEF ChatSet
  <2>4. d.ptext = t /\ d.frame = f
    BY <1>0, <2>1 DEF ChatSet
  <2>5. d.gen = c.gen /\ d.pgen = c.pgen /\ d.aborter = c.aborter /\ d.requesting = c.requesting
    BY <1>0, <2>1 DEF ChatSet
  <2>6. Live(d, rs) = Live(c, rs) /\ RequestsOK(d, rs)
    BY <2>5 DEF Live, RequestsOK, HandlerOK
  <2> QED BY <1>2, <2>2, <2>3, <2>4, <2>5, <2>6 DEF HandlerOK, isGenerating
<1> QED BY <1>1, <1>2
(* A sequence of two, made by appending. *)
LEMMA PairMade ==
    ASSUME NEW w, NEW u
    PROVE  Append(<<w>>, u) = <<w, u>>
<1> DEFINE a == Append(<<w>>, u)
           b == <<w, u>>
<1>1. a \in Seq({w, u}) /\ b \in Seq({w, u}) /\ Len(a) = 2 /\ Len(b) = 2
  OBVIOUS
<1>2. a[1] = w /\ a[2] = u /\ b[1] = w /\ b[2] = u
  OBVIOUS
<1> HIDE DEF a, b
<1>3. a = b
  BY <1>1, <1>2, SeqEqual
<1> QED BY <1>3 DEF a, b

(* An answer comes to its end: the text that waits, then the end. *)
LEMMA EndedIs ==
    ASSUME NEW c, NEW k, NEW rs, HandlerOK(c, k, rs), Live(c, rs) # 0, NEW op \in {"complete", "error"},
           NEW d, d = Ended(c, c.gen)
    PROVE  /\ Feeds(Ending(c, c.gen, op), Len(rs), c.gen, 0)
           /\ d \in ChatSet /\ d.gen = c.gen /\ d.pgen = c.pgen /\ d.frame = 0 /\ d.ptext = {}
           /\ d.aborter = c.aborter
<1> DEFINE e == flushStreamUpdates(c, c.gen)
           u == Change(op, c.gen, {})
           us == Flushing(c, c.gen)
           l == Len(rs)
<1>1. /\ e \in ChatSet /\ e.gen = c.gen /\ e.pgen = c.pgen /\ e.frame = 0
      /\ e.aborter = c.aborter /\ e.ptext = {}
  <2>1. e = flushStreamUpdates(c, c.gen) /\ c \in ChatSet
    BY DEF HandlerOK
  <2> HIDE DEF e
  <2> QED BY <2>1, FlushIs, FlushedIs
<1>2. d = [e EXCEPT !.requesting = FALSE]
  BY DEF Ended
<1> HIDE DEF e
<1>3. d \in ChatSet
  BY <1>1, <1>2 DEF ChatSet
<1>4. d.gen = e.gen /\ d.pgen = e.pgen /\ d.frame = e.frame /\ d.ptext = e.ptext /\ d.aborter = e.aborter
  BY <1>1, <1>2 DEF ChatSet
<1>5. Ending(c, c.gen, op) = Append(us, u)
  BY DEF Ending
<1>6. u \in Changes(l, c.gen) /\ u.op \in Ends
  BY DEF Change, Changes, Ends
<1>7. us = << >> \/ \E w \in Changes(l, c.gen) : w.op = "chunk" /\ us = <<w>>
  <2>1. CASE ~HasPending(c, c.gen)
    BY <2>1 DEF Flushing
  <2>2. CASE HasPending(c, c.gen)
    <3> DEFINE w == Change("chunk", c.gen, c.ptext)
    <3>1. c.ptext = {l}
      BY <2>2, LiveIs DEF HandlerOK, HasPending
    <3>2. w \in Changes(l, c.gen) /\ w.op = "chunk"
      BY <3>1 DEF Change, Changes
    <3>3. us = <<w>>
      BY <2>2 DEF Flushing
    <3> HIDE DEF w, us
    <3> QED BY <3>2, <3>3
  <2> QED BY <2>1, <2>2
<1> HIDE DEF u, us
<1>8. Feeds(Append(us, u), l, c.gen, 0)
  <2>1. CASE us = << >>
    <3>1. Append(us, u) = <<u>>
      BY <2>1
    <3> QED BY <1>6, <3>1 DEF Feeds
  <2>2. CASE us # << >>
    <3>1. PICK w \in Changes(l, c.gen) : w.op = "chunk" /\ us = <<w>>
      BY <1>7, <2>2
    <3>2. Append(us, u) = <<w, u>>
      BY <3>1, PairMade
    <3> QED BY <1>6, <3>1, <3>2 DEF Feeds
  <2> QED BY <2>1, <2>2
<1> QED BY <1>1, <1>3, <1>4, <1>5, <1>8

-----------------------------------------------------------------------------
(***************************************************************************)
(* The invariant                                                           *)
(***************************************************************************)

lv == Live(chat, reqs)

(* While a request is answered or an update waits, the page is there and    *)
(* says so; a page that is not there shows nothing                          *)
PageOK ==
    /\ lv # 0 \/ Len(queue) # 0 => open /\ shown
    /\ ~open => Len(msgs) = 0

MessagesOK ==
    /\ msgs \in Talks(Len(reqs)) /\ latest \in Talks(Len(reqs)) /\ stored \in Talks(Len(reqs))
    /\ Len(stored) <= MaxStored

(* Unless an edit has undone an update, only a last message is pending, and *)
(* none once the request is over and all updates are run                    *)
SettledOK ==
    ~overwrote =>
        /\ Tidy(msgs) /\ Tidy(latest) /\ Tidy(stored)
        /\ open /\ lv = 0 => Settles(queue, msgs)

FlagsOK ==
    /\ shown \in BOOLEAN /\ stream \in BOOLEAN /\ open \in BOOLEAN
    /\ saving \in BOOLEAN /\ unsaved \in BOOLEAN /\ overwrote \in BOOLEAN

IInv ==
    /\ HandlerOK(chat, ctl, reqs)
    /\ QueueOK(queue, msgs, Len(reqs), chat.gen, lv)
    /\ PageOK /\ MessagesOK /\ SettledOK /\ FlagsOK /\ SeenIsKept

(* An event of the network or a frame. *)
LEMMA DeliverStep ==
    ASSUME IInv, NEW us, NEW c, NEW k, NEW s, Deliver(us, c, k), reqs' = s,
           HandlerOK(c, k, s), Len(s) = Len(reqs), c.gen = chat.gen,
           \/ us = << >> /\ Live(c, s) = lv
           \/ lv # 0 /\ Feeds(us, Len(reqs), chat.gen, Live(c, s)),
           Untouched
    PROVE  IInv' /\ msgs' = msgs
<1> DEFINE l == Len(reqs)
           v == Live(c, s)
<1>1. PICK q \in Queuings(us) :
         /\ queue' = queue \o q
         /\ latest' = IF q = us THEN latest ELSE Head(q).msgs
         /\ saving' = (saving \/ q # us)
         /\ chat' = c /\ ctl' = k
         /\ UNCHANGED <<msgs, shown>>
  BY DEF Deliver
<1>2. /\ lv' = v /\ Len(reqs') = l /\ chat'.gen = chat.gen
      /\ UNCHANGED <<msgs, shown, stream, open, stored, unsaved, overwrote>>
  BY <1>1 DEF lv, Untouched, storage
<1>3. HandlerOK(chat', ctl', reqs')
  BY <1>1
<1>4. /\ msgs \in Talks(l) /\ latest \in Talks(l) /\ stored \in Talks(l)
      /\ QueueOK(queue, msgs, l, chat.gen, lv) /\ l \in Nat
  BY LiveIs DEF IInv, MessagesOK, HandlerOK
<1>5. CASE us = << >> /\ v = lv
  <2>1. q = << >> /\ q = us
    BY <1>5 DEF Queuings
  <2>2. queue' = queue
    <3>1. queue \in Seq(Changes(l, chat.gen) \cup Puts(msgs, l))
      BY <1>4 DEF QueueOK
    <3> QED BY <1>1, <2>1, <3>1
  <2>3. latest' = latest /\ (saving' <=> saving) /\ saving' \in BOOLEAN
    BY <1>1, <2>1
  <2>4. lv' = lv
    BY <1>2, <1>5
  <2>5. QueueOK(queue, msgs, l, chat.gen, lv)'
    BY <1>2, <1>4, <2>2, <2>4
  <2>6. PageOK' /\ MessagesOK' /\ SettledOK' /\ FlagsOK' /\ SeenIsKept'
    BY <1>2, <2>2, <2>3, <2>4 DEF IInv, PageOK, MessagesOK, SettledOK, FlagsOK, SeenIsKept
  <2> QED BY <1>1, <1>2, <1>3, <2>5, <2>6 DEF IInv
<1>6. CASE lv # 0 /\ Feeds(us, l, chat.gen, v)
  <2>1. l \in 1..MaxRequests
    BY <1>6, LiveIs DEF lv, IInv, HandlerOK
  <2>2. /\ QueueOK(queue', msgs, l, chat.gen, v)
        /\ v = 0 /\ Tidy(msgs) => Settles(queue', msgs)
        /\ q # us => Head(q).msgs \in Heirs(msgs, l)
    BY <1>1, <1>4, <1>6, <2>1, Queued
  <2>3. QueueOK(queue, msgs, Len(reqs), chat.gen, lv)'
    BY <1>2, <2>2
  <2>4. latest' \in Talks(l) /\ (Tidy(msgs) /\ Tidy(latest) => Tidy(latest'))
    <3>1. CASE q = us
      BY <1>1, <1>4, <3>1
    <3>2. CASE q # us
      BY <1>1, <1>4, <2>2, <3>2, HeirsAre
    <3> QED BY <3>1, <3>2
  <2>5. open /\ shown
    BY <1>6 DEF IInv, PageOK
  <2>6. PageOK'
    BY <1>2, <2>5 DEF PageOK
  <2>7. MessagesOK'
    BY <1>2, <2>4 DEF IInv, MessagesOK
  <2>8. SettledOK'
    BY <1>2, <2>2, <2>4 DEF IInv, SettledOK
  <2>9. FlagsOK'
    BY <1>1, <1>2 DEF IInv, FlagsOK
  <2>10. SeenIsKept'
    <3>1. CASE q = us
      BY <1>1, <1>2, <3>1 DEF IInv, SeenIsKept
    <3>2. CASE q # us
      BY <1>1, <1>2, <2>5, <3>2 DEF SeenIsKept
    <3> QED BY <3>1, <3>2
  <2> QED BY <1>1, <1>2, <1>3, <2>3, <2>6, <2>7, <2>8, <2>9, <2>10 DEF IInv
<1> QED BY <1>5, <1>6

(* An event of the user and a render. *)
LEMMA CommitStep ==
    ASSUME IInv, open, NEW us, NEW c, NEW k, NEW s, NEW m, Commit(us, c, k), reqs' = s,
           HandlerOK(c, k, s), Len(reqs) <= Len(s),
           m = Drained(queue \o us, msgs, c.gen), m \in Talks(Len(s)),
           Live(c, s) # 0 => Waits(m, Len(s)),
           ~overwrote' => ~overwrote /\ Tidy(m) /\ (Live(c, s) = 0 => Rests(m)),
           UNCHANGED <<open, storage>>, stream' \in BOOLEAN, overwrote' \in BOOLEAN
    PROVE  IInv' /\ msgs' = m
<1> DEFINE l == Len(reqs)
           q == queue \o us
<1>1. /\ msgs' = m /\ queue' = << >> /\ shown' = isGenerating(c, k)
      /\ latest' = (IF q = << >> THEN latest ELSE m)
      /\ saving' = (saving \/ q # << >>)
      /\ chat' = c /\ ctl' = k
  BY DEF Commit
<1> HIDE DEF q
<1>2. /\ lv' = Live(c, s) /\ Len(queue') = 0 /\ UNCHANGED <<open, stored, unsaved>>
      /\ Len(s) \in Nat /\ l \in Nat
  BY <1>1, LiveIs DEF lv, storage, HandlerOK, IInv
<1>3. QueueOK(queue, msgs, Len(reqs), chat.gen, lv)'
  BY <1>1, <1>2, QueueEmpty
<1>4. PageOK'
  BY <1>1, <1>2 DEF PageOK, HandlerOK
<1>5. latest' \in Talks(Len(s)) /\ stored' \in Talks(Len(s)) /\ Len(stored') <= MaxStored
  <2>1. latest \in Talks(Len(s)) /\ stored \in Talks(Len(s))
    BY <1>2, TalksGrow DEF IInv, MessagesOK
  <2> QED BY <1>1, <1>2, <2>1 DEF IInv, MessagesOK
<1>6. MessagesOK'
  BY <1>1, <1>5 DEF MessagesOK
<1>7. SettledOK'
  BY <1>1, <1>2 DEF IInv, SettledOK, Settles
<1>8. FlagsOK'
  BY <1>1, <1>2 DEF IInv, FlagsOK, isGenerating
<1>9. SeenIsKept'
  <2>1. CASE q = << >>
    <3>1. latest' = latest /\ (saving' <=> saving)
      BY <1>1, <2>1
    <3> QED BY <1>2, <3>1 DEF IInv, SeenIsKept
  <2>2. CASE q # << >>
    <3>1. saving'
      BY <1>1, <2>2
    <3> QED BY <1>2, <3>1 DEF SeenIsKept
  <2> QED BY <2>1, <2>2
<1> QED BY <1>1, <1>3, <1>4, <1>6, <1>7, <1>8, <1>9 DEF IInv
-----------------------------------------------------------------------------
(***************************************************************************)
(* The actions: each keeps the invariant and what has ended                *)
(***************************************************************************)

Keeps == IInv' /\ Stays(msgs, msgs')

(* What the steps use of the invariant. *)
LEMMA InvFacts ==
    ASSUME IInv
    PROVE  /\ Len(reqs) \in 0..MaxRequests /\ Len(reqs) \in Nat /\ chat.gen \in Nat
           /\ chat \in ChatSet /\ ctl \in CtlSet /\ RequestsOK(chat, reqs) /\ ctl.gen = chat.gen
           /\ msgs \in Talks(Len(reqs)) /\ DOMAIN msgs = 1..Len(msgs) /\ DOMAIN reqs = 1..Len(reqs)
           /\ Stays(msgs, msgs)
           /\ queue \in Seq(Changes(Len(reqs), chat.gen) \cup Puts(msgs, Len(reqs)))
<1>1. HandlerOK(chat, ctl, reqs) /\ MessagesOK
  BY DEF IInv
<1>2. RequestsOK(chat, reqs) /\ chat \in ChatSet /\ ctl \in CtlSet /\ ctl.gen = chat.gen
  BY <1>1 DEF HandlerOK
<1>3. Len(reqs) \in 0..MaxRequests /\ Len(reqs) \in Nat /\ chat.gen \in Nat
  BY <1>2, LiveIs DEF ChatSet
<1>4. msgs \in Talks(Len(reqs))
  BY <1>1 DEF MessagesOK
<1>5. DOMAIN msgs = 1..Len(msgs) /\ Stays(msgs, msgs)
  BY <1>4 DEF Talks, Stays
<1>6. DOMAIN reqs = 1..Len(reqs)
  BY <1>2 DEF RequestsOK
<1>7. queue \in Seq(Changes(Len(reqs), chat.gen) \cup Puts(msgs, Len(reqs)))
  BY DEF IInv, QueueOK
<1> QED BY <1>2, <1>3, <1>4, <1>5, <1>6, <1>7

(* While isGenerating is not shown nothing is answered and nothing waits. *)
LEMMA CalmFacts ==
    ASSUME IInv, Calm
    PROVE  open /\ lv = 0 /\ queue = << >> /\ (~overwrote => Rests(msgs))
<1>1. open /\ ~shown
  BY DEF Calm
<1>2. lv = 0 /\ Len(queue) = 0
  BY <1>1 DEF IInv, PageOK
<1>3. queue = << >>
  BY <1>2, InvFacts
<1>4. ~overwrote => Rests(msgs)
  BY <1>1, <1>2 DEF IInv, SettledOK, Settles
<1> QED BY <1>1, <1>2, <1>3, <1>4

(* A render that brings no update of its own. *)
LEMMA Rendered ==
    ASSUME IInv, open, Commit(<<>>, chat, ctl), UNCHANGED <<reqs, open, storage, overwrote>>,
           stream' \in BOOLEAN
    PROVE  Keeps
<1> DEFINE l == Len(reqs)
           us == << >>
           m == Drained(queue, msgs, chat.gen)
<1>1. /\ m \in Talks(l) /\ Stays(msgs, m) /\ (lv # 0 => Waits(m, l))
      /\ Tidy(msgs) => Tidy(m)
      /\ Tidy(msgs) /\ Settles(queue, msgs) => Rests(m)
  BY InvFacts, DrainedQueue DEF IInv
<1>2. queue \o us = queue
  BY InvFacts
<1>3. m = Drained(queue \o us, msgs, chat.gen)
  BY <1>2
<1>4. ~overwrote' => ~overwrote /\ Tidy(m) /\ (lv = 0 => Rests(m))
  BY <1>1 DEF IInv, SettledOK
<1>5. overwrote' \in BOOLEAN /\ HandlerOK(chat, ctl, reqs) /\ Len(reqs) <= Len(reqs)
  BY InvFacts DEF IInv, FlagsOK
<1>6. Commit(us, chat, ctl)
  OBVIOUS
<1> HIDE DEF us, m
<1>7. IInv' /\ msgs' = m
  BY <1>1, <1>3, <1>4, <1>5, <1>6, CommitStep DEF lv
<1> QED BY <1>1, <1>7 DEF Keeps

(* A conversation is put there that is not made by the queue. *)
LEMMA PutStep ==
    ASSUME IInv, open, NEW n, NEW c, NEW k, NEW s, Commit(<<Put(n)>>, c, k), reqs' = s,
           HandlerOK(c, k, s), Len(reqs) <= Len(s), n \in Talks(Len(s)),
           Live(c, s) # 0 => Waits(n, Len(s)),
           ~overwrote' => ~overwrote /\ Tidy(n) /\ (Live(c, s) = 0 => Rests(n)),
           UNCHANGED <<open, storage>>, stream' \in BOOLEAN, overwrote' \in BOOLEAN
    PROVE  IInv' /\ msgs' = n
<1> DEFINE us == <<Put(n)>>
<1>1. n = Drained(queue \o us, msgs, c.gen)
  BY InvFacts, DrainedPut
<1>2. Commit(us, c, k)
  OBVIOUS
<1> HIDE DEF us
<1> QED BY <1>1, <1>2, CommitStep

(* sendChat with the conversation n. *)
LEMMA AskedStep ==
    ASSUME IInv, open, Len(reqs) < MaxRequests, NEW n, NEW streams \in BOOLEAN, sendChat(n, streams),
           n \in Talks(Len(reqs) + 1), Waits(n, Len(reqs) + 1), ~overwrote => Tidy(n),
           UNCHANGED <<stream, open, storage, overwrote>>
    PROVE  IInv' /\ msgs' = n
<1> DEFINE r == Len(reqs) + 1
           g == chat.gen + 1
           k == cancel(ctl)
           b == TRUE
           a == IF streams THEN 0 ELSE r
           t == {}
           c == [discardPendingStreamUpdates(chat, g) EXCEPT !.gen = g, !.requesting = b, !.aborter = a]
           d == [chat EXCEPT !.frame = 0, !.pgen = g, !.ptext = t]
           f == FALSE
           at == IF streams THEN "headers" ELSE "fetch"
           x == [gen |-> g, sgen |-> g, at |-> at, aborted |-> f]
           s == Append(Dropped(reqs, ctl, chat), x)
<1>1. /\ Len(reqs) \in Nat /\ chat.gen \in Nat /\ chat \in ChatSet /\ ctl \in CtlSet
      /\ ctl.gen = chat.gen /\ r \in Nat /\ g \in Nat /\ 0 \in Nat /\ a \in Nat /\ t \in SUBSET Nat
      /\ stream \in BOOLEAN /\ overwrote \in BOOLEAN
  BY InvFacts DEF IInv, FlagsOK
<1>2. k.gen = g /\ k.source = 0 /\ k \in CtlSet
  <2> DEFINE h == ctl.gen + 1
  <2>1. k = [ctl EXCEPT !.gen = h, !.source = 0, !.streaming = f]
    BY DEF cancel
  <2>2. h = g /\ f \in BOOLEAN
    BY <1>1
  <2> HIDE DEF h, f, k, g
  <2>3. k \in CtlSet
    BY <1>1, <2>1, <2>2 DEF CtlSet
  <2>4. k.gen = h /\ k.source = 0
    BY <1>1, <2>1 DEF CtlSet
  <2> QED BY <2>2, <2>3, <2>4
<1>3. reqs' = s /\ Commit(<<Put(n)>>, c, k)
  <2>1. reqs' = Append(Dropped(reqs, ctl, chat), [gen |-> g, sgen |-> k.gen, at |-> at, aborted |-> f])
    BY DEF sendChat
  <2>2. Commit(<<Put(n)>>, c, k)
    BY DEF sendChat
  <2> HIDE DEF g, k, at, f, c
  <2> QED BY <1>2, <2>1, <2>2
<1>4. d \in ChatSet
  <2> HIDE DEF g, t
  <2> QED BY <1>1 DEF ChatSet
<1>5. d.frame = 0 /\ d.pgen = g /\ d.ptext = t
  <2> HIDE DEF g, t
  <2> QED BY <1>1 DEF ChatSet
<1>6. c = [d EXCEPT !.gen = g, !.requesting = b, !.aborter = a]
  BY DEF discardPendingStreamUpdates
<1>7. b \in BOOLEAN /\ b /\ f \in BOOLEAN /\ ~f
  OBVIOUS
<1>8. at \in {"headers", "open", "fetch", "closed"}
  OBVIOUS
<1> HIDE DEF d, g, b, a, f, at, c, k
<1>10. c \in ChatSet
  BY <1>1, <1>4, <1>6, <1>7 DEF ChatSet
<1>11. c.gen = g /\ c.aborter = a /\ c.requesting = b
  BY <1>4, <1>6 DEF ChatSet
<1>12. c.frame = d.frame /\ c.pgen = d.pgen /\ c.ptext = d.ptext
  BY <1>4, <1>6 DEF ChatSet
<1>13. x \in Request
  BY <1>1, <1>7, <1>8 DEF Request
<1>14. x.gen = g /\ x.sgen = g /\ x.at = at /\ x.aborted = f
  OBVIOUS
<1> HIDE DEF x, s
<1>15. HandlerOK(c, k, s) /\ Live(c, s) = r /\ Len(s) = r
  <2>1. Len(reqs) < MaxRequests /\ HandlerOK(chat, ctl, reqs)
    BY DEF IInv
  <2> HIDE DEF t
  <2>2. c.requesting /\ ~x.aborted
    BY <1>7, <1>11, <1>14
  <2>3. c.ptext = {}
    BY <1>5, <1>12 DEF t
  <2>4. c.gen = chat.gen + 1 /\ c.pgen = chat.gen + 1 /\ c.frame = 0
    BY <1>5, <1>11, <1>12 DEF g
  <2>6. k \in CtlSet /\ k.gen = chat.gen + 1 /\ k.source = 0
    BY <1>2 DEF g
  <2>7. x.gen = chat.gen + 1 /\ x.sgen = chat.gen + 1
    BY <1>14 DEF g
  <2>8. (x.at = "headers" /\ c.aborter = 0) \/ (x.at = "fetch" /\ c.aborter = Len(reqs) + 1)
    <3>1. CASE streams
      <4>1. at = "headers" /\ a = 0
        BY <3>1 DEF at, a
      <4>2. x.at = "headers"
        BY <1>14, <4>1
      <4>3. c.aborter = 0
        BY <1>11, <4>1
      <4> QED BY <4>2, <4>3
    <3>2. CASE ~streams
      <4>1. at = "fetch" /\ a = Len(reqs) + 1
        BY <3>2 DEF at, a
      <4> QED BY <1>11, <1>14, <4>1
    <3> QED BY <3>1, <3>2
  <2>9. s = Append(Dropped(reqs, ctl, chat), x)
    BY DEF s
  <2> QED
    <3>1. Sends(c, k, s, x, chat, ctl, reqs)
      BY ONLY <1>10, <1>13, <2>2, <2>3, <2>4, <2>6, <2>7, <2>8, <2>9 DEF Sends
    <3> QED BY ONLY <2>1, <3>1, SentIs
<1>16. r # 0 /\ Len(reqs) <= r
  BY <1>1
<1>17. stream' \in BOOLEAN /\ overwrote' \in BOOLEAN /\ overwrote' = overwrote
  BY <1>1
<1> QED BY <1>3, <1>15, <1>16, <1>17, PutStep

(* A question is added to the conversation m, which may be an earlier one. *)
LEMMA SendMessageStep ==
    ASSUME IInv, open, NEW m \in Talks(Len(reqs)), ~overwrote => Rests(m), NEW streams \in BOOLEAN,
           handleSendMessage(m, streams)
    PROVE  LET n == m \o <<Question(Len(reqs) + 1), Loading(Len(reqs) + 1)>>
           IN  IInv' /\ msgs' = n /\ Stays(m, n)
<1> DEFINE l == Len(reqs)
           n == m \o <<Question(l + 1), Loading(l + 1)>>
<1>1. l \in Nat /\ m \in Talks(l)
  BY InvFacts
<1>2. l < MaxRequests /\ sendChat(n, streams) /\ UNCHANGED <<stream, open, storage, overwrote>>
  BY DEF handleSendMessage, NextAnswer
<1>3. l + 1 <= MaxRequests
  BY <1>1, <1>2, PlaygroundAssumption
<1>4. n \in Talks(l + 1) /\ Waits(n, l + 1) /\ Stays(m, n) /\ (Rests(m) => Tidy(n))
  BY <1>1, <1>3, QuestionAsked
<1> HIDE DEF n
<1>5. IInv' /\ msgs' = n
  BY <1>2, <1>4, AskedStep
<1> QED BY <1>4, <1>5 DEF n

(* Without attachments it is the conversation that is shown. *)
LEMMA SubmitTextStep == ASSUME IInv, SubmitText PROVE Keeps
<1>1. open /\ (~overwrote => Rests(msgs)) /\ msgs \in Talks(Len(reqs)) /\ stream \in BOOLEAN
  BY CalmFacts, InvFacts DEF SubmitText, IInv, FlagsOK
<1>2. handleSendMessage(msgs, stream)
  BY DEF SubmitText
<1> QED BY <1>1, <1>2, SendMessageStep DEF Keeps

(* An answer is asked for again: all after it is cut. *)
LEMMA RegenerateStep == ASSUME IInv, NEW i \in DOMAIN msgs, handleRegenerateMessage(i) PROVE Keeps
<1> DEFINE l == Len(reqs)
           k == IF msgs[i].from = "user" THEN i ELSE i - 1
           n == Append(SubSeq(msgs, 1, k), Loading(l + 1))
<1>1. open /\ (~overwrote => Rests(msgs)) /\ l \in Nat /\ msgs \in Talks(l) /\ i \in 1..Len(msgs)
  BY CalmFacts, InvFacts DEF handleRegenerateMessage
<1>2. l < MaxRequests /\ sendChat(n, stream) /\ UNCHANGED <<stream, open, storage, overwrote>>
  BY DEF handleRegenerateMessage, NextAnswer, MayAsk
<1>3. l + 1 <= MaxRequests /\ Len(msgs) \in Nat /\ stream \in BOOLEAN
  BY <1>1, <1>2, PlaygroundAssumption DEF Talks, IInv, FlagsOK
<1>4. k \in 0..Len(msgs) /\ \A j \in 1..k : j \in 1..Len(msgs)
  BY <1>1, <1>3
<1> HIDE DEF k
<1>5. /\ n \in Talks(l + 1) /\ Waits(n, l + 1) /\ Stays(msgs, n)
      /\ (\A j \in 1..k : ~isAssistantMessagePending(msgs[j])) => Tidy(n)
  BY <1>1, <1>3, <1>4, AnswerAsked
<1> HIDE DEF n
<1>6. ~overwrote => Tidy(n)
  BY <1>1, <1>4, <1>5 DEF Rests
<1>7. IInv' /\ msgs' = n
  BY <1>1, <1>2, <1>3, <1>5, <1>6, AskedStep
<1> QED BY <1>5, <1>7 DEF Keeps

(* An edited question is sent, a request under way or not. *)
LEMMA EditAndSubmitStep == ASSUME IInv, NEW i \in DOMAIN msgs, saveEditAndSubmit(i) PROVE Keeps
<1> DEFINE l == Len(reqs)
           n == Append(SubSeq(msgs, 1, i), Loading(l + 1))
<1>1. l \in Nat /\ msgs \in Talks(l) /\ i \in 1..Len(msgs)
  BY InvFacts
<1>2. /\ open /\ l < MaxRequests /\ sendChat(n, stream) /\ msgs[i].from = "user"
      /\ UNCHANGED <<stream, open, storage, overwrote>>
  BY DEF saveEditAndSubmit, NextAnswer, MayAsk
<1>3. l + 1 <= MaxRequests /\ Len(msgs) \in Nat /\ i \in 0..Len(msgs) /\ stream \in BOOLEAN
  BY <1>1, <1>2, PlaygroundAssumption DEF Talks, IInv, FlagsOK
<1>4. /\ n \in Talks(l + 1) /\ Waits(n, l + 1) /\ Stays(msgs, n)
      /\ (\A j \in 1..i : ~isAssistantMessagePending(msgs[j])) => Tidy(n)
  BY <1>1, <1>3, AnswerAsked
<1> HIDE DEF n
<1>5. ~isAssistantMessagePending(msgs[i])
  BY <1>1, <1>2 DEF Talks, Sound, isAssistantMessagePending
<1>6. ~overwrote => Tidy(msgs)
  BY DEF IInv, SettledOK
<1>7. ~overwrote => Tidy(n)
  <2>1. \A j \in 1..i : j \in 1..Len(msgs) /\ (j = Len(msgs) => j = i)
    BY <1>1, <1>3
  <2> QED BY <1>4, <1>5, <1>6, <2>1 DEF Tidy
<1>8. IInv' /\ msgs' = n
  BY <1>2, <1>3, <1>4, <1>7, AskedStep
<1> QED BY <1>4, <1>8 DEF Keeps

(* Steps that only render. *)
LEMMA RenderSteps ==
    ASSUME IInv, Render \/ handleEditCancel \/ updateConfig \/ \E i \in DOMAIN msgs : handleEditMessage(i)
    PROVE  Keeps
<1>1. stream \in BOOLEAN
  BY DEF IInv, FlagsOK
<1>2. CASE Render
  <2>1. open /\ Commit(<<>>, chat, ctl) /\ UNCHANGED <<reqs, open, storage, overwrote>> /\ stream' = stream
    BY <1>2 DEF Render
  <2> QED BY <1>1, <2>1, Rendered
<1>3. CASE handleEditCancel
  <2>1. open /\ Commit(<<>>, chat, ctl) /\ UNCHANGED <<reqs, open, storage, overwrote>> /\ stream' = stream
    BY <1>3 DEF handleEditCancel
  <2> QED BY <1>1, <2>1, Rendered
<1>4. CASE updateConfig
  <2>1. open /\ Commit(<<>>, chat, ctl) /\ UNCHANGED <<reqs, open, storage, overwrote>> /\ stream' \in BOOLEAN
    BY <1>4 DEF updateConfig, Calm
  <2> QED BY <2>1, Rendered
<1>5. ASSUME NEW i \in DOMAIN msgs, handleEditMessage(i) PROVE Keeps
  <2>1. open /\ Commit(<<>>, chat, ctl) /\ UNCHANGED <<reqs, open, storage, overwrote>> /\ stream' = stream
    BY <1>5 DEF handleEditMessage, Calm
  <2> QED BY <1>1, <2>1, Rendered
<1> QED BY <1>2, <1>3, <1>4, <1>5

(* An edit is saved over whatever waits. *)
LEMMA SaveEditStep == ASSUME IInv, NEW i \in DOMAIN msgs, saveEdit(i) PROVE Keeps
<1> DEFINE l == Len(reqs)
           n == [msgs EXCEPT ![i].text = {Typed}]
           m == Drained(queue, msgs, chat.gen)
<1>1. l \in Nat /\ l \in 0..MaxRequests /\ msgs \in Talks(l) /\ i \in 1..Len(msgs)
  BY InvFacts
<1>2. /\ open /\ Commit(<<Put(n)>>, chat, ctl) /\ UNCHANGED <<open, storage>> /\ reqs' = reqs /\ stream' = stream
      /\ overwrote' = (overwrote \/ m # msgs)
  BY DEF saveEdit
<1>3. /\ n \in Talks(l) /\ Stays(msgs, n)
      /\ Tidy(msgs) => Tidy(n)
      /\ Rests(msgs) => Rests(n)
      /\ Waits(msgs, l) => Waits(n, l)
  BY <1>1, EditedIs
<1>4. Tidy(msgs) /\ Settles(queue, msgs) => Rests(m)
  BY <1>1, DrainedQueue DEF IInv
<1> HIDE DEF n, m
<1>5. ~overwrote' => ~overwrote /\ m = msgs
  BY <1>2
<1>6. ~overwrote' => ~overwrote /\ Tidy(n) /\ (lv = 0 => Rests(n))
  BY <1>2, <1>3, <1>4, <1>5 DEF IInv, SettledOK
<1>7. lv # 0 => Waits(n, l)
  BY <1>3 DEF IInv, QueueOK
<1>8. HandlerOK(chat, ctl, reqs) /\ l <= l /\ stream' \in BOOLEAN /\ overwrote' \in BOOLEAN
  BY <1>1, <1>2 DEF IInv, FlagsOK
<1>9. IInv' /\ msgs' = n
  BY <1>2, <1>3, <1>6, <1>7, <1>8, PutStep DEF lv
<1> QED BY <1>3, <1>9 DEF Keeps

(* The conversation is cleared. *)
LEMMA ClearStep == ASSUME IInv, clearMessages PROVE Keeps
<1> DEFINE l == Len(reqs)
           n == << >>
<1>1. open /\ lv = 0 /\ l \in Nat
  BY CalmFacts, InvFacts DEF clearMessages
<1>2. Commit(<<Put(n)>>, chat, ctl) /\ UNCHANGED <<open, storage, overwrote>> /\ reqs' = reqs /\ stream' = stream
  BY DEF clearMessages
<1>3. n \in Talks(l) /\ Stays(msgs, n) /\ Tidy(n) /\ Rests(n)
  BY DEF Talks, Stays, Tidy, Rests
<1> HIDE DEF n
<1>4. HandlerOK(chat, ctl, reqs) /\ l <= l /\ stream' \in BOOLEAN /\ overwrote' \in BOOLEAN
  BY <1>1, <1>2 DEF IInv, FlagsOK
<1>5. ~overwrote' => ~overwrote /\ Tidy(n) /\ (Live(chat, reqs) = 0 => Rests(n))
  BY <1>2, <1>3
<1>6. Live(chat, reqs) # 0 => Waits(n, l)
  BY <1>1 DEF lv
<1>7. IInv' /\ msgs' = n
  BY <1>1, <1>2, <1>3, <1>4, <1>5, <1>6, PutStep
<1> QED BY <1>3, <1>7 DEF Keeps

(* One message is deleted. *)
LEMMA DeleteStep == ASSUME IInv, NEW i \in DOMAIN msgs, handleDeleteMessage(i) PROVE Keeps
<1> DEFINE l == Len(reqs)
           key == msgs[i].key
           m == removeMessageByKey(msgs, key)
           us == <<Delete(key)>>
<1>1. open /\ lv = 0 /\ queue = << >> /\ (~overwrote => Rests(msgs)) /\ l \in Nat /\ msgs \in Talks(l)
  BY CalmFacts, InvFacts DEF handleDeleteMessage
<1>2. Commit(us, chat, ctl) /\ UNCHANGED <<open, storage, overwrote>> /\ reqs' = reqs /\ stream' = stream
  BY DEF handleDeleteMessage
<1>3. m \in Talks(l) /\ Drawn(m, msgs)
  BY <1>1, RemovedIs
<1>4. Stays(msgs, m) /\ (Rests(msgs) => Rests(m))
  BY <1>1, <1>3, DrawnIs
<1>5. Rests(m) => Tidy(m)
  BY DEF Rests, Tidy
<1>6. m = Drained(queue \o us, msgs, chat.gen)
  <2>1. queue \o us = us
    BY <1>1
  <2>2. Len(us) = 1 /\ us[1] = Delete(key)
    OBVIOUS
  <2> HIDE DEF us
  <2>3. PICK f : /\ f[0] = msgs /\ Drained(us, msgs, chat.gen) = f[Len(us)]
                 /\ \A n \in 1..Len(us) : f[n] = Applied(us[n], f[n - 1], chat.gen)
    BY <2>2, DrainedIs
  <2>4. f[1] = Applied(us[1], f[0], chat.gen)
    BY <2>2, <2>3
  <2>5. Applied(Delete(key), msgs, chat.gen) = m
    BY DEF Applied, Delete
  <2> HIDE DEF m
  <2> QED BY <2>1, <2>2, <2>3, <2>4, <2>5
<1> HIDE DEF m, us, key
<1>7. HandlerOK(chat, ctl, reqs) /\ l <= l /\ stream' \in BOOLEAN /\ overwrote' \in BOOLEAN
  BY <1>1, <1>2 DEF IInv, FlagsOK
<1>8. ~overwrote' => ~overwrote /\ Tidy(m) /\ (Live(chat, reqs) = 0 => Rests(m))
  BY <1>1, <1>2, <1>4, <1>5
<1>9. Live(chat, reqs) # 0 => Waits(m, l)
  BY <1>1 DEF lv
<1>10. IInv' /\ msgs' = m
  BY <1>1, <1>2, <1>3, <1>6, <1>7, <1>8, <1>9, CommitStep
<1> QED BY <1>4, <1>10 DEF Keeps

(* The frame: the text that waits is handed over. *)
LEMMA FrameStep == ASSUME IInv, Frame PROVE Keeps
<1> DEFINE c == [chat EXCEPT !.frame = 0]
           d == flushStreamUpdates(c, chat.gen)
           us == Flushing(c, chat.gen)
<1>1. HandlerOK(chat, ctl, reqs) /\ Stays(msgs, msgs)
  BY InvFacts DEF IInv
<1>2. chat.frame = chat.gen
  BY <1>1 DEF HandlerOK, Frame
<1>3. Deliver(us, d, ctl) /\ reqs' = reqs /\ Untouched
  BY <1>2 DEF Frame, Untouched
<1>4. HandlerOK(c, ctl, reqs) /\ Live(c, reqs) = lv /\ c.gen = chat.gen
  BY <1>1, FrameTaken DEF lv
<1> HIDE DEF c
<1>5. /\ HandlerOK(d, ctl, reqs) /\ Live(d, reqs) = lv /\ d.gen = chat.gen
      /\ us = << >> \/ (lv # 0 /\ Feeds(us, Len(reqs), chat.gen, lv))
  BY <1>4, FlushedIs
<1> HIDE DEF d, us
<1>6. IInv' /\ msgs' = msgs
  BY <1>3, <1>5, DeliverStep
<1> QED BY <1>1, <1>6 DEF Keeps

(* A request that was passed ends: nothing else happens. *)
LEMMA PassedStep ==
    ASSUME IInv, NEW r \in 1..Len(reqs), r # lv, reqs[r].at # "open", Gone(r), Nothing, Untouched
    PROVE  Keeps
<1>1. HandlerOK(chat, ctl, reqs) /\ Moves(reqs', reqs, r, "closed") /\ Stays(msgs, msgs)
  BY InvFacts DEF IInv, Gone, Moves
<1>2. HandlerOK(chat, ctl, reqs') /\ Live(chat, reqs') = lv /\ Len(reqs') = Len(reqs)
  BY <1>1, GoneIs DEF lv
<1>3. UNCHANGED <<msgs, queue, shown, chat, ctl, latest, saving, stream, open, stored, unsaved, overwrote>>
  BY DEF Nothing, Untouched, storage
<1>4. lv' = lv /\ HandlerOK(chat', ctl', reqs')
  BY <1>2, <1>3 DEF lv
<1>5. QueueOK(queue', msgs', Len(reqs'), chat'.gen, lv')
  BY <1>2, <1>3, <1>4 DEF IInv
<1>6. PageOK' /\ MessagesOK' /\ SettledOK' /\ FlagsOK' /\ SeenIsKept'
  BY <1>2, <1>3, <1>4 DEF IInv, PageOK, MessagesOK, SettledOK, FlagsOK, SeenIsKept
<1> QED BY <1>1, <1>3, <1>4, <1>5, <1>6 DEF Keeps, IInv

(* A request that has not ended is the one that is answered exactly when it *)
(* is of the generation that is current.                                    *)
LEMMA AnsweredIs ==
    ASSUME IInv, NEW r \in 1..Len(reqs), reqs[r].at # "closed"
    PROVE  /\ reqs[r].sgen = reqs[r].gen /\ HandlerOK(chat, ctl, reqs) /\ Stays(msgs, msgs)
           /\ ctl.gen = chat.gen /\ r # 0
           /\ reqs[r].gen = chat.gen => lv = r
           /\ reqs[r].gen # chat.gen => lv # r
<1>1. RequestsOK(chat, reqs) /\ chat.gen \in Nat /\ HandlerOK(chat, ctl, reqs) /\ Stays(msgs, msgs)
      /\ ctl.gen = chat.gen
  BY InvFacts DEF IInv
<1>2. reqs[r].sgen = reqs[r].gen /\ Len(reqs) \in Nat
  BY <1>1, LiveIs DEF RequestsOK
<1>3. reqs[r].gen = chat.gen => lv = r
  BY <1>1, CurrentIsLast DEF lv
<1>4. reqs[r].gen # chat.gen => lv # r
  BY <1>1, <1>2 DEF lv, Live
<1> QED BY <1>1, <1>2, <1>3, <1>4

(* A source is opened for the request that is answered, or for none. *)
LEMMA HeadersStep == ASSUME IInv, NEW r \in 1..Len(reqs), HeadersReady(r) PROVE Keeps
<1>1. reqs[r].at = "headers" /\ Untouched
  BY DEF HeadersReady
<1>2. /\ reqs[r].sgen = reqs[r].gen /\ HandlerOK(chat, ctl, reqs) /\ Stays(msgs, msgs)
      /\ ctl.gen = chat.gen /\ r # 0
      /\ reqs[r].gen = chat.gen => lv = r
      /\ reqs[r].gen # chat.gen => lv # r
  BY <1>1, AnsweredIs
<1>3. CASE ctl.gen # reqs[r].sgen
  <2>1. Gone(r) /\ Nothing
    BY <1>3 DEF HeadersReady
  <2>2. r # lv /\ reqs[r].at # "open"
    BY <1>1, <1>2, <1>3
  <2> QED BY <1>1, <2>1, <2>2, PassedStep
<1>4. CASE ctl.gen = reqs[r].sgen
  <2> DEFINE t == TRUE
             j == [ctl EXCEPT !.source = r, !.streaming = t]
             us == << >>
  <2>1. Deliver(us, chat, j) /\ Moves(reqs', reqs, r, "open")
    BY <1>4 DEF HeadersReady, Moves
  <2>2. lv = r /\ ctl \in CtlSet /\ t \in BOOLEAN /\ t /\ r \in Nat
    BY <1>2, <1>4 DEF HandlerOK
  <2> HIDE DEF t
  <2>3. j \in CtlSet
    BY <2>2 DEF CtlSet
  <2>4. j.gen = ctl.gen /\ j.source = r /\ j.streaming = t
    BY <2>2 DEF CtlSet
  <2> HIDE DEF j
  <2>a. j.streaming
    BY <2>2, <2>4
  <2>b. j.gen = chat.gen /\ r = Live(chat, reqs)
    BY <1>2, <2>2, <2>4 DEF lv
  <2>5. HandlerOK(chat, j, reqs') /\ Live(chat, reqs') = lv /\ Len(reqs') = Len(reqs)
    <3>1. HandlerOK(chat, j, reqs') /\ Live(chat, reqs') = Live(chat, reqs) /\ Len(reqs') = Len(reqs)
      BY ONLY <1>1, <1>2, <2>1, <2>3, <2>4, <2>a, <2>b, OpenedIs
    <3> QED BY <3>1 DEF lv
  <2>6. us = << >>
    OBVIOUS
  <2> HIDE DEF us
  <2>7. IInv' /\ msgs' = msgs
    BY <1>1, <2>1, <2>5, <2>6, DeliverStep
  <2> QED BY <1>2, <2>7 DEF Keeps
<1> QED BY <1>3, <1>4

(* Text comes on the source. *)
LEMMA UpdateStep == ASSUME IInv, NEW r \in 1..Len(reqs), StreamUpdate(r) PROVE Keeps
<1> DEFINE d == handleStreamUpdate(chat, chat.gen, r)
           us == << >>
<1>1. reqs[r].at = "open" /\ Untouched /\ ctl.source = r /\ ctl.gen = reqs[r].sgen
  BY DEF StreamUpdate, isCurrent
<1>2. /\ reqs[r].sgen = reqs[r].gen /\ HandlerOK(chat, ctl, reqs) /\ Stays(msgs, msgs)
      /\ ctl.gen = chat.gen /\ r # 0
      /\ reqs[r].gen = chat.gen => lv = r
  BY <1>1, AnsweredIs
<1>3. reqs[r].gen = chat.gen /\ lv = r
  BY <1>1, <1>2
<1>4. Deliver(us, d, ctl) /\ reqs' = reqs
  BY <1>3 DEF StreamUpdate
<1>5. HandlerOK(d, ctl, reqs) /\ Live(d, reqs) = lv /\ d.gen = chat.gen
  BY <1>1, <1>2, <1>3, ReceivedIs DEF lv
<1>6. us = << >>
  OBVIOUS
<1> HIDE DEF d, us
<1>7. IInv' /\ msgs' = msgs
  BY <1>1, <1>4, <1>5, <1>6, DeliverStep
<1> QED BY <1>2, <1>7 DEF Keeps

(* The answer to request r is over. *)
LEMMA OverStep ==
    ASSUME IInv, NEW r \in 1..Len(reqs), lv = r, Gone(r), Untouched,
           NEW us, NEW d, NEW j, Deliver(us, d, j), Feeds(us, Len(reqs), chat.gen, 0),
           Forgets(d, j, chat.gen)
    PROVE  Keeps
<1>1. HandlerOK(chat, ctl, reqs) /\ Moves(reqs', reqs, r, "closed") /\ Stays(msgs, msgs) /\ r # 0
  BY InvFacts DEF IInv, Gone, Moves
<1>2. HandlerOK(d, j, reqs') /\ Live(d, reqs') = 0 /\ Len(reqs') = Len(reqs)
  BY <1>1, OverIs DEF lv
<1>3. d.gen = chat.gen /\ lv # 0
  BY <1>1 DEF Forgets
<1>4. IInv' /\ msgs' = msgs
  BY <1>2, <1>3, DeliverStep
<1> QED BY <1>1, <1>4 DEF Keeps

(* The headers cannot be made. *)
LEMMA NoHeadersStep == ASSUME IInv, NEW r \in 1..Len(reqs), NoHeaders(r) PROVE Keeps
<1>1. reqs[r].at = "headers" /\ Untouched /\ Gone(r)
  BY DEF NoHeaders
<1>2. /\ reqs[r].sgen = reqs[r].gen /\ HandlerOK(chat, ctl, reqs)
      /\ ctl.gen = chat.gen /\ r # 0
      /\ reqs[r].gen = chat.gen => lv = r
      /\ reqs[r].gen # chat.gen => lv # r
  BY <1>1, AnsweredIs
<1>3. CASE ctl.gen # reqs[r].sgen
  <2>1. Nothing
    BY <1>3 DEF NoHeaders
  <2>2. r # lv /\ reqs[r].at # "open"
    BY <1>1, <1>2, <1>3
  <2> QED BY <1>1, <2>1, <2>2, PassedStep
<1>4. CASE ctl.gen = reqs[r].sgen
  <2> DEFINE us == Ending(chat, chat.gen, "error")
             d == Ended(chat, chat.gen)
  <2>1. lv = r /\ reqs[r].gen = chat.gen
    BY <1>2, <1>4
  <2>2. Deliver(us, d, ctl)
    BY <1>4, <2>1 DEF NoHeaders
  <2>3. /\ Feeds(us, Len(reqs), chat.gen, 0)
        /\ d \in ChatSet /\ d.gen = chat.gen /\ d.pgen = chat.pgen /\ d.frame = 0 /\ d.ptext = {}
        /\ d.aborter = chat.aborter
    BY <1>2, <2>1, EndedIs DEF lv
  <2>4. chat.pgen <= chat.gen /\ chat.aborter = 0 /\ ctl.source = 0 /\ ctl \in CtlSet
    BY <1>1, <1>2, <2>1 DEF HandlerOK, lv
  <2> HIDE DEF us, d
  <2>5. Forgets(d, ctl, chat.gen)
    BY <1>2, <2>3, <2>4 DEF Forgets
  <2> QED BY <1>1, <2>1, <2>2, <2>3, <2>5, OverStep
<1> QED BY <1>3, <1>4

(* A stream ends, well or in an error. *)
LEMMA StreamEndStep == ASSUME IInv, NEW r \in 1..Len(reqs), StreamEnd(r) PROVE Keeps
<1> DEFINE d == Ended(chat, chat.gen)
           f == FALSE
           j == [ctl EXCEPT !.source = 0, !.streaming = f]
<1>1. reqs[r].at = "open" /\ Untouched /\ ctl.source = r /\ ctl.gen = reqs[r].sgen /\ Gone(r)
  BY DEF StreamEnd, isCurrent
<1>2. /\ reqs[r].sgen = reqs[r].gen /\ HandlerOK(chat, ctl, reqs)
      /\ ctl.gen = chat.gen /\ r # 0
      /\ reqs[r].gen = chat.gen => lv = r
  BY <1>1, AnsweredIs
<1>3. reqs[r].gen = chat.gen /\ lv = r
  BY <1>1, <1>2
<1>4. PICK op \in {"complete", "error"} : Deliver(Ending(chat, chat.gen, op), d, j)
  BY <1>3 DEF StreamEnd, closeActiveSource
<1> DEFINE us == Ending(chat, chat.gen, op)
<1>5. /\ Feeds(us, Len(reqs), chat.gen, 0)
      /\ d \in ChatSet /\ d.gen = chat.gen /\ d.pgen = chat.pgen /\ d.frame = 0 /\ d.ptext = {}
      /\ d.aborter = chat.aborter
  BY <1>2, <1>3, EndedIs DEF lv
<1>6. chat.pgen <= chat.gen /\ chat.aborter = 0 /\ ctl \in CtlSet /\ f \in BOOLEAN /\ 0 \in Nat
  BY <1>1, <1>2, <1>3 DEF HandlerOK, lv
<1> HIDE DEF us, d, f
<1>7. j \in CtlSet
  BY <1>6 DEF CtlSet
<1>8. j.gen = ctl.gen /\ j.source = 0
  BY <1>6 DEF CtlSet
<1>9. Deliver(us, d, j)
  BY <1>4 DEF us
<1> HIDE DEF j
<1>10. Forgets(d, j, chat.gen)
  BY <1>2, <1>5, <1>6, <1>7, <1>8 DEF Forgets
<1> QED BY <1>1, <1>3, <1>5, <1>9, <1>10, OverStep

(* An answer that is not streamed comes, or none does. *)
LEMMA FetchStep == ASSUME IInv, NEW r \in 1..Len(reqs), FetchEnd(r) PROVE Keeps
<1>1. reqs[r].at = "fetch" /\ Untouched /\ Gone(r)
  BY DEF FetchEnd
<1>2. /\ HandlerOK(chat, ctl, reqs) /\ ctl.gen = chat.gen /\ r # 0
      /\ reqs[r].gen = chat.gen => lv = r
      /\ reqs[r].gen # chat.gen => lv # r
  BY <1>1, AnsweredIs
<1>3. CASE reqs[r].aborted \/ chat.gen # reqs[r].gen
  <2>1. Nothing
    BY <1>3 DEF FetchEnd
  <2>2. r # lv /\ reqs[r].at # "open"
    BY <1>1, <1>2, <1>3 DEF HandlerOK, lv
  <2> QED BY <1>1, <2>1, <2>2, PassedStep
<1>4. CASE ~reqs[r].aborted /\ chat.gen = reqs[r].gen
  <2> DEFINE g == chat.gen
             f == FALSE
             a == <<Change("answer", g, {r})>>
             b == Ending(chat, g, "error")
             c == [chat EXCEPT !.aborter = 0, !.requesting = f]
             e == Ended(chat, g)
             d == [e EXCEPT !.aborter = 0, !.requesting = f]
  <2>1. lv = r /\ reqs[r].gen = g
    BY <1>2, <1>4
  <2>2. Deliver(a, c, ctl) \/ Deliver(b, d, ctl)
    BY <1>4, <2>1 DEF FetchEnd
  <2>3. /\ chat.pgen <= g /\ ctl.source = 0 /\ ctl \in CtlSet /\ chat \in ChatSet /\ chat.ptext = {}
        /\ chat.frame \in {0, g} /\ f \in BOOLEAN /\ 0 \in Nat
    BY <1>1, <1>2, <2>1 DEF HandlerOK, lv
  <2>4. r = Len(reqs)
    BY <1>2, <2>1, InvFacts, LiveIs DEF lv
  <2>5. CASE Deliver(a, c, ctl)
    <3>1. Change("answer", g, {r}) \in Changes(Len(reqs), g) /\ Change("answer", g, {r}).op \in Ends
      BY <2>4 DEF Change, Changes, Ends
    <3>2. Feeds(a, Len(reqs), g, 0)
      BY <3>1 DEF Feeds
    <3> HIDE DEF f
    <3>3. c \in ChatSet
      BY <2>3 DEF ChatSet
    <3>4. c.gen = g /\ c.pgen = chat.pgen /\ c.frame = chat.frame /\ c.ptext = chat.ptext /\ c.aborter = 0
      BY <2>3 DEF ChatSet
    <3> HIDE DEF a, c
    <3>5. Forgets(c, ctl, g)
      BY <1>2, <2>3, <3>3, <3>4 DEF Forgets
    <3> QED BY <1>1, <2>1, <2>5, <3>2, <3>5, OverStep
  <2>6. CASE Deliver(b, d, ctl)
    <3>1. /\ Feeds(b, Len(reqs), g, 0)
          /\ e \in ChatSet /\ e.gen = g /\ e.pgen = chat.pgen /\ e.frame = 0 /\ e.ptext = {}
      BY <1>2, <2>1, EndedIs DEF lv
    <3> HIDE DEF b, e, f
    <3>3. d \in ChatSet
      BY <2>3, <3>1 DEF ChatSet
    <3>4. d.gen = e.gen /\ d.pgen = e.pgen /\ d.frame = e.frame /\ d.ptext = e.ptext /\ d.aborter = 0
      BY <3>1 DEF ChatSet
    <3> HIDE DEF d
    <3>5. Forgets(d, ctl, g)
      BY <1>2, <2>3, <3>1, <3>3, <3>4 DEF Forgets
    <3> QED BY <1>1, <2>1, <2>6, <3>1, <3>5, OverStep
  <2> QED BY <2>2, <2>5, <2>6
<1> QED BY <1>3, <1>4

(* An update after two sequences put together. *)
LEMMA JoinLast ==
    ASSUME NEW S, NEW p \in Seq(S), NEW T, NEW q \in Seq(T), NEW u
    PROVE  p \o Append(q, u) = Append(p \o q, u)
<1> DEFINE U == S \cup T \cup {u}
           a == p \o Append(q, u)
           b == Append(p \o q, u)
<1>1. p \in Seq(U) /\ q \in Seq(U) /\ u \in U /\ Len(p) \in Nat /\ Len(q) \in Nat
  OBVIOUS
<1> HIDE DEF U
<1>2. a \in Seq(U) /\ b \in Seq(U) /\ Len(a) = Len(p) + Len(q) + 1 /\ Len(b) = Len(p) + Len(q) + 1
  BY <1>1
<1>3. ASSUME NEW i \in 1..(Len(p) + Len(q) + 1) PROVE a[i] = b[i]
  <2>1. CASE i \in 1..Len(p)
    BY <1>1, <2>1
  <2>2. CASE i \in (Len(p) + 1)..(Len(p) + Len(q))
    BY <1>1, <2>2
  <2>3. CASE i = Len(p) + Len(q) + 1
    BY <1>1, <2>3
  <2> QED BY <1>1, <2>1, <2>2, <2>3
<1> HIDE DEF a, b
<1>4. a = b
  BY <1>2, <1>3, SeqEqual
<1> QED BY <1>4 DEF a, b

(* The text that waits is flushed as part of a stop. *)
LEMMA FlushQueued ==
    ASSUME IInv, NEW q \in Queuings(Flushing(chat, chat.gen)), NEW u
    PROVE  /\ QueueOK(queue \o q, msgs, Len(reqs), chat.gen, lv)
           /\ queue \o Append(q, u) = Append(queue \o q, u)
<1> DEFINE us == Flushing(chat, chat.gen)
           l == Len(reqs)
           d == flushStreamUpdates(chat, chat.gen)
           w == Change("chunk", chat.gen, chat.ptext)
           z == Put(Applied(w, msgs, chat.gen))
           I == Changes(l, chat.gen) \cup Puts(msgs, l)
<1>1. /\ HandlerOK(chat, ctl, reqs) /\ queue \in Seq(I) /\ msgs \in Talks(l)
      /\ QueueOK(queue, msgs, l, chat.gen, lv) /\ RequestsOK(chat, reqs)
  BY InvFacts DEF IInv
<1>2. us = << >> \/ (lv # 0 /\ Feeds(us, l, chat.gen, lv))
  BY <1>1, FlushedIs DEF lv
<1>3. us = << >> \/ us = <<w>>
  BY DEF Flushing
<1> HIDE DEF I, w
<1>4. q = << >> \/ q = <<w>> \/ q = <<z>>
  <2>1. us = << >> => q = << >>
    BY DEF Queuings
  <2>2. Head(<<w>>) = w /\ Tail(<<w>>) = << >>
    OBVIOUS
  <2>3. us = <<w>> => q = <<w>> \/ q = <<z>> \o << >>
    BY <2>2 DEF Queuings
  <2>4. <<z>> \o << >> = <<z>>
    OBVIOUS
  <2> QED BY <1>3, <2>1, <2>3, <2>4
<1> HIDE DEF z
<1>5. q \in Seq({w, z})
  <2>1. << >> \in Seq({w, z}) /\ <<w>> \in Seq({w, z}) /\ <<z>> \in Seq({w, z})
    OBVIOUS
  <2> QED BY <1>4, <2>1
<1>6. queue \o Append(q, u) = Append(queue \o q, u)
  BY <1>1, <1>5, JoinLast
<1>7. CASE us = << >>
  <2>1. q = << >>
    BY <1>7 DEF Queuings
  <2>2. queue \o q = queue
    BY <1>1, <2>1
  <2> QED BY <1>1, <1>6, <2>2
<1>8. CASE lv # 0 /\ Feeds(us, l, chat.gen, lv)
  <2>1. l \in 1..MaxRequests
    BY <1>1, <1>8, LiveIs DEF lv
  <2> HIDE DEF l
  <2>2. QueueOK(queue \o q, msgs, l, chat.gen, lv)
    BY <1>1, <1>8, <2>1, Queued
  <2> QED BY <1>6, <2>2 DEF l
<1> QED BY <1>2, <1>7, <1>8

(* The user stops the answer. *)
LEMMA StopStep == ASSUME IInv, stopGeneration PROVE Keeps
<1> DEFINE l == Len(reqs)
           g == chat.gen + 1
           k == cancel(ctl)
           f == FALSE
           t == {}
           c == [discardPendingStreamUpdates(chat, g) EXCEPT !.gen = g, !.requesting = f, !.aborter = 0]
           d == [chat EXCEPT !.frame = 0, !.pgen = g, !.ptext = t]
           s == Dropped(reqs, ctl, chat)
<1>1. /\ l \in 0..MaxRequests /\ l \in Nat /\ chat.gen \in Nat /\ g \in Nat /\ 0 \in Nat /\ g # chat.gen
      /\ chat \in ChatSet /\ ctl \in CtlSet /\ ctl.gen = chat.gen /\ f \in BOOLEAN /\ t \in SUBSET Nat
      /\ msgs \in Talks(l) /\ HandlerOK(chat, ctl, reqs) /\ stream \in BOOLEAN /\ overwrote \in BOOLEAN
  BY InvFacts DEF IInv, FlagsOK
<1>2. /\ open /\ reqs' = s /\ UNCHANGED <<open, storage>> /\ stream' = stream /\ overwrote' = overwrote
  BY DEF stopGeneration
<1>3. PICK q \in Queuings(Flushing(chat, chat.gen)) : Commit(Append(q, Settling(g)), c, k)
  BY DEF stopGeneration
<1>4. c = [d EXCEPT !.gen = g, !.requesting = f, !.aborter = 0]
  BY DEF discardPendingStreamUpdates
<1> HIDE DEF c
<1>5. k.gen = g /\ k.source = 0 /\ k \in CtlSet
  <2> DEFINE h == ctl.gen + 1
  <2>1. k = [ctl EXCEPT !.gen = h, !.source = 0, !.streaming = f]
    BY DEF cancel
  <2>2. h = g
    BY <1>1
  <2> HIDE DEF h, f, k, g
  <2>3. k \in CtlSet
    BY <1>1, <2>1, <2>2 DEF CtlSet
  <2>4. k.gen = h /\ k.source = 0
    BY <1>1, <2>1 DEF CtlSet
  <2> QED BY <2>2, <2>3, <2>4
<1>6. d \in ChatSet /\ d.frame = 0 /\ d.pgen = g /\ d.ptext = t
  <2> HIDE DEF g, t
  <2>1. d \in ChatSet
    BY <1>1 DEF ChatSet
  <2>2. d.frame = 0 /\ d.pgen = g /\ d.ptext = t
    BY <1>1 DEF ChatSet
  <2> QED BY <2>1, <2>2
<1> HIDE DEF d, f, k
<1>7. c \in ChatSet /\ c.gen = g /\ c.pgen = g /\ c.frame = 0 /\ c.aborter = 0 /\ c.ptext = t
  <2> HIDE DEF g, t
  <2>1. c \in ChatSet
    BY <1>1, <1>4, <1>6 DEF ChatSet
  <2>2. c.gen = g /\ c.aborter = 0
    BY <1>4, <1>6 DEF ChatSet
  <2>3. c.frame = d.frame /\ c.pgen = d.pgen /\ c.ptext = d.ptext
    BY <1>4, <1>6 DEF ChatSet
  <2> QED BY <1>6, <2>1, <2>2, <2>3
<1>8. Forgets(c, k, chat.gen + 1)
  <2>1. c.pgen <= g
    BY <1>1, <1>7
  <2> QED BY <1>5, <1>7, <2>1 DEF Forgets
<1>9. Behind(s, reqs)
  BY <1>1, DroppedIs
<1> HIDE DEF s
<1>10. HandlerOK(c, k, s) /\ Live(c, s) = 0 /\ Len(s) = l
  BY <1>1, <1>8, <1>9, BehindIs DEF Behind
<1> DEFINE u == Change("settle", g, {})
           p == queue \o q
           us == Append(q, u)
           m == Drained(Append(p, u), msgs, g)
<1>11. QueueOK(p, msgs, l, chat.gen, lv) /\ queue \o us = Append(p, u)
  BY FlushQueued
<1>12. /\ m \in Talks(l) /\ Stays(msgs, m)
       /\ Tidy(msgs) => Tidy(m) /\ Rests(m)
  <2> HIDE DEF p, g
  <2> QED BY <1>1, <1>11, DrainedStopped
<1>13. Commit(us, c, k)
  BY <1>3 DEF Settling
<1>14. m = Drained(queue \o us, msgs, c.gen)
  BY <1>7, <1>11
<1> HIDE DEF us, m, p, u, g
<1>15. ~overwrote => Tidy(m) /\ Rests(m)
  BY <1>12 DEF IInv, SettledOK
<1>16. IInv' /\ msgs' = m
  BY <1>1, <1>2, <1>10, <1>12, <1>13, <1>14, <1>15, CommitStep
<1> QED BY <1>12, <1>16 DEF Keeps

(* A write to the storage, which may fail. *)
LEMMA SavedIs ==
    ASSUME NEW l \in Nat, NEW m \in Talks(l), stored \in Talks(l), Len(stored) <= MaxStored, saveMessages(m)
    PROVE  /\ stored' \in Talks(l) /\ Len(stored') <= MaxStored /\ unsaved' \in BOOLEAN
           /\ Tidy(m) /\ Tidy(stored) => Tidy(stored')
           /\ ~unsaved' => stored' = trimMessages(m)
<1>1. /\ trimMessages(m) \in Talks(l) /\ Len(trimMessages(m)) <= MaxStored
      /\ Tidy(m) => Tidy(trimMessages(m))
  BY TrimmedIs
<1>2. CASE stored' = trimMessages(m) /\ unsaved' = FALSE
  BY <1>1, <1>2
<1>3. CASE stored' = stored /\ unsaved' = TRUE
  BY <1>3
<1> QED BY <1>2, <1>3 DEF saveMessages

(* The timer writes what was seen last. *)
LEMMA SaveTimerStep == ASSUME IInv, SaveTimer PROVE Keeps
<1> DEFINE l == Len(reqs)
<1>1. /\ UNCHANGED <<msgs, queue, shown, chat, ctl, reqs, stream, open, latest, overwrote>>
      /\ saving' = FALSE /\ saveMessages(latest)
  BY DEF SaveTimer
<1>2. /\ l \in Nat /\ msgs \in Talks(l) /\ latest \in Talks(l) /\ stored \in Talks(l) /\ Len(stored) <= MaxStored
      /\ Stays(msgs, msgs)
  BY InvFacts DEF IInv, MessagesOK
<1>3. /\ stored' \in Talks(l) /\ Len(stored') <= MaxStored /\ unsaved' \in BOOLEAN
      /\ Tidy(latest) /\ Tidy(stored) => Tidy(stored')
      /\ ~unsaved' => stored' = trimMessages(latest)
  BY <1>1, <1>2, SavedIs
<1>4. lv' = lv /\ HandlerOK(chat', ctl', reqs')
  BY <1>1 DEF lv, IInv
<1>5. QueueOK(queue', msgs', Len(reqs'), chat'.gen, lv')
  BY <1>1, <1>4 DEF IInv
<1>6. PageOK' /\ MessagesOK' /\ SettledOK' /\ FlagsOK' /\ SeenIsKept'
  BY <1>1, <1>2, <1>3, <1>4 DEF IInv, PageOK, MessagesOK, SettledOK, FlagsOK, SeenIsKept
<1> QED BY <1>1, <1>2, <1>4, <1>5, <1>6 DEF Keeps, IInv

(* The page is opened. *)
LEMMA LoadStep == ASSUME IInv, loadMessages PROVE Keeps
<1> DEFINE l == Len(reqs)
           m == Loaded(stored)
<1>1. /\ UNCHANGED <<queue, shown, chat, ctl, reqs, stream, saving, overwrote>>
      /\ ~open /\ open' = TRUE /\ msgs' = m /\ latest' = m
      /\ IF stored = << >> THEN unsaved' = FALSE /\ UNCHANGED stored ELSE saveMessages(m)
  BY DEF loadMessages
<1>2. l \in Nat /\ stored \in Talks(l) /\ Len(stored) <= MaxStored
  BY InvFacts DEF IInv, MessagesOK
<1>3. /\ m \in Talks(l) /\ (Tidy(stored) => Rests(m)) /\ (stored = << >> => m = << >>)
  BY <1>2, LoadedIs
<1> HIDE DEF m
<1>4. lv = 0 /\ Len(queue) = 0 /\ Len(msgs) = 0
  BY <1>1 DEF IInv, PageOK
<1>5. queue = << >>
  BY <1>4, InvFacts
<1>6. Rests(m) => Tidy(m)
  BY DEF Rests, Tidy
<1>7. /\ stored' \in Talks(l) /\ Len(stored') <= MaxStored /\ unsaved' \in BOOLEAN
      /\ Tidy(m) /\ Tidy(stored) => Tidy(stored')
      /\ ~unsaved' => stored' = trimMessages(m)
  <2>1. CASE stored = << >>
    <3>1. trimMessages(m) = stored
      BY <1>3, <2>1, PlaygroundAssumption DEF trimMessages
    <3>2. stored' = stored /\ unsaved' = FALSE
      BY <1>1, <2>1
    <3> QED BY <1>2, <3>1, <3>2
  <2>2. CASE stored # << >>
    BY <1>1, <1>2, <1>3, <2>2, SavedIs
  <2> QED BY <2>1, <2>2
<1>8. lv' = 0 /\ HandlerOK(chat', ctl', reqs') /\ Len(reqs') = l
  BY <1>1, <1>4 DEF lv, IInv
<1>9. QueueOK(queue', msgs', Len(reqs'), chat'.gen, lv')
  <2>1. QueueOK(<< >>, m, l, chat.gen, 0)
    BY <1>2, QueueEmpty
  <2> QED BY <1>1, <1>5, <1>8, <2>1
<1>10. PageOK' /\ MessagesOK'
  BY <1>1, <1>3, <1>4, <1>7, <1>8 DEF PageOK, MessagesOK
<1>11. SettledOK'
  <2>1. ~overwrote => Tidy(stored)
    BY DEF IInv, SettledOK
  <2> QED BY <1>1, <1>3, <1>4, <1>6, <1>7, <2>1 DEF SettledOK, Settles
<1>12. FlagsOK' /\ SeenIsKept'
  BY <1>1, <1>7 DEF IInv, FlagsOK, SeenIsKept
<1>13. Stays(msgs, msgs')
  BY <1>4 DEF Stays
<1> QED BY <1>8, <1>9, <1>10, <1>11, <1>12, <1>13 DEF Keeps, IInv

(* The page is gone: no request is answered any more. *)
LEMMA GoneStep ==
    ASSUME IInv, Unmounted, NEW s, reqs' = s, Behind(s, reqs),
           latest' \in Talks(Len(reqs)), stored' \in Talks(Len(reqs)), Len(stored') <= MaxStored,
           unsaved' \in BOOLEAN, ~overwrote => Tidy(latest') /\ Tidy(stored'),
           ~unsaved' => stored' = trimMessages(latest')
    PROVE  Keeps
<1> DEFINE l == Len(reqs)
           g == chat.gen + 1
           f == FALSE
           t == {}
           c == [gen |-> g, pgen |-> 0, ptext |-> t, frame |-> 0, requesting |-> f, aborter |-> 0]
           k == [gen |-> g, source |-> 0, streaming |-> f]
<1>1. /\ l \in Nat /\ chat.gen \in Nat /\ ctl.gen = chat.gen /\ g \in Nat /\ 0 \in Nat /\ 0 <= g
      /\ f \in BOOLEAN /\ t \in SUBSET Nat /\ HandlerOK(chat, ctl, reqs)
  BY InvFacts DEF IInv
<1>2. /\ open' = FALSE /\ msgs' = << >> /\ queue' = << >> /\ shown' = FALSE /\ saving' = FALSE
      /\ stream' = stream /\ overwrote' = overwrote
      /\ chat' = c /\ ctl' = k
  BY <1>1 DEF Unmounted, FreshChat, FreshCtl
<1> HIDE DEF g, f, t
<1>3. Forgets(c, k, g)
  <2>1. c \in ChatSet /\ k \in CtlSet
    BY <1>1 DEF ChatSet, CtlSet
  <2>2. c.gen = g /\ c.pgen <= g /\ c.frame \in {0, g} /\ c.aborter = 0 /\ k.gen = g /\ k.source = 0
    BY <1>1
  <2>3. c.ptext = {}
    BY DEF t
  <2> QED BY <2>1, <2>2, <2>3 DEF Forgets
<1> HIDE DEF c, k
<1>4. HandlerOK(c, k, s) /\ Live(c, s) = 0
  BY <1>1, <1>3, BehindIs DEF g
<1>5. lv' = 0 /\ HandlerOK(chat', ctl', reqs') /\ Len(reqs') = l
  BY <1>2, <1>4 DEF lv, Behind
<1>6. QueueOK(queue', msgs', Len(reqs'), chat'.gen, lv')
  <2> DEFINE e == << >>
             h == chat'.gen
  <2>1. QueueOK(<< >>, e, l, h, 0)
    BY <1>1, QueueEmpty
  <2> QED BY <1>2, <1>5, <2>1
<1>7. Len(msgs') = 0 /\ Len(queue') = 0
  BY <1>2
<1>8. msgs' \in Talks(l) /\ Tidy(msgs')
  BY <1>2 DEF Talks, Tidy
<1>9. PageOK' /\ MessagesOK' /\ SettledOK'
  BY <1>2, <1>5, <1>7, <1>8 DEF PageOK, MessagesOK, SettledOK
<1>10. FlagsOK' /\ SeenIsKept'
  BY <1>2 DEF IInv, FlagsOK, SeenIsKept
<1>11. Stays(msgs, msgs')
  BY <1>7 DEF Stays
<1> QED BY <1>5, <1>6, <1>9, <1>10, <1>11 DEF Keeps, IInv

(* The page is left, with its cleanups or without. *)
LEMMA LeaveSteps == ASSUME IInv, Leave \/ Crash PROVE Keeps
<1> DEFINE l == Len(reqs)
           s == Dropped(reqs, ctl, chat)
           z == [r \in DOMAIN reqs |-> [reqs[r] EXCEPT !.at = "closed"]]
<1>1. /\ l \in Nat /\ latest \in Talks(l) /\ stored \in Talks(l) /\ Len(stored) <= MaxStored
      /\ unsaved \in BOOLEAN /\ HandlerOK(chat, ctl, reqs)
  BY InvFacts DEF IInv, MessagesOK, FlagsOK
<1>2. ~overwrote => Tidy(latest) /\ Tidy(stored)
  BY DEF IInv, SettledOK
<1>3. Behind(s, reqs) /\ Behind(z, reqs)
  BY <1>1, DroppedIs
<1>4. CASE Leave
  <2>1. Unmounted /\ reqs' = s /\ latest' = latest
    BY <1>4 DEF Leave
  <2>2. /\ stored' \in Talks(l) /\ Len(stored') <= MaxStored /\ unsaved' \in BOOLEAN
        /\ Tidy(latest) /\ Tidy(stored) => Tidy(stored')
        /\ ~unsaved' => stored' = trimMessages(latest)
    <3>1. CASE saving
      <4>1. saveMessages(latest)
        BY <1>4, <3>1 DEF Leave, SaveOnLeave
      <4> QED BY <1>1, <4>1, SavedIs
    <3>2. CASE ~saving
      <4>1. stored' = stored /\ unsaved' = unsaved
        BY <1>4, <3>2 DEF Leave, SaveOnLeave, storage
      <4> QED BY <1>1, <3>2, <4>1 DEF IInv, SeenIsKept
    <3> QED BY <3>1, <3>2
  <2> HIDE DEF s
  <2> QED BY <1>1, <1>2, <1>3, <2>1, <2>2, GoneStep
<1>5. CASE Crash
  <2>1. Unmounted /\ reqs' = z /\ latest' = latest /\ stored' = stored /\ unsaved' = (unsaved \/ saving)
    BY <1>5 DEF Crash
  <2>2. unsaved' \in BOOLEAN /\ (~unsaved' => stored = trimMessages(latest))
    BY <1>1, <2>1 DEF IInv, SeenIsKept
  <2> HIDE DEF z
  <2> QED BY <1>1, <1>2, <1>3, <2>1, <2>2, GoneStep
<1> QED BY <1>4, <1>5

-----------------------------------------------------------------------------
(***************************************************************************)
(* The theorems                                                            *)
(***************************************************************************)

(* The page that was never opened. *)
LEMMA InitIsSound == Init => IInv
<1> SUFFICES ASSUME Init PROVE IInv
  OBVIOUS
<1> DEFINE f == FALSE
           t == {}
           e == << >>
           c == [gen |-> 0, pgen |-> 0, ptext |-> t, frame |-> 0, requesting |-> f, aborter |-> 0]
           k == [gen |-> 0, source |-> 0, streaming |-> f]
<1>1. /\ msgs = << >> /\ queue = << >> /\ shown = FALSE /\ chat = c /\ ctl = k /\ reqs = << >>
      /\ stream = TRUE /\ open = FALSE /\ latest = << >> /\ saving = FALSE /\ stored = << >>
      /\ unsaved = FALSE /\ overwrote = FALSE
  BY DEF Init, FreshChat, FreshCtl
<1>2. MaxRequests \in Nat /\ MaxStored \in Nat /\ 0 \in Nat /\ f \in BOOLEAN /\ t \in SUBSET Nat
  BY PlaygroundAssumption
<1>3. c \in ChatSet /\ c.ptext = {}
  <2>1. c.ptext = t
    OBVIOUS
  <2>2. t = {}
    OBVIOUS
  <2> HIDE DEF f, t
  <2>3. c \in ChatSet
    BY <1>2 DEF ChatSet
  <2> QED BY <2>1, <2>2, <2>3
<1>4. k \in CtlSet
  <2> HIDE DEF f
  <2> QED BY <1>2 DEF CtlSet
<1>5. /\ chat \in ChatSet /\ ctl \in CtlSet /\ chat.gen = 0 /\ chat.pgen = 0 /\ chat.frame = 0
      /\ chat.aborter = 0 /\ chat.ptext = {} /\ ctl.gen = 0 /\ ctl.source = 0
  <2>1. c.gen = 0 /\ c.pgen = 0 /\ c.frame = 0 /\ c.aborter = 0 /\ k.gen = 0 /\ k.source = 0
    OBVIOUS
  <2> HIDE DEF c, k
  <2> QED BY <1>1, <1>3, <1>4, <2>1
<1> HIDE DEF c, k
<1>6. Len(reqs) = 0 /\ Len(msgs) = 0 /\ Len(queue) = 0 /\ reqs \in Seq(Request)
  BY <1>1
<1>7. lv = 0 /\ Live(chat, reqs) = 0 /\ RequestsOK(chat, reqs)
  BY <1>2, <1>6 DEF lv, Live, RequestsOK
<1>8. HandlerOK(chat, ctl, reqs)
  BY <1>5, <1>6, <1>7 DEF HandlerOK
<1>9. QueueOK(queue, msgs, Len(reqs), chat.gen, lv)
  <2>1. QueueOK(<< >>, e, 0, 0, 0)
    BY QueueEmpty
  <2> QED BY <1>1, <1>5, <1>6, <1>7, <2>1
<1>10. << >> \in Talks(0) /\ Tidy(<< >>) /\ Rests(<< >>) /\ trimMessages(<< >>) = << >>
  BY <1>2 DEF Talks, Tidy, Rests, trimMessages
<1>11. PageOK /\ MessagesOK /\ FlagsOK
  <2>1. Len(stored) = 0 /\ 0 <= MaxStored
    BY <1>1, <1>2
  <2>2. MessagesOK
    BY <1>1, <1>6, <1>10, <2>1 DEF MessagesOK
  <2>3. PageOK
    BY <1>6, <1>7 DEF PageOK
  <2>4. FlagsOK
    BY <1>1 DEF FlagsOK
  <2> QED BY <2>2, <2>3, <2>4
<1>12. SettledOK /\ SeenIsKept
  BY <1>1, <1>10 DEF SettledOK, SeenIsKept
<1> QED BY <1>8, <1>9, <1>11, <1>12 DEF IInv

(* Every step but the sending of a message with attachments keeps the       *)
(* invariant, and every answer that has ended.                              *)
LEMMA NextKeeps ==
    ASSUME IInv, Next, \A k \in Slots : ~SubmitFiles(k) /\ ~FilesRead(k) /\ ~ReadFailed(k)
    PROVE  Keeps
<1>1. DOMAIN reqs = 1..Len(reqs)
  BY InvFacts
<1>2. ASSUME NEW r \in DOMAIN reqs, Network(r) PROVE Keeps
  <2>1. r \in 1..Len(reqs)
    BY <1>1
  <2> QED BY <1>2, <2>1, HeadersStep, NoHeadersStep, UpdateStep, StreamEndStep, FetchStep DEF Network
<1>3. ASSUME NEW i \in DOMAIN msgs, OnMessage(i) PROVE Keeps
  BY <1>3, RegenerateStep, RenderSteps, SaveEditStep, EditAndSubmitStep, DeleteStep DEF OnMessage
<1>4. CASE Render \/ handleEditCancel \/ updateConfig
  BY <1>4, RenderSteps
<1>5. CASE Frame \/ SaveTimer \/ loadMessages
  BY <1>5, FrameStep, SaveTimerStep, LoadStep
<1>6. CASE Leave \/ Crash
  BY <1>6, LeaveSteps
<1>7. CASE stopGeneration \/ SubmitText \/ clearMessages
  BY <1>7, StopStep, SubmitTextStep, ClearStep
<1> QED BY <1>2, <1>3, <1>4, <1>5, <1>6, <1>7 DEF Next

(* Requests are only added, and what an edit has undone is not forgotten. *)
Onward == Len(reqs) <= Len(reqs') /\ (overwrote => overwrote')

LEMMA NextOnward == ASSUME IInv, Next PROVE Onward
<1>1. reqs \in Seq(Request) /\ Len(reqs) \in Nat /\ DOMAIN reqs = 1..Len(reqs)
  BY InvFacts DEF RequestsOK
<1> DEFINE s == Dropped(reqs, ctl, chat)
           z == [r \in DOMAIN reqs |-> [reqs[r] EXCEPT !.at = "closed"]]
<1>2. /\ s \in Seq(Request) /\ Len(s) = Len(reqs) /\ Len(z) = Len(reqs)
      /\ \A x : Len(Append(s, x)) = Len(reqs) + 1
  <2>1. Behind(s, reqs) /\ Behind(z, reqs)
    BY DroppedIs DEF IInv
  <2> HIDE DEF s, z
  <2> QED BY <2>1 DEF Behind
<1> HIDE DEF z
<1>3. \A n, b : sendChat(n, b) => Len(reqs') = Len(reqs) + 1
  <2> SUFFICES ASSUME NEW n, NEW b, sendChat(n, b) PROVE Len(reqs') = Len(reqs) + 1
    OBVIOUS
  <2>1. PICK x : reqs' = Append(s, x)
    BY DEF sendChat
  <2> HIDE DEF s
  <2> QED BY <1>2, <2>1
<1>4. ASSUME NEW r \in DOMAIN reqs, Gone(r) PROVE Len(reqs') = Len(reqs)
  BY <1>1, <1>4 DEF Gone
<1>5. ASSUME NEW r \in DOMAIN reqs, Network(r) PROVE Onward
  <2>1. overwrote' = overwrote
    BY <1>5 DEF Network, HeadersReady, NoHeaders, StreamUpdate, StreamEnd, FetchEnd, Untouched
  <2>2. reqs' = reqs \/ Gone(r) \/ reqs' = [reqs EXCEPT ![r].at = "open"]
    BY <1>5 DEF Network, HeadersReady, NoHeaders, StreamUpdate, StreamEnd, FetchEnd
  <2> QED BY <1>1, <1>4, <2>1, <2>2 DEF Onward
<1>6. ASSUME NEW i \in DOMAIN msgs, OnMessage(i) PROVE Onward
  <2>1. CASE handleRegenerateMessage(i) \/ saveEditAndSubmit(i)
    <3>1. overwrote' = overwrote /\ \E n : sendChat(n, stream)
      BY <2>1 DEF handleRegenerateMessage, saveEditAndSubmit
    <3> QED BY <1>1, <1>3, <3>1 DEF Onward
  <2>2. CASE handleEditMessage(i) \/ saveEdit(i) \/ handleDeleteMessage(i)
    <3>1. reqs' = reqs
      BY <2>2 DEF handleEditMessage, saveEdit, handleDeleteMessage
    <3>2. overwrote => overwrote'
      <4>1. CASE saveEdit(i)
        <5>1. PICK b \in BOOLEAN : overwrote' = (overwrote \/ b)
          BY <4>1 DEF saveEdit
        <5> QED BY <5>1
      <4>2. CASE handleEditMessage(i) \/ handleDeleteMessage(i)
        BY <4>2 DEF handleEditMessage, handleDeleteMessage
      <4> QED BY <2>2, <4>1, <4>2
    <3> QED BY <1>1, <3>1, <3>2 DEF Onward
  <2> QED BY <1>6, <2>1, <2>2 DEF OnMessage
<1>7. ASSUME NEW k \in Slots, SubmitFiles(k) \/ FilesRead(k) \/ ReadFailed(k) PROVE Onward
  <2>1. overwrote' = overwrote /\ (reqs' = reqs \/ \E n, b : sendChat(n, b))
    BY <1>7 DEF SubmitFiles, FilesRead, ReadFailed, handleSendMessage
  <2> QED BY <1>1, <1>3, <2>1 DEF Onward
<1>8. CASE SubmitText
  <2>1. overwrote' = overwrote /\ \E n, b : sendChat(n, b)
    BY <1>8 DEF SubmitText, handleSendMessage
  <2> QED BY <1>1, <1>3, <2>1 DEF Onward
<1>9. CASE Render \/ Frame \/ SaveTimer \/ loadMessages \/ handleEditCancel \/ clearMessages \/ updateConfig
  <2>1. reqs' = reqs /\ overwrote' = overwrote
    BY <1>9 DEF Render, Frame, SaveTimer, loadMessages, handleEditCancel, clearMessages, updateConfig
  <2> QED BY <1>1, <2>1 DEF Onward
<1>10. CASE stopGeneration \/ Leave \/ Crash
  <2>1. (reqs' = s \/ reqs' = z) /\ overwrote' = overwrote
    BY <1>10 DEF stopGeneration, Leave, Crash, Unmounted, z
  <2> HIDE DEF s
  <2> QED BY <1>1, <1>2, <2>1 DEF Onward
<1> QED BY <1>5, <1>6, <1>7, <1>8, <1>9, <1>10 DEF Next

-----------------------------------------------------------------------------
(***************************************************************************)
(* Messages whose attachments are being read                               *)
(***************************************************************************)

(* What was captured is an earlier conversation of a page that is still     *)
(* there, in which nothing was pending                                      *)
Submitted(l) == [reading : BOOLEAN, msgs : Talks(l), stream : BOOLEAN]
SendingOK ==
    /\ sending \in [Slots -> Submitted(Len(reqs))]
    /\ \A k \in Slots : sending[k].reading => open /\ (~overwrote => Rests(sending[k].msgs))

(* What was captured is still a conversation when there are more requests. *)
LEMMA SubmittedGrow ==
    ASSUME NEW l \in Nat, NEW n \in Nat, l <= n, NEW x \in Submitted(l)
    PROVE  x \in Submitted(n)
<1>1. \A m \in Talks(l) : m \in Talks(n)
  BY TalksGrow
<1> QED BY <1>1 DEF Submitted

(* No message captures anything. *)
LEMMA NoMessageIs ==
    ASSUME NEW l \in Nat
    PROVE  NoMessage \in Submitted(l) /\ ~NoMessage.reading
<1> DEFINE f == FALSE
           e == << >>
           x == [reading |-> f, msgs |-> e, stream |-> f]
<1>1. f \in BOOLEAN /\ ~f /\ x = NoMessage
  BY DEF NoMessage
<1>2. e \in Talks(l)
  BY DEF Talks
<1> HIDE DEF f, e
<1>3. x \in Submitted(l) /\ x.reading = f
  BY <1>1, <1>2 DEF Submitted
<1> HIDE DEF x
<1> QED BY <1>1, <1>3

(* One slot changes, or none. *)
LEMMA SlotStep ==
    ASSUME SendingOK, Onward, Len(reqs) \in Nat, Len(reqs') \in Nat, NEW k \in Slots,
           NEW x \in Submitted(Len(reqs')), sending' = [sending EXCEPT ![k] = x],
           x.reading => open' /\ (~overwrote' => Rests(x.msgs)), open' = open
    PROVE  SendingOK'
<1>1. ASSUME NEW j \in Slots PROVE sending[j] \in Submitted(Len(reqs'))
  BY SubmittedGrow DEF SendingOK, Onward
<1>2. \A j \in Slots : sending'[j] = IF j = k THEN x ELSE sending[j]
  BY DEF SendingOK
<1>3. sending' \in [Slots -> Submitted(Len(reqs'))]
  BY <1>1 DEF SendingOK
<1>4. ASSUME NEW j \in Slots, sending'[j].reading
      PROVE  open' /\ (~overwrote' => Rests(sending'[j].msgs))
  <2>1. CASE j = k
    BY <1>2, <1>4, <2>1
  <2>2. CASE j # k
    <3>1. sending'[j] = sending[j]
      BY <1>2, <2>2
    <3> QED BY <1>4, <3>1 DEF SendingOK, Onward
  <2> QED BY <2>1, <2>2
<1> QED BY <1>3, <1>4 DEF SendingOK

LEMMA SameSlots ==
    ASSUME SendingOK, Onward, Len(reqs) \in Nat, Len(reqs') \in Nat, sending' = sending,
           \A k \in Slots : sending[k].reading => open'
    PROVE  SendingOK'
<1>1. ASSUME NEW j \in Slots PROVE sending[j] \in Submitted(Len(reqs'))
  BY SubmittedGrow DEF SendingOK, Onward
<1>2. sending' \in [Slots -> Submitted(Len(reqs'))]
  BY <1>1 DEF SendingOK
<1> QED BY <1>2 DEF SendingOK, Onward

(* The files are read: the captured conversation is put back, and every     *)
(* answer in it that was not pending then is not pending now.               *)
LEMMA FilesReadStep ==
    ASSUME IInv, SendingOK, NEW k \in Slots, FilesRead(k)
    PROVE  /\ IInv'
           /\ \A i \in 1..Len(msgs), j \in 1..Len(msgs') :
                 msgs[i].key = msgs'[j].key /\ ~overwrote' =>
                     /\ ~isAssistantMessagePending(msgs'[j])
                     /\ \E p \in DOMAIN sending[k].msgs : sending[k].msgs[p] = msgs'[j]
<1> DEFINE l == Len(reqs)
           m == sending[k].msgs
           b == sending[k].stream
           n == m \o <<Question(l + 1), Loading(l + 1)>>
<1>1. open /\ m \in Talks(l) /\ b \in BOOLEAN /\ (~overwrote => Rests(m)) /\ l \in Nat /\ msgs \in Talks(l)
  BY InvFacts DEF SendingOK, Submitted, FilesRead
<1>2. handleSendMessage(m, b) /\ overwrote' = overwrote
  BY DEF FilesRead, handleSendMessage
<1> HIDE DEF m, b
<1>3. IInv' /\ msgs' = n
  BY <1>1, <1>2, SendMessageStep
<1>4. /\ Len(m) \in Nat /\ DOMAIN m = 1..Len(m) /\ Len(n) = Len(m) + 2
      /\ \A j \in 1..Len(m) : n[j] = m[j]
      /\ n[Len(m) + 1] = Question(l + 1) /\ n[Len(m) + 2] = Loading(l + 1)
  <2> DEFINE y == Question(l + 1)
             x == Loading(l + 1)
  <2>1. m \in Seq(Message(l)) /\ n = m \o <<y, x>>
    BY <1>1 DEF Talks
  <2> HIDE DEF x, y, n
  <2>2. n = m \o <<y, x>> /\ Len(m) \in Nat /\ DOMAIN m = 1..Len(m)
    BY <2>1
  <2>3. /\ Len(n) = Len(m) + 2
        /\ \A j \in 1..Len(m) : n[j] = m[j]
        /\ n[Len(m) + 1] = y /\ n[Len(m) + 2] = x
    BY <2>1, <2>2
  <2> QED BY <2>2, <2>3 DEF x, y
<1>5. ASSUME NEW i \in 1..Len(msgs), NEW j \in 1..Len(n), msgs[i].key = n[j].key
      PROVE  j \in 1..Len(m) /\ n[j] = m[j]
  <2>1. msgs[i].key \in 1..(2 * l)
    <3>1. msgs[i] \in Message(l)
      BY <1>1 DEF Talks
    <3> QED BY <3>1 DEF Message
  <2>2. Question(l + 1).key = 2 * (l + 1) - 1 /\ Loading(l + 1).key = 2 * (l + 1)
    BY DEF Question, Loading
  <2>3. j # Len(m) + 1 /\ j # Len(m) + 2
    <3>1. 2 * (l + 1) - 1 \notin 1..(2 * l) /\ 2 * (l + 1) \notin 1..(2 * l)
      BY <1>1
    <3> HIDE DEF n
    <3> QED BY <1>4, <1>5, <2>1, <2>2, <3>1
  <2> HIDE DEF n
  <2>4. j \in 1..Len(m)
    BY <1>4, <2>3
  <2> QED BY <1>4, <2>4
<1> HIDE DEF n
<1>6. ASSUME NEW i \in 1..Len(msgs), NEW j \in 1..Len(msgs'), msgs[i].key = msgs'[j].key, ~overwrote'
      PROVE  /\ ~isAssistantMessagePending(msgs'[j])
             /\ \E p \in DOMAIN m : m[p] = msgs'[j]
  <2>1. j \in 1..Len(m) /\ msgs'[j] = m[j]
    BY <1>3, <1>5, <1>6
  <2>2. Rests(m)
    BY <1>1, <1>2, <1>6
  <2> QED BY <1>4, <2>1, <2>2 DEF Rests
<1> QED BY <1>3, <1>6 DEF m

(* A message is submitted with attachments, or they cannot be read: nothing *)
(* the page shows changes.                                                  *)
LEMMA SlotOnly ==
    ASSUME IInv, UNCHANGED <<msgs, queue, shown, chat, ctl, reqs, stream, open, latest, saving, stored,
                             unsaved, overwrote>>
    PROVE  IInv' /\ Stays(msgs, msgs')
<1>1. lv' = lv
  BY DEF lv
<1>2. IInv'
  BY <1>1 DEF IInv, PageOK, MessagesOK, SettledOK, FlagsOK, SeenIsKept
<1> QED BY <1>2, InvFacts

(* Every step keeps both parts of the invariant. *)
LEMMA StepKeeps == IInv /\ SendingOK /\ [Next]_vars => IInv' /\ SendingOK'
<1> SUFFICES ASSUME IInv, SendingOK, [Next]_vars PROVE IInv' /\ SendingOK'
  OBVIOUS
<1>1. CASE UNCHANGED vars
  <2>1. UNCHANGED <<msgs, queue, shown, chat, ctl, reqs, stream, open, latest, saving, stored, unsaved,
                    overwrote, sending>>
    BY <1>1 DEF vars
  <2>2. SendingOK'
    BY <2>1 DEF SendingOK
  <2> QED BY <2>1, <2>2, SlotOnly
<1>2. CASE Next
  <2>1. Onward /\ Len(reqs) \in Nat
    BY <1>2, NextOnward, InvFacts
  <2>2. CASE \E k \in Slots : FilesRead(k)
    <3>1. PICK k \in Slots : FilesRead(k)
      BY <2>2
    <3>2. IInv' /\ Len(reqs') \in Nat
      <4>1. IInv'
        BY <3>1, FilesReadStep
      <4> QED BY <4>1, LiveIs DEF IInv, HandlerOK
    <3>3. open' = open /\ sending' = [sending EXCEPT ![k] = NoMessage]
      BY <3>1 DEF FilesRead, handleSendMessage, ReadOver
    <3> QED BY <2>1, <3>2, <3>3, NoMessageIs, SlotStep
  <2>3. CASE \E k \in Slots : ReadFailed(k)
    <3>1. PICK k \in Slots : ReadFailed(k)
      BY <2>3
    <3>2. IInv' /\ Len(reqs') \in Nat
      <4>1. IInv' /\ reqs' = reqs
        BY <3>1, SlotOnly DEF ReadFailed, storage
      <4> QED BY <2>1, <4>1
    <3>3. open' = open /\ sending' = [sending EXCEPT ![k] = NoMessage]
      BY <3>1 DEF ReadFailed, ReadOver
    <3> QED BY <2>1, <3>2, <3>3, NoMessageIs, SlotStep
  <2>4. CASE \E k \in Slots : SubmitFiles(k)
    <3>1. PICK k \in Slots : SubmitFiles(k)
      BY <2>4
    <3> DEFINE t == TRUE
               x == [reading |-> t, msgs |-> msgs, stream |-> stream]
    <3>2. /\ IInv' /\ Len(reqs') \in Nat /\ reqs' = reqs /\ open' = open /\ overwrote' = overwrote
          /\ sending' = [sending EXCEPT ![k] = x]
      <4>1. UNCHANGED <<msgs, queue, shown, chat, ctl, reqs, stream, open, latest, saving, stored, unsaved,
                        overwrote>>
        BY <3>1 DEF SubmitFiles, storage
      <4>2. sending' = [sending EXCEPT ![k] = x]
        BY <3>1 DEF SubmitFiles
      <4> HIDE DEF x
      <4> QED BY <2>1, <4>1, <4>2, SlotOnly
    <3>3. open /\ (~overwrote => Rests(msgs)) /\ msgs \in Talks(Len(reqs)) /\ stream \in BOOLEAN
      BY <3>1, CalmFacts, InvFacts DEF SubmitFiles, IInv, FlagsOK
    <3>4. x \in Submitted(Len(reqs)) /\ x.msgs = msgs
      <4>1. t \in BOOLEAN
        OBVIOUS
      <4> HIDE DEF t
      <4> QED BY <3>3, <4>1 DEF Submitted
    <3> HIDE DEF x
    <3> QED BY <2>1, <3>2, <3>3, <3>4, SlotStep
  <2>5. CASE \A k \in Slots : ~SubmitFiles(k) /\ ~FilesRead(k) /\ ~ReadFailed(k)
    <3>1. IInv' /\ Len(reqs') \in Nat
      <4>1. IInv'
        BY <1>2, <2>5, NextKeeps DEF Keeps
      <4> QED BY <4>1, LiveIs DEF IInv, HandlerOK
    <3>2. CASE Crash
      <4>1. sending' = [k \in Slots |-> NoMessage]
        BY <3>2 DEF Crash
      <4> QED BY <3>1, <4>1, NoMessageIs DEF SendingOK
    <3>3. CASE ~Crash
      <4>1. sending' = sending /\ (open' = open \/ ~open \/ \A k \in Slots : ~sending[k].reading)
        <5>1. ASSUME NEW r \in DOMAIN reqs, Network(r) PROVE sending' = sending /\ open' = open
          BY <5>1 DEF Network, HeadersReady, NoHeaders, StreamUpdate, StreamEnd, FetchEnd, Untouched
        <5>2. ASSUME NEW i \in DOMAIN msgs, OnMessage(i) PROVE sending' = sending /\ open' = open
          BY <5>2 DEF OnMessage, handleRegenerateMessage, handleEditMessage, saveEdit, saveEditAndSubmit,
                      handleDeleteMessage
        <5>3. CASE Render \/ Frame \/ SaveTimer \/ stopGeneration \/ SubmitText \/ handleEditCancel
                   \/ clearMessages \/ updateConfig
          BY <5>3 DEF Render, Frame, SaveTimer, stopGeneration, SubmitText, handleSendMessage,
                      handleEditCancel, clearMessages, updateConfig
        <5>4. CASE loadMessages \/ Leave
          BY <5>4 DEF loadMessages, Leave
        <5> QED BY <1>2, <2>5, <3>3, <5>1, <5>2, <5>3, <5>4 DEF Next
      <4>2. \A k \in Slots : sending[k].reading => open'
        BY <4>1 DEF SendingOK
      <4> QED BY <2>1, <3>1, <4>1, <4>2, SameSlots
    <3> QED BY <3>1, <3>2, <3>3
  <2> QED BY <2>2, <2>3, <2>4, <2>5
<1> QED BY <1>1, <1>2

(* At first no message is being prepared. *)
LEMMA InitSending == Init => SendingOK
<1> SUFFICES ASSUME Init PROVE SendingOK
  OBVIOUS
<1>1. sending = [k \in Slots |-> NoMessage] /\ Len(reqs) = 0
  BY DEF Init
<1> QED BY <1>1, NoMessageIs DEF SendingOK

(* The invariant holds in every state: the two counters agree, whatever     *)
(* waits belongs to the request that is answered, and what is shown, kept,  *)
(* captured or stored are conversations whose answers are their own.        *)
THEOREM Invariant == Spec => [](IInv /\ SendingOK)
<1>1. Init => IInv /\ SendingOK
  BY InitIsSound, InitSending
<1> QED BY <1>1, StepKeeps, PTL DEF Spec

(* Every state has the shape TypeOK describes: the storage is bounded, and  *)
(* no frame, buffer, source or fetch is of a request that is still to come. *)
THEOREM TypeCorrect == Spec => []TypeOK
<1>1. IInv /\ SendingOK => TypeOK
  <2> SUFFICES ASSUME IInv, SendingOK PROVE TypeOK
    OBVIOUS
  <2>1. HandlerOK(chat, ctl, reqs) /\ MessagesOK /\ FlagsOK /\ RequestsOK(chat, reqs)
    BY InvFacts DEF IInv
  <2>2. ASSUME NEW m \in Talks(Len(reqs)), NEW i \in DOMAIN m PROVE MessageOK(m[i])
    <3>1. m[i] \in Message(Len(reqs))
      BY DEF Talks
    <3> QED BY <3>1 DEF Message, Statuses, Texts, MessageOK
  <2>3. \A m \in {msgs, latest, stored} : \A i \in DOMAIN m : MessageOK(m[i])
    BY <2>1, <2>2 DEF MessagesOK
  <2>4. Len(stored) <= MaxStored /\ Len(reqs) <= MaxRequests
    BY <2>1 DEF MessagesOK, RequestsOK
  <2>5. chat.gen \in Nat /\ 0 <= chat.gen
    BY InvFacts
  <2>6. chat.frame <= chat.gen /\ chat.pgen <= chat.gen
    BY <2>1, <2>5 DEF HandlerOK
  <2>7. Len(reqs) \in Nat /\ Live(chat, reqs) \in 0..Len(reqs)
    BY <2>1, LiveIs
  <2>8. ctl.source \in 0..Len(reqs) /\ chat.aborter \in 0..Len(reqs)
    BY <2>1, <2>7 DEF HandlerOK
  <2>9. \A b \in {shown, stream, open, saving, unsaved, overwrote} : b \in BOOLEAN
    BY <2>1 DEF FlagsOK
  <2>10. ASSUME NEW k \in Slots
         PROVE  /\ sending[k].reading => open
                /\ \A i \in DOMAIN sending[k].msgs : MessageOK(sending[k].msgs[i])
    <3>1. sending[k].msgs \in Talks(Len(reqs)) /\ (sending[k].reading => open)
      BY DEF SendingOK, Submitted
    <3> QED BY <2>2, <3>1
  <2> QED BY <2>3, <2>4, <2>6, <2>8, <2>9, <2>10 DEF TypeOK
<1> QED BY <1>1, Invariant, PTL

(* An answer holds the text of its own request and of no other, whatever    *)
(* was stopped, sent again or edited while text of an earlier request was   *)
(* buffered for a frame, queued in React or still on the network: for any   *)
(* number of requests, edits, failed writes and updates that wait.          *)
THEOREM OwnText == Spec => []AnswersKeepToTheirRequest
<1>1. IInv => AnswersKeepToTheirRequest
  BY InvFacts DEF AnswersKeepToTheirRequest, Talks, Sound
<1> QED BY <1>1, Invariant, PTL

(* A page that says nothing is generated and has rendered everything shows  *)
(* no spinner, unless applyEdit has put back a conversation that was not    *)
(* rendered yet.                                                            *)
THEOREM IdleSettled == Spec => []IdleIsSettled
<1>1. IInv => IdleIsSettled
  <2> SUFFICES ASSUME IInv, open, queue = << >>, ~isGenerating(chat, ctl), ~overwrote
               PROVE  \A i \in DOMAIN msgs : ~isAssistantMessagePending(msgs[i])
    BY DEF IdleIsSettled
  <2>1. lv = 0
    BY DEF IInv, HandlerOK, lv
  <2>2. Len(queue) = 0
    OBVIOUS
  <2>3. Rests(msgs)
    BY <2>1, <2>2 DEF IInv, SettledOK, Settles
  <2> QED BY <2>3, InvFacts DEF Rests
<1> QED BY <1>1, Invariant, PTL

(* A connection is open only on a page that is there and for the request    *)
(* its handler waits for: stopping, leaving or sending again while the      *)
(* headers are awaited leaves no stream behind.                             *)
THEOREM NoStreamLeft == Spec => []NoStreamLeftOpen
<1>1. IInv => NoStreamLeftOpen
  <2> SUFFICES ASSUME IInv, NEW r \in DOMAIN reqs, reqs[r].at = "open"
               PROVE  open /\ ctl.source = r /\ reqs[r].gen = chat.gen
    BY DEF NoStreamLeftOpen
  <2>1. r \in 1..Len(reqs) /\ HandlerOK(chat, ctl, reqs) /\ RequestsOK(chat, reqs) /\ Len(reqs) \in Nat
    BY InvFacts DEF IInv
  <2>2. ctl.source = r /\ r # 0
    BY <2>1 DEF HandlerOK
  <2>3. lv = r
    BY <2>1, <2>2 DEF HandlerOK, lv
  <2>4. reqs[r].gen = chat.gen
    BY <2>1, <2>2, <2>3 DEF lv, Live
  <2>5. open
    BY <2>2, <2>3 DEF IInv, PageOK
  <2> QED BY <2>2, <2>4, <2>5
<1> QED BY <1>1, Invariant, PTL

(* What the user has seen is in the storage, or the timer that writes it is *)
(* set on a page that is still there, or the browser refused a write, or    *)
(* the tab crashed while the timer was set.                                 *)
THEOREM SeenKept == Spec => []SeenIsKept
<1>1. IInv => SeenIsKept
  BY DEF IInv
<1> QED BY <1>1, Invariant, PTL

(* An answer that is complete or in error keeps its status, and its text    *)
(* until the user edits it: no frame, late event, second end, stop or       *)
(* reload changes it. A message with attachments may put it back to what it *)
(* was when the message was submitted, and then it is not pending either.   *)
THEOREM EndedStay == Spec => EndedAnswersStay
<1> DEFINE A == \A i \in DOMAIN msgs, j \in DOMAIN msgs' :
                   msgs[i].key = msgs'[j].key /\ isAssistantMessageFinal(msgs[i]) /\ ~overwrote' =>
                       \/ /\ msgs'[j].status = msgs[i].status
                          /\ msgs'[j].text \in {msgs[i].text, {Typed}}
                       \/ /\ ~isAssistantMessagePending(msgs'[j])
                          /\ \E k \in Slots :
                                /\ PutBack(k)
                                /\ \E p \in DOMAIN sending[k].msgs : sending[k].msgs[p] = msgs'[j]
<1>1. IInv /\ SendingOK /\ [Next]_vars => [A]_vars
  <2> SUFFICES ASSUME IInv, SendingOK, Next PROVE A
    OBVIOUS
  <2>1. DOMAIN msgs = 1..Len(msgs) /\ DOMAIN msgs' = 1..Len(msgs')
    <3>1. IInv'
      BY StepKeeps
    <3>2. msgs' \in Talks(Len(reqs'))
      BY <3>1 DEF IInv, MessagesOK
    <3> QED BY <3>2, InvFacts DEF Talks
  <2>2. CASE \E k \in Slots : FilesRead(k)
    <3>1. PICK k \in Slots : FilesRead(k)
      BY <2>2
    <3>2. \A i \in 1..Len(msgs), j \in 1..Len(msgs') :
             msgs[i].key = msgs'[j].key /\ ~overwrote' =>
                 /\ ~isAssistantMessagePending(msgs'[j])
                 /\ \E p \in DOMAIN sending[k].msgs : sending[k].msgs[p] = msgs'[j]
      BY <3>1, FilesReadStep
    <3>3. PutBack(k)
      <4>1. sending[k].reading /\ sending' = [sending EXCEPT ![k] = NoMessage]
        BY <3>1 DEF FilesRead, ReadOver
      <4>2. sending'[k] = NoMessage
        BY <4>1 DEF SendingOK
      <4> QED BY <4>1, <4>2, NoMessageIs, InvFacts DEF PutBack
    <3> QED BY <2>1, <3>2, <3>3
  <2>3. CASE ~\E k \in Slots : FilesRead(k)
    <3>1. Stays(msgs, msgs')
      <4>1. CASE \E k \in Slots : SubmitFiles(k) \/ ReadFailed(k)
        <5>1. UNCHANGED <<msgs, queue, shown, chat, ctl, reqs, stream, open, latest, saving, stored, unsaved,
                          overwrote>>
          BY <4>1 DEF SubmitFiles, ReadFailed, storage
        <5> QED BY <5>1, SlotOnly
      <4>2. CASE ~\E k \in Slots : SubmitFiles(k) \/ ReadFailed(k)
        BY <2>3, <4>2, NextKeeps DEF Keeps
      <4> QED BY <4>1, <4>2
    <3> QED BY <2>1, <3>1 DEF Stays
  <2> QED BY <2>2, <2>3
<1>2. Spec => [][A]_vars
  <2> HIDE DEF A
  <2> QED BY <1>1, Invariant, PTL DEF Spec
<1> QED BY <1>2 DEF EndedAnswersStay

=============================================================================
