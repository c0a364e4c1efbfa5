------------------------ MODULE BillingSession_proofs ------------------------
(***************************************************************************)
(* Proofs about BillingSession, for every set of requests, every quota and *)
(* any number of database errors and crashes.                              *)
(***************************************************************************)
EXTENDS BillingSession, FiniteSetTheorems, FunctionTheorems, WellFoundedInduction, TLAPS

-----------------------------------------------------------------------------
(* The inductive invariant *)

OpenSteps == {"attempt", "reserveFunding", "reserveToken", "reserveRollback",
              "dispatch", "settleFunding", "failing"}
OpeningSteps == {"choose", "tryWallet", "preToken", "preFunding", "preRollback",
                 "fallback"}

(* What a request at step p, whose refund goroutine is at f, may still give   *)
(* back to each ledger.                                                       *)
WalletHold(p, f, s) ==
  IF s.live /\ s.source # "subscription" /\ (f \in Tries \/ (f = "none" /\ p \in OpenSteps))
    THEN s.consumed ELSE 0

SubHold(p, f, s) ==
  IF s.live /\ s.source = "subscription"
    THEN IF f = "none" /\ p \in {"reserveToken", "reserveRollback"}
           THEN s.consumed + s.extra + (s.target - s.pre)
         ELSE IF f \in Tries \/ (f = "none" /\ p \in OpenSteps) THEN s.consumed + s.extra
         ELSE IF f = "extra" THEN s.extra
         ELSE 0
    ELSE 0

TokenHold(p, f, s) ==
  IF /\ ~s.profile.playground
     /\ \/ f \in Tries \cup {"extra", "token"}
        \/ f = "none" /\ p \in OpenSteps \cup {"preFunding", "preRollback", "settleToken"}
    THEN s.tokenConsumed ELSE 0

(* What the session's own fields say about each other at step p *)
Books(p, f, s) ==
  /\ s.live => /\ s.pre = s.tokenConsumed
               /\ s.source # "none"
               /\ s.source = "wallet" => s.consumed >= s.pre
               /\ s.source = "subscription" => s.pre = s.consumed + s.extra
               /\ p \notin OpeningSteps
  /\ ~s.live => /\ s.pre = 0 /\ s.consumed = 0 /\ s.extra = 0
                /\ p \notin {"preFunding", "preRollback", "done"} => s.tokenConsumed = 0
  /\ p \in {"reserveFunding", "reserveToken", "reserveRollback"} =>
       s.live /\ s.target > s.pre
  /\ p \in {"reserveToken", "reserveRollback"} /\ s.source = "wallet" =>
       s.consumed >= s.target
  /\ f # "none" => s.live /\ p \in {"fee", "feeToken", "done"}
  /\ p \in {"tryWallet", "preToken", "preFunding", "preRollback"} => s.source # "none"
  /\ p = "preFunding" =>
       s.tokenConsumed = IF s.source = "subscription" /\ s.quota = 0 THEN 1 ELSE s.quota

(* What a try of refundWithRetry that is to be repeated has returned already *)
Returned(f, c) == IF f \in Tries THEN c.given ELSE 0

(* How often the pre-consumed quota can have been returned at each try *)
Returns(p, f, s, c) ==
  /\ p \notin {"fee", "feeToken", "done"} => c.given = 0 /\ c.regiven = 0
  /\ f \in Tries => c.given \in {0, s.consumed}
  /\ f = "funding" => c.given = 0
  /\ f \in {"funding", "funding2"} => c.regiven = 0
  /\ f = "funding3" => c.regiven <= c.given
  /\ c.regiven <= 2 * c.given
  /\ c.given > 0 => s.source = "subscription"

Acct(p, f, s, c) ==
  /\ Books(p, f, s) /\ Returns(p, f, s, c)
  /\ c.wallet >= WalletHold(p, f, s)
  /\ c.sub + c.regiven + Returned(f, c) >= SubHold(p, f, s)
  /\ c.token >= TokenHold(p, f, s)

AcctOK == \A r \in Requests : Acct(pc[r], refundPc[r], ses[r], charged[r])

IInv == TypeOK /\ AcctOK

-----------------------------------------------------------------------------
(* Types *)

LedgerTypes ==
  /\ wallet \in Int /\ tokenQuota \in Int /\ subUsed \in Nat
  /\ charged \in [Requests -> Charges]
  /\ unsecured \in [wallet : Nat, token : Nat]

(* The ledgers after a step: r's entry is c, every other one is untouched *)
LedgerTo(r, c) ==
  /\ LedgerTypes'
  /\ charged'[r] = c
  /\ \A q \in Requests \ {r} : charged'[q] = charged[q]

(* Moving any amount keeps the ledgers well typed, and touches one entry. *)
LEMMA MoveWalletLemma ==
  ASSUME LedgerTypes, NEW r \in Requests, NEW d \in Int, NEW u \in Nat,
         MoveWallet(r, d, u)
  PROVE  LedgerTo(r, [charged[r] EXCEPT !.wallet = @ + d])
  BY DEF LedgerTypes, LedgerTo, Charges, MoveWallet

(* The same for the token *)
LEMMA MoveTokenLemma ==
  ASSUME LedgerTypes, NEW r \in Requests, NEW d \in Int, NEW u \in Nat,
         MoveToken(r, d, u)
  PROVE  LedgerTo(r, [charged[r] EXCEPT !.token = @ + d])
  BY DEF LedgerTypes, LedgerTo, Charges, MoveToken

(* What PostConsumeUserSubscriptionDelta makes of the used amount: a charge is    *)
(* applied in full, a refund at most in full (it is clamped at zero). *)
LEMMA SubAfterLemma ==
  ASSUME subUsed \in Nat, NEW d \in Int
  PROVE  /\ SubAfter(d) \in Nat
         /\ SubAfter(d) - subUsed >= d
         /\ d >= 0 => SubAfter(d) - subUsed = d
  BY DEF SubAfter

(* The same for the subscription *)
LEMMA MoveSubLemma ==
  ASSUME LedgerTypes, NEW r \in Requests, NEW d \in Int, MoveSub(r, d)
  PROVE  LedgerTo(r, [charged[r] EXCEPT !.sub = @ + SubAfter(d) - subUsed])
  <1>1. SubAfter(d) \in Nat
    BY SubAfterLemma DEF LedgerTypes
  <1> QED
    BY <1>1 DEF LedgerTypes, LedgerTo, Charges, MoveSub

(* The same for that refund, committed before its record is saved *)
LEMMA GiveBackLemma ==
  ASSUME LedgerTypes, NEW r \in Requests, NEW d \in Nat, GiveBackSub(r, d)
  PROVE  LedgerTo(r, GivenBack(charged[r], d)) /\ GivenBack(charged[r], d) \in Charges
  <1>0. -d \in Int /\ subUsed \in Nat /\ charged[r] \in Charges
    BY DEF LedgerTypes
  <1>1. SubAfter(-d) \in Nat /\ subUsed \in Nat /\ charged[r] \in Charges
    BY <1>0, SubAfterLemma
  <1> DEFINE c == charged[r]
             sub == c.sub + SubAfter(-d) - subUsed
             regiven == c.regiven + (IF c.given > 0 THEN d ELSE 0)
  <1>a. sub \in Int /\ regiven \in Nat /\ c \in Charges
    BY <1>1 DEF Charges
  <1>b. GivenBack(c, d) = [c EXCEPT !.sub = sub, !.given = d, !.regiven = regiven]
    BY DEF GivenBack
  <1> HIDE DEF sub, regiven
  <1>2. GivenBack(charged[r], d) \in Charges
    BY <1>a, <1>b DEF Charges
  <1>3. charged' = [charged EXCEPT ![r] = GivenBack(charged[r], d)]
    BY DEF GiveBackSub
  <1> QED
    BY <1>1, <1>2, <1>3 DEF LedgerTypes, LedgerTo, GiveBackSub

(* A step that leaves the ledgers alone *)
LEMMA LedgerSame ==
  ASSUME LedgerTypes, NEW r \in Requests, UNCHANGED ledgers
  PROVE  LedgerTo(r, charged[r])
  BY DEF LedgerTypes, LedgerTo, ledgers

(* What an unlimited token spends is a natural number. *)
LEMMA UncheckedTokenLemma ==
  ASSUME NEW d \in Nat PROVE UncheckedToken(d) \in Nat
  BY DEF UncheckedToken

(* A call to the database keeps the error count bounded. *)
LEMMA DbLemma ==
  ASSUME TypeOK, NEW r \in Requests, DbOk \/ DbError(r) \/ TryError(r)
  PROVE  dbErrors' \in [Requests -> 0..MaxDbErrors]
  BY BoundsAssumption DEF TypeOK, DbOk, DbError, TryError

(* Goto moves one request. *)
LEMMA GotoLemma ==
  ASSUME TypeOK, NEW r \in Requests, NEW p \in Steps, Goto(r, p)
  PROVE  /\ pc' \in [Requests -> Steps]
         /\ pc'[r] = p
         /\ \A q \in Requests \ {r} : pc'[q] = pc[q]
  BY DEF TypeOK, Goto

(* Only request r has moved, and its accounts are in order. *)
Frame(r) ==
  \A q \in Requests \ {r} :
    pc'[q] = pc[q] /\ refundPc'[q] = refundPc[q] /\ ses'[q] = ses[q] /\ charged'[q] = charged[q]

(* The invariant is local: a step of r keeps it if r ends in order. *)
LEMMA FrameLemma ==
  ASSUME IInv, NEW r \in Requests, Frame(r), TypeOK',
         Acct(pc'[r], refundPc'[r], ses'[r], charged'[r])
  PROVE  IInv'
  <1>1. ASSUME NEW q \in Requests PROVE Acct(pc'[q], refundPc'[q], ses'[q], charged'[q])
    <2>1. CASE q = r
      BY <2>1
    <2>2. CASE q # r
      <3>1. Acct(pc[q], refundPc[q], ses[q], charged[q])
        BY DEF IInv, AcctOK
      <3> QED
        BY <2>2, <3>1 DEF Frame
    <2> QED
      BY <2>1, <2>2
  <1> QED
    BY <1>1 DEF IInv, AcctOK

(* Everything the invariant says of one request *)
LEMMA RequestFacts ==
  ASSUME IInv, NEW r \in Requests
  PROVE  /\ TypeOK /\ LedgerTypes
         /\ ses[r] \in Session /\ charged[r] \in Charges /\ refundPc[r] \in RefundSteps
         /\ Acct(pc[r], refundPc[r], ses[r], charged[r])
  BY DEF IInv, AcctOK, TypeOK, LedgerTypes, Charges

SesTo(r, s) == ses' = [ses EXCEPT ![r] = s] \/ (UNCHANGED ses /\ s = ses[r])

(* A step of request r's goroutine that leaves it at p with session s and     *)
(* ledger entry c keeps the invariant if the new accounts are in order.       *)
LEMMA RequestMove ==
  ASSUME IInv, NEW r \in Requests, NEW p \in Steps, NEW s \in Session, NEW c \in Charges,
         Goto(r, p), SesTo(r, s), LedgerTo(r, c), DbOk \/ DbError(r),
         UNCHANGED <<subActive, refundPc>>, Acct(p, refundPc[r], s, c)
  PROVE  IInv'
  <1>1. TypeOK /\ ses \in [Requests -> Session]
    BY DEF IInv, TypeOK
  <1>2. /\ ses' \in [Requests -> Session] /\ ses'[r] = s
        /\ \A q \in Requests \ {r} : ses'[q] = ses[q]
    BY <1>1 DEF SesTo
  <1>3. TypeOK'
    BY <1>1, <1>2, DbLemma, GotoLemma DEF TypeOK, LedgerTo, LedgerTypes, Charges
  <1>4. Frame(r) /\ pc'[r] = p
    BY <1>1, <1>2, GotoLemma DEF Frame, LedgerTo
  <1> QED
    BY <1>2, <1>3, <1>4, FrameLemma DEF LedgerTo

(* The same for a step of the goroutine started by Refund *)
LEMMA RefundMove ==
  ASSUME IInv, NEW r \in Requests, NEW f \in RefundSteps, NEW c \in Charges,
         RefundGoto(r, f), LedgerTo(r, c), DbOk \/ DbError(r) \/ TryError(r),
         UNCHANGED <<subActive, pc, ses>>, Acct(pc[r], f, ses[r], c)
  PROVE  IInv'
  <1>1. TypeOK /\ refundPc \in [Requests -> RefundSteps]
    BY DEF IInv, TypeOK
  <1>2. /\ refundPc' \in [Requests -> RefundSteps] /\ refundPc'[r] = f
        /\ \A q \in Requests \ {r} : refundPc'[q] = refundPc[q]
    BY <1>1 DEF RefundGoto
  <1>3. TypeOK'
    BY <1>1, <1>2, DbLemma DEF TypeOK, LedgerTo, LedgerTypes, Charges
  <1>4. Frame(r)
    BY <1>2 DEF Frame, LedgerTo
  <1> QED
    BY <1>2, <1>3, <1>4, FrameLemma DEF LedgerTo

(* Holds are never negative. *)
LEMMA HoldLemma ==
  ASSUME NEW p, NEW f, NEW s \in Session, Books(p, f, s)
  PROVE  /\ WalletHold(p, f, s) \in Nat
         /\ SubHold(p, f, s) \in Nat
         /\ TokenHold(p, f, s) \in Nat
  BY DEF Books, WalletHold, SubHold, TokenHold, Session

(* Raising the funding reservation, or failing *)
LEMMA ReserveFundingStep ==
  ASSUME IInv, NEW r \in Requests, ReserveFunding(r) PROVE IInv'
  <1> DEFINE s == ses[r]
             c == charged[r]
             d == ReserveDelta(r)
  <1>1. /\ TypeOK /\ LedgerTypes /\ s \in Session /\ c \in Charges
        /\ refundPc[r] \in RefundSteps /\ Acct("reserveFunding", refundPc[r], s, c)
    BY RequestFacts DEF ReserveFunding, At
  <1>2. d \in Nat /\ -d \in Int /\ d > 0 /\ d = s.target - s.pre /\ s.live /\ refundPc[r] = "none"
    BY <1>1 DEF ReserveDelta, Acct, Books, Session
  <1>3. CASE /\ s.source = "wallet"
             /\ Goto(r, "reserveToken")
             /\ ses' = [ses EXCEPT ![r] = [s EXCEPT !.consumed = @ + d]]
             /\ MoveWallet(r, d, d)
             /\ DbOk
    <2> DEFINE e == [c EXCEPT !.wallet = @ + (d)]
               t == [s EXCEPT !.consumed = @ + d]
    <2>1. LedgerTo(r, e)
      BY <1>1, <1>2, <1>3, MoveWalletLemma
    <2>2. e \in Charges
      BY <1>1, <1>2, <1>3 DEF Charges, Session
    <2>3. t \in Session
      BY <1>1, <1>2, <1>3 DEF Session
    <2>4. Acct("reserveToken", refundPc[r], t, e)
      BY <1>1, <1>2, <1>3, <2>2
        DEF Acct, Returns, Returned, Tries, Books, WalletHold, SubHold, TokenHold, OpenSteps, OpeningSteps, Session,
            Charges, BySub
    <2> QED
      BY <1>1, <1>2, <1>3, <2>1, <2>2, <2>3, <2>4, RequestMove DEF ReserveFunding, SesTo, Steps
  <1>4. CASE /\ BySub(r)
             /\ Goto(r, "reserveToken")
             /\ UNCHANGED ses
             /\ MoveSub(r, d)
             /\ DbOk
    <2> DEFINE e == [c EXCEPT !.sub = @ + SubAfter(d) - subUsed]
    <2>0. d \in Int
      BY <1>2
    <2>1. LedgerTo(r, e)
      BY <1>1, <1>4, <2>0, MoveSubLemma
    <2>2. /\ e \in Charges /\ e.sub >= c.sub + (d)
          /\ (d) >= 0 => e.sub = c.sub + (d)
      BY <1>1, <1>2, <1>4, SubAfterLemma DEF LedgerTypes, Charges, Session
    <2>3. Acct("reserveToken", refundPc[r], s, e)
      BY <1>1, <1>2, <1>4, <2>2
        DEF Acct, Returns, Returned, Tries, Books, WalletHold, SubHold, TokenHold, OpenSteps, OpeningSteps, Session,
            Charges, BySub
    <2> QED
      BY <1>1, <1>2, <1>4, <2>1, <2>2, <2>3, RequestMove DEF ReserveFunding, SesTo, Steps
  <1>5. CASE /\ Goto(r, "failing")
             /\ ses' = [ses EXCEPT ![r] = [s EXCEPT !.outcome = "failed"]]
             /\ UNCHANGED ledgers
             /\ DbOk \/ DbError(r)
    <2> DEFINE t == [s EXCEPT !.outcome = "failed"]
    <2>1. LedgerTo(r, c)
      BY <1>1, <1>2, <1>5, LedgerSame
    <2>2. t \in Session
      BY <1>1, <1>2, <1>5 DEF Session, Outcomes
    <2>3. Acct("failing", refundPc[r], t, c)
      BY <1>1, <1>2, <1>5
        DEF Acct, Returns, Returned, Tries, Books, WalletHold, SubHold, TokenHold, OpenSteps, OpeningSteps, Session,
            Charges, BySub
    <2> QED
      BY <1>1, <1>2, <1>5, <2>1, <2>2, <2>3, RequestMove DEF ReserveFunding, SesTo, Steps
  <1> QED
    BY <1>1, <1>2, <1>3, <1>4, <1>5 DEF ReserveFunding, Fail

(* Reserving the token, with the bookkeeping of Reserve *)
LEMMA ReserveTokenStep ==
  ASSUME IInv, NEW r \in Requests, ReserveToken(r) PROVE IInv'
  <1> DEFINE s == ses[r]
             c == charged[r]
             d == ReserveDelta(r)
  <1>1. /\ TypeOK /\ LedgerTypes /\ s \in Session /\ c \in Charges
        /\ refundPc[r] \in RefundSteps /\ Acct("reserveToken", refundPc[r], s, c)
    BY RequestFacts DEF ReserveToken, At
  <1>2. d \in Nat /\ -d \in Int /\ d > 0 /\ d = s.target - s.pre /\ s.live /\ refundPc[r] = "none"
    BY <1>1 DEF ReserveDelta, Acct, Books, Session
  <1>3. CASE /\ Playground(r)
             /\ Goto(r, "dispatch")
             /\ ses' = [ses EXCEPT ![r] =
                    [s EXCEPT !.pre = s.pre + d, !.extra = s.extra + d, !.tokenConsumed = s.tokenConsumed + d]]
             /\ UNCHANGED ledgers
             /\ DbOk
    <2> DEFINE t == [s EXCEPT !.pre = s.pre + d, !.extra = s.extra + d, !.tokenConsumed = s.tokenConsumed + d]
    <2>1. LedgerTo(r, c)
      BY <1>1, <1>2, <1>3, LedgerSame
    <2>2. t \in Session
      <3>1. s.pre + d \in Nat /\ s.extra + d \in Nat /\ s.tokenConsumed + d \in Nat
        BY <1>1, <1>2 DEF Session
      <3> QED
        BY <1>1, <3>1 DEF Session
    <2>3. Acct("dispatch", refundPc[r], t, c)
      BY <1>1, <1>2, <1>3
        DEF Acct, Returns, Returned, Tries, Books, WalletHold, SubHold, TokenHold, OpenSteps, OpeningSteps, Session,
            Charges, Playground
    <2> QED
      BY <1>1, <1>2, <1>3, <2>1, <2>2, <2>3, RequestMove DEF ReserveToken, SesTo, Steps
  <1>4. CASE /\ ~Playground(r)
             /\ Goto(r, "dispatch")
             /\ ses' = [ses EXCEPT ![r] =
                    [s EXCEPT !.pre = s.pre + d, !.extra = s.extra + d, !.tokenConsumed = s.tokenConsumed + d]]
             /\ MoveToken(r, d, UncheckedToken(d))
             /\ DbOk
    <2> DEFINE e == [c EXCEPT !.token = @ + (d)]
               t == [s EXCEPT !.pre = s.pre + d, !.extra = s.extra + d, !.tokenConsumed = s.tokenConsumed + d]
    <2>1. LedgerTo(r, e)
      BY <1>1, <1>2, <1>4, MoveTokenLemma, UncheckedTokenLemma
    <2>2. e \in Charges
      BY <1>1, <1>2, <1>4 DEF Charges, Session
    <2>3. t \in Session
      <3>1. s.pre + d \in Nat /\ s.extra + d \in Nat /\ s.tokenConsumed + d \in Nat
        BY <1>1, <1>2 DEF Session
      <3> QED
        BY <1>1, <3>1 DEF Session
    <2>4. Acct("dispatch", refundPc[r], t, e)
      BY <1>1, <1>2, <1>4, <2>2
        DEF Acct, Returns, Returned, Tries, Books, WalletHold, SubHold, TokenHold, OpenSteps, OpeningSteps, Session,
            Charges, Playground
    <2> QED
      BY <1>1, <1>2, <1>4, <2>1, <2>2, <2>3, <2>4, RequestMove DEF ReserveToken, SesTo, Steps
  <1>5. CASE /\ Goto(r, "reserveRollback")
             /\ UNCHANGED ses
             /\ UNCHANGED ledgers
             /\ DbOk \/ DbError(r)
    <2>1. LedgerTo(r, c)
      BY <1>1, <1>2, <1>5, LedgerSame
    <2>2. Acct("reserveRollback", refundPc[r], s, c)
      BY <1>1, <1>2, <1>5
        DEF Acct, Returns, Returned, Tries, Books, WalletHold, SubHold, TokenHold, OpenSteps, OpeningSteps, Session,
            Charges, Playground
    <2> QED
      BY <1>1, <1>2, <1>5, <2>1, <2>2, RequestMove DEF ReserveToken, SesTo, Steps
  <1> QED
    BY <1>1, <1>2, <1>3, <1>4, <1>5 DEF ReserveToken

(* Giving the raised funding reservation back *)
LEMMA ReserveRollbackStep ==
  ASSUME IInv, NEW r \in Requests, ReserveRollback(r) PROVE IInv'
  <1> DEFINE s == ses[r]
             c == charged[r]
             d == ReserveDelta(r)
  <1>1. /\ TypeOK /\ LedgerTypes /\ s \in Session /\ c \in Charges
        /\ refundPc[r] \in RefundSteps /\ Acct("reserveRollback", refundPc[r], s, c)
    BY RequestFacts DEF ReserveRollback, At
  <1>2. d \in Nat /\ -d \in Int /\ d > 0 /\ d = s.target - s.pre /\ s.live /\ refundPc[r] = "none"
    BY <1>1 DEF ReserveDelta, Acct, Books, Session
  <1>3. CASE /\ s.source = "wallet"
             /\ Goto(r, "failing")
             /\ ses' = [ses EXCEPT ![r] =
                    [s EXCEPT !.consumed = s.consumed - d, !.outcome = "failed"]]
             /\ MoveWallet(r, -d, 0)
             /\ DbOk
    <2> DEFINE e == [c EXCEPT !.wallet = @ + (-d)]
               t == [s EXCEPT !.consumed = s.consumed - d, !.outcome = "failed"]
    <2>1. LedgerTo(r, e)
      BY <1>1, <1>2, <1>3, MoveWalletLemma
    <2>2. e \in Charges
      BY <1>1, <1>2, <1>3 DEF Charges, Session
    <2>3. t \in Session
      <3>1. s.consumed - d \in Nat
        BY <1>1, <1>2, <1>3 DEF Session, Acct, Books
      <3> QED
        BY <1>1, <3>1 DEF Session, Outcomes
    <2>4. Acct("failing", refundPc[r], t, e)
      BY <1>1, <1>2, <1>3, <2>2
        DEF Acct, Returns, Returned, Tries, Books, WalletHold, SubHold, TokenHold, OpenSteps, OpeningSteps, Session,
            Charges, BySub
    <2> QED
      BY <1>1, <1>2, <1>3, <2>1, <2>2, <2>3, <2>4, RequestMove
        DEF ReserveRollback, SesTo, Steps
  <1>4. CASE /\ BySub(r)
             /\ Goto(r, "failing")
             /\ ses' = [ses EXCEPT ![r] = [s EXCEPT !.outcome = "failed"]]
             /\ MoveSub(r, -d)
             /\ DbOk
    <2> DEFINE e == [c EXCEPT !.sub = @ + SubAfter(-d) - subUsed]
               t == [s EXCEPT !.outcome = "failed"]
    <2>1. LedgerTo(r, e)
      BY <1>1, <1>2, <1>4, MoveSubLemma
    <2>2. /\ e \in Charges /\ e.sub >= c.sub + (-d)
          /\ (-d) >= 0 => e.sub = c.sub + (-d)
      BY <1>1, <1>2, <1>4, SubAfterLemma DEF LedgerTypes, Charges, Session
    <2>3. t \in Session
      BY <1>1, <1>2, <1>4 DEF Session, Outcomes
    <2>4. Acct("failing", refundPc[r], t, e)
      BY <1>1, <1>2, <1>4, <2>2
        DEF Acct, Returns, Returned, Tries, Books, WalletHold, SubHold, TokenHold, OpenSteps, OpeningSteps, Session,
            Charges, BySub
    <2> QED
      BY <1>1, <1>2, <1>4, <2>1, <2>2, <2>3, <2>4, RequestMove
        DEF ReserveRollback, SesTo, Steps
  <1>5. CASE /\ Goto(r, "failing")
             /\ ses' = [ses EXCEPT ![r] = [s EXCEPT !.outcome = "failed"]]
             /\ UNCHANGED ledgers
             /\ DbError(r)
    <2> DEFINE t == [s EXCEPT !.outcome = "failed"]
    <2>1. LedgerTo(r, c)
      BY <1>1, <1>2, <1>5, LedgerSame
    <2>2. t \in Session
      BY <1>1, <1>2, <1>5 DEF Session, Outcomes
    <2>3. Acct("failing", refundPc[r], t, c)
      BY <1>1, <1>2, <1>5
        DEF Acct, Returns, Returned, Tries, Books, WalletHold, SubHold, TokenHold, OpenSteps, OpeningSteps, Session,
            Charges, BySub
    <2> QED
      BY <1>1, <1>2, <1>5, <2>1, <2>2, <2>3, RequestMove DEF ReserveRollback, SesTo, Steps
  <1> QED
    BY <1>1, <1>2, <1>3, <1>4, <1>5 DEF ReserveRollback

(* Settling the funding source *)
LEMMA SettleFundingStep ==
  ASSUME IInv, NEW r \in Requests, SettleFunding(r) PROVE IInv'
  <1> DEFINE s == ses[r]
             c == charged[r]
             d == SettleDelta(r)
  <1>1. /\ TypeOK /\ LedgerTypes /\ s \in Session /\ c \in Charges
        /\ refundPc[r] \in RefundSteps /\ Acct("settleFunding", refundPc[r], s, c)
    BY RequestFacts DEF SettleFunding, At
  <1>2. d \in Int /\ d = s.actual - s.pre /\ refundPc[r] = "none"
    BY <1>1 DEF SettleDelta, Acct, Books, Session
  <1>3. CASE /\ Goto(r, "done")
             /\ ses' = [ses EXCEPT ![r] = [s EXCEPT !.settled = @ \/ s.live]]
             /\ UNCHANGED ledgers
             /\ DbOk
    <2> DEFINE t == [s EXCEPT !.settled = @ \/ s.live]
    <2>1. LedgerTo(r, c)
      BY <1>1, <1>2, <1>3, LedgerSame
    <2>2. t \in Session
      BY <1>1, <1>2, <1>3 DEF Session
    <2>3. Acct("done", refundPc[r], t, c)
      BY <1>1, <1>2, <1>3
        DEF Acct, Returns, Returned, Tries, Books, WalletHold, SubHold, TokenHold, OpenSteps, OpeningSteps, Session,
            Charges, BySub
    <2> QED
      BY <1>1, <1>2, <1>3, <2>1, <2>2, <2>3, RequestMove DEF SettleFunding, SesTo, Steps
  <1>4. CASE /\ ~BySub(r)
             /\ Goto(r, "settleToken")
             /\ ses' = [ses EXCEPT ![r] = [s EXCEPT !.fundingSettled = s.live]]
             /\ MoveWallet(r, d, Positive(d))
             /\ DbOk
    <2> DEFINE e == [c EXCEPT !.wallet = @ + (d)]
               t == [s EXCEPT !.fundingSettled = s.live]
    <2>1. LedgerTo(r, e)
      BY <1>1, <1>2, <1>4, MoveWalletLemma DEF Positive
    <2>2. e \in Charges
      BY <1>1, <1>2, <1>4 DEF Charges, Session
    <2>3. t \in Session
      BY <1>1, <1>2, <1>4 DEF Session
    <2>4. c.wallet + d >= 0
      <3>1. CASE s.live
        <4>1. c.wallet >= s.consumed /\ s.consumed >= s.pre
          BY <1>1, <1>2, <1>4, <3>1
            DEF Acct, Returns, Returned, Tries, Books, WalletHold, OpenSteps, Session, Sources, BySub
        <4>2. c.wallet \in Int /\ s.consumed \in Nat /\ s.pre \in Nat /\ s.actual \in Nat
          BY <1>1 DEF Charges, Session
        <4> QED
          BY <1>2, <4>1, <4>2
      <3>2. CASE ~s.live
        <4>1. c.wallet >= 0 /\ s.pre = 0
          BY <1>1, <3>2 DEF Acct, Returns, Returned, Tries, Books, WalletHold
        <4>2. c.wallet \in Int /\ s.actual \in Nat
          BY <1>1 DEF Charges, Session
        <4> QED
          BY <1>2, <4>1, <4>2
      <3> QED
        BY <3>1, <3>2
    <2>5. Acct("settleToken", refundPc[r], t, e)
      BY <1>1, <1>2, <1>4, <2>2, <2>4
        DEF Acct, Returns, Returned, Tries, Books, WalletHold, SubHold, TokenHold, OpenSteps, OpeningSteps, Session,
            Charges, BySub
    <2> QED
      BY <1>1, <1>2, <1>4, <2>1, <2>2, <2>3, <2>5, RequestMove DEF SettleFunding, SesTo, Steps
  <1>5. CASE /\ BySub(r)
             /\ Goto(r, "settleToken")
             /\ ses' = [ses EXCEPT ![r] = [s EXCEPT !.fundingSettled = s.live]]
             /\ MoveSub(r, d)
             /\ DbOk
    <2> DEFINE e == [c EXCEPT !.sub = @ + SubAfter(d) - subUsed]
               t == [s EXCEPT !.fundingSettled = s.live]
    <2>1. LedgerTo(r, e)
      BY <1>1, <1>2, <1>5, MoveSubLemma
    <2>2. /\ e \in Charges /\ e.sub >= c.sub + (d)
          /\ (d) >= 0 => e.sub = c.sub + (d)
      BY <1>1, <1>2, <1>5, SubAfterLemma DEF LedgerTypes, Charges, Session
    <2>3. t \in Session
      BY <1>1, <1>2, <1>5 DEF Session
    <2>4. Acct("settleToken", refundPc[r], t, e)
      BY <1>1, <1>2, <1>5, <2>2
        DEF Acct, Returns, Returned, Tries, Books, WalletHold, SubHold, TokenHold, OpenSteps, OpeningSteps, Session,
            Charges, BySub
    <2> QED
      BY <1>1, <1>2, <1>5, <2>1, <2>2, <2>3, <2>4, RequestMove DEF SettleFunding, SesTo, Steps
  <1>6. CASE /\ Goto(r, "done")
             /\ UNCHANGED ses
             /\ UNCHANGED ledgers
             /\ DbOk \/ DbError(r)
    <2>1. LedgerTo(r, c)
      BY <1>1, <1>2, <1>6, LedgerSame
    <2>2. Acct("done", refundPc[r], s, c)
      BY <1>1, <1>2, <1>6
        DEF Acct, Returns, Returned, Tries, Books, WalletHold, SubHold, TokenHold, OpenSteps, OpeningSteps, Session,
            Charges, BySub
    <2> QED
      BY <1>1, <1>2, <1>6, <2>1, <2>2, RequestMove DEF SettleFunding, SesTo, Steps
  <1> QED
    BY <1>1, <1>2, <1>3, <1>4, <1>5, <1>6 DEF SettleFunding

(* Settling the token *)
LEMMA SettleTokenStep ==
  ASSUME IInv, NEW r \in Requests, SettleToken(r) PROVE IInv'
  <1> DEFINE s == ses[r]
             c == charged[r]
             d == SettleDelta(r)
  <1>1. /\ TypeOK /\ LedgerTypes /\ s \in Session /\ c \in Charges
        /\ refundPc[r] \in RefundSteps /\ Acct("settleToken", refundPc[r], s, c)
    BY RequestFacts DEF SettleToken, At
  <1>2. d \in Int /\ d = s.actual - s.pre /\ refundPc[r] = "none"
    BY <1>1 DEF SettleDelta, Acct, Books, Session
  <1>3. CASE /\ Goto(r, "done")
             /\ ses' = [ses EXCEPT ![r] = [s EXCEPT !.settled = s.live]]
             /\ UNCHANGED ledgers
             /\ DbOk \/ DbError(r)
    <2> DEFINE t == [s EXCEPT !.settled = s.live]
    <2>1. LedgerTo(r, c)
      BY <1>1, <1>2, <1>3, LedgerSame
    <2>2. t \in Session
      BY <1>1, <1>2, <1>3 DEF Session
    <2>3. Acct("done", refundPc[r], t, c)
      BY <1>1, <1>2, <1>3
        DEF Acct, Returns, Returned, Tries, Books, WalletHold, SubHold, TokenHold, OpenSteps, OpeningSteps, Session,
            Charges, Playground
    <2> QED
      BY <1>1, <1>2, <1>3, <2>1, <2>2, <2>3, RequestMove DEF SettleToken, SesTo, Steps
  <1>4. CASE /\ ~Playground(r)
             /\ Goto(r, "done")
             /\ ses' = [ses EXCEPT ![r] = [s EXCEPT !.settled = s.live]]
             /\ MoveToken(r, d, Positive(d))
             /\ DbOk
    <2> DEFINE e == [c EXCEPT !.token = @ + (d)]
               t == [s EXCEPT !.settled = s.live]
    <2>1. LedgerTo(r, e)
      BY <1>1, <1>2, <1>4, MoveTokenLemma DEF Positive
    <2>2. e \in Charges
      BY <1>1, <1>2, <1>4 DEF Charges, Session
    <2>3. t \in Session
      BY <1>1, <1>2, <1>4 DEF Session
    <2>4. Acct("done", refundPc[r], t, e)
      BY <1>1, <1>2, <1>4, <2>2
        DEF Acct, Returns, Returned, Tries, Books, WalletHold, SubHold, TokenHold, OpenSteps, OpeningSteps, Session,
            Charges, Playground
    <2> QED
      BY <1>1, <1>2, <1>4, <2>1, <2>2, <2>3, <2>4, RequestMove DEF SettleToken, SesTo, Steps
  <1> QED
    BY <1>1, <1>2, <1>3, <1>4 DEF SettleToken

(* Charging the violation fee *)
LEMMA ChargeFeeStep ==
  ASSUME IInv, NEW r \in Requests, ChargeFee(r) PROVE IInv'
  <1> DEFINE s == ses[r]
             c == charged[r]
  <1> USE LedgerAssumption
  <1>1. /\ TypeOK /\ LedgerTypes /\ s \in Session /\ c \in Charges
        /\ refundPc[r] \in RefundSteps /\ Acct("fee", refundPc[r], s, c)
    BY RequestFacts DEF ChargeFee, At
  <1>2. CASE /\ ~BySub(r)
             /\ Goto(r, "feeToken")
             /\ ses' = [ses EXCEPT ![r] = [s EXCEPT !.feePaid = TRUE]]
             /\ MoveWallet(r, Fee, Fee)
             /\ DbOk
    <2> DEFINE e == [c EXCEPT !.wallet = @ + (Fee)]
               t == [s EXCEPT !.feePaid = TRUE]
    <2>1. LedgerTo(r, e)
      BY <1>1, <1>2, MoveWalletLemma, LedgerAssumption DEF Session
    <2>2. e \in Charges
      BY <1>1, <1>2 DEF Charges, Session
    <2>3. t \in Session
      BY <1>1, <1>2 DEF Session
    <2>4. Acct("feeToken", refundPc[r], t, e)
      BY <1>1, <1>2, <2>2
        DEF Acct, Returns, Returned, Tries, Books, WalletHold, SubHold, TokenHold, OpenSteps, OpeningSteps, Session,
            Charges, BySub
    <2> QED
      BY <1>1, <1>2, <2>1, <2>2, <2>3, <2>4, RequestMove DEF ChargeFee, SesTo, Steps
  <1>3. CASE /\ BySub(r)
             /\ Goto(r, "feeToken")
             /\ ses' = [ses EXCEPT ![r] = [s EXCEPT !.feePaid = TRUE]]
             /\ MoveSub(r, Fee)
             /\ DbOk
    <2> DEFINE e == [c EXCEPT !.sub = @ + SubAfter(Fee) - subUsed]
               t == [s EXCEPT !.feePaid = TRUE]
    <2>1. LedgerTo(r, e)
      BY <1>1, <1>3, MoveSubLemma, LedgerAssumption DEF Session
    <2>2. /\ e \in Charges /\ e.sub >= c.sub + (Fee)
          /\ (Fee) >= 0 => e.sub = c.sub + (Fee)
      BY <1>1, <1>3, SubAfterLemma DEF LedgerTypes, Charges, Session
    <2>3. t \in Session
      BY <1>1, <1>3 DEF Session
    <2>4. Acct("feeToken", refundPc[r], t, e)
      <3>1. /\ e.wallet = c.wallet /\ e.token = c.token /\ e.given = c.given
            /\ e.regiven = c.regiven /\ e.sub >= c.sub /\ c.sub \in Int /\ e.sub \in Int
        BY <1>1, <2>2, LedgerAssumption DEF Charges
      <3>2. /\ Books("feeToken", refundPc[r], t) /\ Returns("feeToken", refundPc[r], t, e)
            /\ Returned(refundPc[r], e) = Returned(refundPc[r], c)
        BY <1>1, <3>1 DEF Acct, Returns, Returned, Tries, Books, OpeningSteps, Session
      <3>3. /\ WalletHold("feeToken", refundPc[r], t) = WalletHold("fee", refundPc[r], s)
            /\ SubHold("feeToken", refundPc[r], t) = SubHold("fee", refundPc[r], s)
            /\ TokenHold("feeToken", refundPc[r], t) = TokenHold("fee", refundPc[r], s)
        BY <1>1 DEF WalletHold, SubHold, TokenHold, OpenSteps, Session
      <3>4. SubHold("fee", refundPc[r], s) \in Nat /\ Returned(refundPc[r], c) \in Nat
        BY <1>1, HoldLemma DEF Acct, Returned, Charges
      <3> HIDE DEF e, t
      <3> QED
        BY <1>1, <3>1, <3>2, <3>3, <3>4 DEF Acct, Charges
    <2> QED
      BY <1>1, <1>3, <2>1, <2>2, <2>3, <2>4, RequestMove DEF ChargeFee, SesTo, Steps
  <1>4. CASE /\ Goto(r, "done")
             /\ UNCHANGED ses
             /\ UNCHANGED ledgers
             /\ DbOk \/ DbError(r)
    <2>1. LedgerTo(r, c)
      BY <1>1, <1>4, LedgerSame
    <2>2. Acct("done", refundPc[r], s, c)
      BY <1>1, <1>4
        DEF Acct, Returns, Returned, Tries, Books, WalletHold, SubHold, TokenHold, OpenSteps, OpeningSteps, Session,
            Charges, BySub
    <2> QED
      BY <1>1, <1>4, <2>1, <2>2, RequestMove DEF ChargeFee, SesTo, Steps
  <1> QED
    BY <1>1, <1>2, <1>3, <1>4 DEF ChargeFee

(* Charging the fee to the token *)
LEMMA ChargeFeeTokenStep ==
  ASSUME IInv, NEW r \in Requests, ChargeFeeToken(r) PROVE IInv'
  <1> DEFINE s == ses[r]
             c == charged[r]
  <1> USE LedgerAssumption
  <1>1. /\ TypeOK /\ LedgerTypes /\ s \in Session /\ c \in Charges
        /\ refundPc[r] \in RefundSteps /\ Acct("feeToken", refundPc[r], s, c)
    BY RequestFacts DEF ChargeFeeToken, At
  <1>2. CASE /\ Goto(r, "done")
             /\ UNCHANGED ses
             /\ UNCHANGED ledgers
             /\ DbOk \/ DbError(r)
    <2>1. LedgerTo(r, c)
      BY <1>1, <1>2, LedgerSame
    <2>2. Acct("done", refundPc[r], s, c)
      BY <1>1, <1>2
        DEF Acct, Returns, Returned, Tries, Books, WalletHold, SubHold, TokenHold, OpenSteps, OpeningSteps, Session,
            Charges, Playground
    <2> QED
      BY <1>1, <1>2, <2>1, <2>2, RequestMove DEF ChargeFeeToken, SesTo, Steps
  <1>3. CASE /\ ~Playground(r)
             /\ Goto(r, "done")
             /\ UNCHANGED ses
             /\ MoveToken(r, Fee, Fee)
             /\ DbOk
    <2> DEFINE e == [c EXCEPT !.token = @ + (Fee)]
    <2>1. LedgerTo(r, e)
      BY <1>1, <1>3, MoveTokenLemma, LedgerAssumption DEF Session
    <2>2. e \in Charges
      BY <1>1, <1>3 DEF Charges, Session
    <2>3. Acct("done", refundPc[r], s, e)
      BY <1>1, <1>3, <2>2
        DEF Acct, Returns, Returned, Tries, Books, WalletHold, SubHold, TokenHold, OpenSteps, OpeningSteps, Session,
            Charges, Playground
    <2> QED
      BY <1>1, <1>3, <2>1, <2>2, <2>3, RequestMove DEF ChargeFeeToken, SesTo, Steps
  <1> QED
    BY <1>1, <1>2, <1>3 DEF ChargeFeeToken

(* Refunding the funding source *)
LEMMA RefundFundingStep ==
  ASSUME IInv, NEW r \in Requests, RefundFunding(r) PROVE IInv'
  <1> DEFINE s == ses[r]
             c == charged[r]
             d == s.consumed
  <1>1. /\ TypeOK /\ LedgerTypes /\ s \in Session /\ c \in Charges /\ d \in Nat /\ -d \in Int
        /\ refundPc[r] \in Tries /\ Acct(pc[r], refundPc[r], s, c)
    BY RequestFacts DEF RefundFunding, Session
  <1>2. PICK f \in {"funding2", "funding3", "extra"} :
             /\ RefundGoto(r, f)
             /\ refundPc[r] = "funding" => f \in {"funding2", "extra"}
             /\ refundPc[r] = "funding2" => f \in {"funding3", "extra"}
             /\ refundPc[r] = "funding3" => f = "extra"
             /\ \/ f = "extra" /\ UNCHANGED ledgers
                \/ f = "extra" /\ ~BySub(r) /\ MoveWallet(r, -d, 0)
                \/ BySub(r) /\ UNCHANGED ledgers
                \/ BySub(r) /\ d > 0 /\ GiveBackSub(r, d)
    BY <1>1 DEF RefundFunding, NextTry, Tries
  <1>3. f \in RefundSteps /\ (DbOk \/ DbError(r) \/ TryError(r)) /\ UNCHANGED <<subActive, pc, ses>>
    BY DEF RefundFunding, RefundSteps, Tries
  <1>4. CASE UNCHANGED ledgers
    <2>1. LedgerTo(r, c)
      BY <1>1, <1>4, LedgerSame
    <2>2. Acct(pc[r], f, s, c)
      BY <1>1, <1>2
        DEF Acct, Returns, Returned, Tries, Books, WalletHold, SubHold, TokenHold, OpenSteps,
            OpeningSteps, Session, Charges, BySub
    <2> QED
      BY <1>1, <1>2, <1>3, <2>1, <2>2, RefundMove
  <1>5. CASE ~BySub(r) /\ f = "extra" /\ MoveWallet(r, -d, 0)
    <2> DEFINE e == [c EXCEPT !.wallet = @ + (-d)]
    <2>1. LedgerTo(r, e)
      BY <1>1, <1>5, MoveWalletLemma
    <2>2. e \in Charges
      BY <1>1 DEF Charges
    <2>3. Acct(pc[r], f, s, e)
      BY <1>1, <1>2, <1>5, <2>2
        DEF Acct, Returns, Returned, Tries, Books, WalletHold, SubHold, TokenHold, OpenSteps,
            OpeningSteps, Session, Charges, BySub
    <2> QED
      BY <1>1, <1>2, <1>3, <2>1, <2>2, <2>3, RefundMove
  <1>6. CASE BySub(r) /\ d > 0 /\ GiveBackSub(r, d)
    <2> DEFINE e == GivenBack(c, d)
    <2>1. LedgerTo(r, e) /\ e \in Charges
      BY <1>1, <1>6, GiveBackLemma
    <2>2. /\ e.sub >= c.sub - d /\ e.wallet = c.wallet /\ e.token = c.token /\ e.given = d
          /\ e.regiven = c.regiven + (IF c.given > 0 THEN d ELSE 0)
      BY <1>1, SubAfterLemma DEF GivenBack, LedgerTypes, Charges
    <2> HIDE DEF e
    <2>3. Acct(pc[r], f, s, e)
      BY <1>1, <1>2, <1>6, <2>1, <2>2
        DEF Acct, Returns, Returned, Tries, Books, WalletHold, SubHold, TokenHold, OpenSteps,
            OpeningSteps, Session, Charges, BySub
    <2> QED
      BY <1>1, <1>2, <1>3, <2>1, <2>3, RefundMove
  <1> QED
    BY <1>2, <1>4, <1>5, <1>6

(* Refunding what Reserve added to a subscription *)
LEMMA RefundExtraStep ==
  ASSUME IInv, NEW r \in Requests, RefundExtra(r) PROVE IInv'
  <1> DEFINE s == ses[r]
             c == charged[r]
  <1>1. /\ TypeOK /\ LedgerTypes /\ s \in Session /\ c \in Charges
        /\ refundPc[r] = "extra" /\ Acct(pc[r], "extra", s, c)
    BY RequestFacts DEF RefundExtra, At
  <1>2. s.consumed \in Nat /\ -s.consumed \in Int /\ -s.extra \in Int /\ -s.tokenConsumed \in Int /\ s.extra \in Nat /\ s.tokenConsumed \in Nat
    BY <1>1 DEF Session
  <1>3. CASE /\ RefundGoto(r, "token")
             /\ UNCHANGED ledgers
             /\ DbOk \/ DbError(r)
    <2>1. LedgerTo(r, c)
      BY <1>1, <1>2, <1>3, LedgerSame
    <2>2. Acct(pc[r], "token", s, c)
      BY <1>1, <1>2, <1>3
        DEF Acct, Returns, Returned, Tries, Books, WalletHold, SubHold, TokenHold, OpenSteps, OpeningSteps, Session,
            Charges, BySub
    <2> QED
      BY <1>1, <1>2, <1>3, <2>1, <2>2, RefundMove DEF RefundExtra, RefundSteps
  <1>4. CASE /\ BySub(r)
             /\ RefundGoto(r, "token")
             /\ MoveSub(r, -s.extra)
             /\ DbOk
    <2> DEFINE e == [c EXCEPT !.sub = @ + SubAfter(-s.extra) - subUsed]
    <2>1. LedgerTo(r, e)
      BY <1>1, <1>2, <1>4, MoveSubLemma
    <2>2. /\ e \in Charges /\ e.sub >= c.sub + (-s.extra)
          /\ (-s.extra) >= 0 => e.sub = c.sub + (-s.extra)
      BY <1>1, <1>2, <1>4, SubAfterLemma DEF LedgerTypes, Charges, Session
    <2>3. Acct(pc[r], "token", s, e)
      BY <1>1, <1>2, <1>4, <2>2
        DEF Acct, Returns, Returned, Tries, Books, WalletHold, SubHold, TokenHold, OpenSteps, OpeningSteps, Session,
            Charges, BySub
    <2> QED
      BY <1>1, <1>2, <1>4, <2>1, <2>2, <2>3, RefundMove DEF RefundExtra, RefundSteps
  <1> QED
    BY <1>1, <1>2, <1>3, <1>4 DEF RefundExtra

(* Refunding the token *)
LEMMA RefundTokenStep ==
  ASSUME IInv, NEW r \in Requests, RefundToken(r) PROVE IInv'
  <1> DEFINE s == ses[r]
             c == charged[r]
  <1>1. /\ TypeOK /\ LedgerTypes /\ s \in Session /\ c \in Charges
        /\ refundPc[r] = "token" /\ Acct(pc[r], "token", s, c)
    BY RequestFacts DEF RefundToken, At
  <1>2. s.consumed \in Nat /\ -s.consumed \in Int /\ -s.extra \in Int /\ -s.tokenConsumed \in Int /\ s.extra \in Nat /\ s.tokenConsumed \in Nat
    BY <1>1 DEF Session
  <1>3. CASE /\ RefundGoto(r, "done")
             /\ UNCHANGED ledgers
             /\ DbOk \/ DbError(r)
    <2>1. LedgerTo(r, c)
      BY <1>1, <1>2, <1>3, LedgerSame
    <2>2. Acct(pc[r], "done", s, c)
      BY <1>1, <1>2, <1>3
        DEF Acct, Returns, Returned, Tries, Books, WalletHold, SubHold, TokenHold, OpenSteps, OpeningSteps, Session,
            Charges, Playground
    <2> QED
      BY <1>1, <1>2, <1>3, <2>1, <2>2, RefundMove DEF RefundToken, RefundSteps
  <1>4. CASE /\ ~Playground(r)
             /\ RefundGoto(r, "done")
             /\ MoveToken(r, -s.tokenConsumed, 0)
             /\ DbOk
    <2> DEFINE e == [c EXCEPT !.token = @ + (-s.tokenConsumed)]
    <2>1. LedgerTo(r, e)
      BY <1>1, <1>2, <1>4, MoveTokenLemma, UncheckedTokenLemma
    <2>2. e \in Charges
      BY <1>1, <1>2, <1>4 DEF Charges, Session
    <2>3. Acct(pc[r], "done", s, e)
      BY <1>1, <1>2, <1>4, <2>2
        DEF Acct, Returns, Returned, Tries, Books, WalletHold, SubHold, TokenHold, OpenSteps, OpeningSteps, Session,
            Charges, Playground
    <2> QED
      BY <1>1, <1>2, <1>4, <2>1, <2>2, <2>3, RefundMove DEF RefundToken, RefundSteps
  <1> QED
    BY <1>1, <1>2, <1>3, <1>4 DEF RefundToken

(* Rejecting a request that has no session keeps the invariant. *)
LEMMA RejectLemma ==
  ASSUME IInv, NEW r \in Requests, pc[r] \in OpeningSteps, Reject(r),
         DbOk \/ DbError(r), UNCHANGED <<subActive, refundPc, ledgers>>
  PROVE  IInv'
  <1> DEFINE s == ses[r]
             t == [s EXCEPT !.source = "none", !.tokenConsumed = 0, !.outcome = "rejected"]
  <1>1. /\ TypeOK /\ LedgerTypes /\ s \in Session /\ charged[r] \in Charges
        /\ refundPc[r] \in RefundSteps /\ Acct(pc[r], refundPc[r], s, charged[r])
    BY RequestFacts
  <1>2. LedgerTo(r, charged[r])
    BY <1>1, LedgerSame
  <1>3. t \in Session
    BY <1>1 DEF Session, Outcomes, Sources
  <1>4. Acct("done", refundPc[r], t, charged[r])
    BY <1>1
      DEF Acct, Returns, Returned, Tries, Books, WalletHold, SubHold, TokenHold, OpenSteps, OpeningSteps, Session,
          Charges
  <1> QED
    BY <1>1, <1>2, <1>3, <1>4, RequestMove DEF Reject, SesTo, Steps

(* So does another attempt of RelayTask, the token being given back or not. *)
LEMMA RetryLemma ==
  ASSUME IInv, NEW r \in Requests, pc[r] \in OpeningSteps, RetryTask(r),
         DbOk \/ DbError(r), UNCHANGED <<subActive, refundPc>>,
         NEW c \in Charges, LedgerTo(r, c), c = [charged[r] EXCEPT !.token = c.token], c.token >= 0
  PROVE  IInv'
  <1> DEFINE s == ses[r]
             t == [s EXCEPT !.source = "none", !.tokenConsumed = 0, !.fallback = "none",
                            !.insufficient = FALSE]
  <1>1. /\ s \in Session /\ charged[r] \in Charges
        /\ refundPc[r] \in RefundSteps /\ Acct(pc[r], refundPc[r], s, charged[r])
    BY RequestFacts
  <1>2. t \in Session
    BY <1>1 DEF Session, Sources
  <1>3. /\ c.wallet = charged[r].wallet /\ c.sub = charged[r].sub
        /\ c.given = charged[r].given /\ c.regiven = charged[r].regiven
    BY <1>1 DEF Charges
  <1>4. Acct("attempt", refundPc[r], t, c)
    BY <1>1, <1>3
      DEF Acct, Returns, Returned, Tries, Books, WalletHold, SubHold, TokenHold, OpenSteps,
          OpeningSteps, Session, Charges
  <1> QED
    BY <1>2, <1>4, RequestMove DEF RetryTask, SesTo, Steps

(* The same when the ledgers are left alone *)
LEMMA RetryUntouched ==
  ASSUME IInv, NEW r \in Requests, pc[r] \in OpeningSteps, RetryTask(r),
         DbOk \/ DbError(r), UNCHANGED <<subActive, refundPc, ledgers>>
  PROVE  IInv'
  <1>1. /\ LedgerTypes /\ ses[r] \in Session /\ charged[r] \in Charges
        /\ Acct(pc[r], refundPc[r], ses[r], charged[r])
    BY RequestFacts
  <1>2. LedgerTo(r, charged[r])
    BY <1>1, LedgerSame
  <1>3. charged[r].token >= 0
    BY <1>1, HoldLemma DEF Acct, Charges
  <1>4. charged[r] = [charged[r] EXCEPT !.token = charged[r].token]
    BY <1>1 DEF Charges
  <1> QED
    BY <1>1, <1>2, <1>3, <1>4, RetryLemma DEF RetryTask

(* Pre-consuming the token *)
LEMMA PreConsumeTokenStep ==
  ASSUME IInv, NEW r \in Requests, PreConsumeToken(r) PROVE IInv'
  <1> DEFINE s == ses[r]
             c == charged[r]
             a == Amount(r)
  <1>1. /\ TypeOK /\ LedgerTypes /\ s \in Session /\ c \in Charges
        /\ refundPc[r] \in RefundSteps /\ Acct("preToken", refundPc[r], s, c)
    BY RequestFacts DEF PreConsumeToken, At
  <1>2. a \in Nat /\ a = (IF s.source = "subscription" /\ s.quota = 0 THEN 1 ELSE s.quota) /\ refundPc[r] = "none" /\ ~s.live
    BY <1>1 DEF Amount, BySub, Acct, Books, OpeningSteps, Session
  <1>3. CASE /\ Playground(r)
             /\ Goto(r, "preFunding")
             /\ ses' = [ses EXCEPT ![r] = [s EXCEPT !.tokenConsumed = a]]
             /\ UNCHANGED ledgers
             /\ DbOk
    <2> DEFINE t == [s EXCEPT !.tokenConsumed = a]
    <2>1. LedgerTo(r, c)
      BY <1>1, <1>2, <1>3, LedgerSame
    <2>2. t \in Session
      BY <1>1, <1>2, <1>3 DEF Session
    <2>3. Acct("preFunding", refundPc[r], t, c)
      BY <1>1, <1>2, <1>3
        DEF Acct, Returns, Returned, Tries, Books, WalletHold, SubHold, TokenHold, OpenSteps, OpeningSteps, Session,
            Charges, Playground
    <2> QED
      BY <1>1, <1>2, <1>3, <2>1, <2>2, <2>3, RequestMove DEF PreConsumeToken, SesTo, Steps
  <1>4. CASE /\ ~Playground(r)
             /\ Goto(r, "preFunding")
             /\ ses' = [ses EXCEPT ![r] = [s EXCEPT !.tokenConsumed = a]]
             /\ MoveToken(r, a, UncheckedToken(a))
             /\ DbOk
    <2> DEFINE e == [c EXCEPT !.token = @ + (a)]
               t == [s EXCEPT !.tokenConsumed = a]
    <2>1. LedgerTo(r, e)
      BY <1>1, <1>2, <1>4, MoveTokenLemma, UncheckedTokenLemma
    <2>2. e \in Charges
      BY <1>1, <1>2, <1>4 DEF Charges, Session
    <2>3. t \in Session
      BY <1>1, <1>2, <1>4 DEF Session
    <2>4. Acct("preFunding", refundPc[r], t, e)
      BY <1>1, <1>2, <1>4, <2>2
        DEF Acct, Returns, Returned, Tries, Books, WalletHold, SubHold, TokenHold, OpenSteps, OpeningSteps, Session,
            Charges, Playground
    <2> QED
      BY <1>1, <1>2, <1>4, <2>1, <2>2, <2>3, <2>4, RequestMove
        DEF PreConsumeToken, SesTo, Steps
  <1>5. CASE /\ Goto(r, "done")
             /\ ses' = [ses EXCEPT ![r] =
                    [s EXCEPT !.source = "none", !.tokenConsumed = 0, !.outcome = "rejected"]]
             /\ UNCHANGED ledgers
             /\ DbOk \/ DbError(r)
    <2> DEFINE t == [s EXCEPT !.source = "none", !.tokenConsumed = 0, !.outcome = "rejected"]
    <2>1. LedgerTo(r, c)
      BY <1>1, <1>2, <1>5, LedgerSame
    <2>2. t \in Session
      BY <1>1, <1>2, <1>5 DEF Session, Outcomes, Sources
    <2>3. Acct("done", refundPc[r], t, c)
      BY <1>1, <1>2, <1>5
        DEF Acct, Returns, Returned, Tries, Books, WalletHold, SubHold, TokenHold, OpenSteps, OpeningSteps, Session,
            Charges, Playground
    <2> QED
      BY <1>1, <1>2, <1>5, <2>1, <2>2, <2>3, RequestMove DEF PreConsumeToken, SesTo, Steps
  <1>6. CASE RetryTask(r) /\ UNCHANGED ledgers
    BY <1>6, RetryUntouched DEF PreConsumeToken, At, OpeningSteps
  <1> QED
    BY <1>1, <1>2, <1>3, <1>4, <1>5, <1>6 DEF PreConsumeToken, NotOpened, Reject

(* Trying a funding source keeps the invariant. *)
LEMMA TryLemma ==
  ASSUME IInv, NEW r \in Requests, pc[r] \in {"choose", "fallback"},
         NEW src \in {"wallet", "subscription"}, NEW fb \in Sources, Try(r, src, fb),
         DbOk \/ DbError(r), UNCHANGED <<subActive, refundPc, ledgers>>
  PROVE  IInv'
  <1> DEFINE s == ses[r]
             t == [s EXCEPT !.source = src, !.fallback = fb, !.tokenConsumed = 0]
             p == IF src = "wallet" THEN "tryWallet" ELSE "preToken"
  <1>1. /\ TypeOK /\ LedgerTypes /\ s \in Session /\ charged[r] \in Charges
        /\ refundPc[r] \in RefundSteps /\ Acct(pc[r], refundPc[r], s, charged[r])
    BY RequestFacts
  <1>2. LedgerTo(r, charged[r])
    BY <1>1, LedgerSame
  <1>3. t \in Session
    BY <1>1 DEF Session, Sources
  <1>4. Acct(p, refundPc[r], t, charged[r])
    BY <1>1
      DEF Acct, Returns, Returned, Tries, Books, WalletHold, SubHold, TokenHold, OpenSteps, OpeningSteps, Session,
          Charges
  <1>5. p \in Steps
    BY DEF Steps
  <1> QED
    BY <1>1, <1>2, <1>3, <1>4, <1>5, RequestMove DEF Try, SesTo

(* Choosing the first funding source *)
LEMMA ChooseStep ==
  ASSUME IInv, NEW r \in Requests, Choose(r) PROVE IInv'
  <1>1. pc[r] \in {"choose", "fallback"} /\ pc[r] \in OpeningSteps
    BY DEF Choose, At, OpeningSteps
  <1>2. CASE DbError(r) /\ NotOpened(r)
    BY <1>1, <1>2, RejectLemma, RetryUntouched DEF Choose, NotOpened
  <1>3. CASE DbOk /\ Try(r, "subscription", "none")
    BY <1>1, <1>3, TryLemma DEF Choose, Sources
  <1>4. CASE DbOk /\ Try(r, "subscription", "wallet")
    BY <1>1, <1>4, TryLemma DEF Choose, Sources
  <1>5. CASE DbOk /\ Try(r, "wallet", "none")
    BY <1>1, <1>5, TryLemma DEF Choose, Sources
  <1>6. CASE DbOk /\ Try(r, "wallet", "subscription")
    BY <1>1, <1>6, TryLemma DEF Choose, Sources
  <1>7. ses[r].profile.pref \in Prefs
    BY ProfilesAssumption, RequestFacts DEF Session
  <1> QED
    BY <1>2, <1>3, <1>4, <1>5, <1>6, <1>7 DEF Choose, Prefs

(* Falling back to the second one *)
LEMMA FallBackStep ==
  ASSUME IInv, NEW r \in Requests, FallBack(r) PROVE IInv'
  <1>1. pc[r] \in {"choose", "fallback"} /\ pc[r] \in OpeningSteps
    BY DEF FallBack, At, OpeningSteps
  <1>2. CASE (DbOk \/ DbError(r)) /\ NotOpened(r)
    BY <1>1, <1>2, RejectLemma, RetryUntouched DEF FallBack, NotOpened
  <1>3. CASE DbOk /\ Try(r, "subscription", "none")
    BY <1>1, <1>3, TryLemma DEF FallBack, Sources
  <1>4. CASE DbOk /\ Try(r, "wallet", "none")
    BY <1>1, <1>4, TryLemma DEF FallBack, Sources
  <1> QED
    BY <1>2, <1>3, <1>4 DEF FallBack

(* A session without reservation is opened, another source is tried, or the   *)
(* token is pre-consumed next.                                                *)
LEMMA TryWalletStep ==
  ASSUME IInv, NEW r \in Requests, TryWallet(r) PROVE IInv'
  <1> DEFINE s == ses[r]
             c == charged[r]
             t == [s EXCEPT !.trusted = ShouldTrust(r, wallet), !.live = TRUE]
             p == IF s.attempt = 0 THEN "attempt" ELSE "dispatch"
  <1>1. /\ TypeOK /\ LedgerTypes /\ s \in Session /\ c \in Charges
        /\ refundPc[r] \in RefundSteps /\ Acct("tryWallet", refundPc[r], s, c)
        /\ pc[r] = "tryWallet" /\ p \in Steps
    BY RequestFacts DEF TryWallet, At, Steps
  <1>2. LedgerTo(r, c)
    BY <1>1, LedgerSame DEF TryWallet
  <1>3. CASE DbError(r) /\ NotOpened(r)
    BY <1>1, <1>3, RejectLemma, RetryUntouched DEF TryWallet, NotOpened, OpeningSteps
  <1>4. CASE DbOk /\ UNCHANGED ses /\ Goto(r, "fallback")
    <2>1. Acct("fallback", refundPc[r], s, c)
      BY <1>1
        DEF Acct, Returns, Returned, Tries, Books, WalletHold, SubHold, TokenHold, OpenSteps, OpeningSteps, Session,
            Charges
    <2> QED
      BY <1>1, <1>2, <1>4, <2>1, RequestMove DEF TryWallet, SesTo, Steps
  <1>5. CASE DbOk /\ UNCHANGED ses /\ Goto(r, "preToken")
    <2>1. Acct("preToken", refundPc[r], s, c)
      BY <1>1
        DEF Acct, Returns, Returned, Tries, Books, WalletHold, SubHold, TokenHold, OpenSteps, OpeningSteps, Session,
            Charges
    <2> QED
      BY <1>1, <1>2, <1>5, <2>1, RequestMove DEF TryWallet, SesTo, Steps
  <1>6. CASE DbOk /\ Opened(r, [s EXCEPT !.trusted = ShouldTrust(r, wallet)])
    <2>1. ses' = [ses EXCEPT ![r] = t] /\ Goto(r, p)
      BY <1>1, <1>6 DEF Opened, Session
    <2>2. t \in Session
      BY <1>1 DEF Session, ShouldTrust
    <2>3. Acct(p, refundPc[r], t, c)
      BY <1>1
        DEF Acct, Returns, Returned, Tries, Books, WalletHold, SubHold, TokenHold, OpenSteps, OpeningSteps, Session,
            Charges
    <2> QED
      BY <1>1, <1>2, <1>6, <2>1, <2>2, <2>3, RequestMove DEF TryWallet, SesTo
  <1> QED
    BY <1>3, <1>4, <1>5, <1>6 DEF TryWallet

(* The funding source pays and the session opens, or the token goes back. *)
LEMMA PreConsumeFundingStep ==
  ASSUME IInv, NEW r \in Requests, PreConsumeFunding(r) PROVE IInv'
  <1> DEFINE s == ses[r]
             c == charged[r]
             a == Amount(r)
             t == [s EXCEPT !.pre = a, !.consumed = a, !.live = TRUE]
             p == IF s.attempt = 0 THEN "attempt" ELSE "dispatch"
  <1>1. /\ TypeOK /\ LedgerTypes /\ s \in Session /\ c \in Charges
        /\ refundPc[r] \in RefundSteps /\ Acct("preFunding", refundPc[r], s, c)
        /\ p \in Steps
    BY RequestFacts DEF PreConsumeFunding, At, Steps
  <1>2. /\ a \in Nat /\ a = s.tokenConsumed /\ ~s.live /\ refundPc[r] = "none"
        /\ s.source \in {"wallet", "subscription"}
    BY <1>1 DEF Amount, BySub, Acct, Books, OpeningSteps, Session, Sources
  <1>3. t \in Session
    BY <1>1, <1>2 DEF Session
  <1>4. CASE DbOk /\ Opened(r, [s EXCEPT !.pre = a, !.consumed = a]) /\ BySub(r) /\ MoveSub(r, a)
    <2> DEFINE e == [c EXCEPT !.sub = @ + SubAfter(a) - subUsed]
    <2>1. ses' = [ses EXCEPT ![r] = t] /\ Goto(r, p)
      BY <1>1, <1>4 DEF Opened, Session
    <2>0. a \in Int
      BY <1>2
    <2>2. LedgerTo(r, e)
      BY <1>1, <1>4, <2>0, MoveSubLemma
    <2>3. e \in Charges /\ e.sub = c.sub + a
      BY <1>1, <1>2, SubAfterLemma DEF LedgerTypes, Charges
    <2>4. Acct(p, refundPc[r], t, e)
      BY <1>1, <1>2, <1>4, <2>3
        DEF Acct, Returns, Returned, Tries, Books, WalletHold, SubHold, TokenHold, OpenSteps, OpeningSteps, Session,
            Charges, BySub
    <2> QED
      BY <1>1, <1>3, <1>4, <2>1, <2>2, <2>3, <2>4, RequestMove DEF PreConsumeFunding, SesTo
  <1>5. CASE DbOk /\ Opened(r, [s EXCEPT !.pre = a, !.consumed = a]) /\ ~BySub(r) /\ MoveWallet(r, a, 0)
    <2> DEFINE e == [c EXCEPT !.wallet = @ + a]
    <2>1. ses' = [ses EXCEPT ![r] = t] /\ Goto(r, p)
      BY <1>1, <1>5 DEF Opened, Session
    <2>2. LedgerTo(r, e)
      BY <1>1, <1>2, <1>5, MoveWalletLemma
    <2>3. e \in Charges
      BY <1>1, <1>2 DEF Charges
    <2>4. Acct(p, refundPc[r], t, e)
      BY <1>1, <1>2, <1>5, <2>3
        DEF Acct, Returns, Returned, Tries, Books, WalletHold, SubHold, TokenHold, OpenSteps, OpeningSteps, Session,
            Charges, BySub
    <2> QED
      BY <1>1, <1>3, <1>5, <2>1, <2>2, <2>3, <2>4, RequestMove DEF PreConsumeFunding, SesTo
  <1>6. CASE /\ DbOk \/ DbError(r)
             /\ ses' = [ses EXCEPT ![r].insufficient = (dbErrors' = dbErrors)]
             /\ Goto(r, "preRollback")
             /\ UNCHANGED ledgers
    <2> DEFINE u == [s EXCEPT !.insufficient = (dbErrors' = dbErrors)]
    <2>1. LedgerTo(r, c)
      BY <1>1, <1>6, LedgerSame
    <2>2. u \in Session
      BY <1>1 DEF Session
    <2>3. Acct("preRollback", refundPc[r], u, c)
      BY <1>1, <1>2
        DEF Acct, Returns, Returned, Tries, Books, WalletHold, SubHold, TokenHold, OpenSteps, OpeningSteps, Session,
            Charges
    <2> QED
      BY <1>1, <1>6, <2>1, <2>2, <2>3, RequestMove DEF PreConsumeFunding, SesTo, Steps
  <1> QED
    BY <1>4, <1>5, <1>6 DEF PreConsumeFunding

(* Rolling the token back *)
LEMMA PreConsumeRollbackStep ==
  ASSUME IInv, NEW r \in Requests, PreConsumeRollback(r) PROVE IInv'
  <1> DEFINE s == ses[r]
             c == charged[r]
  <1>1. /\ TypeOK /\ LedgerTypes /\ s \in Session /\ c \in Charges
        /\ refundPc[r] \in RefundSteps /\ Acct("preRollback", refundPc[r], s, c)
    BY RequestFacts DEF PreConsumeRollback, At
  <1>2. s.consumed \in Nat /\ -s.consumed \in Int /\ -s.extra \in Int /\ -s.tokenConsumed \in Int /\ s.extra \in Nat /\ s.tokenConsumed \in Nat
    BY <1>1 DEF Session
  <1>3. CASE /\ s.tokenConsumed > 0
             /\ ~Playground(r)
             /\ s.insufficient
             /\ Goto(r, "fallback")
             /\ ses' = [ses EXCEPT ![r] = [s EXCEPT !.tokenConsumed = 0]]
             /\ MoveToken(r, -s.tokenConsumed, 0)
             /\ DbOk
    <2> DEFINE e == [c EXCEPT !.token = @ + (-s.tokenConsumed)]
               t == [s EXCEPT !.tokenConsumed = 0]
    <2>1. LedgerTo(r, e)
      BY <1>1, <1>2, <1>3, MoveTokenLemma, UncheckedTokenLemma
    <2>2. e \in Charges
      BY <1>1, <1>2, <1>3 DEF Charges, Session
    <2>3. t \in Session
      BY <1>1, <1>2, <1>3 DEF Session
    <2>4. Acct("fallback", refundPc[r], t, e)
      BY <1>1, <1>2, <1>3, <2>2
        DEF Acct, Returns, Returned, Tries, Books, WalletHold, SubHold, TokenHold, OpenSteps, OpeningSteps, Session,
            Charges, Playground
    <2> QED
      BY <1>1, <1>2, <1>3, <2>1, <2>2, <2>3, <2>4, RequestMove
        DEF PreConsumeRollback, SesTo, Steps
  <1>4. CASE /\ s.tokenConsumed > 0
             /\ ~Playground(r)
             /\ ~s.insufficient
             /\ Goto(r, "done")
             /\ ses' = [ses EXCEPT ![r] =
                    [s EXCEPT !.source = "none", !.tokenConsumed = 0, !.outcome = "rejected"]]
             /\ MoveToken(r, -s.tokenConsumed, 0)
             /\ DbOk
    <2> DEFINE e == [c EXCEPT !.token = @ + (-s.tokenConsumed)]
               t == [s EXCEPT !.source = "none", !.tokenConsumed = 0, !.outcome = "rejected"]
    <2>1. LedgerTo(r, e)
      BY <1>1, <1>2, <1>4, MoveTokenLemma, UncheckedTokenLemma
    <2>2. e \in Charges
      BY <1>1, <1>2, <1>4 DEF Charges, Session
    <2>3. t \in Session
      BY <1>1, <1>2, <1>4 DEF Session, Outcomes, Sources
    <2>4. Acct("done", refundPc[r], t, e)
      BY <1>1, <1>2, <1>4, <2>2
        DEF Acct, Returns, Returned, Tries, Books, WalletHold, SubHold, TokenHold, OpenSteps, OpeningSteps, Session,
            Charges, Playground
    <2> QED
      BY <1>1, <1>2, <1>4, <2>1, <2>2, <2>3, <2>4, RequestMove
        DEF PreConsumeRollback, SesTo, Steps
  <1>5. CASE /\ Goto(r, "fallback")
             /\ ses' = [ses EXCEPT ![r] = [s EXCEPT !.tokenConsumed = 0]]
             /\ UNCHANGED ledgers
             /\ DbOk \/ DbError(r)
    <2> DEFINE t == [s EXCEPT !.tokenConsumed = 0]
    <2>1. LedgerTo(r, c)
      BY <1>1, <1>2, <1>5, LedgerSame
    <2>2. t \in Session
      BY <1>1, <1>2, <1>5 DEF Session
    <2>3. Acct("fallback", refundPc[r], t, c)
      BY <1>1, <1>2, <1>5
        DEF Acct, Returns, Returned, Tries, Books, WalletHold, SubHold, TokenHold, OpenSteps, OpeningSteps, Session,
            Charges, Playground
    <2> QED
      BY <1>1, <1>2, <1>5, <2>1, <2>2, <2>3, RequestMove DEF PreConsumeRollback, SesTo, Steps
  <1>6. CASE /\ Goto(r, "done")
             /\ ses' = [ses EXCEPT ![r] =
                    [s EXCEPT !.source = "none", !.tokenConsumed = 0, !.outcome = "rejected"]]
             /\ UNCHANGED ledgers
             /\ DbOk \/ DbError(r)
    <2> DEFINE t == [s EXCEPT !.source = "none", !.tokenConsumed = 0, !.outcome = "rejected"]
    <2>1. LedgerTo(r, c)
      BY <1>1, <1>2, <1>6, LedgerSame
    <2>2. t \in Session
      BY <1>1, <1>2, <1>6 DEF Session, Outcomes, Sources
    <2>3. Acct("done", refundPc[r], t, c)
      BY <1>1, <1>2, <1>6
        DEF Acct, Returns, Returned, Tries, Books, WalletHold, SubHold, TokenHold, OpenSteps, OpeningSteps, Session,
            Charges, Playground
    <2> QED
      BY <1>1, <1>2, <1>6, <2>1, <2>2, <2>3, RequestMove DEF PreConsumeRollback, SesTo, Steps
  <1>7. CASE /\ s.tokenConsumed > 0 /\ ~Playground(r) /\ RetryTask(r)
             /\ MoveToken(r, -s.tokenConsumed, 0) /\ DbOk
    <2> DEFINE e == [c EXCEPT !.token = @ + (-s.tokenConsumed)]
    <2>1. LedgerTo(r, e)
      BY <1>1, <1>2, <1>7, MoveTokenLemma
    <2>2. e \in Charges /\ e = [c EXCEPT !.token = e.token] /\ e.token = c.token - s.tokenConsumed
      BY <1>1, <1>2 DEF Charges
    <2>3. c.token >= s.tokenConsumed /\ c.token \in Int
      BY <1>1, <1>7 DEF Acct, Books, TokenHold, OpeningSteps, Playground, Charges
    <2>4. e.token >= 0
      BY <1>2, <2>2, <2>3
    <2> HIDE DEF e
    <2> QED
      BY <1>7, <2>1, <2>2, <2>4, RetryLemma DEF PreConsumeRollback, At, OpeningSteps
  <1>8. CASE RetryTask(r) /\ UNCHANGED ledgers /\ (DbOk \/ DbError(r))
    BY <1>8, RetryUntouched DEF PreConsumeRollback, At, OpeningSteps
  <1> QED
    BY <1>1, <1>2, <1>3, <1>4, <1>5, <1>6, <1>7, <1>8 DEF PreConsumeRollback, NotOpened, Reject

(* A request arrives. *)
LEMMA StartStep ==
  ASSUME IInv, NEW r \in Requests, Start(r) PROVE IInv'
  <1> DEFINE c == charged[r]
  <1>1. /\ TypeOK /\ LedgerTypes /\ c \in Charges
        /\ refundPc[r] \in RefundSteps /\ Acct("idle", refundPc[r], ses[r], c)
    BY RequestFacts DEF Start, At
  <1>2. PICK p \in Profiles, q \in PreQuotas, first \in {"choose", "attempt"} :
          /\ ses' = [ses EXCEPT ![r] = [NoSession EXCEPT
                       !.profile = p, !.quota = q, !.tokenSeen = tokenQuota]]
          /\ Goto(r, first)
    BY DEF Start
  <1> DEFINE t == [NoSession EXCEPT !.profile = p, !.quota = q, !.tokenSeen = tokenQuota]
  <1>3. t \in Session
    BY <1>1, QuotasAssumption DEF NoSession, Session, Sources, Outcomes, LedgerTypes
  <1>4. refundPc[r] = "none" /\ c.wallet >= 0 /\ c.sub >= 0 /\ c.token >= 0
    <2>1. refundPc[r] = "none"
      BY <1>1 DEF Acct, Returns, Returned, Tries, Books
    <2> QED
      BY <1>1, <2>1 DEF Acct, Returns, Returned, Tries, WalletHold, SubHold, TokenHold, OpenSteps, Charges
  <1>5. Acct(first, refundPc[r], t, c)
    <2>1. /\ ~t.live /\ t.pre = 0 /\ t.consumed = 0 /\ t.extra = 0 /\ t.tokenConsumed = 0
      BY DEF NoSession
    <2> QED
      BY <1>1, <1>4, <2>1
         DEF Acct, Returns, Returned, Tries, Books, WalletHold, SubHold, TokenHold, OpeningSteps, Charges
  <1>6. LedgerTo(r, c) /\ DbOk
    BY <1>1, LedgerSame DEF Start, DbOk
  <1>7. SesTo(r, t) /\ Goto(r, first) /\ first \in Steps /\ UNCHANGED <<subActive, refundPc>>
    BY <1>2 DEF Start, SesTo, Steps
  <1> HIDE DEF t
  <1> QED
    BY <1>1, <1>3, <1>5, <1>6, <1>7, RequestMove

(* One turn of the retry loop *)
LEMMA BeginAttemptStep ==
  ASSUME IInv, NEW r \in Requests, BeginAttempt(r) PROVE IInv'
  <1> DEFINE s == ses[r]
             c == charged[r]
  <1>1. /\ TypeOK /\ LedgerTypes /\ s \in Session /\ c \in Charges
        /\ refundPc[r] \in RefundSteps /\ Acct("attempt", refundPc[r], s, c)
    BY RequestFacts DEF BeginAttempt, At
  <1>2. LedgerTo(r, c) /\ DbOk
    BY <1>1, LedgerSame DEF BeginAttempt, DbOk
  <1>3. NextAttempt(r) \in Nat
    BY <1>1 DEF NextAttempt, Session
  <1>4. CASE ses' = [ses EXCEPT ![r].outcome = "failed"] /\ Goto(r, "failing")
    <2>1. [s EXCEPT !.outcome = "failed"] \in Session
      BY <1>1 DEF Session, Outcomes
    <2>2. Acct("failing", refundPc[r], [s EXCEPT !.outcome = "failed"], c)
      BY <1>1
        DEF Acct, Returns, Returned, Tries, Books, WalletHold, SubHold, TokenHold, OpenSteps, OpeningSteps, Session,
            Charges
    <2> QED
      BY <1>1, <1>2, <1>4, <2>1, <2>2, RequestMove DEF BeginAttempt, SesTo, Steps
  <1>5. CASE ses' = [ses EXCEPT ![r].attempt = NextAttempt(r)] /\ Goto(r, "dispatch")
    <2>1. [s EXCEPT !.attempt = NextAttempt(r)] \in Session
      BY <1>1, <1>3 DEF Session
    <2>2. Acct("dispatch", refundPc[r], [s EXCEPT !.attempt = NextAttempt(r)], c)
      BY <1>1, <1>3
        DEF Acct, Returns, Returned, Tries, Books, WalletHold, SubHold, TokenHold, OpenSteps, OpeningSteps, Session,
            Charges
    <2> QED
      BY <1>1, <1>2, <1>5, <2>1, <2>2, RequestMove DEF BeginAttempt, SesTo, Steps
  <1>6. ASSUME NEW q \in PreQuotas, ~s.live, Goto(r, "choose"),
               ses' = [ses EXCEPT ![r] = [@ EXCEPT !.attempt = NextAttempt(r), !.quota = q]]
        PROVE  IInv'
    <2> DEFINE t == [s EXCEPT !.attempt = NextAttempt(r), !.quota = q]
    <2>1. t \in Session
      BY <1>1, <1>3, QuotasAssumption DEF Session
    <2>2. Acct("choose", refundPc[r], t, c)
      BY <1>1, <1>3, <1>6
        DEF Acct, Returns, Returned, Tries, Books, WalletHold, SubHold, TokenHold, OpenSteps, OpeningSteps, Session,
            Charges
    <2> QED
      BY <1>1, <1>2, <1>6, <2>1, <2>2, RequestMove DEF BeginAttempt, SesTo, Steps
  <1>7. ASSUME NEW q \in PreQuotas, s.live, q > s.pre, Goto(r, "reserveFunding"),
               ses' = [ses EXCEPT ![r] = [@ EXCEPT !.attempt = NextAttempt(r), !.target = q]]
        PROVE  IInv'
    <2> DEFINE t == [s EXCEPT !.attempt = NextAttempt(r), !.target = q]
    <2>1. t \in Session /\ q \in Nat
      BY <1>1, <1>3, QuotasAssumption DEF Session
    <2>2. Acct("reserveFunding", refundPc[r], t, c)
      BY <1>1, <1>3, <1>7, <2>1
        DEF Acct, Returns, Returned, Tries, Books, WalletHold, SubHold, TokenHold, OpenSteps, OpeningSteps, Session,
            Charges
    <2> QED
      BY <1>1, <1>2, <1>7, <2>1, <2>2, RequestMove DEF BeginAttempt, SesTo, Steps
  <1> QED
    BY <1>4, <1>5, <1>6, <1>7 DEF BeginAttempt

(* The upstream answers. *)
LEMMA DispatchStep ==
  ASSUME IInv, NEW r \in Requests, Dispatch(r) PROVE IInv'
  <1> DEFINE s == ses[r]
             c == charged[r]
  <1>1. /\ TypeOK /\ LedgerTypes /\ s \in Session /\ c \in Charges
        /\ refundPc[r] \in RefundSteps /\ Acct("dispatch", refundPc[r], s, c)
    BY RequestFacts DEF Dispatch, At
  <1>2. LedgerTo(r, c) /\ DbOk
    BY <1>1, LedgerSame DEF Dispatch, DbOk
  <1>3. CASE UNCHANGED ses /\ Goto(r, "attempt")
    <2>1. Acct("attempt", refundPc[r], s, c)
      BY <1>1
        DEF Acct, Returns, Returned, Tries, Books, WalletHold, SubHold, TokenHold, OpenSteps, OpeningSteps, Session,
            Charges
    <2> QED
      BY <1>1, <1>2, <1>3, <2>1, RequestMove DEF Dispatch, SesTo, Steps
  <1>4. ASSUME NEW a \in Actuals, Goto(r, "settleFunding"),
               ses' = [ses EXCEPT ![r] = [@ EXCEPT !.actual = a, !.outcome = "served"]]
        PROVE  IInv'
    <2> DEFINE t == [s EXCEPT !.actual = a, !.outcome = "served"]
    <2>1. t \in Session
      BY <1>1, QuotasAssumption DEF Session, Outcomes
    <2>2. Acct("settleFunding", refundPc[r], t, c)
      BY <1>1
        DEF Acct, Returns, Returned, Tries, Books, WalletHold, SubHold, TokenHold, OpenSteps, OpeningSteps, Session,
            Charges
    <2> QED
      BY <1>1, <1>2, <1>4, <2>1, <2>2, RequestMove DEF Dispatch, SesTo, Steps
  <1>5. ASSUME NEW v \in BOOLEAN, Goto(r, "failing"),
               ses' = [ses EXCEPT ![r] = [@ EXCEPT !.outcome = "failed", !.violation = v]]
        PROVE  IInv'
    <2> DEFINE t == [s EXCEPT !.outcome = "failed", !.violation = v]
    <2>1. t \in Session
      BY <1>1 DEF Session, Outcomes
    <2>2. Acct("failing", refundPc[r], t, c)
      BY <1>1
        DEF Acct, Returns, Returned, Tries, Books, WalletHold, SubHold, TokenHold, OpenSteps, OpeningSteps, Session,
            Charges
    <2> QED
      BY <1>1, <1>2, <1>5, <2>1, <2>2, RequestMove DEF Dispatch, SesTo, Steps
  <1> QED
    BY <1>3, <1>4, <1>5 DEF Dispatch

(* Refund hands what the session holds to its goroutine. *)
LEMMA RefundStartStep ==
  ASSUME IInv, NEW r \in Requests, Refund(r) PROVE IInv'
  <1> DEFINE s == ses[r]
             c == charged[r]
             t == [s EXCEPT !.refunded = TRUE]
             p == IF s.violation /\ Fee > 0 THEN "fee" ELSE "done"
  <1>1. /\ TypeOK /\ LedgerTypes /\ s \in Session /\ c \in Charges
        /\ refundPc[r] \in RefundSteps /\ Acct("failing", refundPc[r], s, c)
        /\ ses \in [Requests -> Session] /\ refundPc \in [Requests -> RefundSteps]
        /\ p \in Steps /\ p \in {"fee", "done"}
    BY RequestFacts DEF Refund, At, TypeOK, Steps
  <1>2. LedgerTo(r, c) /\ DbOk /\ Goto(r, p) /\ UNCHANGED subActive
    BY <1>1, LedgerSame DEF Refund, DbOk
  <1>3. CASE ~NeedsRefund(r)
    <2>1. Acct(p, refundPc[r], s, c)
      BY <1>1
        DEF Acct, Returns, Returned, Tries, Books, WalletHold, SubHold, TokenHold, OpenSteps, OpeningSteps, Session,
            Charges
    <2> QED
      BY <1>1, <1>2, <1>3, <2>1, RequestMove DEF Refund, SesTo
  <1>4. CASE NeedsRefund(r)
    <2>1. /\ ses' = [ses EXCEPT ![r] = t]
          /\ refundPc' = [refundPc EXCEPT ![r] = "funding"]
      BY <1>4 DEF Refund
    <2>2. t \in Session
      BY <1>1 DEF Session
    <2>3. Acct(p, "funding", t, c)
      BY <1>1, <1>4
        DEF NeedsRefund, Acct, Returns, Returned, Tries, Books, WalletHold, SubHold, TokenHold,
            OpenSteps, OpeningSteps, Session, Charges
    <2>4. TypeOK'
      BY <1>1, <1>2, <2>1, <2>2, DbLemma, GotoLemma
        DEF TypeOK, LedgerTo, LedgerTypes, Charges, RefundSteps, Tries
    <2>5. Frame(r)
      BY <1>1, <1>2, <2>1, GotoLemma DEF Frame, LedgerTo
    <2>6. pc'[r] = p /\ refundPc'[r] = "funding" /\ ses'[r] = t /\ charged'[r] = c
      BY <1>1, <1>2, <2>1, GotoLemma DEF LedgerTo
    <2> QED
      BY <2>3, <2>4, <2>5, <2>6, FrameLemma
  <1> QED
    BY <1>3, <1>4

(* A crash loses the session and keeps what was paid. *)
LEMMA CrashStep ==
  ASSUME IInv, NEW r \in Requests, Crash(r) PROVE IInv'
  <1> DEFINE s == ses[r]
             c == charged[r]
             t == [NoSession EXCEPT !.profile = s.profile, !.source = s.source, !.outcome = "crashed"]
  <1>1. /\ TypeOK /\ LedgerTypes /\ s \in Session /\ c \in Charges
        /\ Acct(pc[r], refundPc[r], s, c)
        /\ ses \in [Requests -> Session] /\ refundPc \in [Requests -> RefundSteps]
    BY RequestFacts DEF TypeOK
  <1>2. /\ LedgerTo(r, c) /\ DbOk /\ Goto(r, "done") /\ UNCHANGED subActive
        /\ ses' = [ses EXCEPT ![r] = t] /\ refundPc' = [refundPc EXCEPT ![r] = "none"]
    BY <1>1, LedgerSame DEF Crash, DbOk
  <1>3. t \in Session
    <2>1. NoSession \in Session
      BY ProfilesNonEmpty DEF NoSession, Session, Sources, Outcomes
    <2> QED
      BY <1>1, <2>1 DEF Session, Outcomes
  <1>4. Acct("done", "none", t, c)
    <2>1. c.wallet >= 0 /\ c.token >= 0
      BY <1>1, HoldLemma DEF Acct, Charges
    <2>3. c.sub + c.regiven >= 0 /\ Returns("done", "none", t, c)
      BY <1>1 DEF Acct, Returns, Returned, Tries, Books, SubHold, Session, Charges, NoSession
    <2>2. Books("done", "none", t)
      BY <1>1 DEF Acct, Books, Session, OpeningSteps, NoSession
    <2> QED
      BY <1>1, <2>1, <2>2, <2>3
         DEF Acct, Returned, Tries, WalletHold, SubHold, TokenHold, OpenSteps, NoSession, Charges
  <1>5. TypeOK'
    BY <1>1, <1>2, <1>3, DbLemma, GotoLemma
      DEF TypeOK, LedgerTo, LedgerTypes, Charges, RefundSteps, Steps
  <1>6. Frame(r)
    BY <1>1, <1>2, GotoLemma DEF Frame, LedgerTo, Steps
  <1>7. pc'[r] = "done" /\ refundPc'[r] = "none" /\ ses'[r] = t /\ charged'[r] = c
    BY <1>1, <1>2, GotoLemma DEF LedgerTo, Steps
  <1> QED
    BY <1>4, <1>5, <1>6, <1>7, FrameLemma

-----------------------------------------------------------------------------
(* The theorems *)

(* Before the first request the books are empty. *)
LEMMA InitIInv == Init => IInv
  <1> SUFFICES ASSUME Init PROVE IInv
    OBVIOUS
  <1>1. /\ ~NoSession.live /\ NoSession.pre = 0 /\ NoSession.consumed = 0
        /\ NoSession.extra = 0 /\ NoSession.tokenConsumed = 0
    BY DEF NoSession
  <1>2. Acct("idle", "none", NoSession, NoCharges)
    BY <1>1 DEF NoCharges, Acct, Returns, Returned, Tries, Books, WalletHold, SubHold, TokenHold, OpenSteps, OpeningSteps
  <1>3. AcctOK
    BY <1>2 DEF Init, AcctOK
  <1>4. NoSession \in Session
    BY ProfilesNonEmpty DEF NoSession, Session, Sources, Outcomes
  <1>5. TypeOK
    BY <1>4, LedgerAssumption, BoundsAssumption
       DEF Init, TypeOK, Steps, RefundSteps, Charges, NoCharges
  <1> QED
    BY <1>3, <1>5 DEF IInv

(* The subscription's expiry and a stuttering step touch no account. *)
LEMMA SameAccounts ==
  ASSUME IInv, UNCHANGED <<pc, refundPc, ses, dbErrors, ledgers>>, subActive' \in BOOLEAN
  PROVE  IInv'
  BY DEF IInv, TypeOK, AcctOK, ledgers

(* Every step keeps the invariant. *)
LEMMA NextIInv == IInv /\ [Next]_vars => IInv'
  <1> SUFFICES ASSUME IInv, [Next]_vars PROVE IInv'
    OBVIOUS
  <1>1. ASSUME NEW r \in Requests, Start(r) PROVE IInv'
    BY <1>1, StartStep
  <1>2. ASSUME NEW r \in Requests, RequestStep(r) PROVE IInv'
    <2>1. CASE Choose(r) \/ FallBack(r) \/ TryWallet(r)
      BY <2>1, ChooseStep, FallBackStep, TryWalletStep
    <2>2. CASE PreConsumeToken(r) \/ PreConsumeFunding(r) \/ PreConsumeRollback(r)
      BY <2>2, PreConsumeTokenStep, PreConsumeFundingStep, PreConsumeRollbackStep
    <2>3. CASE BeginAttempt(r) \/ Dispatch(r) \/ Refund(r)
      BY <2>3, BeginAttemptStep, DispatchStep, RefundStartStep
    <2>4. CASE ReserveFunding(r) \/ ReserveToken(r) \/ ReserveRollback(r)
      BY <2>4, ReserveFundingStep, ReserveTokenStep, ReserveRollbackStep
    <2>5. CASE SettleFunding(r) \/ SettleToken(r) \/ ChargeFee(r) \/ ChargeFeeToken(r)
      BY <2>5, SettleFundingStep, SettleTokenStep, ChargeFeeStep, ChargeFeeTokenStep
    <2> QED
      BY <1>2, <2>1, <2>2, <2>3, <2>4, <2>5 DEF RequestStep
  <1>3. ASSUME NEW r \in Requests, RefundStep(r) PROVE IInv'
    BY <1>3, RefundFundingStep, RefundExtraStep, RefundTokenStep DEF RefundStep
  <1>4. ASSUME NEW r \in Requests, Crash(r) PROVE IInv'
    BY <1>4, CrashStep
  <1>5. CASE ExpireSubscription
    BY <1>5, SameAccounts DEF ExpireSubscription
  <1>6. CASE UNCHANGED vars
    BY <1>6, SameAccounts DEF vars, ledgers, IInv, TypeOK
  <1> QED
    BY <1>1, <1>2, <1>3, <1>4, <1>5, <1>6 DEF Next, Terminated

(* The inductive invariant holds in every reachable state. *)
THEOREM Accounts == Spec => []IInv
  BY InitIInv, NextIInv, PTL DEF Spec

(* Every variable keeps its type; in particular no counter of a session ever  *)
(* goes below zero, whatever fails.                                           *)
THEOREM TypeCorrect == Spec => []TypeOK
  <1>1. IInv => TypeOK
    BY DEF IInv
  <1> QED
    BY Accounts, <1>1, PTL

-----------------------------------------------------------------------------
(* The limits *)

(* Every change of the subscription either fits or gives back. *)
LEMMA MoveSubWithin ==
  ASSUME TypeOK, SubscriptionWithinTotal, NEW r, NEW d \in Int, MoveSub(r, d),
         SubFits(d) \/ d <= 0
  PROVE  SubscriptionWithinTotal'
  BY LedgerAssumption DEF TypeOK, SubscriptionWithinTotal, MoveSub, SubFits, SubAfter

(* Every step keeps the subscription within its total. *)
LEMMA StepWithin ==
  ASSUME IInv, SubscriptionWithinTotal, [Next]_vars
  PROVE  SubscriptionWithinTotal'
  <1> USE LedgerAssumption
  <1>0. TypeOK
    BY DEF IInv
  <1>1. CASE UNCHANGED subUsed
    BY <1>1 DEF SubscriptionWithinTotal
  <1>2. ASSUME NEW r \in Requests, PreConsumeFunding(r) PROVE SubscriptionWithinTotal'
    <2>1. Amount(r) \in Int
      BY <1>0 DEF TypeOK, Amount, Session
    <2> QED
      BY <1>0, <1>1, <1>2, <2>1, MoveSubWithin DEF PreConsumeFunding, MoveWallet, ledgers
  <1>3. ASSUME NEW r \in Requests, ReserveFunding(r) \/ ReserveRollback(r)
        PROVE  SubscriptionWithinTotal'
    <2>1. ReserveDelta(r) \in Int /\ -ReserveDelta(r) \in Int /\ -ReserveDelta(r) <= 0
      BY <1>3, RequestFacts
         DEF ReserveDelta, ReserveFunding, ReserveRollback, At, Acct, Books, Session
    <2>2. CASE ReserveFunding(r)
      BY <1>0, <1>1, <2>1, <2>2, MoveSubWithin DEF ReserveFunding, MoveWallet, ledgers
    <2>3. CASE ReserveRollback(r)
      BY <1>0, <1>1, <2>1, <2>3, MoveSubWithin DEF ReserveRollback, MoveWallet, ledgers
    <2> QED
      BY <1>3, <2>2, <2>3
  <1>4. ASSUME NEW r \in Requests, SettleFunding(r) PROVE SubscriptionWithinTotal'
    <2>1. SettleDelta(r) \in Int
      BY <1>0 DEF TypeOK, SettleDelta, Session
    <2> QED
      BY <1>0, <1>1, <1>4, <2>1, MoveSubWithin DEF SettleFunding, MoveWallet, ledgers
  <1>5. ASSUME NEW r \in Requests, ChargeFee(r) PROVE SubscriptionWithinTotal'
    BY <1>0, <1>1, <1>5, MoveSubWithin DEF ChargeFee, MoveWallet, ledgers
  <1>6. ASSUME NEW r \in Requests, RefundFunding(r) \/ RefundExtra(r)
        PROVE  SubscriptionWithinTotal'
    <2>1. /\ -ses[r].consumed \in Int /\ -ses[r].consumed <= 0
          /\ -ses[r].extra \in Int /\ -ses[r].extra <= 0
      BY RequestFacts DEF Session
    <2>2. CASE RefundFunding(r)
      <3>1. ASSUME GiveBackSub(r, ses[r].consumed) PROVE SubscriptionWithinTotal'
        BY <1>0, <2>1, <3>1 DEF TypeOK, SubscriptionWithinTotal, GiveBackSub, SubAfter
      <3> QED
        BY <1>1, <2>2, <3>1 DEF RefundFunding, MoveWallet, ledgers
    <2>3. CASE RefundExtra(r)
      BY <1>0, <1>1, <2>1, <2>3, MoveSubWithin DEF RefundExtra, ledgers
    <2> QED
      BY <1>6, <2>2, <2>3
  <1>7. ASSUME NEW r \in Requests,
               \/ Start(r) \/ Choose(r) \/ FallBack(r) \/ TryWallet(r) \/ BeginAttempt(r)
               \/ Dispatch(r) \/ Refund(r) \/ Crash(r)
        PROVE  SubscriptionWithinTotal'
    BY <1>1, <1>7 DEF Start, Choose, FallBack, TryWallet, BeginAttempt, Dispatch, Refund,
                      Crash, ledgers
  <1>8. ASSUME NEW r \in Requests,
               \/ PreConsumeToken(r) \/ PreConsumeRollback(r) \/ ReserveToken(r)
               \/ SettleToken(r) \/ ChargeFeeToken(r) \/ RefundToken(r)
        PROVE  SubscriptionWithinTotal'
    BY <1>1, <1>8 DEF PreConsumeToken, PreConsumeRollback, ReserveToken, SettleToken,
                      ChargeFeeToken, RefundToken, MoveToken, ledgers
  <1>9. CASE ExpireSubscription \/ UNCHANGED vars
    BY <1>1, <1>9 DEF ExpireSubscription, vars, ledgers
  <1> QED
    BY <1>2, <1>3, <1>4, <1>5, <1>6, <1>7, <1>8, <1>9
       DEF Next, RequestStep, RefundStep, Terminated

(* No interleaving of pre-consumption, re-reservation, settlement and fees    *)
(* takes a subscription above its total.                                      *)
THEOREM SubscriptionBounded == Spec => []SubscriptionWithinTotal
  <1>1. Init => SubscriptionWithinTotal
    BY LedgerAssumption DEF Init, SubscriptionWithinTotal
  <1>2. IInv /\ SubscriptionWithinTotal /\ [Next]_vars => SubscriptionWithinTotal'
    BY StepWithin
  <1> QED
    BY Accounts, <1>1, <1>2, PTL DEF Spec

(* A ledger goes down by no more than was checked or is recorded as unsecured. *)
LEMMA MoveWalletSecured ==
  ASSUME TypeOK, OverdraftIsUnsecured, NEW r, NEW d \in Int, NEW u \in Nat,
         MoveWallet(r, d, u), d <= u \/ d <= wallet
  PROVE  OverdraftIsUnsecured'
  BY DEF TypeOK, OverdraftIsUnsecured, MoveWallet

(* The same for the token *)
LEMMA MoveTokenSecured ==
  ASSUME TypeOK, OverdraftIsUnsecured, NEW r, NEW d \in Int, NEW u \in Nat,
         MoveToken(r, d, u), d <= u \/ d <= tokenQuota
  PROVE  OverdraftIsUnsecured'
  BY DEF TypeOK, OverdraftIsUnsecured, MoveToken

(* TryReserveTokenQuota checks, except for an unlimited token. *)
LEMMA ReserveTokenSecured ==
  ASSUME TypeOK, OverdraftIsUnsecured, NEW r, NEW d \in Nat, TokenCanReserve(d),
         MoveToken(r, d, UncheckedToken(d))
  PROVE  OverdraftIsUnsecured'
  <1>1. UncheckedToken(d) \in Nat /\ (d <= UncheckedToken(d) \/ d <= tokenQuota)
    BY DEF UncheckedToken, TokenCanReserve
  <1> QED
    BY <1>1, MoveTokenSecured

(* Every step keeps the overdraft covered. *)
LEMMA StepSecured ==
  ASSUME IInv, OverdraftIsUnsecured, [Next]_vars
  PROVE  OverdraftIsUnsecured'
  <1> USE LedgerAssumption
  <1>0. TypeOK
    BY DEF IInv
  <1>1. CASE UNCHANGED <<wallet, tokenQuota, unsecured>>
    BY <1>1 DEF OverdraftIsUnsecured
  <1>2. ASSUME NEW r \in Requests,
               PreConsumeToken(r) \/ PreConsumeFunding(r) \/ PreConsumeRollback(r)
        PROVE  OverdraftIsUnsecured'
    <2>1. Amount(r) \in Nat /\ -ses[r].tokenConsumed \in Int /\ -ses[r].tokenConsumed <= 0
      BY <1>0 DEF TypeOK, Amount, Session
    <2>2. CASE PreConsumeToken(r)
      BY <1>0, <1>1, <2>1, <2>2, ReserveTokenSecured DEF PreConsumeToken, ledgers
    <2>3. CASE PreConsumeFunding(r)
      BY <1>0, <1>1, <2>1, <2>3, MoveWalletSecured
         DEF PreConsumeFunding, WalletCanReserve, MoveSub, ledgers
    <2>4. CASE PreConsumeRollback(r)
      BY <1>0, <1>1, <2>1, <2>4, MoveTokenSecured DEF PreConsumeRollback, ledgers
    <2> QED
      BY <1>2, <2>2, <2>3, <2>4
  <1>3. ASSUME NEW r \in Requests, ReserveFunding(r) \/ ReserveToken(r) \/ ReserveRollback(r)
        PROVE  OverdraftIsUnsecured'
    <2>1. ReserveDelta(r) \in Nat /\ -ReserveDelta(r) \in Int /\ -ReserveDelta(r) <= 0
      BY <1>3, RequestFacts
         DEF ReserveDelta, ReserveFunding, ReserveToken, ReserveRollback, At, Acct, Books, Session
    <2>2. CASE ReserveFunding(r)
      BY <1>0, <1>1, <2>1, <2>2, MoveWalletSecured DEF ReserveFunding, MoveSub, ledgers
    <2>3. CASE ReserveToken(r)
      BY <1>0, <1>1, <2>1, <2>3, ReserveTokenSecured DEF ReserveToken, ledgers
    <2>4. CASE ReserveRollback(r)
      BY <1>0, <1>1, <2>1, <2>4, MoveWalletSecured DEF ReserveRollback, MoveSub, ledgers
    <2> QED
      BY <1>3, <2>2, <2>3, <2>4
  <1>4. ASSUME NEW r \in Requests, SettleFunding(r) \/ SettleToken(r)
        PROVE  OverdraftIsUnsecured'
    <2>1. /\ SettleDelta(r) \in Int /\ Positive(SettleDelta(r)) \in Nat
          /\ SettleDelta(r) <= Positive(SettleDelta(r))
      BY <1>0 DEF TypeOK, SettleDelta, Positive, Session
    <2>2. CASE SettleFunding(r)
      BY <1>0, <1>1, <2>1, <2>2, MoveWalletSecured DEF SettleFunding, MoveSub, ledgers
    <2>3. CASE SettleToken(r)
      BY <1>0, <1>1, <2>1, <2>3, MoveTokenSecured DEF SettleToken, ledgers
    <2> QED
      BY <1>4, <2>2, <2>3
  <1>5. ASSUME NEW r \in Requests, ChargeFee(r) \/ ChargeFeeToken(r)
        PROVE  OverdraftIsUnsecured'
    <2>1. Fee \in Int /\ Fee \in Nat /\ Fee <= Fee
      OBVIOUS
    <2>2. CASE ChargeFee(r)
      BY <1>0, <1>1, <2>1, <2>2, MoveWalletSecured DEF ChargeFee, MoveSub, ledgers
    <2>3. CASE ChargeFeeToken(r)
      BY <1>0, <1>1, <2>1, <2>3, MoveTokenSecured DEF ChargeFeeToken, ledgers
    <2> QED
      BY <1>5, <2>2, <2>3
  <1>6. ASSUME NEW r \in Requests, RefundFunding(r) \/ RefundExtra(r) \/ RefundToken(r)
        PROVE  OverdraftIsUnsecured'
    <2>1. /\ -ses[r].consumed \in Int /\ -ses[r].consumed <= 0
          /\ -ses[r].tokenConsumed \in Int /\ -ses[r].tokenConsumed <= 0
      BY RequestFacts DEF Session
    <2>2. CASE RefundFunding(r)
      BY <1>0, <1>1, <2>1, <2>2, MoveWalletSecured DEF RefundFunding, GiveBackSub, ledgers
    <2>3. CASE RefundExtra(r)
      BY <1>1, <2>3 DEF RefundExtra, MoveSub, ledgers
    <2>4. CASE RefundToken(r)
      BY <1>0, <1>1, <2>1, <2>4, MoveTokenSecured DEF RefundToken, ledgers
    <2> QED
      BY <1>6, <2>2, <2>3, <2>4
  <1>7. ASSUME NEW r \in Requests,
               \/ Start(r) \/ Choose(r) \/ FallBack(r) \/ TryWallet(r) \/ BeginAttempt(r)
               \/ Dispatch(r) \/ Refund(r) \/ Crash(r)
        PROVE  OverdraftIsUnsecured'
    BY <1>1, <1>7 DEF Start, Choose, FallBack, TryWallet, BeginAttempt, Dispatch, Refund,
                      Crash, ledgers
  <1>8. CASE ExpireSubscription \/ UNCHANGED vars
    BY <1>1, <1>8 DEF ExpireSubscription, vars, ledgers
  <1> QED
    BY <1>2, <1>3, <1>4, <1>5, <1>6, <1>7, <1>8
       DEF Next, RequestStep, RefundStep, Terminated

(* However many requests pre-consume at once on stale balances, the wallet    *)
(* and the token are overdrawn only by what the code takes without a check.   *)
THEOREM OverdraftBounded == Spec => []OverdraftIsUnsecured
  <1>1. Init => OverdraftIsUnsecured
    BY LedgerAssumption DEF Init, OverdraftIsUnsecured
  <1>2. IInv /\ OverdraftIsUnsecured /\ [Next]_vars => OverdraftIsUnsecured'
    BY StepSecured
  <1> QED
    BY Accounts, <1>1, <1>2, PTL DEF Spec

-----------------------------------------------------------------------------
(* Sums over the requests, without recursion: the values of f over S add up   *)
(* to total if the running total along some enumeration of S ends there.      *)

(* A non-empty set of natural numbers has a least element. *)
LEMMA Least ==
  ASSUME NEW T \in SUBSET Nat, T # {}
  PROVE  \E x \in T : \A y \in T : x <= y
<1> DEFINE R == {ss \in Nat \X Nat : ss[1] < ss[2]}
<1>1. IsWellFoundedOn(R, Nat)
  BY NatLessThanWellFounded DEF OpToRel
<1> HIDE DEF R
<1>2. PICK x \in T : \A y \in T : ~ (<<y, x>> \in R)
  BY <1>1, WFMin
<1>3. \A y \in T : ~(y < x)
  BY <1>2 DEF R
<1> QED BY <1>3

Running(f, b, n, g) ==
  /\ g \in [0..n -> Int] /\ g[0] = 0
  /\ \A i \in 1..n : g[i] = g[i - 1] + f[b[i]]

AddsUp(f, S, total) ==
  \E n \in Nat : \E b \in Bijection(1..n, S), g \in [0..n -> Int] :
     Running(f, b, n, g) /\ g[n] = total

(* Zeros add up to zero. *)
LEMMA AddsUpZero ==
  ASSUME NEW S, IsFiniteSet(S), NEW f, \A x \in S : f[x] = 0
  PROVE  AddsUp(f, S, 0)
<1>1. PICK n \in Nat : ExistsBijection(1..n, S)
  BY FS_NatBijection
<1>2. PICK b \in Bijection(1..n, S) : TRUE
  BY <1>1, Fun_ExistsBij DEF ExistsBijection
<1>3. b \in [1..n -> S]
  BY <1>2, Fun_BijectionProperties
<1> DEFINE g == [i \in 0..n |-> 0]
<1>4. Running(f, b, n, g)
  BY <1>3 DEF Running
<1>5. g \in [0..n -> Int] /\ g[n] = 0
  BY <1>1
<1> QED BY <1>1, <1>2, <1>4, <1>5 DEF AddsUp

(* When one value changes by d, so does the sum. *)
LEMMA AddsUpChange ==
  ASSUME NEW S, NEW f, NEW h, NEW total \in Int, NEW d \in Int, NEW r \in S,
         AddsUp(f, S, total), \A x \in S : f[x] \in Int /\ h[x] \in Int,
         h[r] = f[r] + d, \A x \in S \ {r} : h[x] = f[x]
  PROVE  AddsUp(h, S, total + d)
<1>1. PICK n \in Nat : \E b \in Bijection(1..n, S), g \in [0..n -> Int] :
             Running(f, b, n, g) /\ g[n] = total
  BY DEF AddsUp
<1>2. PICK b \in Bijection(1..n, S), g \in [0..n -> Int] :
             Running(f, b, n, g) /\ g[n] = total
  BY <1>1
<1>3. b \in [1..n -> S] /\ (\E k \in 1..n : b[k] = r)
  BY <1>2, Fun_BijectionProperties DEF Bijection, Injection, Surjection, IsInjective
<1>inj. \A i, j \in 1..n : b[i] = b[j] => i = j
  BY <1>2, Fun_BijectionProperties DEF Bijection, Injection, IsInjective
<1>4. PICK k \in 1..n : b[k] = r
  BY <1>3
<1> DEFINE e == [i \in 0..n |-> IF i < k THEN g[i] ELSE g[i] + d]
<1>5. e \in [0..n -> Int] /\ e[0] = 0 /\ e[n] = total + d
  BY <1>2, <1>4 DEF Running
<1>6. ASSUME NEW i \in 1..n PROVE e[i] = e[i - 1] + h[b[i]]
  <2>1. g[i] = g[i - 1] + f[b[i]] /\ g[i] \in Int /\ g[i - 1] \in Int /\ f[b[i]] \in Int
    BY <1>2, <1>3 DEF Running
  <2>2. CASE i = k
    <3>1. e[i] = g[i] + d /\ e[i - 1] = g[i - 1]
      BY <2>2
    <3>2. h[b[i]] = f[b[i]] + d
      BY <1>4, <2>2
    <3> QED BY <2>1, <3>1, <3>2
  <2>3. CASE i # k
    <3>1. h[b[i]] = f[b[i]]
      BY <1>3, <1>inj, <1>4, <2>3
    <3> QED BY <2>1, <2>3, <3>1
  <2> QED BY <2>2, <2>3
<1>7. Running(h, b, n, e)
  BY <1>5, <1>6 DEF Running
<1> QED BY <1>1, <1>2, <1>5, <1>7 DEF AddsUp

(* None of several natural numbers is more than their sum. *)
LEMMA AddsUpCovers ==
  ASSUME NEW S, NEW f, NEW total \in Int, AddsUp(f, S, total), \A x \in S : f[x] \in Nat,
         NEW r \in S
  PROVE  f[r] <= total
<1>1. PICK n \in Nat : \E b \in Bijection(1..n, S), g \in [0..n -> Int] :
             Running(f, b, n, g) /\ g[n] = total
  BY DEF AddsUp
<1>2. PICK b \in Bijection(1..n, S), g \in [0..n -> Int] :
             Running(f, b, n, g) /\ g[n] = total
  BY <1>1
<1>3. b \in [1..n -> S] /\ \E k \in 1..n : b[k] = r
  BY <1>2, Fun_BijectionProperties DEF Bijection, Injection, Surjection, IsInjective
<1>4. PICK k \in 1..n : b[k] = r
  BY <1>3
<1> DEFINE Low(i) == IF i < k THEN 0 ELSE f[r]
           T == {i \in 0..n : g[i] < Low(i)}
<1>5. T = {}
  <2> SUFFICES ASSUME T # {} PROVE FALSE
    OBVIOUS
  <2>nat. T \in SUBSET Nat
    OBVIOUS
  <2>1. PICK i \in T : \A j \in T : i <= j
    <3> HIDE DEF T
    <3> QED BY <2>nat, Least
  <2>2. i # 0
    BY <1>2, <1>4, <2>1 DEF Running
  <2>3. i - 1 \in 0..n /\ i - 1 \notin T
    BY <2>1, <2>2
  <2>in. i \in 1..n
    BY <2>1, <2>2
  <2>at. b[i] \in S
    BY <2>in, <1>3
  <2>4. g[i] = g[i - 1] + f[b[i]] /\ f[b[i]] \in Nat /\ g[i - 1] \in Int
    BY <1>2, <2>in, <2>at, <2>3 DEF Running
  <2>5. g[i - 1] >= Low(i - 1)
    BY <2>3, <2>4
  <2>6. CASE i = k
    BY <1>4, <2>1, <2>4, <2>5, <2>6
  <2>7. CASE i < k
    BY <2>1, <2>4, <2>5, <2>7, <2>in
  <2>8. CASE k < i
    <3>1. f[r] \in Nat /\ Low(i) = f[r] /\ Low(i - 1) = f[r]
      BY <2>8, <2>in
    <3>2. g[i] < Low(i) /\ g[i - 1] >= f[r]
      BY <2>1, <2>5, <3>1
    <3>3. g[i] < f[r] /\ g[i] >= g[i - 1]
      BY <2>4, <3>1, <3>2
    <3> HIDE DEF Low, T
    <3> QED BY <2>4, <3>1, <3>2, <3>3
  <2> QED BY <2>6, <2>7, <2>8, <2>in
<1>6. n \in 0..n /\ ~(n < k)
  BY <1>4
<1> QED BY <1>2, <1>5, <1>6

-----------------------------------------------------------------------------
(* Exact charges: the second invariant, on top of IInv                        *)

Reserving == {"reserveToken", "reserveRollback"}
Closing == {"fee", "feeToken", "done"}

(* Which outcome and which flags a request at step p can have *)
Phase(p, f, s) ==
  /\ p \in {"settleFunding", "settleToken"} => s.outcome = "served"
  /\ p \in {"failing", "fee", "feeToken"} => s.outcome = "failed"
  /\ p \notin {"settleFunding", "settleToken", "failing"} \cup Closing => s.outcome = "open"
  /\ p = "done" => s.outcome # "open"
  /\ p = "idle" => ~s.live
  /\ f # "none" => s.outcome = "failed"
  /\ p = "feeToken" => s.feePaid
  /\ s.feePaid => p \in {"feeToken", "done"} /\ s.outcome \in {"failed", "crashed"}
  /\ p # "done" => ~s.settled
  /\ p \notin {"settleToken", "done"} => ~s.fundingSettled
  /\ p \notin Closing => ~s.refunded

(* The source a request does not use, or not any more, has nothing of it. *)
OneSource(p, s, c) ==
  /\ s.source = "subscription" => c.wallet = 0
  /\ s.source # "subscription" => c.sub = 0
  /\ ~s.live /\ p \notin {"settleToken", "feeToken", "done"} => c.wallet = 0 /\ c.sub = 0
  /\ s.outcome = "rejected" => c.wallet = 0 /\ c.sub = 0

(* What the funding source, and the token, should hold of the request, the    *)
(* violation fee apart                                                        *)
FundingHeld(p, f, s) ==
  IF f = "none"
    THEN IF p \in Reserving THEN s.target
         ELSE IF p = "settleToken" THEN s.actual
         ELSE IF p \in Closing THEN 0
         ELSE s.pre
  ELSE IF f \in Tries THEN s.pre
  ELSE IF f = "extra" /\ s.source = "subscription" THEN s.extra
  ELSE 0

TokenHeld(p, f, s) ==
  IF f = "done" \/ (f = "none" /\ p \in Closing) THEN 0 ELSE s.tokenConsumed

FeeOf(s) == IF s.feePaid THEN Fee ELSE 0
TokenFee(p, s) == IF p = "feeToken" THEN 0 ELSE FeeOf(s)
Share(s, amount) == IF s.profile.playground THEN 0 ELSE amount

ServedExactly(s, c) ==
  \/ c.wallet + c.sub = s.actual /\ c.token = Share(s, s.actual)
  \/ /\ s.source = "subscription" /\ ~s.settled /\ s.pre < s.actual
     /\ c.wallet + c.sub = s.pre /\ c.token = Share(s, s.pre)

(* The accounts of a request none of whose database calls has failed *)
Exact(p, f, s, c) ==
  /\ s.live /\ s.source # "subscription" =>
       s.consumed = IF p \in Reserving THEN s.target ELSE s.pre
  /\ IF p = "done" /\ s.outcome = "served" THEN ServedExactly(s, c)
     ELSE /\ c.wallet + c.sub = FundingHeld(p, f, s) + FeeOf(s)
          /\ c.token = Share(s, TokenHeld(p, f, s) + TokenFee(p, s))

(* e database calls have failed; alone: no subscription was refunded twice *)
Right(p, f, s, c, e, alone) ==
  /\ Phase(p, f, s) /\ OneSource(p, s, c)
  /\ c.regiven > 0 \/ f \in {"funding2", "funding3"} => e # 0
  /\ e = 0 /\ alone /\ s.outcome # "crashed" => Exact(p, f, s, c)

RightNow(r) == Right(pc[r], refundPc[r], ses[r], charged[r], dbErrors[r], NoneRegiven)
AllRight == \A r \in Requests : RightNow(r)

(* A subscription has no other users than the requests: its used amount is    *)
(* the sum of what they were charged.                                         *)
SubCharges == [r \in Requests |-> charged[r].sub]
SubAddsUp == AddsUp(SubCharges, Requests, subUsed)

EInv == AllRight /\ SubAddsUp /\ SubscriptionWithinTotal

(* Every request's charge is still in the used amount, so no refund is clamped *)
LEMMA SubCovered ==
  ASSUME IInv, EInv, NoneRegiven, NEW r \in Requests
  PROVE  charged[r].sub <= subUsed
  <1>1. \A q \in Requests : charged[q].sub \in Nat
    <2> TAKE q \in Requests
    <2>1. /\ ses[q] \in Session /\ charged[q] \in Charges
          /\ Acct(pc[q], refundPc[q], ses[q], charged[q])
      BY RequestFacts
    <2>2. Books(pc[q], refundPc[q], ses[q])
      BY <2>1 DEF Acct
    <2> QED
      BY <2>1, <2>2, HoldLemma DEF NoneRegiven, Acct, Returns, Returned, SubHold, Books, Charges,
         Session
  <1>2. \A q \in Requests : SubCharges[q] \in Nat
    BY <1>1 DEF SubCharges
  <1>3. subUsed \in Int /\ AddsUp(SubCharges, Requests, subUsed)
    BY DEF IInv, TypeOK, EInv, SubAddsUp
  <1>4. SubCharges[r] <= subUsed
    BY <1>2, <1>3, AddsUpCovers
  <1> QED
    BY <1>1, <1>4 DEF SubCharges

(* By how much the subscription moves when it is asked to move by d *)
Moved(d) == SubAfter(d) - subUsed

(* A subscription moves by exactly what is asked for, unless more is given    *)
(* back than the request was charged, or another request was refunded twice.  *)
LEMMA MoveSubExact ==
  ASSUME IInv, EInv, NEW r \in Requests, NEW d \in Int, NoneRegiven => -d <= charged[r].sub
  PROVE  /\ Moved(d) \in Int
         /\ NoneRegiven \/ d >= 0 => Moved(d) = d
         /\ MoveSub(r, d) => LedgerTo(r, [charged[r] EXCEPT !.sub = @ + Moved(d)])
  <1>1. LedgerTypes /\ charged[r] \in Charges /\ subUsed \in Nat /\ charged[r].sub \in Int
    BY RequestFacts DEF LedgerTypes, Charges
  <1>2. SubAfter(d) \in Nat /\ (d >= 0 => SubAfter(d) - subUsed = d)
    BY <1>1, SubAfterLemma
  <1>3. NoneRegiven => SubAfter(d) = subUsed + d
    BY <1>1, SubCovered DEF SubAfter
  <1>4. MoveSub(r, d) => LedgerTo(r, [charged[r] EXCEPT !.sub = @ + SubAfter(d) - subUsed])
    BY <1>1, MoveSubLemma
  <1>5. charged[r].sub + SubAfter(d) - subUsed = charged[r].sub + Moved(d)
    BY <1>1, <1>2 DEF Moved
  <1> QED
    BY <1>1, <1>2, <1>3, <1>4, <1>5 DEF Moved

(* What a call to the database makes of the error count *)
LEMMA DbCount ==
  ASSUME IInv, NEW r \in Requests
  PROVE  /\ dbErrors[r] \in Nat
         /\ DbOk => dbErrors'[r] = dbErrors[r]
         /\ DbError(r) \/ TryError(r) => dbErrors'[r] # 0
  BY BoundsAssumption DEF IInv, TypeOK, DbOk, DbError, TryError

(* Where a step of the request's own goroutine leaves it *)
LEMMA RequestRight ==
  ASSUME IInv, NEW r \in Requests, NEW p \in Steps, NEW s, NEW c,
         Goto(r, p), SesTo(r, s), LedgerTo(r, c), UNCHANGED refundPc,
         Right(p, refundPc[r], s, c, dbErrors'[r], NoneRegiven')
  PROVE  RightNow(r)'
  <1>1. pc'[r] = p
    BY GotoLemma DEF IInv
  <1>2. ses'[r] = s
    BY DEF SesTo, IInv, TypeOK
  <1>3. charged'[r] = c
    BY DEF LedgerTo
  <1> QED
    BY <1>1, <1>2, <1>3 DEF RightNow

(* The same for the goroutine started by Refund *)
LEMMA RefundRight ==
  ASSUME IInv, NEW r \in Requests, NEW f \in RefundSteps, NEW c,
         RefundGoto(r, f), LedgerTo(r, c), UNCHANGED <<pc, ses>>,
         Right(pc[r], f, ses[r], c, dbErrors'[r], NoneRegiven')
  PROVE  RightNow(r)'
  <1>1. refundPc'[r] = f
    BY DEF RefundGoto, IInv, TypeOK
  <1>3. charged'[r] = c
    BY DEF LedgerTo
  <1> QED
    BY <1>1, <1>3 DEF RightNow

(* A quota given back twice stays so. *)
Grows == NoneRegiven' => NoneRegiven

(* Everything both invariants say of one request *)
LEMMA RightFacts ==
  ASSUME IInv, EInv, NEW r \in Requests
  PROVE  /\ LedgerTypes /\ ses[r] \in Session /\ charged[r] \in Charges
         /\ refundPc[r] \in RefundSteps
         /\ Acct(pc[r], refundPc[r], ses[r], charged[r])
         /\ Right(pc[r], refundPc[r], ses[r], charged[r], dbErrors[r], NoneRegiven)
         /\ dbErrors[r] \in Nat
         /\ DbOk => dbErrors'[r] = dbErrors[r]
         /\ DbError(r) \/ TryError(r) => dbErrors'[r] # 0
  BY RequestFacts, DbCount DEF EInv, AllRight, RightNow, IInv, TypeOK

(* Another attempt of RelayTask leaves nothing behind. *)
LEMMA RetryRight ==
  ASSUME IInv, EInv, Grows, NEW r \in Requests, pc[r] \in OpeningSteps, RetryTask(r),
         DbOk \/ DbError(r), UNCHANGED refundPc, NEW c \in Charges, LedgerTo(r, c),
         c = [charged[r] EXCEPT !.token = c.token], dbErrors'[r] = 0 /\ NoneRegiven' => c.token = 0
  PROVE  RightNow(r)'
  <1> DEFINE s == ses[r]
             t == [s EXCEPT !.source = "none", !.tokenConsumed = 0, !.fallback = "none",
                            !.insufficient = FALSE]
  <1>1. /\ s \in Session /\ charged[r] \in Charges
        /\ Acct(pc[r], refundPc[r], s, charged[r])
        /\ Right(pc[r], refundPc[r], s, charged[r], dbErrors[r], NoneRegiven) /\ dbErrors[r] \in Nat
        /\ DbOk => dbErrors'[r] = dbErrors[r]
        /\ DbError(r) => dbErrors'[r] # 0
        /\ NoneRegiven' => NoneRegiven
    BY RightFacts DEF Grows
  <1>2. c.wallet = charged[r].wallet /\ c.sub = charged[r].sub /\ c.regiven = charged[r].regiven
    BY <1>1 DEF Charges
  <1>3. Right("attempt", refundPc[r], t, c, dbErrors'[r], NoneRegiven')
    BY <1>1, <1>2, LedgerAssumption
      DEF Right, Phase, OneSource, Exact, FundingHeld, TokenHeld, FeeOf, TokenFee, Share,
          Reserving, Closing, Acct, Books, OpeningSteps, Session, Charges
  <1> QED
    BY <1>3, RequestRight DEF RetryTask, SesTo, Steps

(* The same when nothing had been taken *)
LEMMA RetryUntouchedRight ==
  ASSUME IInv, EInv, Grows, NEW r \in Requests, RetryTask(r), UNCHANGED <<refundPc, ledgers>>,
         pc[r] \in OpeningSteps \ {"preFunding", "preRollback"}, DbOk \/ DbError(r)
  PROVE  RightNow(r)'
  <1> DEFINE s == ses[r]
             c == charged[r]
  <1>1. /\ LedgerTypes /\ s \in Session /\ c \in Charges /\ Acct(pc[r], refundPc[r], s, c)
        /\ Right(pc[r], refundPc[r], s, c, dbErrors[r], NoneRegiven) /\ dbErrors[r] \in Nat
        /\ DbOk => dbErrors'[r] = dbErrors[r]
        /\ DbError(r) => dbErrors'[r] # 0
        /\ NoneRegiven' => NoneRegiven
    BY RightFacts DEF Grows
  <1>2. LedgerTo(r, c)
    BY <1>1, LedgerSame
  <1>3. dbErrors'[r] = 0 /\ NoneRegiven' => c.token = 0
    BY <1>1, LedgerAssumption
      DEF Right, Phase, Exact, FundingHeld, TokenHeld, FeeOf, TokenFee, Share, Closing, Acct,
          Books, OpeningSteps, Session, Charges
  <1>4. c = [c EXCEPT !.token = c.token]
    BY <1>1 DEF Charges
  <1> QED
    BY <1>1, <1>2, <1>3, <1>4, RetryRight

(* Raising the funding reservation: consumed runs ahead of pre, up to the target *)
LEMMA ReserveFundingRight ==
  ASSUME IInv, EInv, Grows, NEW r \in Requests, ReserveFunding(r) PROVE RightNow(r)'
  <1> USE LedgerAssumption
  <1> DEFINE s == ses[r]
             c == charged[r]
             d == ReserveDelta(r)
  <1>1. /\ LedgerTypes /\ s \in Session /\ c \in Charges
        /\ Acct("reserveFunding", refundPc[r], s, c)
        /\ Right("reserveFunding", refundPc[r], s, c, dbErrors[r], NoneRegiven) /\ dbErrors[r] \in Nat
        /\ DbOk => dbErrors'[r] = dbErrors[r]
        /\ DbError(r) => dbErrors'[r] # 0
        /\ NoneRegiven' => NoneRegiven
        /\ UNCHANGED refundPc
    BY RightFacts DEF Grows, ReserveFunding, At
  <1>2. d \in Nat /\ -d \in Int /\ -(-d) = d /\ d = s.target - s.pre /\ refundPc[r] = "none"
    BY <1>1 DEF ReserveDelta, Acct, Books, Session
  <1>3. CASE /\ s.source = "wallet"
             /\ Goto(r, "reserveToken")
             /\ ses' = [ses EXCEPT ![r] = [s EXCEPT !.consumed = @ + d]]
             /\ MoveWallet(r, d, d)
             /\ DbOk
    <2> DEFINE e == [c EXCEPT !.wallet = @ + d]
               t == [s EXCEPT !.consumed = @ + d]
    <2>1. LedgerTo(r, e)
      BY <1>1, <1>2, <1>3, MoveWalletLemma
    <2>2. Right("reserveToken", refundPc[r], t, e, dbErrors'[r], NoneRegiven')
      BY <1>1, <1>2, <1>3
        DEF Right, Phase, OneSource, Exact, FundingHeld, TokenHeld, FeeOf, TokenFee,
            Share, ServedExactly, Reserving, Closing, Acct, Books, OpeningSteps, Session,
            Charges, BySub
    <2> QED
      BY <1>1, <1>2, <1>3, <2>1, <2>2, RequestRight DEF SesTo, Steps
  <1>4. CASE /\ BySub(r)
             /\ Goto(r, "reserveToken")
             /\ UNCHANGED ses
             /\ MoveSub(r, d)
             /\ DbOk
    <2> DEFINE e == [c EXCEPT !.sub = @ + Moved(d)]
    <2>0. NoneRegiven => -(d) <= c.sub
      BY <1>1, <1>2, <1>4, LedgerAssumption
        DEF NoneRegiven, Acct, Returns, Returned, Books, SubHold, OpenSteps, OpeningSteps, Session,
            Charges, BySub
    <2>1. /\ LedgerTo(r, e) /\ Moved(d) \in Int
          /\ NoneRegiven \/ d >= 0 => Moved(d) = d
      BY <1>1, <1>2, <1>4, <2>0, LedgerAssumption, MoveSubExact
    <2>2. Right("reserveToken", refundPc[r], s, e, dbErrors'[r], NoneRegiven')
      BY <1>1, <1>2, <1>4, <2>1
        DEF Right, Phase, OneSource, Exact, FundingHeld, TokenHeld, FeeOf, TokenFee,
            Share, ServedExactly, Reserving, Closing, Acct, Books, OpeningSteps, Session,
            Charges, BySub
    <2> QED
      BY <1>1, <1>2, <1>4, <2>1, <2>2, RequestRight DEF SesTo, Steps
  <1>5. CASE /\ Goto(r, "failing")
             /\ ses' = [ses EXCEPT ![r] = [s EXCEPT !.outcome = "failed"]]
             /\ UNCHANGED ledgers
             /\ DbOk \/ DbError(r)
    <2> DEFINE t == [s EXCEPT !.outcome = "failed"]
    <2>1. LedgerTo(r, c)
      BY <1>1, <1>2, <1>5, LedgerSame
    <2>2. Right("failing", refundPc[r], t, c, dbErrors'[r], NoneRegiven')
      BY <1>1, <1>2, <1>5
        DEF Right, Phase, OneSource, Exact, FundingHeld, TokenHeld, FeeOf, TokenFee,
            Share, ServedExactly, Reserving, Closing, Acct, Books, OpeningSteps, Session,
            Charges, BySub
    <2> QED
      BY <1>1, <1>2, <1>5, <2>1, <2>2, RequestRight DEF SesTo, Steps
  <1> QED
    BY <1>1, <1>2, <1>3, <1>4, <1>5 DEF ReserveFunding, Fail

(* The token follows, and the books catch up *)
LEMMA ReserveTokenRight ==
  ASSUME IInv, EInv, Grows, NEW r \in Requests, ReserveToken(r) PROVE RightNow(r)'
  <1> USE LedgerAssumption
  <1> DEFINE s == ses[r]
             c == charged[r]
             d == ReserveDelta(r)
  <1>1. /\ LedgerTypes /\ s \in Session /\ c \in Charges
        /\ Acct("reserveToken", refundPc[r], s, c)
        /\ Right("reserveToken", refundPc[r], s, c, dbErrors[r], NoneRegiven) /\ dbErrors[r] \in Nat
        /\ DbOk => dbErrors'[r] = dbErrors[r]
        /\ DbError(r) => dbErrors'[r] # 0
        /\ NoneRegiven' => NoneRegiven
        /\ UNCHANGED refundPc
    BY RightFacts DEF Grows, ReserveToken, At
  <1>2. d \in Nat /\ -d \in Int /\ -(-d) = d /\ d = s.target - s.pre /\ refundPc[r] = "none"
    BY <1>1 DEF ReserveDelta, Acct, Books, Session
  <1>3. CASE /\ Playground(r)
             /\ Goto(r, "dispatch")
             /\ ses' = [ses EXCEPT ![r] = [s EXCEPT !.pre = s.pre + d, !.extra = s.extra + d, !.tokenConsumed = s.tokenConsumed + d]]
             /\ UNCHANGED ledgers
             /\ DbOk
    <2> DEFINE t == [s EXCEPT !.pre = s.pre + d, !.extra = s.extra + d, !.tokenConsumed = s.tokenConsumed + d]
    <2>1. LedgerTo(r, c)
      BY <1>1, <1>2, <1>3, LedgerSame
    <2>2. Right("dispatch", refundPc[r], t, c, dbErrors'[r], NoneRegiven')
      BY <1>1, <1>2, <1>3
        DEF Right, Phase, OneSource, Exact, FundingHeld, TokenHeld, FeeOf, TokenFee,
            Share, ServedExactly, Reserving, Closing, Acct, Books, OpeningSteps, Session,
            Charges, Playground
    <2> QED
      BY <1>1, <1>2, <1>3, <2>1, <2>2, RequestRight DEF SesTo, Steps
  <1>4. CASE /\ ~Playground(r)
             /\ Goto(r, "dispatch")
             /\ ses' = [ses EXCEPT ![r] = [s EXCEPT !.pre = s.pre + d, !.extra = s.extra + d, !.tokenConsumed = s.tokenConsumed + d]]
             /\ MoveToken(r, d, UncheckedToken(d))
             /\ DbOk
    <2> DEFINE e == [c EXCEPT !.token = @ + d]
               t == [s EXCEPT !.pre = s.pre + d, !.extra = s.extra + d, !.tokenConsumed = s.tokenConsumed + d]
    <2>1. LedgerTo(r, e)
      BY <1>1, <1>2, <1>4, MoveTokenLemma, UncheckedTokenLemma
    <2>2. Right("dispatch", refundPc[r], t, e, dbErrors'[r], NoneRegiven')
      <3>1. /\ t.pre = s.pre + d /\ t.tokenConsumed = s.tokenConsumed + d
            /\ t.live = s.live /\ t.source = s.source /\ t.consumed = s.consumed
            /\ t.outcome = s.outcome /\ t.feePaid = s.feePaid /\ t.profile = s.profile
            /\ t.settled = s.settled /\ t.fundingSettled = s.fundingSettled
            /\ t.refunded = s.refunded
        BY <1>1 DEF Session
      <3>2. /\ e.token = c.token + d /\ e.wallet = c.wallet /\ e.sub = c.sub
            /\ e.regiven = c.regiven
        BY <1>1 DEF Charges
      <3>3. dbErrors'[r] = dbErrors[r] /\ ~s.profile.playground
        BY <1>1, <1>4 DEF Playground
      <3>old. /\ Phase("reserveToken", "none", s) /\ OneSource("reserveToken", s, c)
              /\ c.regiven > 0 => dbErrors[r] # 0
              /\ dbErrors[r] = 0 /\ NoneRegiven /\ s.outcome # "crashed"
                   => Exact("reserveToken", "none", s, c)
        BY <1>1, <1>2 DEF Right
      <3> HIDE DEF t, e
      <3>4. Phase("dispatch", "none", t) /\ OneSource("dispatch", t, e)
        BY <3>old, <3>1, <3>2 DEF Phase, OneSource, Closing
      <3>5. ASSUME Exact("reserveToken", "none", s, c) PROVE Exact("dispatch", "none", t, e)
        <4>1. ~s.feePaid
          BY <3>old DEF Phase
        <4>2. /\ s.live /\ s.source # "subscription" => s.consumed = s.target
              /\ c.wallet + c.sub = s.target + 0
              /\ c.token = s.tokenConsumed + 0
          BY <3>3, <3>5, <4>1
             DEF Exact, Reserving, FundingHeld, TokenHeld, FeeOf, TokenFee, Share, Closing
        <4>3. /\ s.tokenConsumed \in Nat /\ s.pre \in Nat /\ s.target \in Nat
              /\ t.pre = s.target
          BY <1>1, <1>2, <3>1 DEF Session
        <4> QED
          BY <1>2, <3>1, <3>2, <3>3, <4>1, <4>2, <4>3
             DEF Exact, Reserving, FundingHeld, TokenHeld, FeeOf, TokenFee, Share, Closing
      <3> QED
        BY <1>1, <1>2, <3>old, <3>1, <3>2, <3>3, <3>4, <3>5 DEF Right
    <2> QED
      BY <1>1, <1>2, <1>4, <2>1, <2>2, RequestRight DEF SesTo, Steps
  <1>5. CASE /\ Goto(r, "reserveRollback")
             /\ UNCHANGED ses
             /\ UNCHANGED ledgers
             /\ DbOk \/ DbError(r)
    <2>1. LedgerTo(r, c)
      BY <1>1, <1>2, <1>5, LedgerSame
    <2>2. Right("reserveRollback", refundPc[r], s, c, dbErrors'[r], NoneRegiven')
      BY <1>1, <1>2, <1>5
        DEF Right, Phase, OneSource, Exact, FundingHeld, TokenHeld, FeeOf, TokenFee,
            Share, ServedExactly, Reserving, Closing, Acct, Books, OpeningSteps, Session,
            Charges, Playground
    <2> QED
      BY <1>1, <1>2, <1>5, <2>1, <2>2, RequestRight DEF SesTo, Steps
  <1> QED
    BY <1>1, <1>2, <1>3, <1>4, <1>5 DEF ReserveToken

(* The raised reservation goes back: the funding source holds pre again *)
LEMMA ReserveRollbackRight ==
  ASSUME IInv, EInv, Grows, NEW r \in Requests, ReserveRollback(r) PROVE RightNow(r)'
  <1> USE LedgerAssumption
  <1> DEFINE s == ses[r]
             c == charged[r]
             d == ReserveDelta(r)
  <1>1. /\ LedgerTypes /\ s \in Session /\ c \in Charges
        /\ Acct("reserveRollback", refundPc[r], s, c)
        /\ Right("reserveRollback", refundPc[r], s, c, dbErrors[r], NoneRegiven) /\ dbErrors[r] \in Nat
        /\ DbOk => dbErrors'[r] = dbErrors[r]
        /\ DbError(r) => dbErrors'[r] # 0
        /\ NoneRegiven' => NoneRegiven
        /\ UNCHANGED refundPc
    BY RightFacts DEF Grows, ReserveRollback, At
  <1>2. d \in Nat /\ -d \in Int /\ -(-d) = d /\ d = s.target - s.pre /\ refundPc[r] = "none"
    BY <1>1 DEF ReserveDelta, Acct, Books, Session
  <1>3. CASE /\ s.source = "wallet"
             /\ Goto(r, "failing")
             /\ ses' = [ses EXCEPT ![r] = [s EXCEPT !.consumed = s.consumed - d, !.outcome = "failed"]]
             /\ MoveWallet(r, (-d), 0)
             /\ DbOk
    <2> DEFINE e == [c EXCEPT !.wallet = @ + (-d)]
               t == [s EXCEPT !.consumed = s.consumed - d, !.outcome = "failed"]
    <2>1. LedgerTo(r, e)
      BY <1>1, <1>2, <1>3, MoveWalletLemma
    <2>2. Right("failing", refundPc[r], t, e, dbErrors'[r], NoneRegiven')
      BY <1>1, <1>2, <1>3
        DEF Right, Phase, OneSource, Exact, FundingHeld, TokenHeld, FeeOf, TokenFee,
            Share, ServedExactly, Reserving, Closing, Acct, Books, OpeningSteps, Session,
            Charges, BySub
    <2> QED
      BY <1>1, <1>2, <1>3, <2>1, <2>2, RequestRight DEF SesTo, Steps
  <1>4. CASE /\ BySub(r)
             /\ Goto(r, "failing")
             /\ ses' = [ses EXCEPT ![r] = [s EXCEPT !.outcome = "failed"]]
             /\ MoveSub(r, (-d))
             /\ DbOk
    <2> DEFINE e == [c EXCEPT !.sub = @ + Moved(-d)]
               t == [s EXCEPT !.outcome = "failed"]
    <2>0. NoneRegiven => -(-d) <= c.sub
      BY <1>1, <1>2, <1>4, LedgerAssumption
        DEF NoneRegiven, Acct, Returns, Returned, Books, SubHold, OpenSteps, OpeningSteps, Session,
            Charges, BySub
    <2>1. /\ LedgerTo(r, e) /\ Moved(-d) \in Int
          /\ NoneRegiven \/ -d >= 0 => Moved(-d) = -d
      BY <1>1, <1>2, <1>4, <2>0, LedgerAssumption, MoveSubExact
    <2>2. Right("failing", refundPc[r], t, e, dbErrors'[r], NoneRegiven')
      BY <1>1, <1>2, <1>4, <2>1
        DEF Right, Phase, OneSource, Exact, FundingHeld, TokenHeld, FeeOf, TokenFee,
            Share, ServedExactly, Reserving, Closing, Acct, Books, OpeningSteps, Session,
            Charges, BySub
    <2> QED
      BY <1>1, <1>2, <1>4, <2>1, <2>2, RequestRight DEF SesTo, Steps
  <1>5. CASE /\ Goto(r, "failing")
             /\ ses' = [ses EXCEPT ![r] = [s EXCEPT !.outcome = "failed"]]
             /\ UNCHANGED ledgers
             /\ DbError(r)
    <2> DEFINE t == [s EXCEPT !.outcome = "failed"]
    <2>1. LedgerTo(r, c)
      BY <1>1, <1>2, <1>5, LedgerSame
    <2>2. Right("failing", refundPc[r], t, c, dbErrors'[r], NoneRegiven')
      BY <1>1, <1>2, <1>5
        DEF Right, Phase, OneSource, Exact, FundingHeld, TokenHeld, FeeOf, TokenFee,
            Share, ServedExactly, Reserving, Closing, Acct, Books, OpeningSteps, Session,
            Charges, BySub
    <2> QED
      BY <1>1, <1>2, <1>5, <2>1, <2>2, RequestRight DEF SesTo, Steps
  <1> QED
    BY <1>1, <1>2, <1>3, <1>4, <1>5 DEF ReserveRollback

(* Settling: a subscription can refuse only a positive difference *)
LEMMA SettleFundingRight ==
  ASSUME IInv, EInv, Grows, NEW r \in Requests, SettleFunding(r) PROVE RightNow(r)'
  <1> USE LedgerAssumption
  <1> DEFINE s == ses[r]
             c == charged[r]
             d == SettleDelta(r)
  <1>1. /\ LedgerTypes /\ s \in Session /\ c \in Charges
        /\ Acct("settleFunding", refundPc[r], s, c)
        /\ Right("settleFunding", refundPc[r], s, c, dbErrors[r], NoneRegiven) /\ dbErrors[r] \in Nat
        /\ DbOk => dbErrors'[r] = dbErrors[r]
        /\ DbError(r) => dbErrors'[r] # 0
        /\ NoneRegiven' => NoneRegiven
        /\ UNCHANGED refundPc
    BY RightFacts DEF Grows, SettleFunding, At
  <1>2. /\ d \in Int /\ d = s.actual - s.pre /\ refundPc[r] = "none" /\ Positive(d) \in Nat
        /\ ~SubFits(d) => d > 0
    BY <1>1 DEF SettleDelta, Positive, Acct, Books, Session, EInv, IInv, TypeOK, SubFits, SubAfter, SubscriptionWithinTotal
  <1>3. CASE /\ d = 0
             /\ Goto(r, "done")
             /\ ses' = [ses EXCEPT ![r] = [s EXCEPT !.settled = @ \/ s.live]]
             /\ UNCHANGED ledgers
             /\ DbOk
    <2> DEFINE t == [s EXCEPT !.settled = @ \/ s.live]
    <2>1. LedgerTo(r, c)
      BY <1>1, <1>2, <1>3, LedgerSame
    <2>2. Right("done", refundPc[r], t, c, dbErrors'[r], NoneRegiven')
      <3>1. /\ Phase("done", refundPc[r], t) /\ OneSource("done", t, c)
            /\ c.regiven = 0 /\ refundPc[r] = "none"
        BY <1>1, <1>2, <1>3
           DEF Acct, Returns, Right, Phase, OneSource, Closing, Session, Charges
      <3>2. ASSUME dbErrors'[r] = 0, NoneRegiven', t.outcome # "crashed"
            PROVE  Exact("done", refundPc[r], t, c)
        <4>1. Phase("settleFunding", refundPc[r], s) /\ Exact("settleFunding", refundPc[r], s, c)
          BY <1>1, <1>3, <3>2 DEF Right, Session
        <4>2. s.actual = s.pre /\ s.pre = s.tokenConsumed /\ ~s.feePaid
          BY <1>1, <1>2, <1>3, <4>1 DEF Acct, Returns, Returned, Tries, Books, Phase, Session
        <4>3. /\ t.actual = s.actual /\ t.profile = s.profile /\ t.outcome = "served"
              /\ t.live = s.live /\ t.source = s.source /\ t.consumed = s.consumed /\ t.pre = s.pre
          BY <1>1, <4>1 DEF Phase, Session
        <4>4. c.wallet + c.sub = s.actual /\ c.token = Share(s, s.actual)
          BY <1>1, <1>2, <4>1, <4>2
             DEF Exact, FundingHeld, TokenHeld, FeeOf, TokenFee, Share, Reserving, Closing, Session
        <4> HIDE DEF t
        <4> QED
          BY <1>2, <4>1, <4>3, <4>4 DEF Exact, ServedExactly, Share, Reserving
      <3> QED
        BY <3>1, <3>2 DEF Right
    <2> QED
      BY <1>1, <1>2, <1>3, <2>1, <2>2, RequestRight DEF SesTo, Steps
  <1>4. CASE /\ ~BySub(r)
             /\ Goto(r, "settleToken")
             /\ ses' = [ses EXCEPT ![r] = [s EXCEPT !.fundingSettled = s.live]]
             /\ MoveWallet(r, d, Positive(d))
             /\ DbOk
    <2> DEFINE e == [c EXCEPT !.wallet = @ + d]
               t == [s EXCEPT !.fundingSettled = s.live]
    <2>1. LedgerTo(r, e)
      BY <1>1, <1>2, <1>4, MoveWalletLemma
    <2>2. Right("settleToken", refundPc[r], t, e, dbErrors'[r], NoneRegiven')
      BY <1>1, <1>2, <1>4
        DEF Right, Phase, OneSource, Exact, FundingHeld, TokenHeld, FeeOf, TokenFee,
            Share, ServedExactly, Reserving, Closing, Acct, Books, OpeningSteps, Session,
            Charges, BySub
    <2> QED
      BY <1>1, <1>2, <1>4, <2>1, <2>2, RequestRight DEF SesTo, Steps
  <1>5. CASE /\ BySub(r)
             /\ Goto(r, "settleToken")
             /\ ses' = [ses EXCEPT ![r] = [s EXCEPT !.fundingSettled = s.live]]
             /\ MoveSub(r, d)
             /\ DbOk
    <2> DEFINE e == [c EXCEPT !.sub = @ + Moved(d)]
               t == [s EXCEPT !.fundingSettled = s.live]
    <2>0. NoneRegiven => -(d) <= c.sub
      BY <1>1, <1>2, <1>5, LedgerAssumption
        DEF NoneRegiven, Acct, Returns, Returned, Books, SubHold, OpenSteps, OpeningSteps, Session,
            Charges, BySub
    <2>1. /\ LedgerTo(r, e) /\ Moved(d) \in Int
          /\ NoneRegiven \/ d >= 0 => Moved(d) = d
      BY <1>1, <1>2, <1>5, <2>0, LedgerAssumption, MoveSubExact
    <2>2. Right("settleToken", refundPc[r], t, e, dbErrors'[r], NoneRegiven')
      BY <1>1, <1>2, <1>5, <2>1
        DEF Right, Phase, OneSource, Exact, FundingHeld, TokenHeld, FeeOf, TokenFee,
            Share, ServedExactly, Reserving, Closing, Acct, Books, OpeningSteps, Session,
            Charges, BySub
    <2> QED
      BY <1>1, <1>2, <1>5, <2>1, <2>2, RequestRight DEF SesTo, Steps
  <1>6. CASE /\ (BySub(r) /\ ~SubFits(d) /\ DbOk) \/ DbError(r)
             /\ Goto(r, "done")
             /\ UNCHANGED ses
             /\ UNCHANGED ledgers
             /\ TRUE
    <2>1. LedgerTo(r, c)
      BY <1>1, <1>2, <1>6, LedgerSame
    <2>2. Right("done", refundPc[r], s, c, dbErrors'[r], NoneRegiven')
      BY <1>1, <1>2, <1>6
        DEF Right, Phase, OneSource, Exact, FundingHeld, TokenHeld, FeeOf, TokenFee,
            Share, ServedExactly, Reserving, Closing, Acct, Books, OpeningSteps, Session,
            Charges, BySub
    <2> QED
      BY <1>1, <1>2, <1>6, <2>1, <2>2, RequestRight DEF SesTo, Steps
  <1> QED
    BY <1>1, <1>2, <1>3, <1>4, <1>5, <1>6 DEF SettleFunding

(* The token pays the same difference *)
LEMMA SettleTokenRight ==
  ASSUME IInv, EInv, Grows, NEW r \in Requests, SettleToken(r) PROVE RightNow(r)'
  <1> USE LedgerAssumption
  <1> DEFINE s == ses[r]
             c == charged[r]
             d == SettleDelta(r)
  <1>1. /\ LedgerTypes /\ s \in Session /\ c \in Charges
        /\ Acct("settleToken", refundPc[r], s, c)
        /\ Right("settleToken", refundPc[r], s, c, dbErrors[r], NoneRegiven) /\ dbErrors[r] \in Nat
        /\ DbOk => dbErrors'[r] = dbErrors[r]
        /\ DbError(r) => dbErrors'[r] # 0
        /\ NoneRegiven' => NoneRegiven
        /\ UNCHANGED refundPc
    BY RightFacts DEF Grows, SettleToken, At
  <1>2. d \in Int /\ d = s.actual - s.pre /\ refundPc[r] = "none" /\ Positive(d) \in Nat
    BY <1>1 DEF SettleDelta, Positive, Acct, Books, Session
  <1>3. CASE /\ Playground(r)
             /\ Goto(r, "done")
             /\ ses' = [ses EXCEPT ![r] = [s EXCEPT !.settled = s.live]]
             /\ UNCHANGED ledgers
             /\ DbOk
    <2> DEFINE t == [s EXCEPT !.settled = s.live]
    <2>1. LedgerTo(r, c)
      BY <1>1, <1>2, <1>3, LedgerSame
    <2>2. Right("done", refundPc[r], t, c, dbErrors'[r], NoneRegiven')
      BY <1>1, <1>2, <1>3
        DEF Right, Phase, OneSource, Exact, FundingHeld, TokenHeld, FeeOf, TokenFee,
            Share, ServedExactly, Reserving, Closing, Acct, Books, OpeningSteps, Session,
            Charges, Playground
    <2> QED
      BY <1>1, <1>2, <1>3, <2>1, <2>2, RequestRight DEF SesTo, Steps
  <1>4. CASE /\ ~Playground(r)
             /\ Goto(r, "done")
             /\ ses' = [ses EXCEPT ![r] = [s EXCEPT !.settled = s.live]]
             /\ MoveToken(r, d, Positive(d))
             /\ DbOk
    <2> DEFINE e == [c EXCEPT !.token = @ + d]
               t == [s EXCEPT !.settled = s.live]
    <2>1. LedgerTo(r, e)
      BY <1>1, <1>2, <1>4, MoveTokenLemma, UncheckedTokenLemma
    <2>2. Right("done", refundPc[r], t, e, dbErrors'[r], NoneRegiven')
      <3>1. /\ Phase("done", refundPc[r], t) /\ OneSource("done", t, e)
            /\ e.regiven = 0 /\ refundPc[r] = "none"
        BY <1>1, <1>2, <1>4
           DEF Acct, Returns, Right, Phase, OneSource, Closing, Session, Charges
      <3>2. ASSUME dbErrors'[r] = 0, NoneRegiven', t.outcome # "crashed"
            PROVE  Exact("done", refundPc[r], t, e)
        <4>1. Phase("settleToken", refundPc[r], s) /\ Exact("settleToken", refundPc[r], s, c)
          BY <1>1, <1>4, <3>2 DEF Right, Session
        <4> QED
          BY <1>1, <1>2, <1>4, <3>2, <4>1
            DEF Phase, Exact, FundingHeld, TokenHeld, FeeOf, TokenFee, Share,
                ServedExactly, Reserving, Closing, Acct, Books, Session, Charges,
                Playground
      <3> QED
        BY <3>1, <3>2 DEF Right
    <2> QED
      BY <1>1, <1>2, <1>4, <2>1, <2>2, RequestRight DEF SesTo, Steps
  <1>5. CASE /\ Goto(r, "done")
             /\ ses' = [ses EXCEPT ![r] = [s EXCEPT !.settled = s.live]]
             /\ UNCHANGED ledgers
             /\ DbError(r)
    <2> DEFINE t == [s EXCEPT !.settled = s.live]
    <2>1. LedgerTo(r, c)
      BY <1>1, <1>2, <1>5, LedgerSame
    <2>2. Right("done", refundPc[r], t, c, dbErrors'[r], NoneRegiven')
      BY <1>1, <1>2, <1>5
        DEF Right, Phase, OneSource, Exact, FundingHeld, TokenHeld, FeeOf, TokenFee,
            Share, ServedExactly, Reserving, Closing, Acct, Books, OpeningSteps, Session,
            Charges, Playground
    <2> QED
      BY <1>1, <1>2, <1>5, <2>1, <2>2, RequestRight DEF SesTo, Steps
  <1> QED
    BY <1>1, <1>2, <1>3, <1>4, <1>5 DEF SettleToken

(* The fee, while the refund may still be under way *)
LEMMA ChargeFeeRight ==
  ASSUME IInv, EInv, Grows, NEW r \in Requests, ChargeFee(r) PROVE RightNow(r)'
  <1> USE LedgerAssumption
  <1> DEFINE s == ses[r]
             c == charged[r]
  <1>1. /\ LedgerTypes /\ s \in Session /\ c \in Charges
        /\ Acct("fee", refundPc[r], s, c)
        /\ Right("fee", refundPc[r], s, c, dbErrors[r], NoneRegiven) /\ dbErrors[r] \in Nat
        /\ DbOk => dbErrors'[r] = dbErrors[r]
        /\ DbError(r) => dbErrors'[r] # 0
        /\ NoneRegiven' => NoneRegiven
        /\ UNCHANGED refundPc
    BY RightFacts DEF Grows, ChargeFee, At
  <1>2. Fee \in Nat /\ s.outcome = "failed"
    BY <1>1 DEF Right, Phase
  <1>3. CASE /\ ~BySub(r)
             /\ Goto(r, "feeToken")
             /\ ses' = [ses EXCEPT ![r] = [s EXCEPT !.feePaid = TRUE]]
             /\ MoveWallet(r, Fee, Fee)
             /\ DbOk
    <2> DEFINE e == [c EXCEPT !.wallet = @ + Fee]
               t == [s EXCEPT !.feePaid = TRUE]
    <2>1. LedgerTo(r, e)
      BY <1>1, <1>2, <1>3, MoveWalletLemma
    <2>2. Right("feeToken", refundPc[r], t, e, dbErrors'[r], NoneRegiven')
      BY <1>1, <1>2, <1>3
        DEF Right, Phase, OneSource, Exact, FundingHeld, TokenHeld, FeeOf, TokenFee,
            Share, ServedExactly, Reserving, Closing, Acct, Books, OpeningSteps, Session,
            Charges, BySub
    <2> QED
      BY <1>1, <1>2, <1>3, <2>1, <2>2, RequestRight DEF SesTo, Steps
  <1>4. CASE /\ BySub(r)
             /\ Goto(r, "feeToken")
             /\ ses' = [ses EXCEPT ![r] = [s EXCEPT !.feePaid = TRUE]]
             /\ MoveSub(r, Fee)
             /\ DbOk
    <2> DEFINE e == [c EXCEPT !.sub = @ + Moved(Fee)]
               t == [s EXCEPT !.feePaid = TRUE]
    <2>0. NoneRegiven => -(Fee) <= c.sub
      BY <1>1, <1>2, <1>4, LedgerAssumption
        DEF NoneRegiven, Acct, Returns, Returned, Books, SubHold, OpenSteps, OpeningSteps, Session,
            Charges, BySub
    <2>1. /\ LedgerTo(r, e) /\ Moved(Fee) \in Int
          /\ NoneRegiven \/ Fee >= 0 => Moved(Fee) = Fee
      BY <1>1, <1>2, <1>4, <2>0, LedgerAssumption, MoveSubExact
    <2>2. Right("feeToken", refundPc[r], t, e, dbErrors'[r], NoneRegiven')
      BY <1>1, <1>2, <1>4, <2>1
        DEF Right, Phase, OneSource, Exact, FundingHeld, TokenHeld, FeeOf, TokenFee,
            Share, ServedExactly, Reserving, Closing, Acct, Books, OpeningSteps, Session,
            Charges, BySub
    <2> QED
      BY <1>1, <1>2, <1>4, <2>1, <2>2, RequestRight DEF SesTo, Steps
  <1>5. CASE /\ Goto(r, "done")
             /\ UNCHANGED ses
             /\ UNCHANGED ledgers
             /\ DbOk \/ DbError(r)
    <2>1. LedgerTo(r, c)
      BY <1>1, <1>2, <1>5, LedgerSame
    <2>2. Right("done", refundPc[r], s, c, dbErrors'[r], NoneRegiven')
      BY <1>1, <1>2, <1>5
        DEF Right, Phase, OneSource, Exact, FundingHeld, TokenHeld, FeeOf, TokenFee,
            Share, ServedExactly, Reserving, Closing, Acct, Books, OpeningSteps, Session,
            Charges, BySub
    <2> QED
      BY <1>1, <1>2, <1>5, <2>1, <2>2, RequestRight DEF SesTo, Steps
  <1> QED
    BY <1>1, <1>2, <1>3, <1>4, <1>5 DEF ChargeFee

(* The token's share of the fee *)
LEMMA ChargeFeeTokenRight ==
  ASSUME IInv, EInv, Grows, NEW r \in Requests, ChargeFeeToken(r) PROVE RightNow(r)'
  <1> USE LedgerAssumption
  <1> DEFINE s == ses[r]
             c == charged[r]
  <1>1. /\ LedgerTypes /\ s \in Session /\ c \in Charges
        /\ Acct("feeToken", refundPc[r], s, c)
        /\ Right("feeToken", refundPc[r], s, c, dbErrors[r], NoneRegiven) /\ dbErrors[r] \in Nat
        /\ DbOk => dbErrors'[r] = dbErrors[r]
        /\ DbError(r) => dbErrors'[r] # 0
        /\ NoneRegiven' => NoneRegiven
        /\ UNCHANGED refundPc
    BY RightFacts DEF Grows, ChargeFeeToken, At
  <1>2. Fee \in Nat /\ s.outcome = "failed"
    BY <1>1 DEF Right, Phase
  <1>3. CASE /\ Playground(r)
             /\ Goto(r, "done")
             /\ UNCHANGED ses
             /\ UNCHANGED ledgers
             /\ DbOk
    <2>1. LedgerTo(r, c)
      BY <1>1, <1>2, <1>3, LedgerSame
    <2>2. Right("done", refundPc[r], s, c, dbErrors'[r], NoneRegiven')
      BY <1>1, <1>2, <1>3
        DEF Right, Phase, OneSource, Exact, FundingHeld, TokenHeld, FeeOf, TokenFee,
            Share, ServedExactly, Reserving, Closing, Acct, Books, OpeningSteps, Session,
            Charges, Playground
    <2> QED
      BY <1>1, <1>2, <1>3, <2>1, <2>2, RequestRight DEF SesTo, Steps
  <1>4. CASE /\ ~Playground(r)
             /\ Goto(r, "done")
             /\ UNCHANGED ses
             /\ MoveToken(r, Fee, Fee)
             /\ DbOk
    <2> DEFINE e == [c EXCEPT !.token = @ + Fee]
    <2>1. LedgerTo(r, e)
      BY <1>1, <1>2, <1>4, MoveTokenLemma, UncheckedTokenLemma
    <2>2. Right("done", refundPc[r], s, e, dbErrors'[r], NoneRegiven')
      BY <1>1, <1>2, <1>4
        DEF Right, Phase, OneSource, Exact, FundingHeld, TokenHeld, FeeOf, TokenFee,
            Share, ServedExactly, Reserving, Closing, Acct, Books, OpeningSteps, Session,
            Charges, Playground
    <2> QED
      BY <1>1, <1>2, <1>4, <2>1, <2>2, RequestRight DEF SesTo, Steps
  <1>5. CASE /\ Goto(r, "done")
             /\ UNCHANGED ses
             /\ UNCHANGED ledgers
             /\ DbError(r)
    <2>1. LedgerTo(r, c)
      BY <1>1, <1>2, <1>5, LedgerSame
    <2>2. Right("done", refundPc[r], s, c, dbErrors'[r], NoneRegiven')
      BY <1>1, <1>2, <1>5
        DEF Right, Phase, OneSource, Exact, FundingHeld, TokenHeld, FeeOf, TokenFee,
            Share, ServedExactly, Reserving, Closing, Acct, Books, OpeningSteps, Session,
            Charges, Playground
    <2> QED
      BY <1>1, <1>2, <1>5, <2>1, <2>2, RequestRight DEF SesTo, Steps
  <1> QED
    BY <1>1, <1>2, <1>3, <1>4, <1>5 DEF ChargeFeeToken

(* The token is pre-consumed first *)
LEMMA PreConsumeTokenRight ==
  ASSUME IInv, EInv, Grows, NEW r \in Requests, PreConsumeToken(r) PROVE RightNow(r)'
  <1> USE LedgerAssumption
  <1> DEFINE s == ses[r]
             c == charged[r]
             a == Amount(r)
  <1>1. /\ LedgerTypes /\ s \in Session /\ c \in Charges
        /\ Acct("preToken", refundPc[r], s, c)
        /\ Right("preToken", refundPc[r], s, c, dbErrors[r], NoneRegiven) /\ dbErrors[r] \in Nat
        /\ DbOk => dbErrors'[r] = dbErrors[r]
        /\ DbError(r) => dbErrors'[r] # 0
        /\ NoneRegiven' => NoneRegiven
        /\ UNCHANGED refundPc
    BY RightFacts DEF Grows, PreConsumeToken, At
  <1>2. a \in Nat /\ UncheckedToken(a) \in Nat /\ ~s.live /\ refundPc[r] = "none"
    BY <1>1, UncheckedTokenLemma DEF Amount, Acct, Books, OpeningSteps, Session
  <1>3. CASE /\ Playground(r)
             /\ Goto(r, "preFunding")
             /\ ses' = [ses EXCEPT ![r] = [s EXCEPT !.tokenConsumed = a]]
             /\ UNCHANGED ledgers
             /\ DbOk
    <2> DEFINE t == [s EXCEPT !.tokenConsumed = a]
    <2>1. LedgerTo(r, c)
      BY <1>1, <1>2, <1>3, LedgerSame
    <2>2. Right("preFunding", refundPc[r], t, c, dbErrors'[r], NoneRegiven')
      BY <1>1, <1>2, <1>3
        DEF Right, Phase, OneSource, Exact, FundingHeld, TokenHeld, FeeOf, TokenFee,
            Share, ServedExactly, Reserving, Closing, Acct, Books, OpeningSteps, Session,
            Charges, Playground
    <2> QED
      BY <1>1, <1>2, <1>3, <2>1, <2>2, RequestRight DEF SesTo, Steps
  <1>4. CASE /\ ~Playground(r)
             /\ Goto(r, "preFunding")
             /\ ses' = [ses EXCEPT ![r] = [s EXCEPT !.tokenConsumed = a]]
             /\ MoveToken(r, a, UncheckedToken(a))
             /\ DbOk
    <2> DEFINE e == [c EXCEPT !.token = @ + a]
               t == [s EXCEPT !.tokenConsumed = a]
    <2>1. LedgerTo(r, e)
      BY <1>1, <1>2, <1>4, MoveTokenLemma, UncheckedTokenLemma
    <2>2. Right("preFunding", refundPc[r], t, e, dbErrors'[r], NoneRegiven')
      BY <1>1, <1>2, <1>4
        DEF Right, Phase, OneSource, Exact, FundingHeld, TokenHeld, FeeOf, TokenFee,
            Share, ServedExactly, Reserving, Closing, Acct, Books, OpeningSteps, Session,
            Charges, Playground
    <2> QED
      BY <1>1, <1>2, <1>4, <2>1, <2>2, RequestRight DEF SesTo, Steps
  <1>5. CASE /\ Goto(r, "done")
             /\ ses' = [ses EXCEPT ![r] = [s EXCEPT !.source = "none", !.tokenConsumed = 0, !.outcome = "rejected"]]
             /\ UNCHANGED ledgers
             /\ DbOk \/ DbError(r)
    <2> DEFINE t == [s EXCEPT !.source = "none", !.tokenConsumed = 0, !.outcome = "rejected"]
    <2>1. LedgerTo(r, c)
      BY <1>1, <1>2, <1>5, LedgerSame
    <2>2. Right("done", refundPc[r], t, c, dbErrors'[r], NoneRegiven')
      BY <1>1, <1>2, <1>5
        DEF Right, Phase, OneSource, Exact, FundingHeld, TokenHeld, FeeOf, TokenFee,
            Share, ServedExactly, Reserving, Closing, Acct, Books, OpeningSteps, Session,
            Charges, Playground
    <2> QED
      BY <1>1, <1>2, <1>5, <2>1, <2>2, RequestRight DEF SesTo, Steps
  <1>6. CASE RetryTask(r) /\ UNCHANGED ledgers
    BY <1>1, <1>6, RetryUntouchedRight DEF PreConsumeToken, At, OpeningSteps
  <1> QED
    BY <1>1, <1>2, <1>3, <1>4, <1>5, <1>6 DEF PreConsumeToken, NotOpened, Reject

(* Then the funding source, and the session opens *)
LEMMA PreConsumeFundingRight ==
  ASSUME IInv, EInv, Grows, NEW r \in Requests, PreConsumeFunding(r) PROVE RightNow(r)'
  <1> USE LedgerAssumption
  <1> DEFINE s == ses[r]
             c == charged[r]
             a == Amount(r)
             w == IF s.attempt = 0 THEN "attempt" ELSE "dispatch"
  <1>1. /\ LedgerTypes /\ s \in Session /\ c \in Charges
        /\ Acct("preFunding", refundPc[r], s, c)
        /\ Right("preFunding", refundPc[r], s, c, dbErrors[r], NoneRegiven) /\ dbErrors[r] \in Nat
        /\ DbOk => dbErrors'[r] = dbErrors[r]
        /\ DbError(r) => dbErrors'[r] # 0
        /\ NoneRegiven' => NoneRegiven
        /\ UNCHANGED refundPc
    BY RightFacts DEF Grows, PreConsumeFunding, At
  <1>2. /\ a \in Nat /\ a = s.tokenConsumed /\ ~s.live /\ refundPc[r] = "none"
        /\ w \in Steps /\ s.source # "none"
    BY <1>1, UncheckedTokenLemma DEF Amount, BySub, Acct, Books, OpeningSteps, Session, Steps
  <1>3. CASE /\ BySub(r)
             /\ Opened(r, [s EXCEPT !.pre = a, !.consumed = a])
             /\ MoveSub(r, a)
             /\ DbOk
    <2> DEFINE e == [c EXCEPT !.sub = @ + Moved(a)]
               t == [[s EXCEPT !.pre = a, !.consumed = a] EXCEPT !.live = TRUE]
    <2>0. NoneRegiven => -(a) <= c.sub
      BY <1>1, <1>2, <1>3, LedgerAssumption
        DEF NoneRegiven, Acct, Returns, Returned, Books, SubHold, OpenSteps, OpeningSteps, Session,
            Charges, BySub
    <2>1. /\ LedgerTo(r, e) /\ Moved(a) \in Int
          /\ NoneRegiven \/ a >= 0 => Moved(a) = a
      BY <1>1, <1>2, <1>3, <2>0, LedgerAssumption, MoveSubExact
    <2>2. Right(w, refundPc[r], t, e, dbErrors'[r], NoneRegiven')
      BY <1>1, <1>2, <1>3, <2>1
        DEF Right, Phase, OneSource, Exact, FundingHeld, TokenHeld, FeeOf, TokenFee,
            Share, ServedExactly, Reserving, Closing, Acct, Books, OpeningSteps, Session,
            Charges, BySub
    <2>3. ses' = [ses EXCEPT ![r] = t] /\ Goto(r, w)
      BY <1>1, <1>3 DEF Opened, Session
    <2> QED
      BY <1>1, <1>2, <1>3, <2>1, <2>2, <2>3, RequestRight DEF SesTo, Steps
  <1>4. CASE /\ ~BySub(r)
             /\ Opened(r, [s EXCEPT !.pre = a, !.consumed = a])
             /\ MoveWallet(r, a, 0)
             /\ DbOk
    <2> DEFINE e == [c EXCEPT !.wallet = @ + a]
               t == [[s EXCEPT !.pre = a, !.consumed = a] EXCEPT !.live = TRUE]
    <2>1. LedgerTo(r, e)
      BY <1>1, <1>2, <1>4, MoveWalletLemma
    <2>2. Right(w, refundPc[r], t, e, dbErrors'[r], NoneRegiven')
      BY <1>1, <1>2, <1>4
        DEF Right, Phase, OneSource, Exact, FundingHeld, TokenHeld, FeeOf, TokenFee,
            Share, ServedExactly, Reserving, Closing, Acct, Books, OpeningSteps, Session,
            Charges, BySub
    <2>3. ses' = [ses EXCEPT ![r] = t] /\ Goto(r, w)
      BY <1>1, <1>4 DEF Opened, Session
    <2> QED
      BY <1>1, <1>2, <1>4, <2>1, <2>2, <2>3, RequestRight DEF SesTo, Steps
  <1>5. CASE /\ Goto(r, "preRollback")
             /\ ses' = [ses EXCEPT ![r] = [s EXCEPT !.insufficient = (dbErrors' = dbErrors)]]
             /\ UNCHANGED ledgers
             /\ DbOk \/ DbError(r)
    <2> DEFINE t == [s EXCEPT !.insufficient = (dbErrors' = dbErrors)]
    <2>1. LedgerTo(r, c)
      BY <1>1, <1>2, <1>5, LedgerSame
    <2>2. Right("preRollback", refundPc[r], t, c, dbErrors'[r], NoneRegiven')
      BY <1>1, <1>2, <1>5
        DEF Right, Phase, OneSource, Exact, FundingHeld, TokenHeld, FeeOf, TokenFee,
            Share, ServedExactly, Reserving, Closing, Acct, Books, OpeningSteps, Session,
            Charges, BySub
    <2> QED
      BY <1>1, <1>2, <1>5, <2>1, <2>2, RequestRight DEF SesTo, Steps
  <1> QED
    BY <1>1, <1>2, <1>3, <1>4, <1>5 DEF PreConsumeFunding

(* The token is given back, and nothing is left of the rejected source *)
LEMMA PreConsumeRollbackRight ==
  ASSUME IInv, EInv, Grows, NEW r \in Requests, PreConsumeRollback(r) PROVE RightNow(r)'
  <1> USE LedgerAssumption
  <1> DEFINE s == ses[r]
             c == charged[r]
             d == s.tokenConsumed
  <1>1. /\ LedgerTypes /\ s \in Session /\ c \in Charges
        /\ Acct("preRollback", refundPc[r], s, c)
        /\ Right("preRollback", refundPc[r], s, c, dbErrors[r], NoneRegiven) /\ dbErrors[r] \in Nat
        /\ DbOk => dbErrors'[r] = dbErrors[r]
        /\ DbError(r) => dbErrors'[r] # 0
        /\ NoneRegiven' => NoneRegiven
        /\ UNCHANGED refundPc
    BY RightFacts DEF Grows, PreConsumeRollback, At
  <1>2. d \in Nat /\ -d \in Int /\ ~s.live /\ refundPc[r] = "none"
    BY <1>1 DEF Acct, Returns, Returned, Tries, Books, OpeningSteps, Session
  <1>3. CASE /\ ~Playground(r)
             /\ Goto(r, "fallback")
             /\ ses' = [ses EXCEPT ![r] = [s EXCEPT !.tokenConsumed = 0]]
             /\ MoveToken(r, (-d), 0)
             /\ DbOk
    <2> DEFINE e == [c EXCEPT !.token = @ + (-d)]
               t == [s EXCEPT !.tokenConsumed = 0]
    <2>1. LedgerTo(r, e)
      BY <1>1, <1>2, <1>3, MoveTokenLemma, UncheckedTokenLemma
    <2>2. Right("fallback", refundPc[r], t, e, dbErrors'[r], NoneRegiven')
      BY <1>1, <1>2, <1>3
        DEF Right, Phase, OneSource, Exact, FundingHeld, TokenHeld, FeeOf, TokenFee,
            Share, ServedExactly, Reserving, Closing, Acct, Books, OpeningSteps, Session,
            Charges, Playground
    <2> QED
      BY <1>1, <1>2, <1>3, <2>1, <2>2, RequestRight DEF SesTo, Steps
  <1>4. CASE /\ ~Playground(r)
             /\ Goto(r, "done")
             /\ ses' = [ses EXCEPT ![r] = [s EXCEPT !.source = "none", !.tokenConsumed = 0, !.outcome = "rejected"]]
             /\ MoveToken(r, (-d), 0)
             /\ DbOk
    <2> DEFINE e == [c EXCEPT !.token = @ + (-d)]
               t == [s EXCEPT !.source = "none", !.tokenConsumed = 0, !.outcome = "rejected"]
    <2>1. LedgerTo(r, e)
      BY <1>1, <1>2, <1>4, MoveTokenLemma, UncheckedTokenLemma
    <2>2. Right("done", refundPc[r], t, e, dbErrors'[r], NoneRegiven')
      BY <1>1, <1>2, <1>4
        DEF Right, Phase, OneSource, Exact, FundingHeld, TokenHeld, FeeOf, TokenFee,
            Share, ServedExactly, Reserving, Closing, Acct, Books, OpeningSteps, Session,
            Charges, Playground
    <2> QED
      BY <1>1, <1>2, <1>4, <2>1, <2>2, RequestRight DEF SesTo, Steps
  <1>5. CASE /\ d = 0 \/ Playground(r) \/ DbError(r)
             /\ Goto(r, "fallback")
             /\ ses' = [ses EXCEPT ![r] = [s EXCEPT !.tokenConsumed = 0]]
             /\ UNCHANGED ledgers
             /\ DbOk \/ DbError(r)
    <2> DEFINE t == [s EXCEPT !.tokenConsumed = 0]
    <2>1. LedgerTo(r, c)
      BY <1>1, <1>2, <1>5, LedgerSame
    <2>2. Right("fallback", refundPc[r], t, c, dbErrors'[r], NoneRegiven')
      BY <1>1, <1>2, <1>5
        DEF Right, Phase, OneSource, Exact, FundingHeld, TokenHeld, FeeOf, TokenFee,
            Share, ServedExactly, Reserving, Closing, Acct, Books, OpeningSteps, Session,
            Charges, Playground
    <2> QED
      BY <1>1, <1>2, <1>5, <2>1, <2>2, RequestRight DEF SesTo, Steps
  <1>6. CASE /\ d = 0 \/ Playground(r) \/ DbError(r)
             /\ Goto(r, "done")
             /\ ses' = [ses EXCEPT ![r] = [s EXCEPT !.source = "none", !.tokenConsumed = 0, !.outcome = "rejected"]]
             /\ UNCHANGED ledgers
             /\ DbOk \/ DbError(r)
    <2> DEFINE t == [s EXCEPT !.source = "none", !.tokenConsumed = 0, !.outcome = "rejected"]
    <2>1. LedgerTo(r, c)
      BY <1>1, <1>2, <1>6, LedgerSame
    <2>2. Right("done", refundPc[r], t, c, dbErrors'[r], NoneRegiven')
      BY <1>1, <1>2, <1>6
        DEF Right, Phase, OneSource, Exact, FundingHeld, TokenHeld, FeeOf, TokenFee,
            Share, ServedExactly, Reserving, Closing, Acct, Books, OpeningSteps, Session,
            Charges, Playground
    <2> QED
      BY <1>1, <1>2, <1>6, <2>1, <2>2, RequestRight DEF SesTo, Steps
  <1>7. CASE ~Playground(r) /\ RetryTask(r) /\ MoveToken(r, (-d), 0) /\ DbOk
    <2> DEFINE e == [c EXCEPT !.token = @ + (-d)]
    <2>1. LedgerTo(r, e)
      BY <1>1, <1>2, <1>7, MoveTokenLemma
    <2>2. e \in Charges /\ e = [c EXCEPT !.token = e.token] /\ e.token = c.token - d
      BY <1>1, <1>2 DEF Charges
    <2>3. dbErrors'[r] = 0 /\ NoneRegiven' => e.token = 0
      BY <1>1, <1>2, <1>7, <2>2
        DEF Right, Phase, Exact, FundingHeld, TokenHeld, FeeOf, TokenFee, Share, Closing,
            Session, Charges, Playground
    <2> HIDE DEF e
    <2> QED
      BY <1>7, <2>1, <2>2, <2>3, RetryRight DEF PreConsumeRollback, At, OpeningSteps
  <1>8. CASE /\ d = 0 \/ Playground(r) \/ DbError(r)
             /\ RetryTask(r) /\ UNCHANGED ledgers /\ (DbOk \/ DbError(r))
    <2>1. LedgerTo(r, c)
      BY <1>1, <1>8, LedgerSame
    <2>2. c = [c EXCEPT !.token = c.token]
      BY <1>1 DEF Charges
    <2>3. dbErrors'[r] = 0 /\ NoneRegiven' => c.token = 0
      BY <1>1, <1>2, <1>8
        DEF Right, Phase, Exact, FundingHeld, TokenHeld, FeeOf, TokenFee, Share, Closing,
            Session, Charges, Playground
    <2> QED
      BY <1>1, <1>8, <2>1, <2>2, <2>3, RetryRight DEF PreConsumeRollback, At, OpeningSteps
  <1> QED
    BY <1>1, <1>2, <1>3, <1>4, <1>5, <1>6, <1>7, <1>8 DEF PreConsumeRollback, NotOpened, Reject

(* A trusted or free session opens without a reservation *)
LEMMA TryWalletRight ==
  ASSUME IInv, EInv, Grows, NEW r \in Requests, TryWallet(r) PROVE RightNow(r)'
  <1> USE LedgerAssumption
  <1> DEFINE s == ses[r]
             c == charged[r]
             w == IF s.attempt = 0 THEN "attempt" ELSE "dispatch"
  <1>1. /\ LedgerTypes /\ s \in Session /\ c \in Charges
        /\ Acct("tryWallet", refundPc[r], s, c)
        /\ Right("tryWallet", refundPc[r], s, c, dbErrors[r], NoneRegiven) /\ dbErrors[r] \in Nat
        /\ DbOk => dbErrors'[r] = dbErrors[r]
        /\ DbError(r) => dbErrors'[r] # 0
        /\ NoneRegiven' => NoneRegiven
        /\ UNCHANGED refundPc
    BY RightFacts DEF Grows, TryWallet, At
  <1>2. ~s.live /\ refundPc[r] = "none" /\ w \in Steps
    BY <1>1 DEF Acct, Returns, Returned, Tries, Books, OpeningSteps, Steps
  <1>3. CASE /\ Goto(r, "done")
             /\ ses' = [ses EXCEPT ![r] = [s EXCEPT !.source = "none", !.tokenConsumed = 0, !.outcome = "rejected"]]
             /\ UNCHANGED ledgers
             /\ DbOk \/ DbError(r)
    <2> DEFINE t == [s EXCEPT !.source = "none", !.tokenConsumed = 0, !.outcome = "rejected"]
    <2>1. LedgerTo(r, c)
      BY <1>1, <1>2, <1>3, LedgerSame
    <2>2. Right("done", refundPc[r], t, c, dbErrors'[r], NoneRegiven')
      BY <1>1, <1>2, <1>3
        DEF Right, Phase, OneSource, Exact, FundingHeld, TokenHeld, FeeOf, TokenFee,
            Share, ServedExactly, Reserving, Closing, Acct, Books, OpeningSteps, Session,
            Charges
    <2> QED
      BY <1>1, <1>2, <1>3, <2>1, <2>2, RequestRight DEF SesTo, Steps
  <1>4. CASE /\ Goto(r, "fallback")
             /\ UNCHANGED ses
             /\ UNCHANGED ledgers
             /\ DbOk
    <2>1. LedgerTo(r, c)
      BY <1>1, <1>2, <1>4, LedgerSame
    <2>2. Right("fallback", refundPc[r], s, c, dbErrors'[r], NoneRegiven')
      BY <1>1, <1>2, <1>4
        DEF Right, Phase, OneSource, Exact, FundingHeld, TokenHeld, FeeOf, TokenFee,
            Share, ServedExactly, Reserving, Closing, Acct, Books, OpeningSteps, Session,
            Charges
    <2> QED
      BY <1>1, <1>2, <1>4, <2>1, <2>2, RequestRight DEF SesTo, Steps
  <1>5. CASE /\ Goto(r, "preToken")
             /\ UNCHANGED ses
             /\ UNCHANGED ledgers
             /\ DbOk
    <2>1. LedgerTo(r, c)
      BY <1>1, <1>2, <1>5, LedgerSame
    <2>2. Right("preToken", refundPc[r], s, c, dbErrors'[r], NoneRegiven')
      BY <1>1, <1>2, <1>5
        DEF Right, Phase, OneSource, Exact, FundingHeld, TokenHeld, FeeOf, TokenFee,
            Share, ServedExactly, Reserving, Closing, Acct, Books, OpeningSteps, Session,
            Charges
    <2> QED
      BY <1>1, <1>2, <1>5, <2>1, <2>2, RequestRight DEF SesTo, Steps
  <1>6. CASE /\ Opened(r, [s EXCEPT !.trusted = ShouldTrust(r, wallet)])
             /\ UNCHANGED ledgers
             /\ DbOk
    <2> DEFINE t == [[s EXCEPT !.trusted = ShouldTrust(r, wallet)] EXCEPT !.live = TRUE]
    <2>1. LedgerTo(r, c)
      BY <1>1, <1>2, <1>6, LedgerSame
    <2>2. Right(w, refundPc[r], t, c, dbErrors'[r], NoneRegiven')
      BY <1>1, <1>2, <1>6
        DEF Right, Phase, OneSource, Exact, FundingHeld, TokenHeld, FeeOf, TokenFee,
            Share, ServedExactly, Reserving, Closing, Acct, Books, OpeningSteps, Session,
            Charges
    <2>3. ses' = [ses EXCEPT ![r] = t] /\ Goto(r, w)
      BY <1>1, <1>6 DEF Opened, Session
    <2> QED
      BY <1>1, <1>2, <1>6, <2>1, <2>2, <2>3, RequestRight DEF SesTo, Steps
  <1>7. CASE RetryTask(r) /\ UNCHANGED ledgers /\ DbError(r)
    BY <1>1, <1>7, RetryUntouchedRight DEF TryWallet, At, OpeningSteps
  <1> QED
    BY <1>1, <1>2, <1>3, <1>4, <1>5, <1>6, <1>7 DEF TryWallet, NotOpened, Reject

(* A source is chosen: the request owes nothing yet *)
LEMMA ChooseRight ==
  ASSUME IInv, EInv, Grows, NEW r \in Requests, Choose(r) PROVE RightNow(r)'
  <1> USE LedgerAssumption
  <1> DEFINE s == ses[r]
             c == charged[r]
  <1>1. /\ LedgerTypes /\ s \in Session /\ c \in Charges
        /\ Acct("choose", refundPc[r], s, c)
        /\ Right("choose", refundPc[r], s, c, dbErrors[r], NoneRegiven) /\ dbErrors[r] \in Nat
        /\ DbOk => dbErrors'[r] = dbErrors[r]
        /\ DbError(r) => dbErrors'[r] # 0
        /\ NoneRegiven' => NoneRegiven
        /\ UNCHANGED refundPc
    BY RightFacts DEF Grows, Choose, At
  <1>2. ~s.live /\ refundPc[r] = "none" /\ s.profile.pref \in Prefs
    BY <1>1, ProfilesAssumption DEF Acct, Returns, Returned, Tries, Books, OpeningSteps, Session
  <1>3. CASE /\ Goto(r, "done")
             /\ ses' = [ses EXCEPT ![r] = [s EXCEPT !.source = "none", !.tokenConsumed = 0, !.outcome = "rejected"]]
             /\ UNCHANGED ledgers
             /\ DbOk \/ DbError(r)
    <2> DEFINE t == [s EXCEPT !.source = "none", !.tokenConsumed = 0, !.outcome = "rejected"]
    <2>1. LedgerTo(r, c)
      BY <1>1, <1>2, <1>3, LedgerSame
    <2>2. Right("done", refundPc[r], t, c, dbErrors'[r], NoneRegiven')
      BY <1>1, <1>2, <1>3
        DEF Right, Phase, OneSource, Exact, FundingHeld, TokenHeld, FeeOf, TokenFee,
            Share, ServedExactly, Reserving, Closing, Acct, Books, OpeningSteps, Session,
            Charges
    <2> QED
      BY <1>1, <1>2, <1>3, <2>1, <2>2, RequestRight DEF SesTo, Steps
  <1>4. CASE /\ Goto(r, "preToken")
             /\ ses' = [ses EXCEPT ![r] = [s EXCEPT !.source = "subscription", !.fallback = "none", !.tokenConsumed = 0]]
             /\ UNCHANGED ledgers
             /\ DbOk
    <2> DEFINE t == [s EXCEPT !.source = "subscription", !.fallback = "none", !.tokenConsumed = 0]
    <2>1. LedgerTo(r, c)
      BY <1>1, <1>2, <1>4, LedgerSame
    <2>2. Right("preToken", refundPc[r], t, c, dbErrors'[r], NoneRegiven')
      BY <1>1, <1>2, <1>4
        DEF Right, Phase, OneSource, Exact, FundingHeld, TokenHeld, FeeOf, TokenFee,
            Share, ServedExactly, Reserving, Closing, Acct, Books, OpeningSteps, Session,
            Charges
    <2> QED
      BY <1>1, <1>2, <1>4, <2>1, <2>2, RequestRight DEF SesTo, Steps
  <1>5. CASE /\ Goto(r, "preToken")
             /\ ses' = [ses EXCEPT ![r] = [s EXCEPT !.source = "subscription", !.fallback = "wallet", !.tokenConsumed = 0]]
             /\ UNCHANGED ledgers
             /\ DbOk
    <2> DEFINE t == [s EXCEPT !.source = "subscription", !.fallback = "wallet", !.tokenConsumed = 0]
    <2>1. LedgerTo(r, c)
      BY <1>1, <1>2, <1>5, LedgerSame
    <2>2. Right("preToken", refundPc[r], t, c, dbErrors'[r], NoneRegiven')
      BY <1>1, <1>2, <1>5
        DEF Right, Phase, OneSource, Exact, FundingHeld, TokenHeld, FeeOf, TokenFee,
            Share, ServedExactly, Reserving, Closing, Acct, Books, OpeningSteps, Session,
            Charges
    <2> QED
      BY <1>1, <1>2, <1>5, <2>1, <2>2, RequestRight DEF SesTo, Steps
  <1>6. CASE /\ Goto(r, "tryWallet")
             /\ ses' = [ses EXCEPT ![r] = [s EXCEPT !.source = "wallet", !.fallback = "none", !.tokenConsumed = 0]]
             /\ UNCHANGED ledgers
             /\ DbOk
    <2> DEFINE t == [s EXCEPT !.source = "wallet", !.fallback = "none", !.tokenConsumed = 0]
    <2>1. LedgerTo(r, c)
      BY <1>1, <1>2, <1>6, LedgerSame
    <2>2. Right("tryWallet", refundPc[r], t, c, dbErrors'[r], NoneRegiven')
      BY <1>1, <1>2, <1>6
        DEF Right, Phase, OneSource, Exact, FundingHeld, TokenHeld, FeeOf, TokenFee,
            Share, ServedExactly, Reserving, Closing, Acct, Books, OpeningSteps, Session,
            Charges
    <2> QED
      BY <1>1, <1>2, <1>6, <2>1, <2>2, RequestRight DEF SesTo, Steps
  <1>7. CASE /\ Goto(r, "tryWallet")
             /\ ses' = [ses EXCEPT ![r] = [s EXCEPT !.source = "wallet", !.fallback = "subscription", !.tokenConsumed = 0]]
             /\ UNCHANGED ledgers
             /\ DbOk
    <2> DEFINE t == [s EXCEPT !.source = "wallet", !.fallback = "subscription", !.tokenConsumed = 0]
    <2>1. LedgerTo(r, c)
      BY <1>1, <1>2, <1>7, LedgerSame
    <2>2. Right("tryWallet", refundPc[r], t, c, dbErrors'[r], NoneRegiven')
      BY <1>1, <1>2, <1>7
        DEF Right, Phase, OneSource, Exact, FundingHeld, TokenHeld, FeeOf, TokenFee,
            Share, ServedExactly, Reserving, Closing, Acct, Books, OpeningSteps, Session,
            Charges
    <2> QED
      BY <1>1, <1>2, <1>7, <2>1, <2>2, RequestRight DEF SesTo, Steps
  <1>8. CASE RetryTask(r) /\ UNCHANGED ledgers /\ DbError(r)
    BY <1>1, <1>8, RetryUntouchedRight DEF Choose, At, OpeningSteps
  <1> QED
    BY <1>1, <1>2, <1>3, <1>4, <1>5, <1>6, <1>7, <1>8 DEF Choose, Try, NotOpened, Reject, Prefs

(* The other source is tried: the first one holds nothing any more *)
LEMMA FallBackRight ==
  ASSUME IInv, EInv, Grows, NEW r \in Requests, FallBack(r) PROVE RightNow(r)'
  <1> USE LedgerAssumption
  <1> DEFINE s == ses[r]
             c == charged[r]
  <1>1. /\ LedgerTypes /\ s \in Session /\ c \in Charges
        /\ Acct("fallback", refundPc[r], s, c)
        /\ Right("fallback", refundPc[r], s, c, dbErrors[r], NoneRegiven) /\ dbErrors[r] \in Nat
        /\ DbOk => dbErrors'[r] = dbErrors[r]
        /\ DbError(r) => dbErrors'[r] # 0
        /\ NoneRegiven' => NoneRegiven
        /\ UNCHANGED refundPc
    BY RightFacts DEF Grows, FallBack, At
  <1>2. ~s.live /\ refundPc[r] = "none" /\ s.profile.pref \in Prefs
    BY <1>1, ProfilesAssumption DEF Acct, Returns, Returned, Tries, Books, OpeningSteps, Session
  <1>3. CASE /\ Goto(r, "done")
             /\ ses' = [ses EXCEPT ![r] = [s EXCEPT !.source = "none", !.tokenConsumed = 0, !.outcome = "rejected"]]
             /\ UNCHANGED ledgers
             /\ DbOk \/ DbError(r)
    <2> DEFINE t == [s EXCEPT !.source = "none", !.tokenConsumed = 0, !.outcome = "rejected"]
    <2>1. LedgerTo(r, c)
      BY <1>1, <1>2, <1>3, LedgerSame
    <2>2. Right("done", refundPc[r], t, c, dbErrors'[r], NoneRegiven')
      BY <1>1, <1>2, <1>3
        DEF Right, Phase, OneSource, Exact, FundingHeld, TokenHeld, FeeOf, TokenFee,
            Share, ServedExactly, Reserving, Closing, Acct, Books, OpeningSteps, Session,
            Charges
    <2> QED
      BY <1>1, <1>2, <1>3, <2>1, <2>2, RequestRight DEF SesTo, Steps
  <1>4. CASE /\ Goto(r, "preToken")
             /\ ses' = [ses EXCEPT ![r] = [s EXCEPT !.source = "subscription", !.fallback = "none", !.tokenConsumed = 0]]
             /\ UNCHANGED ledgers
             /\ DbOk
    <2> DEFINE t == [s EXCEPT !.source = "subscription", !.fallback = "none", !.tokenConsumed = 0]
    <2>1. LedgerTo(r, c)
      BY <1>1, <1>2, <1>4, LedgerSame
    <2>2. Right("preToken", refundPc[r], t, c, dbErrors'[r], NoneRegiven')
      BY <1>1, <1>2, <1>4
        DEF Right, Phase, OneSource, Exact, FundingHeld, TokenHeld, FeeOf, TokenFee,
            Share, ServedExactly, Reserving, Closing, Acct, Books, OpeningSteps, Session,
            Charges
    <2> QED
      BY <1>1, <1>2, <1>4, <2>1, <2>2, RequestRight DEF SesTo, Steps
  <1>5. CASE /\ Goto(r, "tryWallet")
             /\ ses' = [ses EXCEPT ![r] = [s EXCEPT !.source = "wallet", !.fallback = "none", !.tokenConsumed = 0]]
             /\ UNCHANGED ledgers
             /\ DbOk
    <2> DEFINE t == [s EXCEPT !.source = "wallet", !.fallback = "none", !.tokenConsumed = 0]
    <2>1. LedgerTo(r, c)
      BY <1>1, <1>2, <1>5, LedgerSame
    <2>2. Right("tryWallet", refundPc[r], t, c, dbErrors'[r], NoneRegiven')
      BY <1>1, <1>2, <1>5
        DEF Right, Phase, OneSource, Exact, FundingHeld, TokenHeld, FeeOf, TokenFee,
            Share, ServedExactly, Reserving, Closing, Acct, Books, OpeningSteps, Session,
            Charges
    <2> QED
      BY <1>1, <1>2, <1>5, <2>1, <2>2, RequestRight DEF SesTo, Steps
  <1>6. CASE RetryTask(r) /\ UNCHANGED ledgers /\ (DbOk \/ DbError(r))
    BY <1>1, <1>6, RetryUntouchedRight DEF FallBack, At, OpeningSteps
  <1> QED
    BY <1>1, <1>2, <1>3, <1>4, <1>5, <1>6 DEF FallBack, Try, NotOpened, Reject

(* A turn of the retry loop moves no money *)
LEMMA BeginAttemptRight ==
  ASSUME IInv, EInv, Grows, NEW r \in Requests, BeginAttempt(r) PROVE RightNow(r)'
  <1> USE LedgerAssumption
  <1> DEFINE s == ses[r]
             c == charged[r]
             k == NextAttempt(r)
  <1>1. /\ LedgerTypes /\ s \in Session /\ c \in Charges
        /\ Acct("attempt", refundPc[r], s, c)
        /\ Right("attempt", refundPc[r], s, c, dbErrors[r], NoneRegiven) /\ dbErrors[r] \in Nat
        /\ DbOk => dbErrors'[r] = dbErrors[r]
        /\ DbError(r) => dbErrors'[r] # 0
        /\ NoneRegiven' => NoneRegiven
        /\ UNCHANGED refundPc
    BY RightFacts DEF Grows, BeginAttempt, At
  <1>2. refundPc[r] = "none" /\ DbOk /\ UNCHANGED ledgers
    BY <1>1 DEF Acct, Returns, Returned, Tries, Books, BeginAttempt, DbOk
  <1>3. CASE /\ Goto(r, "failing")
             /\ ses' = [ses EXCEPT ![r] = [s EXCEPT !.outcome = "failed"]]
             /\ UNCHANGED ledgers
             /\ DbOk
    <2> DEFINE t == [s EXCEPT !.outcome = "failed"]
    <2>1. LedgerTo(r, c)
      BY <1>1, <1>2, <1>3, LedgerSame
    <2>2. Right("failing", refundPc[r], t, c, dbErrors'[r], NoneRegiven')
      BY <1>1, <1>2, <1>3
        DEF Right, Phase, OneSource, Exact, FundingHeld, TokenHeld, FeeOf, TokenFee,
            Share, ServedExactly, Reserving, Closing, Acct, Books, OpeningSteps, Session,
            Charges
    <2> QED
      BY <1>1, <1>2, <1>3, <2>1, <2>2, RequestRight DEF SesTo, Steps
  <1>4. CASE /\ Goto(r, "dispatch")
             /\ ses' = [ses EXCEPT ![r] = [s EXCEPT !.attempt = k]]
             /\ UNCHANGED ledgers
             /\ DbOk
    <2> DEFINE t == [s EXCEPT !.attempt = k]
    <2>1. LedgerTo(r, c)
      BY <1>1, <1>2, <1>4, LedgerSame
    <2>2. Right("dispatch", refundPc[r], t, c, dbErrors'[r], NoneRegiven')
      BY <1>1, <1>2, <1>4
        DEF Right, Phase, OneSource, Exact, FundingHeld, TokenHeld, FeeOf, TokenFee,
            Share, ServedExactly, Reserving, Closing, Acct, Books, OpeningSteps, Session,
            Charges
    <2> QED
      BY <1>1, <1>2, <1>4, <2>1, <2>2, RequestRight DEF SesTo, Steps
  <1>5. ASSUME NEW q \in PreQuotas, ~s.live, Goto(r, "choose"), ses' = [ses EXCEPT ![r] = [s EXCEPT !.attempt = k, !.quota = q]],
               UNCHANGED ledgers, DbOk
        PROVE  RightNow(r)'
    <2> DEFINE t == [s EXCEPT !.attempt = k, !.quota = q]
    <2>1. LedgerTo(r, c)
      BY <1>1, <1>2, <1>5, LedgerSame
    <2>2. Right("choose", refundPc[r], t, c, dbErrors'[r], NoneRegiven')
      BY <1>1, <1>2, <1>5
        DEF Right, Phase, OneSource, Exact, FundingHeld, TokenHeld, FeeOf, TokenFee,
            Share, ServedExactly, Reserving, Closing, Acct, Books, OpeningSteps, Session,
            Charges
    <2> QED
      BY <1>1, <1>2, <1>5, <2>1, <2>2, RequestRight DEF SesTo, Steps
  <1>6. ASSUME NEW q \in PreQuotas, s.live, Goto(r, "reserveFunding"), ses' = [ses EXCEPT ![r] = [s EXCEPT !.attempt = k, !.target = q]],
               UNCHANGED ledgers, DbOk
        PROVE  RightNow(r)'
    <2> DEFINE t == [s EXCEPT !.attempt = k, !.target = q]
    <2>1. LedgerTo(r, c)
      BY <1>1, <1>2, <1>6, LedgerSame
    <2>2. Right("reserveFunding", refundPc[r], t, c, dbErrors'[r], NoneRegiven')
      BY <1>1, <1>2, <1>6
        DEF Right, Phase, OneSource, Exact, FundingHeld, TokenHeld, FeeOf, TokenFee,
            Share, ServedExactly, Reserving, Closing, Acct, Books, OpeningSteps, Session,
            Charges
    <2> QED
      BY <1>1, <1>2, <1>6, <2>1, <2>2, RequestRight DEF SesTo, Steps
  <1> QED
    BY <1>1, <1>2, <1>3, <1>4, <1>5, <1>6 DEF BeginAttempt

(* The upstream answers. *)
LEMMA DispatchRight ==
  ASSUME IInv, EInv, Grows, NEW r \in Requests, Dispatch(r) PROVE RightNow(r)'
  <1> USE LedgerAssumption
  <1> DEFINE s == ses[r]
             c == charged[r]
  <1>1. /\ LedgerTypes /\ s \in Session /\ c \in Charges
        /\ Acct("dispatch", refundPc[r], s, c)
        /\ Right("dispatch", refundPc[r], s, c, dbErrors[r], NoneRegiven) /\ dbErrors[r] \in Nat
        /\ DbOk => dbErrors'[r] = dbErrors[r]
        /\ DbError(r) => dbErrors'[r] # 0
        /\ NoneRegiven' => NoneRegiven
        /\ UNCHANGED refundPc
    BY RightFacts DEF Grows, Dispatch, At
  <1>2. refundPc[r] = "none" /\ DbOk /\ UNCHANGED ledgers
    BY <1>1 DEF Acct, Returns, Returned, Tries, Books, Dispatch, DbOk
  <1>3. CASE /\ Goto(r, "attempt")
             /\ UNCHANGED ses
             /\ UNCHANGED ledgers
             /\ DbOk
    <2>1. LedgerTo(r, c)
      BY <1>1, <1>2, <1>3, LedgerSame
    <2>2. Right("attempt", refundPc[r], s, c, dbErrors'[r], NoneRegiven')
      BY <1>1, <1>2, <1>3
        DEF Right, Phase, OneSource, Exact, FundingHeld, TokenHeld, FeeOf, TokenFee,
            Share, ServedExactly, Reserving, Closing, Acct, Books, OpeningSteps, Session,
            Charges
    <2> QED
      BY <1>1, <1>2, <1>3, <2>1, <2>2, RequestRight DEF SesTo, Steps
  <1>4. ASSUME NEW a \in Actuals, Goto(r, "settleFunding"), ses' = [ses EXCEPT ![r] = [s EXCEPT !.actual = a, !.outcome = "served"]],
               UNCHANGED ledgers, DbOk
        PROVE  RightNow(r)'
    <2> DEFINE t == [s EXCEPT !.actual = a, !.outcome = "served"]
    <2>1. LedgerTo(r, c)
      BY <1>1, <1>2, <1>4, LedgerSame
    <2>2. Right("settleFunding", refundPc[r], t, c, dbErrors'[r], NoneRegiven')
      BY <1>1, <1>2, <1>4
        DEF Right, Phase, OneSource, Exact, FundingHeld, TokenHeld, FeeOf, TokenFee,
            Share, ServedExactly, Reserving, Closing, Acct, Books, OpeningSteps, Session,
            Charges
    <2> QED
      BY <1>1, <1>2, <1>4, <2>1, <2>2, RequestRight DEF SesTo, Steps
  <1>5. ASSUME NEW v \in BOOLEAN, Goto(r, "failing"), ses' = [ses EXCEPT ![r] = [s EXCEPT !.outcome = "failed", !.violation = v]],
               UNCHANGED ledgers, DbOk
        PROVE  RightNow(r)'
    <2> DEFINE t == [s EXCEPT !.outcome = "failed", !.violation = v]
    <2>1. LedgerTo(r, c)
      BY <1>1, <1>2, <1>5, LedgerSame
    <2>2. Right("failing", refundPc[r], t, c, dbErrors'[r], NoneRegiven')
      BY <1>1, <1>2, <1>5
        DEF Right, Phase, OneSource, Exact, FundingHeld, TokenHeld, FeeOf, TokenFee,
            Share, ServedExactly, Reserving, Closing, Acct, Books, OpeningSteps, Session,
            Charges
    <2> QED
      BY <1>1, <1>2, <1>5, <2>1, <2>2, RequestRight DEF SesTo, Steps
  <1> QED
    BY <1>1, <1>2, <1>3, <1>4, <1>5 DEF Dispatch

(* A request arrives: an idle one has no session and owes nothing. *)
LEMMA StartRight ==
  ASSUME IInv, EInv, Grows, NEW r \in Requests, Start(r) PROVE RightNow(r)'
  <1> DEFINE s == ses[r]
             c == charged[r]
  <1>1. /\ LedgerTypes /\ s \in Session /\ c \in Charges
        /\ Acct("idle", refundPc[r], s, c) /\ Right("idle", refundPc[r], s, c, dbErrors[r], NoneRegiven)
        /\ dbErrors'[r] = dbErrors[r] /\ (NoneRegiven' => NoneRegiven) /\ UNCHANGED refundPc
    BY RightFacts DEF Grows, Start, At
  <1>2. /\ refundPc[r] = "none" /\ c.wallet = 0 /\ c.sub = 0
        /\ c.regiven = 0 /\ (dbErrors[r] = 0 /\ NoneRegiven => c.token = 0)
    BY <1>1 DEF Acct, Returns, Returned, Tries, Books, Right, Phase, OneSource, Exact, FundingHeld, TokenHeld, FeeOf,
                TokenFee, Share, Reserving, Closing, Session, Charges
  <1>3. PICK p \in Profiles, q \in PreQuotas, first \in {"choose", "attempt"} :
          /\ ses' = [ses EXCEPT ![r] = [NoSession EXCEPT
                       !.profile = p, !.quota = q, !.tokenSeen = tokenQuota]]
          /\ Goto(r, first)
    BY DEF Start
  <1> DEFINE t == [NoSession EXCEPT !.profile = p, !.quota = q, !.tokenSeen = tokenQuota]
  <1>4. /\ ~t.live /\ t.source = "none" /\ t.pre = 0 /\ t.tokenConsumed = 0 /\ ~t.feePaid
        /\ ~t.fundingSettled /\ ~t.settled /\ ~t.refunded /\ t.outcome = "open"
    BY DEF NoSession
  <1>5. SesTo(r, t) /\ LedgerTo(r, c) /\ first \in Steps
    BY <1>1, <1>3, LedgerSame DEF SesTo, Start, Steps
  <1> HIDE DEF t
  <1>6. Right(first, refundPc[r], t, c, dbErrors'[r], NoneRegiven')
    BY <1>1, <1>2, <1>4 DEF Right, Phase, OneSource, Exact, FundingHeld, TokenHeld, FeeOf,
                            TokenFee, Share, Reserving, Closing
  <1> QED
    BY <1>1, <1>3, <1>5, <1>6, RequestRight

(* Refund hands what the session holds to its goroutine; where it does not,   *)
(* nothing was held.                                                          *)
LEMMA RefundStartRight ==
  ASSUME IInv, EInv, Grows, NEW r \in Requests, Refund(r) PROVE RightNow(r)'
  <1> DEFINE s == ses[r]
             c == charged[r]
             p == IF s.violation /\ Fee > 0 THEN "fee" ELSE "done"
             f == IF NeedsRefund(r) THEN "funding" ELSE refundPc[r]
             t == IF NeedsRefund(r) THEN [s EXCEPT !.refunded = TRUE] ELSE s
  <1>1. /\ LedgerTypes /\ s \in Session /\ c \in Charges
        /\ Acct("failing", refundPc[r], s, c)
        /\ Right("failing", refundPc[r], s, c, dbErrors[r], NoneRegiven) /\ dbErrors[r] \in Nat
        /\ dbErrors'[r] = dbErrors[r] /\ (NoneRegiven' => NoneRegiven) /\ charged'[r] = c
        /\ p \in Steps /\ p \in {"fee", "done"}
    BY RightFacts DEF Grows, Refund, At, ledgers, Steps
  <1>2. pc'[r] = p
    BY <1>1, GotoLemma DEF Refund, IInv
  <1>3. ses'[r] = t /\ refundPc'[r] = f
    BY DEF Refund, IInv, TypeOK
  <1>4. CASE NeedsRefund(r)
    <2>1. Right(p, "funding", [s EXCEPT !.refunded = TRUE], c, dbErrors'[r], NoneRegiven')
      BY <1>1, <1>4 DEF NeedsRefund, Right, Phase, OneSource, Exact, FundingHeld, TokenHeld,
                        FeeOf, TokenFee, Share, Tries, Reserving, Closing, Acct, Books, Session, Charges
    <2> QED
      BY <1>1, <1>2, <1>3, <1>4, <2>1 DEF RightNow
  <1>5. CASE ~NeedsRefund(r)
    <2>1. refundPc[r] = "none" /\ s.pre = 0 /\ s.tokenConsumed = 0
      BY <1>1, <1>5 DEF NeedsRefund, BySub, Right, Phase, Closing, Acct, Books, Session
    <2>2. Right(p, refundPc[r], s, c, dbErrors'[r], NoneRegiven')
      BY <1>1, <2>1 DEF Right, Phase, OneSource, Exact, FundingHeld, TokenHeld, FeeOf,
                        TokenFee, Share, Tries, Reserving, Closing, Acct, Books, Session, Charges
    <2> QED
      BY <1>1, <1>2, <1>3, <1>5, <2>2 DEF RightNow
  <1> QED
    BY <1>4, <1>5

(* After a crash nothing is promised but the one source. *)
LEMMA CrashRight ==
  ASSUME IInv, EInv, Grows, NEW r \in Requests, Crash(r) PROVE RightNow(r)'
  <1> DEFINE s == ses[r]
             c == charged[r]
             t == [NoSession EXCEPT !.profile = s.profile, !.source = s.source, !.outcome = "crashed"]
  <1>1. s \in Session /\ dbErrors'[r] = dbErrors[r] /\ Right(pc[r], refundPc[r], s, c, dbErrors[r], NoneRegiven)
    BY RightFacts DEF Crash
  <1>2. /\ pc'[r] = "done" /\ refundPc'[r] = "none" /\ ses'[r] = t /\ charged'[r] = c
    BY DEF Crash, Goto, ledgers, IInv, TypeOK
  <1>3. Right("done", "none", t, c, dbErrors'[r], NoneRegiven')
    BY <1>1 DEF Right, Phase, OneSource, Closing, Session, NoSession
  <1> QED
    BY <1>2, <1>3 DEF RightNow

(* The three calls of the refund goroutine *)
LEMMA RefundFundingRight ==
  ASSUME IInv, EInv, Grows, NEW r \in Requests, RefundFunding(r) PROVE RightNow(r)'
  <1> DEFINE s == ses[r]
             c == charged[r]
             d == s.consumed
  <1>1. /\ LedgerTypes /\ s \in Session /\ c \in Charges /\ refundPc[r] \in Tries
        /\ Acct(pc[r], refundPc[r], s, c)
        /\ Right(pc[r], refundPc[r], s, c, dbErrors[r], NoneRegiven) /\ dbErrors[r] \in Nat
        /\ DbOk => dbErrors'[r] = dbErrors[r]
        /\ DbError(r) \/ TryError(r) => dbErrors'[r] # 0
        /\ NoneRegiven' => NoneRegiven
        /\ UNCHANGED <<pc, ses>>
    BY RightFacts DEF Grows, RefundFunding
  <1>2. d \in Nat /\ -d \in Int /\ -(-d) = d
    BY <1>1 DEF Session
  <1>3. PICK f \in {"funding2", "funding3", "extra"} :
             /\ RefundGoto(r, f)
             /\ \/ UNCHANGED ledgers /\ f = "extra" /\ d <= 0 /\ DbOk
                \/ UNCHANGED ledgers /\ (DbError(r) \/ TryError(r))
                \/ f = "extra" /\ ~BySub(r) /\ MoveWallet(r, -d, 0) /\ DbOk
                \/ BySub(r) /\ GiveBackSub(r, d) /\ ((f = "extra" /\ DbOk) \/ TryError(r))
    BY <1>1 DEF RefundFunding, NextTry, Tries
  <1>4. CASE UNCHANGED ledgers /\ ((f = "extra" /\ d <= 0 /\ DbOk) \/ DbError(r) \/ TryError(r))
    <2>1. LedgerTo(r, c)
      BY <1>1, <1>4, LedgerSame
    <2>2. Right(pc[r], f, s, c, dbErrors'[r], NoneRegiven')
      BY <1>1, <1>2, <1>3, <1>4, LedgerAssumption
         DEF Right, Phase, OneSource, Exact, FundingHeld, TokenHeld, FeeOf, TokenFee, Share,
             Tries, Reserving, Closing, Acct, Books, Session, Charges
    <2> QED
      BY <1>1, <1>3, <2>1, <2>2, RefundRight DEF RefundSteps, Tries
  <1>5. CASE f = "extra" /\ ~BySub(r) /\ MoveWallet(r, -d, 0) /\ DbOk
    <2> DEFINE e == [c EXCEPT !.wallet = @ + (-d)]
    <2>1. LedgerTo(r, e)
      BY <1>1, <1>2, <1>5, MoveWalletLemma
    <2>2. Right(pc[r], "extra", s, e, dbErrors'[r], NoneRegiven')
      <3>1. /\ Phase(pc[r], "extra", s) /\ OneSource(pc[r], s, e)
            /\ e.regiven > 0 => dbErrors'[r] # 0
        BY <1>1, <1>2, <1>5 DEF Right, Phase, OneSource, Tries, Closing, Acct, Books, Charges, BySub
      <3>2. ASSUME dbErrors'[r] = 0, NoneRegiven', s.outcome # "crashed"
            PROVE  Exact(pc[r], "extra", s, e)
        <4>1. Exact(pc[r], refundPc[r], s, c) /\ pc[r] \notin Reserving /\ s.outcome = "failed"
          BY <1>1, <1>5, <3>2 DEF Right, Phase, Tries, Acct, Books, Reserving
        <4>2. s.consumed = s.pre
          BY <1>1, <1>5, <4>1 DEF Exact, Tries, Acct, Books, BySub
        <4> QED
          BY <1>1, <1>2, <1>5, <4>1, <4>2, LedgerAssumption
             DEF Exact, FundingHeld, TokenHeld, FeeOf, TokenFee, Share, Tries, Session, Charges,
                 BySub
      <3> QED
        BY <3>1, <3>2 DEF Right
    <2> QED
      BY <1>1, <1>3, <1>5, <2>1, <2>2, RefundRight DEF RefundSteps
  <1>6. CASE BySub(r) /\ GiveBackSub(r, d) /\ ((f = "extra" /\ DbOk) \/ TryError(r))
    <2> DEFINE e == GivenBack(c, d)
    <2>1. LedgerTo(r, e) /\ e \in Charges
      BY <1>1, <1>2, <1>6, GiveBackLemma
    <2>2. NoneRegiven => -(-d) <= c.sub \/ c.given > 0
      BY <1>1, <1>2, <1>6 DEF NoneRegiven, Acct, Returns, Returned, Books, SubHold, Tries, Session,
         Charges, BySub
    <2>3. ASSUME NoneRegiven, c.given = 0 PROVE Moved(-d) = -d
      <3>1. NoneRegiven => -(-d) <= charged[r].sub
        BY <2>2, <2>3, <1>1 DEF Charges
      <3> QED
        BY <1>2, <2>3, <3>1, MoveSubExact
    <2>4. /\ e.sub = c.sub + Moved(-d) /\ e.wallet = c.wallet /\ e.token = c.token
          /\ e.regiven = c.regiven + (IF c.given > 0 THEN d ELSE 0)
          /\ Moved(-d) \in Int
      BY <1>1, <1>2, SubAfterLemma DEF GivenBack, Moved, LedgerTypes, Charges
    <2>5. dbErrors[r] = 0 => c.given = 0 /\ c.regiven = 0 /\ refundPc[r] = "funding"
      BY <1>1 DEF Right, Acct, Returns, Tries, Charges
    <2> HIDE DEF e
    <2>6. Right(pc[r], f, s, e, dbErrors'[r], NoneRegiven')
      BY <1>1, <1>2, <1>3, <1>6, <2>1, <2>3, <2>4, <2>5, LedgerAssumption
         DEF Right, Phase, OneSource, Exact, FundingHeld, TokenHeld, FeeOf, TokenFee, Share,
             Tries, Reserving, Closing, Acct, Books, Session, Charges, BySub
    <2> QED
      BY <1>1, <1>3, <2>1, <2>6, RefundRight DEF RefundSteps, Tries
  <1> QED
    BY <1>3, <1>4, <1>5, <1>6

(* The extra reservations of a subscription *)
LEMMA RefundExtraRight ==
  ASSUME IInv, EInv, Grows, NEW r \in Requests, RefundExtra(r) PROVE RightNow(r)'
  <1> DEFINE s == ses[r]
             c == charged[r]
             d == s.extra
  <1>1. /\ LedgerTypes /\ s \in Session /\ c \in Charges
        /\ Acct(pc[r], "extra", s, c) /\ Right(pc[r], "extra", s, c, dbErrors[r], NoneRegiven)
        /\ DbOk => dbErrors'[r] = dbErrors[r]
        /\ DbError(r) => dbErrors'[r] # 0
        /\ NoneRegiven' => NoneRegiven
        /\ RefundGoto(r, "token") /\ UNCHANGED <<pc, ses>>
    BY RightFacts DEF Grows, RefundExtra
  <1>2. d \in Nat /\ -d \in Int /\ -(-d) = d
    BY <1>1 DEF Session
  <1>3. CASE MoveSub(r, -d) /\ BySub(r) /\ DbOk
    <2> DEFINE e == [c EXCEPT !.sub = @ + Moved(-d)]
    <2>0. NoneRegiven => -(-d) <= c.sub
      BY <1>1, <1>2, <1>3, LedgerAssumption
        DEF NoneRegiven, Acct, Returns, Returned, Books, SubHold, OpenSteps, OpeningSteps, Session,
            Charges, BySub
    <2>1. /\ LedgerTo(r, e) /\ Moved(-d) \in Int
          /\ NoneRegiven \/ -d >= 0 => Moved(-d) = -d
      BY <1>1, <1>2, <1>3, <2>0, LedgerAssumption, MoveSubExact
    <2>2. Right(pc[r], "token", s, e, dbErrors'[r], NoneRegiven')
      BY <1>1, <1>2, <1>3, <2>1, LedgerAssumption
         DEF Right, Phase, OneSource, Exact, FundingHeld, TokenHeld, FeeOf, TokenFee, Share,
             Tries, Reserving, Closing, Acct, Books, Session, Charges, BySub
    <2> QED
      BY <1>1, <2>1, <2>2, RefundRight DEF RefundSteps
  <1>4. CASE UNCHANGED ledgers /\ ((~(d > 0 /\ BySub(r)) /\ DbOk) \/ DbError(r))
    <2>1. LedgerTo(r, c)
      BY <1>1, <1>4, LedgerSame
    <2>2. Right(pc[r], "token", s, c, dbErrors'[r], NoneRegiven')
      BY <1>1, <1>2, <1>4, LedgerAssumption
         DEF Right, Phase, OneSource, Exact, FundingHeld, TokenHeld, FeeOf, TokenFee, Share,
             Tries, Reserving, Closing, Acct, Books, Session, Charges, BySub
    <2> QED
      BY <1>1, <2>1, <2>2, RefundRight DEF RefundSteps
  <1> QED
    BY <1>3, <1>4 DEF RefundExtra

(* The token *)
LEMMA RefundTokenRight ==
  ASSUME IInv, EInv, Grows, NEW r \in Requests, RefundToken(r) PROVE RightNow(r)'
  <1> DEFINE s == ses[r]
             c == charged[r]
             d == s.tokenConsumed
  <1>1. /\ LedgerTypes /\ s \in Session /\ c \in Charges
        /\ Acct(pc[r], "token", s, c) /\ Right(pc[r], "token", s, c, dbErrors[r], NoneRegiven)
        /\ DbOk => dbErrors'[r] = dbErrors[r]
        /\ DbError(r) => dbErrors'[r] # 0
        /\ NoneRegiven' => NoneRegiven
        /\ RefundGoto(r, "done") /\ UNCHANGED <<pc, ses>>
    BY RightFacts DEF Grows, RefundToken
  <1>2. d \in Nat /\ -d \in Int
    BY <1>1 DEF Session
  <1>3. CASE MoveToken(r, -d, 0) /\ ~Playground(r) /\ DbOk
    <2> DEFINE e == [c EXCEPT !.token = @ + (-d)]
    <2>1. LedgerTo(r, e)
      BY <1>1, <1>2, <1>3, MoveTokenLemma
    <2>2. Right(pc[r], "done", s, e, dbErrors'[r], NoneRegiven')
      BY <1>1, <1>2, <1>3, LedgerAssumption
         DEF Right, Phase, OneSource, Exact, FundingHeld, TokenHeld, FeeOf, TokenFee, Share,
             Tries, Reserving, Closing, Acct, Books, Session, Charges, Playground
    <2> QED
      BY <1>1, <2>1, <2>2, RefundRight DEF RefundSteps
  <1>4. CASE UNCHANGED ledgers /\ ((~(d > 0 /\ ~Playground(r)) /\ DbOk) \/ DbError(r))
    <2>1. LedgerTo(r, c)
      BY <1>1, <1>4, LedgerSame
    <2>2. Right(pc[r], "done", s, c, dbErrors'[r], NoneRegiven')
      BY <1>1, <1>2, <1>4, LedgerAssumption
         DEF Right, Phase, OneSource, Exact, FundingHeld, TokenHeld, FeeOf, TokenFee, Share,
             Tries, Reserving, Closing, Acct, Books, Session, Charges, Playground
    <2> QED
      BY <1>1, <2>1, <2>2, RefundRight DEF RefundSteps
  <1> QED
    BY <1>3, <1>4 DEF RefundToken

(* A step of r leaves the other requests alone and moves the subscription by  *)
(* what it charges r.                                                         *)
Local(r) ==
  /\ \A q \in Requests \ {r} :
       /\ pc'[q] = pc[q] /\ refundPc'[q] = refundPc[q] /\ ses'[q] = ses[q]
       /\ charged'[q] = charged[q] /\ dbErrors'[q] = dbErrors[q]
  /\ subUsed' - subUsed = charged'[r].sub - charged[r].sub
  /\ charged'[r].regiven >= charged[r].regiven

(* What each ledger operation contributes to that *)
LEMMA LedgerLocal ==
  ASSUME TypeOK, NEW r \in Requests,
         \/ UNCHANGED ledgers
         \/ \E d, u : MoveWallet(r, d, u) \/ MoveToken(r, d, u)
         \/ \E d \in Int : MoveSub(r, d)
         \/ \E d \in Nat : GiveBackSub(r, d)
  PROVE  /\ \A q \in Requests \ {r} : charged'[q] = charged[q]
         /\ subUsed' - subUsed = charged'[r].sub - charged[r].sub
         /\ charged'[r].regiven >= charged[r].regiven
  <1>1. /\ subUsed \in Int /\ charged[r].sub \in Int /\ \A d \in Int : SubAfter(d) \in Int
        /\ charged[r] \in Charges /\ charged[r].regiven \in Nat
        /\ \A d \in Nat : -d \in Int
    BY DEF TypeOK, SubAfter, Charges
  <1>2. CASE UNCHANGED ledgers
    BY <1>1, <1>2 DEF ledgers
  <1>3. ASSUME NEW d, NEW u, MoveWallet(r, d, u) \/ MoveToken(r, d, u)
        PROVE  /\ \A q \in Requests \ {r} : charged'[q] = charged[q]
               /\ subUsed' = subUsed /\ charged'[r].sub = charged[r].sub
               /\ charged'[r].regiven = charged[r].regiven
    BY <1>3 DEF MoveWallet, MoveToken, TypeOK, Charges
  <1>4. ASSUME NEW d \in Int, MoveSub(r, d)
        PROVE  /\ \A q \in Requests \ {r} : charged'[q] = charged[q]
               /\ subUsed' = SubAfter(d) /\ charged'[r].sub = charged[r].sub + SubAfter(d) - subUsed
               /\ charged'[r].regiven = charged[r].regiven
    BY <1>4 DEF MoveSub, TypeOK, Charges
  <1>5. ASSUME NEW d \in Nat, GiveBackSub(r, d)
        PROVE  /\ \A q \in Requests \ {r} : charged'[q] = charged[q]
               /\ subUsed' = SubAfter(-d)
               /\ charged'[r].sub = charged[r].sub + SubAfter(-d) - subUsed
               /\ charged'[r].regiven >= charged[r].regiven
    <2>1. /\ charged' = [charged EXCEPT ![r] = GivenBack(charged[r], d)] /\ subUsed' = SubAfter(-d)
          /\ GivenBack(charged[r], d) \in Charges /\ LedgerTo(r, GivenBack(charged[r], d))
      BY <1>1, <1>5, GiveBackLemma DEF GiveBackSub, LedgerTypes, TypeOK
    <2> DEFINE c == charged[r]
               regiven == c.regiven + (IF c.given > 0 THEN d ELSE 0)
    <2>2. regiven \in Nat /\ regiven >= c.regiven /\ c \in Charges
      BY <1>1 DEF Charges
    <2>3. GivenBack(c, d) = [c EXCEPT !.sub = c.sub + SubAfter(-d) - subUsed, !.given = d,
                                      !.regiven = regiven]
      BY DEF GivenBack
    <2> HIDE DEF regiven
    <2>4. GivenBack(c, d).sub = c.sub + SubAfter(-d) - subUsed /\ GivenBack(c, d).regiven = regiven
      BY <2>2, <2>3 DEF Charges
    <2> QED
      BY <2>1, <2>2, <2>4 DEF LedgerTo
  <1> QED
    BY <1>1, <1>2, <1>3, <1>4, <1>5

(* Every step of a request is local. *)
LEMMA StepLocal ==
  ASSUME IInv, NEW r \in Requests,
         Start(r) \/ RequestStep(r) \/ RefundStep(r) \/ Crash(r)
  PROVE  Local(r)
  <1>0. TypeOK /\ ses[r] \in Session /\ ses[r].profile.pref \in Prefs
    BY ProfilesAssumption DEF IInv, TypeOK, Session
  <1>1. \A q \in Requests \ {r} : dbErrors'[q] = dbErrors[q]
    <2>1. DbOk \/ DbError(r) \/ TryError(r)
      BY DEF Start, RequestStep, RefundStep, Crash, Choose, FallBack, TryWallet,
             PreConsumeToken, PreConsumeFunding, PreConsumeRollback, BeginAttempt,
             ReserveFunding, ReserveToken, ReserveRollback, Dispatch, SettleFunding,
             SettleToken, Refund, ChargeFee, ChargeFeeToken, RefundFunding, RefundExtra,
             RefundToken, DbOk
    <2> QED
      BY <1>0, <2>1 DEF DbOk, DbError, TryError, TypeOK
  <1>2. \A q \in Requests \ {r} : pc'[q] = pc[q] /\ refundPc'[q] = refundPc[q]
    <2>1. UNCHANGED pc \/ \E p : Goto(r, p)
      <3>1. CASE Choose(r)
        BY <1>0, <3>1 DEF Choose, Prefs, Try, NotOpened, RetryTask, Reject
      <3>2. CASE FallBack(r) \/ TryWallet(r) \/ PreConsumeToken(r) \/ PreConsumeFunding(r)
        BY <3>2 DEF FallBack, TryWallet, PreConsumeToken, PreConsumeFunding, Try, NotOpened, RetryTask, Reject, Opened
      <3>3. CASE \/ Start(r) \/ Crash(r) \/ RefundStep(r) \/ PreConsumeRollback(r) \/ BeginAttempt(r)
                 \/ ReserveFunding(r) \/ ReserveToken(r) \/ ReserveRollback(r)
        BY <3>3 DEF Start, Crash, RefundStep, RefundFunding, RefundExtra, RefundToken,
                    PreConsumeRollback, BeginAttempt, ReserveFunding, ReserveToken,
                    ReserveRollback, NotOpened, RetryTask, Reject, Fail
      <3>4. CASE \/ Dispatch(r) \/ SettleFunding(r) \/ SettleToken(r)
                 \/ Refund(r) \/ ChargeFee(r) \/ ChargeFeeToken(r)
        BY <3>4 DEF Dispatch, SettleFunding, SettleToken, Refund, ChargeFee, ChargeFeeToken
      <3> QED
        BY <3>1, <3>2, <3>3, <3>4 DEF RequestStep
    <2>2. UNCHANGED refundPc \/ \E f : refundPc' = [refundPc EXCEPT ![r] = f]
      BY DEF Start, RequestStep, RefundStep, Crash, Choose, FallBack, TryWallet,
             PreConsumeToken, PreConsumeFunding, PreConsumeRollback, BeginAttempt,
             ReserveFunding, ReserveToken, ReserveRollback, Dispatch, SettleFunding,
             SettleToken, Refund, ChargeFee, ChargeFeeToken, RefundFunding, RefundExtra,
             RefundToken, RefundGoto
    <2> QED
      BY <1>0, <2>1, <2>2 DEF Goto, TypeOK
  <1>3. \A q \in Requests \ {r} : ses'[q] = ses[q]
    <2>1. CASE Start(r) \/ Crash(r) \/ RefundStep(r)
      BY <1>0, <2>1 DEF Start, Crash, RefundStep, RefundFunding, RefundExtra, RefundToken, TypeOK
    <2>2. CASE Choose(r) \/ FallBack(r) \/ TryWallet(r)
      BY <1>0, <2>2 DEF Choose, FallBack, TryWallet, Try, NotOpened, RetryTask, Reject, Opened, Prefs, TypeOK
    <2>3. CASE PreConsumeToken(r) \/ PreConsumeFunding(r) \/ PreConsumeRollback(r)
      BY <1>0, <2>3 DEF PreConsumeToken, PreConsumeFunding, PreConsumeRollback, NotOpened, RetryTask, Reject, Opened,
                        TypeOK
    <2>4. CASE BeginAttempt(r) \/ ReserveFunding(r) \/ ReserveToken(r) \/ ReserveRollback(r)
      BY <1>0, <2>4 DEF BeginAttempt, ReserveFunding, ReserveToken, ReserveRollback, Fail, TypeOK
    <2>5. CASE \/ Dispatch(r) \/ SettleFunding(r) \/ SettleToken(r)
               \/ Refund(r) \/ ChargeFee(r) \/ ChargeFeeToken(r)
      BY <1>0, <2>5 DEF Dispatch, SettleFunding, SettleToken, Refund, ChargeFee, ChargeFeeToken,
                        TypeOK
    <2> QED
      BY <2>1, <2>2, <2>3, <2>4, <2>5 DEF RequestStep
  <1>4. \/ UNCHANGED ledgers
        \/ \E d, u : MoveWallet(r, d, u) \/ MoveToken(r, d, u)
        \/ \E d \in Int : MoveSub(r, d)
        \/ \E d \in Nat : GiveBackSub(r, d)
    <2>0. /\ ses[r].consumed \in Nat /\ Amount(r) \in Int /\ ReserveDelta(r) \in Int /\ -ReserveDelta(r) \in Int
          /\ SettleDelta(r) \in Int /\ Fee \in Int
          /\ -ses[r].consumed \in Int /\ -ses[r].extra \in Int
      BY <1>0, LedgerAssumption DEF Amount, ReserveDelta, SettleDelta, Session
    <2>1. CASE \/ Start(r) \/ Crash(r) \/ Choose(r) \/ FallBack(r) \/ TryWallet(r)
               \/ BeginAttempt(r) \/ Dispatch(r) \/ Refund(r)
      BY <2>1 DEF Start, Crash, Choose, FallBack, TryWallet, BeginAttempt, Dispatch, Refund
    <2>2. CASE \/ PreConsumeToken(r) \/ PreConsumeRollback(r) \/ ReserveToken(r)
               \/ SettleToken(r) \/ ChargeFeeToken(r) \/ RefundToken(r)
      BY <2>2 DEF PreConsumeToken, PreConsumeRollback, ReserveToken, SettleToken,
                  ChargeFeeToken, RefundToken
    <2>3. CASE PreConsumeFunding(r) \/ ReserveFunding(r) \/ ReserveRollback(r)
      BY <2>0, <2>3 DEF PreConsumeFunding, ReserveFunding, ReserveRollback
    <2>4. CASE SettleFunding(r) \/ ChargeFee(r) \/ RefundFunding(r) \/ RefundExtra(r)
      BY <2>0, <2>4 DEF SettleFunding, ChargeFee, RefundFunding, RefundExtra
    <2> QED
      BY <2>1, <2>2, <2>3, <2>4 DEF RequestStep, RefundStep
  <1> QED
    BY <1>0, <1>1, <1>2, <1>3, <1>4, LedgerLocal DEF Local

(* The subscription's used amount stays the sum of the requests' charges. *)
LEMMA LocalAddsUp ==
  ASSUME IInv, IInv', SubAddsUp, NEW r \in Requests, Local(r)
  PROVE  SubAddsUp'
  <1> DEFINE f == SubCharges
             h == SubCharges'
             d == charged'[r].sub - charged[r].sub
  <1>1. /\ subUsed \in Int /\ subUsed' \in Int /\ charged[r].sub \in Int /\ charged'[r].sub \in Int
        /\ \A x \in Requests : charged[x].sub \in Int /\ charged'[x].sub \in Int
    BY DEF IInv, TypeOK, Charges
  <1>2. \A x \in Requests : f[x] = charged[x].sub /\ h[x] = charged'[x].sub
    BY DEF SubCharges
  <1>3. /\ d \in Int /\ subUsed' = subUsed + d /\ h[r] = f[r] + d
        /\ \A x \in Requests : f[x] \in Int /\ h[x] \in Int
        /\ \A x \in Requests \ {r} : h[x] = f[x]
    BY <1>1, <1>2 DEF Local
  <1>4. AddsUp(f, Requests, subUsed)
    BY DEF SubAddsUp
  <1> HIDE DEF f, h, d
  <1>5. AddsUp(h, Requests, subUsed + d)
    BY <1>1, <1>3, <1>4, AddsUpChange
  <1> QED
    BY <1>3, <1>5 DEF h, SubAddsUp

(* Every step of a request leaves it with the right accounts. *)
LEMMA StepRight ==
  ASSUME IInv, EInv, Grows, NEW r \in Requests,
         Start(r) \/ RequestStep(r) \/ RefundStep(r) \/ Crash(r)
  PROVE  RightNow(r)'
  <1>1. CASE Start(r) \/ Crash(r) \/ RefundStep(r)
    BY <1>1, StartRight, CrashRight, RefundFundingRight, RefundExtraRight, RefundTokenRight
       DEF RefundStep
  <1>2. CASE Choose(r) \/ FallBack(r) \/ TryWallet(r)
    BY <1>2, ChooseRight, FallBackRight, TryWalletRight
  <1>3. CASE PreConsumeToken(r) \/ PreConsumeFunding(r) \/ PreConsumeRollback(r)
    BY <1>3, PreConsumeTokenRight, PreConsumeFundingRight, PreConsumeRollbackRight
  <1>4. CASE BeginAttempt(r) \/ ReserveFunding(r) \/ ReserveToken(r) \/ ReserveRollback(r)
    BY <1>4, BeginAttemptRight, ReserveFundingRight, ReserveTokenRight, ReserveRollbackRight
  <1>5. CASE \/ Dispatch(r) \/ SettleFunding(r) \/ SettleToken(r)
             \/ Refund(r) \/ ChargeFee(r) \/ ChargeFeeToken(r)
    BY <1>5, DispatchRight, SettleFundingRight, SettleTokenRight, RefundStartRight,
       ChargeFeeRight, ChargeFeeTokenRight
  <1> QED
    BY <1>1, <1>2, <1>3, <1>4, <1>5 DEF RequestStep

(* The second invariant is inductive, given the first. *)
LEMMA NextEInv == IInv /\ IInv' /\ EInv /\ [Next]_vars => EInv'
  <1> SUFFICES ASSUME IInv, IInv', EInv, [Next]_vars PROVE EInv'
    OBVIOUS
  <1>1. SubscriptionWithinTotal'
    BY StepWithin DEF EInv
  <1>2. ASSUME NEW r \in Requests, Start(r) \/ RequestStep(r) \/ RefundStep(r) \/ Crash(r)
        PROVE  AllRight' /\ SubAddsUp'
    <2>0. Local(r)
      BY <1>2, StepLocal
    <2>g. Grows
      <3>1. \A q \in Requests : charged[q].regiven \in Nat /\ charged'[q].regiven >= charged[q].regiven
        BY <2>0 DEF Local, IInv, TypeOK, Charges
      <3>2. \A q \in Requests : charged'[q].regiven \in Nat
        BY DEF IInv, TypeOK, Charges
      <3> QED
        BY <3>1, <3>2 DEF Grows, NoneRegiven
    <2>1. Local(r) /\ RightNow(r)'
      BY <1>2, <2>0, <2>g, StepRight
    <2>2. ASSUME NEW q \in Requests PROVE RightNow(q)'
      <3>1. RightNow(q)
        BY DEF EInv, AllRight
      <3>2. CASE q # r
        BY <2>1, <2>g, <3>1, <3>2 DEF Local, RightNow, Right, Grows
      <3> QED
        BY <2>1, <3>2
    <2>3. SubAddsUp'
      BY <2>1, LocalAddsUp DEF EInv
    <2> QED
      BY <2>2, <2>3 DEF AllRight
  <1>3. CASE ExpireSubscription \/ UNCHANGED vars
    <2>1. UNCHANGED <<pc, refundPc, ses, charged, dbErrors, subUsed>>
      BY <1>3 DEF ExpireSubscription, vars, ledgers
    <2> QED
      BY <1>1, <2>1 DEF EInv, AllRight, RightNow, NoneRegiven, SubAddsUp, SubCharges
  <1> QED
    BY <1>1, <1>2, <1>3 DEF Next, Terminated, EInv

(* Before the first request nothing is charged. *)
LEMMA InitEInv == Init => EInv
  <1> SUFFICES ASSUME Init PROVE EInv
    OBVIOUS
  <1>1. /\ ~NoSession.live /\ NoSession.source = "none" /\ NoSession.pre = 0
        /\ NoSession.tokenConsumed = 0 /\ ~NoSession.feePaid /\ ~NoSession.fundingSettled
        /\ ~NoSession.settled /\ ~NoSession.refunded /\ NoSession.outcome = "open"
    BY DEF NoSession
  <1>2. Right("idle", "none", NoSession, NoCharges, 0, NoneRegiven)
    BY <1>1 DEF Right, Phase, OneSource, Exact, FundingHeld, TokenHeld, FeeOf, TokenFee,
                Share, Reserving, Closing, NoCharges
  <1>3. AllRight
    BY <1>2 DEF Init, AllRight, RightNow
  <1>4. SubAddsUp
    <2>1. \A r \in Requests : SubCharges[r] = 0
      BY DEF Init, SubCharges, NoCharges
    <2>2. AddsUp(SubCharges, Requests, 0)
      BY <2>1, RequestsAssumption, AddsUpZero
    <2> QED
      BY <2>2 DEF SubAddsUp, Init
  <1> QED
    BY <1>3, <1>4, LedgerAssumption DEF EInv, Init, SubscriptionWithinTotal

(* The second invariant holds in every reachable state. *)
THEOREM ExactAccounts == Spec => []EInv
  BY Accounts, InitEInv, NextEInv, PTL DEF Spec

(* A served request whose database calls all succeeded costs its actual price *)
(* on its source and on its token, through any number of re-reservations,     *)
(* fallbacks and concurrent requests; the one exception is a subscription     *)
(* without room for the difference.                                           *)
THEOREM ServedExact == Spec => []ServedChargedExactly
  <1>1. IInv /\ EInv => ServedChargedExactly
    <2> SUFFICES ASSUME IInv, EInv, NEW r \in Requests, Finished(r),
                        ses[r].outcome = "served", dbErrors[r] = 0, NoneRegiven
                 PROVE  \/ /\ FundingCharged(r) = ses[r].actual
                           /\ charged[r].token = TokenShare(r, ses[r].actual)
                        \/ /\ BySub(r) /\ ~ses[r].settled /\ ses[r].pre < ses[r].actual
                           /\ FundingCharged(r) = ses[r].pre
                           /\ charged[r].token = TokenShare(r, ses[r].pre)
      BY DEF ServedChargedExactly
    <2>1. ServedExactly(ses[r], charged[r])
      BY RightFacts DEF Finished, Right, Exact
    <2> QED
      BY <2>1 DEF ServedExactly, Share, FundingCharged, TokenShare, BySub, Playground
  <1> QED
    BY Accounts, ExactAccounts, <1>1, PTL

(* A rejected or failed request whose database calls all succeeded costs      *)
(* nothing but a violation fee once its refund goroutine is through.          *)
THEOREM FailedFree == Spec => []FailedCostsNothing
  <1>1. IInv /\ EInv => FailedCostsNothing
    <2> SUFFICES ASSUME IInv, EInv, NEW r \in Requests, Finished(r),
                        ses[r].outcome \in {"rejected", "failed"}, dbErrors[r] = 0, NoneRegiven
                 PROVE  /\ FundingCharged(r) = FeeCharged(r)
                        /\ charged[r].token = TokenShare(r, FeeCharged(r))
      BY DEF FailedCostsNothing
    <2>1. /\ charged[r].wallet + charged[r].sub = FeeOf(ses[r])
          /\ charged[r].token = Share(ses[r], FeeOf(ses[r]))
      BY RightFacts, LedgerAssumption
         DEF Finished, Right, Exact, FundingHeld, TokenHeld, FeeOf, TokenFee, Share, Reserving,
             Closing, Tries, Charges
    <2> QED
      BY <2>1 DEF FeeOf, Share, FundingCharged, FeeCharged, TokenShare, Playground
  <1> QED
    BY Accounts, ExactAccounts, <1>1, PTL

(* However requests fall back, fail, crash or are charged fees, only one of   *)
(* wallet and subscription ever holds something of a request.                 *)
THEOREM OneSourcePays == Spec => []ChargedToOneSource
  <1>1. IInv /\ EInv => ChargedToOneSource
    BY RightFacts DEF ChargedToOneSource, Right, OneSource
  <1> QED
    BY Accounts, ExactAccounts, <1>1, PTL

(* On the wallet and on the token no sequence of failures and rollbacks gives *)
(* a request back more than it paid. A subscription is given more only by     *)
(* repeated tries of refundWithRetry, after a failed database call, and at    *)
(* most twice the amount that was pre-consumed.                               *)
THEOREM OverRefundBounded == Spec => []OverRefundedOnlyByRetry
  <1>1. IInv /\ EInv => OverRefundedOnlyByRetry
    <2> SUFFICES ASSUME IInv, EInv, NEW r \in Requests
                 PROVE  /\ charged[r].wallet >= 0 /\ charged[r].token >= 0
                        /\ charged[r].sub >= -charged[r].regiven
                        /\ charged[r].regiven <= 2 * charged[r].given
                        /\ charged[r].regiven > 0 => BySub(r) /\ dbErrors[r] > 0
      BY DEF OverRefundedOnlyByRetry
    <2>1. /\ ses[r] \in Session /\ charged[r] \in Charges /\ dbErrors[r] \in Nat
          /\ Acct(pc[r], refundPc[r], ses[r], charged[r])
          /\ Right(pc[r], refundPc[r], ses[r], charged[r], dbErrors[r], NoneRegiven)
      BY RightFacts
    <2>2. Books(pc[r], refundPc[r], ses[r])
      BY <2>1 DEF Acct
    <2>3. charged[r].sub >= -charged[r].regiven
      <3>1. CASE refundPc[r] \in Tries
        BY <2>1, <3>1 DEF Acct, Returns, Returned, SubHold, Books, Charges, Session, Tries
      <3>2. CASE refundPc[r] \notin Tries
        BY <2>1, <2>2, <3>2, HoldLemma DEF Acct, Returned, Charges
      <3> QED
        BY <3>1, <3>2
    <2>4. charged[r].wallet >= 0 /\ charged[r].token >= 0
      BY <2>1, <2>2, HoldLemma DEF Acct, Charges
    <2>5. /\ charged[r].regiven <= 2 * charged[r].given
          /\ charged[r].regiven > 0 => charged[r].given > 0
      BY <2>1 DEF Acct, Returns, Charges
    <2>6. charged[r].regiven > 0 => BySub(r) /\ dbErrors[r] > 0
      BY <2>1, <2>5 DEF Acct, Returns, Right, BySub
    <2> QED
      BY <2>3, <2>4, <2>5, <2>6
  <1> QED
    BY Accounts, ExactAccounts, <1>1, PTL

-----------------------------------------------------------------------------
(* Every step advances *)

(* A request is idle only before its first step; no attempt has been made. *)
IdleFresh == \A r \in Requests : pc[r] = "idle" => ses[r].attempt = 0

(* Progress, as a function of what it depends on *)
Score(p, f, s) ==
  100 * s.attempt + Stage[p] + (IF Stage[p] \in 2..6 /\ s.fallback = "none" THEN 6 ELSE 0)
  + RefundStage[f]

(* The stages in numbers *)
LEMMA StageValues ==
  /\ Stage["idle"] = 0 /\ Stage["choose"] = 1 /\ Stage["tryWallet"] = 2 /\ Stage["preToken"] = 3
  /\ Stage["preFunding"] = 4 /\ Stage["preRollback"] = 5 /\ Stage["fallback"] = 6
  /\ Stage["reserveFunding"] = 13 /\ Stage["reserveToken"] = 14 /\ Stage["reserveRollback"] = 15
  /\ Stage["dispatch"] = 16 /\ Stage["attempt"] = 17 /\ Stage["settleFunding"] = 18
  /\ Stage["settleToken"] = 19 /\ Stage["failing"] = 20 /\ Stage["fee"] = 21
  /\ Stage["feeToken"] = 22 /\ Stage["done"] = 23
  /\ RefundStage["none"] = 0 /\ RefundStage["funding"] = 1 /\ RefundStage["funding2"] = 2
  /\ RefundStage["funding3"] = 3 /\ RefundStage["extra"] = 4
  /\ RefundStage["token"] = 5 /\ RefundStage["done"] = 6
  BY DEF Stage, RefundStage

(* Stages and scores are numbers. *)
LEMMA ScoreTypes ==
  /\ \A p \in Steps : Stage[p] \in Nat
  /\ \A f \in RefundSteps : RefundStage[f] \in Nat
  BY StageValues DEF Steps, RefundSteps, Tries

(* What Progress says of a request, before and after a step *)
LEMMA ProgressIsScore ==
  ASSUME NEW r \in Requests
  PROVE  /\ Progress(r) = Score(pc[r], refundPc[r], ses[r])
         /\ Progress(r)' = Score(pc'[r], refundPc'[r], ses'[r])
  BY DEF Progress, Score, SecondSource

(* r has moved on, or died. *)
Advanced(r) ==
  \/ Score(pc'[r], refundPc'[r], ses'[r]) > Score(pc[r], refundPc[r], ses[r])
  \/ ses'[r].outcome = "crashed"

(* A step of the handler that does not begin an attempt: the next stage is    *)
(* later, or it is the first of the second source.                            *)
LEMMA Onward ==
  ASSUME TypeOK, NEW r \in Requests, NEW p \in Steps, Goto(r, p), UNCHANGED refundPc,
         ses'[r].attempt = ses[r].attempt,
         \/ /\ Stage[p] > Stage[pc[r]] /\ ses'[r].fallback = ses[r].fallback
         \/ Stage[p] >= 13 /\ Stage[p] > Stage[pc[r]]
         \/ pc[r] = "choose" /\ Stage[p] >= 2
         \/ Stage[pc[r]] <= 6 /\ Stage[p] \in {2, 3} /\ ses[r].fallback # "none"
            /\ ses'[r].fallback = "none"
  PROVE  Advanced(r)
  <1>1. pc'[r] = p /\ refundPc'[r] = refundPc[r]
    BY GotoLemma
  <1>2. pc[r] \in Steps /\ refundPc[r] \in RefundSteps /\ ses[r].attempt \in Nat
    BY DEF TypeOK, Session
  <1>3. Stage[p] \in Nat /\ Stage[pc[r]] \in Nat /\ RefundStage[refundPc[r]] \in Nat
    BY <1>2, ScoreTypes
  <1>4. Stage[p] < 13 => Stage[p] <= 6
    BY StageValues DEF Steps
  <1>5. pc[r] = "choose" => Stage[pc[r]] = 1
    BY StageValues
  <1> QED
    BY <1>1, <1>2, <1>3, <1>4, <1>5 DEF Advanced, Score

(* The steps that open a session, with one source or the other *)
LEMMA OpeningAdvances ==
  ASSUME IInv, NEW r \in Requests,
         \/ Choose(r) \/ FallBack(r) \/ TryWallet(r)
         \/ PreConsumeToken(r) \/ PreConsumeFunding(r) \/ PreConsumeRollback(r)
  PROVE  Advanced(r)
  <1>0. TypeOK /\ ses \in [Requests -> Session] /\ ses[r] \in Session
        /\ ses[r].profile.pref \in Prefs
    BY ProfilesAssumption DEF IInv, TypeOK, Session
  <1>1. UNCHANGED refundPc
    BY DEF Choose, FallBack, TryWallet, PreConsumeToken, PreConsumeFunding, PreConsumeRollback
  <1>2. ASSUME NotOpened(r), pc[r] \in OpeningSteps PROVE Advanced(r)
    <2>1. PICK p \in {"done", "attempt"} : Goto(r, p) /\ ses'[r].attempt = ses[r].attempt
      <3>1. CASE Reject(r)
        BY <1>0, <3>1 DEF Reject
      <3>2. CASE RetryTask(r)
        BY <1>0, <3>2 DEF RetryTask
      <3> QED
        BY <1>2, <3>1, <3>2 DEF NotOpened
    <2>2. Stage[p] > Stage[pc[r]] /\ Stage[p] >= 13
      BY <1>2, StageValues DEF OpeningSteps
    <2> QED
      BY <1>0, <1>1, <2>1, <2>2, Onward DEF Steps
  <1>3. ASSUME NEW src \in {"wallet", "subscription"}, NEW next, Try(r, src, next),
               \/ pc[r] = "choose"
               \/ pc[r] = "fallback" /\ ses[r].fallback # "none" /\ next = "none"
        PROVE  Advanced(r)
    <2>1. /\ Goto(r, IF src = "wallet" THEN "tryWallet" ELSE "preToken")
          /\ ses'[r].attempt = ses[r].attempt /\ ses'[r].fallback = next
      BY <1>0, <1>3 DEF Try
    <2> QED
      BY <1>0, <1>1, <1>3, <2>1, Onward, StageValues DEF Steps
  <1>4. ASSUME NEW s \in Session, Opened(r, s), s.attempt = ses[r].attempt,
               pc[r] \in {"tryWallet", "preFunding"}
        PROVE  Advanced(r)
    <2>1. /\ Goto(r, IF s.attempt = 0 THEN "attempt" ELSE "dispatch")
          /\ ses'[r].attempt = ses[r].attempt
      BY <1>0, <1>4 DEF Opened
    <2> QED
      BY <1>0, <1>1, <1>4, <2>1, Onward, StageValues DEF Steps
  <1>5. ASSUME NEW p \in {"fallback", "preToken", "preFunding", "preRollback"}, Goto(r, p),
               ses'[r].attempt = ses[r].attempt, ses'[r].fallback = ses[r].fallback,
               \/ pc[r] = "tryWallet" /\ p \in {"fallback", "preToken"}
               \/ pc[r] = "preToken" /\ p = "preFunding"
               \/ pc[r] = "preFunding" /\ p = "preRollback"
               \/ pc[r] = "preRollback" /\ p = "fallback"
        PROVE  Advanced(r)
    BY <1>0, <1>1, <1>5, Onward, StageValues DEF Steps
  <1>6. CASE Choose(r)
    BY <1>0, <1>2, <1>3, <1>6 DEF Choose, At, Prefs, OpeningSteps
  <1>7. CASE FallBack(r)
    BY <1>2, <1>3, <1>7 DEF FallBack, At, OpeningSteps
  <1>8. CASE TryWallet(r)
    <2>1. pc[r] = "tryWallet"
      BY <1>8 DEF TryWallet, At
    <2>2. /\ [ses[r] EXCEPT !.trusted = ShouldTrust(r, wallet)] \in Session
          /\ [ses[r] EXCEPT !.trusted = ShouldTrust(r, wallet)].attempt = ses[r].attempt
      <3>1. ShouldTrust(r, wallet) \in BOOLEAN
        BY DEF ShouldTrust
      <3> QED
        BY <1>0, <3>1 DEF Session
    <2>3. \/ NotOpened(r)
          \/ UNCHANGED ses /\ (Goto(r, "fallback") \/ Goto(r, "preToken"))
          \/ Opened(r, [ses[r] EXCEPT !.trusted = ShouldTrust(r, wallet)])
      BY <1>8 DEF TryWallet
    <2> QED
      BY <1>2, <1>4, <1>5, <2>1, <2>2, <2>3 DEF OpeningSteps
  <1>9. CASE PreConsumeToken(r)
    <2>1. pc[r] = "preToken"
      BY <1>9 DEF PreConsumeToken, At
    <2>2. \/ NotOpened(r)
          \/ /\ ses'[r].attempt = ses[r].attempt /\ ses'[r].fallback = ses[r].fallback
             /\ Goto(r, "preFunding")
      BY <1>0, <1>9 DEF PreConsumeToken, Session
    <2> QED
      BY <1>2, <1>5, <2>1, <2>2 DEF OpeningSteps
  <1>10. CASE PreConsumeFunding(r)
    <2> DEFINE s == [ses[r] EXCEPT !.pre = Amount(r), !.consumed = Amount(r)]
    <2>1. pc[r] = "preFunding"
      BY <1>10 DEF PreConsumeFunding, At
    <2>2. s \in Session /\ s.attempt = ses[r].attempt
      BY <1>0 DEF Session, Amount
    <2>3. \/ Opened(r, s)
          \/ /\ ses'[r].attempt = ses[r].attempt /\ ses'[r].fallback = ses[r].fallback
             /\ Goto(r, "preRollback")
      BY <1>0, <1>10 DEF PreConsumeFunding, Session
    <2> QED
      BY <1>4, <1>5, <2>1, <2>2, <2>3
  <1>11. CASE PreConsumeRollback(r)
    <2>1. pc[r] = "preRollback"
      BY <1>11 DEF PreConsumeRollback, At
    <2>2. \/ NotOpened(r)
          \/ /\ ses'[r].attempt = ses[r].attempt /\ ses'[r].fallback = ses[r].fallback
             /\ Goto(r, "fallback")
      BY <1>0, <1>11 DEF PreConsumeRollback, Session
    <2> QED
      BY <1>2, <1>5, <2>1, <2>2 DEF OpeningSteps
  <1> QED
    BY <1>6, <1>7, <1>8, <1>9, <1>10, <1>11

(* A turn of the attempt loop counts the attempt, or ends the loop. *)
LEMMA AttemptCounts ==
  ASSUME IInv, NEW r \in Requests, BeginAttempt(r)
  PROVE  \/ ses'[r].attempt = ses[r].attempt /\ pc'[r] = "failing"
         \/ /\ ses'[r].attempt = ses[r].attempt + 1
            /\ pc'[r] \in {"dispatch", "choose", "reserveFunding"}
  <1>0. TypeOK /\ ses \in [Requests -> Session] /\ ses[r] \in Session /\ pc[r] = "attempt"
        /\ refundPc[r] \in RefundSteps /\ refundPc'[r] = refundPc[r] /\ ses[r].attempt \in Nat
    BY DEF IInv, TypeOK, Session, BeginAttempt, At
  <1>2. \/ ses'[r].attempt = ses[r].attempt /\ Goto(r, "failing")
        \/ /\ ses'[r].attempt = ses[r].attempt + 1
           /\ \E p \in {"dispatch", "choose", "reserveFunding"} : Goto(r, p)
    <2>1. CASE ses' = [ses EXCEPT ![r].outcome = "failed"] /\ Goto(r, "failing")
      BY <1>0, <2>1 DEF Session
    <2>2. CASE ses' = [ses EXCEPT ![r].attempt = NextAttempt(r)] /\ Goto(r, "dispatch")
      BY <1>0, <2>2 DEF Session, NextAttempt
    <2>3. ASSUME NEW q \in PreQuotas,
                 ses' = [ses EXCEPT ![r] = [@ EXCEPT !.attempt = NextAttempt(r), !.quota = q]],
                 Goto(r, "choose")
          PROVE  ses'[r].attempt = ses[r].attempt + 1
      BY <1>0, <2>3 DEF Session, NextAttempt
    <2>4. ASSUME NEW q \in PreQuotas,
                 ses' = [ses EXCEPT ![r] = [@ EXCEPT !.attempt = NextAttempt(r), !.target = q]],
                 Goto(r, "reserveFunding")
          PROVE  ses'[r].attempt = ses[r].attempt + 1
      BY <1>0, <2>4 DEF Session, NextAttempt
    <2> QED
      BY <2>1, <2>2, <2>3, <2>4 DEF BeginAttempt
  <1> QED
    BY <1>0, <1>2 DEF Goto, TypeOK

(* So it advances. *)
LEMMA AttemptAdvances ==
  ASSUME IInv, NEW r \in Requests, BeginAttempt(r)
  PROVE  Advanced(r)
  <1>0. /\ pc[r] = "attempt" /\ refundPc[r] \in RefundSteps /\ refundPc'[r] = refundPc[r]
        /\ ses[r].attempt \in Nat
    BY DEF IInv, TypeOK, Session, BeginAttempt, At
  <1>1. RefundStage[refundPc[r]] \in Nat
    BY <1>0, ScoreTypes
  <1> QED
    BY <1>0, <1>1, AttemptCounts, StageValues DEF Advanced, Score

(* The steps from a reservation to the end of the handler *)
LEMMA HandlingAdvances ==
  ASSUME IInv, NEW r \in Requests,
         \/ ReserveFunding(r) \/ ReserveToken(r) \/ ReserveRollback(r) \/ Dispatch(r)
         \/ SettleFunding(r) \/ SettleToken(r) \/ ChargeFee(r) \/ ChargeFeeToken(r)
  PROVE  Advanced(r)
  <1>0. TypeOK /\ ses \in [Requests -> Session] /\ ses[r] \in Session
    BY DEF IInv, TypeOK
  <1>1. UNCHANGED refundPc
    BY DEF ReserveFunding, ReserveToken, ReserveRollback, Dispatch, SettleFunding, SettleToken,
           ChargeFee, ChargeFeeToken
  <1>2. ses'[r].attempt = ses[r].attempt
    <2>1. CASE ReserveFunding(r)
      BY <1>0, <2>1 DEF ReserveFunding, Fail, Session
    <2>2. CASE ReserveToken(r)
      BY <1>0, <2>2 DEF ReserveToken, Session
    <2>3. CASE ReserveRollback(r)
      BY <1>0, <2>3 DEF ReserveRollback, Session
    <2>4. CASE Dispatch(r)
      BY <1>0, <2>4 DEF Dispatch, Session
    <2>5. CASE SettleFunding(r) \/ SettleToken(r)
      BY <1>0, <2>5 DEF SettleFunding, SettleToken, Session
    <2>6. CASE ChargeFee(r) \/ ChargeFeeToken(r)
      BY <1>0, <2>6 DEF ChargeFee, ChargeFeeToken, Session
    <2> QED
      BY <2>1, <2>2, <2>3, <2>4, <2>5, <2>6
  <1>3. \E p \in Steps : Goto(r, p) /\ Stage[p] >= 13 /\ Stage[p] > Stage[pc[r]]
    <2>1. CASE ReserveFunding(r)
      BY <2>1, StageValues DEF ReserveFunding, Fail, At, Steps
    <2>2. CASE ReserveToken(r) \/ ReserveRollback(r)
      BY <2>2, StageValues DEF ReserveToken, ReserveRollback, At, Steps
    <2>3. CASE Dispatch(r)
      <3>1. pc[r] = "dispatch" /\ \E p \in {"settleFunding", "attempt", "failing"} : Goto(r, p)
        BY <2>3 DEF Dispatch, At
      <3> QED
        BY <3>1, StageValues DEF Steps
    <2>4. CASE SettleFunding(r) \/ SettleToken(r)
      BY <2>4, StageValues DEF SettleFunding, SettleToken, At, Steps
    <2>5. CASE ChargeFee(r) \/ ChargeFeeToken(r)
      BY <2>5, StageValues DEF ChargeFee, ChargeFeeToken, At, Steps
    <2> QED
      BY <2>1, <2>2, <2>3, <2>4, <2>5
  <1> QED
    BY <1>0, <1>1, <1>2, <1>3, Onward

(* The goroutine starts once, and goes through its three calls. *)
LEMMA RefundAdvances ==
  ASSUME IInv, NEW r \in Requests, Refund(r) \/ RefundStep(r)
  PROVE  Advanced(r)
  <1>0. TypeOK /\ ses \in [Requests -> Session] /\ ses[r] \in Session /\ pc[r] \in Steps
        /\ refundPc \in [Requests -> RefundSteps] /\ ses[r].attempt \in Nat
    BY DEF IInv, TypeOK, Session
  <1>1. Stage[pc[r]] \in Nat
    BY <1>0, ScoreTypes
  <1>2. CASE Refund(r)
    <2>1. pc[r] = "failing" /\ refundPc[r] = "none"
      BY <1>2, RequestFacts DEF Refund, At, Acct, Books
    <2>2. /\ ses'[r].attempt = ses[r].attempt
          /\ refundPc'[r] \in {"none", "funding"}
          /\ pc'[r] \in {"fee", "done"}
      <3>1. ses'[r].attempt = ses[r].attempt /\ refundPc'[r] \in {"none", "funding"}
        BY <1>0, <1>2, <2>1 DEF Refund, Session
      <3>2. Goto(r, "fee") \/ Goto(r, "done")
        BY <1>2 DEF Refund
      <3> QED
        BY <1>0, <3>1, <3>2, GotoLemma DEF Steps
    <2> QED
      BY <1>0, <2>1, <2>2, StageValues DEF Advanced, Score
  <1>3. CASE RefundStep(r)
    <2>1. /\ pc' = pc /\ ses' = ses
          /\ \/ refundPc[r] \in Tries /\ refundPc'[r] \in {NextTry(refundPc[r]), "extra"}
             \/ refundPc[r] = "extra" /\ refundPc'[r] = "token"
             \/ refundPc[r] = "token" /\ refundPc'[r] = "done"
      BY <1>0, <1>3 DEF RefundStep, RefundFunding, RefundExtra, RefundToken, RefundGoto
    <2> QED
      BY <1>0, <1>1, <2>1, StageValues DEF Advanced, Score, Tries, NextTry
  <1> QED
    BY <1>2, <1>3

(* A request that starts has made no attempt before; a crash ends it. *)
LEMMA StartAdvances ==
  ASSUME IInv, IdleFresh, NEW r \in Requests, Start(r) \/ Crash(r)
  PROVE  Advanced(r)
  <1>0. TypeOK /\ ses \in [Requests -> Session] /\ refundPc[r] \in RefundSteps
    BY DEF IInv, TypeOK
  <1>1. CASE Start(r)
    <2>1. /\ ses'[r].attempt = 0 /\ pc'[r] \in {"choose", "attempt"} /\ pc[r] = "idle"
          /\ refundPc'[r] = refundPc[r] /\ ses[r].attempt = 0
      <3>1. PICK p \in Profiles, q \in PreQuotas :
              ses' = [ses EXCEPT ![r] = [NoSession EXCEPT
                        !.profile = p, !.quota = q, !.tokenSeen = tokenQuota]]
        BY <1>1 DEF Start
      <3>2. ses'[r].attempt = 0
        BY <1>0, <3>1 DEF NoSession
      <3>3. /\ pc[r] = "idle" /\ refundPc'[r] = refundPc[r]
            /\ Goto(r, "choose") \/ Goto(r, "attempt")
        BY <1>1 DEF Start, At
      <3> QED
        BY <1>0, <3>2, <3>3, GotoLemma DEF IdleFresh, Steps
    <2>2. RefundStage[refundPc[r]] \in Nat
      BY <1>0, ScoreTypes
    <2> QED
      BY <2>1, <2>2, StageValues DEF Advanced, Score
  <1>2. CASE Crash(r)
    BY <1>0, <1>2 DEF Crash, Advanced
  <1> QED
    BY <1>1, <1>2

(* No step goes back to "idle". *)
LEMMA NeverIdleAgain ==
  ASSUME IInv, NEW r \in Requests, Start(r) \/ RequestStep(r) \/ RefundStep(r) \/ Crash(r)
  PROVE  pc'[r] # "idle"
  <1>0. TypeOK /\ ses[r].profile.pref \in Prefs
    BY ProfilesAssumption DEF IInv, TypeOK, Session
  <1>1. ASSUME NEW p \in Steps \ {"idle"}, Goto(r, p) PROVE pc'[r] # "idle"
    BY <1>0, <1>1, GotoLemma
  <1>2. CASE Start(r) \/ Crash(r) \/ BeginAttempt(r) \/ Dispatch(r) \/ Refund(r)
    BY <1>1, <1>2 DEF Start, Crash, BeginAttempt, Dispatch, Refund, Steps
  <1>3. CASE Choose(r) \/ FallBack(r) \/ TryWallet(r)
    BY <1>0, <1>1, <1>3 DEF Choose, FallBack, TryWallet, Try, NotOpened, Reject, RetryTask, Opened, Prefs, Steps
  <1>4. CASE PreConsumeToken(r) \/ PreConsumeFunding(r) \/ PreConsumeRollback(r)
    BY <1>1, <1>4 DEF PreConsumeToken, PreConsumeFunding, PreConsumeRollback, NotOpened,
                     Reject, RetryTask, Opened, Steps
  <1>5. CASE ReserveFunding(r) \/ ReserveToken(r) \/ ReserveRollback(r)
    BY <1>1, <1>5 DEF ReserveFunding, ReserveToken, ReserveRollback, Fail, Steps
  <1>6. CASE SettleFunding(r) \/ SettleToken(r) \/ ChargeFee(r) \/ ChargeFeeToken(r)
    BY <1>1, <1>6 DEF SettleFunding, SettleToken, ChargeFee, ChargeFeeToken, Steps
  <1>7. CASE RefundStep(r)
    <2>1. pc' = pc /\ refundPc[r] # "none"
      BY <1>7 DEF RefundStep, RefundFunding, RefundExtra, RefundToken, Tries
    <2> QED
      BY <2>1, RequestFacts DEF Acct, Returns, Returned, Tries, Books
  <1> QED
    BY <1>2, <1>3, <1>4, <1>5, <1>6, <1>7 DEF RequestStep

(* A request at "idle" has made no attempt. *)
LEMMA AlwaysFresh == Spec => []IdleFresh
  <1>1. Init => IdleFresh
    BY DEF Init, IdleFresh, NoSession
  <1>2. IInv /\ IdleFresh /\ [Next]_vars => IdleFresh'
    <2> SUFFICES ASSUME IInv, IdleFresh, [Next]_vars PROVE IdleFresh'
      OBVIOUS
    <2>1. ASSUME NEW r \in Requests, Start(r) \/ RequestStep(r) \/ RefundStep(r) \/ Crash(r)
          PROVE  IdleFresh'
      BY <2>1, StepLocal, NeverIdleAgain DEF IdleFresh, Local
    <2>2. CASE ExpireSubscription \/ UNCHANGED vars
      BY <2>2 DEF ExpireSubscription, vars, IdleFresh
    <2> QED
      BY <2>1, <2>2 DEF Next, Terminated
  <1> QED
    BY Accounts, <1>1, <1>2, PTL DEF Spec

(* Whatever fails and however requests interleave, every step of a request or *)
(* of its refund goroutine takes it further, a crash ends it, and no step of  *)
(* one request changes another: runRelayAttempts and NewBillingSession cannot *)
(* go round for ever.                                                         *)
THEOREM StepsAdvance == Spec => EveryStepAdvances
  <1> DEFINE Step == \A r \in Requests :
               <<pc[r], refundPc[r], ses[r]>> # <<pc'[r], refundPc'[r], ses'[r]>> =>
                 Progress(r)' > Progress(r) \/ ses'[r].outcome = "crashed"
  <1>1. IInv /\ IdleFresh /\ [Next]_vars => [Step]_vars
    <2> SUFFICES ASSUME IInv, IdleFresh, [Next]_vars, NEW r \in Requests,
                        <<pc[r], refundPc[r], ses[r]>> # <<pc'[r], refundPc'[r], ses'[r]>>
                 PROVE  Progress(r)' > Progress(r) \/ ses'[r].outcome = "crashed"
      OBVIOUS
    <2>1. PICK q \in Requests : Start(q) \/ RequestStep(q) \/ RefundStep(q) \/ Crash(q)
      BY DEF Next, Terminated, ExpireSubscription, vars
    <2>2. q = r
      BY <2>1, StepLocal DEF Local
    <2>3. Advanced(r)
      <3>1. CASE Start(r) \/ Crash(r)
        BY <3>1, StartAdvances
      <3>2. CASE RefundStep(r) \/ Refund(r)
        BY <3>2, RefundAdvances
      <3>3. CASE RequestStep(r) /\ ~Refund(r)
        BY <3>3, OpeningAdvances, AttemptAdvances, HandlingAdvances DEF RequestStep
      <3> QED
        BY <2>1, <2>2, <3>1, <3>2, <3>3
    <2> QED
      BY <2>3, ProgressIsScore DEF Advanced
  <1> QED
    BY Accounts, AlwaysFresh, <1>1, PTL DEF Spec, EveryStepAdvances

(* The loop of runRelayAttempts is entered with an attempt left. *)
AttemptsLeft ==
  \A r \in Requests : /\ ses[r].attempt <= MaxAttempts
                      /\ pc[r] = "attempt" => ses[r].attempt < MaxAttempts

(* A step counts at most the attempt it begins, and leads back to the loop    *)
(* only with one left.                                                        *)
LEMMA AttemptsCounted ==
  ASSUME IInv, NEW r \in Requests, Start(r) \/ RequestStep(r) \/ RefundStep(r) \/ Crash(r)
  PROVE  \/ ses'[r].attempt = 0
         \/ /\ ses'[r].attempt = ses[r].attempt
            /\ pc'[r] = "attempt" => ses[r].attempt < MaxAttempts
         \/ /\ pc[r] = "attempt" /\ ses'[r].attempt = ses[r].attempt + 1
            /\ pc'[r] # "attempt"
  <1>0. TypeOK /\ ses \in [Requests -> Session] /\ ses[r] \in Session
        /\ ses[r].profile.pref \in Prefs /\ ses[r].attempt \in Nat
    BY ProfilesAssumption DEF IInv, TypeOK, Session
  <1>1. ASSUME NEW p \in Steps, Goto(r, p) PROVE pc'[r] = p
    BY <1>0, <1>1, GotoLemma
  <1>2. ASSUME NotOpened(r)
        PROVE  /\ ses'[r].attempt = ses[r].attempt
               /\ pc'[r] = "attempt" => ses[r].attempt < MaxAttempts
    <2>1. CASE Reject(r)
      BY <1>0, <1>1, <2>1 DEF Reject, Session, Steps
    <2>2. CASE RetryTask(r)
      BY <1>0, <2>2, BoundsAssumption DEF RetryTask, Session
    <2> QED
      BY <1>2, <2>1, <2>2 DEF NotOpened
  <1>3. ASSUME NEW src, NEW next, Try(r, src, next)
        PROVE  ses'[r].attempt = ses[r].attempt /\ pc'[r] \in {"tryWallet", "preToken"}
    <2>1. ses'[r].attempt = ses[r].attempt
      BY <1>0, <1>3 DEF Try, Session
    <2> QED
      BY <1>1, <1>3, <2>1 DEF Try, Steps
  <1>4. ASSUME NEW s \in Session, Opened(r, s), s.attempt = ses[r].attempt
        PROVE  /\ ses'[r].attempt = ses[r].attempt
               /\ pc'[r] = "attempt" => ses'[r].attempt = 0
    <2>1. ses'[r].attempt = ses[r].attempt
      BY <1>0, <1>4 DEF Opened, Session
    <2>2. Goto(r, IF s.attempt = 0 THEN "attempt" ELSE "dispatch")
      BY <1>4 DEF Opened
    <2> QED
      BY <1>1, <1>4, <2>1, <2>2 DEF Steps
  <1>5. CASE Choose(r)
    BY <1>0, <1>2, <1>3, <1>5 DEF Choose, Prefs, Steps
  <1>6. CASE FallBack(r)
    BY <1>2, <1>3, <1>6 DEF FallBack, Steps
  <1>7. CASE TryWallet(r)
    <2> DEFINE s == [ses[r] EXCEPT !.trusted = ShouldTrust(r, wallet)]
    <2>1. ShouldTrust(r, wallet) \in BOOLEAN
      BY DEF ShouldTrust
    <2>2. s \in Session /\ s.attempt = ses[r].attempt
      BY <1>0, <2>1 DEF Session
    <2>3. \/ NotOpened(r) \/ Opened(r, s)
          \/ UNCHANGED ses /\ (Goto(r, "fallback") \/ Goto(r, "preToken"))
      BY <1>7 DEF TryWallet
    <2> HIDE DEF s
    <2> QED
      BY <1>1, <1>2, <1>4, <2>2, <2>3 DEF Steps
  <1>8. CASE PreConsumeToken(r)
    <2>1. \/ NotOpened(r)
          \/ ses'[r].attempt = ses[r].attempt /\ Goto(r, "preFunding")
      BY <1>0, <1>8 DEF PreConsumeToken, Session
    <2> QED
      BY <1>1, <1>2, <2>1 DEF Steps
  <1>9. CASE PreConsumeFunding(r)
    <2> DEFINE s == [ses[r] EXCEPT !.pre = Amount(r), !.consumed = Amount(r)]
    <2>1. s \in Session /\ s.attempt = ses[r].attempt
      BY <1>0 DEF Session, Amount
    <2>2. \/ Opened(r, s)
          \/ ses'[r].attempt = ses[r].attempt /\ Goto(r, "preRollback")
      BY <1>0, <1>9 DEF PreConsumeFunding, Session
    <2> HIDE DEF s
    <2> QED
      BY <1>1, <1>4, <2>1, <2>2 DEF Steps
  <1>10. CASE PreConsumeRollback(r)
    <2>1. \/ NotOpened(r)
          \/ ses'[r].attempt = ses[r].attempt /\ Goto(r, "fallback")
      BY <1>0, <1>10 DEF PreConsumeRollback, Session
    <2> QED
      BY <1>1, <1>2, <2>1 DEF Steps
  <1>11. CASE BeginAttempt(r)
    <2>1. pc[r] = "attempt"
      BY <1>11 DEF BeginAttempt, At
    <2>2. \/ ses'[r].attempt = ses[r].attempt /\ pc'[r] = "failing"
          \/ ses'[r].attempt = ses[r].attempt + 1 /\ pc'[r] # "attempt"
      BY <1>11, AttemptCounts
    <2> QED
      BY <2>1, <2>2
  <1>12. CASE ReserveFunding(r) \/ ReserveToken(r) \/ ReserveRollback(r)
    <2>1. CASE ReserveFunding(r)
      BY <1>0, <1>1, <2>1 DEF ReserveFunding, Fail, Session, Steps
    <2>2. CASE ReserveToken(r)
      BY <1>0, <1>1, <2>2 DEF ReserveToken, Session, Steps
    <2>3. CASE ReserveRollback(r)
      BY <1>0, <1>1, <2>3 DEF ReserveRollback, Session, Steps
    <2> QED
      BY <1>12, <2>1, <2>2, <2>3
  <1>13. CASE Dispatch(r)
    <2>1. ses'[r].attempt = ses[r].attempt
      BY <1>0, <1>13 DEF Dispatch, Session
    <2>2. \/ Goto(r, "settleFunding") \/ Goto(r, "failing")
          \/ ses[r].attempt < MaxAttempts
      BY <1>13 DEF Dispatch
    <2> QED
      BY <1>1, <2>1, <2>2 DEF Steps
  <1>14. CASE SettleFunding(r) \/ SettleToken(r)
    BY <1>0, <1>1, <1>14 DEF SettleFunding, SettleToken, Session, Steps
  <1>15. CASE ChargeFee(r) \/ ChargeFeeToken(r)
    BY <1>0, <1>1, <1>15 DEF ChargeFee, ChargeFeeToken, Session, Steps
  <1>16. CASE Refund(r)
    BY <1>0, <1>1, <1>16 DEF Refund, Session, Steps
  <1>17. CASE RefundStep(r)
    <2>1. pc' = pc /\ ses' = ses /\ refundPc[r] # "none"
      BY <1>17 DEF RefundStep, RefundFunding, RefundExtra, RefundToken, Tries
    <2> QED
      BY <2>1, RequestFacts DEF Acct, Returns, Returned, Tries, Books
  <1>18. CASE Start(r)
    <2>1. PICK p \in Profiles, q \in PreQuotas :
            ses' = [ses EXCEPT ![r] = [NoSession EXCEPT
                      !.profile = p, !.quota = q, !.tokenSeen = tokenQuota]]
      BY <1>18 DEF Start
    <2> QED
      BY <1>0, <2>1 DEF NoSession
  <1>19. CASE Crash(r)
    BY <1>0, <1>19 DEF Crash, NoSession
  <1> QED
    BY <1>5, <1>6, <1>7, <1>8, <1>9, <1>10, <1>11, <1>12, <1>13, <1>14, <1>15, <1>16, <1>17,
       <1>18, <1>19 DEF RequestStep

(* Attempts are bounded: RetryTimes, not negative, allows one more than itself. *)
LEMMA AlwaysAttemptsLeft ==
  ASSUME MaxAttempts > 0
  PROVE  Spec => []AttemptsLeft
  <1>1. Init => AttemptsLeft
    BY BoundsAssumption DEF Init, AttemptsLeft, NoSession
  <1>2. IInv /\ AttemptsLeft /\ [Next]_vars => AttemptsLeft'
    <2> SUFFICES ASSUME IInv, AttemptsLeft, [Next]_vars PROVE AttemptsLeft'
      OBVIOUS
    <2>1. ASSUME NEW r \in Requests, Start(r) \/ RequestStep(r) \/ RefundStep(r) \/ Crash(r),
                 NEW q \in Requests
          PROVE  /\ ses'[q].attempt <= MaxAttempts
                 /\ pc'[q] = "attempt" => ses'[q].attempt < MaxAttempts
      <3>1. CASE q # r
        BY <2>1, <3>1, StepLocal DEF Local, AttemptsLeft
      <3>2. CASE q = r
        <4>1. /\ ses[r].attempt \in Nat /\ ses[r].attempt <= MaxAttempts
              /\ pc[r] = "attempt" => ses[r].attempt < MaxAttempts
          BY DEF IInv, TypeOK, Session, AttemptsLeft
        <4> QED
          BY <2>1, <3>2, <4>1, AttemptsCounted, BoundsAssumption
      <3> QED
        BY <3>1, <3>2
    <2>2. CASE ExpireSubscription \/ UNCHANGED vars
      BY <2>2 DEF ExpireSubscription, vars, AttemptsLeft
    <2> QED
      BY <2>1, <2>2 DEF Next, Terminated, AttemptsLeft
  <1> QED
    BY Accounts, <1>1, <1>2, PTL DEF Spec

(* The measure is bounded by the number of attempts the configuration allows, *)
(* so a request takes finitely many steps before it is finished: StepsAdvance *)
(* and this theorem are its termination, up to scheduling.                    *)
THEOREM ProgressBounded ==
  ASSUME MaxAttempts > 0
  PROVE  Spec => [](\A r \in Requests : Progress(r) <= 100 * MaxAttempts + 35)
  <1>1. IInv /\ AttemptsLeft => \A r \in Requests : Progress(r) <= 100 * MaxAttempts + 35
    <2> SUFFICES ASSUME IInv, AttemptsLeft, NEW r \in Requests
                 PROVE  Progress(r) <= 100 * MaxAttempts + 35
      OBVIOUS
    <2>1. /\ ses[r].attempt \in Nat /\ ses[r].attempt <= MaxAttempts
          /\ pc[r] \in Steps /\ refundPc[r] \in RefundSteps
      BY DEF IInv, TypeOK, Session, AttemptsLeft
    <2>2. Stage[pc[r]] \in 0..23 /\ RefundStage[refundPc[r]] \in 0..6
      BY <2>1, StageValues DEF Steps, RefundSteps, Tries
    <2>3. SecondSource(r) => Stage[pc[r]] <= 6
      BY <2>2 DEF SecondSource
    <2> QED
      BY <2>1, <2>2, <2>3, BoundsAssumption DEF Progress
  <1> QED
    BY Accounts, AlwaysAttemptsLeft, <1>1, PTL
=============================================================================
