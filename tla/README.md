# TLA+ verification of the gateway: billing, tasks, sessions and the browser's side

The repository is an LLM API gateway: a Go server that authenticates callers,
reserves quota, relays the request to an upstream channel (with retries),
settles the real price, and runs background tasks, shared by several nodes
through one database and Redis; and a web application in TypeScript that signs
in, keeps its credentials over several tabs and talks to the gateway. This
directory models the parts of it where a wrong interleaving costs money, lets
somebody in, loses work or stops the system: who pays for a request, what a
subscription has used, when it is reset, which node runs a system task, which
refresh token is good, what a browser tab does with an answer that comes too
late, and what a streamed conversation shows and keeps.

## 1. Inventory

| Component | State it keeps | Operations | What makes it correct |
|---|---|---|---|
| Billing session (`service/billing_session.go`, `funding_source.go`, `billing.go`) | per request: source, pre-consumed, token share, extra reservation, settled/refunded flags, in memory only | NewBillingSession, Reserve, Settle, Refund (a goroutine) | a served request costs its price, a failed one nothing, one source pays, nothing is returned twice |
| Relay loop and fee (`controller/relay.go`, `service/tiered_settle.go`, `violation_fee.go`) | attempt counter, deferred handler | runRelayAttempts, re-pricing per group, ChargeViolationFeeIfNeeded | ends; fee and refund do not disturb each other |
| Subscription quota (`model/subscription.go`) | `user_subscriptions`, `subscription_pre_consume_records` | pre-consume, delta, refund by request id, cleanup | used covers what requests consumed and stays within the total |
| Subscription reset (`service/subscription_reset_task.go`, `model/subscription.go`) | `next_reset_time`, `last_reset_time`, one running task | expire, reset batches, reset on use, administrative reset, plan edit | one quota per period; every due row is reset |
| System tasks (`model/system_task.go`, `service/system_task.go`) | `system_tasks` (unique active key), `system_task_locks` (leases) | create, claim, heartbeat, finish, sweep | one runner per row, ends are final, every active task ends |
| User sessions (`model/user_session.go`, `service/auth_session.go`) | session row (versions, refresh hashes, replay window), Redis snapshot or tombstone | create, validate, rotate, advance, revoke (one, by cookie, all) | a revoked session stays out; a racing refresh gets the winner's token; one chain of tokens |
| Web authentication (`web/src/lib/auth-session.ts`, `http-client.ts`, `auth-session-sync.ts`, stores, guards) | per tab: credentials, epoch, one refresh; shared: cookie, Web Lock, channel | bootstrap, refresh, 401 retry, login, logout, rotation, announcements | a late answer never revives a session; tabs do not take each other for thieves |
| Playground (`web/src/features/playground`) | conversation, React's queue, frame buffer, two generation counters, source, debounced storage | send, stop, regenerate, edit, delete, stream events, load, leave | an answer keeps to its request, ends once, is kept |
| Asynchronous tasks (`service/task_polling.go`, `task_billing.go`, `model/task.go`) | `tasks` with status, progress and quota | list, time out, poll, settle, refund | each task is settled or refunded once, its row says what it still costs, and it ends |
| Quota cache (`model/quota_reserve.go`, `user_cache.go`, `utils.go`) | Redis hash, batch store in memory, database row | reserve by script, hydrate, compensate, batch write | cache and database converge; no overdraft through a stale copy |
| Authentication flows, top-up, redemption, check-in, orders | flow rows, trade rows, codes, days | consume, callbacks, redeem, check in | one use or credit each |
| Channels, limiters, expressions, adaptors, rest of the web application | caches, counters, conversions, forms | | see section 7 |

How they interact: the relay handler calls the billing session, the session
calls wallet, token and subscription through the database (and Redis), the
refund goroutine outlives the handler, the reset task and the administrator
change the same subscription rows under row locks, and the system-task runner
starts the asynchronous poll, whose refunds use the same ledgers. Nodes share
nothing but the database and Redis. Tabs of a browser share a cookie, a lock and
a broadcast channel; every call of theirs goes through the interceptor that
refreshes on a 401, the playground's stream included (it awaits fresh headers).

Hard behaviours: every database call is a scheduling point and may fail; the
process may die with sessions in memory; a refund is two nested transactions and
is retried; the task reads a clock and a batch and uses them later; a lease may
run out in the middle of any operation; a cache fill may land after the
revocation it did not see; an answer may arrive in a tab that has moved on; an
updater may run after the state it was made for is gone. `PROJECT.json` lists
them one by one, each at its line, under `hazards`.

## 2. Modules

| Module | Models | Composes / extends |
|---|---|---|
| `BillingSession` | a request from arrival to settlement or refund, several at once on one wallet, one token, one subscription | |
| `SubscriptionQuota` | the transactions that `BillingSession` takes as atomic for a subscription | |
| `SubscriptionReset` | reset periods, the reset task, plan edits | |
| `SystemTask` | tasks of one type on several nodes | |
| `TaskPolling` | asynchronous tasks from their insertion to their billing | |
| `RefreshChain` | a session as the holders of its refresh tokens see it | |
| `SessionStore` | the abstract session: one chain of tokens, one end | `RefreshChain` |
| `UserSession` | row, cache and concurrent requests of one session | implements `SessionStore` |
| `WebAuth` | the tabs of a browser against that server | `RefreshChain` |
| `Playground` | the playground page | |
| `MC*` | constants for TLC, symmetry | the module named |
| `*_proofs` | theorems | the module named, TLAPS |

### BillingSession

`wallet`, `tokenQuota`, `subUsed` are `User.Quota`, `Token.RemainQuota` and
`UserSubscription.AmountUsed`. `ses[r]` holds the fields of `BillingSession` and
its `FundingSource` and the locals of `NewBillingSession` and `Relay` that
outlive a step; `pc[r]` is the handler, `refundPc[r]` the goroutine that
`Refund` starts. `charged` and `unsecured` are history variables: what each
ledger really lost to each request, and what was taken by calls that check no
balance. One action per database call:

- `Choose`, `FallBack`, `TryWallet`, `PreConsumeToken`, `PreConsumeFunding`,
  `PreConsumeRollback`: `NewBillingSession` and `preConsume`. The trust bypass
  and the test for sufficiency use the balance that `TryWallet` read.
- `BeginAttempt`, `ReserveFunding`, `ReserveToken`, `ReserveRollback`,
  `Dispatch`: one turn of `runRelayAttempts` with the re-pricing of
  `PrepareTieredBillingForSelectedGroup`. The upstream is a choice between
  served at some price, failed, and refused for a policy violation.
- `SettleFunding`, `SettleToken`: `Settle`, and `PostConsumeQuota` without a
  session.
- `Refund`, `ChargeFee`, `ChargeFeeToken` and the goroutine `RefundFunding`,
  `RefundExtra`, `RefundToken`. The refund of a subscription is tried three times
  (`Tries`); a try may succeed, fail without effect, or commit its inner
  transaction and fail in the outer one (`SubscriptionQuota`), after which the
  next try gives the amount back again. `charged[r].given` and `.regiven` record
  that.
- `ExpireSubscription`, `Crash`.

`NotOpened` ends a request for which no session could be opened (`Reject`), or,
in `RelayTask`, which opens the session inside an attempt and takes the error for
one of the upstream, goes on to the next attempt (`RetryTask`).

Every other database call takes effect or fails without effect (`DbError`, at most
`MaxDbErrors` per request; the tries of a refund are bounded by their number). An estimate and a price are arbitrary members of
small sets: that covers every pricing rule, so the pricing code itself is left
out.

### SubscriptionQuota

`PreConsume` is one transaction over all active subscriptions in order of end
time; `Reserve`, `Settle` and `RefundExtra` are calls of
`PostConsumeUserSubscriptionDelta`. `RefundSubscriptionPreConsume` is three
steps, because that is what it is: the outer transaction locks the record
(`RefundOuterBegin`), the inner one commits the lowered amount on its own
(`RefundInner`), the outer one saves the record or fails
(`RefundOuterCommit`). `TryFailed` is a turn of `refundWithRetry`. `refunds` is a
history variable. `due[s]` says that the period is over; when exactly that
happens is the matter of `SubscriptionReset`.

The branches of `PreConsumeUserSubscription` for a request id that already has
a record are not reachable from the callers (each request id is drawn once and
pre-consumed once) and are left out.

### SubscriptionReset

Time is a counter of ticks, a period a number of ticks (0 is never), and
`CalcNext` the next multiple not after the end. A custom period, which counts
seconds from its base instead of calendar boundaries, is not modelled. `MaybeReset` walks from the last
reset over the boundaries up to the caller's `now`, which for the task is the
time it listed the batch. `used` is whether anything was consumed in the period.
`JobExpire`, `JobList`, `JobReset`, `JobBatchEnds` and `JobFails` are the task,
`Use` a request, `AdminReset` and `ChangePlan` the administrator. Expiry, which the
code does in batches before the resets, is one step: nothing reads a half-done
expiry. A plan is read and applied in one step.

### SystemTask

`task[t]` is a row of `system_tasks` (status, whether `active_key` is set,
`locked_by`), `lock` the row of `system_task_locks` for the type, `loop[n]` the
runner goroutine of a node with the age of the clock it read, `run[t][n]` the
dispatched handler. Types do not share rows or locks, so one is enough.

Time is relative. A lease stores the ticks it has left, an operation the ticks
since it read `now`; `locked_until < now` becomes `left < -age`. So the model has
no unbounded clock and the proofs no bound on time. `Tick` stops while some
operation is as old as `MaxStall`: that constant is the assumption how long a
node may stall in the middle of an operation, and it is what separates the runs
`task_lease` and `task_wedged`.

`Legacy` are pending rows without `active_key`, as an older version leaves them.
They are the only way for the lock of one row to be taken over from another that
is running. The proofs allow them wherever `Timely` is not assumed; the runs have
none.

A claim is one action per statement: `ClaimInsert`, `ClaimLook` at the row that
is there when the insert was refused or failed, `ClaimTakeover`, `ClaimMark`,
`ClaimRun`, `ClaimRelease`.

A node that crashes stays down; a restarted process draws a new runner id, so it
is another member of `Nodes`.

### TaskPolling

`row[t]` is a row of `tasks`: status, whether its progress is `100%`, quota.
`book[t]` is what the task costs at this moment its funding source, its token and
the usage counters; tasks share these ledgers, but every change is an addition,
so one number per task is enough. `work[p][t]` is the copy that a pass of
`RunTaskPollingOnce` listed, with the statement it has come to. A pass sweeps
(`SweepBegin`, `SweepTask`), then polls (`PollBegin`, `PollTask`), then ends; the
sweep and the polls list a limited number of the oldest rows. The goroutines of a
pass, one per channel, are steps on different tasks in any order. The lease of
`SystemTask` makes passes follow one another; a handler that has lost it goes on,
which is a pass begun beside another (`MaxOverlaps`).

The upstream's answer is chosen when it is applied: nothing useful, a rate limit or
a cancelled pass (`PollNothing`); a status and a progress, possibly 100 %
(`PollProgress`); success with some actual price, or with none (`PollSuccess`);
failure. `EndTask` is `UpdateWithStatus` with all it writes, the quota of the copy
included; a failing update may have taken effect. `BulkFail` is
`TaskBulkUpdateByID`. `due` is what the task is to cost: zero is
`RefundTaskQuota`, another amount `RecalculateTaskQuota`, which write the row's
quota last and before the usage counters respectively. `Submit` is the insertion
after `SettleBilling` (`BillingSession`) and takes it that the settlement
succeeded: `RelayTask` only logs an error of it, and the amounts are then off by the
difference before this component has seen the task. `AdjustUsage` changes the
counters of the user and of the channel in one step; nothing reads one against the
other. A task whose insertion fails has been
charged and is never seen by this component. Upstream ids are taken to be
distinct: two tasks of a platform with the same one would share a copy.

### UserSession, SessionStore, RefreshChain

A refresh secret is derived from the one before it (`deriveNextRefreshSecret`),
so a token is the number of its generation; `row.gen` and `row.prev` stand for
the two hashes, `row.until` for `previous_valid_until`. `cache` is the Redis
entry with its expiry. `op[p]` is a request: its statement to come (`pc`), the
snapshot it read, the deadline it captured before reading, the tries it has
left. One action per statement, transaction or script:

- `ReadCache`, `ReadRow`, `WriteActive`, `Written`, `Confirm`:
  `GetUserSessionCached` and `writeUserSessionCache`, with the deadline checked
  before and after the script, as in the code;
- `Validate`, `Bump`, `Advance`: an access, and a security change that bumps the
  user's version first. `ReadRow` reads the row and publishes an inactive one in one
  step: such a row stays as it is;
- `StartRotation`, `Rotate`, `Swap`: `RefreshLoginSession` and
  `RotateUserSessionRefresh`;
- `Candidate`, `Fence`, `Kill`, `Tombstone`: the three revocations, whose order
  (fence in Redis, row, tombstone) is the same. The logout by cookie holds a row
  lock over them, which the model does not use: it allows more interleavings than
  a database with row locks, as SQLite does.

Time is a clock up to `MaxTime`; it may pass between any two statements.
`SessionStore` says what all this is for; `StoreSpec` maps the row to its chain
(`open` is that the replay window has not closed) and keeps `answers`, the pairs
of presented and given tokens. `ended` is a history variable. The user's own
version is one atomic counter: its cache has a version floor.

`RefreshChain` holds the three questions a server asks of a presented token
(`Current`, `Recoverable`, `Replayed`); `SessionStore` and `WebAuth` share it, so
what `UserSession` is shown to implement is what the browser model is run
against.

### WebAuth

`tab[t]` is a page: the session and version of its credentials, whether the
access token is still good, `bootstrapState`, the one refresh (`refreshPromise`)
and one user action. `ref.current` is `authEpoch === refreshEpoch`. `jar` is the
cookie, changed when a response arrives, before and whatever the page does with
its body. `lock` is the queue of the Web Lock, `queue[t]` the messages of the
broadcast channel, `adrift` requests whose page has been reloaded and which
reach the server all the same. The server's part (`Serve*`) is one step per
request, over `RefreshChain`. `AUTH_REFRESH_RACE`, for which the browser has a
retry loop, is not an answer the server can give (`LoserIsRecovered`, proved), so
the loop is left out, and with it the `out_of_sync` end of a mismatch that it does
not repair. A second factor, OAuth and passkeys end in the same application of a
bundle and are a login; since the OAuth pages apply theirs whatever the tab holds, a
login may begin in a tab that is signed in. Left out are the filter that drops
messages older than 60 seconds and the loss of a message to a page that is being
reloaded (a tab may just as well be slow to hear of it), and requests other than
refreshes that outlive their page; the answer to a refresh whose page was reloaded is
taken to be lost with its cookie. `Rest` is the only way to stop: TLC's
deadlock check is the statement that no tab waits for a lock, a refresh or an
answer that will not come.

### Playground

`msgs` is the conversation as last rendered and `queue` the updaters React has
not run; `Deliver` queues, `Commit` renders. A user's event is handled and
rendered at once together with everything queued, a network or frame event only
queues, and an updater on an empty queue may be run eagerly: this is what React
19 does and the component relies on. `chat` holds the refs of `useChatHandler`
(generation, pending text, frame, abort controller), `ctl` the closure of
`createStreamRequestController`; `reqs` are the requests with the generations
they captured. Text is the set of requests it came from, which is what the
properties tell apart. A message without attachments is sent in the task of its
submit event (`SubmitText`); one with attachments waits for its files
(`SubmitFiles`, `FilesRead`, `ReadFailed`) and is then sent by the handlers of the
render in which it was submitted, with the messages, the setting and the disabled
flag of that moment (`sending`). `latest`, `saving` and `stored` are the debounced copy in
the storage, which may refuse a write. `Leave` runs the cleanups, `Crash` does
not, and what its timer held is lost (`unsaved`).

## 3. Runs

| Run | Instance | Shows |
|---|---|---|
| `billing` | 2 requests of mixed preferences, trust, 2 attempts, a failing call each, expiring subscription, fee, crashes | `ServedChargedExactly`, `FailedCostsNothing`, `OverRefundedOnlyByRetry`, `OverdraftIsUnsecured`, `ChargedToOneSource`, `EveryStepAdvances`, types |
| `quota_accounts` | 2 requests, 2 subscriptions, 2 failing calls each and 3 tries, a reset, expiry, deletion, crashes | `UsedCoversRequests`, `WithinTotal`, `RefundRecorded`, types (used is never negative) |
| `quota_refund_twice` | the outer transaction may fail | **violation** of `RefundIdempotent` |
| `reset_steady` | 3 subscriptions, batch of 2, plan edits, a failing call | `WipedOnlyAtBoundary`, `ScheduleFollowsLastReset`, `DueEventuallyReset` |
| `reset_stuck` | batch of 1, one edited plan | **violation** of `DueEventuallyReset` |
| `task_lease` | 2 nodes, 2 rows, stall up to the TTL, a crash, a failing statement | `RunningIsLeased`, `OneRunnerPerTask`, `EndedIsFinal`, `ActiveEventuallyEnds` |
| `task_wedged` | stall of one tick more than the TTL | **violation** of `ActiveEventuallyEnds` |
| `task_billing` | 2 tasks, one legacy, lists of 1, 2 passes overlapping twice, a failing statement or crash | `BilledOnce`, `OwedIsRecorded`, `BooksAgree`, `NeverReopened`, `TaskEventuallyEnds`, types |
| `session` | 2 concurrent requests of 3 after the login, 3 ticks, a failing Redis command | `RevokedStaysOut`, `LoserIsRecovered`, the refinement `StoreSpec`, types |
| `session_advance` | 2 requests, no faults | **violation** of `AdvancePreservesSession` |
| `web_auth` | 2 tabs, 2 sessions, 2 user actions, a refresh of their own, a fault | `SignedOutStaysOut`, `ReuseNeedsLoss`, `CredentialsMoveForward`, no deadlock, types |
| `playground` | 2 requests, one of them with attachments, an edit, a departure or crash, a refused write, 2 stored messages | `AnswersKeepToTheirRequest`, `EndedAnswersStay`, `IdleIsSettled`, `NoStreamLeftOpen`, `SeenIsKept`, types |

Each property of a passing run has a mutant in `PROJECT.json`: a plausible slip
in the modelled code, defined beside the original, that makes TLC find the
property violated.

### The four violations

- `quota_refund_twice`. `RefundSubscriptionPreConsume` is said to be idempotent.
  It calls a function that opens and commits its own transaction; if the outer
  one then fails, the retry gives the amount back a second time, at the expense
  of what other requests consumed.
- `reset_stuck`. `ResetDueSubscriptions` counts rows it could not advance. With a
  full batch (300) of such rows, which a plan edit produces, the task never
  leaves its loop and later rows are not reset by it.
- `task_wedged`. A claim that stalls longer than the 60 second TTL between taking
  the lock and updating its row leaves a running row without a lock. The sweep
  works from lock rows, so the row, and with its active key the type, stays
  blocked if the handler cannot finish it, which without a lock it cannot.
- `session_advance`. `AdvanceUserSessionAuthVersion` is said to preserve a session
  across a security change. The user's version is bumped in a statement of its
  own before; a refresh of the same browser in between finds the session behind
  and revokes it.

### Bounds

Two requests are enough to interleave any step of one with any of another on a
shared ledger, and quotas are chosen so that a ledger suffices for one and not
for both. A subscription refuses, a token refuses, a source falls back, a
reservation is raised within and beyond what is there. One failing call per
request reaches every error branch and every rollback; two (with three tries)
exercise the retry. `MaxClock` covers several boundaries of each period and the
end of one subscription; a batch of two against three rows makes full, partial
and repeated batches. Two nodes and two rows give every race for a lock and its
successor; a TTL of one tick is enough to order expiry before, between
and after the statements of an operation. What is proved (section 5) does not
depend on any of these.

Asynchronous tasks do not touch each other's rows, so two tasks are needed only
for the order of the lists, with a limit of one; prices below and above the
estimate give both signs of a settlement; two passes hold copies of one row in
every combination of sweep and poll.

Sessions: a TTL, a grace period of one tick and a life of three put an expiry of
the cache, of the window and of the session between any two statements of two
requests; a third request observes. Two tabs, one session of an earlier visit
and one new login, and two user actions with a spontaneous refresh meet in every
order; one fault loses one answer. Two playground requests let each late event of
one fall into the life of the other; `MaxQueue = 0` lets a frame add its update
only to an empty queue, a bound on the states (the end of a stream still queues
behind other updates). Two stored messages are fewer than two
exchanges, so trimming happens. One message at a time has attachments being read
(`MaxAttached = 1`); the other request falls before, into or after the reading.

Symmetry is used for requests, servers and tabs, and only in runs without
liveness properties.

`SystemTask` and `SubscriptionReset` never stop; the others end in an explicit
stuttering step when all is over (the playground, a page that waits for its user,
always has a step), so deadlock is checked everywhere.

### Fairness

- Reset task: weak fairness of its steps; the ticker fires for ever. None on
  requests, ticks or the administrator.
- Asynchronous tasks: weak fairness of the steps of a pass, whose system task is
  scheduled again while a task is unfinished, and of the timeout (which the
  configuration may switch off: then nothing ends a task its upstream forgets).
  Overlaps are finitely many: a poll beside every sweep could change the status
  each time between the sweep's list and its swap.
- System tasks: weak fairness of time, of the statements of an operation that
  has begun and of a handler's end; strong fairness of beginning a sweep and a
  claim, because a pass of the runner begins afresh at every tick of its timer
  and always contains both, however often other operations came between. None on
  heartbeats, creation, crashes.

The other modules state progress without fairness. `EveryStepAdvances` gives each
billing request a measure that every step of it or of its refund goroutine
raises and that is bounded; with the absence of deadlock, a request that is
scheduled ends. `RefundRecorded` says the same of the refund's tries. In `WebAuth`
the deadlock check stands for "every caller is answered".

## 4. What the properties say, in one line each

`ServedChargedExactly`, `FailedCostsNothing`: accounts of a request after any
path through reservation, retries, fallback and settlement. `OverRefundedOnlyByRetry`:
the same with failures and crashes, one-sided. `OverdraftIsUnsecured`: a balance
is negative only by calls without a check. `UsedCoversRequests`:
the ledger of a subscription against the sum of its requests.
`WipedOnlyAtBoundary`, `ScheduleFollowsLastReset`: one quota per period under
races of task, requests and administrator. `RunningIsLeased`, `OneRunnerPerTask`,
`EndedIsFinal`: lease protocol. `BilledOnce`, `BooksAgree`, `NeverReopened`: a task
under racing sweeps and polls. `OwedIsRecorded`: what a crash leaves for
reconciliation. `RevokedStaysOut`: nobody who
starts after a sealed revocation is let in, and where the tombstone failed, only
for one cache lifetime. `LoserIsRecovered`: a lost swap is answered with the
winner's token. `SignedOutStaysOut`, `CredentialsMoveForward`: stale answers in a
tab. `ReuseNeedsLoss`: the lock keeps tabs from replaying each other's tokens.
`AnswersKeepToTheirRequest`, `EndedAnswersStay`, `IdleIsSettled`,
`NoStreamLeftOpen`, `SeenIsKept`: the conversation under late events.

Some properties carry exceptions that are behaviours of the code a reader should
know of:

- `TaskEventuallyEnds`: a row whose upstream reports 100 % with a status that is
  not an end is listed neither by the polls nor by the sweep any more
  (`progress != '100%'` in both queries): it stays open and is never refunded.
- `NeverReopened` says less than "an end is final": the bulk update for a missing
  channel or upstream id has no guard, and a pass with an old list can turn a task
  another pass has settled as a success into a failure. Nor is a task failed that
  way refunded; its quota stays in the row, as `OwedIsRecorded` says.
- `OwedIsRecorded`: a refund that failed, or that a crash prevented, is not tried
  again; a crash between the refund and the clearing of the quota leaves a row
  that overstates the cost. Legacy tasks lose their quota without a refund when
  they time out.
- `CredentialsMoveForward`: `applyAuthRotation` has no epoch check, so the answer
  to an earlier security change of the same tab may replace newer credentials;
  the next 401 repairs it.
- A response's `Set-Cookie` takes effect whatever the tab does with its body. A
  late refused refresh can therefore clear the cookie of a newer login; the tab
  keeps its access token until it expires and then has to sign in again.
- The refresh under the exclusive Web Lock has no timeout: a request that never
  settles would hold up the refreshes of every tab. The model has requests fail
  or be answered.
- `OverRefundedOnlyByRetry`: wallet and token are never given more than was taken,
  but a subscription is, by `refundWithRetry` after a refund whose inner
  transaction was committed and whose record was not saved (the defect of
  `quota_refund_twice`). `ServedChargedExactly` and `FailedCostsNothing` therefore
  suppose that this has happened to nobody (`NoneRegiven`): the clamp at zero makes
  such a refund show in the accounts of others.
- `EndedAnswersStay`: a message whose attachments were being read puts the
  conversation back to that of its submission; an edit of an answer saved meanwhile
  is undone.
- `SeenIsKept`: what the 500 ms timer still held when a tab crashed is lost.
- `ReuseNeedsLoss`: besides a lost answer, a page reloaded while it waited for a
  refresh counts as a loss.
- `RevokedStaysOut` is about servers that share one Redis. With independent ones
  (docs/authentication.md) a revocation converges only when the cache lifetime is
  over.
- `IdleIsSettled`, `EndedAnswersStay`: `applyEdit` writes the conversation of the
  last render; when the end of an answer is queued at that moment it is lost, and
  the message stays pending until the page is loaded again (`overwrote`). On
  loading only the last pending message is repaired; the invariant shows that
  there is never more than one otherwise.
- `RevokedStaysOut`: a revocation whose tombstone Redis refused, or that found
  the row already revoked, is effective after at most one cache lifetime.

## 5. Proofs

All theorems hold for every value of the constants that satisfies the named
`ASSUME`s of the module: types and positivity of the parameters, and, where a sum or
a choice ranges over requests, subscriptions or tabs, that there are finitely many
of them. Every invariant and every action property that a passing run checks has a
theorem. Three theorems have a further hypothesis of their own, named where they are
described: `UsedCovers`, `LeaseKept`, `ProgressBounded`.

Sums and recursive functions. The library's induction principles take a predicate
as parameter, which the provers cannot instantiate. The proofs that need induction
take a least counterexample instead: `Least` derives from the well-foundedness of
`<` that a non-empty set of naturals has a least element, and a statement about
finite sets (`SubsetByFirst`, `AddsUpChange`) or queues (`DrainedIn`) is proved by
looking at the smallest set or prefix for which it would fail.

**BillingSession_proofs.** `TypeCorrect`, `OverRefundBounded`, `SubscriptionBounded`,
`OverdraftBounded`. `OverRefundedOnlyByRetry` is not inductive: that a ledger has
lost at least zero says nothing about the refund to come. The invariant `IInv` states,
for every place of the handler and of the goroutine, how much a request may
still give back to each ledger (`WalletHold`, `SubHold`, `TokenHold`), and that
it has been charged at least that; `Books` relates the fields of the session
(`pre = tokenConsumed`, `pre = consumed + extra` for a subscription, `consumed >=
pre` for the wallet, the flags). A step of one request leaves the accounts of the
others alone (`FrameLemma`), so each action is checked on its own request.
`SubscriptionBounded` is proved and has no run of its own: the `quota_accounts` run
checks its counterpart `WithinTotal` at the level of single transactions.

`ServedExact`, `FailedFree`, `OneSourcePays`: the same accounts with equality, for
requests none of whose calls failed. One-sided bounds do not give them, since a
refund to a subscription is clamped at zero: a request gets its money back only if
the others have not been given it already. The invariant `EInv` (theorem
`ExactAccounts`) has three parts. `AllRight` says for every place what the request
has been charged exactly (`FundingHeld`, `TokenHeld`), that the source it does not
use has nothing of it (`OneSource`), and which outcome and flags go with the place
(`Phase`). `SubAddsUp` says that the subscription's used amount is the sum of what
it has charged to the requests, whence it covers each of them and no refund is
clamped (`SubCovered`). `SubscriptionWithinTotal` makes a settlement downwards fit.

`StepsAdvance`, `ProgressBounded`: every step of a request raises its measure
(`Score`, case by case along `Stage`; the stages of opening a session are passed
again only with the second source, those of an attempt only with the counter
raised), and with at least one attempt allowed the measure is bounded. Together
they are the safety half of termination; that a scheduled request is never stuck
is the deadlock check of the run.

**SubscriptionQuota_proofs.** `TypeCorrect`, `TotalHeld`: the invariant adds that
a request which may still try has tries left. `RefundsRecorded`: tries are used up
only by failing calls, so a record that still says consumed after giving up has
seen as many failures as there are tries, or its subscription is gone. `RefundsBounded`:
an amount is given back at most once more than calls of its request have failed,
and at most as often as there are tries. A further refund takes a try, and a try
follows only a failed call; so the save that fails after the inner commit is the
only cause of the defect of `quota_refund_twice`, and its damage is bounded.

`UsedCovers` is `UsedCoversRequests` under the assumption that the outer transaction
never fails after the inner one committed (`~SaveMayFail`; the run
`quota_refund_twice` shows how it fails without). `FundedOK` says that a request's
funding agrees with its record and that the record is given back once; `CoversOK`
that the used amount is at least the sum of what the requests hold, and equal to it
when nothing failed. A step is `Balanced` for the request it serves (the used
amount moves at least as much as what that request holds) and leaves the others
`Apart`. The sum is `MapThenSumSet`, a fold that picks elements in an order of its
own; `Sums` collects the sums over all subsets in that order, `SumsUnique` and
`SumIsTaken` show that the operator computes one of them, and `SumsChange` that
changing one request's part changes the sum by as much.

**SubscriptionReset_proofs.** `TypeCorrect`, `ScheduleFollows`, `WipedAtBoundary`.
`CalcNextIs` gives what `calcNextResetTime` returns: nothing, or a boundary after
the base and not after the end. `MaybeResetIs`: a row that was on schedule stays
so, and is wiped only when a boundary lies between its last reset and the caller's
`now`; that needs that the last boundary passed exists (`MaxProperty`, from
`Least`). `IInv` adds that the task's `now` is not ahead of the clock
(`TimeWasRead`), so the boundary has passed however old the batch is, that a plan
nobody edited has its first period (`PlansKept`), and that what is counted and
what is to do fit into a batch (`BatchFits`).
`ResetOnceIsEnough`, which no run states, is what the loop of `ResetDueSubscriptions`
relies on: a row it has gone through is no longer due at the time its batch was
listed. Rows whose plan is edited are excepted, and `reset_stuck` shows that they
have to be.

**SystemTask_proofs.** `TypeCorrect`; `DispatchedOnce` and `EndIsFinal` without
further assumptions, from `locked_by` being written once per row; `LeaseKept`
under `Timely` (`Legacy = {}` and `MaxStall <= TTL`). Its invariant `IInv` says
that a claim which holds the lock holds it with exactly `TTL - age` left
(`ClaimHoldsLock`), and that no operation in flight that may delete or take over
the lock of a running row regards it as expired (`LateOps`); both age at the same
rate as the lock. `MaxStall <= TTL` is where the argument needs that a claim
finishes before its own lease does, and `task_wedged` shows that it is needed.

**TaskPolling_proofs.** `TypeCorrect`, `BilledAtMostOnce`,
`NothingOwedIsForgotten`, `BooksAgreeAtRest`, `EndIsNotReopened`: every safety
property of the module. None is inductive: that a task was billed once says
nothing of the passes that hold copies of it. `IInv` is stated task by task. A copy
before its swap shows an open status and the submitted quota (`CopyInv`); an open
row has the submitted quota, untouched books and nobody billing it (`OpenInv`); so
the swap can be won only while nobody bills, there is one winner (`BillerInv`),
and `BillAt` says where the money is at each of its statements. The unguarded bulk
update keeps all of this because it leaves the quota alone and sets an ended
status. `PointStep` reduces a step of one pass on one task to that task.

**UserSession_proofs.** `TypeCorrect`, `LosersAreRecovered`, `Refinement`. The
invariant `IInv` has five parts: the budgets, the row (`prev > 0` implies
`gen = prev + 1`, which is what makes the loser's token recoverable), the cache,
the answers given (each is a token and its successor, not beyond the row), and
for every request what its place says about the row it will meet (`OpInv`: a
request about to swap presented a generation the row has had, and one with a
rotated snapshot answers with a generation already in the row). A lost swap
means that the row has left the presented generation, and generations never
come back, so the second round never swaps: this is `tries > 1`. For the
refinement each action is shown to be a step of `SessionStore` under the mapping
(`Swap` is `Rotate`, `Kill` is `End`, an answer is `Answer`, a tick closes the
window or changes nothing) or a stutter.

`RevokedAreOut` is about time as well. `RInv` adds for the cache that an active
entry expires at most a TTL after now, that there is none after a sealed
revocation, and that after a loose one it expires at most a TTL after it; and for
every request what it may still do (`OpR`): its deadline is at most a TTL after now
and, if it is about to write a snapshot of a session that has ended, at most a TTL
after the end; after a sealed revocation that deadline is over or the tombstone
outlasts it; and a request that came after the end writes nothing and is let in
only in the lifetime that a loose end leaves. `Env` is what other steps may do around a request, so each action
is checked on its own request once.

**WebAuth_proofs.** `TypeCorrect`, `SignedOut`, `ReuseOnlyAfterLoss`,
`MovesForward`, for any finite number of tabs. The parts of `IInv`: `LineOK`, the
queue of the Web Lock is the tabs whose refresh runs, each once (`Leaving`: a tab
that gives up is taken out and nobody is overtaken); `PagesOK`, every page among
the sessions (`Safe`): what it has put away is over on the server, what it shows is
not put away and not newer than the server, and a current refresh's answer is
neither of a session put away nor older than the page; `LoginsOK`, a session whose
login has not reached its tab is known nowhere else; `TurnsOK`, with locks and
while nothing was lost only the head of the line has a refresh under way, and the
cookie is the newest of its session or about to be replaced by one that is. The
last is why no tab replays another's token.

**Playground_proofs.** `TypeCorrect`, `OwnText`, `IdleSettled`, `NoStreamLeft`,
`SeenKept`, `EndedStay`. `Invariant` rests on: `HandlerOK`, the handler's and the
controller's generation counters agree, and the source, the fetch and the buffered
text belong to the request being answered; `QueueOK`, the updaters waiting in
React's queue are at most one conversation put, which is first, chunks of that
request, and at most one end, which is last and comes when no request is answered
any more; `MessagesOK` and `SettledOK`, every answer holds text of its own request, and
only the last message is pending unless `applyEdit` overwrote a render; `PageOK`,
`FlagsOK` and `SeenIsKept` for the page and its storage; `SendingOK`, what a message
waiting for its files has captured is a conversation without pending answers, of
requests made before. A commit runs the whole
queue: `DrainedIn` carries a statement through it one updater at a time, and
`Drained` and `removeMessageByKey` are recursive functions, not operators, so that
it can.

Only model-checked: the three liveness properties (`DueEventuallyReset`,
`ActiveEventuallyEnds`, `TaskEventuallyEnds`), which are out of the prover's reach,
and the absence of deadlock.

## 6. Plan

Done: the modules above, and a theorem for every safety property the runs check.
Next, in this order:

1. Proofs: that two rows of a type never run together when legacy rows are taken
   over and the marking statement succeeds.
2. `QuotaCache`: Redis copy, hydration, reservation scripts, compensation, batch
   updater; refinement of the atomic ledger of `BillingSession`.
3. `TopUp`: trade number, code and day credited once.

## 7. Not modelled

On the server: channel selection and affinity (a random choice, any outcome of
which the billing model allows), rate limiters (atomic scripts over real time),
billing expressions (floating point in a third-party interpreter), adaptors and
protocol conversion (data transformation and network I/O), metrics, hybrid cache,
options, logs, authorization rules, system instances (no decision depends on them
or no state of their own). Session limits, lists and clean-up of old rows.
`PROJECT.json` names them with their files. Integer widths: quotas are 64-bit in
Go and saturated by the pricing code, so overflow does not arise in the modelled
operations.

In the browser: the web application is by far the largest part of the TypeScript
source, and most of it is rendering. Three quarters are `.tsx` components: forms
bound to a schema, tables over React Query, charts, dialogs, marketing pages,
translations and generated interface primitives. Such a component keeps the fields
of its own form, calls the API once and redraws; there is no second actor, no
order of events and no failure it handles beyond showing a message, so a model
would restate its layout. What remains is the logic that is modelled (credentials
and the playground) and pure formatting and conversion helpers. That is why the
map covers a small share of the TypeScript lines.

Assumptions of the browser models: one profile, storage and channel available or
absent for all tabs alike; the user of the playground acts after the stored
conversation was loaded (a message sent in the same instant would be overwritten
by the load), in one tab; limits on the size of what is stored are a number of
messages only (the code also strips images to fit a budget, and deletes a stored
conversation that is too large to read). A message whose files were read is
rendered in the step that sends it, as a click is; the code leaves an instant in
which an edit can be saved between the two. The page is not left while files are
being read: `sendChat` does not ask whether its page is still there, so the message
would be sent by a page that is gone, and no property here speaks of that.
