# SuperMonitor in TLA+

SuperMonitor (`cmd/supermonitor`, `internal/`) watches the quota of accounts at
some fifteen AI platforms. It refreshes the accounts on a schedule, keeps what
they report in SQLite, raises alerts, sends messages to notification channels
and runs a few verified activities. This directory models the parts of it whose
correctness depends on the order of things: what happens between two database
statements, who holds which lock, what is lost in a crash - and what becomes of
the answer of a provider on its way to a red card.

## The system

One Go process (`cmd/supermonitor/main.go`): an HTTP server, two schedulers and
one SQLite connection. All services share the store; they call each other as
below and announce changes through the event hub.

    HTTP (api) ----> AccountSync ----> Accounts.RefreshAll (refreshAccountIDs)
        |   \             |  \                |
        |    \            |   `-> Notifications.Evaluate --> channels (Bark, mail, ...)
        |     `-----------+---------^   |     |
        v                               v     v
    Dashboard  <------- SQLite store (one connection, transactions)
        ^                               ^
        `--- EventHub (SSE) <-----------'--- Accounts (provider clients)

| Component | State | Operations | What is hard | What makes it correct |
|---|---|---|---|---|
| Store, notification tables (`store/sqlite/notifications.go`, `store.go`) | channels, events, deliveries, states, alerts | one statement or transaction each | a deletion between two statements of the evaluator | no row outlives what it belongs to; receipts are kept |
| Notifications (`service/notifications.go`) | `mu`; otherwise only the tables | `Evaluate` every 10 minutes, after a refresh, on request; channels | works for minutes on a snapshot; crash, failed statement, lost answer at every step; no transaction around a decision | an alert can always be withdrawn; a message is sent once; a new drop is announced again |
| Automatic activities (same file) | attempt states | run an activity once a day, back off | crash while running; a state that cannot be saved | once a day, retried after a failure |
| Refresh pool (`service/account_refresh.go`) | two channels, workers | one wave | cancellation, deadlines, completion order | every account has one fate; the wave returns |
| AccountSync (`service/account_sync.go`) | `runMu`, status, timer, `reset` | manual and scheduled refresh, scheduler | two starts at once; timer and reset ready together; shutdown | one refresh at a time; announced = armed; goes on for ever |
| Accounts (`service/accounts.go`, the clients) | credentials in the vault, `accountOps`, `activityMu` | connect, import, refresh, delete, list and run activities | readers of `accountOps` rotate single-use tokens concurrently; `ImportCodex` without the lock; failures after a renewal | a credential is lost only for a cause; deleted stays deleted; a check-in is asked for again only by whoever cannot know of it |
| Login sessions (same file, the clients) | sessions, TRAE's listeners, Kiro's pending logins | start, poll, callback, complete | expiry races completion; a login that replaces another; callbacks twice; two tables, two locks | one account or a failure, never taken back; nothing left listening |
| EventHub, SSE (`service/events.go`, `api/events.go`) | subscribers with buffers of 8 | subscribe, publish, unsubscribe, stream | full buffer; close against send; dashboards that go | no send on a closed channel; no change untold; handlers end |
| Usage store (`store/sqlite/usage.go`, `service/tokenrhythm_usage_sync.go`, its client) | baselines, daily totals, imported files | record, replace, import; page through a history | order, duplicates, resets, shifting pages, old versions | nothing counted twice or invented; imports equal their files |
| Administrator sessions (`api/auth.go`) | sessions, failed logins | login, connect, logout, limits | bounds and eviction; logins side by side | a block holds; a bounded table |
| Provider clients (`integration/`) | none of their own | read an answer, renew, poll, page | thresholds, missing fields, overlapping lists | what is used up is critical; credits counted once |
| Dashboard (`service/dashboard.go`) | none of its own | overview | several statements, no transaction | a card shows what was saved since the load began |
| Vault (`secure/vault.go`) | key file | load or create | crash between create and write | a readable key |
| HTTP handlers, configuration, logging, start-up, web interface | none of their own | | | |

The hazards, each at its line, and the properties that look for it are in
`PROJECT.json` under `hazards`.

## Modules

| Module | Models | Composed with |
|---|---|---|
| `NotificationStore` | the notification tables and every statement that changes them: the abstract specification | |
| `QuotaNotifications` | the quota half of `Evaluate`, one action per statement or send, and everything around it | implements `NotificationStore` |
| `AutoActivities` | the activity half of `Evaluate` with `RunActivity`, one action per statement, call or send, and everything around it | extends `NotificationStore`, is built from its statements and implements it |
| `RefreshPool` | `refreshAccountIDs`, one action per channel operation | its result is `AccountSync`'s `RefreshAll` |
| `AccountSync` | `Refresh`, `RunScheduler`, `schedule` | |
| `Accounts` | the operations that use a stored credential, with the renewals inside the clients, one action per lock, statement and request | its `RunActivity` is one step of `AutoActivities` |
| `LoginContract` | what a login promises the dashboard: the abstract specification | |
| `LoginSessions` | six ways to log in through a platform's page, one action per request, lock and callback | implements `LoginContract` |
| `UsageStore` | the usage tables, one action per transaction | |
| `UsageSync` | readings, request pages and rollout files on their way to the tables | extends `UsageStore` |
| `AdminAuth` | the tables of sessions and failed logins, one action per hold of their mutex | |
| `EventHub` | hub and stream handlers, one action per channel operation | |
| `Console` | event streams behind the middleware | composes `AdminAuth` and `EventHub` |
| `ProviderAnswers`, `WorkBuddyCredits` | operators: from the fields of an answer to quota windows and their status, for fourteen providers | |
| `QuotaReports` | saving the windows, deleting accounts, and the overview that reads both | extends the two |
| `*Proofs` | the theorems of each | |
| `MC*` | constants for TLC | |

A definition named `...` with a comment that begins "Mutant" is a broken variant
of the one after it. It belongs to no specification; it is there to show that a
property can fail.

### NotificationStore

`Store.Open` allows a single connection with foreign keys on, so each statement
(and each transaction) is one atomic step, and a refused one is a stuttering
step. An alert is named by the dedupe key it is the hash of. Foreign keys are
guards (`SaveNotificationEventAndAlert`, `RecordNotificationDelivery`,
`SaveNotificationState`) and cascades (`DeleteNotificationChannel`). Deleting an
account is the whole transaction of `DeleteConnectedAccount`.

### QuotaNotifications

`pc` is the place in `Evaluate`; there is one evaluator because of
`mu.TryLock`, whose losers do nothing. `Begin` reads the accounts and their
windows, `ReadChannels` the channels and the clock; from then on the evaluator
uses `work`, `job`, `enabled` and `today`, and every further action is one
statement or one send:

    CheckLowQuota - LowWithdraw - LowClear                      (recovered)
                  - LowSave - Emit - Send/Record/SkipChannel - EmitDone   (low)
    CheckResetReminder - ResetWithdraw - ResetClear             (not due)
                       - ResetReplace - ResetSave - Emit ...    (due)
    ReadStates - NextStale - StaleWithdraw - StaleDelete        (vanished)

Around it `SaveAccount`, `DeleteAccount`, `CreateChannel`, `DeleteChannel` and
`DayPasses` happen at any moment. Each statement and send may fail; a failed
send may have been accepted. `Abort` is a crash, or the deadline of three
minutes after which every statement fails: both end the evaluation with the
tables as they are.

What is abstracted:

- A window is a label (the fields `notificationSignalKey` hashes, the reset time
  apart), a reset day, and an offset, by which the seconds of the reset time may
  differ between reports. `Label` says which windows are told apart, and `Jitter[w]`
  has one offset where the platform states the time and several where the client
  computes it (codex/client.go:397). `low` is the comparison with 15 percent.
- A `low` key carries the nanosecond of its evaluation; the model counts
  (`stamp`). `MaxStamp` is never reached in the passing instances.
- A state row with value "clear" is treated everywhere like no row, so `states`
  holds active keys only.
- Time is a day. `ReminderDays` is 1 in the last 24 hours and 3 in the 48 hours
  before; a short window, which has no reminder, is a reset of 0.
- The windows of the snapshot are read account by account after the list. An
  account deleted in between is evaluated without windows, which does nothing.
- Channels are enabled; nothing in the code disables one.
- Ids of accounts are not used twice. `ImportCodex` can break this by saving an
  account that was deleted while it asked the provider (`Accounts`,
  `DeletedStaysDeleted`).
- A fault at `send` or `record` is counted as `faults.delivering`, any other as
  `faults.elsewhere`; only the sum bounds the instance.
- `told` and `seen` are history: how often a channel was sent a topic, and what
  the evaluator saw last. Only properties read them. A count of drops starts again
  where the code lets an episode end: in `CheckLowQuota`, when the window has
  recovered or was reset, and in `ReadStates`, when the snapshot does not report the
  window in the period of its episode.

The identity of a window does not always name it: two windows may share one
(`Apart` fails), and a computed reset time may change it (`Steady` fails). `ToldOnce`
speaks of the windows whose identity does, and allows any others beside them;
`RemindedOnce` is what the repository says of all, and fails of both kinds.
`WithdrawnForCause` is about what was reported under the alert's identity, and
holds of every window.

### AutoActivities

The tables and their statements are those of `NotificationStore`; a state row is
the attempt of an account on a date, `running`, `failed` or `completed`, with
the time it was written.

    Begin - ListActivities - NextActivity - SaveRunning - Run
        Run succeeds: SaveCompleted - Retract - Emit - Send/Record/SkipChannel
        Run fails:    SaveFailed              - Emit - Send/Record/SkipChannel

`mu` is held through both halves of `Evaluate`, which touch different keys and
rows (`reconcileSignalStates` skips attempts), so each half is modelled on its
own. `Run` is one step with respect to deletions, for `RunActivity` holds
`accountOps`. It may check in and still return an error; a check-in that a user
has made by hand counts as one. The policy `AutoActivities` is constant in the
code and true.

What is abstracted:

- Time is a number of ticks; the half hour, the six hours and the day are
  `RunningLimit`, `Backoff` and `DayLength`. An evaluation takes its time once
  (`now`) and lasts three minutes at most, so `Tick` waits until one evaluation
  of the tick is over; midnight may still pass while it runs.
- Only `daily-checkin` exists, so an account stands for its activity.
- `claimed` is what the platform knows; `used` are the ids handed out.
- `since`, `troubled`, `lost`, `tried`, `stuck` and `told` are history. `lost` counts
  the faults at `send` and `record`; `stuck` are the alerts of failures whose
  withdrawal, after a success, a crash came before or a fault prevented.

`FailureIsRetracted` allows an alert beside a later success in `stuck` only: the code
tries the withdrawal once (notifications.go:313), reports its error, and no later
evaluation comes back to a completed activity. What the property excludes is any
other way to keep the alert, such as a success that could not be noted.

Two more things it shows on the way, on which the repository takes no position: a
failure that is followed by a check-in by hand, or by midnight, leaves its alert
on the dashboard until the account goes; the message of a completion whose
delivery fails is never sent again, since the next evaluation finds the
activity done.

### RefreshPool

`jobs` is filled and closed before the workers start, so it is the position
`next`. A worker takes an account (`Take`), looks at the context
(`CheckContext`), gets a deadline and calls (`BeginRefresh`), returns
(`EndRefresh`: a nil that comes after the deadline is a failure), and sends
(`Send`, blocked when `results` is full). The caller waits for all workers, then
reads and sorts (`Collect`). `Cancel` is the parent context.

### AccountSync

Times are relative (ticks left), so the scheduler runs for ever in a finite
model; nothing bounds the number of refreshes. `select` is the disjunction of
`SelectDone`, `SelectReset` and `SelectTimer`, which may all be enabled. The
module `go.mod` asks for Go 1.25, whose timers deliver no stale tick after `Stop` or
`Reset`; `Schedule` is therefore one step. `sinceRun` is history: how long ago a
refresh of each trigger ended.

### Accounts

A login is a sequence of generations of one credential: its access token is
accepted until it expires (`accepted`), its refresh token buys the next generation
and, except at Gemini, only once (`Rotates`). A goroutine (`proc`) goes through

    RLock - LockActivity - Read - preempt - call - refresh - again - keep - save

of which each operation uses its part: `RefreshOne` all but the second,
`RunActivity` a status, a check-in and a reading in turn, `ListActivities` a
status for each account, `ImportCodex` no lock but a `FindCodex`. `CodexClient` and
the others say how a client renews: early, by the expiry time, or only when
refused, and whether it goes on when an early renewal fails. `Delete` waits in
`Lock` for the readers (`drain`), and new readers wait for it (`queued`).

Every request and statement may fail; a renewal may be granted and its answer
lost (`RenewalUnanswered`). `CheckinUnconfirmed` is an answer to a check-in that does
not say what became of it: it is lost, or it is a 200 without an explicit success,
after which the client asks for today's status (`recheck`). When the credential is
refused there, `Checkin` renews it and posts the check-in again
(workbuddy/client.go:287-299, 324-326), granted or not; `granted` is history. Hence
`AsksAgainOnlyUnsure`: a granted check-in is repeated in that case only, once, and
never by another goroutine. `RenewElsewhere` is
the user's other client, whose file is what can be imported. `lost` is history:
how a login's newest credential got out of reach.

What is abstracted: a context that ends is a failure of the next request;
midnight and check-ins by hand are left to `AutoActivities`; accounts connected by
key or cookie have nothing to renew. Kiro, Qoder and Cursor renew exactly as
TRAE, which an assumption of `MCAccounts` lets TLC confirm, so that TRAE stands
for them in the run.

`StrandedForCause` is what the code does guarantee of a credential: it names the
ways of losing one, and the only one of them that Codex is free of. Some are the
code's own (two readers of `accountOps`, a renewal dropped when the request after
it failed at any platform but Codex), which is why src/CHANGELOG.md:135 ("rotated Codex
credentials are persisted when a refresh succeeds before a subsequent quota
request fails") holds except when the statement fails, or for a new account.

### LoginContract and LoginSessions

`LoginContract` is four steps: a login begins, connects an account, completes or
fails. `LoginSessions` is how: a goroutine polls Codex, WorkBuddy, Qoder or Cursor
every few seconds until it is granted, refused or out of time (`Poll`, `Tick`,
`Timeout`); TRAE's client keeps one login and a loopback listener for it, which a
browser's callback answers (`Listen`, `Install`, `Serve`, `PollLogin`); Kiro's browser
comes back to the console, where no goroutine waits (`CompleteKiroOAuth`,
`CompleteLogin`). `expired` is the deadline of challenge and context.

An HTTP answer is a status and whether the tokens and a known domain are in it;
each client's reading of it is its own operator (`CodexPoll` ...). `Publish` and the
start of the goroutine are one step, for nothing reads the session in between.

Seen on the way, where the repository takes no position: a TRAE login that
times out between two polls stays in the table, its listener open, until the
next login is started; a callback with a refresh token alone is told "success"
and fails; a second TRAE callback within the delay of the close overwrites the
first; an abandoned Kiro login is pending for ever. `StartWorkBuddyOAuth` and its
like return a copy of the session without the lock after starting the goroutine
that may update it: a data race, in which the copy is of before or after the
update, neither of which any property distinguishes.

### UsageStore and UsageSync

Each operation of the store is a transaction, so one step or none. A row's four
counters are two here, `tokens` and `requests`, because a rollback of either is
judged alone and nothing tells the token counters apart. `UsageSync` supplies the
truth: `used` is what the user used, and `meter`, `log` and `file` are what the
platforms make of it, account by account. A reading may be stored at any later time, twice, or with
the time of another; a meter starts again, in part as well. TokenRhythm lists the
newest request first and later than its totals know them, so pages shift while
they are read; two syncs (`Refresh` under `accountOps`, `Connection` without) may
run side by side. A rollout file is imported in any version read so far.

The history is asked for with the range "30d", so old requests leave the list again
(`Age`, `aged`). Whether the platform cuts the range at midnight or to the minute is
not known from this repository, so a day may leave it in parts; a day that is partly
gone then overwrites what was stored of it, and `SyncIsComplete` promises the requests
that the list still shows at the end. The day's panel, read last, is always whole.

Assumed: requests carry an id, for those without are not told apart by the code;
the platform's answers are true; a platform names finitely many models, and an
account finitely many rollout files (`NamesAssumption`). Not promised: an import of an older version
after a newer one brings the older back, and of two syncs side by side the later
writer wins until the next refresh. The second is why `SyncIsComplete` speaks of a
sync that no other ran beside. `RecordUsageSnapshot` is an operation of the store
that no service calls at this commit, its tests apart; readings and absolute totals
are for different platforms, so that no account of the model has both, and what
`UpsertAbsoluteDailyUsage` does to the baselines of a metered account is not checked.

### AdminAuth, EventHub, Console

`AdminAuth` has one action for each hold of `adminAuth.mu`: `LoginAllowed`, then the
comparison without the lock, then `FailLogin`, or `CreateSession` and `ClearFailures`.
The four limits of the code are constants. Evicting chooses among the entries seen
longest ago, where the code takes the first of a map. `EventHub` has one action per
channel operation; a pending `Lock` holds back new readers (`waiting`). `Console` opens
streams for requests that the middleware admits; a stream outlives its session.
Frames carry nothing that a dashboard reads but that something changed, so a buffer
is a number.

A login that was let in before a block began, and fails after its window has
ended, opens a new window and so lifts the block; a block may also be evicted from a
full table by failures from other addresses. `BlockHolds` names both cases and shows
that there is no third. `Admitted` is the middleware with its two ways in, the cookie
of a session and the password as bearer token. A
publication is made after the change is committed; one operation commits without
(the usage of a first TokenRhythm connection, accounts.go:1005, is stored after its
event), so that a dashboard may show it late.

### ProviderAnswers, WorkBuddyCredits, QuotaReports

`ProviderAnswers` has an operator per provider, from the fields that its client reads
to the windows that `connect...WithID` saves: what is missing, clamped, refused,
chosen or skipped, and the status of each window. A share is `left / of`, so that
percentages need no rounding. `WorkBuddyCredits` joins three answers about packages.
`QuotaReports` saves them and reads them back for the overview, statement by statement.

`AnswersOf` is the shape of the answers, with any numbers in it, and `Truthful` says when
WorkBuddy's answers are about packages that the account holds; both are assumed of the
constant `Answer`, and TLC evaluates them on the answers of the run. `Those` is a loop
that skips; where Go walks a map (`Ranked`, `FindNumber`) a reading is one of a set.
`Place` is one round of the fallback loop of Zhipu's coding plan. Every client that
computes a percentage bounds it on both sides, MiMo's too: less than nothing used is
the whole left. `Label` lists the clients' own labels beside `STRING`, of which they are
members, because no prover installed here knows that of a literal.

Seen on the way, and kept out of the properties: MiMo answers beyond the limit
without a percentage are taken for a percentage (mimo/client.go:80-87); a failing
coding plan makes Zhipu fall back to the balance, or to no window at all and
"healthy"; Coze reads the first value of a Go map, in any order; a Gemini bucket
without a fraction counts as full, a TRAE pack of nothing too; two WorkBuddy packages
alike in everything count as one; Cursor beyond its limit is refused.

## Runs

| Run | Instance | States | Shows |
|---|---|---|---|
| `accounts` | one Codex, WorkBuddy, Gemini or TRAE account, room for another of its login, 2 goroutines, 2 renewals | 295,267 | `StrandedForCause`, `AsksAgainOnlyUnsure`, `DeletedStaysDeleted`, `EveryCallEnds` |
| `logins` | 2 TRAE logins; a polled and a Kiro login with 2 callbacks; a polled and a TRAE login; 2 browser requests | 168,429 | the refinement `KeepsItsPromise`, `NothingLeftBehind` of listeners and tables, `KeptUntilReplaced`, `EveryLoginEnds` |
| `quota_faults` | 1 account, 1 window with a reset on day 2, 2 channels, 2 dates, 3 refreshes, 1 fault | 2,049,796 | `AlertHasOwner`, `ToldOnce`, `WithdrawnForCause` and the refinement `StoreSpec` with a failure, crash, refresh, deletion anywhere |
| `quota_windows` | 1 account, 2 windows, 1 channel, 3 refreshes, no fault, weakly fair evaluator | 113,458 | `NewDropIsAnnounced`, `RecoveredAlertClears`, `LowQuotaIsAnnounced` |
| `activities` | 1 account, 1 channel, 2 days of 3 ticks, running limit 1, back-off 2, 2 faults | 4,313,346 | `AttemptsApart`, `CheckedInEveryDay`, `FailureIsRetracted`, `ToldOnce` |
| `pool` | 4 accounts, 2 workers | 385,896 | `EachAccountOnce`, `CancellationEndsWave`, `WaveReturns` |
| `sync` | 2 users, interval 3, startup delay at most 2 | 47,851 | `StatusNamesTheRun`, `AnnouncedIsArmed`, `ScheduledRunsApart`, `RunsUntilStopped` |
| `usage` | one metered, TokenRhythm or Codex account, 2 days, 3 uses, 3 readings, pages of 1, 2 files in 2 versions, 2 syncs | 1,142,939 | `NeverInvents`, `UsageFromSources`, `DeletedLeavesNoUsage` (with the types), `SyncIsComplete` |
| `console` | 2 logins from 3 addresses, table of 2, 4 ticks; 2 streams, 2 publishers, buffer 1, 2 changes; a login and a stream | 587,872 | `BlockHolds`, `TrackedSourcesBounded`, `NeverSendsOnClosed`, `NoChangeGoesUntold`, `StreamsAreReleased` |
| `reports` | every combination of the answers in `MCQuotaReports`; 2 accounts, 2 savings, one overview at a time | 129,365 | the types, `CriticalIsAlerted`, `UsedUpIsCritical`, `CreditsCountedOnce`, `CardsAreRecent` |
| `quota_rearm` | 1 account, 1 window, 1 channel, 4 refreshes, 1 fault | violation | `NewDropIsAnnounced` |
| `quota_identity` | 2 windows alike in all hashed fields, reset times computed, 1 channel, no fault | violation | `RemindedOnce` |

Why these bounds. In `accounts` two goroutines are what it takes to rotate a token
under each other, and two renewals let one of them be lost and the other be made
from the older; a second account of the login is what an import can make. In
`logins` two TRAE logins replace one another in both orders, and a second callback
is the retry. In the quota runs three refreshes are low, recovered, low again, the
shortest history in which a state is reused; one fault separates any two
steps; `ToldOnce` counts the faults of the delivery only, so a second fault would
have to be one that costs nothing. The two channels of `quota_faults` are
interchangeable and no liveness is checked there, so they are a symmetry set. In
`activities` two faults let an attempt fail and its end go unnoted, or fail twice in
a day; six ticks reach the end of the second day, the first that an account is
connected for as a whole, and leave room for an attempt, one after the running
limit and one after the back-off; no statement or key mentions two accounts. Four
accounts on two workers let a worker overtake, wait and take twice. In `usage` two
days and three uses put usage before, between and after any two pages, readings
or versions; pages of one request shift most. In `console` three addresses overflow
a table of two, and the second change meets a full buffer of one. In `reports` the
values are those at and around each threshold, and beyond the end of each range.

Two runs end in a violation, and show a disagreement between the code and what
the repository says of it (`findings` in `PROJECT.json`):

- `quota_rearm`: a crash between deleting an alert and saving "clear": the next
  drop reuses the old key and reaches nobody.
- `quota_identity`: src/README.md:342-343 promises one reminder at 15 percent until the
  quota recovers, and one at each of two distances from a reset, of every window; the
  evaluator keeps it for those that `notificationSignalKey` names. The instance has both
  kinds that it does not. TLC reports the shorter trace: a reset time that the Codex
  client computes from seconds left (codex/client.go:397) differs in each report, and
  since the identity hashes it to the second, each report is a new window, announced
  again. With `Jitter <- Stated` in the cfg it reports the other: two windows equal in
  all hashed fields (two TRAE packs, trae/client.go:596-609) share a state row
  (notifications.go:751); the full one withdraws the alert of the low one in every
  evaluation, and the low one is announced again.

Three more were met while modelling, and no property forbids them:

- `select` in `RunScheduler` (account_sync.go:216) may take the timer although a manual
  refresh has just ended, and a second wave follows at once, which the comment at
  account_sync.go:96-98 and src/README.md:341 rule out. `AccountSync` has the step.
- A manual refresh that outlives the scheduler announces a next run
  (account_sync.go:160), where account_sync_test.go:149 wants none after a stop.
- `ImportCodex` goes on with the stored credential even when the imported file is newer
  (accounts.go:94-98); src/CHANGELOG.md:133 speaks of reusing "newer locally stored
  credentials". `Accounts` has the step, and `StrandedForCause` names it as a cause ("import").

## Fairness

- `QuotaNotifications!FairSpec`: the evaluator goes on. `RunScheduler` starts an
  evaluation every ten minutes and each statement and send returns. Refreshes,
  deletions and the calendar owe nothing.
- `RefreshPool!WaveFairSpec`: a goroutine that can go on does; a refresh ends with
  its context, at its deadline at the latest.
- `AccountSync!FairSpec`: goroutines go on, time passes. `SelectDone` is
  strongly fair because Go's `select` chooses at random among the ready cases,
  so a context that stays done is not passed over for ever. Users owe nothing.
- `Accounts!FairSpec`: a goroutine goes on, for every request has a timeout. Its
  two locks are strongly fair: a `sync.Mutex` that a goroutine waits for too long
  is handed to it, and `RWMutex.Lock` is guarded by such a mutex and turns new
  readers away. Nobody has to start anything, and nothing has to succeed.
- `LoginSessions!FairSpec`: the goroutine of a login and a callback's handler go on,
  a challenge expires. Neither user nor browser owes anything.
- `Console!FairSpec`: publishers and handlers go on; `ContextDone` is strongly fair
  for the same reason as `SelectDone`. Dashboards owe nothing.

`CHECK_DEADLOCK FALSE` is set where the instance really ends: a wave of the pool,
logins that are over, and clocks, readings and changes that have reached their bound
(`usage`, `console`, `reports`).

## Proofs

All theorems are checked by TLAPS for every value of the constants, from the
assumptions named in the modules (bounds are naturals, names of processes are
distinct, keys name their accounts, `Label`, `Jitter` and `Owner` are functions, `None` is none of
the values, there are finitely many models and rollout files, answers have the shape of
`AnswersOf`, WorkBuddy's are `Truthful`) and nothing else. One theorem, `QuotaNewDropWithoutFaults`, has a
hypothesis of its own. A run that does not list `TypeOK`, or the
`Integrity` and `ReceiptsAreKept` of the tables, has them as theorems instead. TLC has
checked the invariants of these proofs on the instances of the runs, `MeterUse` apart,
which asks for a function over the readings.

- `QuotaNotificationsProofs`: `AlertHasOwner` is not inductive: whether deleting a
  state leaves an alert behind depends on what the evaluator did in the
  statement before. The invariant `IInv` adds `Locals` (what `job`, `sig`, `key`
  and `old` are at each `pc`), `Rows` (rows belong to connected accounts, one
  state per slot) and `InFlight` (at a clearing `pc` the alert of `old` is gone;
  at `emit` the key is the active one, or its account is deleted). The lemmas are
  one per conjunct, with a step for each action. From it follow
  `QuotaTypeOK`, `QuotaAlertHasOwner`, `QuotaImplementsStore` (every step is a
  statement of `NotificationStore` or a stutter) and `QuotaWithdrawnForCause`.
  `QuotaToldOnce` is for any `Label` and `Jitter`: what it says of a window does not
  depend on the identities of the others beside it. Its invariant
  `ToldInv` adds to `ToldOnce`, window by window, that each message the faults do not explain has a receipt
  or is about to get one (`Receipts`), on a key that the state of its episode still
  holds (`KeyInHand`), so that the next evaluation finds it; and that the count of an
  episode has started again before its row is cleared (`Ended`).
  `QuotaNewDropIsAnnounced` says more than the run checks: a new alert is one of which
  no channel has a receipt as long as no statement outside a delivery has failed,
  whatever failed inside; hence `QuotaNewDropWithoutFaults` where `MaxFaults = 0`.
  It needs that a stamp is used once (`Stamps`) and that an active state has its alert
  (`AlertOfState`), which is just what the crash of `quota_rearm` destroys.
- `AutoActivitiesProofs` begins with the tables: `StoreTypeOK` (of `TablesTypeOK`);
  `StoreIntegrity`, inductive together with the type invariant; `StoreReceipts` from both.
  `ActivitiesImplementStore` maps every step to a
  statement or a stutter, so that `ActivitiesIntegrity` and `ActivitiesReceipts`
  follow from the theorems about the tables. `ActivitiesAttemptsApart` needs what
  the code relies on: `Noted`, that the attempt row of a connected account
  knows at least as much as the last attempt (`Remembers`), and `Pending`, that
  what `NextActivity` read still holds when the platform is called. `Noted` is not
  inductive without `Ids`: an id that is used again would meet an old attempt.
  `ActivitiesToldOnce` needs `Receipts` (a message without a receipt was a fault of
  the delivery, or is about to get its receipt) and `Stored`.
  `ActivitiesFailureIsRetracted` needs `Failures`: a failure is about to be noted or
  announced only while the last check-in of its date is one that failed. `ActivitiesCheckedInEveryDay` is the code's
  promise of a retry as a safety property, and needs three invariants about time: an
  attempt is left running or failed only by a fault since (`Troubles`), a completed
  date is checked in, unless midnight fell between (`Completions`), and whoever an
  evaluation of this tick has not checked in is still before it (`Scans`).
- `AccountsProofs`, for any number of accounts, logins, goroutines and renewals.
  `AccountsInv` begins with the shape of an operation at each place of its code
  (`HasAccount`, `Placed`, `Asked`, `Renewed`: which operation, call and credential can
  be there). `RowsHeld` is what the readers' half of `accountOps` is for: a reader
  past its read has a row, because `Delete` waits for it. Hence
  `AccountsDeletedStaysDeleted`, whose one exception is the import that takes no lock.
  `CheckinsGuarded` is what `activityMu` is for: its holder alone asks for a check-in,
  and one that has been granted only after it was granted to itself; with
  `UnconfirmedGood` and `RefusedGood`, the two ways a check-in goes on without an
  answer, it gives `AccountsAskAgainOnlyUnsure`. `Traced` follows the newest
  credential of a login whose tokens are single-use: stored, in hand, lost for a cause
  its client pardons, or never used. It needs `Issued`, that nobody has a generation
  the platform has yet to hand out (so that who holds the newest cannot be
  overtaken unseen), and `FromFile`; from it follows `AccountsStrandedForCause`.
- `LoginSessionsProofs`, for any number of logins and callbacks. `LoginInv` ties how far a
  login is to what its session and the pool show (`Life`); says that a Kiro login is
  answered by one callback, the one that took its state from the table (`Handlers`), and
  that the two tables of Kiro logins agree (`KiroTables`); and that a listener is open
  only for the login in the client's table or the one being started (`Listeners`).
  `LoginsKeepTheirPromise` maps every step to one of `LoginContract` or none; `Handlers` is
  why two callbacks connect one account. `LoginsNothingLeftBehind` and
  `LoginsKeptUntilReplaced` follow from the same invariant.
- `ConsoleProofs`, for any limits and any number of addresses, streams and publishers.
  `ConsoleInv` adds `Channels` to the properties: a publisher is about to send only to
  channels that are subscribed, and those are not closed, for `unsubscribe` waits for
  the senders. Hence `ConsoleNeverSendsOnClosed`; `ConsoleNoChangeGoesUntold` holds
  because an event is dropped only when another one is in the channel. Of the
  sessions, `ConsoleTrackedSourcesBounded` counts the table across the prunings and
  evictions of `recordLoginFailure`, and `ConsoleBlockHolds` is an action property of
  every step.
- `AccountSyncProofs` has the theorems of the pool and of the scheduler, which share
  nothing but the result of a wave. `PoolEachAccountOnce` has the invariant that the
  accounts before `next` are divided among the fresh, the failed and the busy workers.
  `PoolCancellationEndsWave` counts (`Overrun`): the accounts begun after the cancellation
  and the workers that had looked before it are no more than there are workers.
  `SyncTypeOK`, `SyncStatusNamesTheRun`, `SyncAnnouncedIsArmed`, `SyncScheduledRunsApart`:
  the last needs that the timer never runs ahead of the time since the last scheduled
  refresh.
- `UsageSyncProofs`, for any accounts, models, files, days, page size and goroutines. It
  begins with a theory of the sums `Total`: every set of finite sets has a smallest
  member (`WFMin` on cardinalities), which gives induction over finite sets; so the
  function a fold is made of exists, its sum does not depend on the order, and sums of
  unions, subsets, tables and kinds are what they should be.
  `Held` is what the tables may hold: the rows of a Codex account are those of its
  entries (`FromFiles`), which are versions of its files (`Imports`), the rows of a
  TokenRhythm account are totals of requests that were made (`FromLog`), syncs are of
  such accounts (`Syncing`), a deleted account has nothing (`Gone`). Hence
  `UsageDeletedLeavesNoUsage` and `UsageFromItsSources`.
  `Counted` adds what the sources show: a log and the newest versions of the files are
  the use (`RhythmUse`, `CodexUse`), so that some requests or older versions are no more;
  and for a meter (`MeterUse`) there is a function `U` from its readings to what had been
  used when each was taken, such that between two readings, and since any, the meter
  grew by no more than was used (`Measures`), and the rows come to no more than `U` of
  the baseline (`Behind`). That is what makes a late, repeated or reset reading harmless,
  and is `UsageNeverInvents`. `UsageSyncIsComplete` needs `WholeSyncs`, by place: how far
  down the list the pages have reached, shifted or not, and which days are stored; and
  that the requests a list has lost only make its totals smaller (`WorthLess`).

- `QuotaReportsProofs`, for any accounts, number of savings and answers of the fourteen
  providers: lists of any length, any integers. The models of the clients are loops
  (`FoldLeft`), so the module begins with what a loop computes: the recursive function
  behind it exists (`FoldsExist`), and is what the rounds compute one after the other
  (`LoopRuns`), so that what holds before the first and is kept by each holds after the
  last (`Rounds`). From this come a loop that skips (`ThoseOf`), the status of an account
  (`WorstDecides`: that of its worst window, wherever it is), the labels of a coding plan
  (`PlacedAll`), packages without their doubles (`DedupedOf`) and sums (`SummedIs`).
  Then there is a lemma for each provider, `CodexShows` to `ZhipuShows`: a reading that
  succeeds stores windows of the right type, with the bounds and the status they should
  have (`WindowsOf`), and a critical one if a limit of the answer is used up. They are
  put together in `ReadingShows`.
  `IInv` says of the tables that row and windows are of the last saving and are a reading
  of the last answer, or both are gone (`OneSaving`), and of the overview that a card's
  row is no older than the load, and that the windows read with it, and those that would
  be read now, are none, or of a later saving, or have its status (`CardFits`). The second
  of these is what makes the invariant inductive: the windows may be read after any
  number of savings and deletions. `ReportsTypeOK`, `ReportsCriticalIsAlerted`,
  `ReportsUsedUpIsCritical` follow from `IInv` and `ReadingShows`,
  `ReportsCardsAreRecent` from `IInv` and `WorstDecides`.
  `ReportsCreditsCountedOnce` needs the sums of credits: `LeftOf`, which is a fold over a
  set, does not depend on the order and adds up over parts (`LeftOfParts`); what is put
  together is a part of what is held, apart from summary lines with codes that the lists
  do not name, and each of these stands for the packages of its code (`CodesHave`).
  The attempt at these proofs corrected the model twice: the type invariant left out what
  a window has left, and MiMo's percentage was bounded on one side only.

Only model-checked: the liveness properties (`WaveReturns`, `RunsUntilStopped`,
`RecoveredAlertClears`, `LowQuotaIsAnnounced`, `EveryCallEnds`, `EveryLoginEnds`,
`StreamsAreReleased`), which are beyond the prover. Every invariant and action property of
a passing run is a theorem.

## Not modelled

- The vault: its one hazard is a crash between the creation and the writing of the
  key file, after which every start fails until the file is removed by hand.
- What parses text: credential files, JSON under alternative names, callback
  URLs, dates, signatures, headers, proxies. The models begin with the fields.
- The wording of messages and errors; configuration; logging; migrations and the
  opening of the store, which run once before anything else.
- HTTP handlers that decode a request and call one operation; `Connect...` with a
  key or cookie is the `Refresh` of `QuotaReports`. `ConnectGeneric` stores an account
  under any provider id it is given, while `RefreshOne` knows no generic one.
- The lists of the overview other than the account cards, and the web interface.
- `UsageBackfillCompleted` and `MarkUsageBackfillCompleted`, which nothing calls.
- `Shutdown` waiting for open streams (main.go:121), which it gives up after ten
  seconds.

## Plan

1. The other lists of the overview (usage, alerts), read in statements of their own
   before and after the cards, beside `CardsAreRecent`.
2. `Vault`, if the creation of the key becomes more than two steps.
