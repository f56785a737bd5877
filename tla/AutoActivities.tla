---------------------------- MODULE AutoActivities ----------------------------
(***************************************************************************)
(* The activity half of Notifications.Evaluate (internal/service/          *)
(* notifications.go) with RunActivity (accounts.go): once a day it checks  *)
(* in every account whose platform offers it.  The attempt is noted in     *)
(* notification_states before the platform is asked, so that a crash does  *)
(* not lead to a second attempt at once, and a failure raises an alert.    *)
(*                                                                         *)
(* The statements are those of NotificationStore.  One evaluator runs (mu);*)
(* between its steps accounts and channels are created and deleted, users  *)
(* check in by hand, time passes, statements and requests fail and the     *)
(* process dies.                                                           *)
(***************************************************************************)
EXTENDS NotificationStore, Integers

CONSTANTS
    DayLength,     \* ticks of a day
    RunningLimit,  \* ticks an attempt may count as running: half an hour
    Backoff,       \* ticks a failed one waits: six hours
    None,          \* no account, no key
    MaxTime,       \* bounds of the instance: ticks that pass,
    MaxFaults      \* statements and requests that fail, and crashes

ASSUME TimeAssumption ==
    /\ DayLength \in Nat \ {0} /\ RunningLimit \in Nat \ {0} /\ Backoff \in Nat
    /\ RunningLimit <= Backoff
    /\ MaxTime \in Nat /\ MaxFaults \in Nat

Time == 0 .. MaxTime

\* activityDate: the day in China, whose platform offers the activity.
Date(t) == t \div DayLength

\* A row "activity_attempt:<account>:daily-checkin:<date>", with the time its
\* value carries.
Status == {"running", "failed", "completed"}
AttemptRow(a, status, t) == [account |-> a, slot |-> Date(t), status |-> status, at |-> t]

\* Events "activity_failed:..." and "activity_completed:...", one for a date.
EventKey(a, kind, t) == [account |-> a, kind |-> kind, date |-> Date(t)]

ASSUME KeysAssumption ==
    /\ StateRow = [account : Account, slot : {Date(t) : t \in Time}, status : Status, at : Time]
    /\ DedupeKey = [account : Account, kind : {"failed", "completed"}, date : {Date(t) : t \in Time}]

VARIABLES
    \* the world
    time,
    used,       \* ids of accounts and channels handed out so far
    claimed,    \* <<account, date>> checked in at the platform
    faults,
    \* the evaluation in progress
    pc,
    now,        \* its time, read once
    enabled,    \* the channels read at its start
    work,       \* accounts whose activity was listed as available
    account,    \* the account at hand
    key,        \* the event to emit
    sendTo,     \* the channels emit has not tried yet
    to,         \* the channel that accepted the message last
    \* history, read by the properties and by Tick only
    scanned,    \* an evaluation of the present tick is over
    since,      \* since[a]: when account a was connected
    troubled,   \* when the last fault happened; -1: never
    lost,       \* faults while a channel had a message or was to get it
    tried,      \* tried[<<a, d>>]: the last check-in of date d by the evaluator
    stuck,      \* alerts that a fault kept from being withdrawn
    told        \* told[<<k, c>>]: messages of event k that channel c accepted

evaluation == <<now, enabled, work, account, key, sendTo, to>>
history == <<since, troubled, lost, tried, stuck, told>>
vars == <<tables, time, used, claimed, faults, pc, evaluation, scanned, history>>

Untried == [at |-> -1, ok |-> FALSE, saved |-> "none"]

Init ==
    /\ NoRows
    /\ time = 0 /\ used = {} /\ claimed = {} /\ faults = 0
    /\ pc = "idle"
    /\ now = 0 /\ enabled = {} /\ work = {} /\ account = None /\ key = None
    /\ sendTo = {} /\ to = None
    /\ scanned = FALSE
    /\ since = [a \in Account |-> 0]
    /\ troubled = -1 /\ lost = 0
    /\ tried = [t \in Account \X {Date(t) : t \in Time} |-> Untried]
    /\ stuck = {}
    /\ told = [t \in DedupeKey \X Channel |-> 0]

-----------------------------------------------------------------------------
(* Around the evaluator *)

Connect(a) ==
    /\ a \notin used
    /\ used' = used \union {a}
    /\ since' = [since EXCEPT ![a] = time]
    /\ SaveConnectedAccount(a)
    /\ UNCHANGED <<time, claimed, faults, pc, evaluation, scanned, troubled, lost, tried, stuck, told>>

Disconnect(a) ==
    /\ DeleteConnectedAccount(a)
    /\ UNCHANGED <<time, used, claimed, faults, pc, evaluation, scanned, history>>

CreateChannel(c) ==
    /\ c \notin used
    /\ used' = used \union {c}
    /\ SaveNotificationChannel(c)
    /\ UNCHANGED <<time, claimed, faults, pc, evaluation, scanned, history>>

DeleteChannel(c) ==
    /\ DeleteNotificationChannel(c)
    /\ UNCHANGED <<time, used, claimed, faults, pc, evaluation, scanned, history>>

\* A user checks in on the activity page, or on the platform's own.
ManualRun(a) ==
    /\ a \in connected
    /\ claimed' = claimed \union {<<a, Date(time)>>}
    /\ UNCHANGED <<tables, time, used, faults, pc, evaluation, scanned, history>>

\* A tick is longer than the ten minutes between two evaluations and the three
\* minutes of one: one of them reads this tick's time, and none spans two ticks.
Tick ==
    /\ time < MaxTime
    /\ scanned
    /\ time' = time + 1
    /\ scanned' = FALSE
    /\ UNCHANGED <<tables, used, claimed, faults, pc, evaluation, history>>

Fault ==
    /\ faults < MaxFaults
    /\ faults' = faults + 1
    /\ troubled' = time
    /\ lost' = IF pc \in {"send", "record"} THEN lost + 1 ELSE lost

NoFault == UNCHANGED <<faults, troubled, lost>>

\* The evaluation is over, and its local variables with it.
Return ==
    /\ pc' = "idle"
    /\ now' = 0 /\ enabled' = {} /\ work' = {} /\ account' = None /\ key' = None
    /\ sendTo' = {} /\ to' = None

FailureAtHand == EventKey(account, "failed", now)
StuckAlerts == stuck \union (alerts \intersect {FailureAtHand})

\* A crash, or the deadline after which every statement fails.
Abort ==
    /\ pc # "idle"
    /\ Fault
    /\ Return
    /\ stuck' = IF pc \in {"saveCompleted", "retract"} THEN StuckAlerts ELSE stuck
    /\ UNCHANGED <<tables, time, used, claimed, scanned, since, tried, told>>

-----------------------------------------------------------------------------
(* The evaluator *)

\* NotificationChannels and now; the quota half follows.
Begin ==
    /\ pc = "idle"
    /\ now' = time
    /\ enabled' = channels
    /\ pc' = "list"
    /\ UNCHANGED <<tables, time, used, claimed, faults, work, account, key, sendTo, to, scanned, history>>

\* ListActivities: the accounts that can check in today.  An account whose
\* status cannot be read is listed as an error.
ListActivities ==
    LET available == {a \in connected : <<a, Date(time)>> \notin claimed} IN
    /\ pc = "list"
    /\ \/ NoFault /\ work' = available
       \/ Fault /\ work' \in SUBSET available
    /\ pc' = "next"
    /\ UNCHANGED <<tables, time, used, claimed, now, enabled, account, key, sendTo, to,
                   scanned, since, tried, stuck, told>>

\* Mutants: an attempt that is running does not count; a failed one is final.
ReadyWhileRunning(row) ==
    \/ row.status = "running"
    \/ row.status = "failed" /\ now - row.at >= Backoff
ReadyUnlessFailed(row) == row.status = "running" /\ now - row.at >= RunningLimit

\* activityAttemptReady.
Ready(row) ==
    \/ row.status = "running" /\ now - row.at >= RunningLimit
    \/ row.status = "failed" /\ now - row.at >= Backoff

\* The next available activity, unless an attempt of this date forbids it or
\* its state cannot be read.
NextActivity(a) ==
    /\ pc = "next"
    /\ a \in work
    /\ work' = work \ {a}
    /\ \/ /\ NoFault
          /\ \A row \in states : row.account = a /\ row.slot = Date(now) => Ready(row)
          /\ account' = a
          /\ pc' = "saveRunning"
       \/ /\ \/ Fault
             \/ /\ NoFault
                /\ \E row \in states : row.account = a /\ row.slot = Date(now) /\ ~Ready(row)
          /\ UNCHANGED <<account, pc>>
    /\ UNCHANGED <<tables, time, used, claimed, now, enabled, key, sendTo, to,
                   scanned, since, tried, stuck, told>>

Finish ==
    /\ pc = "next"
    /\ work = {}
    /\ scanned' = (scanned \/ now = time)
    /\ Return
    /\ UNCHANGED <<tables, time, used, claimed, faults, history>>

\* SaveNotificationState of an attempt; refused when its account is gone.
SaveAttempt(status, ok, failed) ==
    \/ /\ NoFault
       /\ SaveNotificationState(AttemptRow(account, status, now))
       /\ pc' = ok
    \/ /\ Fault \/ (account \notin connected /\ NoFault)
       /\ UNCHANGED tables
       /\ pc' = failed

SaveRunning ==
    /\ pc = "saveRunning"
    /\ SaveAttempt("running", "run", "next")
    /\ UNCHANGED <<time, used, claimed, evaluation, scanned, since, tried, stuck, told>>

\* The check-in is counted with the date of the evaluation.
Try(ok, saved) ==
    tried' = [tried EXCEPT ![<<account, Date(now)>>] = [at |-> now, ok |-> ok, saved |-> saved]]

\* RunActivity keeps the account from being deleted: it checks in, or finds that
\* a user has, and reads the new balance.  An error may follow the check-in.
Run ==
    /\ pc = "run"
    /\ \/ /\ account \in connected
          /\ NoFault
          /\ claimed' = claimed \union {<<account, Date(time)>>}
          /\ Try(TRUE, "none")
          /\ pc' = "saveCompleted"
       \/ /\ account \in connected
          /\ Fault
          /\ claimed' = claimed \/ claimed' = claimed \union {<<account, Date(time)>>}
          /\ Try(FALSE, "none")
          /\ pc' = "saveFailed"
       \/ /\ account \notin connected
          /\ NoFault
          /\ UNCHANGED <<claimed, tried>>
          /\ pc' = "saveFailed"
    /\ UNCHANGED <<tables, time, used, evaluation, scanned, since, stuck, told>>

SaveFailed ==
    /\ pc = "saveFailed"
    /\ SaveAttempt("failed", "emit", "emit")
    /\ IF UNCHANGED tables THEN UNCHANGED tried ELSE Try(FALSE, "failed")
    /\ key' = EventKey(account, "failed", now)
    /\ UNCHANGED <<time, used, claimed, now, enabled, work, account, sendTo, to, scanned, since, stuck, told>>

SaveCompleted ==
    /\ pc = "saveCompleted"
    /\ SaveAttempt("completed", "retract", "retract")
    /\ IF UNCHANGED tables THEN UNCHANGED tried ELSE Try(TRUE, "completed")
    /\ UNCHANGED <<time, used, claimed, evaluation, scanned, since, stuck, told>>

\* Mutant: the alert of the completion is deleted, which has none.
RetractCompletion ==
    /\ pc = "retract"
    /\ \/ NoFault /\ DeleteAlert(EventKey(account, "completed", now)) /\ UNCHANGED stuck
       \/ Fault /\ UNCHANGED tables /\ stuck' = StuckAlerts
    /\ key' = EventKey(account, "completed", now)
    /\ pc' = "emit"
    /\ UNCHANGED <<time, used, claimed, now, enabled, work, account, sendTo, to,
                   scanned, since, tried, told>>

\* DeleteAlert of an earlier failure of the same date.
Retract ==
    /\ pc = "retract"
    /\ \/ NoFault /\ DeleteAlert(FailureAtHand) /\ UNCHANGED stuck
       \/ Fault /\ UNCHANGED tables /\ stuck' = StuckAlerts
    /\ key' = EventKey(account, "completed", now)
    /\ pc' = "emit"
    /\ UNCHANGED <<time, used, claimed, now, enabled, work, account, sendTo, to,
                   scanned, since, tried, told>>

-----------------------------------------------------------------------------
(* emit; a completion has no alert *)

Emit ==
    /\ pc = "emit"
    /\ \/ /\ NoFault
          /\ SaveNotificationEventAndAlert(key, key.kind = "failed")
          /\ sendTo' = enabled
          /\ pc' = "send"
       \/ /\ Fault \/ (key.account \notin connected /\ NoFault)
          /\ UNCHANGED <<tables, sendTo>>
          /\ pc' = "next"
    /\ UNCHANGED <<time, used, claimed, now, enabled, work, account, key, to, scanned, since, tried, stuck, told>>

\* A channel that has the message or is gone, or a read that fails.
SkipChannel(c) ==
    /\ pc = "send"
    /\ c \in sendTo
    /\ \/ NoFault /\ (<<key, c>> \in deliveries \/ c \notin channels)
       \/ Fault
    /\ sendTo' = sendTo \ {c}
    /\ UNCHANGED <<tables, time, used, claimed, pc, now, enabled, work, account, key, to,
                   scanned, since, tried, stuck, told>>

\* Mutant: nobody asks whether the channel has the message.
SendUnasked(c) ==
    /\ pc = "send"
    /\ c \in sendTo
    /\ c \in channels
    /\ NoFault
    /\ told' = [told EXCEPT ![<<key, c>>] = @ + 1]
    /\ to' = c
    /\ pc' = "record"
    /\ UNCHANGED <<tables, time, used, claimed, now, enabled, work, account, key, sendTo,
                   scanned, since, tried, stuck>>

\* The message is accepted; or it is not, or the answer is lost.
Send(c) ==
    /\ pc = "send"
    /\ c \in sendTo
    /\ <<key, c>> \notin deliveries
    /\ c \in channels
    /\ \/ /\ NoFault
          /\ told' = [told EXCEPT ![<<key, c>>] = @ + 1]
          /\ to' = c
          /\ pc' = "record"
          /\ UNCHANGED sendTo
       \/ /\ Fault
          /\ told' = told \/ told' = [told EXCEPT ![<<key, c>>] = @ + 1]
          /\ sendTo' = sendTo \ {c}
          /\ UNCHANGED <<to, pc>>
    /\ UNCHANGED <<tables, time, used, claimed, now, enabled, work, account, key, scanned, since, tried, stuck>>

Record ==
    /\ pc = "record"
    /\ \/ NoFault /\ RecordNotificationDelivery(key, to)
       \/ /\ Fault \/ (~(key \in events /\ to \in channels) /\ NoFault)
          /\ UNCHANGED tables
    /\ sendTo' = sendTo \ {to}
    /\ pc' = "send"
    /\ UNCHANGED <<time, used, claimed, now, enabled, work, account, key, to, scanned, since, tried, stuck, told>>

EmitDone ==
    /\ pc = "send"
    /\ sendTo = {}
    /\ pc' = "next"
    /\ UNCHANGED <<tables, time, used, claimed, faults, evaluation, scanned, history>>

-----------------------------------------------------------------------------
Evaluate ==
    \/ Begin \/ ListActivities \/ Finish
    \/ \E a \in work : NextActivity(a)
    \/ SaveRunning \/ Run \/ SaveFailed \/ SaveCompleted \/ Retract
    \/ Emit \/ EmitDone \/ Record
    \/ \E c \in sendTo : SkipChannel(c) \/ Send(c)

Environment ==
    \/ \E a \in Account : Connect(a) \/ Disconnect(a) \/ ManualRun(a)
    \/ \E c \in Channel : CreateChannel(c) \/ DeleteChannel(c)
    \/ Tick

Next == Evaluate \/ Environment \/ Abort

Spec == Init /\ [][Next]_vars

-----------------------------------------------------------------------------
TypeOK ==
    /\ TablesTypeOK
    /\ time \in Time
    /\ used \subseteq Account \union Channel
    /\ claimed \subseteq Account \X {Date(t) : t \in Time}
    /\ faults \in 0 .. MaxFaults
    /\ pc \in {"idle", "list", "next", "saveRunning", "run", "saveFailed", "saveCompleted",
               "retract", "emit", "send", "record"}
    /\ now \in Time
    /\ enabled \subseteq Channel /\ sendTo \subseteq Channel
    /\ work \subseteq Account
    /\ account \in Account \union {None}
    /\ key \in DedupeKey \union {None}
    /\ to \in Channel \union {None}
    /\ scanned \in BOOLEAN
    /\ since \in [Account -> Time]
    /\ troubled \in -1 .. MaxTime /\ lost \in 0 .. faults
    /\ tried \in [Account \X {Date(t) : t \in Time} ->
                    [at : -1 .. MaxTime, ok : BOOLEAN, saved : {"none", "failed", "completed"}]]
    /\ stuck \subseteq DedupeKey
    /\ told \in [DedupeKey \X Channel -> Nat]

Attempt == pc = "run" /\ account \in connected /\ pc' \in {"saveCompleted", "saveFailed"}
Allowed(last) ==
    \/ last = Untried
    \/ last.saved = "failed" /\ now - last.at >= Backoff
    \/ last.saved = "none" /\ now - last.at >= RunningLimit
\* The platform is not asked again too soon: after an attempt that may still be
\* running or whose end nobody noted, not for half an hour; after a failure
\* that was noted, not for six hours; after a success that was noted, not for
\* this date.  A crash between any two steps does not shorten this.
AttemptsApart == [][Attempt => Allowed(tried[<<account, Date(now)>>])]_vars

\* An account that is connected for a whole day is checked in on that day, in
\* spite of faults that leave an evaluation after the back-off of the last one.
CheckedInEveryDay ==
    [][Date(time') # Date(time) =>
          \A a \in connected :
             /\ Date(since[a]) < Date(time)
             /\ troubled + Backoff <= time
             => <<a, Date(time)>> \in claimed]_vars

\* A failing activity is on the dashboard because the evaluator's last check-in
\* of that date failed.  Once a later one succeeds, the same evaluation takes the
\* alert back, whether or not it can note the success; nothing else would do it
\* later.  Only a crash before the withdrawal, or a withdrawal that fails itself,
\* leaves the alert for ever.
FailureIsRetracted ==
    \A k \in alerts :
        \/ ~tried[<<k.account, k.date>>].ok
        \/ pc \in {"saveCompleted", "retract"} /\ k = FailureAtHand
        \/ k \in stuck

\* A channel gets one message a day about a failing activity, however often the
\* activity fails, and one about its completion; only a fault of the delivery
\* costs another.  (An account deleted during emit takes its receipts along.)
ToldOnce == \A t \in DOMAIN told : t[1].account \in connected => told[t] <= 1 + lost
=============================================================================
