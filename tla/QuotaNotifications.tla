------------------------- MODULE QuotaNotifications -------------------------
(***************************************************************************)
(* The quota half of Notifications.Evaluate (internal/service/             *)
(* notifications.go): low-quota alerts, reset reminders, the clean-up of   *)
(* states whose window has disappeared, and the delivery loop of emit.     *)
(*                                                                         *)
(* Evaluate holds Notifications.mu (TryLock; a second caller is turned     *)
(* away), so there is one evaluator, but between any two of its database   *)
(* statements accounts are refreshed or deleted, channels come and go, the *)
(* process may die and a statement or a send may fail.  The evaluator works*)
(* on a snapshot of the accounts and the channels taken at its start.      *)
(*                                                                         *)
(* A row of notification_states is either "active:<dedupe key>" or "clear".*)
(* The key names its account and its slot, and "clear" is treated exactly  *)
(* as a missing row, so the table is the set of the active keys.           *)
(***************************************************************************)
EXTENDS Naturals, FiniteSets

CONSTANTS
    Account,       \* ids of connected accounts (UUIDs, never used twice)
    Channel,       \* ids of notification channels (UUIDs, never used twice)
    Window,        \* the quota windows a provider reports for an account
    Label,         \* Label[w]: what notificationSignalKey hashes of window w,
                   \* but for its reset time
    Resets,        \* possible reset days of a window; 0: none, or short window
    Jitter,        \* Jitter[w]: by how much two reports of one reset time of
                   \* window w may differ; a single value where they never do
    None,          \* no signal, no key
    MaxDay,        \* bounds of the instance: days that pass,
    MaxRefresh,    \* refreshes that succeed,
    MaxStamp,      \* low-quota episodes that are announced,
    MaxFaults      \* statements or sends that fail, and crashes

ASSUME ResetsAssumption == Resets \subseteq Nat
ASSUME BoundsAssumption ==
    /\ MaxDay \in Nat /\ MaxRefresh \in Nat
    /\ MaxStamp \in Nat /\ MaxFaults \in Nat
ASSUME LabelAssumption == DOMAIN Label = Window
ASSUME JitterAssumption == DOMAIN Jitter = Window

-----------------------------------------------------------------------------
(* Signals, identities and keys *)

\* domain.QuotaSignal: below or at 15 percent or not, and the reset time,
\* which a client that computes it from the seconds left gets wrong by some.
Offset == UNION {Jitter[w] : w \in Window}
Signal == {s \in [window : Window, low : BOOLEAN, reset : Resets, jitter : Offset] :
              s.jitter \in Jitter[s.window]}

\* notificationSignalKey: the reset time is part of it, the remaining quota
\* and the position of the window in the report are not.
Identity(s) == <<Label[s.window], s.reset, s.jitter>>

Identities == {<<Label[w], r, j>> : w \in Window, r \in Resets, j \in Offset}

\* "low_quota_state:<account>:<identity>" and "quota_reset_state:...": n is
\* the evaluation's nanosecond time for a low-quota key and the number of
\* days, 1 or 3, for a reminder.
Slot == {"low", "reset"} \X Identities
Key == [account : Account, slot : Slot, n : (1 .. MaxStamp) \union {1, 3}]

\* Mutant: the key of an announcement does not say when it was made.
LowKeyUndated(a, s, stamp) == [account |-> a, slot |-> <<"low", Identity(s)>>, n |-> 1]

LowKey(a, s, stamp) == [account |-> a, slot |-> <<"low", Identity(s)>>, n |-> stamp]
ResetKey(a, s, days) == [account |-> a, slot |-> <<"reset", Identity(s)>>, n |-> days]

SameSlot(k, l) == k.account = l.account /\ k.slot = l.slot

\* 1 within the last 24 hours before the reset, 3 within the 48 hours before
\* those, else 0: no reminder.
ReminderDays(s, today) ==
    IF s.reset = today + 1 THEN 1
    ELSE IF s.reset \in {today + 2, today + 3} THEN 3
    ELSE 0

\* A report of the provider: at most one signal for each window.
Reports == UNION {{{r[w] : w \in present} :
                      r \in {f \in [present -> Signal] : \A w \in present : f[w].window = w}}
                   : present \in SUBSET Window}

-----------------------------------------------------------------------------
VARIABLES
    \* the database
    connected,    \* accounts with a row in connected_accounts
    quota,        \* quota[a]: the rows of account_quota_windows of account a
    channels,     \* rows of notification_channels
    events,       \* keys in notification_events
    alerts,       \* keys whose alert is in the table alerts
    states,       \* active keys in notification_states
    deliveries,   \* notification_deliveries: <<key, channel>>
    \* the world
    day,          \* the date
    used,         \* ids of accounts and channels handed out so far
    refreshes, stamp, faults,
    \* the evaluation in progress
    pc,
    today,        \* now, read once at the start of the evaluation
    enabled,      \* the channels read at its start
    work,         \* accounts of the snapshot not yet evaluated
    job,          \* the account being evaluated, with its signals
    left,         \* its signals not yet evaluated
    sig, key,     \* the signal being evaluated, and the key to announce
    old,          \* the active key that was read and is to be withdrawn
    sendTo,       \* the channels emit has not tried yet
    to,           \* the channel that accepted the message last
    stale,        \* active keys of signals that are no longer reported
    \* history, read by the properties only
    told,         \* told[<<a, w, topic, c>>]: messages sent, see Topic
    seen          \* seen[<<a, w>>]: reset day of w when last seen low, or None

\* A topic a user is told about: <<0, 0>> is low quota, counted from the last
\* evaluation that found the window not low, gone, or in another period;
\* <<days, reset>> is the reminder of that many days before that reset.
LowTopic == <<0, 0>>
Topic == {LowTopic} \union ({1, 3} \X Resets)

tables == <<connected, channels, events, alerts, states, deliveries>>
world == <<quota, day, used, refreshes>>
snapshot == <<today, enabled, work, job>>
history == <<told, seen>>
vars == <<tables, world, snapshot, history, stamp, faults, pc, left, sig, key, old, sendTo, to, stale>>

NoJob == [account |-> None, signals |-> {}]

\* Evaluate returns: its local variables are gone.
Return ==
    /\ pc' = "idle"
    /\ today' = 0 /\ enabled' = {} /\ work' = {} /\ job' = NoJob
    /\ left' = {} /\ sig' = None /\ key' = None /\ old' = None
    /\ sendTo' = {} /\ to' = None /\ stale' = {}

Init ==
    /\ connected = {} /\ channels = {}
    /\ events = {} /\ alerts = {} /\ states = {} /\ deliveries = {}
    /\ quota = [a \in Account |-> {}]
    /\ day = 0 /\ used = {} /\ refreshes = 0 /\ stamp = 0
    /\ faults = [delivering |-> 0, elsewhere |-> 0]
    /\ pc = "idle"
    /\ today = 0 /\ enabled = {} /\ work = {} /\ job = NoJob
    /\ left = {} /\ sig = None /\ key = None /\ old = None /\ sendTo = {} /\ to = None /\ stale = {}
    /\ told = [t \in Account \X Window \X Topic \X Channel |-> 0]
    /\ seen = [t \in Account \X Window |-> None]

-----------------------------------------------------------------------------
(* What happens around the evaluator *)

\* Accounts.persist: a refresh replaces the quota windows of a connected
\* account; a new connection gets an id of its own.
SaveAccount(a) ==
    /\ refreshes < MaxRefresh
    /\ refreshes' = refreshes + 1
    /\ a \in connected \/ a \notin used
    /\ connected' = connected \union {a}
    /\ used' = used \union {a}
    /\ \E report \in Reports : quota' = [quota EXCEPT ![a] = report]
    /\ UNCHANGED <<channels, events, alerts, states, deliveries, day, snapshot, history,
                   stamp, faults, pc, left, sig, key, old, sendTo, to, stale>>

\* Accounts.Delete: one transaction.
DeleteAccount(a) ==
    LET owned == {k \in events : k.account = a} IN
    /\ a \in connected
    /\ connected' = connected \ {a}
    /\ quota' = [quota EXCEPT ![a] = {}]
    /\ alerts' = alerts \ owned
    /\ events' = events \ owned
    /\ deliveries' = {d \in deliveries : d[1] \notin owned}
    /\ states' = {k \in states : k.account # a}
    /\ UNCHANGED <<channels, day, used, refreshes, snapshot, history,
                   stamp, faults, pc, left, sig, key, old, sendTo, to, stale>>

CreateChannel(c) ==
    /\ c \notin used
    /\ used' = used \union {c}
    /\ channels' = channels \union {c}
    /\ UNCHANGED <<connected, events, alerts, states, deliveries, quota, day, refreshes,
                   snapshot, history, stamp, faults, pc, left, sig, key, old, sendTo, to, stale>>

DeleteChannel(c) ==
    /\ c \in channels
    /\ channels' = channels \ {c}
    /\ deliveries' = {d \in deliveries : d[2] # c}
    /\ UNCHANGED <<connected, events, alerts, states, world,
                   snapshot, history, stamp, faults, pc, left, sig, key, old, sendTo, to, stale>>

DayPasses ==
    /\ day < MaxDay
    /\ day' = day + 1
    /\ UNCHANGED <<tables, quota, used, refreshes,
                   snapshot, history, stamp, faults, pc, left, sig, key, old, sendTo, to, stale>>

-----------------------------------------------------------------------------
(* The evaluator: every action reads, or issues one statement, or sends once *)

\* A statement fails, or the evaluation's three minutes are over.
Fault ==
    /\ faults.delivering + faults.elsewhere < MaxFaults
    /\ faults' = IF pc \in {"send", "record"}
                 THEN [faults EXCEPT !.delivering = @ + 1]
                 ELSE [faults EXCEPT !.elsewhere = @ + 1]

NoFault == UNCHANGED faults

\* The process dies, or the deadline passes and every later statement and send
\* of this evaluation fails: the evaluation leaves no further trace.
Abort ==
    /\ pc # "idle"
    /\ Fault
    /\ Return
    /\ UNCHANGED <<tables, world, history, stamp>>

\* Evaluate: ConnectedAccounts ...
Begin ==
    /\ pc = "idle"
    /\ work' = {[account |-> a, signals |-> quota[a]] : a \in connected}
    /\ pc' = "channels"
    /\ UNCHANGED <<tables, world, today, enabled, job, history, stamp, faults,
                   left, sig, key, old, sendTo, to, stale>>

\* ... then NotificationChannels and now.
ReadChannels ==
    /\ pc = "channels"
    /\ enabled' = channels
    /\ today' = day
    /\ pc' = "accounts"
    /\ UNCHANGED <<tables, world, work, job, history, stamp, faults, left, sig, key, old, sendTo, to, stale>>

NextAccount ==
    /\ pc = "accounts"
    /\ \E j \in work :
          /\ job' = j
          /\ work' = work \ {j}
          /\ left' = j.signals
    /\ pc' = "signals"
    /\ UNCHANGED <<tables, world, today, enabled, history, stamp, faults, sig, key, old, sendTo, to, stale>>

Finish ==
    /\ pc = "accounts"
    /\ work = {}
    /\ Return
    /\ UNCHANGED <<tables, world, history, stamp, faults>>

\* NotificationState: the active key of a slot, if there is one.
Active(kind, s) == {k \in states : k.account = job.account /\ k.slot = <<kind, Identity(s)>>}

\* evaluateLowQuota reads the state of the next window's low-quota slot.
CheckLowQuota(s) ==
    LET a == job.account
        w == s.window
        continues == s.low /\ seen[<<a, w>>] = s.reset
    IN
    /\ pc = "signals"
    /\ s \in left
    /\ left' = left \ {s}
    /\ sig' = s
    /\ \/ /\ Fault
          /\ pc' = "reset"
          /\ UNCHANGED <<history, stamp, key, old>>
       \/ /\ NoFault
          /\ seen' = [seen EXCEPT ![<<a, w>>] = IF s.low THEN s.reset ELSE None]
          /\ told' = [t \in DOMAIN told |->
                        IF t[1] = a /\ t[2] = w /\ t[3] = LowTopic /\ ~continues THEN 0 ELSE told[t]]
          /\ \/ /\ ~s.low /\ Active("low", s) = {}
                /\ pc' = "reset"
                /\ UNCHANGED <<stamp, key, old>>
             \/ /\ ~s.low
                /\ \E k \in Active("low", s) : old' = k
                /\ pc' = "lowWithdraw"
                /\ UNCHANGED <<stamp, key>>
             \/ /\ s.low
                /\ \E k \in Active("low", s) : key' = k
                /\ pc' = "emit"
                /\ UNCHANGED <<stamp, old>>
             \/ /\ s.low /\ Active("low", s) = {}
                /\ stamp < MaxStamp
                /\ stamp' = stamp + 1
                /\ key' = LowKey(a, s, stamp')
                /\ pc' = "lowSave"
                /\ UNCHANGED old
    /\ UNCHANGED <<tables, world, snapshot, sendTo, to, stale>>

\* evaluateResetReminder reads the state of the same window's reminder slot.
CheckResetReminder ==
    LET days == ReminderDays(sig, today)
        new == ResetKey(job.account, sig, days)
        active == Active("reset", sig)
    IN
    /\ pc = "reset"
    /\ \/ /\ Fault
          /\ pc' = "signals"
          /\ UNCHANGED <<key, old>>
       \/ /\ NoFault
          /\ days = 0
          /\ \/ /\ active = {}
                /\ pc' = "signals"
                /\ UNCHANGED old
             \/ /\ \E k \in active : old' = k
                /\ pc' = "resetWithdraw"
          /\ UNCHANGED key
       \/ /\ NoFault
          /\ days # 0
          /\ key' = new
          /\ \/ /\ active = {}
                /\ pc' = "resetSave"
                /\ UNCHANGED old
             \/ /\ active = {new}
                /\ pc' = "emit"
                /\ UNCHANGED old
             \/ /\ \E k \in active \ {new} : old' = k
                /\ pc' = "resetReplace"
    /\ UNCHANGED <<tables, world, snapshot, history, stamp, left, sig, sendTo, to, stale>>

\* Mutant: every alert of the account is deleted with the one that is meant.
WithdrawAllOfAccount(here, ok, failed) ==
    /\ pc = here
    /\ \/ /\ NoFault
          /\ alerts' = {k \in alerts : k.account # old.account}
          /\ pc' = ok
       \/ /\ Fault
          /\ pc' = failed
          /\ UNCHANGED alerts
    /\ UNCHANGED <<connected, channels, events, states, deliveries, world, snapshot,
                   history, stamp, left, sig, key, old, sendTo, to, stale>>

\* DeleteAlert of the key that was read; `ok` and `failed` are where the
\* caller goes on.
Withdraw(here, ok, failed) ==
    /\ pc = here
    /\ \/ /\ NoFault
          /\ alerts' = alerts \ {old}
          /\ pc' = ok
       \/ /\ Fault
          /\ pc' = failed
          /\ UNCHANGED alerts
    /\ UNCHANGED <<connected, channels, events, states, deliveries, world, snapshot,
                   history, stamp, left, sig, key, old, sendTo, to, stale>>

\* SaveNotificationState "clear", or DeleteNotificationState.
ClearState(here, next) ==
    /\ pc = here
    /\ \/ /\ NoFault
          /\ states' = {k \in states : ~SameSlot(k, old)}
       \/ /\ Fault
          /\ UNCHANGED states
    /\ pc' = next
    /\ UNCHANGED <<connected, channels, events, alerts, deliveries, world, snapshot,
                   history, stamp, left, sig, key, old, sendTo, to, stale>>

\* SaveNotificationState "active:<key>"; the row references the account.
ActivateState(here, failed) ==
    /\ pc = here
    /\ \/ /\ NoFault
          /\ key.account \in connected
          /\ states' = {k \in states : ~SameSlot(k, key)} \union {key}
          /\ pc' = "emit"
       \/ /\ Fault \/ (key.account \notin connected /\ NoFault)
          /\ pc' = failed
          /\ UNCHANGED states
    /\ UNCHANGED <<connected, channels, events, alerts, deliveries, world, snapshot,
                   history, stamp, left, sig, key, old, sendTo, to, stale>>

\* Mutant: the state is cleared, the alert is forgotten.
LowWithdrawForgotten ==
    /\ pc = "lowWithdraw"
    /\ pc' = "lowClear"
    /\ UNCHANGED <<tables, world, snapshot, history, stamp, faults,
                   left, sig, key, old, sendTo, to, stale>>

LowWithdraw == Withdraw("lowWithdraw", "lowClear", "reset")
LowClear == ClearState("lowClear", "reset")
LowSave == ActivateState("lowSave", "reset")

ResetWithdraw == Withdraw("resetWithdraw", "resetClear", "signals")
ResetClear == ClearState("resetClear", "signals")
ResetReplace == Withdraw("resetReplace", "resetSave", "signals")
ResetSave == ActivateState("resetSave", "signals")

\* Where Evaluate goes on after emit.
AfterEmit == IF key.slot[1] = "low" THEN "reset" ELSE "signals"

\* Mutants: the event is stored although its account is gone; only a new event
\* is sent, so a channel that missed it stays without.
EmitUnchecked ==
    /\ pc = "emit"
    /\ \/ /\ NoFault
          /\ events' = events \union {key}
          /\ alerts' = alerts \union {key}
          /\ sendTo' = enabled
          /\ pc' = "send"
       \/ /\ Fault
          /\ pc' = AfterEmit
          /\ UNCHANGED <<events, alerts, sendTo>>
    /\ UNCHANGED <<connected, channels, states, deliveries, world, snapshot,
                   history, stamp, left, sig, key, old, to, stale>>

EmitNewOnly ==
    /\ pc = "emit"
    /\ \/ /\ NoFault
          /\ key.account \in connected
          /\ events' = events \union {key}
          /\ alerts' = alerts \union {key}
          /\ sendTo' = IF key \in events THEN {} ELSE enabled
          /\ pc' = "send"
       \/ /\ Fault \/ (key.account \notin connected /\ NoFault)
          /\ pc' = AfterEmit
          /\ UNCHANGED <<events, alerts, sendTo>>
    /\ UNCHANGED <<connected, channels, states, deliveries, world, snapshot,
                   history, stamp, left, sig, key, old, to, stale>>

\* emit stores the event and its alert in one transaction.
Emit ==
    /\ pc = "emit"
    /\ \/ /\ NoFault
          /\ key.account \in connected
          /\ events' = events \union {key}
          /\ alerts' = alerts \union {key}
          /\ sendTo' = enabled
          /\ pc' = "send"
       \/ /\ Fault \/ (key.account \notin connected /\ NoFault)
          /\ pc' = AfterEmit
          /\ UNCHANGED <<events, alerts, sendTo>>
    /\ UNCHANGED <<connected, channels, states, deliveries, world, snapshot,
                   history, stamp, left, sig, key, old, to, stale>>

TopicOfKey == IF key.slot[1] = "low" THEN LowTopic ELSE <<key.n, sig.reset>>

\* The next channel: passed over when it has the message already or is gone,
\* or when one of the two reads fails.
SkipChannel(c) ==
    /\ pc = "send"
    /\ c \in sendTo
    /\ \/ NoFault /\ (<<key, c>> \in deliveries \/ c \notin channels)
       \/ Fault
    /\ sendTo' = sendTo \ {c}
    /\ UNCHANGED <<tables, world, snapshot, history, stamp, pc, left, sig, key, old, to, stale>>

\* Mutant: nobody asks whether the channel has the message.
SendUnasked(c) ==
    /\ pc = "send"
    /\ c \in sendTo
    /\ c \in channels
    /\ NoFault
    /\ told' = [told EXCEPT ![<<job.account, sig.window, TopicOfKey, c>>] = @ + 1]
    /\ pc' = "record"
    /\ to' = c
    /\ UNCHANGED <<tables, world, snapshot, seen, stamp, left, sig, key, old, sendTo, stale>>

\* sendChannel: the message is accepted; it is refused; or it is accepted and
\* the answer is lost, which emit takes for a refusal.
Send(c) ==
    /\ pc = "send"
    /\ c \in sendTo
    /\ <<key, c>> \notin deliveries
    /\ c \in channels
    /\ \/ /\ NoFault
          /\ told' = [told EXCEPT ![<<job.account, sig.window, TopicOfKey, c>>] = @ + 1]
          /\ pc' = "record"
          /\ sendTo' = sendTo
          /\ to' = c
       \/ /\ Fault
          /\ \/ told' = [told EXCEPT ![<<job.account, sig.window, TopicOfKey, c>>] = @ + 1]
             \/ UNCHANGED told
          /\ sendTo' = sendTo \ {c}
          /\ UNCHANGED <<pc, to>>
    /\ UNCHANGED <<tables, world, snapshot, seen, stamp, left, sig, key, old, stale>>

\* Mutant: an event keeps the receipt of one channel only.
RecordLastOnly ==
    /\ pc = "record"
    /\ NoFault
    /\ key \in events /\ to \in channels
    /\ deliveries' = {d \in deliveries : d[1] # key} \union {<<key, to>>}
    /\ pc' = "send"
    /\ sendTo' = sendTo \ {to}
    /\ UNCHANGED <<connected, channels, events, alerts, states, world, snapshot,
                   history, stamp, left, sig, key, old, to, stale>>

\* RecordNotificationDelivery: the receipt references its event and channel.
Record ==
    /\ pc = "record"
    /\ \/ /\ NoFault
          /\ key \in events /\ to \in channels
          /\ deliveries' = deliveries \union {<<key, to>>}
       \/ /\ Fault \/ (~(key \in events /\ to \in channels) /\ NoFault)
          /\ UNCHANGED deliveries
    /\ pc' = "send"
    /\ sendTo' = sendTo \ {to}
    /\ UNCHANGED <<connected, channels, events, alerts, states, world, snapshot,
                   history, stamp, left, sig, key, old, to, stale>>

EmitDone ==
    /\ pc = "send"
    /\ sendTo = {}
    /\ pc' = AfterEmit
    /\ UNCHANGED <<tables, world, snapshot, history, stamp, faults,
                   left, sig, key, old, sendTo, to, stale>>

\* reconcileSignalStates reads the account's states and keeps those whose
\* identity the snapshot does not report; a failed read ends it.  A window the
\* snapshot does not report in the period of its episode has ended that episode.
ReadStates ==
    LET continues(t) == \E s \in job.signals : s.window = t[2] /\ s.reset = seen[<<t[1], t[2]>>]
        ended(t) == t[1] = job.account /\ ~continues(t)
    IN
    /\ pc = "signals"
    /\ left = {}
    /\ \/ /\ NoFault
          /\ stale' = {k \in states : /\ k.account = job.account
                                      /\ \A s \in job.signals : k.slot[2] # Identity(s)}
          /\ told' = [t \in DOMAIN told |-> IF ended(t) /\ t[3] = LowTopic THEN 0 ELSE told[t]]
          /\ seen' = [t \in DOMAIN seen |-> IF ended(t) THEN None ELSE seen[t]]
          /\ pc' = "stale"
       \/ /\ Fault
          /\ pc' = "accounts"
          /\ UNCHANGED <<stale, history>>
    /\ UNCHANGED <<tables, world, snapshot, stamp, left, sig, key, old, sendTo, to>>

NextStale ==
    /\ pc = "stale"
    /\ \E k \in stale :
          /\ old' = k
          /\ stale' = stale \ {k}
    /\ pc' = "staleWithdraw"
    /\ UNCHANGED <<tables, world, snapshot, history, stamp, faults, left, sig, key, sendTo, to>>

\* Mutant: the state is deleted even when its alert could not be.
StaleWithdrawRegardless == Withdraw("staleWithdraw", "staleDelete", "staleDelete")

StaleWithdraw == Withdraw("staleWithdraw", "staleDelete", "stale")
StaleDelete == ClearState("staleDelete", "stale")

Reconciled ==
    /\ pc = "stale"
    /\ stale = {}
    /\ pc' = "accounts"
    /\ UNCHANGED <<tables, world, snapshot, history, stamp, faults,
                   left, sig, key, old, sendTo, to, stale>>

-----------------------------------------------------------------------------
Evaluate ==
    \/ Begin \/ ReadChannels \/ NextAccount \/ Finish
    \/ \E s \in left : CheckLowQuota(s)
    \/ LowWithdraw \/ LowClear \/ LowSave
    \/ CheckResetReminder
    \/ ResetWithdraw \/ ResetClear \/ ResetReplace \/ ResetSave
    \/ Emit \/ EmitDone \/ Record
    \/ \E c \in sendTo : SkipChannel(c) \/ Send(c)
    \/ ReadStates \/ NextStale \/ StaleWithdraw \/ StaleDelete \/ Reconciled

Environment ==
    \/ \E a \in Account : SaveAccount(a) \/ DeleteAccount(a)
    \/ \E c \in Channel : CreateChannel(c) \/ DeleteChannel(c)
    \/ DayPasses

Next == Evaluate \/ Environment \/ Abort

Spec == Init /\ [][Next]_vars

\* RunScheduler starts an evaluation every ten minutes, and an evaluation that
\* has started goes on.  Nothing makes anyone refresh, delete or crash.
FairSpec == Spec /\ WF_vars(Evaluate)

-----------------------------------------------------------------------------
TypeOK ==
    /\ connected \subseteq Account /\ channels \subseteq Channel
    /\ events \subseteq Key /\ alerts \subseteq Key /\ states \subseteq Key
    /\ deliveries \subseteq Key \X Channel
    /\ quota \in [Account -> SUBSET Signal]
    /\ day \in Nat /\ used \subseteq Account \union Channel
    /\ refreshes \in Nat /\ stamp \in Nat
    /\ faults \in [delivering : Nat, elsewhere : Nat]
    /\ pc \in {"idle", "channels", "accounts", "signals", "lowWithdraw", "lowClear",
               "lowSave", "reset", "resetWithdraw", "resetClear", "resetReplace",
               "resetSave", "emit", "send", "record", "stale", "staleWithdraw",
               "staleDelete"}
    /\ today \in Nat /\ enabled \subseteq Channel /\ sendTo \subseteq Channel
    /\ work \subseteq [account : Account, signals : SUBSET Signal]
    /\ job \in [account : Account \union {None}, signals : SUBSET Signal]
    /\ left \subseteq Signal /\ stale \subseteq Key
    /\ sig \in Signal \union {None} /\ key \in Key \union {None}
    /\ old \in Key \union {None} /\ to \in Channel \union {None}
    /\ told \in [Account \X Window \X Topic \X Channel -> Nat]
    /\ seen \in [Account \X Window -> Resets \union {None}]

\* Every quota alert on the dashboard is the alert of an active state.  Only
\* the state remembers the key, so an alert without one could be withdrawn by
\* nobody but the deletion of its account, whatever later evaluations find.
AlertHasOwner == alerts \subseteq states

\* Two windows that agree in all that notificationSignalKey hashes share one
\* state; a reset time that is reported differently each time names another
\* state each time.
Apart(w) == \A v \in Window : Label[v] = Label[w] => v = w
Steady(w) == \A i, j \in Jitter[w] : i = j

\* The messages of topic t that its channel got, but for those a fault of the
\* delivery (a lost receipt, a lost answer, a crash at that moment) repeated.
\* Deleting the account takes the receipts along, so an emit in progress may
\* repeat itself then.
Once(t) == t[1] \in connected => told[t] <= 1 + faults.delivering

\* Low quota is announced once to a channel until the window recovers, goes or
\* changes its period, and a reset once at three days and once at one day,
\* whatever fails or dies before a message is sent: so it is for every window
\* the identity tells from the others and from itself.
ToldOnce == \A t \in DOMAIN told : Apart(t[2]) /\ Steady(t[2]) => Once(t)

\* README.md:342-343 promises the same of every window: one reminder at 15
\* percent or less, re-armed only by a recovery, and one at three days and at
\* one day before the reset.
RemindedOnce == \A t \in DOMAIN told : Once(t)

\* A low-quota alert that appears on the dashboard has not been delivered to
\* anyone yet, so emit goes on to send it: a drop after a recovery, which took
\* the alert down, is announced again.
NewDropIsAnnounced ==
    [][\A k \in alerts' \ alerts :
          k.slot[1] = "low" => \A c \in Channel : <<k, c>> \notin deliveries]_vars

\* While its account stays, an alert is withdrawn only by the evaluation of
\* that account, and only when the snapshot reports nothing under the alert's
\* identity or something that does not call for it: a window that is not low,
\* or that is not due for this reminder.
Reported(k) == {s \in job.signals : Identity(s) = k.slot[2]}
CallsFor(s, k) == IF k.slot[1] = "low" THEN s.low ELSE ReminderDays(s, today) = k.n
WithdrawnForCause ==
    [][\A k \in alerts \ alerts' :
          k.account \in connected' =>
              /\ k.account = job.account
              /\ Reported(k) # {} => \E s \in Reported(k) : ~CallsFor(s, k)]_vars

\* If from some time on an account stays and its report of a window is not low
\* and does not change, its low-quota alerts are eventually withdrawn for good.
RecoveredAlertClears ==
    \A a \in Account, s \in Signal :
        <>[](a \in connected /\ s \in quota[a] /\ ~s.low)
            => <>[](\A k \in alerts : k.account = a => k.slot # <<"low", Identity(s)>>)

\* If from some time on the report stays low and a channel stays, the channel
\* has eventually been told of this episode.
LowQuotaIsAnnounced ==
    \A a \in Account, s \in Signal, c \in Channel :
        <>[](a \in connected /\ s \in quota[a] /\ s.low /\ c \in channels)
            => <>[](told[<<a, s.window, LowTopic, c>>] > 0)

-----------------------------------------------------------------------------
\* Every step of the evaluator is one statement of the store, or none.
Store == INSTANCE NotificationStore WITH DedupeKey <- Key, StateRow <- Key
StoreSpec == Store!StoreSpec
=============================================================================
