-------------------------- MODULE NotificationStore --------------------------
(***************************************************************************)
(* The notification tables of the SQLite store and the statements that     *)
(* change them (internal/store/sqlite).  Store.Open allows one connection  *)
(* and turns foreign keys on, so a statement, or a transaction, is one     *)
(* step.  A statement that the database refuses leaves every table as it   *)
(* was, which is a stuttering step.                                        *)
(*                                                                         *)
(* This module is the abstract specification of the tables: any client     *)
(* may issue any statement at any time.  QuotaNotifications and            *)
(* AutoActivities implement it.                                            *)
(***************************************************************************)
EXTENDS Naturals

CONSTANTS
    Account,     \* ids of connected accounts
    Channel,     \* ids of notification channels
    DedupeKey,   \* keys of events; an alert's id is the hash of its key
    StateRow     \* rows of notification_states

\* A dedupe key and a state row name the account they belong to; a row's key
\* is its account and its slot.
ASSUME KeyAssumption == \A k \in DedupeKey : k.account \in Account
ASSUME RowAssumption == \A r \in StateRow : r.account \in Account

VARIABLES
    connected,   \* rows of connected_accounts
    channels,    \* rows of notification_channels
    events,      \* rows of notification_events
    alerts,      \* dedupe keys whose alert is in the table alerts
    states,      \* rows of notification_states
    deliveries   \* rows of notification_deliveries: <<key, channel>>

tables == <<connected, channels, events, alerts, states, deliveries>>

TablesTypeOK ==
    /\ connected \subseteq Account
    /\ channels \subseteq Channel
    /\ events \subseteq DedupeKey
    /\ alerts \subseteq DedupeKey
    /\ states \subseteq StateRow
    /\ deliveries \subseteq DedupeKey \X Channel

NoRows ==
    /\ connected = {}
    /\ channels = {}
    /\ events = {}
    /\ alerts = {}
    /\ states = {}
    /\ deliveries = {}

SameSlot(r, s) == r.account = s.account /\ r.slot = s.slot

-----------------------------------------------------------------------------
SaveConnectedAccount(a) ==
    /\ connected' = connected \union {a}
    /\ UNCHANGED <<channels, events, alerts, states, deliveries>>

\* One transaction.  The alerts to delete are found through the events.
DeleteConnectedAccount(a) ==
    LET owned == {k \in events : k.account = a} IN
    /\ a \in connected
    /\ alerts' = alerts \ owned
    /\ deliveries' = {d \in deliveries : d[1] \notin owned}
    /\ states' = {r \in states : r.account # a}
    /\ events' = events \ owned
    /\ connected' = connected \ {a}
    /\ UNCHANGED channels

SaveNotificationChannel(c) ==
    /\ channels' = channels \union {c}
    /\ UNCHANGED <<connected, events, alerts, states, deliveries>>

\* Deliveries reference the channel with ON DELETE CASCADE.
DeleteNotificationChannel(c) ==
    /\ c \in channels
    /\ channels' = channels \ {c}
    /\ deliveries' = {d \in deliveries : d[2] # c}
    /\ UNCHANGED <<connected, events, alerts, states>>

\* INSERT OR IGNORE of the event, then the upsert of its alert unless the
\* event carries none, in one transaction.  OR IGNORE does not cover a foreign
\* key: the event of an account that is gone is refused, and the alert with it.
SaveNotificationEventAndAlert(k, withAlert) ==
    /\ k.account \in connected
    /\ events' = events \union {k}
    /\ alerts' = IF withAlert THEN alerts \union {k} ELSE alerts
    /\ UNCHANGED <<connected, channels, states, deliveries>>

RecordNotificationDelivery(k, c) ==
    /\ k \in events
    /\ c \in channels
    /\ deliveries' = deliveries \union {<<k, c>>}
    /\ UNCHANGED <<connected, channels, events, alerts, states>>

SaveNotificationState(r) ==
    /\ r.account \in connected
    /\ states' = {s \in states : ~SameSlot(s, r)} \union {r}
    /\ UNCHANGED <<connected, channels, events, alerts, deliveries>>

DeleteNotificationState(r) ==
    /\ states' = {s \in states : ~SameSlot(s, r)}
    /\ UNCHANGED <<connected, channels, events, alerts, deliveries>>

DeleteAlert(k) ==
    /\ alerts' = alerts \ {k}
    /\ UNCHANGED <<connected, channels, events, states, deliveries>>

-----------------------------------------------------------------------------
Statement ==
    \/ \E a \in Account : SaveConnectedAccount(a) \/ DeleteConnectedAccount(a)
    \/ \E c \in Channel :
          SaveNotificationChannel(c) \/ DeleteNotificationChannel(c)
    \/ \E k \in DedupeKey :
          \/ \E withAlert \in BOOLEAN : SaveNotificationEventAndAlert(k, withAlert)
          \/ \E c \in Channel : RecordNotificationDelivery(k, c)
          \/ DeleteAlert(k)
    \/ \E r \in StateRow : SaveNotificationState(r) \/ DeleteNotificationState(r)

StoreSpec == NoRows /\ [][Statement]_tables

-----------------------------------------------------------------------------
\* Every row belongs to rows that still exist: an event and a state to a
\* connected account, a receipt to its event and its channel.  No alert
\* outlives its event, so deleting an account, which finds alerts through
\* events, leaves none behind; a state's primary key holds one row.
Integrity ==
    /\ \A k \in events : k.account \in connected
    /\ alerts \subseteq events
    /\ \A d \in deliveries : d[1] \in events /\ d[2] \in channels
    /\ \A r \in states : r.account \in connected
    /\ \A r, s \in states : SameSlot(r, s) => r = s

\* A receipt, once recorded, is lost only with its account or its channel:
\* while both exist emit will not send the same message there again.
ReceiptsAreKept ==
    [][\A d \in deliveries \ deliveries' :
          d[1].account \notin connected' \/ d[2] \notin channels']_tables
=============================================================================
