------------------------ MODULE AutoActivitiesProofs ------------------------
(***************************************************************************)
(* For any accounts and channels, any lengths of time and any number of    *)
(* faults: the activity half of Evaluate is a client of the notification   *)
(* tables, asks the platform no sooner than its attempt rows allow, checks *)
(* in every account on every day that ends without a fresh fault, repeats  *)
(* no message unless the delivery fails, and leaves no failure on the      *)
(* dashboard that has been made good.  First, what the statements of the   *)
(* tables guarantee, whatever their clients do.                            *)
(***************************************************************************)
EXTENDS AutoActivities, TLAPS

-----------------------------------------------------------------------------
(* The notification tables                                                 *)

\* The tables hold rows of their types (SQLite schema of migration 003).
THEOREM StoreTypeOK == StoreSpec => []TablesTypeOK
<1>1. NoRows => TablesTypeOK
  BY DEF NoRows, TablesTypeOK
<1>2. TablesTypeOK /\ [Statement]_tables => TablesTypeOK'
  BY DEF TablesTypeOK, tables, Statement, SaveConnectedAccount, DeleteConnectedAccount,
         SaveNotificationChannel, DeleteNotificationChannel,
         SaveNotificationEventAndAlert, RecordNotificationDelivery,
         SaveNotificationState, DeleteNotificationState, DeleteAlert
<1>3. QED
  BY <1>1, <1>2, PTL DEF StoreSpec

\* One step of any statement keeps the tables referentially sound.
LEMMA IntegrityStep == TablesTypeOK /\ Integrity /\ [Statement]_tables => Integrity'
<1> SUFFICES ASSUME TablesTypeOK, Integrity, [Statement]_tables
             PROVE  Integrity'
  OBVIOUS
<1> USE DEF Integrity, TablesTypeOK
<1>1. ASSUME NEW a \in Account, SaveConnectedAccount(a)
      PROVE  Integrity'
  BY <1>1 DEF SaveConnectedAccount, SameSlot
<1>2. ASSUME NEW a \in Account, DeleteConnectedAccount(a)
      PROVE  Integrity'
  <2> DEFINE owned == {k \in events : k.account = a}
  <2>1. /\ events' = events \ owned
        /\ alerts' = alerts \ owned
        /\ deliveries' = {d \in deliveries : d[1] \notin owned}
        /\ states' = {r \in states : r.account # a}
        /\ connected' = connected \ {a}
        /\ channels' = channels
    BY <1>2 DEF DeleteConnectedAccount
  <2>2. \A k \in events' : k.account \in connected'
    BY <2>1
  <2>3. alerts' \subseteq events'
    BY <2>1
  <2>4. \A d \in deliveries' : d[1] \in events' /\ d[2] \in channels'
    BY <2>1
  <2>5. \A r \in states' : r.account \in connected'
    BY <2>1
  <2>6. \A r, s \in states' : SameSlot(r, s) => r = s
    BY <2>1 DEF SameSlot
  <2> QED
    BY <2>2, <2>3, <2>4, <2>5, <2>6 DEF SameSlot
<1>3. ASSUME NEW c \in Channel, SaveNotificationChannel(c)
      PROVE  Integrity'
  BY <1>3 DEF SaveNotificationChannel, SameSlot
<1>4. ASSUME NEW c \in Channel, DeleteNotificationChannel(c)
      PROVE  Integrity'
  BY <1>4 DEF DeleteNotificationChannel, SameSlot
<1>5. ASSUME NEW k \in DedupeKey, NEW withAlert \in BOOLEAN,
             SaveNotificationEventAndAlert(k, withAlert)
      PROVE  Integrity'
  BY <1>5 DEF SaveNotificationEventAndAlert, SameSlot
<1>6. ASSUME NEW k \in DedupeKey, NEW c \in Channel, RecordNotificationDelivery(k, c)
      PROVE  Integrity'
  BY <1>6 DEF RecordNotificationDelivery, SameSlot
<1>7. ASSUME NEW k \in DedupeKey, DeleteAlert(k)
      PROVE  Integrity'
  BY <1>7 DEF DeleteAlert, SameSlot
<1>8. ASSUME NEW r \in StateRow, SaveNotificationState(r)
      PROVE  Integrity'
  BY <1>8 DEF SaveNotificationState, SameSlot
<1>9. ASSUME NEW r \in StateRow, DeleteNotificationState(r)
      PROVE  Integrity'
  BY <1>9 DEF DeleteNotificationState, SameSlot
<1>10. CASE UNCHANGED tables
  BY <1>10 DEF tables, SameSlot
<1> QED
  BY <1>1, <1>2, <1>3, <1>4, <1>5, <1>6, <1>7, <1>8, <1>9, <1>10 DEF Statement

\* No alert, event, receipt or state outlives what it belongs to, whatever
\* accounts and channels are deleted between the statements.
THEOREM StoreIntegrity == StoreSpec => []Integrity
<1>1. NoRows => Integrity
  BY DEF NoRows, Integrity, SameSlot
<1>2. QED
  BY <1>1, StoreTypeOK, IntegrityStep, PTL DEF StoreSpec

\* A receipt is lost only with its account or its channel.
THEOREM StoreReceipts == StoreSpec => ReceiptsAreKept
<1>1. Integrity /\ [Statement]_tables =>
        [\A d \in deliveries \ deliveries' :
            d[1].account \notin connected' \/ d[2] \notin channels']_tables
  <2> SUFFICES ASSUME Integrity, Statement, NEW d \in deliveries, d \notin deliveries'
               PROVE  d[1].account \notin connected' \/ d[2] \notin channels'
    BY DEF tables
  <2>1. ASSUME NEW a \in Account, DeleteConnectedAccount(a)
        PROVE  d[1].account \notin connected'
    BY <2>1 DEF DeleteConnectedAccount, Integrity
  <2>2. ASSUME NEW c \in Channel, DeleteNotificationChannel(c)
        PROVE  d[2] \notin channels'
    BY <2>2 DEF DeleteNotificationChannel
  <2> QED
    BY <2>1, <2>2 DEF Statement, SaveConnectedAccount, SaveNotificationChannel,
       SaveNotificationEventAndAlert, RecordNotificationDelivery,
       SaveNotificationState, DeleteNotificationState, DeleteAlert
<1>2. QED
  BY <1>1, StoreIntegrity, PTL DEF StoreSpec, ReceiptsAreKept

-----------------------------------------------------------------------------
(* The rows of the activities                                              *)

Dates == {Date(t) : t \in Time}

LEMMA RowsAreRows ==
    ASSUME NEW a \in Account, NEW status \in Status, NEW t \in Time
    PROVE  /\ AttemptRow(a, status, t) \in StateRow
           /\ Date(t) \in Dates
  BY KeysAssumption DEF AttemptRow, Dates

LEMMA KeysAreKeys ==
    ASSUME NEW a \in Account, NEW kind \in {"failed", "completed"}, NEW t \in Time
    PROVE  EventKey(a, kind, t) \in DedupeKey /\ EventKey(a, kind, t).account = a
  BY KeysAssumption DEF EventKey

-----------------------------------------------------------------------------
(* The invariant *)

\* What the local variables hold where they are used.  Ids are handed out once.
Locals ==
    /\ work \subseteq used
    /\ pc \in {"saveRunning", "run", "saveFailed", "saveCompleted", "retract"} =>
          account \in Account /\ account \in used
    /\ pc \in {"emit", "send", "record"} => key \in DedupeKey /\ key.account \in used
    /\ pc = "record" => to \in Channel

Ids ==
    /\ connected \subseteq used
    /\ channels \subseteq used
    /\ \A a \in Account, d \in Dates : a \notin used => tried[<<a, d>>] = Untried
    /\ \A k \in DedupeKey, c \in Channel :
          k.account \notin used \/ c \notin used => told[<<k, c>>] = 0

\* What an attempt row says about the last attempt it stands for.
Remembers(row, last) ==
    \/ row.status = "completed"
    \/ row.status = "failed" /\ last.saved \in {"none", "failed"} /\ row.at >= last.at
    \/ row.status = "running" /\ last.saved = "none" /\ row.at >= last.at
    \/ row.status = "running" /\ last.saved = "failed" /\ row.at >= last.at + Backoff

Noted ==
    \A a \in connected, d \in Dates :
        tried[<<a, d>>] # Untried =>
            \E row \in states : /\ row.account = a /\ row.slot = d
                                /\ Remembers(row, tried[<<a, d>>])

\* What was read of the row still counts, and the row is there before the call.
Pending ==
    /\ pc \in {"saveRunning", "run"} /\ account \in connected =>
          Allowed(tried[<<account, Date(now)>>])
    /\ pc = "run" /\ account \in connected => AttemptRow(account, "running", now) \in states

Stored == pc \in {"send", "record"} /\ key.account \in connected => key \in events

\* A message without receipt, other than the one emit is about to record, was
\* sent only by faults of the delivery.
Receipts ==
    \A k \in DedupeKey, c \in Channel :
        k.account \in connected =>
            /\ told[<<k, c>>] <= 1 + lost
            /\ c \in channels /\ <<k, c>> \notin deliveries
                 /\ ~(pc = "record" /\ key = k /\ to = c)
               => told[<<k, c>>] <= lost

IInv == TypeOK /\ Locals /\ Ids /\ Noted /\ Pending /\ Stored /\ Receipts

LEMMA InitIInv == Init => IInv
<1> SUFFICES ASSUME Init PROVE IInv
  OBVIOUS
<1> USE DEF Init, NoRows
<1>1. TypeOK
  <2>1. 0 \in Time /\ MaxFaults \in Nat
    BY TimeAssumption DEF Time
  <2>2. Untried \in [at : -1 .. MaxTime, ok : BOOLEAN, saved : {"none", "failed", "completed"}]
    BY TimeAssumption DEF Untried
  <2>3. tried \in [Account \X {Date(t) : t \in Time} ->
                     [at : -1 .. MaxTime, ok : BOOLEAN, saved : {"none", "failed", "completed"}]]
    BY <2>2
  <2>4. troubled \in -1 .. MaxTime /\ lost \in 0 .. faults /\ faults \in 0 .. MaxFaults
    BY TimeAssumption
  <2>5. told \in [DedupeKey \X Channel -> Nat] /\ since \in [Account -> Time]
    BY <2>1
  <2> QED
    BY <2>1, <2>3, <2>4, <2>5 DEF TypeOK, TablesTypeOK
<1>2. Locals /\ Noted /\ Pending /\ Stored
  BY DEF Locals, Noted, Pending, Stored
<1>3. Ids
  BY DEF Ids, Dates
<1>4. Receipts
  BY DEF Receipts
<1> QED
  BY <1>1, <1>2, <1>3, <1>4 DEF IInv

-----------------------------------------------------------------------------
(* Every step is a statement of the tables, or none *)

LEMMA StatementStep ==
    ASSUME TypeOK, Locals, [Next]_vars
    PROVE  [Statement]_tables
<1> USE DEF TypeOK, Locals
<1>1. ASSUME NEW a \in Account, Connect(a) \/ Disconnect(a) \/ ManualRun(a)
      PROVE  [Statement]_tables
  BY <1>1 DEF Connect, Disconnect, ManualRun, Statement
<1>2. ASSUME NEW c \in Channel, CreateChannel(c) \/ DeleteChannel(c)
      PROVE  [Statement]_tables
  BY <1>2 DEF CreateChannel, DeleteChannel, Statement
<1>3. ASSUME \/ Tick \/ Abort \/ Begin \/ ListActivities \/ Finish \/ Run \/ EmitDone
             \/ \E a \in work : NextActivity(a)
             \/ \E c \in sendTo : SkipChannel(c) \/ Send(c)
             \/ UNCHANGED vars
      PROVE  UNCHANGED tables
  BY <1>3 DEF Tick, Abort, Begin, ListActivities, Finish, Run, EmitDone, NextActivity,
              SkipChannel, Send, vars
<1>4. ASSUME SaveRunning \/ SaveFailed \/ SaveCompleted
      PROVE  [Statement]_tables
  <2>1. PICK status \in Status : AttemptRow(account, status, now) \in StateRow
            /\ (SaveNotificationState(AttemptRow(account, status, now)) \/ UNCHANGED tables)
    <3>1. \A status \in Status : AttemptRow(account, status, now) \in StateRow
      BY <1>4, RowsAreRows DEF SaveRunning, SaveFailed, SaveCompleted
    <3> QED
      BY <1>4, <3>1 DEF SaveRunning, SaveFailed, SaveCompleted, SaveAttempt, Status
  <2> QED
    BY <2>1 DEF Statement
<1>5. ASSUME Retract
      PROVE  [Statement]_tables
  <2>1. FailureAtHand \in DedupeKey
    BY <1>5, KeysAreKeys DEF Retract, FailureAtHand
  <2> QED
    BY <1>5, <2>1 DEF Retract, Statement
<1>6. ASSUME Emit
      PROVE  [Statement]_tables
  BY <1>6 DEF Emit, Statement
<1>7. ASSUME Record
      PROVE  [Statement]_tables
  BY <1>7 DEF Record, Statement
<1> QED
  BY <1>1, <1>2, <1>3, <1>4, <1>5, <1>6, <1>7 DEF Next, Evaluate, Environment

-----------------------------------------------------------------------------
(* One lemma for each part of the invariant, one step for each action *)

LEMMA TypeStep ==
    ASSUME TypeOK, Locals, [Next]_vars
    PROVE  TypeOK'
<1> DEFINE Outcome == [at : -1 .. MaxTime, ok : BOOLEAN, saved : {"none", "failed", "completed"}]
           Tries == [Account \X {Date(t) : t \in Time} -> Outcome]
<1>1. TablesTypeOK'
  BY StatementStep DEF TypeOK, TablesTypeOK, tables, Statement, SaveConnectedAccount,
     DeleteConnectedAccount, SaveNotificationChannel, DeleteNotificationChannel,
     SaveNotificationEventAndAlert, RecordNotificationDelivery,
     SaveNotificationState, DeleteNotificationState, DeleteAlert
<1> USE DEF TypeOK
<1>2. ASSUME Fault
      PROVE  faults' \in 0 .. MaxFaults /\ lost' \in 0 .. faults' /\ troubled' \in -1 .. MaxTime
  BY <1>2, TimeAssumption DEF Fault, Time
<1>3. ASSUME NoFault
      PROVE  faults' \in 0 .. MaxFaults /\ lost' \in 0 .. faults' /\ troubled' \in -1 .. MaxTime
  BY <1>3 DEF NoFault
<1>4. ASSUME account \in Account, NEW ok \in BOOLEAN, NEW saved \in {"none", "failed", "completed"},
             Try(ok, saved)
      PROVE  tried' \in Tries
  <2>1. [at |-> now, ok |-> ok, saved |-> saved] \in Outcome
    BY TimeAssumption DEF Time
  <2> QED
    BY <1>4, <2>1 DEF Try
<1>5. ASSUME NEW c \in Channel, told' = told \/ told' = [told EXCEPT ![<<key, c>>] = @ + 1]
      PROVE  told' \in [DedupeKey \X Channel -> Nat]
  BY <1>5
<1>6. ASSUME NEW a \in Account, Connect(a)
      PROVE  TypeOK'
  BY <1>1, <1>6 DEF Connect, evaluation
<1>7. ASSUME NEW a \in Account, Disconnect(a)
      PROVE  TypeOK'
  BY <1>1, <1>7 DEF Disconnect, evaluation, history
<1>8. ASSUME NEW c \in Channel, CreateChannel(c)
      PROVE  TypeOK'
  BY <1>1, <1>8 DEF CreateChannel, evaluation, history
<1>9. ASSUME NEW c \in Channel, DeleteChannel(c)
      PROVE  TypeOK'
  BY <1>1, <1>9 DEF DeleteChannel, evaluation, history
<1>10. ASSUME NEW a \in Account, ManualRun(a)
       PROVE  TypeOK'
  <2>1. claimed' \subseteq Account \X {Date(t) : t \in Time}
    BY <1>10 DEF ManualRun
  <2> QED
    BY <1>1, <1>10, <2>1 DEF ManualRun, evaluation, history
<1>11. ASSUME Tick
       PROVE  TypeOK'
  <2>1. time' \in Time
    BY <1>11, TimeAssumption DEF Tick, Time
  <2> QED
    BY <1>1, <1>11, <2>1 DEF Tick, evaluation, history
<1>12. ASSUME Abort
       PROVE  TypeOK'
  <2>1. 0 \in Time
    BY TimeAssumption DEF Time
  <2>2. stuck' \subseteq DedupeKey
    BY <1>12 DEF Abort, StuckAlerts, TablesTypeOK
  <2> QED
    BY <1>1, <1>2, <1>12, <2>1, <2>2 DEF Abort, Return
<1>13. ASSUME Begin
       PROVE  TypeOK'
  BY <1>1, <1>13 DEF Begin, history, TablesTypeOK
<1>14. ASSUME ListActivities
       PROVE  TypeOK'
  BY <1>1, <1>2, <1>3, <1>14 DEF ListActivities, TablesTypeOK
<1>15. ASSUME NEW a \in work, NextActivity(a)
       PROVE  TypeOK'
  BY <1>1, <1>2, <1>3, <1>15 DEF NextActivity
<1>16. ASSUME Finish
       PROVE  TypeOK'
  <2>1. 0 \in Time
    BY TimeAssumption DEF Time
  <2> QED
    BY <1>1, <1>16, <2>1 DEF Finish, Return, history
<1>17. ASSUME SaveRunning
       PROVE  TypeOK'
  BY <1>1, <1>2, <1>3, <1>17 DEF SaveRunning, SaveAttempt, evaluation
<1>18. ASSUME Run
       PROVE  TypeOK'
  <2>1. claimed' \subseteq Account \X {Date(t) : t \in Time}
    BY <1>18 DEF Run, Locals
  <2>2. tried' \in Tries
    <3>1. account \in Account /\ (Try(TRUE, "none") \/ Try(FALSE, "none") \/ UNCHANGED tried)
      BY <1>18 DEF Run, Locals
    <3> QED
      BY <1>4, <3>1
  <2> QED
    BY <1>1, <1>2, <1>3, <1>18, <2>1, <2>2 DEF Run, evaluation
<1>19. ASSUME SaveFailed
       PROVE  TypeOK'
  <2>1. tried' \in Tries /\ key' \in DedupeKey
    BY <1>4, <1>19, KeysAreKeys DEF SaveFailed, Locals
  <2> QED
    BY <1>1, <1>2, <1>3, <1>19, <2>1 DEF SaveFailed, SaveAttempt
<1>20. ASSUME SaveCompleted
       PROVE  TypeOK'
  <2>1. tried' \in Tries
    BY <1>4, <1>20 DEF SaveCompleted, Locals
  <2> QED
    BY <1>1, <1>2, <1>3, <1>20, <2>1 DEF SaveCompleted, SaveAttempt, evaluation
<1>21. ASSUME Retract
       PROVE  TypeOK'
  <2>1. key' \in DedupeKey
    BY <1>21, KeysAreKeys DEF Retract, Locals
  <2>2. stuck' \subseteq DedupeKey
    BY <1>21 DEF Retract, StuckAlerts, TablesTypeOK
  <2> QED
    BY <1>1, <1>2, <1>3, <1>21, <2>1, <2>2 DEF Retract
<1>22. ASSUME Emit
       PROVE  TypeOK'
  BY <1>1, <1>2, <1>3, <1>22 DEF Emit
<1>23. ASSUME EmitDone
       PROVE  TypeOK'
  BY <1>1, <1>23 DEF EmitDone, evaluation, history
<1>24. ASSUME Record
       PROVE  TypeOK'
  BY <1>1, <1>2, <1>3, <1>24 DEF Record
<1>25. ASSUME NEW c \in sendTo, SkipChannel(c)
       PROVE  TypeOK'
  BY <1>1, <1>2, <1>3, <1>25 DEF SkipChannel
<1>26. ASSUME NEW c \in sendTo, Send(c)
       PROVE  TypeOK'
  <2>1. told' = told \/ told' = [told EXCEPT ![<<key, c>>] = @ + 1]
    BY <1>26 DEF Send
  <2>2. told' \in [DedupeKey \X Channel -> Nat]
    BY <1>5, <2>1
  <2> QED
    BY <1>1, <1>2, <1>3, <1>26, <2>2 DEF Send
<1>27. CASE UNCHANGED vars
  BY <1>1, <1>27 DEF vars, evaluation, history
<1> QED
  BY <1>6, <1>7, <1>8, <1>9, <1>10, <1>11, <1>12, <1>13, <1>14, <1>15, <1>16, <1>17,
     <1>18, <1>19, <1>20, <1>21, <1>22, <1>23, <1>24, <1>25, <1>26, <1>27
     DEF Next, Evaluate, Environment

LEMMA LocalsStep ==
    ASSUME TypeOK, Locals, Ids, [Next]_vars
    PROVE  Locals'
<1> USE DEF TypeOK, TablesTypeOK, Locals, Ids
<1>1. ASSUME NEW a \in Account, Connect(a) \/ Disconnect(a) \/ ManualRun(a)
      PROVE  Locals'
  BY <1>1 DEF Connect, Disconnect, ManualRun, evaluation
<1>2. ASSUME NEW c \in Channel, CreateChannel(c) \/ DeleteChannel(c)
      PROVE  Locals'
  BY <1>2 DEF CreateChannel, DeleteChannel, evaluation
<1>3. ASSUME Tick \/ EmitDone \/ UNCHANGED vars
      PROVE  Locals'
  BY <1>3 DEF Tick, EmitDone, vars, evaluation
<1>4. ASSUME Abort \/ Finish
      PROVE  Locals'
  BY <1>4 DEF Abort, Finish, Return
<1>5. ASSUME Begin
      PROVE  Locals'
  BY <1>5 DEF Begin
<1>6. ASSUME ListActivities
      PROVE  Locals'
  BY <1>6 DEF ListActivities
<1>7. ASSUME NEW a \in work, NextActivity(a)
      PROVE  Locals'
  BY <1>7 DEF NextActivity
<1>8. ASSUME SaveRunning
      PROVE  Locals'
  BY <1>8 DEF SaveRunning, SaveAttempt, evaluation
<1>9. ASSUME Run
      PROVE  Locals'
  BY <1>9 DEF Run, evaluation
<1>10. ASSUME SaveFailed
       PROVE  Locals'
  BY <1>10, KeysAreKeys DEF SaveFailed, SaveAttempt
<1>11. ASSUME SaveCompleted
       PROVE  Locals'
  BY <1>11 DEF SaveCompleted, SaveAttempt, evaluation
<1>12. ASSUME Retract
       PROVE  Locals'
  BY <1>12, KeysAreKeys DEF Retract
<1>13. ASSUME Emit \/ Record
       PROVE  Locals'
  BY <1>13 DEF Emit, Record
<1>14. ASSUME NEW c \in sendTo, SkipChannel(c) \/ Send(c)
       PROVE  Locals'
  BY <1>14 DEF SkipChannel, Send
<1> QED
  BY <1>1, <1>2, <1>3, <1>4, <1>5, <1>6, <1>7, <1>8, <1>9, <1>10, <1>11, <1>12, <1>13,
     <1>14 DEF Next, Evaluate, Environment

\* The tables of accounts and channels change with the ids only.
LEMMA IdsStep ==
    ASSUME TypeOK, Locals, Ids, [Next]_vars
    PROVE  Ids'
<1> USE DEF TypeOK, TablesTypeOK, Ids
<1>1. ASSUME NEW a \in Account, Connect(a)
      PROVE  Ids'
  BY <1>1 DEF Connect, SaveConnectedAccount
<1>2. ASSUME NEW a \in Account, Disconnect(a) \/ ManualRun(a)
      PROVE  Ids'
  BY <1>2 DEF Disconnect, DeleteConnectedAccount, ManualRun, tables, history
<1>3. ASSUME NEW c \in Channel, CreateChannel(c)
      PROVE  Ids'
  BY <1>3 DEF CreateChannel, SaveNotificationChannel, history
<1>4. ASSUME NEW c \in Channel, DeleteChannel(c)
      PROVE  Ids'
  BY <1>4 DEF DeleteChannel, DeleteNotificationChannel, history
<1>5. ASSUME \/ Tick \/ EmitDone \/ Abort \/ Finish \/ Begin \/ ListActivities \/ UNCHANGED vars
             \/ \E a \in work : NextActivity(a)
             \/ \E c \in sendTo : SkipChannel(c)
      PROVE  Ids'
  BY <1>5 DEF Tick, EmitDone, Abort, Finish, Begin, ListActivities, NextActivity, SkipChannel,
              vars, tables, history
<1>6. ASSUME SaveRunning
      PROVE  Ids'
  BY <1>6 DEF SaveRunning, SaveAttempt, SaveNotificationState, tables
<1>7. ASSUME NEW ok, NEW saved, account \in used, Try(ok, saved)
      PROVE  \A a \in Account, d \in Dates : a \notin used => tried'[<<a, d>>] = Untried
  <2>1. \A a \in Account, d \in Dates : <<a, d>> # <<account, Date(now)>> =>
            tried'[<<a, d>>] = tried[<<a, d>>]
    BY <1>7 DEF Try, Dates
  <2> QED
    BY <1>7, <2>1
<1>8. ASSUME Run
      PROVE  Ids'
  BY <1>7, <1>8 DEF Run, tables, Locals
<1>9. ASSUME SaveFailed \/ SaveCompleted
      PROVE  Ids'
  BY <1>7, <1>9 DEF SaveFailed, SaveCompleted, SaveAttempt, SaveNotificationState, tables, Locals
<1>10. ASSUME Retract
       PROVE  Ids'
  BY <1>10 DEF Retract, DeleteAlert, tables
<1>11. ASSUME Emit \/ Record
       PROVE  Ids'
  BY <1>11 DEF Emit, Record, SaveNotificationEventAndAlert, RecordNotificationDelivery, tables
<1>12. ASSUME NEW c \in sendTo, Send(c)
       PROVE  Ids'
  <2>1. told' = told \/ told' = [told EXCEPT ![<<key, c>>] = @ + 1]
    BY <1>12 DEF Send
  <2>2. \A k \in DedupeKey, d \in Channel : k.account \notin used \/ d \notin used =>
            told'[<<k, d>>] = 0
    BY <1>12, <2>1 DEF Send, Locals
  <2> QED
    BY <1>12, <2>2 DEF Send, tables
<1> QED
  BY <1>1, <1>2, <1>3, <1>4, <1>5, <1>6, <1>8, <1>9, <1>10, <1>11, <1>12
     DEF Next, Evaluate, Environment

\* A row that is saved replaces the row of its slot and no other.
LEMMA SaveReplaces ==
    ASSUME TypeOK, account \in Account, NEW status \in Status,
           SaveNotificationState(AttemptRow(account, status, now))
    PROVE  /\ account \in connected
           /\ AttemptRow(account, status, now) \in states'
           /\ \A row \in states :
                 row.account # account \/ row.slot # Date(now) => row \in states'
<1> DEFINE new == AttemptRow(account, status, now)
<1>1. new.account = account /\ new.slot = Date(now)
  BY DEF AttemptRow
<1>2. account \in connected /\ states' = {s \in states : ~SameSlot(s, new)} \union {new}
  BY <1>1 DEF SaveNotificationState
<1> HIDE DEF new
<1>3. \A row \in states : row.account # account \/ row.slot # Date(now) => row \in states'
  BY <1>1, <1>2 DEF SameSlot
<1> QED
  BY <1>2, <1>3 DEF new

LEMMA NotedStep ==
    ASSUME TypeOK, Locals, Ids, Noted, Pending, [Next]_vars
    PROVE  Noted'
<1> USE DEF TypeOK, TablesTypeOK, Noted
<1>0. ASSUME NEW row \in states',
             account \in connected, connected' \subseteq connected,
             row.account = account, row.slot = Date(now),
             \A r \in states : r.account # account \/ r.slot # Date(now) => r \in states',
             \A a \in Account, d \in Dates : <<a, d>> # <<account, Date(now)>> =>
                 tried'[<<a, d>>] = tried[<<a, d>>],
             tried'[<<account, Date(now)>>] # Untried =>
                 Remembers(row, tried'[<<account, Date(now)>>])
      PROVE  Noted'
  <2> SUFFICES ASSUME NEW a \in connected', NEW d \in Dates, tried'[<<a, d>>] # Untried
               PROVE  \E r \in states' : /\ r.account = a /\ r.slot = d
                                          /\ Remembers(r, tried'[<<a, d>>])
    BY DEF Dates, Remembers
  <2>1. CASE a = account /\ d = Date(now)
    BY <1>0, <2>1
  <2>2. CASE a # account \/ d # Date(now)
    <3>1. tried'[<<a, d>>] = tried[<<a, d>>] /\ a \in connected
      BY <1>0, <2>2
    <3>2. PICK r \in states : r.account = a /\ r.slot = d /\ Remembers(r, tried[<<a, d>>])
      BY <3>1
    <3> QED
      BY <1>0, <2>2, <3>1, <3>2
  <2> QED
    BY <2>1, <2>2
<1>1. ASSUME NEW a \in Account, Connect(a)
      PROVE  Noted'
  <2>1. /\ connected' = connected \union {a} /\ states' = states /\ tried' = tried
        /\ \A d \in Dates : tried[<<a, d>>] = Untried
    BY <1>1 DEF Connect, SaveConnectedAccount, Ids
  <2> SUFFICES ASSUME NEW b \in connected', NEW d \in Dates, tried'[<<b, d>>] # Untried
               PROVE  \E row \in states' : /\ row.account = b /\ row.slot = d
                                            /\ Remembers(row, tried'[<<b, d>>])
    BY DEF Dates, Remembers
  <2>2. b \in connected
    BY <2>1
  <2>3. PICK row \in states : row.account = b /\ row.slot = d /\ Remembers(row, tried[<<b, d>>])
    BY <2>1, <2>2
  <2> QED
    BY <2>1, <2>3
<1>2. ASSUME NEW a \in Account, Disconnect(a)
      PROVE  Noted'
  <2>1. /\ connected' = connected \ {a}
        /\ states' = {r \in states : r.account # a}
        /\ tried' = tried
    BY <1>2 DEF Disconnect, DeleteConnectedAccount, history
  <2> SUFFICES ASSUME NEW b \in connected', NEW d \in Dates, tried'[<<b, d>>] # Untried
               PROVE  \E row \in states' : /\ row.account = b /\ row.slot = d
                                            /\ Remembers(row, tried'[<<b, d>>])
    BY DEF Dates, Remembers
  <2>2. PICK row \in states : row.account = b /\ row.slot = d /\ Remembers(row, tried[<<b, d>>])
    BY <2>1
  <2> QED
    BY <2>1, <2>2
<1>3. ASSUME \/ \E a \in Account : ManualRun(a)
             \/ \E c \in Channel : CreateChannel(c) \/ DeleteChannel(c)
             \/ Tick \/ EmitDone \/ Abort \/ Finish \/ Begin \/ ListActivities \/ UNCHANGED vars
             \/ \E a \in work : NextActivity(a)
             \/ \E c \in sendTo : SkipChannel(c) \/ Send(c)
             \/ Retract \/ Emit \/ Record
      PROVE  Noted'
  <2>1. UNCHANGED <<connected, states, tried>>
    BY <1>3 DEF ManualRun, CreateChannel, DeleteChannel, Tick, EmitDone, Abort, Finish, Begin,
       ListActivities, NextActivity, SkipChannel, Send, Retract, Emit, Record,
       SaveNotificationChannel, DeleteNotificationChannel, DeleteAlert,
       SaveNotificationEventAndAlert, RecordNotificationDelivery, vars, tables, history
  <2> QED
    BY <2>1
<1>4. ASSUME SaveRunning
      PROVE  Noted'
  <2>1. CASE UNCHANGED tables
    BY <1>4, <2>1 DEF SaveRunning, tables
  <2>2. CASE SaveNotificationState(AttemptRow(account, "running", now))
    <3> DEFINE row == AttemptRow(account, "running", now)
    <3>1. account \in Account /\ tried' = tried /\ connected' = connected
      BY <1>4, <2>2 DEF SaveRunning, SaveNotificationState, Locals
    <3>2. /\ account \in connected /\ row \in states'
          /\ \A r \in states : r.account # account \/ r.slot # Date(now) => r \in states'
      BY <2>2, <3>1, SaveReplaces DEF Status
    <3>3. row.account = account /\ row.slot = Date(now) /\ row.status = "running" /\ row.at = now
      BY DEF AttemptRow
    <3>4. tried[<<account, Date(now)>>] # Untried => Remembers(row, tried[<<account, Date(now)>>])
      <4> DEFINE last == tried[<<account, Date(now)>>]
      <4>1. last.at \in Int /\ now \in Int /\ Backoff \in Nat /\ RunningLimit \in Nat
        BY <3>1, TimeAssumption DEF Time
      <4>2. last # Untried => \/ last.saved = "failed" /\ now - last.at >= Backoff
                              \/ last.saved = "none" /\ now - last.at >= RunningLimit
        BY <1>4, <3>2 DEF SaveRunning, Pending, Allowed
      <4> HIDE DEF last
      <4>3. last # Untried => Remembers(row, last)
        BY <3>3, <4>1, <4>2 DEF Remembers
      <4> QED
        BY <4>3 DEF last
    <3> HIDE DEF row
    <3> QED
      BY <1>0, <3>1, <3>2, <3>3, <3>4
  <2> QED
    BY <1>4, <2>1, <2>2 DEF SaveRunning, SaveAttempt
<1>5. ASSUME NEW ok, NEW saved, account \in Account, Try(ok, saved)
      PROVE  /\ tried'[<<account, Date(now)>>] = [at |-> now, ok |-> ok, saved |-> saved]
             /\ \A a \in Account, d \in Dates : <<a, d>> # <<account, Date(now)>> =>
                   tried'[<<a, d>>] = tried[<<a, d>>]
  BY <1>5 DEF Try, Dates
<1>6. ASSUME Run
      PROVE  Noted'
  <2>1. CASE UNCHANGED tried
    BY <1>6, <2>1 DEF Run, tables
  <2>2. ASSUME account \in connected, NEW ok, Try(ok, "none") PROVE Noted'
    <3> DEFINE row == AttemptRow(account, "running", now)
    <3>1. row \in states' /\ connected' = connected /\ states' = states
      BY <1>6, <2>2 DEF Run, Pending, tables
    <3>2. /\ row.account = account /\ row.slot = Date(now)
          /\ Remembers(row, [at |-> now, ok |-> ok, saved |-> "none"])
      BY TimeAssumption DEF AttemptRow, Remembers, Time
    <3>3. account \in Account
      BY <2>2
    <3>4. /\ tried'[<<account, Date(now)>>] = [at |-> now, ok |-> ok, saved |-> "none"]
          /\ \A a \in Account, d \in Dates : <<a, d>> # <<account, Date(now)>> =>
                tried'[<<a, d>>] = tried[<<a, d>>]
      BY <1>5, <2>2, <3>3
    <3> HIDE DEF row
    <3> QED
      BY <1>0, <2>2, <3>1, <3>2, <3>4, ZenonT(60)
  <2> QED
    BY <1>6, <2>1, <2>2 DEF Run
<1>7. ASSUME NEW status \in {"failed", "completed"}, account \in Account, NEW ok, Try(ok, status),
             SaveNotificationState(AttemptRow(account, status, now))
      PROVE  Noted'
  <2> DEFINE row == AttemptRow(account, status, now)
  <2>1. /\ account \in connected /\ row \in states'
        /\ \A r \in states : r.account # account \/ r.slot # Date(now) => r \in states'
    BY <1>7, SaveReplaces DEF Status
  <2>2. connected' = connected
    BY <1>7 DEF SaveNotificationState
  <2>3. /\ row.account = account /\ row.slot = Date(now)
        /\ Remembers(row, [at |-> now, ok |-> ok, saved |-> status])
    BY TimeAssumption DEF AttemptRow, Remembers, Time
  <2>4. /\ tried'[<<account, Date(now)>>] = [at |-> now, ok |-> ok, saved |-> status]
        /\ \A a \in Account, d \in Dates : <<a, d>> # <<account, Date(now)>> =>
              tried'[<<a, d>>] = tried[<<a, d>>]
    BY <1>5, <1>7
  <2> HIDE DEF row
  <2> QED
    BY <1>0, <2>1, <2>2, <2>3, <2>4, ZenonT(60)
<1>8. ASSUME SaveFailed \/ SaveCompleted
      PROVE  Noted'
  <2>1. CASE UNCHANGED tables
    BY <1>8, <2>1 DEF SaveFailed, SaveCompleted, tables
  <2>2. CASE ~UNCHANGED tables
    BY <1>7, <1>8, <2>2 DEF SaveFailed, SaveCompleted, SaveAttempt, Locals
  <2> QED
    BY <2>1, <2>2
<1> QED
  BY <1>1, <1>2, <1>3, <1>4, <1>6, <1>8 DEF Next, Evaluate, Environment

\* A row that does not forbid an attempt knows that the last one is long ago.
LEMMA ReadyAllows ==
    ASSUME TypeOK, NEW a \in Account, NEW row \in states,
           Remembers(row, tried[<<a, Date(now)>>]), Ready(row)
    PROVE  Allowed(tried[<<a, Date(now)>>])
<1> DEFINE last == tried[<<a, Date(now)>>]
<1>1. last.at \in Int /\ now \in Int /\ Backoff \in Nat /\ RunningLimit \in Nat
      /\ RunningLimit <= Backoff
  BY TimeAssumption DEF TypeOK, Time
<1>2. row.at \in Int
  <2>1. row \in [account : Account, slot : {Date(t) : t \in Time}, status : Status, at : Time]
    BY KeysAssumption DEF TypeOK, TablesTypeOK
  <2>2. row.at \in Time
    BY <2>1
  <2> QED
    BY <2>2 DEF Time
<1>3. Remembers(row, last)
  OBVIOUS
<1> HIDE DEF last
<1>4. Allowed(last)
  BY <1>1, <1>2, <1>3 DEF Remembers, Ready, Allowed
<1> QED
  BY <1>4 DEF last

LEMMA PendingStep ==
    ASSUME TypeOK, Locals, Ids, Noted, Pending, [Next]_vars
    PROVE  Pending'
<1> USE DEF TypeOK, TablesTypeOK, Pending
<1>1. ASSUME UNCHANGED <<pc, now, account, tried>>, connected' \subseteq connected \/ account \notin connected',
             \A row \in states : row.account \in connected' => row \in states'
      PROVE  Pending'
  <2>1. AttemptRow(account, "running", now).account = account
    BY DEF AttemptRow
  <2> QED
    BY <1>1, <2>1 DEF Allowed
<1>2. ASSUME pc' \notin {"saveRunning", "run"}
      PROVE  Pending'
  BY <1>2
<1>3. ASSUME NEW a \in Account, Connect(a)
      PROVE  Pending'
  <2>1. CASE pc \in {"saveRunning", "run"}
    <3>1. account # a /\ connected' = connected \union {a} /\ states' = states
      BY <1>3, <2>1 DEF Connect, SaveConnectedAccount, Locals
    <3> QED
      BY <1>3, <2>1, <3>1 DEF Connect, evaluation, Allowed
  <2>2. CASE pc \notin {"saveRunning", "run"}
    BY <1>2, <1>3, <2>2 DEF Connect
  <2> QED
    BY <2>1, <2>2
<1>4. ASSUME NEW a \in Account, Disconnect(a)
      PROVE  Pending'
  BY <1>1, <1>4 DEF Disconnect, DeleteConnectedAccount, evaluation, history
<1>5. ASSUME \/ \E a \in Account : ManualRun(a)
             \/ \E c \in Channel : CreateChannel(c) \/ DeleteChannel(c)
             \/ Tick \/ UNCHANGED vars
      PROVE  Pending'
  <2>1. UNCHANGED <<pc, now, account, tried, connected, states>>
    BY <1>5 DEF ManualRun, CreateChannel, DeleteChannel, Tick, SaveNotificationChannel,
       DeleteNotificationChannel, vars, tables, evaluation, history
  <2> QED
    BY <1>1, <2>1
<1>6. ASSUME NEW a \in work, NextActivity(a)
      PROVE  Pending'
  <2>1. CASE pc' = "saveRunning"
    <3>1. /\ account' = a /\ now' = now /\ tried' = tried /\ connected' = connected
          /\ \A row \in states : row.account = a /\ row.slot = Date(now) => Ready(row)
      BY <1>6, <2>1 DEF NextActivity, tables
    <3>2. ASSUME a \in connected
          PROVE  Allowed(tried[<<a, Date(now)>>])
      <4>1. CASE tried[<<a, Date(now)>>] = Untried
        BY <4>1 DEF Allowed
      <4>2. CASE tried[<<a, Date(now)>>] # Untried
        <5>1. Date(now) \in Dates
          BY DEF Dates
        <5>2. PICK row \in states : /\ row.account = a /\ row.slot = Date(now)
                                    /\ Remembers(row, tried[<<a, Date(now)>>])
          BY <3>2, <4>2, <5>1 DEF Noted
        <5> QED
          BY <3>1, <5>2, ReadyAllows
      <4> QED
        BY <4>1, <4>2
    <3> QED
      BY <2>1, <3>1, <3>2 DEF Allowed
  <2>2. CASE pc' # "saveRunning"
    BY <1>2, <1>6, <2>2 DEF NextActivity
  <2> QED
    BY <2>1, <2>2
<1>7. ASSUME SaveRunning
      PROVE  Pending'
  <2>1. CASE pc' = "run"
    <3>1. /\ account \in Account /\ pc = "saveRunning" /\ UNCHANGED <<now, account, tried>>
          /\ SaveNotificationState(AttemptRow(account, "running", now))
      BY <1>7, <2>1 DEF SaveRunning, SaveAttempt, evaluation, Locals
    <3>2. AttemptRow(account, "running", now) \in states' /\ connected' = connected
      BY <3>1, SaveReplaces DEF Status, SaveNotificationState
    <3> QED
      BY <2>1, <3>1, <3>2 DEF Allowed
  <2>2. CASE pc' # "run"
    BY <1>2, <1>7, <2>2 DEF SaveRunning, SaveAttempt
  <2> QED
    BY <2>1, <2>2
<1>8. ASSUME \/ EmitDone \/ Abort \/ Finish \/ Begin \/ ListActivities
             \/ \E c \in sendTo : SkipChannel(c) \/ Send(c)
             \/ Run \/ SaveFailed \/ SaveCompleted \/ Retract \/ Emit \/ Record
      PROVE  Pending'
  BY <1>2, <1>8 DEF EmitDone, Abort, Return, Finish, Begin, ListActivities, SkipChannel, Send,
     Run, SaveFailed, SaveCompleted, SaveAttempt, Retract, Emit, Record
<1> QED
  BY <1>3, <1>4, <1>5, <1>6, <1>7, <1>8 DEF Next, Evaluate, Environment

LEMMA StoredStep ==
    ASSUME TypeOK, Locals, Ids, Stored, [Next]_vars
    PROVE  Stored'
<1> USE DEF TypeOK, TablesTypeOK, Stored
<1>1. ASSUME pc' \notin {"send", "record"}
      PROVE  Stored'
  BY <1>1
<1>2. ASSUME UNCHANGED <<connected, events, key>>, pc' \in {"send", "record"} => pc \in {"send", "record"}
      PROVE  Stored'
  BY <1>2
<1>3. ASSUME NEW a \in Account, Connect(a)
      PROVE  Stored'
  <2>1. /\ connected' = connected \union {a} /\ UNCHANGED <<events, key, pc>>
        /\ pc \in {"send", "record"} => key.account # a
    BY <1>3 DEF Connect, SaveConnectedAccount, evaluation, Locals
  <2> QED
    BY <2>1
<1>4. ASSUME NEW a \in Account, Disconnect(a)
      PROVE  Stored'
  BY <1>4 DEF Disconnect, DeleteConnectedAccount, evaluation
<1>5. ASSUME \/ \E a \in Account : ManualRun(a)
             \/ \E c \in Channel : CreateChannel(c) \/ DeleteChannel(c)
             \/ Tick \/ UNCHANGED vars
      PROVE  Stored'
  BY <1>2, <1>5 DEF ManualRun, CreateChannel, DeleteChannel, Tick, SaveNotificationChannel,
     DeleteNotificationChannel, vars, tables, evaluation
<1>6. ASSUME \/ EmitDone \/ Abort \/ Finish \/ Begin \/ ListActivities
             \/ \E a \in work : NextActivity(a)
             \/ SaveRunning \/ Run \/ SaveFailed \/ SaveCompleted \/ Retract
      PROVE  Stored'
  BY <1>1, <1>6 DEF EmitDone, Abort, Return, Finish, Begin, ListActivities, NextActivity,
     SaveRunning, Run, SaveFailed, SaveCompleted, SaveAttempt, Retract
<1>7. ASSUME Emit
      PROVE  Stored'
  BY <1>7 DEF Emit, SaveNotificationEventAndAlert
<1>8. ASSUME Record \/ \E c \in sendTo : SkipChannel(c) \/ Send(c)
      PROVE  Stored'
  BY <1>2, <1>8 DEF Record, SkipChannel, Send, RecordNotificationDelivery, tables
<1> QED
  BY <1>3, <1>4, <1>5, <1>6, <1>7, <1>8 DEF Next, Evaluate, Environment

LEMMA ReceiptsStep ==
    ASSUME TypeOK, Locals, Ids, Stored, Receipts, [Next]_vars
    PROVE  Receipts'
<1> USE DEF TypeOK, TablesTypeOK, Receipts
<1>1. lost \in Nat /\ lost' \in Nat /\ (Fault => lost' \in {lost, lost + 1}) /\ (NoFault => lost' = lost)
  BY TypeStep DEF Fault, NoFault
<1>2. ASSUME lost' \in {lost, lost + 1}, UNCHANGED <<connected, told>>,
             channels' \subseteq channels,
             \A d \in deliveries : d[2] \in channels' => d \in deliveries',
             pc = "record" =>
                \/ pc' = "record" /\ UNCHANGED <<key, to>>
                \/ lost' = lost + 1
                \/ <<key, to>> \in deliveries' \/ to \notin channels'
                \/ key.account \notin connected
      PROVE  Receipts'
  <2> SUFFICES ASSUME NEW k \in DedupeKey, NEW c \in Channel, k.account \in connected'
               PROVE  /\ told'[<<k, c>>] <= 1 + lost'
                      /\ c \in channels' /\ <<k, c>> \notin deliveries'
                           /\ ~(pc' = "record" /\ key' = k /\ to' = c)
                         => told'[<<k, c>>] <= lost'
    OBVIOUS
  <2>1. told[<<k, c>>] \in Nat /\ told'[<<k, c>>] = told[<<k, c>>] /\ told[<<k, c>>] <= 1 + lost
    BY <1>2
  <2>2. ASSUME c \in channels', <<k, c>> \notin deliveries', ~(pc' = "record" /\ key' = k /\ to' = c)
        PROVE  told'[<<k, c>>] <= lost'
    <3>1. CASE pc = "record" /\ key = k /\ to = c
      BY <1>1, <1>2, <2>1, <2>2, <3>1
    <3>2. CASE ~(pc = "record" /\ key = k /\ to = c)
      BY <1>1, <1>2, <2>1, <2>2, <3>2
    <3> QED
      BY <3>1, <3>2
  <2> QED
    BY <1>1, <1>2, <2>1, <2>2
<1>3. ASSUME NEW a \in Account, Connect(a)
      PROVE  Receipts'
  <2>1. /\ connected' = connected \union {a}
        /\ UNCHANGED <<channels, deliveries, told, lost, pc, key, to>>
        /\ \A k \in DedupeKey, c \in Channel : k.account = a => told[<<k, c>>] = 0
    BY <1>3 DEF Connect, SaveConnectedAccount, evaluation, Ids
  <2> QED
    BY <1>1, <2>1
<1>4. ASSUME NEW a \in Account, Disconnect(a)
      PROVE  Receipts'
  <2> DEFINE owned == {k \in events : k.account = a}
  <2>1. /\ connected' = connected \ {a}
        /\ deliveries' = {d \in deliveries : d[1] \notin owned}
        /\ UNCHANGED <<channels, told, lost, pc, key, to>>
    BY <1>4 DEF Disconnect, DeleteConnectedAccount, evaluation, history
  <2> QED
    BY <2>1
<1>5. ASSUME NEW c \in Channel, CreateChannel(c)
      PROVE  Receipts'
  <2>1. /\ channels' = channels \union {c}
        /\ UNCHANGED <<connected, deliveries, told, lost, pc, key, to>>
        /\ \A k \in DedupeKey : told[<<k, c>>] = 0
    BY <1>5 DEF CreateChannel, SaveNotificationChannel, evaluation, history, Ids
  <2> QED
    BY <1>1, <2>1
<1>6. ASSUME NEW c \in Channel, DeleteChannel(c)
      PROVE  Receipts'
  <2>1. /\ channels' = channels \ {c} /\ deliveries' = {d \in deliveries : d[2] # c}
        /\ UNCHANGED <<connected, told, lost, pc, key, to>>
    BY <1>6 DEF DeleteChannel, DeleteNotificationChannel, evaluation, history
  <2> QED
    BY <1>2, <2>1
<1>7. ASSUME \/ \E a \in Account : ManualRun(a)
             \/ Tick \/ UNCHANGED vars
      PROVE  Receipts'
  <2>1. UNCHANGED <<connected, channels, deliveries, told, lost, pc, key, to>>
    BY <1>7 DEF ManualRun, Tick, vars, tables, evaluation, history
  <2> QED
    BY <2>1
<1>8. ASSUME Abort
      PROVE  Receipts'
  <2>1. /\ UNCHANGED <<connected, channels, deliveries, told>>
        /\ lost' \in {lost, lost + 1} /\ (pc = "record" => lost' = lost + 1)
    BY <1>1, <1>8 DEF Abort, Fault, tables
  <2> QED
    BY <1>2, <2>1
<1>9. ASSUME \/ EmitDone \/ Finish \/ Begin \/ ListActivities
             \/ \E a \in work : NextActivity(a)
             \/ SaveRunning \/ Run \/ SaveFailed \/ SaveCompleted \/ Retract \/ Emit
             \/ \E c \in sendTo : SkipChannel(c)
      PROVE  Receipts'
  <2>1. /\ UNCHANGED <<connected, channels, deliveries, told>>
        /\ lost' \in {lost, lost + 1} /\ pc # "record"
    BY <1>1, <1>9 DEF EmitDone, Finish, Begin, ListActivities, NextActivity, SaveRunning, Run,
       SaveFailed, SaveCompleted, SaveAttempt, Retract, Emit, SkipChannel, SaveNotificationState,
       DeleteAlert, SaveNotificationEventAndAlert, tables, history
  <2> QED
    BY <1>2, <2>1
<1>10. ASSUME Record
       PROVE  Receipts'
  <2>1. /\ UNCHANGED <<connected, channels, told>> /\ pc = "record"
        /\ lost' \in {lost, lost + 1} /\ deliveries \subseteq deliveries'
    BY <1>1, <1>10 DEF Record, RecordNotificationDelivery, tables
  <2>2. \/ lost' = lost + 1 \/ <<key, to>> \in deliveries'
        \/ to \notin channels' \/ key.account \notin connected
    BY <1>10, <2>1 DEF Record, RecordNotificationDelivery, Fault, Stored
  <2> QED
    BY <1>2, <2>1, <2>2
<1>11. ASSUME NEW c \in sendTo, Send(c)
       PROVE  Receipts'
  <2>1. /\ UNCHANGED <<connected, channels, deliveries, key>>
        /\ pc = "send" /\ c \in channels /\ <<key, c>> \notin deliveries
        /\ key \in DedupeKey /\ c \in Channel
    BY <1>11 DEF Send, tables, Locals
  <2>2. told[<<key, c>>] \in Nat /\ (key.account \in connected => told[<<key, c>>] <= lost)
    BY <2>1
  <2>3. \A k \in DedupeKey, d \in Channel : <<k, d>> # <<key, c>> => told'[<<k, d>>] = told[<<k, d>>]
    BY <1>11, <2>1 DEF Send
  <2>4. \/ lost' = lost /\ pc' = "record" /\ to' = c /\ told'[<<key, c>>] = told[<<key, c>>] + 1
        \/ lost' = lost + 1 /\ told'[<<key, c>>] \in {told[<<key, c>>], told[<<key, c>>] + 1}
    BY <1>11, <2>1 DEF Send, Fault, NoFault
  <2> SUFFICES ASSUME NEW k \in DedupeKey, NEW d \in Channel, k.account \in connected'
               PROVE  /\ told'[<<k, d>>] <= 1 + lost'
                      /\ d \in channels' /\ <<k, d>> \notin deliveries'
                           /\ ~(pc' = "record" /\ key' = k /\ to' = d)
                         => told'[<<k, d>>] <= lost'
    OBVIOUS
  <2>5. CASE k = key /\ d = c
    BY <1>1, <2>1, <2>2, <2>4, <2>5
  <2>6. CASE k # key \/ d # c
    <3>1. told'[<<k, d>>] = told[<<k, d>>] /\ told[<<k, d>>] \in Nat
      BY <2>3, <2>6
    <3>2. /\ told[<<k, d>>] <= 1 + lost
          /\ d \in channels /\ <<k, d>> \notin deliveries => told[<<k, d>>] <= lost
      BY <2>1
    <3> QED
      BY <1>1, <2>1, <2>4, <3>1, <3>2
  <2> QED
    BY <2>5, <2>6
<1> QED
  BY <1>3, <1>4, <1>5, <1>6, <1>7, <1>8, <1>9, <1>10, <1>11 DEF Next, Evaluate, Environment

LEMMA StepIInv == IInv /\ [Next]_vars => IInv'
<1> SUFFICES ASSUME IInv, [Next]_vars PROVE IInv'
  OBVIOUS
<1> QED
  BY TypeStep, LocalsStep, IdsStep, NotedStep, PendingStep, StoredStep, ReceiptsStep DEF IInv

LEMMA Invariant == Spec => []IInv
  BY InitIInv, StepIInv, PTL DEF Spec

-----------------------------------------------------------------------------
(* What a reader should know of *)

\* The activity evaluator keeps to its types.
THEOREM ActivitiesTypeOK == Spec => []TypeOK
<1>1. IInv => TypeOK
  BY DEF IInv
<1> QED
  BY <1>1, Invariant, PTL

\* Every step of the activity evaluator and of its surroundings is a statement
\* of the notification tables, or none.
THEOREM ActivitiesImplementStore == Spec => StoreSpec
<1>1. Init => NoRows
  BY DEF Init
<1>2. IInv /\ [Next]_vars => [Statement]_tables
  BY StatementStep DEF IInv
<1> QED
  BY <1>1, <1>2, Invariant, PTL DEF Spec, StoreSpec

\* So no alert, event, receipt or state outlives its account or its channel.
THEOREM ActivitiesIntegrity == Spec => []Integrity
  BY ActivitiesImplementStore, StoreIntegrity, PTL

\* ... and no receipt is lost while both remain.
THEOREM ActivitiesReceipts == Spec => ReceiptsAreKept
  BY ActivitiesImplementStore, StoreReceipts, PTL

\* A crash, a failed statement or a failed check-in at any point does not make
\* the platform be asked again before the attempt's row allows it.
THEOREM ActivitiesAttemptsApart == Spec => AttemptsApart
<1>1. IInv => [Attempt => Allowed(tried[<<account, Date(now)>>])]_vars
  BY DEF IInv, Pending, Attempt
<1> QED
  BY <1>1, Invariant, PTL DEF AttemptsApart

\* Messages about an activity are repeated only by faults of their delivery.
THEOREM ActivitiesToldOnce == Spec => []ToldOnce
<1>1. IInv => ToldOnce
  <2> SUFFICES ASSUME IInv, NEW t \in DOMAIN told, t[1].account \in connected
               PROVE  told[t] <= 1 + lost
    BY DEF ToldOnce
  <2>1. PICK k \in DedupeKey, c \in Channel : t = <<k, c>>
    BY DEF IInv, TypeOK
  <2> QED
    BY <2>1 DEF IInv, Receipts
<1> QED
  BY <1>1, Invariant, PTL

-----------------------------------------------------------------------------
(* The failure on the dashboard *)

\* A row is filed under its date, in one piece and with its account.
Filed == \A row \in states : /\ row.slot = Date(row.at) /\ row.status \in Status
                              /\ row.account \in connected

\* A failure is announced after a check-in that failed, and the alert of an
\* earlier one is still up after a success only as FailureIsRetracted allows.
Failures ==
    /\ \A k \in alerts : k.kind = "failed"
    /\ pc = "saveFailed" /\ account \in connected => ~tried[<<account, Date(now)>>].ok
    /\ pc = "emit" /\ key.kind = "failed" /\ key.account \in connected =>
          ~tried[<<key.account, key.date>>].ok
    /\ FailureIsRetracted

-----------------------------------------------------------------------------
(* Checked in every day *)

\* Nothing has gone wrong for a back-off, and a was connected all day.
Calm(a) == a \in connected /\ Date(since[a]) < Date(time) /\ troubled + Backoff <= time

\* The attempt at hand, whose row may still say "running".
AtHand(row) ==
    pc \in {"run", "saveFailed", "saveCompleted"} /\ row.account = account /\ row.at = now

\* An evaluation has read no later time than the present, and no attempt is
\* left running or failed but by a fault since.
Troubles ==
    /\ now <= time /\ troubled <= time
    /\ \A row \in states : row.status = "running" => troubled >= row.at \/ AtHand(row)
    /\ \A row \in states : row.status = "failed" => troubled >= row.at
    /\ pc = "saveFailed" /\ account \in connected => troubled >= now

\* A completed date is checked in, unless a user's midnight fell between.
Completions ==
    /\ pc = "saveCompleted" =>
          <<account, Date(now)>> \in claimed \/ Date(now) < Date(time)
    /\ \A row \in states : row.status = "completed" =>
          <<row.account, row.slot>> \in claimed \/ row.slot < Date(time)

\* An account that an evaluation of this tick has not checked in is still
\* before it; when it is over, there is none.
Scans ==
    /\ pc \notin {"idle", "list"} /\ now = time => \A a \in Account : Calm(a) =>
          \/ <<a, Date(time)>> \in claimed
          \/ a \in work
          \/ pc \in {"saveRunning", "run"} /\ a = account
    /\ scanned => \A a \in Account : Calm(a) => <<a, Date(time)>> \in claimed

\* A date does not end before an earlier one.
LEMMA DatesGrow ==
    ASSUME NEW s \in Time, NEW t \in Time, s <= t
    PROVE  Date(s) \in Int /\ Date(t) \in Int /\ Date(s) <= Date(t)
BY TimeAssumption DEF Date, Time

LEMMA Numbers ==
    ASSUME TypeOK
    PROVE  /\ time \in Int /\ now \in Int /\ troubled \in Int /\ faults \in Nat
           /\ \A a \in Account : since[a] \in Time
           /\ \A row \in states : row.account \in Account /\ row.at \in Time /\ row.status \in Status
<1>1. time \in Int /\ now \in Int /\ troubled \in Int /\ faults \in Nat
  BY TimeAssumption DEF TypeOK, Time
<1>2. \A a \in Account : since[a] \in Time
  BY DEF TypeOK
<1>3. \A row \in states : row \in [account : Account, slot : {Date(t) : t \in Time}, status : Status, at : Time]
  BY KeysAssumption DEF TypeOK, TablesTypeOK
<1>4. \A row \in states : row.account \in Account /\ row.at \in Time /\ row.status \in Status
  BY <1>3
<1> QED
  BY <1>1, <1>2, <1>4

\* A step meets one fault or none, and a fault is of the present.
LEMMA FaultsGrow ==
    ASSUME TypeOK, [Next]_vars, troubled <= time
    PROVE  \/ NoFault /\ faults' = faults /\ troubled' = troubled
           \/ Fault /\ faults' = faults + 1 /\ troubled' = time /\ time' = time
<1>1. NoFault \/ (Fault /\ time' = time)
  BY DEF Next, Evaluate, Environment, NoFault, Fault, Connect, Disconnect, ManualRun, CreateChannel, DeleteChannel, Tick,
     SaveConnectedAccount, DeleteConnectedAccount, SaveNotificationChannel, DeleteNotificationChannel,
     Abort, Return, Begin, ListActivities, NextActivity, Finish, SaveRunning, Run, SaveFailed, SaveCompleted,
     SaveAttempt, Retract, Emit, EmitDone, Record, SkipChannel, Send,
     DeleteAlert, SaveNotificationEventAndAlert, RecordNotificationDelivery, vars, tables, evaluation, history
<1> QED
  BY <1>1 DEF NoFault, Fault

\* What SaveAttempt does to the attempt rows.
LEMMA AttemptSaved ==
    ASSUME NEW status \in Status, NEW ok, NEW failed, SaveAttempt(status, ok, failed)
    PROVE  \/ /\ NoFault /\ account \in connected /\ pc' = ok
              /\ UNCHANGED <<connected, alerts>>
              /\ states' = {s \in states : ~SameSlot(s, AttemptRow(account, status, now))}
                              \union {AttemptRow(account, status, now)}
           \/ /\ Fault \/ (account \notin connected /\ NoFault)
              /\ UNCHANGED <<connected, alerts, states>> /\ pc' = failed
<1> DEFINE row == AttemptRow(account, status, now)
<1>1. row.account = account
  BY DEF AttemptRow
<1> HIDE DEF row
<1>2. \/ NoFault /\ SaveNotificationState(row) /\ pc' = ok
      \/ (Fault \/ (account \notin connected /\ NoFault)) /\ UNCHANGED tables /\ pc' = failed
  BY DEF SaveAttempt, row
<1>3. \/ /\ NoFault /\ account \in connected /\ pc' = ok
         /\ UNCHANGED <<connected, alerts>>
         /\ states' = {s \in states : ~SameSlot(s, row)} \union {row}
      \/ /\ Fault \/ (account \notin connected /\ NoFault)
         /\ UNCHANGED <<connected, alerts, states>> /\ pc' = failed
  <2>1. CASE NoFault /\ SaveNotificationState(row) /\ pc' = ok
    BY <1>1, <2>1 DEF SaveNotificationState
  <2>2. CASE (Fault \/ (account \notin connected /\ NoFault)) /\ UNCHANGED tables /\ pc' = failed
    <3>1. UNCHANGED <<connected, alerts, states>>
      BY <2>2 DEF tables
    <3> QED
      BY <2>2, <3>1
  <2> QED
    BY <1>2, <2>1, <2>2
<1> QED
  BY <1>3 DEF row

LEMMA AttemptRowFields ==
    \A a, status, t : /\ AttemptRow(a, status, t).account = a /\ AttemptRow(a, status, t).slot = Date(t)
                      /\ AttemptRow(a, status, t).status = status /\ AttemptRow(a, status, t).at = t
BY DEF AttemptRow

LEMMA FiledStep ==
    ASSUME TypeOK, Locals, Filed, [Next]_vars
    PROVE  Filed'
<1>1. ASSUME NEW a \in Account, Connect(a) PROVE Filed'
  BY <1>1 DEF Connect, SaveConnectedAccount, Filed
<1>2. ASSUME NEW a \in Account, Disconnect(a) PROVE Filed'
  BY <1>2 DEF Disconnect, DeleteConnectedAccount, Filed
<1>3. ASSUME \/ \E a \in Account : ManualRun(a)
             \/ \E c \in Channel : CreateChannel(c) \/ DeleteChannel(c)
             \/ Tick \/ EmitDone \/ Abort \/ Finish \/ Begin \/ ListActivities \/ UNCHANGED vars
             \/ \E a \in work : NextActivity(a)
             \/ \E c \in sendTo : SkipChannel(c) \/ Send(c)
             \/ Run \/ Retract \/ Emit \/ Record
      PROVE  Filed'
  <2>1. UNCHANGED <<connected, states>>
    BY <1>3 DEF ManualRun, CreateChannel, DeleteChannel, Tick, EmitDone, Abort, Finish, Begin,
       ListActivities, NextActivity, SkipChannel, Send, Run, Retract, Emit, Record,
       SaveNotificationChannel, DeleteNotificationChannel, DeleteAlert,
       SaveNotificationEventAndAlert, RecordNotificationDelivery, vars, tables
  <2> QED
    BY <2>1 DEF Filed
<1>4. ASSUME NEW status \in Status, NEW ok, NEW failed, SaveAttempt(status, ok, failed) PROVE Filed'
  <2> DEFINE new == AttemptRow(account, status, now)
  <2>1. \/ UNCHANGED <<connected, states>>
        \/ /\ account \in connected /\ connected' = connected
           /\ states' = {r \in states : ~SameSlot(r, new)} \union {new}
    BY <1>4, AttemptSaved
  <2>2. new.slot = Date(new.at) /\ new.status \in Status /\ new.account = account
    BY AttemptRowFields
  <2> HIDE DEF new
  <2> QED
    BY <2>1, <2>2 DEF Filed
<1> QED
  BY <1>1, <1>2, <1>3, <1>4 DEF Next, Evaluate, Environment, SaveRunning, SaveFailed, SaveCompleted, Status

LEMMA KeyFields ==
    \A a, kind, t : /\ EventKey(a, kind, t).account = a /\ EventKey(a, kind, t).kind = kind
                    /\ EventKey(a, kind, t).date = Date(t)
BY DEF EventKey

\* The failure alert goes up after a failure, and comes down after a success.
LEMMA FailuresStep ==
    ASSUME TypeOK, Locals, Ids, Failures, [Next]_vars
    PROVE  Failures'
<1> USE DEF Locals
<1>a. \A k \in alerts : k \in DedupeKey /\ k.account \in Account /\ k.date \in Dates
                        /\ (k.account = account /\ k.date = Date(now) => k = FailureAtHand)
  <2> SUFFICES ASSUME NEW k \in alerts
               PROVE  k \in DedupeKey /\ k.account \in Account /\ k.date \in Dates
                      /\ (k.account = account /\ k.date = Date(now) => k = FailureAtHand)
    OBVIOUS
  <2>1. k \in [account : Account, kind : {"failed", "completed"}, date : Dates] /\ k \in DedupeKey
    BY KeysAssumption DEF TypeOK, TablesTypeOK, Dates
  <2>2. k.kind = "failed"
    BY DEF Failures
  <2> QED
    BY <2>1, <2>2 DEF FailureAtHand, EventKey
\* Nothing is announced, and no check-in ends.
<1>1. ASSUME alerts' \subseteq alerts, stuck \subseteq stuck', tried' = tried,
             pc' = "saveFailed" /\ account' \in connected' => ~tried[<<account', Date(now')>>].ok,
             pc' = "emit" /\ key'.kind = "failed" /\ key'.account \in connected' =>
                ~tried[<<key'.account, key'.date>>].ok,
             pc \in {"saveCompleted", "retract"} /\ FailureAtHand \in alerts' =>
                \/ FailureAtHand \in stuck'
                \/ pc' \in {"saveCompleted", "retract"} /\ UNCHANGED <<account, now>>
      PROVE  Failures'
  <2>1. ASSUME pc' \in {"saveCompleted", "retract"}, UNCHANGED <<account, now>>
        PROVE  FailureAtHand' = FailureAtHand
    BY <2>1 DEF FailureAtHand
  <2>2. FailureIsRetracted'
    BY <1>1, <2>1 DEF Failures, FailureIsRetracted
  <2> QED
    BY <1>1, <2>2 DEF Failures
<1>2. ASSUME NEW a \in Account, Connect(a) PROVE Failures'
  <2>1. /\ connected' = connected \union {a} /\ a \notin used
        /\ UNCHANGED <<alerts, pc, account, now, key, tried, stuck>>
    BY <1>2 DEF Connect, SaveConnectedAccount, evaluation
  <2> QED
    BY <1>1, <2>1 DEF Failures
<1>3. ASSUME NEW a \in Account, Disconnect(a) PROVE Failures'
  <2>1. /\ connected' = connected \ {a} /\ alerts' \subseteq alerts
        /\ UNCHANGED <<pc, account, now, key, tried, stuck>>
    BY <1>3 DEF Disconnect, DeleteConnectedAccount, evaluation, history
  <2> QED
    BY <1>1, <2>1 DEF Failures
<1>4. ASSUME \/ \E a \in Account : ManualRun(a)
             \/ \E c \in Channel : CreateChannel(c) \/ DeleteChannel(c)
             \/ Tick \/ UNCHANGED vars
      PROVE  Failures'
  <2>1. UNCHANGED <<connected, alerts, pc, account, now, key, tried, stuck>>
    BY <1>4 DEF ManualRun, CreateChannel, DeleteChannel, Tick, SaveNotificationChannel,
       DeleteNotificationChannel, vars, tables, evaluation, history
  <2> QED
    BY <1>1, <2>1 DEF Failures
<1>5. ASSUME \/ Finish \/ Begin \/ ListActivities \/ EmitDone \/ SaveRunning
             \/ \E a \in work : NextActivity(a)
             \/ Record \/ \E c \in sendTo : SkipChannel(c) \/ Send(c)
      PROVE  Failures'
  <2>1. /\ UNCHANGED <<connected, alerts, tried, stuck>>
        /\ pc \notin {"saveCompleted", "retract"} /\ pc' \notin {"saveFailed", "emit"}
    BY <1>5 DEF Finish, Return, Begin, ListActivities, EmitDone, SaveRunning, SaveAttempt,
       SaveNotificationState, NextActivity, Record, SkipChannel, Send, RecordNotificationDelivery, tables, history
  <2> QED
    BY <1>1, <2>1
<1>6. CASE Abort
  <2>1. /\ UNCHANGED <<connected, alerts, tried>> /\ pc' = "idle"
        /\ stuck' = IF pc \in {"saveCompleted", "retract"} THEN StuckAlerts ELSE stuck
    BY <1>6 DEF Abort, Return, tables
  <2> QED
    BY <1>1, <2>1 DEF StuckAlerts
<1>7. ASSUME account \in Account, NEW ok, NEW saved, Try(ok, saved)
      PROVE  /\ tried'[<<account, Date(now)>>].ok = ok
             /\ \A k \in alerts : k # FailureAtHand =>
                   tried'[<<k.account, k.date>>] = tried[<<k.account, k.date>>]
  BY <1>a, <1>7 DEF Try, TypeOK, Dates
<1>8. CASE Run
  <2>1. /\ pc = "run" /\ UNCHANGED <<connected, alerts, account, now, stuck>> /\ account \in Account
        /\ \/ pc' = "saveCompleted" /\ Try(TRUE, "none")
           \/ pc' = "saveFailed" /\ Try(FALSE, "none")
           \/ pc' = "saveFailed" /\ account \notin connected /\ UNCHANGED tried
    BY <1>8 DEF Run, tables, evaluation
  <2>2. FailureAtHand' = FailureAtHand
    BY <2>1 DEF FailureAtHand
  <2>3. CASE pc' = "saveCompleted" /\ Try(TRUE, "none")
    <3>1. FailureIsRetracted'
      BY <1>7, <2>1, <2>2, <2>3 DEF Failures, FailureIsRetracted
    <3> QED
      BY <2>1, <2>3, <3>1 DEF Failures
  <2>4. CASE pc' = "saveFailed" /\ Try(FALSE, "none")
    <3>1. ~tried'[<<account', Date(now')>>].ok
      BY <1>7, <2>1, <2>4
    <3>2. \A k \in alerts : k = FailureAtHand => k.account = account /\ k.date = Date(now)
      BY KeyFields DEF FailureAtHand
    <3>3. FailureIsRetracted'
      BY <1>7, <2>1, <2>4, <3>1, <3>2 DEF Failures, FailureIsRetracted
    <3> QED
      BY <2>1, <2>4, <3>1, <3>3 DEF Failures
  <2>5. CASE pc' = "saveFailed" /\ account \notin connected /\ UNCHANGED tried
    BY <1>1, <2>1, <2>5
  <2> QED
    BY <2>1, <2>3, <2>4, <2>5
<1>9. CASE SaveFailed
  <2>1. /\ pc = "saveFailed" /\ pc' = "emit" /\ UNCHANGED <<connected, alerts, account, now, stuck>>
        /\ account \in Account /\ key' = EventKey(account, "failed", now)
        /\ UNCHANGED tried \/ Try(FALSE, "failed")
    BY <1>9, AttemptSaved DEF SaveFailed, SaveAttempt, Status
  <2>2. key'.account = account /\ key'.date = Date(now)
    BY <2>1, KeyFields
  <2>3. CASE UNCHANGED tried
    BY <1>1, <2>1, <2>2, <2>3 DEF Failures
  <2>4. CASE Try(FALSE, "failed")
    <3>1. ~tried'[<<account, Date(now)>>].ok
      BY <1>7, <2>1, <2>4
    <3>2. \A k \in alerts : k = FailureAtHand => k.account = account /\ k.date = Date(now)
      BY KeyFields DEF FailureAtHand
    <3>3. FailureIsRetracted'
      BY <1>7, <2>1, <2>4, <3>1, <3>2 DEF Failures, FailureIsRetracted
    <3> QED
      BY <2>1, <2>2, <3>1, <3>3 DEF Failures
  <2> QED
    BY <2>1, <2>3, <2>4
<1>10. CASE SaveCompleted
  <2>1. /\ pc = "saveCompleted" /\ pc' = "retract" /\ account \in Account
        /\ UNCHANGED <<connected, alerts, account, now, key, stuck>>
        /\ UNCHANGED tried \/ Try(TRUE, "completed")
    BY <1>10, AttemptSaved DEF SaveCompleted, SaveAttempt, Status, evaluation
  <2>2. FailureAtHand' = FailureAtHand
    BY <2>1 DEF FailureAtHand
  <2>3. CASE UNCHANGED tried
    BY <1>1, <2>1, <2>3
  <2>4. CASE Try(TRUE, "completed")
    <3>1. FailureIsRetracted'
      BY <1>7, <2>1, <2>2, <2>4 DEF Failures, FailureIsRetracted
    <3> QED
      BY <2>1, <3>1 DEF Failures
  <2> QED
    BY <2>1, <2>3, <2>4
<1>11. CASE Retract
  <2>1. /\ pc = "retract" /\ pc' = "emit" /\ UNCHANGED <<connected, tried>> /\ key'.kind = "completed"
        /\ \/ alerts' = alerts \ {FailureAtHand} /\ UNCHANGED stuck
           \/ UNCHANGED alerts /\ stuck' = StuckAlerts
    BY <1>11, KeyFields DEF Retract, DeleteAlert, tables
  <2> QED
    BY <1>1, <2>1 DEF StuckAlerts
<1>12. CASE Emit
  <2>1. /\ pc = "emit" /\ pc' \in {"send", "next"} /\ UNCHANGED <<connected, tried, stuck>>
        /\ \/ alerts' \subseteq alerts
           \/ /\ alerts' = alerts \union {key} /\ key.kind = "failed" /\ key.account \in connected
    BY <1>12 DEF Emit, SaveNotificationEventAndAlert, tables
  <2>2. CASE alerts' \subseteq alerts
    BY <1>1, <2>1, <2>2
  <2>3. CASE alerts' = alerts \union {key} /\ key.kind = "failed" /\ key.account \in connected
    <3>1. ~tried[<<key.account, key.date>>].ok
      BY <2>1, <2>3 DEF Failures
    <3> QED
      BY <2>1, <2>3, <3>1 DEF Failures, FailureIsRetracted
  <2> QED
    BY <2>1, <2>2, <2>3
<1> QED
  BY <1>2, <1>3, <1>4, <1>5, <1>6, <1>8, <1>9, <1>10, <1>11, <1>12 DEF Next, Evaluate, Environment

\* A fault leaves no account calm.
LEMMA FaultIsNotCalm ==
    ASSUME TypeOK, Fault, time' = time
    PROVE  ~(troubled' + Backoff <= time')
BY TimeAssumption DEF TypeOK, Time, Fault

\* A row that is running or failed has seen a fault.
LEMMA TroublesStep ==
    ASSUME TypeOK, Locals, Ids, Filed, Troubles, [Next]_vars
    PROVE  Troubles'
<1> USE DEF Locals
<1>a. /\ time \in Int /\ now \in Int /\ troubled \in Int
      /\ time' \in Int /\ now' \in Int /\ troubled' \in Int
      /\ \A row \in states : row.at \in Int
  <2>1. TypeOK'
    BY TypeStep
  <2>2. time \in Int /\ now \in Int /\ troubled \in Int /\ \A row \in states : row.at \in Int
    BY Numbers, TimeAssumption DEF Time
  <2>3. time' \in Int /\ now' \in Int /\ troubled' \in Int
    BY <2>1, TimeAssumption DEF TypeOK, Time
  <2> QED
    BY <2>2, <2>3
<1>b. /\ now <= time /\ troubled <= time
      /\ \/ NoFault /\ troubled' = troubled
         \/ Fault /\ troubled' = time /\ time' = time
  BY FaultsGrow DEF Troubles
\* No row is written.
<1>1. ASSUME states' \subseteq states, time <= time', now' <= time',
             \A row \in states : row.status = "running" /\ AtHand(row) =>
                \/ troubled' >= row.at
                \/ /\ pc' \in {"run", "saveFailed", "saveCompleted"}
                   /\ UNCHANGED <<account, now>>,
             pc' = "saveFailed" /\ account' \in connected' => troubled' >= now'
      PROVE  Troubles'
  <2>1. troubled <= troubled' /\ troubled' <= time'
    BY <1>a, <1>b, <1>1
  <2>2. ASSUME NEW row \in states', row.status = "running"
        PROVE  troubled' >= row.at \/ AtHand(row)'
    BY <1>a, <1>1, <2>1, <2>2 DEF Troubles, AtHand
  <2>3. \A row \in states' : row.status = "failed" => troubled' >= row.at
    BY <1>a, <1>1, <2>1 DEF Troubles
  <2> QED
    BY <1>1, <2>1, <2>2, <2>3 DEF Troubles
<1>2. ASSUME \/ \E a \in Account : Connect(a) \/ Disconnect(a) \/ ManualRun(a)
             \/ \E c \in Channel : CreateChannel(c) \/ DeleteChannel(c)
             \/ Tick \/ UNCHANGED vars
      PROVE  Troubles'
  <2>1. /\ UNCHANGED <<pc, account, now, troubled>> /\ states' \subseteq states
        /\ time' = time \/ time' = time + 1
        /\ \/ connected' \subseteq connected
           \/ \E a \in Account \ used : connected' = connected \union {a}
    BY <1>2 DEF Connect, Disconnect, ManualRun, CreateChannel, DeleteChannel, Tick,
       SaveConnectedAccount, DeleteConnectedAccount, SaveNotificationChannel,
       DeleteNotificationChannel, vars, tables, evaluation, history
  <2>2. pc = "saveFailed" /\ account \in connected' => account \in connected
    BY <2>1
  <2> QED
    BY <1>1, <1>a, <1>b, <2>1, <2>2 DEF Troubles, AtHand
<1>3. ASSUME Abort \/ Finish
      PROVE  Troubles'
  <2>1. /\ UNCHANGED <<states, time>> /\ now' = 0 /\ pc' = "idle"
        /\ Fault \/ pc = "next"
    BY <1>3 DEF Abort, Finish, Return, tables
  <2>2. time >= 0
    BY TimeAssumption DEF TypeOK, Time
  <2> QED
    BY <1>1, <1>a, <1>b, <2>1, <2>2 DEF AtHand, Fault
<1>4. ASSUME \/ Begin \/ ListActivities \/ EmitDone \/ Record \/ Retract \/ Emit
             \/ \E a \in work : NextActivity(a)
             \/ \E c \in sendTo : SkipChannel(c) \/ Send(c)
      PROVE  Troubles'
  <2>1. /\ pc \notin {"run", "saveFailed", "saveCompleted"} /\ pc' # "saveFailed"
        /\ UNCHANGED <<states, time>> /\ now' \in {now, time}
    BY <1>4 DEF Begin, ListActivities, EmitDone, Record, Retract, Emit, NextActivity, SkipChannel, Send,
       RecordNotificationDelivery, DeleteAlert, SaveNotificationEventAndAlert, tables, evaluation
  <2> QED
    BY <1>1, <1>a, <1>b, <2>1 DEF AtHand
<1>5. ASSUME SaveRunning
      PROVE  Troubles'
  <2>1. /\ pc = "saveRunning" /\ UNCHANGED <<account, now, time>>
        /\ SaveAttempt("running", "run", "next")
    BY <1>5 DEF SaveRunning, evaluation
  <2>2. CASE UNCHANGED states /\ pc' = "next"
    BY <1>1, <1>a, <1>b, <2>1, <2>2 DEF AtHand
  <2>3. CASE ~(UNCHANGED states /\ pc' = "next")
    <3> DEFINE new == AttemptRow(account, "running", now)
    <3>1. /\ NoFault /\ pc' = "run"
          /\ states' = {r \in states : ~SameSlot(r, new)} \union {new}
      BY <2>1, <2>3, AttemptSaved DEF Status
    <3>2. new.account = account /\ new.status = "running" /\ new.at = now
      BY AttemptRowFields
    <3> HIDE DEF new
    <3>3. \A row \in states' : row \in states \/ row = new
      BY <3>1
    <3>4. pc' = "run" /\ new.account = account' /\ new.at = now'
      BY <2>1, <3>1, <3>2
    <3>5. UNCHANGED <<troubled, time, now>>
      BY <2>1, <3>1 DEF NoFault
    <3>6. \A row \in states : row.status = "running" => troubled >= row.at
      BY <2>1 DEF Troubles, AtHand
    <3> QED
      BY <1>b, <3>2, <3>3, <3>4, <3>5, <3>6 DEF Troubles, AtHand
  <2> QED
    BY <2>2, <2>3
<1>6. ASSUME Run
      PROVE  Troubles'
  <2>1. /\ pc = "run" /\ pc' \in {"saveCompleted", "saveFailed"}
        /\ UNCHANGED <<connected, states, time, account, now>>
        /\ pc' = "saveFailed" /\ account \in connected => Fault
    BY <1>6 DEF Run, tables, evaluation
  <2> QED
    BY <1>1, <1>a, <1>b, <2>1 DEF Fault
<1>7. ASSUME NEW status \in {"failed", "completed"}, NEW next \in {"emit", "retract"},
             SaveAttempt(status, next, next), UNCHANGED <<account, now, time>>,
             status = "failed" => pc = "saveFailed"
      PROVE  Troubles'
  <2>1. CASE Fault
    <3>1. UNCHANGED states /\ pc' = next
      BY <1>7, <2>1 DEF SaveAttempt, NoFault, Fault, tables
    <3> QED
      BY <1>1, <1>7, <1>a, <1>b, <2>1, <3>1 DEF AtHand, Fault
  <2>2. CASE UNCHANGED states /\ account \notin connected
    BY <1>1, <1>7, <1>a, <1>b, <2>2 DEF AtHand, Filed, SaveAttempt
  <2>3. CASE ~Fault /\ ~(UNCHANGED states /\ account \notin connected)
    <3> DEFINE new == AttemptRow(account, status, now)
    <3>1. /\ NoFault /\ pc' = next /\ account \in connected
          /\ states' = {r \in states : ~SameSlot(r, new)} \union {new}
      BY <1>7, <2>3, AttemptSaved DEF Status
    <3>2. /\ new.account = account /\ new.slot = Date(now)
          /\ new.status = status /\ new.at = now
      BY AttemptRowFields
    <3> HIDE DEF new
    <3>3. \A row \in states' : row = new \/ (row \in states /\ ~AtHand(row))
      BY <3>1, <3>2 DEF SameSlot, AtHand, Filed
    <3>4. UNCHANGED <<troubled, time, now>>
      BY <1>7, <3>1 DEF NoFault
    <3>5. status = "failed" => troubled >= now
      BY <1>7, <3>1 DEF Troubles
    <3> QED
      BY <1>7, <1>b, <3>1, <3>2, <3>3, <3>4, <3>5 DEF Troubles
  <2> QED
    BY <2>1, <2>2, <2>3
<1>8. ASSUME SaveFailed \/ SaveCompleted
      PROVE  Troubles'
  BY <1>7, <1>8 DEF SaveFailed, SaveCompleted, evaluation
<1> QED
  BY <1>2, <1>3, <1>4, <1>5, <1>6, <1>8 DEF Next, Evaluate, Environment

\* What is completed is checked in.
LEMMA CompletionsStep ==
    ASSUME TypeOK, Locals, Filed, Troubles, Completions, [Next]_vars
    PROVE  Completions'
<1>a. /\ time \in Time /\ now \in Time /\ time' \in Time /\ time <= time'
      /\ \A row \in states : row.at \in Time /\ row.slot = Date(row.at)
  <2>1. TypeOK'
    BY TypeStep
  <2>2. time' = time \/ time' = time + 1
    BY DEF Next, Evaluate, Environment, Connect, Disconnect, ManualRun, CreateChannel, DeleteChannel, Tick,
     SaveConnectedAccount, DeleteConnectedAccount, SaveNotificationChannel, DeleteNotificationChannel,
     Abort, Return, Begin, ListActivities, NextActivity, Finish, SaveRunning, Run, SaveFailed, SaveCompleted,
     SaveAttempt, Retract, Emit, EmitDone, Record, SkipChannel, Send,
     DeleteAlert, SaveNotificationEventAndAlert, RecordNotificationDelivery, vars, tables, evaluation, history
  <2>3. time \in Int
    BY Numbers
  <2> QED
    BY <2>1, <2>2, <2>3, Numbers DEF TypeOK, Filed
<1>b. /\ Date(time) \in Int /\ Date(time') \in Int /\ Date(time) <= Date(time')
      /\ Date(now) \in Int /\ Date(now) <= Date(time)
      /\ \A row \in states : row.slot \in Int
  <2>1. Date(time) \in Int /\ Date(time') \in Int /\ Date(time) <= Date(time')
    BY <1>a, DatesGrow
  <2>2. Date(now) \in Int /\ Date(now) <= Date(time)
    BY <1>a, DatesGrow DEF Troubles
  <2>3. \A t \in Time : t <= t
    BY TimeAssumption DEF Time
  <2>4. \A row \in states : row.slot \in Int
    BY <1>a, <2>3, DatesGrow
  <2> QED
    BY <2>1, <2>2, <2>4
\* No row is written, no check-in answered.
<1>1. ASSUME states' \subseteq states, claimed \subseteq claimed',
             pc' = "saveCompleted" => UNCHANGED <<pc, account, now>>
      PROVE  Completions'
  BY <1>1, <1>b DEF Completions
<1>2. ASSUME \/ \E a \in Account : Connect(a) \/ Disconnect(a) \/ ManualRun(a)
             \/ \E c \in Channel : CreateChannel(c) \/ DeleteChannel(c)
             \/ Tick \/ Abort \/ Finish \/ UNCHANGED vars
             \/ Begin \/ ListActivities \/ EmitDone \/ Record \/ Retract \/ Emit
             \/ \E a \in work : NextActivity(a)
             \/ \E c \in sendTo : SkipChannel(c) \/ Send(c)
      PROVE  Completions'
  <2>1. states' \subseteq states
    BY <1>2 DEF Connect, Disconnect, ManualRun, CreateChannel, DeleteChannel, Tick,
     SaveConnectedAccount, DeleteConnectedAccount, SaveNotificationChannel, DeleteNotificationChannel,
     Abort, Return, Begin, ListActivities, NextActivity, Finish, SaveRunning, Run, SaveFailed, SaveCompleted,
     SaveAttempt, Retract, Emit, EmitDone, Record, SkipChannel, Send,
     DeleteAlert, SaveNotificationEventAndAlert, RecordNotificationDelivery, vars, tables, evaluation, history
  <2>2. claimed \subseteq claimed'
    BY <1>2 DEF Connect, Disconnect, ManualRun, CreateChannel, DeleteChannel, Tick,
     SaveConnectedAccount, DeleteConnectedAccount, SaveNotificationChannel, DeleteNotificationChannel,
     Abort, Return, Begin, ListActivities, NextActivity, Finish, SaveRunning, Run, SaveFailed, SaveCompleted,
     SaveAttempt, Retract, Emit, EmitDone, Record, SkipChannel, Send,
     DeleteAlert, SaveNotificationEventAndAlert, RecordNotificationDelivery, vars, tables, evaluation, history
  <2>3. pc' = "saveCompleted" => UNCHANGED <<pc, account, now>>
    BY <1>2 DEF Connect, Disconnect, ManualRun, CreateChannel, DeleteChannel, Tick,
     SaveConnectedAccount, DeleteConnectedAccount, SaveNotificationChannel, DeleteNotificationChannel,
     Abort, Return, Begin, ListActivities, NextActivity, Finish, SaveRunning, Run, SaveFailed, SaveCompleted,
     SaveAttempt, Retract, Emit, EmitDone, Record, SkipChannel, Send,
     DeleteAlert, SaveNotificationEventAndAlert, RecordNotificationDelivery, vars, tables, evaluation, history
  <2> QED
    BY <1>1, <2>1, <2>2, <2>3
<1>3. ASSUME Run
      PROVE  Completions'
  <2>1. /\ UNCHANGED <<states, account, now, time>> /\ claimed \subseteq claimed'
        /\ pc' = "saveCompleted" => <<account, Date(time)>> \in claimed'
    BY <1>3 DEF Run, tables, evaluation
  <2> QED
    BY <1>b, <2>1 DEF Completions
<1>4. ASSUME NEW status \in Status, NEW ok, NEW failed, SaveAttempt(status, ok, failed),
             UNCHANGED <<account, now, time, claimed>>, pc' # "saveCompleted",
             status = "completed" => pc = "saveCompleted"
      PROVE  Completions'
  <2>1. CASE UNCHANGED states
    BY <1>1, <1>4, <2>1
  <2>2. CASE ~UNCHANGED states
    <3> DEFINE new == AttemptRow(account, status, now)
    <3>1. states' = {r \in states : ~SameSlot(r, new)} \union {new}
      BY <1>4, <2>2, AttemptSaved
    <3>2. new.account = account /\ new.slot = Date(now) /\ new.status = status
      BY AttemptRowFields
    <3> HIDE DEF new
    <3> QED
      BY <1>4, <3>1, <3>2 DEF Completions
  <2> QED
    BY <2>1, <2>2
<1>5. ASSUME SaveRunning
      PROVE  Completions'
  <2>1. SaveAttempt("running", "run", "next") /\ UNCHANGED <<account, now, time, claimed>>
    BY <1>5 DEF SaveRunning, evaluation
  <2>2. pc' # "saveCompleted"
    BY <2>1 DEF SaveAttempt
  <2> QED
    BY <1>4, <2>1, <2>2 DEF Status
<1>6. ASSUME SaveFailed
      PROVE  Completions'
  <2>1. SaveAttempt("failed", "emit", "emit") /\ UNCHANGED <<account, now, time, claimed>>
    BY <1>6 DEF SaveFailed
  <2>2. pc' # "saveCompleted"
    BY <2>1 DEF SaveAttempt
  <2> QED
    BY <1>4, <2>1, <2>2 DEF Status
<1>7. ASSUME SaveCompleted
      PROVE  Completions'
  <2>1. /\ SaveAttempt("completed", "retract", "retract") /\ pc = "saveCompleted"
        /\ UNCHANGED <<account, now, time, claimed>>
    BY <1>7 DEF SaveCompleted, evaluation
  <2>2. pc' # "saveCompleted"
    BY <2>1 DEF SaveAttempt
  <2> QED
    BY <1>4, <2>1, <2>2 DEF Status
<1> QED
  BY <1>2, <1>3, <1>5, <1>6, <1>7 DEF Next, Evaluate, Environment

\* An attempt whose row forbids another one is completed, or a fault is recent.
LEMMA NotReady ==
    ASSUME TypeOK, Filed, Troubles, pc = "next", now = time,
           NEW row \in states, ~Ready(row), troubled + Backoff <= time
    PROVE  row.status = "completed"
<1>1. /\ time \in Int /\ troubled \in Int /\ row.at \in Int
      /\ Backoff \in Int /\ RunningLimit \in Int /\ RunningLimit <= Backoff
  BY Numbers, TimeAssumption DEF Time
<1>2. row.status \in {"running", "failed", "completed"}
  BY DEF Filed, Status
<1>3. row.status # "completed" => troubled >= row.at
  BY <1>2 DEF Troubles, AtHand
<1> QED
  BY <1>1, <1>2, <1>3 DEF Ready

\* What is listed is checked in.
LEMMA ScansStep ==
    ASSUME TypeOK, Locals, Filed, Troubles, Completions, Scans, [Next]_vars
    PROVE  Scans'
<1>a. /\ time \in Int /\ now \in Int /\ now <= time /\ troubled <= time
      /\ \A d : ~(Date(time) < Date(time))
      /\ (NoFault /\ troubled' = troubled) \/ (Fault /\ time' = time)
  <2>1. Date(time) \in Int
    <3>1. time \in Time /\ time <= time
      BY TimeAssumption DEF TypeOK, Time
    <3> QED
      BY <3>1, DatesGrow
  <2> QED
    BY <2>1, Numbers, FaultsGrow DEF Troubles
\* Nothing that lies before the account at hand has changed.
<1>1. ASSUME UNCHANGED <<time, since, troubled>>, connected' \subseteq connected,
             claimed \subseteq claimed'
      PROVE  \A a \in Account : /\ Calm(a)' => Calm(a)
                                /\ <<a, Date(time)>> \in claimed => <<a, Date(time')>> \in claimed'
  BY <1>1 DEF Calm
<1>2. ASSUME Fault, time' = time
      PROVE  Scans'
  <2>1. ~(troubled' + Backoff <= time')
    BY <1>2, FaultIsNotCalm
  <2> QED
    BY <2>1 DEF Scans, Calm
<1>3. ASSUME NEW a0 \in Account, Connect(a0)
      PROVE  Scans'
  <2>1. /\ UNCHANGED <<time, claimed, pc, now, work, account, scanned, troubled>>
        /\ since' = [since EXCEPT ![a0] = time] /\ connected' = connected \union {a0}
    BY <1>3 DEF Connect, SaveConnectedAccount, evaluation
  <2>2. ASSUME NEW a \in Account, Calm(a)'
        PROVE  Calm(a)
    <3>1. since'[a] = IF a = a0 THEN time ELSE since[a]
      BY <2>1 DEF TypeOK
    <3> QED
      BY <1>a, <2>1, <2>2, <3>1 DEF Calm
  <2> QED
    BY <2>1, <2>2 DEF Scans
<1>4. ASSUME \/ \E a \in Account : Disconnect(a) \/ ManualRun(a)
             \/ \E c \in Channel : CreateChannel(c) \/ DeleteChannel(c)
             \/ UNCHANGED vars
      PROVE  Scans'
  <2>1. /\ UNCHANGED <<time, since, troubled, pc, now, work, account, scanned>>
        /\ connected' \subseteq connected /\ claimed \subseteq claimed'
    BY <1>4 DEF Disconnect, ManualRun, CreateChannel, DeleteChannel, DeleteConnectedAccount,
       SaveNotificationChannel, DeleteNotificationChannel, vars, tables, evaluation, history
  <2> QED
    BY <1>1, <2>1 DEF Scans
<1>5. ASSUME Tick
      PROVE  Scans'
  BY <1>5, <1>a DEF Tick, Scans, evaluation
<1>6. ASSUME Abort
      PROVE  Scans'
  BY <1>2, <1>6 DEF Abort
<1>7. ASSUME Begin
      PROVE  Scans'
  <2>1. /\ UNCHANGED <<time, since, troubled, connected, claimed, scanned>> /\ pc' = "list"
    BY <1>7 DEF Begin, tables, history
  <2> QED
    BY <1>1, <2>1 DEF Scans
<1>8. ASSUME ListActivities
      PROVE  Scans'
  <2>1. CASE Fault
    BY <1>2, <1>8, <2>1 DEF ListActivities
  <2>2. CASE ~Fault
    <3>1. /\ UNCHANGED <<time, since, troubled, connected, claimed, scanned>>
          /\ work' = {a \in connected : <<a, Date(time)>> \notin claimed}
      BY <1>8, <2>2 DEF ListActivities, NoFault, tables
    <3> QED
      BY <1>1, <3>1 DEF Scans, Calm
  <2> QED
    BY <2>1, <2>2
<1>9. ASSUME NEW a0 \in work, NextActivity(a0)
      PROVE  Scans'
  <2>1. /\ pc = "next" /\ work' = work \ {a0}
        /\ UNCHANGED <<time, since, connected, claimed, scanned, now>>
    BY <1>9 DEF NextActivity, tables
  <2>2. CASE Fault
    BY <1>2, <2>1, <2>2
  <2>3. CASE NoFault /\ account' = a0 /\ pc' = "saveRunning"
    BY <1>1, <2>1, <2>3 DEF Scans, NoFault
  <2>4. CASE /\ NoFault /\ UNCHANGED <<account, pc>>
             /\ \E row \in states : row.account = a0 /\ row.slot = Date(now) /\ ~Ready(row)
    <3>1. PICK row \in states : row.account = a0 /\ row.slot = Date(now) /\ ~Ready(row)
      BY <2>4
    <3>2. ASSUME now = time, Calm(a0)
          PROVE  <<a0, Date(time)>> \in claimed
      <4>1. row.status = "completed"
        BY <2>1, <3>1, <3>2, NotReady DEF Calm
      <4> QED
        BY <1>a, <3>1, <3>2, <4>1 DEF Completions
    <3>3. UNCHANGED troubled
      BY <2>4 DEF NoFault
    <3> QED
      BY <1>1, <2>1, <2>4, <3>2, <3>3 DEF Scans
  <2> QED
    BY <1>9, <2>2, <2>3, <2>4 DEF NextActivity
<1>10. ASSUME Finish
       PROVE  Scans'
  <2>1. /\ UNCHANGED <<time, since, troubled, connected, claimed>> /\ pc = "next" /\ pc' = "idle"
        /\ work = {} /\ scanned' = (scanned \/ now = time)
    BY <1>10 DEF Finish, Return, tables, history
  <2> QED
    BY <1>1, <2>1 DEF Scans
<1>11. ASSUME SaveRunning
       PROVE  Scans'
  <2>1. /\ UNCHANGED <<time, since, claimed, scanned, now, work, account>> /\ pc = "saveRunning"
        /\ SaveAttempt("running", "run", "next")
    BY <1>11 DEF SaveRunning, evaluation
  <2>2. CASE Fault
    BY <1>2, <2>1, <2>2
  <2>3. CASE ~Fault
    <3>1. UNCHANGED <<troubled, connected>>
      BY <2>1, <2>3, AttemptSaved DEF Status, NoFault
    <3>2. pc' = "run" \/ (pc' = "next" /\ account \notin connected)
      BY <2>1, <2>3, AttemptSaved DEF Status
    <3> QED
      BY <1>1, <2>1, <3>1, <3>2 DEF Scans, Calm
  <2> QED
    BY <2>2, <2>3
<1>12. ASSUME Run
       PROVE  Scans'
  <2>1. /\ UNCHANGED <<time, since, connected, scanned, now, work, account>> /\ pc = "run"
        /\ claimed \subseteq claimed'
    BY <1>12 DEF Run, tables, evaluation
  <2>2. CASE Fault
    BY <1>2, <2>1, <2>2
  <2>3. CASE ~Fault
    <3>1. /\ UNCHANGED troubled
          /\ <<account, Date(time)>> \in claimed' \/ account \notin connected
      BY <1>12, <2>3 DEF Run, NoFault
    <3> QED
      BY <1>1, <2>1, <3>1 DEF Scans, Calm
  <2> QED
    BY <2>2, <2>3
<1>13. ASSUME \/ SaveFailed \/ SaveCompleted \/ Retract \/ Emit \/ EmitDone \/ Record
              \/ \E c \in sendTo : SkipChannel(c) \/ Send(c)
       PROVE  Scans'
  <2>1. /\ UNCHANGED <<time, since, connected, claimed, scanned, now, work, account>>
        /\ pc \notin {"idle", "list", "saveRunning", "run"}
    BY <1>13 DEF SaveFailed, SaveCompleted, SaveAttempt, SaveNotificationState, Retract, DeleteAlert, Emit,
       SaveNotificationEventAndAlert, EmitDone, Record, RecordNotificationDelivery, SkipChannel, Send,
       tables, evaluation, history
  <2>2. CASE Fault
    BY <1>2, <2>1, <2>2
  <2>3. CASE ~Fault
    <3>1. UNCHANGED troubled
      BY <1>a, <2>3
    <3> QED
      BY <1>1, <2>1, <3>1 DEF Scans
  <2> QED
    BY <2>2, <2>3
<1> QED
  BY <1>3, <1>4, <1>5, <1>6, <1>7, <1>8, <1>9, <1>10, <1>11, <1>12, <1>13
     DEF Next, Evaluate, Environment

DInv == IInv /\ Filed /\ Failures /\ Troubles /\ Completions /\ Scans

LEMMA DayInvariant == Spec => []DInv
<1>1. Init => Filed /\ Failures /\ Troubles /\ Completions /\ Scans
  BY DEF Init, NoRows, Filed, Failures, FailureIsRetracted, Troubles, Completions, Scans
<1>2. DInv /\ [Next]_vars => (Filed /\ Failures /\ Troubles /\ Completions /\ Scans)'
  BY FiledStep, FailuresStep, TroublesStep, CompletionsStep, ScansStep DEF DInv, IInv, Troubles
<1>3. DInv /\ [Next]_vars => DInv'
  BY <1>2, StepIInv DEF DInv
<1>4. Init => DInv
  BY <1>1, InitIInv DEF DInv
<1> QED
  BY <1>3, <1>4, PTL DEF Spec

\* The evaluation that checks an account in takes the alert of an earlier
\* failure of that date back, whatever failed or died before, and even when the
\* success cannot be noted: only its own crash, or the failure of the withdrawal
\* itself, leaves the alert.
THEOREM ActivitiesFailureIsRetracted == Spec => []FailureIsRetracted
<1>1. DInv => FailureIsRetracted
  BY DEF DInv, Failures
<1> QED
  BY <1>1, DayInvariant, PTL

\* A day does not end before every account that was connected all day is checked
\* in, if the last fault is a back-off ago, however the evaluations, the users
\* and the faults before it were interleaved.
THEOREM ActivitiesCheckedInEveryDay == Spec => CheckedInEveryDay
<1>1. ASSUME DInv, [Next]_vars, Date(time') # Date(time), NEW a \in connected,
             Date(since[a]) < Date(time), troubled + Backoff <= time
      PROVE  <<a, Date(time)>> \in claimed
  <2>1. time' # time
    BY <1>1
  <2>2. Tick
    BY <1>1, <2>1 DEF Next, Evaluate, Environment, Connect, Disconnect, ManualRun, CreateChannel, DeleteChannel, Tick,
     SaveConnectedAccount, DeleteConnectedAccount, SaveNotificationChannel, DeleteNotificationChannel,
     Abort, Return, Begin, ListActivities, NextActivity, Finish, SaveRunning, Run, SaveFailed, SaveCompleted,
     SaveAttempt, Retract, Emit, EmitDone, Record, SkipChannel, Send,
     DeleteAlert, SaveNotificationEventAndAlert, RecordNotificationDelivery, vars, tables, evaluation, history
  <2>3. a \in Account
    BY <1>1 DEF DInv, IInv, TypeOK, TablesTypeOK
  <2> QED
    BY <1>1, <2>2, <2>3 DEF DInv, Scans, Calm, Tick
<1>2. DInv /\ [Next]_vars =>
        [Date(time') # Date(time) =>
            \A a \in connected : /\ Date(since[a]) < Date(time)
                                 /\ troubled + Backoff <= time
                                 => <<a, Date(time)>> \in claimed]_vars
  BY <1>1
<1> QED
  BY <1>2, DayInvariant, PTL DEF Spec, CheckedInEveryDay
=============================================================================
