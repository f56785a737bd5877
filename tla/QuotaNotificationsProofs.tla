---------------------- MODULE QuotaNotificationsProofs ----------------------
(***************************************************************************)
(* For any accounts, channels, windows, bounds and any number of faults:   *)
(* the state of the evaluator is well typed, every quota alert belongs to  *)
(* an active state and goes only for a cause, nobody is told twice unless  *)
(* a delivery failed, a new drop is announced as a new one, and the        *)
(* evaluator implements NotificationStore.                                 *)
(***************************************************************************)
EXTENDS QuotaNotifications, TLAPS

-----------------------------------------------------------------------------
(* The inductive invariant *)

\* Where the evaluator is at work on an account, a signal, a key, an old key.
HasJob == pc \notin {"idle", "channels", "accounts"}
HasKey == pc \in {"lowSave", "resetReplace", "resetSave", "emit", "send", "record"}
HasOld == pc \in {"lowWithdraw", "lowClear", "resetWithdraw", "resetClear", "resetReplace",
                  "staleWithdraw", "staleDelete"}
HasSig == HasJob /\ pc \notin {"signals", "stale", "staleWithdraw", "staleDelete"}
HasStale == pc \in {"stale", "staleWithdraw", "staleDelete"}

\* What the evaluator holds when it needs it, and the ids it may hold: every
\* id it knows was handed out, so an account deleted since never comes back.
Locals ==
    /\ connected \subseteq used
    /\ \A j \in work : j.account \in used
    /\ HasJob => job.account \in Account /\ job.account \in used
    /\ HasSig => sig \in Signal
    /\ HasKey => key \in Key /\ key.account = job.account
    /\ HasOld => old \in Key
    /\ pc = "record" => to \in Channel

\* An alert has its event, through which the deletion of its account finds it;
\* a slot holds one row, of a connected account.
Rows ==
    /\ alerts \subseteq events
    /\ \A k \in states : k.account \in connected
    /\ \A k, l \in states : SameSlot(k, l) => k = l

Quiet(k) == \A l \in alerts : ~SameSlot(l, k)
Only(k) == \A l \in states : SameSlot(l, k) => l = k

\* Between the statements of the evaluator: a key to be announced is the row
\* of its slot, a key to be withdrawn is the only one its slot can hold, and
\* a slot is overwritten or cleared only after its alert is gone.
InFlight ==
    /\ pc = "emit" /\ key.account \in connected => key \in states
    /\ pc \in {"lowWithdraw", "resetWithdraw", "resetReplace", "staleWithdraw"} => Only(old)
    /\ pc \in {"lowClear", "resetClear", "staleDelete"} => Quiet(old)
    /\ pc \in {"lowSave", "resetSave"} => Quiet(key)
    /\ pc = "resetReplace" => SameSlot(old, key)
    /\ HasStale => \A k \in stale : Only(k)

IInv == TypeOK /\ Locals /\ Rows /\ InFlight /\ AlertHasOwner

-----------------------------------------------------------------------------
(* Lemmas on signals and keys *)

\* A report is a set of signals.
LEMMA ReportsAreSignals == \A report \in Reports : report \subseteq Signal
BY DEF Reports

\* Reminders are due at three days, at one day, or not at all.
LEMMA ReminderDaysType == \A s, t : ReminderDays(s, t) \in {0, 1, 3}
BY DEF ReminderDays

\* The keys the evaluator builds are keys.
LEMMA KeysAreKeys ==
    ASSUME NEW a \in Account, NEW s \in Signal
    PROVE  /\ \A n \in 1 .. MaxStamp : LowKey(a, s, n) \in Key
           /\ \A n \in {1, 3} : ResetKey(a, s, n) \in Key
<1>1. Identity(s) \in Identities
  BY DEF Identity, Identities, Signal, Offset
<1>2. /\ <<"low", Identity(s)>> \in Slot
      /\ <<"reset", Identity(s)>> \in Slot
  BY <1>1 DEF Slot
<1> QED
  BY <1>2 DEF LowKey, ResetKey, Key

-----------------------------------------------------------------------------
(* The initial state *)

LEMMA InitIInv == Init => IInv
<1> SUFFICES ASSUME Init PROVE IInv
  OBVIOUS
<1>1. TypeOK
  BY DEF Init, TypeOK, NoJob
<1>2. Locals /\ Rows /\ InFlight /\ AlertHasOwner
  BY DEF Init, Locals, Rows, InFlight, AlertHasOwner, HasJob, HasKey, HasOld, HasSig, HasStale
<1> QED
  BY <1>1, <1>2 DEF IInv

-----------------------------------------------------------------------------
(* One step, conjunct by conjunct *)

\* Types of the tables, of the world, of the evaluator's variables.
LEMMA TypeStep == IInv /\ [Next]_vars => TypeOK'
<1> SUFFICES ASSUME IInv, [Next]_vars
             PROVE  TypeOK'
  OBVIOUS
<1> USE DEF IInv, TypeOK, tables, world, snapshot, history
<1>1. ASSUME NEW a \in Account, SaveAccount(a)
      PROVE  TypeOK'
  BY <1>1, ReportsAreSignals DEF SaveAccount
<1>2. ASSUME NEW a \in Account, DeleteAccount(a)
      PROVE  TypeOK'
  BY <1>2 DEF DeleteAccount
<1>3. ASSUME NEW c \in Channel, CreateChannel(c)
      PROVE  TypeOK'
  BY <1>3 DEF CreateChannel
<1>4. ASSUME NEW c \in Channel, DeleteChannel(c)
      PROVE  TypeOK'
  BY <1>4 DEF DeleteChannel
<1>5. ASSUME DayPasses
      PROVE  TypeOK'
  BY <1>5 DEF DayPasses
<1>6. ASSUME Abort
      PROVE  TypeOK'
  BY <1>6 DEF Abort, Fault, Return, NoJob
<1>7. ASSUME Begin
      PROVE  TypeOK'
  BY <1>7 DEF Begin
<1>8. ASSUME ReadChannels
      PROVE  TypeOK'
  BY <1>8 DEF ReadChannels
<1>9. ASSUME NextAccount
      PROVE  TypeOK'
  BY <1>9 DEF NextAccount
<1>10. ASSUME Finish
       PROVE  TypeOK'
  BY <1>10 DEF Finish, Return, NoJob
<1>11. ASSUME NEW s \in left, CheckLowQuota(s)
       PROVE  TypeOK'
  <2>1. s \in Signal /\ job.account \in Account
    BY <1>11 DEF CheckLowQuota, Locals, HasJob
  <2>2. pc' \in {"reset", "lowWithdraw", "emit", "lowSave"} /\ faults' \in [delivering : Nat, elsewhere : Nat]
    BY <1>11 DEF CheckLowQuota, Fault, NoFault
  <2>3. old' \in Key \union {None}
    BY <1>11 DEF CheckLowQuota, Active
  <2>4. stamp' \in Nat /\ key' \in Key \union {None}
    <3>1. CASE UNCHANGED stamp
      BY <1>11, <3>1 DEF CheckLowQuota, Active
    <3>2. CASE stamp < MaxStamp /\ stamp' = stamp + 1 /\ key' = LowKey(job.account, s, stamp')
      <4>1. stamp' \in 1 .. MaxStamp
        BY <3>2, BoundsAssumption
      <4> QED
        BY <2>1, <3>2, <4>1, KeysAreKeys
    <3> QED
      BY <1>11, <3>1, <3>2 DEF CheckLowQuota
  <2>5. told' \in [Account \X Window \X Topic \X Channel -> Nat]
    BY <1>11 DEF CheckLowQuota
  <2>6. seen' \in [Account \X Window -> Resets \union {None}]
    BY <1>11, <2>1 DEF CheckLowQuota, Signal
  <2>7. UNCHANGED <<tables, world, snapshot, sendTo, to, stale>> /\ left' \subseteq Signal /\ sig' \in Signal
    BY <1>11, <2>1 DEF CheckLowQuota
  <2> QED
    BY <2>2, <2>3, <2>4, <2>5, <2>6, <2>7
<1>12. ASSUME CheckResetReminder
       PROVE  TypeOK'
  BY <1>12, KeysAreKeys, ReminderDaysType
     DEF CheckResetReminder, Fault, NoFault, Active, Locals, HasJob, HasSig
<1>13. ASSUME LowWithdraw \/ ResetWithdraw \/ ResetReplace \/ StaleWithdraw
       PROVE  TypeOK'
  BY <1>13 DEF LowWithdraw, ResetWithdraw, ResetReplace, StaleWithdraw, Withdraw, Fault, NoFault
<1>14. ASSUME LowClear \/ ResetClear \/ StaleDelete
       PROVE  TypeOK'
  BY <1>14 DEF LowClear, ResetClear, StaleDelete, ClearState, Fault, NoFault
<1>15. ASSUME LowSave \/ ResetSave
       PROVE  TypeOK'
  BY <1>15 DEF LowSave, ResetSave, ActivateState, Fault, NoFault, Locals, HasKey
<1>16. ASSUME Emit
       PROVE  TypeOK'
  BY <1>16 DEF Emit, AfterEmit, Fault, NoFault, Locals, HasKey
<1>17. ASSUME EmitDone
       PROVE  TypeOK'
  BY <1>17 DEF EmitDone, AfterEmit
<1>18. ASSUME Record
       PROVE  TypeOK'
  BY <1>18 DEF Record, Fault, NoFault, Locals, HasKey
<1>19. ASSUME NEW c \in sendTo, SkipChannel(c)
       PROVE  TypeOK'
  BY <1>19 DEF SkipChannel, Fault, NoFault
<1>20. ASSUME NEW c \in sendTo, Send(c)
       PROVE  TypeOK'
  <2>1. told' \in [Account \X Window \X Topic \X Channel -> Nat]
    <3> DEFINE t == <<job.account, sig.window, TopicOfKey, c>>
    <3>1. told' = told \/ told' = [told EXCEPT ![t] = @ + 1]
      BY <1>20 DEF Send
    <3> QED
      BY <3>1
  <2>2. pc' \in {"send", "record"} /\ faults' \in [delivering : Nat, elsewhere : Nat] /\ to' \in Channel \union {None} /\ sendTo' \subseteq Channel
    BY <1>20 DEF Send, Fault, NoFault
  <2> QED
    BY <1>20, <2>1, <2>2 DEF Send
<1>21. ASSUME ReadStates
       PROVE  TypeOK'
  <2>1. told' \in [Account \X Window \X Topic \X Channel -> Nat]
    <3> DEFINE D == Account \X Window \X Topic \X Channel
    <3>1. CASE UNCHANGED told
      BY <3>1
    <3>2. CASE ~UNCHANGED told
      <4>1. DOMAIN told' = D /\ \A t \in D : told'[t] = 0 \/ told'[t] = told[t]
        BY <1>21, <3>2 DEF ReadStates
      <4>2. told' = [t \in D |-> told'[t]]
        BY <1>21, <3>2 DEF ReadStates
      <4> QED
        BY <4>1, <4>2
    <3> QED
      BY <3>1, <3>2
  <2>2. seen' \in [Account \X Window -> Resets \union {None}]
    BY <1>21 DEF ReadStates
  <2>3. stale' \subseteq Key /\ pc' \in {"stale", "accounts"} /\ faults' \in [delivering : Nat, elsewhere : Nat]
    BY <1>21 DEF ReadStates, Fault, NoFault
  <2> QED
    BY <1>21, <2>1, <2>2, <2>3 DEF ReadStates
<1>22. ASSUME NextStale
       PROVE  TypeOK'
  BY <1>22 DEF NextStale
<1>23. ASSUME Reconciled
       PROVE  TypeOK'
  BY <1>23 DEF Reconciled
<1>24. CASE UNCHANGED vars
  BY <1>24 DEF vars
<1> QED
  BY <1>1, <1>2, <1>3, <1>4, <1>5, <1>6, <1>7, <1>8, <1>9, <1>10, <1>11, <1>12, <1>13, <1>14,
     <1>15, <1>16, <1>17, <1>18, <1>19, <1>20, <1>21, <1>22, <1>23, <1>24
     DEF Next, Evaluate, Environment

\* Held values and ids: what the evaluator will need is there when it gets there.
LEMMA LocalsStep == IInv /\ [Next]_vars => Locals'
<1> SUFFICES ASSUME IInv, [Next]_vars
             PROVE  Locals'
  OBVIOUS
<1> USE DEF IInv, TypeOK, Locals, HasJob, HasSig, HasKey, HasOld, tables, world, snapshot, history
<1>1. ASSUME NEW a \in Account, SaveAccount(a)
      PROVE  Locals'
  BY <1>1 DEF SaveAccount
<1>2. ASSUME NEW a \in Account, DeleteAccount(a)
      PROVE  Locals'
  BY <1>2 DEF DeleteAccount
<1>3. ASSUME NEW c \in Channel, CreateChannel(c)
      PROVE  Locals'
  BY <1>3 DEF CreateChannel
<1>4. ASSUME NEW c \in Channel, DeleteChannel(c)
      PROVE  Locals'
  BY <1>4 DEF DeleteChannel
<1>5. ASSUME DayPasses
      PROVE  Locals'
  BY <1>5 DEF DayPasses
<1>6. ASSUME Abort
      PROVE  Locals'
  BY <1>6 DEF Abort, Return
<1>7. ASSUME Begin
      PROVE  Locals'
  BY <1>7 DEF Begin
<1>8. ASSUME ReadChannels
      PROVE  Locals'
  BY <1>8 DEF ReadChannels
<1>9. ASSUME NextAccount
      PROVE  Locals'
  BY <1>9 DEF NextAccount
<1>10. ASSUME Finish
       PROVE  Locals'
  BY <1>10 DEF Finish, Return
<1>11. ASSUME NEW s \in left, CheckLowQuota(s)
       PROVE  Locals'
  <2>1. s \in Signal /\ job.account \in Account
    BY <1>11 DEF CheckLowQuota
  <2>2. pc' \in {"reset", "lowWithdraw", "emit", "lowSave"} /\ sig' = s
    BY <1>11 DEF CheckLowQuota
  <2>3. pc' = "lowWithdraw" => old' \in Key
    BY <1>11 DEF CheckLowQuota, Active
  <2>4. pc' = "emit" => key' \in Key /\ key'.account = job.account
    BY <1>11 DEF CheckLowQuota, Active
  <2>5. pc' = "lowSave" => key' \in Key /\ key'.account = job.account
    <3> SUFFICES ASSUME pc' = "lowSave"
                 PROVE  key' \in Key /\ key'.account = job.account
      OBVIOUS
    <3>1. stamp < MaxStamp /\ stamp' = stamp + 1 /\ key' = LowKey(job.account, s, stamp')
      BY <1>11 DEF CheckLowQuota
    <3>2. stamp' \in 1 .. MaxStamp
      BY <3>1, BoundsAssumption
    <3> QED
      BY <2>1, <3>1, <3>2, KeysAreKeys DEF LowKey
  <2> QED
    BY <1>11, <2>1, <2>2, <2>3, <2>4, <2>5 DEF CheckLowQuota
<1>12. ASSUME CheckResetReminder
       PROVE  Locals'
  <2> DEFINE new == ResetKey(job.account, sig, ReminderDays(sig, today))
  <2>1. sig \in Signal /\ job.account \in Account /\ new.account = job.account
    BY <1>12 DEF CheckResetReminder, ResetKey
  <2>2. pc' \in {"signals", "resetWithdraw", "resetSave", "emit", "resetReplace"}
    BY <1>12 DEF CheckResetReminder
  <2>3. pc' \in {"resetWithdraw", "resetReplace"} => old' \in Key
    BY <1>12 DEF CheckResetReminder, Active
  <2>4. pc' \in {"resetSave", "emit", "resetReplace"} => key' = new /\ ReminderDays(sig, today) # 0
    BY <1>12 DEF CheckResetReminder
  <2>5. ReminderDays(sig, today) # 0 => new \in Key
    BY <2>1, KeysAreKeys, ReminderDaysType
  <2> HIDE DEF new
  <2> QED
    BY <1>12, <2>1, <2>2, <2>3, <2>4, <2>5 DEF CheckResetReminder
<1>13. ASSUME LowWithdraw \/ ResetWithdraw \/ ResetReplace \/ StaleWithdraw
       PROVE  Locals'
  BY <1>13 DEF LowWithdraw, ResetWithdraw, ResetReplace, StaleWithdraw, Withdraw
<1>14. ASSUME LowClear \/ ResetClear \/ StaleDelete
       PROVE  Locals'
  BY <1>14 DEF LowClear, ResetClear, StaleDelete, ClearState
<1>15. ASSUME LowSave \/ ResetSave
       PROVE  Locals'
  BY <1>15 DEF LowSave, ResetSave, ActivateState
<1>16. ASSUME Emit
       PROVE  Locals'
  BY <1>16 DEF Emit, AfterEmit
<1>17. ASSUME EmitDone
       PROVE  Locals'
  BY <1>17 DEF EmitDone, AfterEmit
<1>18. ASSUME Record
       PROVE  Locals'
  BY <1>18 DEF Record
<1>19. ASSUME NEW c \in sendTo, SkipChannel(c)
       PROVE  Locals'
  BY <1>19 DEF SkipChannel
<1>20. ASSUME NEW c \in sendTo, Send(c)
       PROVE  Locals'
  BY <1>20 DEF Send
<1>21. ASSUME ReadStates
       PROVE  Locals'
  BY <1>21 DEF ReadStates
<1>22. ASSUME NextStale
       PROVE  Locals'
  BY <1>22 DEF NextStale
<1>23. ASSUME Reconciled
       PROVE  Locals'
  BY <1>23 DEF Reconciled
<1>24. CASE UNCHANGED vars
  BY <1>24 DEF vars
<1> QED
  BY <1>1, <1>2, <1>3, <1>4, <1>5, <1>6, <1>7, <1>8, <1>9, <1>10, <1>11, <1>12, <1>13, <1>14,
     <1>15, <1>16, <1>17, <1>18, <1>19, <1>20, <1>21, <1>22, <1>23, <1>24
     DEF Next, Evaluate, Environment

\* Alerts, events and states.
LEMMA RowsStep == IInv /\ [Next]_vars => Rows'
<1> SUFFICES ASSUME IInv, [Next]_vars
             PROVE  Rows'
  OBVIOUS
<1> USE DEF IInv, TypeOK, Rows, tables, world, snapshot, history, SameSlot
<1>1. ASSUME NEW a \in Account, SaveAccount(a)
      PROVE  Rows'
  BY <1>1 DEF SaveAccount
<1>2. ASSUME NEW a \in Account, DeleteAccount(a)
      PROVE  Rows'
  BY <1>2 DEF DeleteAccount
<1>3. ASSUME NEW c \in Channel, CreateChannel(c)
      PROVE  Rows'
  BY <1>3 DEF CreateChannel
<1>4. ASSUME NEW c \in Channel, DeleteChannel(c)
      PROVE  Rows'
  BY <1>4 DEF DeleteChannel
<1>5. ASSUME DayPasses
      PROVE  Rows'
  BY <1>5 DEF DayPasses
<1>6. ASSUME Abort
      PROVE  Rows'
  BY <1>6 DEF Abort, Return
<1>7. ASSUME Begin
      PROVE  Rows'
  BY <1>7 DEF Begin
<1>8. ASSUME ReadChannels
      PROVE  Rows'
  BY <1>8 DEF ReadChannels
<1>9. ASSUME NextAccount
      PROVE  Rows'
  BY <1>9 DEF NextAccount
<1>10. ASSUME Finish
       PROVE  Rows'
  BY <1>10 DEF Finish, Return
<1>11. ASSUME NEW s \in left, CheckLowQuota(s)
       PROVE  Rows'
  BY <1>11 DEF CheckLowQuota
<1>12. ASSUME CheckResetReminder
       PROVE  Rows'
  BY <1>12 DEF CheckResetReminder
<1>13. ASSUME LowWithdraw \/ ResetWithdraw \/ ResetReplace \/ StaleWithdraw
       PROVE  Rows'
  BY <1>13 DEF LowWithdraw, ResetWithdraw, ResetReplace, StaleWithdraw, Withdraw
<1>14. ASSUME LowClear \/ ResetClear \/ StaleDelete
       PROVE  Rows'
  BY <1>14 DEF LowClear, ResetClear, StaleDelete, ClearState
<1>15. ASSUME LowSave \/ ResetSave
       PROVE  Rows'
  BY <1>15 DEF LowSave, ResetSave, ActivateState
<1>16. ASSUME Emit
       PROVE  Rows'
  BY <1>16 DEF Emit, AfterEmit
<1>17. ASSUME EmitDone
       PROVE  Rows'
  BY <1>17 DEF EmitDone, AfterEmit
<1>18. ASSUME Record
       PROVE  Rows'
  BY <1>18 DEF Record
<1>19. ASSUME NEW c \in sendTo, SkipChannel(c)
       PROVE  Rows'
  BY <1>19 DEF SkipChannel
<1>20. ASSUME NEW c \in sendTo, Send(c)
       PROVE  Rows'
  BY <1>20 DEF Send
<1>21. ASSUME ReadStates
       PROVE  Rows'
  BY <1>21 DEF ReadStates
<1>22. ASSUME NextStale
       PROVE  Rows'
  BY <1>22 DEF NextStale
<1>23. ASSUME Reconciled
       PROVE  Rows'
  BY <1>23 DEF Reconciled
<1>24. CASE UNCHANGED vars
  BY <1>24 DEF vars
<1> QED
  BY <1>1, <1>2, <1>3, <1>4, <1>5, <1>6, <1>7, <1>8, <1>9, <1>10, <1>11, <1>12, <1>13, <1>14,
     <1>15, <1>16, <1>17, <1>18, <1>19, <1>20, <1>21, <1>22, <1>23, <1>24
     DEF Next, Evaluate, Environment

\* A statement that removes a state comes after the one that removed its alert;
\* an alert is stored only for a key whose state is.
LEMMA OwnerStep == IInv /\ [Next]_vars => AlertHasOwner'
<1> SUFFICES ASSUME IInv, [Next]_vars
             PROVE  AlertHasOwner'
  OBVIOUS
<1> USE DEF IInv, Locals, Rows, AlertHasOwner, InFlight, Quiet, Only, tables, world, snapshot, history, SameSlot
<1>1. ASSUME NEW a \in Account, SaveAccount(a)
      PROVE  AlertHasOwner'
  BY <1>1 DEF SaveAccount
<1>2. ASSUME NEW a \in Account, DeleteAccount(a)
      PROVE  AlertHasOwner'
  BY <1>2 DEF DeleteAccount
<1>3. ASSUME NEW c \in Channel, CreateChannel(c)
      PROVE  AlertHasOwner'
  BY <1>3 DEF CreateChannel
<1>4. ASSUME NEW c \in Channel, DeleteChannel(c)
      PROVE  AlertHasOwner'
  BY <1>4 DEF DeleteChannel
<1>5. ASSUME DayPasses
      PROVE  AlertHasOwner'
  BY <1>5 DEF DayPasses
<1>6. ASSUME Abort
      PROVE  AlertHasOwner'
  BY <1>6 DEF Abort, Return
<1>7. ASSUME Begin
      PROVE  AlertHasOwner'
  BY <1>7 DEF Begin
<1>8. ASSUME ReadChannels
      PROVE  AlertHasOwner'
  BY <1>8 DEF ReadChannels
<1>9. ASSUME NextAccount
      PROVE  AlertHasOwner'
  BY <1>9 DEF NextAccount
<1>10. ASSUME Finish
       PROVE  AlertHasOwner'
  BY <1>10 DEF Finish, Return
<1>11. ASSUME NEW s \in left, CheckLowQuota(s)
       PROVE  AlertHasOwner'
  BY <1>11 DEF CheckLowQuota
<1>12. ASSUME CheckResetReminder
       PROVE  AlertHasOwner'
  BY <1>12 DEF CheckResetReminder
<1>13. ASSUME LowWithdraw \/ ResetWithdraw \/ ResetReplace \/ StaleWithdraw
       PROVE  AlertHasOwner'
  BY <1>13 DEF LowWithdraw, ResetWithdraw, ResetReplace, StaleWithdraw, Withdraw
<1>14. ASSUME LowClear \/ ResetClear \/ StaleDelete
       PROVE  AlertHasOwner'
  BY <1>14 DEF LowClear, ResetClear, StaleDelete, ClearState
<1>15. ASSUME LowSave \/ ResetSave
       PROVE  AlertHasOwner'
  BY <1>15 DEF LowSave, ResetSave, ActivateState
<1>16. ASSUME Emit
       PROVE  AlertHasOwner'
  BY <1>16 DEF Emit, AfterEmit, HasKey, HasJob
<1>17. ASSUME EmitDone
       PROVE  AlertHasOwner'
  BY <1>17 DEF EmitDone, AfterEmit
<1>18. ASSUME Record
       PROVE  AlertHasOwner'
  BY <1>18 DEF Record
<1>19. ASSUME NEW c \in sendTo, SkipChannel(c)
       PROVE  AlertHasOwner'
  BY <1>19 DEF SkipChannel
<1>20. ASSUME NEW c \in sendTo, Send(c)
       PROVE  AlertHasOwner'
  BY <1>20 DEF Send
<1>21. ASSUME ReadStates
       PROVE  AlertHasOwner'
  BY <1>21 DEF ReadStates
<1>22. ASSUME NextStale
       PROVE  AlertHasOwner'
  BY <1>22 DEF NextStale
<1>23. ASSUME Reconciled
       PROVE  AlertHasOwner'
  BY <1>23 DEF Reconciled
<1>24. CASE UNCHANGED vars
  BY <1>24 DEF vars
<1> QED
  BY <1>1, <1>2, <1>3, <1>4, <1>5, <1>6, <1>7, <1>8, <1>9, <1>10, <1>11, <1>12, <1>13, <1>14,
     <1>15, <1>16, <1>17, <1>18, <1>19, <1>20, <1>21, <1>22, <1>23, <1>24
     DEF Next, Evaluate, Environment

\* Between two statements of the evaluator, whatever happens around it.
LEMMA InFlightStep == IInv /\ [Next]_vars => InFlight'
<1> SUFFICES ASSUME IInv, [Next]_vars
             PROVE  InFlight'
  OBVIOUS
<1> USE DEF IInv, TypeOK, Rows, Locals, AlertHasOwner, InFlight, HasJob, HasSig, HasKey, HasOld, HasStale, Quiet, Only, tables, world, snapshot, history, SameSlot
<1>1. ASSUME NEW a \in Account, SaveAccount(a)
      PROVE  InFlight'
  BY <1>1 DEF SaveAccount
<1>2. ASSUME NEW a \in Account, DeleteAccount(a)
      PROVE  InFlight'
  BY <1>2 DEF DeleteAccount
<1>3. ASSUME NEW c \in Channel, CreateChannel(c)
      PROVE  InFlight'
  BY <1>3 DEF CreateChannel
<1>4. ASSUME NEW c \in Channel, DeleteChannel(c)
      PROVE  InFlight'
  BY <1>4 DEF DeleteChannel
<1>5. ASSUME DayPasses
      PROVE  InFlight'
  BY <1>5 DEF DayPasses
<1>6. ASSUME Abort
      PROVE  InFlight'
  BY <1>6 DEF Abort, Return
<1>7. ASSUME Begin
      PROVE  InFlight'
  BY <1>7 DEF Begin
<1>8. ASSUME ReadChannels
      PROVE  InFlight'
  BY <1>8 DEF ReadChannels
<1>9. ASSUME NextAccount
      PROVE  InFlight'
  BY <1>9 DEF NextAccount
<1>10. ASSUME Finish
       PROVE  InFlight'
  BY <1>10 DEF Finish, Return
<1>11. ASSUME NEW s \in left, CheckLowQuota(s)
       PROVE  InFlight'
  BY <1>11 DEF CheckLowQuota, Active, LowKey
<1>12. ASSUME CheckResetReminder
       PROVE  InFlight'
  BY <1>12 DEF CheckResetReminder, Active, ResetKey
<1>13. ASSUME LowWithdraw \/ ResetWithdraw \/ ResetReplace \/ StaleWithdraw
       PROVE  InFlight'
  BY <1>13 DEF LowWithdraw, ResetWithdraw, ResetReplace, StaleWithdraw, Withdraw
<1>14. ASSUME LowClear \/ ResetClear \/ StaleDelete
       PROVE  InFlight'
  BY <1>14 DEF LowClear, ResetClear, StaleDelete, ClearState
<1>15. ASSUME LowSave \/ ResetSave
       PROVE  InFlight'
  BY <1>15 DEF LowSave, ResetSave, ActivateState
<1>16. ASSUME Emit
       PROVE  InFlight'
  BY <1>16 DEF Emit, AfterEmit
<1>17. ASSUME EmitDone
       PROVE  InFlight'
  BY <1>17 DEF EmitDone, AfterEmit
<1>18. ASSUME Record
       PROVE  InFlight'
  BY <1>18 DEF Record
<1>19. ASSUME NEW c \in sendTo, SkipChannel(c)
       PROVE  InFlight'
  BY <1>19 DEF SkipChannel
<1>20. ASSUME NEW c \in sendTo, Send(c)
       PROVE  InFlight'
  BY <1>20 DEF Send
<1>21. ASSUME ReadStates
       PROVE  InFlight'
  BY <1>21 DEF ReadStates
<1>22. ASSUME NextStale
       PROVE  InFlight'
  BY <1>22 DEF NextStale
<1>23. ASSUME Reconciled
       PROVE  InFlight'
  BY <1>23 DEF Reconciled
<1>24. CASE UNCHANGED vars
  BY <1>24 DEF vars
<1> QED
  BY <1>1, <1>2, <1>3, <1>4, <1>5, <1>6, <1>7, <1>8, <1>9, <1>10, <1>11, <1>12, <1>13, <1>14,
     <1>15, <1>16, <1>17, <1>18, <1>19, <1>20, <1>21, <1>22, <1>23, <1>24
     DEF Next, Evaluate, Environment

-----------------------------------------------------------------------------
(* The theorems *)

LEMMA Invariance == Spec => []IInv
<1>1. IInv /\ [Next]_vars => IInv'
  BY TypeStep, LocalsStep, RowsStep, OwnerStep, InFlightStep DEF IInv
<1>2. QED
  BY InitIInv, <1>1, PTL DEF Spec

\* The evaluator's state, and what it writes, stay within their types.
THEOREM QuotaTypeOK == Spec => []TypeOK
<1>1. IInv => TypeOK
  BY DEF IInv
<1>2. QED
  BY <1>1, Invariance, PTL

\* evaluateLowQuota, evaluateResetReminder and reconcileSignalStates never
\* leave a quota alert behind that no state remembers, however many of their
\* statements fail and wherever the process dies.
THEOREM QuotaAlertHasOwner == Spec => []AlertHasOwner
<1>1. IInv => AlertHasOwner
  BY DEF IInv
<1>2. QED
  BY <1>1, Invariance, PTL

-----------------------------------------------------------------------------
(* The evaluator implements the store *)

LEMMA StoreInit == Init => Store!NoRows
BY DEF Init, Store!NoRows

\* Each step is one statement, or changes no table.
LEMMA StoreStep == IInv /\ [Next]_vars => [Store!Statement]_(Store!tables)
<1> SUFFICES ASSUME IInv, [Next]_vars
             PROVE  Store!Statement \/ UNCHANGED Store!tables
  OBVIOUS
<1> USE DEF tables, Store!tables
<1>1. ASSUME NEW a \in Account, SaveAccount(a)
      PROVE  Store!SaveConnectedAccount(a)
  BY <1>1 DEF SaveAccount, Store!SaveConnectedAccount
<1>2. ASSUME NEW a \in Account, DeleteAccount(a)
      PROVE  Store!DeleteConnectedAccount(a)
  BY <1>2 DEF DeleteAccount, Store!DeleteConnectedAccount
<1>3. ASSUME NEW c \in Channel, CreateChannel(c)
      PROVE  Store!SaveNotificationChannel(c)
  BY <1>3 DEF CreateChannel, Store!SaveNotificationChannel
<1>4. ASSUME NEW c \in Channel, DeleteChannel(c)
      PROVE  Store!DeleteNotificationChannel(c)
  BY <1>4 DEF DeleteChannel, Store!DeleteNotificationChannel
<1>5. ASSUME LowWithdraw \/ ResetWithdraw \/ ResetReplace \/ StaleWithdraw
      PROVE  Store!Statement \/ UNCHANGED Store!tables
  <2>1. old \in Key
    BY <1>5 DEF IInv, Locals, HasOld, LowWithdraw, ResetWithdraw, ResetReplace, StaleWithdraw, Withdraw
  <2>2. Store!DeleteAlert(old) \/ UNCHANGED Store!tables
    BY <1>5 DEF LowWithdraw, ResetWithdraw, ResetReplace, StaleWithdraw, Withdraw, Store!DeleteAlert
  <2> QED
    BY <2>1, <2>2 DEF Store!Statement
<1>6. ASSUME LowClear \/ ResetClear \/ StaleDelete
      PROVE  Store!Statement \/ UNCHANGED Store!tables
  <2>1. old \in Key
    BY <1>6 DEF IInv, Locals, HasOld, LowClear, ResetClear, StaleDelete, ClearState
  <2>2. Store!DeleteNotificationState(old) \/ UNCHANGED Store!tables
    BY <1>6 DEF LowClear, ResetClear, StaleDelete, ClearState, Store!DeleteNotificationState,
                SameSlot, Store!SameSlot
  <2> QED
    BY <2>1, <2>2 DEF Store!Statement
<1>7. ASSUME LowSave \/ ResetSave
      PROVE  Store!Statement \/ UNCHANGED Store!tables
  <2>1. key \in Key
    BY <1>7 DEF IInv, Locals, HasKey, LowSave, ResetSave, ActivateState
  <2>2. Store!SaveNotificationState(key) \/ UNCHANGED Store!tables
    BY <1>7 DEF LowSave, ResetSave, ActivateState, Store!SaveNotificationState,
                SameSlot, Store!SameSlot
  <2> QED
    BY <2>1, <2>2 DEF Store!Statement
<1>8. ASSUME Emit
      PROVE  Store!Statement \/ UNCHANGED Store!tables
  <2>1. key \in Key
    BY <1>8 DEF IInv, Locals, HasKey, Emit
  <2>2. Store!SaveNotificationEventAndAlert(key, TRUE) \/ UNCHANGED Store!tables
    BY <1>8 DEF Emit, Store!SaveNotificationEventAndAlert
  <2> QED
    BY <2>1, <2>2 DEF Store!Statement
<1>9. ASSUME Record
      PROVE  Store!Statement \/ UNCHANGED Store!tables
  <2>1. key \in Key /\ to \in Channel
    BY <1>9 DEF IInv, Locals, HasKey, Record
  <2>2. Store!RecordNotificationDelivery(key, to) \/ UNCHANGED Store!tables
    BY <1>9 DEF Record, Store!RecordNotificationDelivery
  <2> QED
    BY <2>1, <2>2 DEF Store!Statement
<1>10. CASE UNCHANGED vars
  BY <1>10 DEF vars
<1>11. ASSUME \/ DayPasses \/ Abort \/ Begin \/ ReadChannels \/ NextAccount \/ Finish
              \/ (\E s \in left : CheckLowQuota(s)) \/ CheckResetReminder \/ EmitDone
              \/ (\E c \in sendTo : SkipChannel(c) \/ Send(c))
              \/ ReadStates \/ NextStale \/ Reconciled
       PROVE  UNCHANGED Store!tables
  BY <1>11 DEF DayPasses, Abort, Begin, ReadChannels, NextAccount, Finish, CheckLowQuota,
     CheckResetReminder, EmitDone, SkipChannel, Send, ReadStates, NextStale, Reconciled
<1> QED
  BY <1>1, <1>2, <1>3, <1>4, <1>5, <1>6, <1>7, <1>8, <1>9, <1>10, <1>11
     DEF Next, Evaluate, Environment, Store!Statement

\* Whatever NotificationStore guarantees, it guarantees to Evaluate.
THEOREM QuotaImplementsStore == Spec => StoreSpec
<1>1. QED
  BY StoreInit, StoreStep, Invariance, PTL DEF Spec, StoreSpec, Store!StoreSpec

-----------------------------------------------------------------------------
(* Why an alert is withdrawn *)

\* A report describes a window once.
OneSignalPerWindow(signals) == \A s, t \in signals : s.window = t.window => s = t

\* The snapshot holds reports, the evaluator works on signals of the report of
\* its account, and it holds an old key only with the cause of its withdrawal.
CauseInv ==
    /\ \A a \in Account : OneSignalPerWindow(quota[a])
    /\ \A j \in work : OneSignalPerWindow(j.signals)
    /\ HasJob => OneSignalPerWindow(job.signals) /\ left \subseteq job.signals
    /\ HasSig => sig \in job.signals
    /\ HasOld => old.account = job.account
    /\ pc = "lowWithdraw" => old.slot = <<"low", Identity(sig)>> /\ ~sig.low
    /\ pc = "resetWithdraw" => old.slot = <<"reset", Identity(sig)>> /\ ReminderDays(sig, today) = 0
    /\ pc = "resetReplace" =>
          old.slot = <<"reset", Identity(sig)>> /\ old # ResetKey(job.account, sig, ReminderDays(sig, today))
    /\ HasStale => \A k \in stale :
          k.account = job.account /\ \A s \in job.signals : k.slot[2] # Identity(s)
    /\ pc = "staleWithdraw" => \A s \in job.signals : old.slot[2] # Identity(s)

LEMMA ReportsHaveOneSignalPerWindow == \A report \in Reports : OneSignalPerWindow(report)
BY DEF Reports, OneSignalPerWindow

LEMMA InitCause == Init => CauseInv
BY DEF Init, CauseInv, OneSignalPerWindow, HasJob, HasSig, HasOld, HasStale

\* The cause is still there when the statement is issued: the snapshot does not change.
LEMMA CauseStep == IInv /\ CauseInv /\ [Next]_vars => CauseInv'
<1> SUFFICES ASSUME IInv, CauseInv, [Next]_vars
             PROVE  CauseInv'
  OBVIOUS
<1> USE DEF IInv, TypeOK, Locals, CauseInv, HasJob, HasSig, HasKey, HasOld, HasStale, tables, world, snapshot, history
<1>1. ASSUME NEW a \in Account, SaveAccount(a)
      PROVE  CauseInv'
  BY <1>1, ReportsHaveOneSignalPerWindow DEF SaveAccount
<1>2. ASSUME NEW a \in Account, DeleteAccount(a)
      PROVE  CauseInv'
  BY <1>2 DEF DeleteAccount, OneSignalPerWindow
<1>3. ASSUME NEW c \in Channel, CreateChannel(c)
      PROVE  CauseInv'
  BY <1>3 DEF CreateChannel
<1>4. ASSUME NEW c \in Channel, DeleteChannel(c)
      PROVE  CauseInv'
  BY <1>4 DEF DeleteChannel
<1>5. ASSUME DayPasses
      PROVE  CauseInv'
  BY <1>5 DEF DayPasses
<1>6. ASSUME Abort
      PROVE  CauseInv'
  BY <1>6 DEF Abort, Return
<1>7. ASSUME Begin
      PROVE  CauseInv'
  BY <1>7 DEF Begin
<1>8. ASSUME ReadChannels
      PROVE  CauseInv'
  BY <1>8 DEF ReadChannels
<1>9. ASSUME NextAccount
      PROVE  CauseInv'
  BY <1>9 DEF NextAccount
<1>10. ASSUME Finish
       PROVE  CauseInv'
  BY <1>10 DEF Finish, Return
<1>11. ASSUME NEW s \in left, CheckLowQuota(s)
       PROVE  CauseInv'
  BY <1>11 DEF CheckLowQuota, Active
<1>12. ASSUME CheckResetReminder
       PROVE  CauseInv'
  BY <1>12 DEF CheckResetReminder, Active, ResetKey
<1>13. ASSUME LowWithdraw \/ ResetWithdraw \/ ResetReplace \/ StaleWithdraw
       PROVE  CauseInv'
  BY <1>13 DEF LowWithdraw, ResetWithdraw, ResetReplace, StaleWithdraw, Withdraw
<1>14. ASSUME LowClear \/ ResetClear \/ StaleDelete
       PROVE  CauseInv'
  BY <1>14 DEF LowClear, ResetClear, StaleDelete, ClearState
<1>15. ASSUME LowSave \/ ResetSave
       PROVE  CauseInv'
  BY <1>15 DEF LowSave, ResetSave, ActivateState
<1>16. ASSUME Emit
       PROVE  CauseInv'
  BY <1>16 DEF Emit, AfterEmit
<1>17. ASSUME EmitDone
       PROVE  CauseInv'
  BY <1>17 DEF EmitDone, AfterEmit
<1>18. ASSUME Record
       PROVE  CauseInv'
  BY <1>18 DEF Record
<1>19. ASSUME NEW c \in sendTo, SkipChannel(c)
       PROVE  CauseInv'
  BY <1>19 DEF SkipChannel
<1>20. ASSUME NEW c \in sendTo, Send(c)
       PROVE  CauseInv'
  BY <1>20 DEF Send
<1>21. ASSUME ReadStates
       PROVE  CauseInv'
  BY <1>21 DEF ReadStates
<1>22. ASSUME NextStale
       PROVE  CauseInv'
  BY <1>22 DEF NextStale
<1>23. ASSUME Reconciled
       PROVE  CauseInv'
  BY <1>23 DEF Reconciled
<1>24. CASE UNCHANGED vars
  BY <1>24 DEF vars
<1> QED
  BY <1>1, <1>2, <1>3, <1>4, <1>5, <1>6, <1>7, <1>8, <1>9, <1>10, <1>11, <1>12, <1>13, <1>14,
     <1>15, <1>16, <1>17, <1>18, <1>19, <1>20, <1>21, <1>22, <1>23, <1>24
     DEF Next, Evaluate, Environment

\* A quota alert is withdrawn only because its account is deleted or because
\* the snapshot being evaluated has nothing under its identity or something
\* there that does not call for it, in every interleaving, with any faults, and
\* whichever windows share an identity.
THEOREM QuotaWithdrawnForCause == Spec => WithdrawnForCause
<1>1. IInv /\ CauseInv /\ [Next]_vars =>
        [\A k \in alerts \ alerts' :
            k.account \in connected' =>
                /\ k.account = job.account
                /\ Reported(k) # {} => \E s \in Reported(k) : ~CallsFor(s, k)]_vars
  <2> SUFFICES ASSUME IInv, CauseInv, Next,
                      NEW k \in alerts, k \notin alerts', k.account \in connected'
               PROVE  /\ k.account = job.account
                      /\ Reported(k) # {} => \E s \in Reported(k) : ~CallsFor(s, k)
    OBVIOUS
  <2> USE DEF tables
  <2>1. \/ LowWithdraw \/ ResetWithdraw \/ ResetReplace \/ StaleWithdraw
    <3>1. ASSUME NEW a \in Account, DeleteAccount(a)
          PROVE  FALSE
      BY <3>1 DEF DeleteAccount, IInv, Rows
    <3> QED
      BY <3>1 DEF Next, Evaluate, Environment, SaveAccount, CreateChannel, DeleteChannel, DayPasses,
         Abort, Begin, ReadChannels, NextAccount, Finish, CheckLowQuota, CheckResetReminder,
         LowClear, ResetClear, StaleDelete, ClearState, LowSave, ResetSave, ActivateState,
         Emit, EmitDone, Record, SkipChannel, Send, ReadStates, NextStale, Reconciled
  <2>2. k = old /\ HasOld /\ pc \in {"lowWithdraw", "resetWithdraw", "resetReplace", "staleWithdraw"}
    BY <2>1 DEF LowWithdraw, ResetWithdraw, ResetReplace, StaleWithdraw, Withdraw, HasOld
  <2>3. HasJob /\ k.account = job.account /\ k \in Key
    BY <2>2 DEF CauseInv, HasJob, HasOld, IInv, Locals
  <2>4. CASE pc = "staleWithdraw"
    BY <2>2, <2>3, <2>4 DEF CauseInv, Reported
  <2>5. CASE pc \in {"lowWithdraw", "resetWithdraw", "resetReplace"}
    <3>1. sig \in job.signals
      BY <2>5 DEF CauseInv, HasSig, HasJob
    <3>2. Identity(sig) = k.slot[2]
      BY <2>2, <2>5 DEF CauseInv
    <3>3. ~CallsFor(sig, k)
      <4>1. CASE pc = "lowWithdraw"
        BY <2>2, <4>1 DEF CauseInv, CallsFor
      <4>2. CASE pc = "resetWithdraw"
        <5>1. k.n # 0
          BY <2>3 DEF Key
        <5> QED
          BY <2>2, <4>2, <5>1 DEF CauseInv, CallsFor
      <4>3. CASE pc = "resetReplace"
        <5>1. k = [account |-> k.account, slot |-> k.slot, n |-> k.n]
          BY <2>3 DEF Key
        <5>2. k.slot = <<"reset", Identity(sig)>>
          BY <2>2, <4>3 DEF CauseInv
        <5>3. k.n # ReminderDays(sig, today)
          BY <2>2, <2>3, <4>3, <5>1, <5>2 DEF CauseInv, ResetKey
        <5> QED
          BY <5>2, <5>3 DEF CallsFor
      <4> QED
        BY <2>5, <4>1, <4>2, <4>3
    <3> QED
      BY <2>3, <3>1, <3>2, <3>3 DEF Reported
  <2> QED
    BY <2>2, <2>4, <2>5
<1>2. QED
  BY <1>1, InitCause, CauseStep, Invariance, PTL DEF Spec, WithdrawnForCause

-----------------------------------------------------------------------------
(* How often a channel is told *)

IsLow(k) == k.slot[1] = "low"
Tell(a, w, c) == told[<<a, w, LowTopic, c>>]

\* Nobody was told about an account, or on a channel, that is not there yet.
HandedOut ==
    /\ channels \subseteq used /\ enabled \subseteq used /\ sendTo \subseteq used
    /\ \A t \in Account \X Window \X Topic \X Channel :
          t[1] \notin used \/ t[4] \notin used => told[t] = 0

\* The key in hand is a key of the signal in hand, its slot still holds it or
\* holds nothing, and the episode it announces is the one last seen.
KeyInHand ==
    /\ pc = "lowSave" => IsLow(key)
    /\ pc \in {"resetReplace", "resetSave"} => ~IsLow(key)
    /\ HasKey /\ IsLow(key) =>
          key.slot = <<"low", Identity(sig)>> /\ seen[<<job.account, sig.window>>] = sig.reset
    /\ HasKey /\ ~IsLow(key) => key.slot = <<"reset", Identity(sig)>> /\ key.n \in {1, 3}
    /\ pc = "lowSave" => \A k \in states : ~SameSlot(k, key)
    /\ pc \in {"send", "record"} /\ key.account \in connected =>
          key \in events /\ (IsLow(key) => key \in states)
    /\ pc \in {"lowWithdraw", "lowClear"} => old.slot = <<"low", Identity(sig)>>
    /\ pc \in {"resetWithdraw", "resetClear", "resetReplace"} => ~IsLow(old)

\* A row is cleared only after the count of its episode has started again.
Ended ==
    /\ pc \in {"lowWithdraw", "lowClear"} =>
          \A c \in Channel : Tell(job.account, sig.window, c) = 0
    /\ HasStale => \A w \in Window, c \in Channel :
          \/ \E s \in job.signals : s.window = w /\ s.reset = seen[<<job.account, w>>]
          \/ Tell(job.account, w, c) = 0
    /\ pc = "staleDelete" => \A s \in job.signals : old.slot[2] # Identity(s)

\* A message beyond those that faults explain has a receipt, or is about to get it.
Receipt(k, c) == <<k, c>> \in deliveries \/ (pc = "record" /\ key = k /\ to = c)
LowReceipt(a, w, c) ==
    \E k \in states, j \in Jitter[w] :
        /\ k.account = a /\ k.slot = <<"low", <<Label[w], seen[<<a, w>>], j>>>>
        /\ Receipt(k, c)
ReminderReceipt(a, w, topic, c) ==
    \E j \in Jitter[w] :
        Receipt([account |-> a, slot |-> <<"reset", <<Label[w], topic[2], j>>>>, n |-> topic[1]], c)

LowCounted(a, w, c) == Tell(a, w, c) <= faults.delivering \/ LowReceipt(a, w, c)
ReminderCounted(a, w, topic, c) ==
    topic # LowTopic =>
        told[<<a, w, topic, c>>] <= faults.delivering \/ ReminderReceipt(a, w, topic, c)

Receipts ==
    \A a \in connected, w \in Window, c \in channels, topic \in Topic :
        Apart(w) /\ Steady(w) => LowCounted(a, w, c) /\ ReminderCounted(a, w, topic, c)

ToldInv == HandedOut /\ KeyInHand /\ Ended /\ Receipts /\ ToldOnce

\* Ids are handed out before anybody is told.
LEMMA HandedOutStep == IInv /\ CauseInv /\ ToldInv /\ [Next]_vars => HandedOut'
<1> SUFFICES ASSUME IInv, CauseInv, ToldInv, [Next]_vars
             PROVE  HandedOut'
  OBVIOUS
<1> USE DEF IInv, TypeOK, Locals, HasJob, HasSig, HasKey, HasOld, HasStale, tables, world, snapshot, history, HandedOut, ToldInv
<1>1. ASSUME NEW a \in Account, SaveAccount(a)
      PROVE  HandedOut'
  BY <1>1 DEF SaveAccount
<1>2. ASSUME NEW a \in Account, DeleteAccount(a)
      PROVE  HandedOut'
  BY <1>2 DEF DeleteAccount
<1>3. ASSUME NEW c \in Channel, CreateChannel(c)
      PROVE  HandedOut'
  BY <1>3 DEF CreateChannel
<1>4. ASSUME NEW c \in Channel, DeleteChannel(c)
      PROVE  HandedOut'
  BY <1>4 DEF DeleteChannel
<1>5. ASSUME DayPasses
      PROVE  HandedOut'
  BY <1>5 DEF DayPasses
<1>6. ASSUME Abort
      PROVE  HandedOut'
  BY <1>6 DEF Abort, Fault, Return, NoJob
<1>7. ASSUME Begin
      PROVE  HandedOut'
  BY <1>7 DEF Begin
<1>8. ASSUME ReadChannels
      PROVE  HandedOut'
  BY <1>8 DEF ReadChannels
<1>9. ASSUME NextAccount
      PROVE  HandedOut'
  BY <1>9 DEF NextAccount
<1>10. ASSUME Finish
       PROVE  HandedOut'
  BY <1>10 DEF Finish, Return, NoJob
<1>11. ASSUME NEW s \in left, CheckLowQuota(s)
       PROVE  HandedOut'
  BY <1>11 DEF CheckLowQuota, Fault, NoFault
<1>12. ASSUME CheckResetReminder
       PROVE  HandedOut'
  BY <1>12 DEF CheckResetReminder, Fault, NoFault
<1>13. ASSUME LowWithdraw \/ ResetWithdraw \/ ResetReplace \/ StaleWithdraw
       PROVE  HandedOut'
  BY <1>13 DEF LowWithdraw, ResetWithdraw, ResetReplace, StaleWithdraw, Withdraw, Fault, NoFault
<1>14. ASSUME LowClear \/ ResetClear \/ StaleDelete
       PROVE  HandedOut'
  BY <1>14 DEF LowClear, ResetClear, StaleDelete, ClearState, Fault, NoFault
<1>15. ASSUME LowSave \/ ResetSave
       PROVE  HandedOut'
  BY <1>15 DEF LowSave, ResetSave, ActivateState, Fault, NoFault
<1>16. ASSUME Emit
       PROVE  HandedOut'
  BY <1>16 DEF Emit, AfterEmit, Fault, NoFault
<1>17. ASSUME EmitDone
       PROVE  HandedOut'
  BY <1>17 DEF EmitDone, AfterEmit
<1>18. ASSUME Record
       PROVE  HandedOut'
  BY <1>18 DEF Record, Fault, NoFault
<1>19. ASSUME NEW c \in sendTo, SkipChannel(c)
       PROVE  HandedOut'
  BY <1>19 DEF SkipChannel, Fault, NoFault
<1>20. ASSUME NEW c \in sendTo, Send(c)
       PROVE  HandedOut'
  BY <1>20 DEF Send, Fault, NoFault
<1>21. ASSUME ReadStates
       PROVE  HandedOut'
  BY <1>21 DEF ReadStates, Fault, NoFault
<1>22. ASSUME NextStale
       PROVE  HandedOut'
  BY <1>22 DEF NextStale
<1>23. ASSUME Reconciled
       PROVE  HandedOut'
  BY <1>23 DEF Reconciled
<1>24. CASE UNCHANGED vars
  BY <1>24 DEF vars
<1> QED
  BY <1>1, <1>2, <1>3, <1>4, <1>5, <1>6, <1>7, <1>8, <1>9, <1>10, <1>11, <1>12, <1>13, <1>14, <1>15, <1>16, <1>17, <1>18, <1>19, <1>20, <1>21, <1>22, <1>23, <1>24
     DEF Next, Evaluate, Environment

\* The key in hand: nobody but the evaluator writes its slot.
LEMMA KeyInHandStep == IInv /\ KeyInHand /\ [Next]_vars => KeyInHand'
<1> SUFFICES ASSUME IInv, KeyInHand, [Next]_vars
             PROVE  KeyInHand'
  OBVIOUS
<1> USE DEF IInv, TypeOK, Locals, HasJob, HasSig, HasKey, HasOld, HasStale, tables, world, snapshot, history, KeyInHand, IsLow, SameSlot, Rows, InFlight
<1>1. ASSUME NEW a \in Account, SaveAccount(a)
      PROVE  KeyInHand'
  BY <1>1 DEF SaveAccount
<1>2. ASSUME NEW a \in Account, DeleteAccount(a)
      PROVE  KeyInHand'
  BY <1>2 DEF DeleteAccount
<1>3. ASSUME NEW c \in Channel, CreateChannel(c)
      PROVE  KeyInHand'
  BY <1>3 DEF CreateChannel
<1>4. ASSUME NEW c \in Channel, DeleteChannel(c)
      PROVE  KeyInHand'
  BY <1>4 DEF DeleteChannel
<1>5. ASSUME DayPasses
      PROVE  KeyInHand'
  BY <1>5 DEF DayPasses
<1>6. ASSUME Abort
      PROVE  KeyInHand'
  BY <1>6 DEF Abort, Fault, Return, NoJob
<1>7. ASSUME Begin
      PROVE  KeyInHand'
  BY <1>7 DEF Begin
<1>8. ASSUME ReadChannels
      PROVE  KeyInHand'
  BY <1>8 DEF ReadChannels
<1>9. ASSUME NextAccount
      PROVE  KeyInHand'
  BY <1>9 DEF NextAccount
<1>10. ASSUME Finish
       PROVE  KeyInHand'
  BY <1>10 DEF Finish, Return, NoJob
<1>11. ASSUME NEW s \in left, CheckLowQuota(s)
       PROVE  KeyInHand'
  <2>1. /\ s \in Signal /\ sig' = s /\ pc = "signals" /\ UNCHANGED <<job, states>>
        /\ pc' \in {"reset", "lowWithdraw", "emit", "lowSave"}
    BY <1>11 DEF CheckLowQuota
  <2>2. pc' = "reset" => KeyInHand'
    OBVIOUS
  <2>3. pc' = "lowWithdraw" => KeyInHand'
    <3> SUFFICES ASSUME pc' = "lowWithdraw"
                 PROVE  old'.slot = <<"low", Identity(s)>>
      BY <2>1
    <3> QED
      BY <1>11 DEF CheckLowQuota, Active
  <2>4. pc' \in {"emit", "lowSave"} => KeyInHand'
    <3> SUFFICES ASSUME pc' \in {"emit", "lowSave"}
                 PROVE  KeyInHand'
      OBVIOUS
    <3>1. key'.slot = <<"low", Identity(s)>> /\ key'.account = job.account
      BY <1>11 DEF CheckLowQuota, Active, LowKey
    <3>2. seen' = [seen EXCEPT ![<<job.account, s.window>>] = IF s.low THEN s.reset ELSE None] /\ s.low
      BY <1>11 DEF CheckLowQuota
    <3>3. seen'[<<job.account, s.window>>] = s.reset
      BY <2>1, <3>2 DEF Signal
    <3>4. pc' = "lowSave" => \A k \in states : ~SameSlot(k, key')
      BY <1>11, <3>1 DEF CheckLowQuota, Active
    <3> QED
      BY <2>1, <3>1, <3>3, <3>4
  <2> QED
    BY <2>1, <2>2, <2>3, <2>4
<1>12. ASSUME CheckResetReminder
       PROVE  KeyInHand'
  BY <1>12, ReminderDaysType DEF CheckResetReminder, Fault, NoFault, Active, ResetKey
<1>13. ASSUME LowWithdraw \/ ResetWithdraw \/ ResetReplace \/ StaleWithdraw
       PROVE  KeyInHand'
  BY <1>13 DEF LowWithdraw, ResetWithdraw, ResetReplace, StaleWithdraw, Withdraw, Fault, NoFault
<1>14. ASSUME LowClear \/ ResetClear \/ StaleDelete
       PROVE  KeyInHand'
  BY <1>14 DEF LowClear, ResetClear, StaleDelete, ClearState, Fault, NoFault
<1>15. ASSUME LowSave \/ ResetSave
       PROVE  KeyInHand'
  BY <1>15 DEF LowSave, ResetSave, ActivateState, Fault, NoFault
<1>16. ASSUME Emit
       PROVE  KeyInHand'
  BY <1>16 DEF Emit, AfterEmit, Fault, NoFault
<1>17. ASSUME EmitDone
       PROVE  KeyInHand'
  BY <1>17 DEF EmitDone, AfterEmit
<1>18. ASSUME Record
       PROVE  KeyInHand'
  BY <1>18 DEF Record, Fault, NoFault
<1>19. ASSUME NEW c \in sendTo, SkipChannel(c)
       PROVE  KeyInHand'
  BY <1>19 DEF SkipChannel, Fault, NoFault
<1>20. ASSUME NEW c \in sendTo, Send(c)
       PROVE  KeyInHand'
  BY <1>20 DEF Send, Fault, NoFault
<1>21. ASSUME ReadStates
       PROVE  KeyInHand'
  BY <1>21 DEF ReadStates, Fault, NoFault
<1>22. ASSUME NextStale
       PROVE  KeyInHand'
  BY <1>22 DEF NextStale
<1>23. ASSUME Reconciled
       PROVE  KeyInHand'
  BY <1>23 DEF Reconciled
<1>24. CASE UNCHANGED vars
  BY <1>24 DEF vars
<1> QED
  BY <1>1, <1>2, <1>3, <1>4, <1>5, <1>6, <1>7, <1>8, <1>9, <1>10, <1>11, <1>12, <1>13, <1>14, <1>15, <1>16, <1>17, <1>18, <1>19, <1>20, <1>21, <1>22, <1>23, <1>24
     DEF Next, Evaluate, Environment

\* An episode ends when its window is reported healthy, or not in its period.
LEMMA EndedStep == IInv /\ CauseInv /\ ToldInv /\ [Next]_vars => Ended'
<1> SUFFICES ASSUME IInv, CauseInv, ToldInv, [Next]_vars
             PROVE  Ended'
  OBVIOUS
<1> USE DEF IInv, TypeOK, Locals, HasJob, HasSig, HasKey, HasOld, HasStale, tables, world, snapshot, history, ToldInv, Ended, Tell
<1>1. ASSUME NEW a \in Account, SaveAccount(a)
      PROVE  Ended'
  BY <1>1 DEF SaveAccount
<1>2. ASSUME NEW a \in Account, DeleteAccount(a)
      PROVE  Ended'
  BY <1>2 DEF DeleteAccount
<1>3. ASSUME NEW c \in Channel, CreateChannel(c)
      PROVE  Ended'
  BY <1>3 DEF CreateChannel
<1>4. ASSUME NEW c \in Channel, DeleteChannel(c)
      PROVE  Ended'
  BY <1>4 DEF DeleteChannel
<1>5. ASSUME DayPasses
      PROVE  Ended'
  BY <1>5 DEF DayPasses
<1>6. ASSUME Abort
      PROVE  Ended'
  BY <1>6 DEF Abort, Fault, Return, NoJob
<1>7. ASSUME Begin
      PROVE  Ended'
  BY <1>7 DEF Begin
<1>8. ASSUME ReadChannels
      PROVE  Ended'
  BY <1>8 DEF ReadChannels
<1>9. ASSUME NextAccount
      PROVE  Ended'
  BY <1>9 DEF NextAccount
<1>10. ASSUME Finish
       PROVE  Ended'
  BY <1>10 DEF Finish, Return, NoJob
<1>11. ASSUME NEW s \in left, CheckLowQuota(s)
       PROVE  Ended'
  <2>1. s \in Signal /\ sig' = s /\ pc = "signals" /\ UNCHANGED job /\ pc' \in {"reset", "lowWithdraw", "emit", "lowSave"}
    BY <1>11 DEF CheckLowQuota
  <2>2. ASSUME pc' = "lowWithdraw", NEW c \in Channel
        PROVE  Tell(job.account, s.window, c)' = 0
    <3> DEFINE mine == <<job.account, s.window, LowTopic, c>>
    <3>1. ~s.low /\ mine \in DOMAIN told
      BY <1>11, <2>1, <2>2 DEF CheckLowQuota, Signal, Topic
    <3>2. told' = [t \in DOMAIN told |->
                     IF t[1] = job.account /\ t[2] = s.window /\ t[3] = LowTopic
                          /\ ~(s.low /\ seen[<<job.account, s.window>>] = s.reset)
                     THEN 0 ELSE told[t]]
      BY <1>11, <2>2 DEF CheckLowQuota
    <3>3. mine[1] = job.account /\ mine[2] = s.window /\ mine[3] = LowTopic
      OBVIOUS
    <3> HIDE DEF mine
    <3>4. told'[mine] = 0
      BY <3>1, <3>2, <3>3
    <3> QED
      BY <2>1, <3>4 DEF mine
  <2> QED
    BY <2>1, <2>2 DEF Tell
<1>12. ASSUME CheckResetReminder
       PROVE  Ended'
  BY <1>12 DEF CheckResetReminder, Fault, NoFault
<1>13. ASSUME LowWithdraw \/ ResetWithdraw \/ ResetReplace \/ StaleWithdraw
       PROVE  Ended'
  BY <1>13 DEF LowWithdraw, ResetWithdraw, ResetReplace, StaleWithdraw, Withdraw, Fault, NoFault, CauseInv
<1>14. ASSUME LowClear \/ ResetClear \/ StaleDelete
       PROVE  Ended'
  BY <1>14 DEF LowClear, ResetClear, StaleDelete, ClearState, Fault, NoFault
<1>15. ASSUME LowSave \/ ResetSave
       PROVE  Ended'
  BY <1>15 DEF LowSave, ResetSave, ActivateState, Fault, NoFault
<1>16. ASSUME Emit
       PROVE  Ended'
  BY <1>16 DEF Emit, AfterEmit, Fault, NoFault
<1>17. ASSUME EmitDone
       PROVE  Ended'
  BY <1>17 DEF EmitDone, AfterEmit
<1>18. ASSUME Record
       PROVE  Ended'
  BY <1>18 DEF Record, Fault, NoFault
<1>19. ASSUME NEW c \in sendTo, SkipChannel(c)
       PROVE  Ended'
  BY <1>19 DEF SkipChannel, Fault, NoFault
<1>20. ASSUME NEW c \in sendTo, Send(c)
       PROVE  Ended'
  BY <1>20 DEF Send, Fault, NoFault
<1>21. ASSUME ReadStates
       PROVE  Ended'
  <2>1. CASE pc' # "stale"
    BY <1>21, <2>1 DEF ReadStates
  <2>2. CASE pc' = "stale"
    <3> SUFFICES ASSUME NEW w \in Window, NEW c \in Channel,
                        \A s \in job.signals : ~(s.window = w /\ s.reset = seen'[<<job.account, w>>]),
                        Tell(job.account, w, c)' # 0
                 PROVE  FALSE
      BY <1>21, <2>2 DEF ReadStates
    <3> DEFINE t == <<job.account, w, LowTopic, c>>
               ended(u) == u[1] = job.account
                           /\ ~(\E s \in job.signals : s.window = u[2] /\ s.reset = seen[<<u[1], u[2]>>])
    <3>1. /\ told' = [u \in DOMAIN told |-> IF ended(u) /\ u[3] = LowTopic THEN 0 ELSE told[u]]
          /\ seen' = [u \in DOMAIN seen |-> IF ended(u) THEN None ELSE seen[u]]
      BY <1>21, <2>2 DEF ReadStates
    <3>2. job.account \in Account /\ t \in DOMAIN told /\ <<job.account, w>> \in DOMAIN seen
      BY <1>21 DEF ReadStates, Topic
    <3>3. ~ended(t)
      <4>1. t[3] = LowTopic
        OBVIOUS
      <4>2. told'[t] # 0
        BY <1>21 DEF ReadStates
      <4> HIDE DEF t
      <4> QED
        BY <3>1, <3>2, <4>1, <4>2
    <3>4. ~ended(<<job.account, w>>)
      BY <3>3
    <3>5. seen'[<<job.account, w>>] = seen[<<job.account, w>>]
      BY <3>1, <3>2, <3>4
    <3> QED
      BY <3>3, <3>5
  <2> QED
    BY <2>1, <2>2
<1>22. ASSUME NextStale
       PROVE  Ended'
  BY <1>22 DEF NextStale
<1>23. ASSUME Reconciled
       PROVE  Ended'
  BY <1>23 DEF Reconciled
<1>24. CASE UNCHANGED vars
  BY <1>24 DEF vars
<1> QED
  BY <1>1, <1>2, <1>3, <1>4, <1>5, <1>6, <1>7, <1>8, <1>9, <1>10, <1>11, <1>12, <1>13, <1>14, <1>15, <1>16, <1>17, <1>18, <1>19, <1>20, <1>21, <1>22, <1>23, <1>24
     DEF Next, Evaluate, Environment

\* A step that takes no receipt of an account away, and clears no row of an
\* episode that goes on, leaves the messages accounted for.
LEMMA CountedKept ==
    ASSUME TypeOK, TypeOK', Receipts, faults.delivering <= faults'.delivering,
           NEW a \in connected, NEW w \in Window, NEW c \in channels, NEW topic \in Topic,
           Apart(w), Steady(w),
           \A k \in Key : k.account = a /\ Receipt(k, c) => Receipt(k, c)',
           \/ Tell(a, w, c)' = 0
           \/ /\ Tell(a, w, c)' = Tell(a, w, c)
              /\ seen'[<<a, w>>] = seen[<<a, w>>]
              /\ \A k \in states, j \in Jitter[w] :
                    k.account = a /\ k.slot = <<"low", <<Label[w], seen[<<a, w>>], j>>>> => k \in states',
           topic # LowTopic => told'[<<a, w, topic, c>>] = told[<<a, w, topic, c>>]
    PROVE  LowCounted(a, w, c)' /\ ReminderCounted(a, w, topic, c)'
<1> USE DEF TypeOK
<1>1. LowCounted(a, w, c) /\ ReminderCounted(a, w, topic, c)
  BY DEF Receipts
<1>2. faults.delivering \in Nat /\ faults'.delivering \in Nat
  OBVIOUS
<1>3. Tell(a, w, c) \in Nat /\ told[<<a, w, topic, c>>] \in Nat
  <2>1. LowTopic \in Topic
    BY DEF Topic
  <2> QED
    BY <2>1 DEF Tell
<1>4. LowCounted(a, w, c)'
  <2>1. CASE Tell(a, w, c)' = 0
    BY <1>2, <2>1 DEF LowCounted
  <2>2. CASE Tell(a, w, c)' # 0 /\ LowReceipt(a, w, c)
    <3>1. PICK k \in states, j \in Jitter[w] :
            k.account = a /\ k.slot = <<"low", <<Label[w], seen[<<a, w>>], j>>>> /\ Receipt(k, c)
      BY <2>2 DEF LowReceipt
    <3>2. k \in states' /\ Receipt(k, c)' /\ seen'[<<a, w>>] = seen[<<a, w>>]
      BY <2>2, <3>1
    <3> QED
      BY <3>1, <3>2 DEF LowCounted, LowReceipt
  <2>3. CASE Tell(a, w, c)' # 0 /\ Tell(a, w, c) <= faults.delivering
    BY <1>2, <1>3, <2>3 DEF LowCounted
  <2> QED
    BY <1>1, <2>1, <2>2, <2>3 DEF LowCounted
<1>5. ReminderCounted(a, w, topic, c)'
  <2>1. CASE topic # LowTopic /\ ReminderReceipt(a, w, topic, c)
    <3>1. PICK j \in Jitter[w] :
            Receipt([account |-> a, slot |-> <<"reset", <<Label[w], topic[2], j>>>>, n |-> topic[1]], c)
      BY <2>1 DEF ReminderReceipt
    <3> DEFINE k == [account |-> a, slot |-> <<"reset", <<Label[w], topic[2], j>>>>, n |-> topic[1]]
    <3>2. k \in Key /\ k.account = a
      <4>1. topic \in {1, 3} \X Resets
        BY <2>1 DEF Topic
      <4> QED
        BY <4>1 DEF Key, Slot, Identities, Offset
    <3>3. Receipt(k, c)'
      BY <3>1, <3>2
    <3> QED
      BY <3>3 DEF ReminderCounted, ReminderReceipt
  <2>2. CASE topic # LowTopic /\ told[<<a, w, topic, c>>] <= faults.delivering
    BY <1>2, <1>3, <2>2 DEF ReminderCounted
  <2> QED
    BY <1>1, <2>1, <2>2 DEF ReminderCounted
<1> QED
  BY <1>4, <1>5

\* Receipts go with their channel or their account, and a row is cleared only
\* when its episode has ended.
LEMMA ReceiptsStep ==
    IInv /\ CauseInv /\ ToldInv /\ [Next]_vars => Receipts'
<1> SUFFICES ASSUME IInv, CauseInv, ToldInv, [Next]_vars,
                    NEW a \in connected', NEW w \in Window, NEW c \in channels',
                    NEW topic \in Topic, Apart(w), Steady(w)
             PROVE  LowCounted(a, w, c)' /\ ReminderCounted(a, w, topic, c)'
  BY DEF Receipts
<1> DEFINE Counted == LowCounted(a, w, c) /\ ReminderCounted(a, w, topic, c)
<1> USE DEF IInv, ToldInv, tables, world, snapshot, history
<1>a. TypeOK /\ TypeOK' /\ Receipts
  BY TypeStep
<1>b. faults.delivering \in Nat /\ faults'.delivering \in Nat
  BY <1>a DEF TypeOK
<1>c. a \in Account /\ c \in Channel /\ LowTopic \in Topic
  BY <1>a DEF TypeOK, Topic
<1>d. told'[<<a, w, LowTopic, c>>] \in Nat /\ told'[<<a, w, topic, c>>] \in Nat
  BY <1>a, <1>c DEF TypeOK
<1>e. UNCHANGED faults => faults.delivering <= faults'.delivering
  BY <1>b
<1>1. ASSUME NEW x \in Account, SaveAccount(x)
      PROVE  Counted'
  <2>1. CASE a \in connected
    BY <1>1, <1>a, <1>e, <2>1, CountedKept DEF SaveAccount, Receipt, Tell
  <2>2. CASE a \notin connected
    <3>1. a \notin used /\ UNCHANGED <<told, faults>>
      BY <1>1, <2>2 DEF SaveAccount
    <3>2. told[<<a, w, LowTopic, c>>] = 0 /\ told[<<a, w, topic, c>>] = 0
      BY <1>c, <3>1 DEF HandedOut
    <3> QED
      BY <1>b, <3>1, <3>2 DEF LowCounted, ReminderCounted, Tell
  <2> QED
    BY <2>1, <2>2
<1>2. ASSUME NEW x \in Account, DeleteAccount(x)
      PROVE  Counted'
  <2>1. a \in connected /\ c \in channels /\ a # x /\ UNCHANGED <<told, seen, faults, pc, key, to>>
    BY <1>2 DEF DeleteAccount
  <2>2. \A k \in Key : k.account = a /\ Receipt(k, c) => Receipt(k, c)'
    BY <1>2, <2>1 DEF DeleteAccount, Receipt
  <2>3. \A k \in states : k.account = a => k \in states'
    BY <1>2, <2>1 DEF DeleteAccount
  <2> QED
    BY <1>a, <1>e, <2>1, <2>2, <2>3, CountedKept DEF Tell
<1>3. ASSUME NEW x \in Channel, CreateChannel(x)
      PROVE  Counted'
  <2>1. CASE c \in channels
    BY <1>3, <1>a, <1>e, <2>1, CountedKept DEF CreateChannel, Receipt, Tell
  <2>2. CASE c \notin channels
    <3>1. c \notin used /\ UNCHANGED <<told, faults>>
      BY <1>3, <2>2 DEF CreateChannel
    <3>2. told[<<a, w, LowTopic, c>>] = 0 /\ told[<<a, w, topic, c>>] = 0
      BY <1>c, <3>1 DEF HandedOut
    <3> QED
      BY <1>b, <3>1, <3>2 DEF LowCounted, ReminderCounted, Tell
  <2> QED
    BY <2>1, <2>2
<1>4. ASSUME NEW x \in Channel, DeleteChannel(x)
      PROVE  Counted'
  <2>1. a \in connected /\ c \in channels /\ c # x /\ UNCHANGED <<told, seen, faults, states, pc, key, to>>
    BY <1>4 DEF DeleteChannel
  <2>2. \A k \in Key : Receipt(k, c) => Receipt(k, c)'
    BY <1>4, <2>1 DEF DeleteChannel, Receipt
  <2> QED
    BY <1>a, <1>e, <2>1, <2>2, CountedKept DEF Tell
<1>5. ASSUME Abort \/ Record, faults'.delivering = faults.delivering + 1
      PROVE  Counted'
  \* A fault of the delivery explains a message that has no receipt.
  <2>1. a \in connected /\ UNCHANGED told
    BY <1>5 DEF Abort, Record
  <2>2. \A t \in DOMAIN told :
          t[1] \in connected /\ t[2] = w => told[t] <= 1 + faults.delivering
    BY DEF ToldOnce, Once
  <2>3. told[<<a, w, LowTopic, c>>] <= 1 + faults.delivering /\ told[<<a, w, topic, c>>] <= 1 + faults.delivering
    BY <1>a, <1>c, <2>1, <2>2 DEF TypeOK
  <2> QED
    BY <1>5, <1>b, <1>d, <2>1, <2>3 DEF LowCounted, ReminderCounted, Tell
<1>6. ASSUME Abort, pc # "record"
      PROVE  Counted'
  <2>1. faults.delivering <= faults'.delivering
    BY <1>6, <1>a, <1>b DEF Abort, Fault, TypeOK
  <2> QED
    BY <1>6, <1>a, <2>1, CountedKept DEF Abort, Receipt, Tell
<1>7. ASSUME Abort, pc = "record"
      PROVE  faults'.delivering = faults.delivering + 1
  BY <1>7, <1>a DEF Abort, Fault, TypeOK
<1>8. ASSUME Record, faults'.delivering # faults.delivering + 1
      PROVE  Counted'
  <2>1. /\ ~Fault /\ pc = "record"
        /\ UNCHANGED <<connected, channels, states, told, seen, key, to, faults>>
    BY <1>8, <1>a DEF Record, Fault, NoFault, TypeOK
  <2>2. \A k \in Key : k.account = a /\ Receipt(k, c) => Receipt(k, c)'
    <3> SUFFICES ASSUME NEW k \in Key, k.account = a, Receipt(k, c)
                 PROVE  Receipt(k, c)'
      OBVIOUS
    <3>1. CASE <<k, c>> \in deliveries
      BY <1>8, <3>1 DEF Record, Receipt
    <3>2. CASE key = k /\ to = c
      <4>1. key \in events /\ to \in channels
        BY <2>1, <3>2 DEF KeyInHand
      <4> QED
        BY <1>8, <2>1, <3>2, <4>1 DEF Record, Receipt
    <3> QED
      BY <3>1, <3>2 DEF Receipt
  <2> QED
    BY <1>a, <1>e, <2>1, <2>2, CountedKept DEF Tell
<1>9. ASSUME NEW s \in left, CheckLowQuota(s)
      PROVE  Counted'
  <2>1. UNCHANGED <<connected, channels, states, deliveries, job>> /\ pc # "record" /\ s \in Signal
    BY <1>9, <1>a DEF CheckLowQuota, TypeOK
  <2>2. faults.delivering <= faults'.delivering
    BY <1>9, <1>a, <1>b DEF CheckLowQuota, Fault, NoFault, TypeOK
  <2>3. \A k \in Key : Receipt(k, c) => Receipt(k, c)'
    BY <2>1 DEF Receipt
  <2>4. CASE UNCHANGED <<told, seen>>
    BY <1>a, <2>1, <2>2, <2>3, <2>4, CountedKept DEF Tell
  <2>5. CASE ~UNCHANGED <<told, seen>>
    <3> DEFINE t == <<a, w, LowTopic, c>>
               u == <<a, w, topic, c>>
               same == s.low /\ seen[<<job.account, s.window>>] = s.reset
    <3>1. /\ seen' = [seen EXCEPT ![<<job.account, s.window>>] = IF s.low THEN s.reset ELSE None]
          /\ told' = [x \in DOMAIN told |->
                        IF x[1] = job.account /\ x[2] = s.window /\ x[3] = LowTopic /\ ~same
                        THEN 0 ELSE told[x]]
      BY <1>9, <2>5 DEF CheckLowQuota
    <3>2. t \in DOMAIN told /\ u \in DOMAIN told /\ <<a, w>> \in DOMAIN seen
      BY <1>a, <1>c DEF TypeOK
    <3>3. t[1] = a /\ t[2] = w /\ t[3] = LowTopic /\ u[3] = topic
      OBVIOUS
    <3>4. /\ told'[t] = IF t[1] = job.account /\ t[2] = s.window /\ t[3] = LowTopic /\ ~same THEN 0 ELSE told[t]
          /\ told'[u] = IF u[1] = job.account /\ u[2] = s.window /\ u[3] = LowTopic /\ ~same THEN 0 ELSE told[u]
      <4> HIDE DEF t, u, same
      <4> QED
        BY <3>1, <3>2
    <3>5. (topic # LowTopic => told'[u] = told[u]) /\ (told'[t] = 0 \/ (told'[t] = told[t] /\ ~(a = job.account /\ w = s.window /\ ~same)))
      <4> HIDE DEF t, u, same
      <4> QED
        BY <3>3, <3>4
    <3>6. ~(a = job.account /\ w = s.window /\ ~same) => seen'[<<a, w>>] = seen[<<a, w>>]
      BY <3>1, <3>2
    <3> QED
      BY <1>a, <2>1, <2>2, <2>3, <3>5, <3>6, CountedKept DEF Tell
  <2> QED
    BY <2>4, <2>5
<1>10. ASSUME LowClear
       PROVE  Counted'
  <2>1. /\ a \in connected /\ c \in channels /\ pc = "lowClear" /\ pc' = "reset" /\ job.account \in Account
        /\ UNCHANGED <<told, seen, deliveries, key, to>>
    BY <1>10 DEF LowClear, ClearState, Locals, HasJob
  <2>2. faults.delivering <= faults'.delivering
    BY <1>10, <1>a, <1>b DEF LowClear, ClearState, Fault, NoFault, TypeOK
  <2>3. \A k \in Key : Receipt(k, c) => Receipt(k, c)'
    BY <2>1 DEF Receipt
  <2>4. CASE Tell(a, w, c) = 0
    BY <1>a, <2>1, <2>2, <2>3, <2>4, CountedKept DEF Tell
  <2>5. CASE Tell(a, w, c) # 0
    <3>1. ASSUME NEW k \in states, NEW j \in Jitter[w], k.account = a,
                 k.slot = <<"low", <<Label[w], seen[<<a, w>>], j>>>>, SameSlot(k, old)
          PROVE  FALSE
      <4>1. old.slot = <<"low", Identity(sig)>> /\ old.account = job.account /\ sig \in Signal
        BY <2>1 DEF KeyInHand, CauseInv, HasOld, Locals, HasSig, HasJob
      <4>2. job.account = a /\ Label[sig.window] = Label[w]
        BY <3>1, <4>1 DEF SameSlot, Identity
      <4>3. sig.window = w
        BY <4>1, <4>2 DEF Apart, Signal
      <4> QED
        BY <1>c, <2>1, <2>5, <4>2, <4>3 DEF Ended
    <3>2. \A k \in states, j \in Jitter[w] :
            k.account = a /\ k.slot = <<"low", <<Label[w], seen[<<a, w>>], j>>>> => k \in states'
      BY <1>10, <3>1 DEF LowClear, ClearState
    <3> QED
      BY <1>a, <2>1, <2>2, <2>3, <3>2, CountedKept DEF Tell
  <2> QED
    BY <2>4, <2>5
<1>11. ASSUME StaleDelete
       PROVE  Counted'
  <2>1. /\ a \in connected /\ c \in channels /\ pc = "staleDelete" /\ pc' = "stale"
        /\ UNCHANGED <<told, seen, deliveries, key, to>>
    BY <1>11 DEF StaleDelete, ClearState
  <2>2. faults.delivering <= faults'.delivering
    BY <1>11, <1>a, <1>b DEF StaleDelete, ClearState, Fault, NoFault, TypeOK
  <2>3. \A k \in Key : Receipt(k, c) => Receipt(k, c)'
    BY <2>1 DEF Receipt
  <2>4. CASE Tell(a, w, c) = 0
    BY <1>a, <2>1, <2>2, <2>3, <2>4, CountedKept DEF Tell
  <2>5. CASE Tell(a, w, c) # 0
    <3>1. ASSUME NEW k \in states, NEW j \in Jitter[w], k.account = a,
                 k.slot = <<"low", <<Label[w], seen[<<a, w>>], j>>>>, SameSlot(k, old)
          PROVE  FALSE
      <4>1. old.account = job.account /\ \A s \in job.signals : old.slot[2] # Identity(s)
        BY <2>1 DEF Ended, CauseInv, HasOld
      <4>2. job.account = a /\ old.slot[2] = <<Label[w], seen[<<a, w>>], j>>
        BY <3>1, <4>1 DEF SameSlot
      <4>3. PICK s \in job.signals : s.window = w /\ s.reset = seen[<<a, w>>]
        BY <1>c, <2>1, <2>5, <4>2 DEF Ended, HasStale
      <4>4. s \in Signal
        BY <1>a DEF TypeOK
      <4>5. s.jitter = j
        BY <4>3, <4>4 DEF Steady, Signal
      <4> QED
        BY <4>1, <4>2, <4>3, <4>5 DEF Identity
    <3>2. \A k \in states, j \in Jitter[w] :
            k.account = a /\ k.slot = <<"low", <<Label[w], seen[<<a, w>>], j>>>> => k \in states'
      BY <1>11, <3>1 DEF StaleDelete, ClearState
    <3> QED
      BY <1>a, <2>1, <2>2, <2>3, <3>2, CountedKept DEF Tell
  <2> QED
    BY <2>4, <2>5
<1>12. ASSUME ResetClear \/ LowSave \/ ResetSave
       PROVE  Counted'
  <2>1. /\ a \in connected /\ c \in channels /\ pc \in {"resetClear", "lowSave", "resetSave"}
        /\ pc' \in {"signals", "reset", "emit"}
        /\ UNCHANGED <<told, seen, deliveries, key, to>>
    BY <1>12 DEF ResetClear, LowSave, ResetSave, ClearState, ActivateState
  <2>2. faults.delivering <= faults'.delivering
    BY <1>12, <1>a, <1>b DEF ResetClear, LowSave, ResetSave, ClearState, ActivateState, Fault, NoFault, TypeOK
  <2>3. \A k \in Key : Receipt(k, c) => Receipt(k, c)'
    BY <2>1 DEF Receipt
  <2>4. \A k \in states : IsLow(k) => k \in states'
    BY <1>12, <2>1 DEF ResetClear, LowSave, ResetSave, ClearState, ActivateState, KeyInHand, SameSlot, IsLow
  <2>5. \A k \in states, j \in Jitter[w] :
          k.account = a /\ k.slot = <<"low", <<Label[w], seen[<<a, w>>], j>>>> => k \in states'
    BY <2>4 DEF IsLow
  <2> QED
    BY <1>a, <2>1, <2>2, <2>3, <2>5, CountedKept DEF Tell
<1>13. ASSUME NEW x \in sendTo, Send(x)
       PROVE  Counted'
  <2> DEFINE t == <<a, w, LowTopic, c>>
             u == <<a, w, topic, c>>
             sent == <<job.account, sig.window, TopicOfKey, x>>
  <2>1. /\ a \in connected /\ c \in channels /\ pc = "send" /\ pc' \in {"send", "record"}
        /\ UNCHANGED <<connected, channels, states, deliveries, seen, key, job, sig>>
    BY <1>13 DEF Send
  <2>2. /\ t \in DOMAIN told /\ u \in DOMAIN told
        /\ told[t] \in Nat /\ told[u] \in Nat
    BY <1>a, <1>c DEF TypeOK
  <2>3. \A k \in Key : Receipt(k, c) => Receipt(k, c)'
    BY <2>1 DEF Receipt
  <2>4. CASE told'[t] = told[t] /\ told'[u] = told[u]
    <3>1. faults.delivering <= faults'.delivering
      BY <1>13, <1>a, <1>b DEF Send, Fault, NoFault, TypeOK
    <3> QED
      BY <1>a, <2>1, <2>3, <2>4, <3>1, CountedKept DEF Tell
  <2>5. CASE told'[t] # told[t] \/ told'[u] # told[u]
    <3>1. told' = [told EXCEPT ![sent] = @ + 1]
      BY <1>13, <2>5 DEF Send
    <3>2. sent \in {t, u}
      BY <2>2, <2>5, <3>1
    <3>3. job.account = a /\ sig.window = w /\ x = c /\ TopicOfKey \in {LowTopic, topic}
      BY <3>2
    <3>4. HasKey /\ key \in Key /\ key.account = a /\ sig \in Signal
      BY <2>1, <3>3 DEF Locals, HasKey, HasSig, HasJob
    <3>5. CASE faults'.delivering = faults.delivering + 1
      <4>1. /\ told[t] <= faults.delivering \/ LowReceipt(a, w, c)
            /\ topic # LowTopic => told[u] <= faults.delivering \/ ReminderReceipt(a, w, topic, c)
        BY <1>a, <2>1 DEF Receipts, LowCounted, ReminderCounted, Tell
      <4>2. told'[t] <= told[t] + 1 /\ told'[u] <= told[u] + 1
        BY <2>2, <3>1
      <4>3. /\ LowReceipt(a, w, c) => LowReceipt(a, w, c)'
            /\ ReminderReceipt(a, w, topic, c) => ReminderReceipt(a, w, topic, c)'
        BY <2>1 DEF LowReceipt, ReminderReceipt, Receipt
      <4> QED
        BY <1>b, <1>d, <2>2, <3>5, <4>1, <4>2, <4>3 DEF LowCounted, ReminderCounted, Tell
    <3>6. CASE faults'.delivering # faults.delivering + 1
      <4>1. NoFault /\ pc' = "record" /\ to' = c
        BY <1>13, <1>a, <2>1, <3>3, <3>6 DEF Send, Fault, NoFault, TypeOK
      <4>2. Receipt(key, c)'
        BY <2>1, <4>1 DEF Receipt
      <4>3. CASE IsLow(key)
        <5>1. key \in states /\ key.slot = <<"low", <<Label[w], seen[<<a, w>>], sig.jitter>>>>
          BY <2>1, <3>3, <3>4, <4>3 DEF KeyInHand, Identity
        <5>2. sig.jitter \in Jitter[w]
          BY <3>3, <3>4 DEF Signal
        <5>3. LowReceipt(a, w, c)'
          BY <2>1, <3>4, <4>2, <5>1, <5>2 DEF LowReceipt
        <5>4. TopicOfKey = LowTopic
          BY <4>3 DEF TopicOfKey, IsLow
        <5>5. topic # LowTopic => told'[u] = told[u]
          BY <2>2, <3>1, <5>4
        <5>6. ReminderCounted(a, w, topic, c)
          BY <1>a, <2>1 DEF Receipts
        <5>7. ReminderReceipt(a, w, topic, c) => ReminderReceipt(a, w, topic, c)'
          BY <2>1 DEF ReminderReceipt, Receipt
        <5> QED
          BY <4>1, <5>3, <5>5, <5>6, <5>7 DEF LowCounted, ReminderCounted, NoFault
      <4>4. CASE ~IsLow(key)
        <5>1. key.slot = <<"reset", <<Label[w], sig.reset, sig.jitter>>>> /\ key.n \in {1, 3}
          BY <3>3, <3>4, <4>4 DEF KeyInHand, Identity
        <5>2. TopicOfKey = <<key.n, sig.reset>> /\ TopicOfKey # LowTopic
          BY <4>4, <5>1 DEF TopicOfKey, IsLow, LowTopic
        <5>3. topic = <<key.n, sig.reset>>
          BY <3>3, <5>2
        <5>4. key = [account |-> a, slot |-> <<"reset", <<Label[w], topic[2], sig.jitter>>>>, n |-> topic[1]]
          BY <3>4, <5>1, <5>3 DEF Key
        <5>5. ReminderReceipt(a, w, topic, c)'
          BY <2>1, <3>3, <3>4, <4>2, <5>4 DEF ReminderReceipt, Signal
        <5>6. told'[t] = told[t]
          BY <2>2, <3>1, <5>2
        <5>7. LowCounted(a, w, c)
          BY <1>a, <2>1 DEF Receipts
        <5>8. LowReceipt(a, w, c) => LowReceipt(a, w, c)'
          BY <2>1 DEF LowReceipt, Receipt
        <5> QED
          BY <4>1, <5>5, <5>6, <5>7, <5>8 DEF LowCounted, ReminderCounted, NoFault, Tell
      <4> QED
        BY <4>3, <4>4
    <3> QED
      BY <3>5, <3>6
  <2> QED
    BY <2>4, <2>5
<1>14. ASSUME ReadStates
       PROVE  Counted'
  <2>1. a \in connected /\ c \in channels /\ pc # "record" /\ UNCHANGED <<states, deliveries>>
    BY <1>14 DEF ReadStates
  <2>2. faults.delivering <= faults'.delivering
    BY <1>14, <1>a, <1>b DEF ReadStates, Fault, NoFault, TypeOK
  <2>3. \A k \in Key : Receipt(k, c) => Receipt(k, c)'
    BY <2>1 DEF Receipt
  <2>4. CASE UNCHANGED <<told, seen>>
    BY <1>a, <2>1, <2>2, <2>3, <2>4, CountedKept DEF Tell
  <2>5. CASE ~UNCHANGED <<told, seen>>
    <3> DEFINE t == <<a, w, LowTopic, c>>
               u == <<a, w, topic, c>>
               ended(y) == y[1] = job.account
                           /\ ~(\E s \in job.signals : s.window = y[2] /\ s.reset = seen[<<y[1], y[2]>>])
    <3>1. /\ told' = [y \in DOMAIN told |-> IF ended(y) /\ y[3] = LowTopic THEN 0 ELSE told[y]]
          /\ seen' = [y \in DOMAIN seen |-> IF ended(y) THEN None ELSE seen[y]]
      BY <1>14, <2>5 DEF ReadStates
    <3>2. t \in DOMAIN told /\ u \in DOMAIN told /\ <<a, w>> \in DOMAIN seen
      BY <1>a, <1>c DEF TypeOK
    <3>3. t[3] = LowTopic /\ u[3] = topic /\ (ended(t) <=> ended(<<a, w>>))
      OBVIOUS
    <3>4. /\ told'[t] = IF ended(t) /\ t[3] = LowTopic THEN 0 ELSE told[t]
          /\ told'[u] = IF ended(u) /\ u[3] = LowTopic THEN 0 ELSE told[u]
          /\ seen'[<<a, w>>] = IF ended(<<a, w>>) THEN None ELSE seen[<<a, w>>]
      <4> HIDE DEF t, u, ended
      <4> QED
        BY <3>1, <3>2
    <3>5. (topic # LowTopic => told'[u] = told[u]) /\ (told'[t] = 0 \/ (told'[t] = told[t] /\ seen'[<<a, w>>] = seen[<<a, w>>]))
      <4> HIDE DEF t, u, ended
      <4> QED
        BY <3>3, <3>4
    <3> QED
      BY <1>a, <2>1, <2>2, <2>3, <3>5, CountedKept DEF Tell
  <2> QED
    BY <2>4, <2>5
<1>15. ASSUME \/ DayPasses \/ Begin \/ ReadChannels \/ NextAccount \/ Finish \/ CheckResetReminder
              \/ LowWithdraw \/ ResetWithdraw \/ ResetReplace \/ StaleWithdraw \/ Emit \/ EmitDone
              \/ (\E x \in sendTo : SkipChannel(x)) \/ NextStale \/ Reconciled
       PROVE  Counted'
  <2>1. /\ pc = "record" => pc' = "record" /\ UNCHANGED <<key, to>>
        /\ UNCHANGED <<connected, channels, states, deliveries, told, seen>>
    BY <1>15 DEF DayPasses, Begin, ReadChannels, NextAccount, Finish, CheckResetReminder,
       LowWithdraw, ResetWithdraw, ResetReplace, StaleWithdraw, Withdraw, Emit, EmitDone, SkipChannel, NextStale, Reconciled
  <2>2. UNCHANGED faults \/ Fault
    BY <1>15 DEF DayPasses, Begin, ReadChannels, NextAccount, Finish, CheckResetReminder, NoFault,
       LowWithdraw, ResetWithdraw, ResetReplace, StaleWithdraw, Withdraw, Emit, EmitDone, SkipChannel, NextStale, Reconciled
  <2>3. faults.delivering <= faults'.delivering
    BY <1>a, <1>b, <2>2 DEF Fault, TypeOK
  <2>4. \A k \in Key : Receipt(k, c) => Receipt(k, c)'
    BY <2>1 DEF Receipt
  <2> QED
    BY <1>a, <2>1, <2>3, <2>4, CountedKept DEF Tell
<1>16. CASE UNCHANGED vars
  BY <1>a, <1>e, <1>16, CountedKept DEF vars, Receipt, Tell
<1> QED
  BY <1>1, <1>2, <1>3, <1>4, <1>5, <1>6, <1>7, <1>8, <1>9, <1>10, <1>11, <1>12, <1>13, <1>14, <1>15, <1>16
     DEF Next, Evaluate, Environment

\* Only a send counts a message, and what was counted before has a receipt.
LEMMA ToldOnceStep ==
    IInv /\ CauseInv /\ ToldInv /\ [Next]_vars => ToldOnce'
<1> SUFFICES ASSUME IInv, CauseInv, ToldInv, [Next]_vars,
                    NEW t \in DOMAIN told, t[1] \in connected', Apart(t[2]), Steady(t[2])
             PROVE  told'[t] <= 1 + faults'.delivering
  BY TypeStep DEF IInv, TypeOK, ToldOnce, Once
<1> USE DEF IInv, ToldInv, tables, world, snapshot, history
<1>a. TypeOK /\ TypeOK' /\ DOMAIN told = Account \X Window \X Topic \X Channel
  BY TypeStep DEF TypeOK
<1>b. faults.delivering \in Nat /\ faults'.delivering \in Nat /\ told[t] \in Nat /\ told'[t] \in Nat
  BY <1>a DEF TypeOK
<1>c. faults.delivering <= faults'.delivering
  <2>1. UNCHANGED faults \/ Fault
    BY DEF Next, Evaluate, Environment, SaveAccount, DeleteAccount, CreateChannel, DeleteChannel, DayPasses,
       Abort, Begin, ReadChannels, NextAccount, Finish, CheckLowQuota, CheckResetReminder, NoFault,
       LowWithdraw, ResetWithdraw, ResetReplace, StaleWithdraw, Withdraw,
       LowClear, ResetClear, StaleDelete, ClearState, LowSave, ResetSave, ActivateState,
       Emit, EmitDone, Record, SkipChannel, Send, ReadStates, NextStale, Reconciled, vars
  <2> QED
    BY <1>a, <1>b, <2>1 DEF Fault, TypeOK
<1>1. CASE t[1] \in connected /\ told'[t] <= told[t]
  BY <1>1, <1>b, <1>c DEF ToldOnce, Once
<1>2. CASE t[1] \notin connected
  <2>1. PICK x \in Account : SaveAccount(x)
    BY <1>2 DEF Next, Evaluate, Environment, DeleteAccount, CreateChannel, DeleteChannel, DayPasses,
       Abort, Begin, ReadChannels, NextAccount, Finish, CheckLowQuota, CheckResetReminder,
       LowWithdraw, ResetWithdraw, ResetReplace, StaleWithdraw, Withdraw,
       LowClear, ResetClear, StaleDelete, ClearState, LowSave, ResetSave, ActivateState,
       Emit, EmitDone, Record, SkipChannel, Send, ReadStates, NextStale, Reconciled, vars
  <2>2. t[1] \notin used /\ told'[t] = told[t]
    BY <1>2, <2>1 DEF SaveAccount
  <2>3. told[t] = 0
    BY <1>a, <2>2 DEF HandedOut
  <2> QED
    BY <1>b, <2>2, <2>3
<1>3. CASE t[1] \in connected /\ ~(told'[t] <= told[t])
  <2>1. PICK c \in sendTo : Send(c)
    <3>1. UNCHANGED told => told'[t] <= told[t]
      BY <1>b
    <3>2. ASSUME NEW s \in left, CheckLowQuota(s)
          PROVE  told'[t] <= told[t]
      <4>1. told'[t] \in {0, told[t]}
        BY <3>2 DEF CheckLowQuota
      <4> QED
        BY <1>b, <4>1
    <3>3. ASSUME ReadStates
          PROVE  told'[t] <= told[t]
      <4>1. told'[t] \in {0, told[t]}
        BY <3>3 DEF ReadStates
      <4> QED
        BY <1>b, <4>1
    <3> QED
      BY <1>3, <3>1, <3>2, <3>3 DEF Next, Evaluate, Environment, SaveAccount, DeleteAccount, CreateChannel, DeleteChannel, DayPasses,
       Abort, Begin, ReadChannels, NextAccount, Finish, CheckResetReminder,
       LowWithdraw, ResetWithdraw, ResetReplace, StaleWithdraw, Withdraw,
       LowClear, ResetClear, StaleDelete, ClearState, LowSave, ResetSave, ActivateState,
       Emit, EmitDone, Record, SkipChannel, NextStale, Reconciled, vars
  <2> DEFINE sent == <<job.account, sig.window, TopicOfKey, c>>
  <2>2. /\ told' = [told EXCEPT ![sent] = @ + 1]
        /\ pc = "send" /\ c \in channels /\ <<key, c>> \notin deliveries
    BY <1>3, <1>b, <2>1 DEF Send
  <2>3. t = sent /\ told'[t] = told[t] + 1
    BY <1>3, <1>b, <2>2
  <2>4. /\ HasKey /\ HasSig /\ key \in Key /\ sig \in Signal
        /\ key.account = job.account /\ job.account \in connected /\ c \in Channel
    BY <1>3, <1>a, <2>2, <2>3 DEF Locals, HasKey, HasSig, HasJob, TypeOK
  <2>5. /\ sig.window \in Window /\ TopicOfKey \in Topic
        /\ Apart(sig.window) /\ Steady(sig.window)
    BY <1>a, <2>3, <2>4 DEF Signal
  <2>6. CASE IsLow(key)
    <3>1. TopicOfKey = LowTopic
      BY <2>6 DEF TopicOfKey, IsLow
    <3>2. ~LowReceipt(job.account, sig.window, c)
      <4> SUFFICES ASSUME NEW k \in states, NEW j \in Jitter[sig.window], k.account = job.account,
                          k.slot = <<"low", <<Label[sig.window], seen[<<job.account, sig.window>>], j>>>>,
                          <<k, c>> \in deliveries
                   PROVE  FALSE
        BY <2>2 DEF LowReceipt, Receipt
      <4>1. /\ key.slot = <<"low", Identity(sig)>> /\ key \in states
            /\ seen[<<job.account, sig.window>>] = sig.reset
        BY <2>2, <2>4, <2>6 DEF KeyInHand
      <4>2. j = sig.jitter
        BY <2>4, <2>5 DEF Steady, Signal
      <4>3. SameSlot(k, key)
        BY <2>4, <4>1, <4>2 DEF SameSlot, Identity
      <4> QED
        BY <2>2, <4>1, <4>3 DEF Rows
    <3>3. LowCounted(job.account, sig.window, c)
      BY <2>2, <2>4, <2>5 DEF Receipts
    <3>4. told[t] <= faults.delivering
      BY <2>3, <3>1, <3>2, <3>3 DEF LowCounted, Tell
    <3> QED
      BY <1>b, <1>c, <2>3, <3>4
  <2>7. CASE ~IsLow(key)
    <3> DEFINE topic == <<key.n, sig.reset>>
    <3>1. key.slot = <<"reset", Identity(sig)>> /\ key.n \in {1, 3}
      BY <2>4, <2>7 DEF KeyInHand
    <3>2. TopicOfKey = topic /\ topic # LowTopic /\ topic \in Topic
      BY <2>5, <2>7, <3>1 DEF TopicOfKey, IsLow, LowTopic
    <3>3. ~ReminderReceipt(job.account, sig.window, topic, c)
      <4> SUFFICES ASSUME NEW j \in Jitter[sig.window],
                          <<[account |-> job.account, slot |-> <<"reset", <<Label[sig.window], sig.reset, j>>>>,
                             n |-> key.n], c>> \in deliveries
                   PROVE  FALSE
        BY <2>2 DEF ReminderReceipt, Receipt
      <4>1. j = sig.jitter
        BY <2>4, <2>5 DEF Steady, Signal
      <4>2. key = [account |-> job.account, slot |-> <<"reset", <<Label[sig.window], sig.reset, j>>>>, n |-> key.n]
        BY <2>4, <3>1, <4>1 DEF Key, Identity
      <4> QED
        BY <2>2, <4>2
    <3>4. ReminderCounted(job.account, sig.window, topic, c)
      BY <2>2, <2>4, <2>5, <3>2 DEF Receipts
    <3>5. told[t] <= faults.delivering
      BY <2>3, <3>2, <3>3, <3>4 DEF ReminderCounted
    <3> QED
      BY <1>b, <1>c, <2>3, <3>5
  <2> QED
    BY <2>6, <2>7
<1> QED
  BY <1>1, <1>2, <1>3

LEMMA InitTold == Init => ToldInv
<1> SUFFICES ASSUME Init PROVE ToldInv
  OBVIOUS
<1>1. HandedOut /\ Receipts
  BY DEF Init, HandedOut, Receipts
<1>2. KeyInHand /\ Ended
  BY DEF Init, KeyInHand, Ended, HasKey, HasStale
<1>3. ToldOnce
  BY DEF Init, ToldOnce, Once
<1> QED
  BY <1>1, <1>2, <1>3 DEF ToldInv

\* A channel hears of a low quota once until the window recovers, disappears or
\* changes its period, and of a reset once at three days and once at one day,
\* whatever is interrupted, deleted or created meanwhile; each fault of the
\* delivery can cost one message more.  It holds of every window whose identity
\* is its own and whose reset time is reported as the same each time, whatever
\* the other windows of the account are like.
THEOREM QuotaToldOnce == Spec => []ToldOnce
<1>1. IInv /\ CauseInv /\ ToldInv /\ [Next]_vars => CauseInv' /\ ToldInv'
  BY CauseStep, HandedOutStep, KeyInHandStep, EndedStep, ReceiptsStep, ToldOnceStep DEF ToldInv
<1>2. ToldInv => ToldOnce
  BY DEF ToldInv
<1>3. QED
  BY <1>1, <1>2, InitCause, InitTold, Invariance, PTL DEF Spec

-----------------------------------------------------------------------------
(* A new drop is announced again *)

\* Receipts belong to events, and every announcement has a stamp of its own.
Stamps ==
    /\ \A d \in deliveries : d[1] \in events
    /\ \A k \in events : IsLow(k) => k.n <= stamp
    /\ \A k \in states : IsLow(k) => k.n <= stamp
    /\ HasKey /\ IsLow(key) => key.n <= stamp
    /\ pc = "lowSave" => key \notin events

\* As long as no statement outside a delivery has failed, an active state has
\* its alert, unless the evaluator has just taken it down or is to put it up.
AlertOfState ==
    faults.elsewhere = 0 =>
       /\ pc = "emit" /\ IsLow(key) => key \in alerts \/ key \notin events
       /\ \A k \in states : IsLow(k) =>
             \/ k \in alerts
             \/ pc \in {"lowClear", "staleDelete"} /\ k = old
             \/ pc = "emit" /\ k = key

\* A stamp is used for one announcement only.
LEMMA StampsStep == IInv /\ KeyInHand /\ Stamps /\ [Next]_vars => Stamps'
<1> SUFFICES ASSUME IInv, KeyInHand, Stamps, [Next]_vars
             PROVE  Stamps'
  OBVIOUS
<1> USE DEF IInv, TypeOK, Locals, HasJob, HasSig, HasKey, HasOld, HasStale, tables, world, snapshot, history, Stamps, KeyInHand, IsLow
<1>1. ASSUME NEW a \in Account, SaveAccount(a)
      PROVE  Stamps'
  BY <1>1 DEF SaveAccount
<1>2. ASSUME NEW a \in Account, DeleteAccount(a)
      PROVE  Stamps'
  BY <1>2 DEF DeleteAccount
<1>3. ASSUME NEW c \in Channel, CreateChannel(c)
      PROVE  Stamps'
  BY <1>3 DEF CreateChannel
<1>4. ASSUME NEW c \in Channel, DeleteChannel(c)
      PROVE  Stamps'
  BY <1>4 DEF DeleteChannel
<1>5. ASSUME DayPasses
      PROVE  Stamps'
  BY <1>5 DEF DayPasses
<1>6. ASSUME Abort
      PROVE  Stamps'
  BY <1>6 DEF Abort, Fault, Return, NoJob
<1>7. ASSUME Begin
      PROVE  Stamps'
  BY <1>7 DEF Begin
<1>8. ASSUME ReadChannels
      PROVE  Stamps'
  BY <1>8 DEF ReadChannels
<1>9. ASSUME NextAccount
      PROVE  Stamps'
  BY <1>9 DEF NextAccount
<1>10. ASSUME Finish
       PROVE  Stamps'
  BY <1>10 DEF Finish, Return, NoJob
<1>11. ASSUME NEW s \in left, CheckLowQuota(s)
       PROVE  Stamps'
  <2>1. s \in Signal /\ stamp \in Nat /\ pc = "signals" /\ UNCHANGED <<events, states, deliveries>>
    BY <1>11 DEF CheckLowQuota
  <2>2. CASE stamp' = stamp + 1 /\ key' = LowKey(job.account, s, stamp')
    <3>1. \A k \in events \union states : k.n \in Nat
      BY BoundsAssumption DEF Key
    <3>2. key'.n = stamp + 1 /\ IsLow(key')
      BY <2>2 DEF LowKey, IsLow
    <3>3. \A k \in events \union states : IsLow(k) => k.n <= stamp /\ k.n <= stamp + 1
      BY <2>1, <3>1
    <3>4. key' \notin events
      BY <2>1, <3>2, <3>3
    <3> QED
      BY <2>1, <2>2, <3>2, <3>3, <3>4
  <2>3. CASE stamp' = stamp /\ pc' # "lowSave"
    <3>1. HasKey' => key' \in states
      BY <1>11, <2>3 DEF CheckLowQuota, Active
    <3> QED
      BY <2>1, <2>3, <3>1
  <2> QED
    BY <1>11, <2>2, <2>3 DEF CheckLowQuota
<1>12. ASSUME CheckResetReminder
       PROVE  Stamps'
  BY <1>12 DEF CheckResetReminder, Fault, NoFault, ResetKey
<1>13. ASSUME LowWithdraw \/ ResetWithdraw \/ ResetReplace \/ StaleWithdraw
       PROVE  Stamps'
  BY <1>13 DEF LowWithdraw, ResetWithdraw, ResetReplace, StaleWithdraw, Withdraw, Fault, NoFault
<1>14. ASSUME LowClear \/ ResetClear \/ StaleDelete
       PROVE  Stamps'
  BY <1>14 DEF LowClear, ResetClear, StaleDelete, ClearState, Fault, NoFault
<1>15. ASSUME LowSave \/ ResetSave
       PROVE  Stamps'
  BY <1>15 DEF LowSave, ResetSave, ActivateState, Fault, NoFault
<1>16. ASSUME Emit
       PROVE  Stamps'
  BY <1>16 DEF Emit, AfterEmit, Fault, NoFault
<1>17. ASSUME EmitDone
       PROVE  Stamps'
  BY <1>17 DEF EmitDone, AfterEmit
<1>18. ASSUME Record
       PROVE  Stamps'
  BY <1>18 DEF Record, Fault, NoFault
<1>19. ASSUME NEW c \in sendTo, SkipChannel(c)
       PROVE  Stamps'
  BY <1>19 DEF SkipChannel, Fault, NoFault
<1>20. ASSUME NEW c \in sendTo, Send(c)
       PROVE  Stamps'
  BY <1>20 DEF Send, Fault, NoFault
<1>21. ASSUME ReadStates
       PROVE  Stamps'
  BY <1>21 DEF ReadStates, Fault, NoFault
<1>22. ASSUME NextStale
       PROVE  Stamps'
  BY <1>22 DEF NextStale
<1>23. ASSUME Reconciled
       PROVE  Stamps'
  BY <1>23 DEF Reconciled
<1>24. CASE UNCHANGED vars
  BY <1>24 DEF vars
<1> QED
  BY <1>1, <1>2, <1>3, <1>4, <1>5, <1>6, <1>7, <1>8, <1>9, <1>10, <1>11, <1>12, <1>13, <1>14, <1>15, <1>16, <1>17, <1>18, <1>19, <1>20, <1>21, <1>22, <1>23, <1>24
     DEF Next, Evaluate, Environment

\* The alert goes up and comes down with its state.
LEMMA AlertOfStateStep == IInv /\ KeyInHand /\ Stamps /\ AlertOfState /\ [Next]_vars => AlertOfState'
<1> SUFFICES ASSUME IInv, KeyInHand, Stamps, AlertOfState, [Next]_vars
             PROVE  AlertOfState'
  OBVIOUS
<1> USE DEF IInv, TypeOK, Locals, HasJob, HasSig, HasKey, HasOld, HasStale, tables, world, snapshot, history, KeyInHand, AlertOfState, IsLow, SameSlot, Rows
<1>1. ASSUME NEW a \in Account, SaveAccount(a)
      PROVE  AlertOfState'
  BY <1>1 DEF SaveAccount
<1>2. ASSUME NEW a \in Account, DeleteAccount(a)
      PROVE  AlertOfState'
  BY <1>2 DEF DeleteAccount
<1>3. ASSUME NEW c \in Channel, CreateChannel(c)
      PROVE  AlertOfState'
  BY <1>3 DEF CreateChannel
<1>4. ASSUME NEW c \in Channel, DeleteChannel(c)
      PROVE  AlertOfState'
  BY <1>4 DEF DeleteChannel
<1>5. ASSUME DayPasses
      PROVE  AlertOfState'
  BY <1>5 DEF DayPasses
<1>6. ASSUME Abort
      PROVE  AlertOfState'
  BY <1>6 DEF Abort, Fault, Return, NoJob
<1>7. ASSUME Begin
      PROVE  AlertOfState'
  BY <1>7 DEF Begin
<1>8. ASSUME ReadChannels
      PROVE  AlertOfState'
  BY <1>8 DEF ReadChannels
<1>9. ASSUME NextAccount
      PROVE  AlertOfState'
  BY <1>9 DEF NextAccount
<1>10. ASSUME Finish
       PROVE  AlertOfState'
  BY <1>10 DEF Finish, Return, NoJob
<1>11. ASSUME NEW s \in left, CheckLowQuota(s)
       PROVE  AlertOfState'
  BY <1>11 DEF CheckLowQuota, Fault, NoFault, Active, LowKey
<1>12. ASSUME CheckResetReminder
       PROVE  AlertOfState'
  <2>1. pc' = "emit" => ~IsLow(key')
    BY <1>12 DEF CheckResetReminder, ResetKey
  <2> QED
    BY <1>12, <2>1 DEF CheckResetReminder, NoFault, Fault
<1>13. ASSUME LowWithdraw \/ ResetWithdraw \/ ResetReplace \/ StaleWithdraw
       PROVE  AlertOfState'
  <2>1. CASE faults'.elsewhere # 0
    BY <2>1
  <2>2. CASE faults'.elsewhere = 0
    <3>1. /\ faults.elsewhere = 0 /\ alerts' = alerts \ {old} /\ UNCHANGED <<events, states, key, old>>
          /\ \/ pc' \in {"lowClear", "staleDelete"}
             \/ pc \in {"resetWithdraw", "resetReplace"} /\ pc' \in {"resetClear", "resetSave"}
          /\ pc \notin {"emit", "lowClear", "staleDelete"}
      BY <1>13, <2>2 DEF LowWithdraw, ResetWithdraw, ResetReplace, StaleWithdraw, Withdraw, Fault, NoFault
    <3> QED
      BY <3>1
  <2> QED
    BY <2>1, <2>2
<1>14. ASSUME LowClear \/ ResetClear \/ StaleDelete
       PROVE  AlertOfState'
  BY <1>14 DEF LowClear, ResetClear, StaleDelete, ClearState, Fault, NoFault
<1>15. ASSUME LowSave \/ ResetSave
       PROVE  AlertOfState'
  <2>1. CASE faults'.elsewhere # 0
    BY <2>1
  <2>2. CASE faults'.elsewhere = 0
    <3>1. NoFault /\ faults.elsewhere = 0 /\ UNCHANGED <<events, alerts, key, old>> /\ pc \in {"lowSave", "resetSave"}
      BY <1>15, <2>2 DEF LowSave, ResetSave, ActivateState, Fault, NoFault
    <3>2. pc' = "emit" /\ IsLow(key) => key \notin events
      BY <1>15, <3>1 DEF LowSave, ResetSave, ActivateState, Stamps
    <3>3. \A k \in states' : k \in states \/ (k = key /\ pc' = "emit")
      BY <1>15, <3>1 DEF LowSave, ResetSave, ActivateState
    <3> QED
      BY <3>1, <3>2, <3>3
  <2> QED
    BY <2>1, <2>2
<1>16. ASSUME Emit
       PROVE  AlertOfState'
  BY <1>16 DEF Emit, AfterEmit, Fault, NoFault
<1>17. ASSUME EmitDone
       PROVE  AlertOfState'
  BY <1>17 DEF EmitDone, AfterEmit
<1>18. ASSUME Record
       PROVE  AlertOfState'
  BY <1>18 DEF Record, Fault, NoFault
<1>19. ASSUME NEW c \in sendTo, SkipChannel(c)
       PROVE  AlertOfState'
  BY <1>19 DEF SkipChannel, Fault, NoFault
<1>20. ASSUME NEW c \in sendTo, Send(c)
       PROVE  AlertOfState'
  BY <1>20 DEF Send, Fault, NoFault
<1>21. ASSUME ReadStates
       PROVE  AlertOfState'
  BY <1>21 DEF ReadStates, Fault, NoFault
<1>22. ASSUME NextStale
       PROVE  AlertOfState'
  BY <1>22 DEF NextStale
<1>23. ASSUME Reconciled
       PROVE  AlertOfState'
  BY <1>23 DEF Reconciled
<1>24. CASE UNCHANGED vars
  BY <1>24 DEF vars
<1> QED
  BY <1>1, <1>2, <1>3, <1>4, <1>5, <1>6, <1>7, <1>8, <1>9, <1>10, <1>11, <1>12, <1>13, <1>14, <1>15, <1>16, <1>17, <1>18, <1>19, <1>20, <1>21, <1>22, <1>23, <1>24
     DEF Next, Evaluate, Environment

\* As long as nothing but a send or a receipt has failed, a low-quota alert that
\* goes up has no receipt.
LEMMA NewDropStep ==
    IInv /\ KeyInHand /\ Stamps /\ AlertOfState /\ [Next]_vars /\ faults.elsewhere = 0 =>
        \A k \in alerts' \ alerts : k.slot[1] = "low" => \A c \in Channel : <<k, c>> \notin deliveries
<1> SUFFICES ASSUME IInv, KeyInHand, Stamps, AlertOfState, [Next]_vars, faults.elsewhere = 0,
                    NEW k \in alerts', k \notin alerts, IsLow(k), NEW c \in Channel
             PROVE  <<k, c>> \notin deliveries
  BY DEF IsLow
<1>1. Emit
  BY DEF Next, Evaluate, Environment, SaveAccount, DeleteAccount, CreateChannel, DeleteChannel, DayPasses,
     Abort, Begin, ReadChannels, NextAccount, Finish, CheckLowQuota, CheckResetReminder,
     LowWithdraw, ResetWithdraw, ResetReplace, StaleWithdraw, Withdraw,
     LowClear, ResetClear, StaleDelete, ClearState, LowSave, ResetSave, ActivateState,
     EmitDone, Record, SkipChannel, Send, ReadStates, NextStale, Reconciled,
     tables, world, snapshot, history, vars
<1>2. pc = "emit" /\ k = key
  BY <1>1 DEF Emit
<1>3. key \notin events
  BY <1>2 DEF AlertOfState
<1> QED
  BY <1>2, <1>3 DEF Stamps

LEMMA InitStamps == Init => Stamps /\ AlertOfState
BY DEF Init, Stamps, AlertOfState, HasKey

LEMMA StampsInvariance == Spec => [](IInv /\ KeyInHand /\ Stamps /\ AlertOfState)
<1>1. IInv /\ KeyInHand /\ Stamps /\ AlertOfState /\ [Next]_vars =>
        KeyInHand' /\ Stamps' /\ AlertOfState'
  BY KeyInHandStep, StampsStep, AlertOfStateStep
<1>2. QED
  BY <1>1, InitTold, InitStamps, Invariance, PTL DEF Spec, ToldInv

\* A drop after a recovery is announced again, whatever sends and receipts
\* failed before: only a statement that fails outside the delivery can leave
\* the alert of an old announcement to be put up in place of a new one.
THEOREM QuotaNewDropIsAnnounced ==
    Spec => [][faults.elsewhere = 0 =>
                 \A k \in alerts' \ alerts :
                    k.slot[1] = "low" => \A c \in Channel : <<k, c>> \notin deliveries]_vars
<1>1. QED
  BY NewDropStep, StampsInvariance, PTL DEF Spec

\* Where nothing fails at all, the announcement is unconditional.
THEOREM QuotaNewDropWithoutFaults == MaxFaults = 0 => (Spec => NewDropIsAnnounced)
<1> SUFFICES ASSUME MaxFaults = 0
             PROVE  Spec => NewDropIsAnnounced
  OBVIOUS
<1> DEFINE NoFaults == faults = [delivering |-> 0, elsewhere |-> 0]
<1>1. Init => NoFaults
  BY DEF Init
<1>2. NoFaults /\ [Next]_vars => NoFaults'
  <2> SUFFICES ASSUME NoFaults, [Next]_vars
               PROVE  UNCHANGED faults
    OBVIOUS
  <2>1. ~Fault
    BY DEF Fault
  <2> QED
    BY <2>1 DEF Next, Evaluate, Environment, SaveAccount, DeleteAccount, CreateChannel, DeleteChannel, DayPasses,
       Abort, Begin, ReadChannels, NextAccount, Finish, CheckLowQuota, CheckResetReminder, NoFault,
       LowWithdraw, ResetWithdraw, ResetReplace, StaleWithdraw, Withdraw,
       LowClear, ResetClear, StaleDelete, ClearState, LowSave, ResetSave, ActivateState,
       Emit, EmitDone, Record, SkipChannel, Send, ReadStates, NextStale, Reconciled, vars
<1>3. NoFaults => faults.elsewhere = 0
  OBVIOUS
<1> HIDE DEF NoFaults
<1>4. QED
  BY <1>1, <1>2, <1>3, NewDropStep, StampsInvariance, PTL DEF Spec, NewDropIsAnnounced

=============================================================================
