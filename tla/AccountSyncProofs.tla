-------------------------- MODULE AccountSyncProofs --------------------------
(***************************************************************************)
(* For any number of users, any interval and any startup delay: refreshes  *)
(* are serial and truthfully reported, the announced time is the armed     *)
(* one, and scheduled refreshes keep their distance.  And of one wave, for *)
(* any number of accounts, any concurrency and any cancellation: every     *)
(* account has exactly one fate, and a cancelled wave begins no more       *)
(* accounts than it has workers.                                           *)
(***************************************************************************)
EXTENDS AccountSync, RefreshPool, FiniteSetTheorems, TLAPS

\* The lock is with the one process between its TryLock and its Unlock.
LockInv ==
    /\ \A p \in Proc : InRun(p) <=> runMu = p
    /\ status.running <=> \E p \in Proc : Reported(p)
    /\ \A p \in Proc : Reported(p) => status.trigger = Trigger(p)

\* Only the scheduler is ever at a place of RunScheduler, and only a user
\* signals: a scheduled run moves no timer but its own.
PlaceInv ==
    /\ pc[Scheduler] \notin {"ready", "signal"}
    /\ \A p \in Caller : pc[p] \notin {"boot", "select", "due", "arm", "stopped"}

\* The timer and the time since the last scheduled refresh make up an interval.
ApartInv ==
    /\ timer # None => sinceRun["scheduled"] + timer >= Interval
    /\ pc[Scheduler] = "boot" => timer = None /\ sinceRun["scheduled"] = Interval
    /\ pc[Scheduler] \in {"due", "start", "refresh", "scan", "complete", "unlock"} => timer = None
    /\ pc[Scheduler] \in {"due", "start"} => sinceRun["scheduled"] = Interval

SyncInv == TypeOK /\ LockInv /\ PlaceInv /\ AnnouncedIsArmed

-----------------------------------------------------------------------------
LEMMA InitSync == Init => SyncInv /\ ApartInv
<1> SUFFICES ASSUME Init PROVE SyncInv /\ ApartInv
  OBVIOUS
<1> USE TimeAssumption, ProcAssumption DEF Init, Proc
<1>1. TypeOK
  <2>1. sinceRun \in [{"manual", "scheduled"} -> Time]
    BY DEF Time
  <2>2. status \in [running : BOOLEAN, trigger : {"manual", "scheduled", None},
                   result : {"never", "success", "failed", "partial"}, next : Nat \union {None}]
    OBVIOUS
  <2> QED
    BY <2>1, <2>2 DEF TypeOK
<1>2. LockInv
  BY DEF LockInv, InRun, Reported
<1>3. PlaceInv /\ AnnouncedIsArmed /\ ApartInv
  BY DEF PlaceInv, AnnouncedIsArmed, ApartInv
<1> QED
  BY <1>1, <1>2, <1>3 DEF SyncInv

LEMMA TypeStep == TypeOK /\ [Next]_vars => TypeOK'
<1> SUFFICES ASSUME TypeOK, [Next]_vars
             PROVE  TypeOK'
  OBVIOUS
<1> USE TimeAssumption, ProcAssumption DEF TypeOK, Proc, Goto, run
<1>1. ASSUME NEW p \in Proc, Refresh(p)
      PROVE  TypeOK'
  <2>1. CASE TryLock(p)
    BY <2>1 DEF TryLock
  <2>2. CASE Start(p)
    BY <2>2 DEF Start, Trigger
  <2>3. CASE RefreshAll(p)
    BY <2>3 DEF RefreshAll
  <2>4. CASE Scan(p)
    BY <2>4 DEF Scan
  <2>5. CASE Complete(p)
    <3>1. Result \in {"success", "failed", "partial"} /\ Trigger(p) \in {"manual", "scheduled"}
      BY DEF Result, Trigger
    <3>2. sinceRun' \in [{"manual", "scheduled"} -> Time]
      BY <2>5, <3>1 DEF Complete, Time
    <3>3. status' \in [running : BOOLEAN, trigger : {"manual", "scheduled", None},
                       result : {"never", "success", "failed", "partial"}, next : Nat \union {None}]
      BY <2>5, <3>1 DEF Complete
    <3> QED
      BY <2>5, <3>2, <3>3 DEF Complete
  <2>6. CASE Signal(p)
    BY <2>6 DEF Signal
  <2>7. CASE Unlock(p)
    BY <2>7 DEF Unlock
  <2> QED
    BY <1>1, <2>1, <2>2, <2>3, <2>4, <2>5, <2>6, <2>7 DEF Refresh
<1>2. ASSUME Boot
      PROVE  TypeOK'
  BY <1>2 DEF Boot
<1>3. ASSUME SelectReset \/ SelectTimer \/ SelectDone \/ Schedule
      PROVE  TypeOK'
  <2>1. CASE SelectReset
    BY <2>1 DEF SelectReset
  <2>2. CASE SelectTimer
    BY <2>2 DEF SelectTimer
  <2>3. CASE SelectDone
    BY <2>3 DEF SelectDone
  <2>4. CASE Schedule
    BY <2>4 DEF Schedule
  <2> QED
    BY <1>3, <2>1, <2>2, <2>3, <2>4
<1>4. ASSUME Expire \/ Shutdown
      PROVE  TypeOK'
  BY <1>4 DEF Expire, Shutdown
<1>5. ASSUME Tick
      PROVE  TypeOK'
  BY <1>5 DEF Tick, Less, Time
<1>6. CASE UNCHANGED vars
  BY <1>6 DEF vars
<1> QED
  BY <1>1, <1>2, <1>3, <1>4, <1>5, <1>6 DEF Next, RunScheduler

LEMMA LockStep == TypeOK /\ LockInv /\ [Next]_vars => LockInv'
<1> SUFFICES ASSUME TypeOK, LockInv, [Next]_vars
             PROVE  LockInv'
  OBVIOUS
<1> USE ProcAssumption DEF TypeOK, LockInv, Proc, Goto, run, InRun, Reported
<1>1. ASSUME NEW p \in Proc, Refresh(p)
      PROVE  LockInv'
  <2>1. CASE TryLock(p)
    BY <2>1 DEF TryLock
  <2>2. CASE Start(p)
    BY <2>2 DEF Start
  <2>3. CASE RefreshAll(p)
    BY <2>3 DEF RefreshAll
  <2>4. CASE Scan(p)
    BY <2>4 DEF Scan
  <2>5. CASE Complete(p)
    BY <2>5 DEF Complete
  <2>6. CASE Signal(p)
    BY <2>6 DEF Signal
  <2>7. CASE Unlock(p)
    BY <2>7 DEF Unlock
  <2> QED
    BY <1>1, <2>1, <2>2, <2>3, <2>4, <2>5, <2>6, <2>7 DEF Refresh
<1>2. ASSUME Boot \/ SelectReset \/ SelectTimer \/ SelectDone \/ Schedule
      PROVE  LockInv'
  BY <1>2 DEF Boot, SelectReset, SelectTimer, SelectDone, Schedule
<1>3. ASSUME Expire \/ Shutdown \/ Tick
      PROVE  LockInv'
  BY <1>3 DEF Expire, Shutdown, Tick
<1>4. CASE UNCHANGED vars
  BY <1>4 DEF vars
<1> QED
  BY <1>1, <1>2, <1>3, <1>4 DEF Next, RunScheduler

LEMMA PlaceStep == TypeOK /\ PlaceInv /\ [Next]_vars => PlaceInv'
<1> SUFFICES ASSUME TypeOK, PlaceInv, [Next]_vars
             PROVE  PlaceInv'
  OBVIOUS
<1> USE ProcAssumption DEF TypeOK, PlaceInv, Proc, Goto
<1>1. ASSUME NEW p \in Proc, Refresh(p)
      PROVE  PlaceInv'
  BY <1>1 DEF Refresh, TryLock, Start, RefreshAll, Scan, Complete, Signal, Unlock
<1>2. ASSUME Boot \/ SelectReset \/ SelectTimer \/ SelectDone \/ Schedule
      PROVE  PlaceInv'
  BY <1>2 DEF Boot, SelectReset, SelectTimer, SelectDone, Schedule
<1>3. ASSUME Expire \/ Shutdown \/ Tick \/ UNCHANGED vars
      PROVE  PlaceInv'
  BY <1>3 DEF Expire, Shutdown, Tick, vars
<1> QED
  BY <1>1, <1>2, <1>3 DEF Next, RunScheduler

LEMMA AnnouncedStep ==
    TypeOK /\ PlaceInv /\ AnnouncedIsArmed /\ [Next]_vars => AnnouncedIsArmed'
<1> SUFFICES ASSUME TypeOK, PlaceInv, AnnouncedIsArmed, [Next]_vars
             PROVE  AnnouncedIsArmed'
  OBVIOUS
<1> USE ProcAssumption DEF TypeOK, PlaceInv, AnnouncedIsArmed, Proc, Goto, run
<1>1. ASSUME NEW p \in Proc, Refresh(p)
      PROVE  AnnouncedIsArmed'
  <2>1. CASE TryLock(p)
    BY <2>1 DEF TryLock
  <2>2. CASE Start(p)
    BY <2>2 DEF Start
  <2>3. CASE RefreshAll(p)
    BY <2>3 DEF RefreshAll
  <2>4. CASE Scan(p)
    BY <2>4 DEF Scan
  <2>5. CASE Complete(p)
    BY <2>5 DEF Complete
  <2>6. CASE Signal(p)
    BY <2>6 DEF Signal
  <2>7. CASE Unlock(p)
    BY <2>7 DEF Unlock
  <2> QED
    BY <1>1, <2>1, <2>2, <2>3, <2>4, <2>5, <2>6, <2>7 DEF Refresh
<1>2. ASSUME Boot \/ SelectReset \/ SelectTimer \/ SelectDone \/ Schedule
      PROVE  AnnouncedIsArmed'
  BY <1>2 DEF Boot, SelectReset, SelectTimer, SelectDone, Schedule
<1>3. ASSUME Expire \/ Shutdown
      PROVE  AnnouncedIsArmed'
  BY <1>3 DEF Expire, Shutdown
<1>4. ASSUME Tick
      PROVE  AnnouncedIsArmed'
  BY <1>4 DEF Tick
<1>5. CASE UNCHANGED vars
  BY <1>5 DEF vars
<1> QED
  BY <1>1, <1>2, <1>3, <1>4, <1>5 DEF Next, RunScheduler

LEMMA ApartStep == TypeOK /\ PlaceInv /\ ApartInv /\ [Next]_vars => ApartInv'
<1> SUFFICES ASSUME TypeOK, PlaceInv, ApartInv, [Next]_vars
             PROVE  ApartInv'
  OBVIOUS
<1> USE TimeAssumption, ProcAssumption DEF TypeOK, PlaceInv, ApartInv, Proc, Goto, run, Time
<1>1. ASSUME NEW p \in Proc, Refresh(p)
      PROVE  ApartInv'
  <2>1. CASE TryLock(p)
    BY <2>1 DEF TryLock
  <2>2. CASE Start(p)
    BY <2>2 DEF Start
  <2>3. CASE RefreshAll(p) \/ Scan(p) \/ Signal(p) \/ Unlock(p)
    BY <2>3 DEF RefreshAll, Scan, Signal, Unlock
  <2>4. CASE Complete(p)
    BY <2>4 DEF Complete, Trigger
  <2> QED
    BY <1>1, <2>1, <2>2, <2>3, <2>4 DEF Refresh
<1>2. ASSUME Boot \/ SelectReset \/ SelectTimer \/ SelectDone \/ Schedule
      PROVE  ApartInv'
  BY <1>2 DEF Boot, SelectReset, SelectTimer, SelectDone, Schedule
<1>3. ASSUME Expire \/ Shutdown
      PROVE  ApartInv'
  BY <1>3 DEF Expire, Shutdown
<1>4. ASSUME Tick
      PROVE  ApartInv'
  BY <1>4 DEF Tick, Less
<1>5. CASE UNCHANGED vars
  BY <1>5 DEF vars
<1> QED
  BY <1>1, <1>2, <1>3, <1>4, <1>5 DEF Next, RunScheduler

LEMMA SyncInvariance == Spec => [](SyncInv /\ ApartInv)
<1>1. SyncInv /\ ApartInv /\ [Next]_vars => (SyncInv /\ ApartInv)'
  BY TypeStep, LockStep, PlaceStep, AnnouncedStep, ApartStep DEF SyncInv
<1>2. QED
  BY InitSync, <1>1, PTL DEF Spec

\* The variables keep their types; in particular no time runs below zero.
THEOREM SyncTypeOK == Spec => []TypeOK
<1>1. SyncInv => TypeOK
  BY DEF SyncInv
<1>2. QED
  BY <1>1, SyncInvariance, PTL

\* Refreshes are serial and the status names the one that is running.
THEOREM SyncStatusNamesTheRun == Spec => []StatusNamesTheRun
<1>1. SyncInv => StatusNamesTheRun
  BY DEF SyncInv, LockInv, StatusNamesTheRun
<1>2. QED
  BY <1>1, SyncInvariance, PTL

\* What GET /sync/status announces is what the timer is armed for.
THEOREM SyncAnnouncedIsArmed == Spec => []AnnouncedIsArmed
<1>1. SyncInv => AnnouncedIsArmed
  BY DEF SyncInv
<1>2. QED
  BY <1>1, SyncInvariance, PTL

\* No interleaving of manual refreshes, resets and slow runs brings two
\* scheduled refreshes closer together than an interval.
THEOREM SyncScheduledRunsApart == Spec => ScheduledRunsApart
<1>1. SyncInv /\ ApartInv /\ [Next]_vars =>
        [pc[Scheduler] = "due" /\ pc'[Scheduler] = "start" => sinceRun["scheduled"] = Interval]_vars
  BY DEF ApartInv
<1>2. QED
  BY <1>1, SyncInvariance, PTL DEF Spec, ScheduledRunsApart

-----------------------------------------------------------------------------
(* The wave of a refresh (RefreshPool).                                    *)

\* Where each account is: an account not taken yet is untouched, an account
\* taken is with one worker, or refreshed, or reported.
Places ==
    /\ \A w \in Worker : Busy(w) => job[w] \in Index /\ job[w] < next /\ job[w] \notin fresh \union Failed
    /\ \A w, v \in Worker : Busy(w) /\ Busy(v) /\ job[w] = job[v] => w = v
    /\ \A w \in Worker : at[w] \in {"check", "begin"} => calls[job[w]] = 0
    /\ \A w \in Worker : at[w] = "send" => why[w] \in Failure
    /\ \A i \in Index : i >= next => calls[i] = 0 /\ i \notin fresh \union Failed
    /\ \A i \in Index : i < next =>
          i \in fresh \union Failed \/ \E w \in Worker : Busy(w) /\ job[w] = i

Ends ==
    /\ \A w \in Worker : at[w] = "done" => next = N + 1
    /\ main = "returned" => \A w \in Worker : at[w] = "done"

Once ==
    /\ fresh \intersect Failed = {}
    /\ \A p, q \in DOMAIN results : results[p].index = results[q].index => p = q
    /\ \A i \in Index : calls[i] <= 1

PoolInv == WaveTypeOK /\ Places /\ Ends /\ Once

-----------------------------------------------------------------------------
LEMMA WorkersAreThere == WorkerCount \in Nat /\ (N > 0 => 1 \in Worker)
BY NAssumption, ConcurrencyAssumption DEF WorkerCount, Worker

LEMMA InitPoolInv == WaveInit => PoolInv
<1> SUFFICES ASSUME WaveInit PROVE PoolInv
  OBVIOUS
<1>1. WaveTypeOK
  BY NAssumption DEF WaveInit, WaveTypeOK, Entry
<1>2. Failed = {}
  BY DEF WaveInit, Failed
<1>3. Places /\ Once
  BY <1>2, NAssumption DEF WaveInit, Places, Once, Busy, Index
<1>4. Ends
  BY NAssumption, WorkersAreThere DEF WaveInit, Ends, Worker, WorkerCount
<1> QED
  BY <1>1, <1>3, <1>4 DEF PoolInv

\* What a send adds to the accounts that have failed.
LEMMA FailedAppend ==
    ASSUME results \in Seq(Entry), NEW e \in Entry, results' = Append(results, e)
    PROVE  /\ Failed' = Failed \union {e.index}
           /\ results' \in Seq(Entry)
           /\ (\A p, q \in DOMAIN results : results[p].index = results[q].index => p = q)
                /\ e.index \notin Failed =>
                  \A p, q \in DOMAIN results' : results'[p].index = results'[q].index => p = q
<1>1. DOMAIN results = 1 .. Len(results) /\ DOMAIN results' = 1 .. Len(results) + 1 /\ Len(results) \in Nat
  OBVIOUS
<1>2. \A p \in DOMAIN results' : results'[p] = IF p = Len(results) + 1 THEN e ELSE results[p]
  OBVIOUS
<1>3. Failed' = Failed \union {e.index}
  BY <1>1, <1>2 DEF Failed
<1>4. results' \in Seq(Entry)
  OBVIOUS
<1>5. ASSUME \A p, q \in DOMAIN results : results[p].index = results[q].index => p = q,
             e.index \notin Failed,
             NEW p \in DOMAIN results', NEW q \in DOMAIN results',
             results'[p].index = results'[q].index
      PROVE  p = q
  BY <1>1, <1>2, <1>5 DEF Failed
<1> QED
  BY <1>3, <1>4, <1>5

LEMMA PoolStep == PoolInv /\ [WaveNext]_wave => PoolInv'
<1> SUFFICES ASSUME PoolInv, [WaveNext]_wave
             PROVE  PoolInv'
  OBVIOUS
<1> USE NAssumption DEF PoolInv, history
<1> USE DEF Busy
<1>1. ASSUME NEW w \in Worker, Take(w)
      PROVE  PoolInv'
  <2>0. Failed' = Failed
    BY <1>1 DEF Take, Failed
  <2>1. WaveTypeOK'
    BY <1>1 DEF Take, WaveTypeOK
  <2>2. Places'
    BY <1>1, <2>0 DEF Take, WaveTypeOK, Places, Index
  <2>3. Ends'
    BY <1>1 DEF Take, WaveTypeOK, Ends
  <2>4. Once'
    BY <1>1, <2>0 DEF Take, Once
  <2> QED
    BY <2>1, <2>2, <2>3, <2>4
<1>2. ASSUME NEW w \in Worker, Quit(w)
      PROVE  PoolInv'
  <2>0. Failed' = Failed
    BY <1>2 DEF Quit, Failed
  <2>1. WaveTypeOK' /\ Once'
    BY <1>2, <2>0 DEF Quit, WaveTypeOK, Once
  <2>2. Places'
    BY <1>2, <2>0, ZenonT(60) DEF Quit, WaveTypeOK, Places
  <2>3. Ends'
    BY <1>2 DEF Quit, WaveTypeOK, Ends
  <2> QED
    BY <2>1, <2>2, <2>3
<1>3. ASSUME NEW w \in Worker, CheckContext(w)
      PROVE  PoolInv'
  <2>0. Failed' = Failed
    BY <1>3 DEF CheckContext, Failed
  <2>1. WaveTypeOK' /\ Once'
    BY <1>3, <2>0 DEF CheckContext, WaveTypeOK, Once, Failure
  <2>2. Places'
    <3>1. PICK place \in {"send", "begin"} :
             /\ at' = [at EXCEPT ![w] = place]
             /\ place = "send" => why' = [why EXCEPT ![w] = "cancelled"]
             /\ place = "begin" => why' = why
      BY <1>3 DEF CheckContext
    <3>2. UNCHANGED <<next, job, results, calls, fresh>>
      BY <1>3 DEF CheckContext
    <3>3. \A v \in Worker : Busy(v)' <=> Busy(v)
      BY <1>3, <3>1 DEF CheckContext, WaveTypeOK
    <3>4. \A v \in Worker : at'[v] = "send" => why'[v] \in Failure
      BY <1>3, <3>1 DEF CheckContext, WaveTypeOK, Places, Failure
    <3>5. \A v \in Worker : at'[v] \in {"check", "begin"} => calls'[job'[v]] = 0
      BY <1>3, <3>1, <3>2 DEF CheckContext, WaveTypeOK, Places
    <3> HIDE DEF Busy
    <3> QED
      BY <2>0, <3>2, <3>3, <3>4, <3>5 DEF Places
  <2>3. Ends'
    BY <1>3 DEF CheckContext, WaveTypeOK, Ends
  <2> QED
    BY <2>1, <2>2, <2>3
<1>4. ASSUME NEW w \in Worker, BeginRefresh(w)
      PROVE  PoolInv'
  <2>0. Failed' = Failed /\ job[w] \in Index
    BY <1>4 DEF BeginRefresh, Failed, Places
  <2>1. WaveTypeOK'
    BY <1>4, <2>0 DEF BeginRefresh, WaveTypeOK
  <2>2. Once'
    BY <1>4, <2>0 DEF BeginRefresh, WaveTypeOK, Once, Places
  <2>3. Places'
    BY <1>4, <2>0 DEF BeginRefresh, WaveTypeOK, Places, Index
  <2>4. Ends'
    BY <1>4 DEF BeginRefresh, WaveTypeOK, Ends
  <2> QED
    BY <2>1, <2>2, <2>3, <2>4
<1>5. ASSUME NEW w \in Worker, DeadlinePasses(w)
      PROVE  PoolInv'
  <2>0. Failed' = Failed
    BY <1>5 DEF DeadlinePasses, Failed
  <2> QED
    BY <1>5, <2>0 DEF DeadlinePasses, WaveTypeOK, Places, Ends, Once
<1>6. ASSUME NEW w \in Worker, EndRefresh(w)
      PROVE  PoolInv'
  <2>0. Failed' = Failed /\ job[w] \in Index
    BY <1>6 DEF EndRefresh, Failed, Places
  <2>1. WaveTypeOK'
    BY <1>6, <2>0 DEF EndRefresh, WaveTypeOK, Failure
  <2>2. Once'
    BY <1>6, <2>0 DEF EndRefresh, WaveTypeOK, Once, Places
  <2>3. Places'
    <3>1. CASE at' = [at EXCEPT ![w] = "idle"] /\ fresh' = fresh \union {job[w]}
      BY <1>6, <2>0, <3>1 DEF EndRefresh, WaveTypeOK, Places, Index
    <3>2. CASE at' = [at EXCEPT ![w] = "send"] /\ UNCHANGED fresh
      <4>1. PICK f \in Failure : why' = [why EXCEPT ![w] = f]
        BY <1>6, <3>2 DEF EndRefresh, WaveTypeOK, Failure
      <4> QED
        BY <1>6, <2>0, <3>2, <4>1 DEF EndRefresh, WaveTypeOK, Places, Index
    <3> QED
      BY <1>6, <3>1, <3>2 DEF EndRefresh
  <2>4. Ends'
    BY <1>6 DEF EndRefresh, WaveTypeOK, Ends
  <2> QED
    BY <2>1, <2>2, <2>3, <2>4
<1>7. ASSUME NEW w \in Worker, Send(w)
      PROVE  PoolInv'
  <2> DEFINE e == [index |-> job[w], why |-> why[w]]
  <2>0. e \in Entry /\ e.index = job[w] /\ job[w] \notin fresh \union Failed
    BY <1>7 DEF Send, Places, Entry
  <2>1. /\ Failed' = Failed \union {job[w]}
        /\ results' \in Seq(Entry)
        /\ \A p, q \in DOMAIN results' : results'[p].index = results'[q].index => p = q
    BY <1>7, <2>0, FailedAppend DEF Send, WaveTypeOK, Once
  <2>2. WaveTypeOK'
    BY <1>7, <2>1 DEF Send, WaveTypeOK
  <2>3. Once'
    BY <1>7, <2>0, <2>1 DEF Send, Once
  <2>4. Places'
    BY <1>7, <2>0, <2>1 DEF Send, WaveTypeOK, Places
  <2>5. Ends'
    BY <1>7 DEF Send, WaveTypeOK, Ends
  <2> QED
    BY <2>2, <2>3, <2>4, <2>5
<1>8. ASSUME Collect \/ Cancel
      PROVE  PoolInv'
  <2>0. Failed' = Failed
    BY <1>8 DEF Collect, Cancel, Failed
  <2>1. WaveTypeOK' /\ Ends'
    BY <1>8 DEF Collect, Cancel, WaveTypeOK, Ends
  <2>2. UNCHANGED <<next, at, job, why, results, calls, fresh>>
    BY <1>8 DEF Collect, Cancel
  <2>3. Places' /\ Once'
    BY <2>0, <2>2 DEF Places, Once
  <2> QED
    BY <2>1, <2>3
<1>9. CASE UNCHANGED wave
  BY <1>9 DEF wave, WaveTypeOK, Places, Ends, Once, Failed
<1> QED
  BY <1>1, <1>2, <1>3, <1>4, <1>5, <1>6, <1>7, <1>8, <1>9 DEF WaveNext, Work

LEMMA PoolInvariance == WaveSpec => []PoolInv
BY InitPoolInv, PoolStep, PTL DEF WaveSpec

\* The wave's variables keep their types; no index leaves the account pool.
THEOREM PoolTypeOK == WaveSpec => []WaveTypeOK
<1>1. PoolInv => WaveTypeOK
  BY DEF PoolInv
<1>2. QED
  BY <1>1, PoolInvariance, PTL

\* refreshAccountIDs drops no account, counts none twice and asks no provider
\* twice, for every pool, concurrency, deadline and cancellation.
THEOREM PoolEachAccountOnce == WaveSpec => []EachAccountOnce
<1>1. PoolInv => EachAccountOnce
  <2> SUFFICES ASSUME PoolInv, main = "returned"
               PROVE  fresh \union Failed = Index
    BY DEF PoolInv, Once, EachAccountOnce
  <2> USE DEF PoolInv, WaveTypeOK
  <2>1. Failed \subseteq Index
    <3> SUFFICES ASSUME NEW p \in DOMAIN results
                 PROVE  results[p].index \in Index
      BY DEF Failed
    <3>1. results[p] \in Entry
      OBVIOUS
    <3> QED
      BY <3>1 DEF Entry
  <2>2. ASSUME NEW i \in Index
        PROVE  i \in fresh \union Failed
    <3>1. N > 0 /\ i < N + 1
      BY NAssumption DEF Index
    <3>2. 1 \in Worker /\ at[1] = "done"
      BY <3>1, WorkersAreThere DEF Ends
    <3>3. i < next
      BY <3>1, <3>2 DEF Ends
    <3> QED
      BY <3>3 DEF Places, Ends, Busy
  <2> QED
    BY <2>1, <2>2
<1>2. QED
  BY <1>1, PoolInvariance, PTL

-----------------------------------------------------------------------------
(* The end of a cancelled wave *)

\* The workers that have looked at the context and are about to begin.
Beginning == {w \in Worker : at[w] = "begin"}

\* Each account that is begun after the cancellation uses up a worker that had
\* looked before it, and no worker looks twice.
Overrun ==
    /\ ~cancelled => overrun = {}
    /\ Cardinality(overrun) + Cardinality(Beginning) <= WorkerCount

LEMMA Finite ==
    ASSUME NEW O \in SUBSET Index, NEW B \in SUBSET Worker
    PROVE  /\ IsFiniteSet(O) /\ Cardinality(O) \in Nat
           /\ IsFiniteSet(B) /\ Cardinality(B) \in Nat
           /\ Cardinality(B) <= WorkerCount
<1>1. IsFiniteSet(Index)
  BY FS_Interval, NAssumption DEF Index
<1>2. IsFiniteSet(O) /\ Cardinality(O) \in Nat
  BY <1>1, FS_Subset, FS_CardinalityType
<1>3. WorkerCount \in Nat
  BY WorkersAreThere
<1>4. IsFiniteSet(Worker) /\ Cardinality(Worker) = WorkerCount
  BY <1>3, FS_Interval DEF Worker
<1>5. IsFiniteSet(B) /\ Cardinality(B) <= WorkerCount
  BY <1>4, FS_Subset
<1> QED
  BY <1>2, <1>5, FS_CardinalityType

LEMMA InitOverrun == WaveInit => Overrun
<1> SUFFICES ASSUME WaveInit PROVE Overrun
  OBVIOUS
<1>1. overrun = {} /\ Beginning = {}
  BY DEF WaveInit, Beginning
<1>2. Cardinality(overrun) = 0 /\ Cardinality(Beginning) = 0
  BY <1>1, FS_EmptySet
<1> QED
  BY <1>1, <1>2, WorkersAreThere DEF Overrun

LEMMA OverrunStep == PoolInv /\ Overrun /\ [WaveNext]_wave => Overrun'
<1> SUFFICES ASSUME PoolInv, Overrun, [WaveNext]_wave
             PROVE  Overrun'
  OBVIOUS
<1> USE DEF PoolInv, history
<1>a. /\ overrun \in SUBSET Index /\ overrun' \in SUBSET Index
      /\ Beginning \in SUBSET Worker /\ Beginning' \in SUBSET Worker
  BY PoolStep DEF WaveTypeOK, Beginning
<1>b. /\ IsFiniteSet(overrun) /\ Cardinality(overrun) \in Nat
      /\ IsFiniteSet(Beginning) /\ Cardinality(Beginning) \in Nat
      /\ Cardinality(Beginning) <= WorkerCount /\ WorkerCount \in Nat
  BY <1>a, Finite, WorkersAreThere
<1>c. /\ IsFiniteSet(Beginning') /\ Cardinality(Beginning') \in Nat
      /\ Cardinality(Beginning') <= WorkerCount
  BY <1>a, Finite
<1>d. ASSUME overrun' = {}
      PROVE  Overrun'
  <2>1. Cardinality(overrun') = 0
    BY <1>d, FS_EmptySet
  <2> QED
    BY <1>c, <1>d, <2>1 DEF Overrun
<1>1. ASSUME NEW w \in Worker, BeginRefresh(w)
      PROVE  Overrun'
  <2>1. CASE ~cancelled
    BY <1>d, <1>1, <2>1 DEF BeginRefresh, Overrun
  <2>2. CASE cancelled
    <3>1. /\ overrun' = overrun \union {job[w]} /\ UNCHANGED cancelled
          /\ w \in Beginning /\ Beginning' = Beginning \ {w}
      BY <1>1, <2>2 DEF BeginRefresh, Beginning, WaveTypeOK
    <3>2. Cardinality(overrun') <= Cardinality(overrun) + 1
      <4>1. Cardinality(overrun \union {job[w]}) =
               IF job[w] \in overrun THEN Cardinality(overrun) ELSE Cardinality(overrun) + 1
        BY <1>b, FS_AddElement
      <4> QED
        BY <1>b, <3>1, <4>1
    <3>3. Cardinality(Beginning') = Cardinality(Beginning) - 1
      BY <1>b, <3>1, FS_RemoveElement
    <3>4. Cardinality(overrun') \in Nat
      BY <1>a, Finite
    <3> QED
      BY <1>b, <2>2, <3>1, <3>2, <3>3, <3>4 DEF Overrun
  <2> QED
    BY <2>1, <2>2
<1>2. ASSUME NEW w \in Worker, CheckContext(w)
      PROVE  Overrun'
  <2>1. CASE ~cancelled
    BY <1>d, <1>2, <2>1 DEF CheckContext, Overrun
  <2>2. CASE cancelled
    <3>1. UNCHANGED <<overrun, cancelled>> /\ Beginning' = Beginning
      BY <1>2, <2>2 DEF CheckContext, Beginning, WaveTypeOK
    <3> QED
      BY <3>1 DEF Overrun
  <2> QED
    BY <2>1, <2>2
<1>3. ASSUME \/ \E w \in Worker : \/ Take(w) \/ Quit(w) \/ DeadlinePasses(w)
                                  \/ EndRefresh(w) \/ Send(w)
             \/ Collect \/ UNCHANGED wave
      PROVE  Overrun'
  <2>1. UNCHANGED <<overrun, cancelled>>
    BY <1>3 DEF Take, Quit, DeadlinePasses, EndRefresh, Send, Collect, wave
  <2>2. Beginning' = Beginning
    <3>1. \A v \in Worker : at'[v] = "begin" <=> at[v] = "begin"
      BY <1>3 DEF Take, Quit, DeadlinePasses, EndRefresh, Send, Collect, wave, WaveTypeOK
    <3> QED
      BY <3>1 DEF Beginning
  <2> QED
    BY <2>1, <2>2 DEF Overrun
<1>4. ASSUME Cancel
      PROVE  Overrun'
  BY <1>d, <1>4 DEF Cancel, Overrun
<1> QED
  BY <1>1, <1>2, <1>3, <1>4 DEF WaveNext, Work

\* Whatever is cancelled when, at most one account for each worker is begun
\* after it.
THEOREM PoolCancellationEndsWave == WaveSpec => []CancellationEndsWave
<1>1. PoolInv /\ Overrun => CancellationEndsWave
  <2> SUFFICES ASSUME PoolInv, Overrun
               PROVE  CancellationEndsWave
    OBVIOUS
  <2>1. overrun \in SUBSET Index /\ Beginning \in SUBSET Worker
    BY DEF PoolInv, WaveTypeOK, Beginning
  <2>2. Cardinality(overrun) \in Nat /\ Cardinality(Beginning) \in Nat /\ WorkerCount \in Nat
    BY <2>1, Finite, WorkersAreThere
  <2>3. Cardinality(overrun) <= WorkerCount
    BY <2>2 DEF Overrun
  <2>4. WorkerCount <= IF Concurrency <= 0 THEN 1 ELSE Concurrency
    BY NAssumption, ConcurrencyAssumption DEF WorkerCount
  <2> QED
    BY <2>2, <2>3, <2>4, ConcurrencyAssumption DEF CancellationEndsWave
<1>2. WaveSpec => []Overrun
  BY InitOverrun, OverrunStep, PoolInvariance, PTL DEF WaveSpec
<1> QED
  BY <1>1, <1>2, PoolInvariance, PTL
=============================================================================
