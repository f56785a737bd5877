----------------------------- MODULE AccountSync -----------------------------
(***************************************************************************)
(* AccountSync (internal/service/account_sync.go): the scheduler's and the *)
(* users' refreshes of all accounts, serialised by runMu, and the timer    *)
(* that a manual refresh puts off through the channel reset.               *)
(*                                                                         *)
(* Times are relative: status.next and timer are the ticks left, so the    *)
(* behaviours are unbounded and the states few.  RefreshAll is RefreshPool;*)
(* here it has a result.                                                   *)
(***************************************************************************)
EXTENDS Integers

CONSTANTS
    Caller,       \* requests of users that may be in progress together
    Scheduler,    \* the goroutine of RunScheduler
    Interval,     \* ticks between two scheduled refreshes
    StartupDelay, \* the longest initial delay
    None          \* a time not set, no holder, no trigger

ASSUME TimeAssumption ==
    /\ Interval \in Nat \ {0}
    /\ StartupDelay \in Nat \ {0}
    /\ None \notin Nat
ASSUME ProcAssumption == Scheduler \notin Caller /\ None \notin Caller \union {Scheduler}

Proc == Caller \union {Scheduler}

VARIABLES
    pc,          \* pc[p]
    runMu,       \* who holds it, or None
    status,      \* domain.AccountSyncStatus, guarded by mu
    timer,       \* ticks until timer.C is ready, or None: not armed
    reset,       \* the channel reset holds its one message
    expired,     \* the context of the run in progress is done
    failed,      \* RefreshAll of the run in progress returned an error
    probe,       \* its scan: "none", "ok" (or busy), "failed"
    shutdown,    \* the scheduler's context is done
    sinceRun     \* ticks since a refresh ended, by its trigger; Interval: or more

vars == <<pc, runMu, status, timer, reset, expired, failed, probe, shutdown, sinceRun>>
run == <<expired, failed, probe>>

Trigger(p) == IF p = Scheduler THEN "scheduled" ELSE "manual"

Init ==
    /\ pc = [p \in Proc |-> IF p = Scheduler THEN "boot" ELSE "ready"]
    /\ runMu = None
    /\ status = [running |-> FALSE, trigger |-> None, result |-> "never", next |-> None]
    /\ timer = None
    /\ reset = FALSE
    /\ expired = FALSE /\ failed = FALSE /\ probe = "none"
    /\ shutdown = FALSE
    /\ sinceRun = [t \in {"manual", "scheduled"} |-> Interval]

Goto(p, place) == pc' = [pc EXCEPT ![p] = place]

-----------------------------------------------------------------------------
(* Refresh *)

\* Mutant: Lock is taken without asking.
TryLockAlways(p) ==
    /\ pc[p] \in {"ready", "due"}
    /\ runMu' = p
    /\ Goto(p, "start")
    /\ UNCHANGED <<status, timer, reset, run, shutdown, sinceRun>>

\* A refresh that finds the lock taken is turned away.
TryLock(p) ==
    /\ pc[p] \in {"ready", "due"}
    /\ \/ /\ runMu = None
          /\ runMu' = p
          /\ Goto(p, "start")
       \/ /\ runMu # None
          /\ runMu' = runMu
          /\ Goto(p, IF p = Scheduler THEN "arm" ELSE "ready")
    /\ UNCHANGED <<status, timer, reset, run, shutdown, sinceRun>>

Start(p) ==
    /\ pc[p] = "start"
    /\ status' = [status EXCEPT !.running = TRUE, !.trigger = Trigger(p)]
    /\ expired' = FALSE /\ failed' = FALSE /\ probe' = "none"
    /\ Goto(p, "refresh")
    /\ UNCHANGED <<runMu, timer, reset, shutdown, sinceRun>>

\* The ten minutes of the run are over, its user has gone, or (the parent of a
\* scheduled run) the process is being stopped.
Expire ==
    /\ runMu # None
    /\ pc[runMu] \in {"refresh", "scan"}
    /\ ~expired
    /\ expired' = TRUE
    /\ UNCHANGED <<pc, runMu, status, timer, reset, failed, probe, shutdown, sinceRun>>

RefreshAll(p) ==
    /\ pc[p] = "refresh"
    /\ failed' \in BOOLEAN
    /\ Goto(p, "scan")
    /\ UNCHANGED <<runMu, status, timer, reset, expired, probe, shutdown, sinceRun>>

\* Evaluate, only while the run's context lasts; a busy evaluator counts as ok.
Scan(p) ==
    /\ pc[p] = "scan"
    /\ \/ expired /\ probe' = "none"
       \/ ~expired /\ probe' \in {"ok", "failed"}
    /\ Goto(p, "complete")
    /\ UNCHANGED <<runMu, status, timer, reset, expired, failed, shutdown, sinceRun>>

Result ==
    IF failed THEN "failed"
    ELSE IF probe = "failed" THEN "partial"
    ELSE "success"

Complete(p) ==
    /\ pc[p] = "complete"
    /\ status' = [status EXCEPT !.running = FALSE, !.trigger = None, !.result = Result,
                                !.next = IF p = Scheduler THEN @ ELSE Interval]
    /\ sinceRun' = [sinceRun EXCEPT ![Trigger(p)] = 0]
    /\ Goto(p, IF p = Scheduler THEN "unlock" ELSE "signal")
    /\ UNCHANGED <<runMu, timer, reset, run, shutdown>>

\* Mutant: the scheduler is not told.
SignalNobody(p) ==
    /\ pc[p] = "signal"
    /\ Goto(p, "unlock")
    /\ UNCHANGED <<runMu, status, timer, reset, run, shutdown, sinceRun>>

\* The channel has room for one message; another one would say the same.
Signal(p) ==
    /\ pc[p] = "signal"
    /\ reset' = TRUE
    /\ Goto(p, "unlock")
    /\ UNCHANGED <<runMu, status, timer, run, shutdown, sinceRun>>

\* Mutant: after a scheduled refresh the timer is not armed again.
UnlockOnly(p) ==
    /\ pc[p] = "unlock"
    /\ runMu' = None
    /\ Goto(p, IF p = Scheduler THEN "select" ELSE "ready")
    /\ UNCHANGED <<status, timer, reset, run, shutdown, sinceRun>>

Unlock(p) ==
    /\ pc[p] = "unlock"
    /\ runMu' = None
    /\ Goto(p, IF p = Scheduler THEN "arm" ELSE "ready")
    /\ UNCHANGED <<status, timer, reset, run, shutdown, sinceRun>>

-----------------------------------------------------------------------------
(* RunScheduler *)

Boot ==
    /\ pc[Scheduler] = "boot"
    /\ \E delay \in 1 .. StartupDelay :
          /\ status' = [status EXCEPT !.next = delay]
          /\ timer' = delay
    /\ Goto(Scheduler, "select")
    /\ UNCHANGED <<runMu, reset, run, shutdown, sinceRun>>

SelectReset ==
    /\ pc[Scheduler] = "select"
    /\ reset
    /\ reset' = FALSE
    /\ Goto(Scheduler, "arm")
    /\ UNCHANGED <<runMu, status, timer, run, shutdown, sinceRun>>

SelectTimer ==
    /\ pc[Scheduler] = "select"
    /\ timer = 0
    /\ timer' = None
    /\ Goto(Scheduler, "due")
    /\ UNCHANGED <<runMu, status, reset, run, shutdown, sinceRun>>

SelectDone ==
    /\ pc[Scheduler] = "select"
    /\ shutdown
    /\ status' = [status EXCEPT !.next = None]
    /\ timer' = None
    /\ Goto(Scheduler, "stopped")
    /\ UNCHANGED <<runMu, reset, run, shutdown, sinceRun>>

\* Mutant: the startup delay is used again.
ScheduleSoon ==
    /\ pc[Scheduler] = "arm"
    /\ status' = [status EXCEPT !.next = StartupDelay]
    /\ timer' = StartupDelay
    /\ Goto(Scheduler, "select")
    /\ UNCHANGED <<runMu, reset, run, shutdown, sinceRun>>

\* schedule: the status first, then the timer, stopped and reset.
Schedule ==
    /\ pc[Scheduler] = "arm"
    /\ status' = [status EXCEPT !.next = Interval]
    /\ timer' = Interval
    /\ Goto(Scheduler, "select")
    /\ UNCHANGED <<runMu, reset, run, shutdown, sinceRun>>

-----------------------------------------------------------------------------
Shutdown ==
    /\ ~shutdown
    /\ shutdown' = TRUE
    /\ UNCHANGED <<pc, runMu, status, timer, reset, run, sinceRun>>

\* A time that has come stays at zero.
Less(t) == IF t = None \/ t = 0 THEN t ELSE t - 1

Tick ==
    /\ status' = [status EXCEPT !.next = Less(@)]
    /\ timer' = Less(timer)
    /\ sinceRun' = [t \in DOMAIN sinceRun |-> IF sinceRun[t] < Interval THEN sinceRun[t] + 1 ELSE Interval]
    /\ UNCHANGED <<pc, runMu, reset, run, shutdown>>

-----------------------------------------------------------------------------
Refresh(p) ==
    TryLock(p) \/ Start(p) \/ RefreshAll(p) \/ Scan(p) \/ Complete(p) \/ Signal(p) \/ Unlock(p)

RunScheduler == Refresh(Scheduler) \/ Boot \/ SelectReset \/ SelectTimer \/ SelectDone \/ Schedule

Next == (\E p \in Caller : Refresh(p)) \/ RunScheduler \/ Expire \/ Shutdown \/ Tick

Spec == Init /\ [][Next]_vars

\* Goroutines go on, a run ends (RefreshPool!WaveReturns), time passes.  select
\* chooses at random among the channels that are ready, so it does not pass over
\* the context for ever.  No user has to ask for a refresh.
FairSpec ==
    /\ Spec
    /\ WF_vars(Tick)
    /\ WF_vars(RunScheduler)
    /\ SF_vars(SelectDone)
    /\ \A p \in Caller : WF_vars(pc[p] # "ready" /\ Refresh(p))

-----------------------------------------------------------------------------
Time == 0 .. Interval

TypeOK ==
    /\ pc \in [Proc -> {"ready", "start", "refresh", "scan", "complete", "signal", "unlock",
                        "boot", "select", "due", "arm", "stopped"}]
    /\ runMu \in Proc \union {None}
    /\ status \in [running : BOOLEAN, trigger : {"manual", "scheduled", None},
                   result : {"never", "success", "failed", "partial"}, next : Nat \union {None}]
    /\ timer \in Nat \union {None}
    /\ reset \in BOOLEAN
    /\ expired \in BOOLEAN /\ failed \in BOOLEAN /\ probe \in {"none", "ok", "failed"}
    /\ shutdown \in BOOLEAN
    /\ sinceRun \in [{"manual", "scheduled"} -> Time]

InRun(p) == pc[p] \in {"start", "refresh", "scan", "complete", "signal", "unlock"}
Reported(p) == pc[p] \in {"refresh", "scan", "complete"}

\* Refreshes never overlap, and the status tells which one is running: whoever
\* is between its first and its last update of the status is the one it names.
StatusNamesTheRun ==
    /\ \A p, q \in Proc : InRun(p) /\ InRun(q) => p = q
    /\ status.running <=> \E p \in Proc : Reported(p)
    /\ \A p \in Proc : Reported(p) => status.trigger = Trigger(p)

\* The next run the status announces is the one the timer is armed for, unless
\* a manual refresh has just moved it and the scheduler has yet to be told.
AnnouncedIsArmed ==
    (/\ pc[Scheduler] = "select"
     /\ ~reset
     /\ \A p \in Caller : pc[p] # "signal")
        => status.next = timer

\* Two scheduled refreshes are an interval apart, however long one takes and
\* whatever manual refreshes did to the timer in between.
ScheduledRunsApart ==
    [][pc[Scheduler] = "due" /\ pc'[Scheduler] = "start"
          => sinceRun["scheduled"] = Interval]_vars

\* Unless the process is stopped, or users go on refreshing by hand, the
\* accounts are refreshed on schedule again and again; and once its context
\* is done the scheduler stops, whatever it was waiting for.
RunsUntilStopped ==
    /\ (<>[](\A p \in Caller : pc[p] = "ready") /\ []~shutdown)
         => []<>(pc[Scheduler] = "refresh")
    /\ shutdown ~> pc[Scheduler] = "stopped"
=============================================================================
