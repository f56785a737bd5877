----------------------------- MODULE RefreshPool -----------------------------
(***************************************************************************)
(* refreshAccountIDs (internal/service/account_refresh.go): one wave that  *)
(* refreshes a list of accounts with a bounded number of goroutines.  The  *)
(* channel of jobs is filled and closed before the workers start, so it is *)
(* the first account not taken yet; results is a channel that is read only *)
(* once every worker has returned.                                         *)
(***************************************************************************)
EXTENDS Integers, Sequences, FiniteSets, TLC

CONSTANTS
    N,            \* number of accounts; an account is its position in the pool
    Concurrency,  \* the concurrency asked for
    NoFailure     \* no error

ASSUME NAssumption == N \in Nat
ASSUME ConcurrencyAssumption == Concurrency \in Int

Index == 1 .. N

\* At least one worker, at most one for each account.
WorkerCount ==
    IF Concurrency <= 0 THEN IF N > 0 THEN 1 ELSE 0
    ELSE IF Concurrency > N THEN N
    ELSE Concurrency

Worker == 1 .. WorkerCount

\* Mutant: a buffer as large as the number of workers.
ResultsCapacityPerWorker == WorkerCount

\* The buffer of results: a worker must never wait for a reader.
ResultsCapacity == N

\* The account's own error, its 45 seconds, or the end of the whole wave.
Failure == {"refresh", "deadline", "cancelled"}

VARIABLES
    next,       \* the head of jobs; jobs is empty when next > N
    at,         \* at[w]: where worker w is
    job,        \* job[w]: the account it took last, 0 before the first
    late,       \* late[w]: the deadline of that account has passed
    why,        \* why[w]: the failure it is about to report
    results,    \* what the workers have sent
    cancelled,  \* the parent context is done
    main,       \* the caller: waiting for the workers, or returned
    report,     \* the failures of the batch error; empty: nil
    calls,      \* calls[i]: how often refresh was called for account i
    fresh,      \* accounts refreshed in time
    overrun     \* accounts whose refresh was called after the cancellation

wave == <<next, at, job, late, why, results, cancelled, main, report, calls, fresh, overrun>>
history == <<calls, fresh, overrun>>

Entry == [index : Index, why : Failure]

WaveInit ==
    /\ next = 1
    /\ at = [w \in Worker |-> "idle"]
    /\ job = [w \in Worker |-> 0]
    /\ late = [w \in Worker |-> FALSE]
    /\ why = [w \in Worker |-> NoFailure]
    /\ results = <<>>
    /\ cancelled \in BOOLEAN
    /\ main = IF N = 0 THEN "returned" ELSE "waiting"
    /\ report = <<>>
    /\ calls = [i \in Index |-> 0]
    /\ fresh = {}
    /\ overrun = {}

-----------------------------------------------------------------------------
\* Receive the next account from jobs ...
Take(w) ==
    /\ at[w] = "idle"
    /\ next <= N
    /\ job' = [job EXCEPT ![w] = next]
    /\ next' = next + 1
    /\ at' = [at EXCEPT ![w] = "check"]
    /\ UNCHANGED <<late, why, results, cancelled, main, report, history>>

\* ... or find it closed and empty.
Quit(w) ==
    /\ at[w] = "idle"
    /\ next > N
    /\ at' = [at EXCEPT ![w] = "done"]
    /\ UNCHANGED <<next, job, late, why, results, cancelled, main, report, history>>

\* Mutants: a worker that finds the wave cancelled returns without reporting
\* its account; nobody looks.
CheckContextAndReturn(w) ==
    /\ at[w] = "check"
    /\ at' = [at EXCEPT ![w] = IF cancelled THEN "done" ELSE "begin"]
    /\ UNCHANGED <<next, job, late, why, results, cancelled, main, report, history>>

CheckContextNever(w) ==
    /\ at[w] = "check"
    /\ at' = [at EXCEPT ![w] = "begin"]
    /\ UNCHANGED <<next, job, late, why, results, cancelled, main, report, history>>

\* ctx.Err before the account is begun.
CheckContext(w) ==
    /\ at[w] = "check"
    /\ \/ /\ cancelled
          /\ at' = [at EXCEPT ![w] = "send"]
          /\ why' = [why EXCEPT ![w] = "cancelled"]
       \/ /\ ~cancelled
          /\ at' = [at EXCEPT ![w] = "begin"]
          /\ UNCHANGED why
    /\ UNCHANGED <<next, job, late, results, cancelled, main, report, history>>

\* A deadline of its own, then the call.
BeginRefresh(w) ==
    /\ at[w] = "begin"
    /\ at' = [at EXCEPT ![w] = "refresh"]
    /\ late' = [late EXCEPT ![w] = FALSE]
    /\ calls' = [calls EXCEPT ![job[w]] = @ + 1]
    /\ overrun' = IF cancelled THEN overrun \union {job[w]} ELSE overrun
    /\ UNCHANGED <<next, job, why, results, cancelled, main, report, fresh>>

DeadlinePasses(w) ==
    /\ at[w] = "refresh"
    /\ ~late[w]
    /\ late' = [late EXCEPT ![w] = TRUE]
    /\ UNCHANGED <<next, at, job, why, results, cancelled, main, report, history>>

\* A refresh that returns nil after its context has ended is a failure too.
EndRefresh(w) ==
    /\ at[w] = "refresh"
    /\ \/ /\ ~late[w] /\ ~cancelled
          /\ fresh' = fresh \union {job[w]}
          /\ at' = [at EXCEPT ![w] = "idle"]
          /\ UNCHANGED why
       \/ /\ \/ why' = [why EXCEPT ![w] = "refresh"]
             \/ late[w] /\ why' = [why EXCEPT ![w] = "deadline"]
             \/ cancelled /\ why' = [why EXCEPT ![w] = "cancelled"]
          /\ at' = [at EXCEPT ![w] = "send"]
          /\ UNCHANGED fresh
    /\ UNCHANGED <<next, job, late, results, cancelled, main, report, calls, overrun>>

\* Send on results.
Send(w) ==
    /\ at[w] = "send"
    /\ Len(results) < ResultsCapacity
    /\ results' = Append(results, [index |-> job[w], why |-> why[w]])
    /\ at' = [at EXCEPT ![w] = "idle"]
    /\ UNCHANGED <<next, job, late, why, cancelled, main, report, history>>

Earlier(f, g) == f.index < g.index
InPoolOrder(failures) == SortSeq(failures, Earlier)

\* workers.Wait returns; the failures are put back into pool order.
Collect ==
    /\ main = "waiting"
    /\ \A w \in Worker : at[w] = "done"
    /\ report' = InPoolOrder(results)
    /\ main' = "returned"
    /\ UNCHANGED <<next, at, job, late, why, results, cancelled, history>>

\* The caller goes away, or the ten minutes of the wave are over.
Cancel ==
    /\ main = "waiting"
    /\ ~cancelled
    /\ cancelled' = TRUE
    /\ UNCHANGED <<next, at, job, late, why, results, main, report, history>>

-----------------------------------------------------------------------------
Work(w) ==
    Take(w) \/ Quit(w) \/ CheckContext(w) \/ BeginRefresh(w) \/ EndRefresh(w) \/ Send(w)

WaveNext == (\E w \in Worker : Work(w) \/ DeadlinePasses(w)) \/ Collect \/ Cancel

WaveSpec == WaveInit /\ [][WaveNext]_wave

\* A goroutine that can go on does, and a refresh returns: it ends with its
\* context, which ends with its deadline at the latest.
WaveFairSpec == WaveSpec /\ WF_wave(Collect) /\ \A w \in Worker : WF_wave(Work(w))

-----------------------------------------------------------------------------
Busy(w) == at[w] \in {"check", "begin", "refresh", "send"}

WaveTypeOK ==
    /\ next \in 1 .. N + 1
    /\ at \in [Worker -> {"idle", "check", "begin", "refresh", "send", "done"}]
    /\ job \in [Worker -> 0 .. N]
    /\ late \in [Worker -> BOOLEAN]
    /\ why \in [Worker -> Failure \union {NoFailure}]
    /\ results \in Seq(Entry)
    /\ cancelled \in BOOLEAN
    /\ main \in {"waiting", "returned"}
    /\ calls \in [Index -> Nat]
    /\ fresh \subseteq Index
    /\ overrun \subseteq Index

Failed == {results[p].index : p \in DOMAIN results}

\* Whatever is cancelled or late, no account is dropped and none is counted
\* twice: when the wave returns, each account was either refreshed in time or
\* has failed, has one failure, and was never asked of its provider twice.
EachAccountOnce ==
    /\ main = "returned" => fresh \union Failed = Index
    /\ fresh \intersect Failed = {}
    /\ \A p, q \in DOMAIN results : results[p].index = results[q].index => p = q
    /\ \A i \in Index : calls[i] <= 1

\* A cancellation ends the wave: beyond the accounts whose check had passed, at
\* most one for each worker, no account is begun, and the rest are reported.
CancellationEndsWave ==
    Cardinality(overrun) <= (IF Concurrency <= 0 THEN 1 ELSE Concurrency)

\* The wave returns: no worker waits for ever, above all not for the reader of
\* results, which reads only after every worker has returned.
WaveReturns == <>(main = "returned")
=============================================================================
