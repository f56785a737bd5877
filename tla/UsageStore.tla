----------------------------- MODULE UsageStore -----------------------------
(***************************************************************************)
(* The usage tables of the SQLite store (internal/store/sqlite/usage.go):  *)
(* daily totals per account and model, the last cumulative reading of a    *)
(* meter, and the rollout files of Codex whose totals have been imported.  *)
(* Each operation is one transaction: it happens whole or not at all.      *)
(*                                                                         *)
(* The four counters of a row are two here, tokens and requests: input,    *)
(* output and cache tokens are never told apart.                           *)
(***************************************************************************)
EXTENDS Integers, FiniteSets, Sequences, SequencesExt, FiniteSetsExt

CONSTANTS
    Account,    \* accounts
    Provider,   \* Provider[a]: "codex", "tokenrhythm" or "metered"
    LastDay,    \* bound: days are 1 .. LastDay
    Model,      \* names of models
    Unnamed,    \* the empty model name, of usage that no model is known for
    Source,     \* rollout files
    None

Day == 1 .. LastDay
Names == Model \union {Unnamed}
Key == Day \X Names
Counters == [tokens : Nat, requests : Nat]
Zero == [tokens |-> 0, requests |-> 0]

ASSUME ProviderAssumption == Provider \in [Account -> {"codex", "tokenrhythm", "metered"}]
ASSUME LastDayAssumption == LastDay \in Nat \ {0}
ASSUME NamesAssumption == Unnamed \notin Model /\ IsFiniteSet(Model) /\ IsFiniteSet(Source)
ASSUME NoneAssumption == None \notin Counters \union Nat \union [at : Nat, counters : Counters]

VARIABLES
    connected,  \* connected_accounts: the accounts there are
    daily,      \* usage_daily_attributed: daily[a][<<d, m>>], or None
    baseline,   \* usage_cumulative_snapshots: [at, counters], or None
    hash,       \* codex_usage_import_sources: content_hash of a file, or None
    entries     \* codex_usage_import_entries: entries[a][s][<<d, m>>], or None

tables == <<connected, daily, baseline, hash, entries>>

NoRows == [k \in Key |-> None]
NoEntries == [s \in Source |-> [k \in Day \X Model |-> None]]

Plus(x, y) == [tokens |-> x.tokens + y.tokens, requests |-> x.requests + y.requests]
AtMost(x, y) == x.tokens <= y.tokens /\ x.requests <= y.requests
Total(S, f) == FoldFunctionOnSet(Plus, Zero, f, S)

\* What the dashboard shows: a missing row counts nothing.
Shown(row) == IF row = None THEN Zero ELSE row

StoreInit(accounts) ==
    /\ connected = accounts
    /\ daily = [a \in Account |-> NoRows]
    /\ baseline = [a \in Account |-> None]
    /\ hash = [a \in Account |-> [s \in Source |-> None]]
    /\ entries = [a \in Account |-> NoEntries]

-----------------------------------------------------------------------------
\* usageCountersRolledBack: one counter that went back is enough.
RolledBack(previous, current) == ~AtMost(previous, current)

\* subtractUsageCounters
Minus(current, previous) ==
    [tokens |-> current.tokens - previous.tokens, requests |-> current.requests - previous.requests]

\* addDailyUsageDelta, on the day of the reading.
AddDailyDelta(a, day, delta) ==
    daily' = [daily EXCEPT ![a][<<day, Unnamed>>] = Plus(Shown(@), delta)]

\* A mutant: whatever reading comes last is the baseline of the next.
RecordInAnyOrder(a, reading, day) ==
    /\ a \in connected
    /\ baseline' = [baseline EXCEPT ![a] = reading]
    /\ IF baseline[a] = None \/ RolledBack(baseline[a].counters, reading.counters)
       THEN UNCHANGED daily
       ELSE AddDailyDelta(a, day, Minus(reading.counters, baseline[a].counters))
    /\ UNCHANGED <<connected, hash, entries>>

\* RecordUsageSnapshot.  A first reading is a baseline, a later one adds
\* what the meter grew by, one with a counter that went back is a baseline
\* again; a reading that is not newer than the baseline is refused.
RecordUsageSnapshot(a, reading, day) ==
    /\ a \in connected
    /\ \/ baseline[a] = None /\ UNCHANGED daily
       \/ /\ baseline[a] # None /\ reading.at > baseline[a].at
          /\ IF RolledBack(baseline[a].counters, reading.counters)
                \/ reading.counters = baseline[a].counters
             THEN UNCHANGED daily
             ELSE AddDailyDelta(a, day, Minus(reading.counters, baseline[a].counters))
    /\ baseline' = [baseline EXCEPT ![a] = reading]
    /\ UNCHANGED <<connected, hash, entries>>

\* UpsertAbsoluteDailyUsage: readings[m] for the models the platform
\* names, None for the others.  The rows of the day, and the baselines of
\* the account, give way.
UpsertAbsoluteDailyUsage(a, day, readings) ==
    /\ a \in connected
    /\ daily' = [daily EXCEPT ![a] =
         [k \in Key |-> IF k[1] = day THEN readings[k[2]] ELSE @[k]]]
    /\ baseline' = [baseline EXCEPT ![a] = None]
    /\ UNCHANGED <<connected, hash, entries>>

-----------------------------------------------------------------------------
(* An import is a sequence of [source, hash, entries].                     *)

\* A mutant: the day's entries of a file are added to, not replaced.
ImportSourceKeeping(acc, file) ==
    IF acc.hash[file.source] = file.hash THEN acc
    ELSE [hash |-> [acc.hash EXCEPT ![file.source] = file.hash],
          entries |-> [acc.entries EXCEPT ![file.source] =
              [k \in Day \X Model |-> IF @[k] = None THEN file.entries[k]
                                       ELSE Plus(@[k], Shown(file.entries[k]))]],
          changed |-> TRUE]

\* One file of the batch, against what the transaction has stored so far:
\* an unchanged one is skipped, another replaces its entries.
ImportSource(acc, file) ==
    IF acc.hash[file.source] = file.hash THEN acc
    ELSE [hash |-> [acc.hash EXCEPT ![file.source] = file.hash],
          entries |-> [acc.entries EXCEPT ![file.source] = file.entries],
          changed |-> TRUE]

\* The account's daily rows, from all entries it has.
FromEntries(ent) ==
    LET of(k) == {s \in Source : ent[s][k] # None} IN
    [k \in Key |-> IF k[2] \in Model /\ of(k) # {}
                   THEN Total(of(k), [s \in of(k) |-> ent[s][k]])
                   ELSE None]

\* ReplaceCodexUsageSources: the account's rows are built again from its
\* entries when a file has changed.
ReplaceCodexUsageSources(a, batch) ==
    LET after == FoldLeft(ImportSource,
                          [hash |-> hash[a], entries |-> entries[a], changed |-> FALSE],
                          batch) IN
    /\ a \in connected /\ Provider[a] = "codex"
    /\ batch # <<>>
    /\ hash' = [hash EXCEPT ![a] = after.hash]
    /\ entries' = [entries EXCEPT ![a] = after.entries]
    /\ daily' = IF after.changed THEN [daily EXCEPT ![a] = FromEntries(after.entries)] ELSE daily
    /\ UNCHANGED <<connected, baseline>>

\* A mutant: without foreign keys, the imported files stay.
DeleteWithoutCascade(a) ==
    /\ connected' = connected \ {a}
    /\ daily' = [daily EXCEPT ![a] = NoRows]
    /\ baseline' = [baseline EXCEPT ![a] = None]
    /\ UNCHANGED <<hash, entries>>

\* DeleteConnectedAccount, and the rows that its foreign keys take along.
DeleteConnectedAccount(a) ==
    /\ connected' = connected \ {a}
    /\ daily' = [daily EXCEPT ![a] = NoRows]
    /\ baseline' = [baseline EXCEPT ![a] = None]
    /\ hash' = [hash EXCEPT ![a] = [s \in Source |-> None]]
    /\ entries' = [entries EXCEPT ![a] = NoEntries]
=============================================================================
