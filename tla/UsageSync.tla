------------------------------ MODULE UsageSync ------------------------------
(***************************************************************************)
(* Where the rows of UsageStore come from: cumulative readings of a meter, *)
(* Codex rollout files read in the browser, and TokenRhythm, whose request *)
(* history is paged through and stored day by day on every refresh         *)
(* (internal/service/tokenrhythm_usage_sync.go,                            *)
(* internal/integration/tokenrhythm/client.go).                            *)
(*                                                                         *)
(* used is the truth that the tables are held against.                     *)
(***************************************************************************)
EXTENDS UsageStore

CONSTANTS
    Starts,         \* the sets of accounts that may be connected at the start
    Refresh,        \* goroutines that refresh the TokenRhythm account
    Connection,     \* goroutines that have just connected it
    PageSize,       \* usageHistoryPageSize
    MaxPages,       \* maxUsageHistoryPages
    MaxUse,         \* bound: steps of use of one account
    MaxReadings,    \* bound: readings taken of the meter
    MaxVersion      \* bound: how often a rollout file grows

ASSUME StartsAssumption == Starts \subseteq SUBSET Account
ASSUME PageAssumption == PageSize \in Nat \ {0} /\ MaxPages \in Nat \ {0}
ASSUME BoundsAssumption == MaxUse \in Nat /\ MaxReadings \in Nat /\ MaxVersion \in Nat

VARIABLES
    today,      \* the calendar day
    used,       \* used[a][d]: what account a used on day d, in truth
    \* a meter
    clock,      \* the number of readings taken: their capture time
    meter,      \* meter[a]: what the meter of account a shows
    taken,      \* taken[a]: the readings taken so far: [at, day, counters]
    \* TokenRhythm
    log,        \* log[a]: the requests made: <<day, model>>, oldest first
    listed,     \* listed[a]: how many of them have come to the request list,
    aged,       \* aged[a]: and how many of these have left its range again
    sync,       \* sync[p]: the refresh that goroutine p is in
    \* Codex
    file        \* file[a][s]: the totals of rollout file s each time it had grown

meterVars == <<clock, meter, taken>>
vars == <<tables, today, used, meterVars, log, listed, aged, sync, file>>

Metered == {a \in connected : Provider[a] = "metered"}
Rhythm == {a \in connected : Provider[a] = "tokenrhythm"}
Codex == {a \in connected : Provider[a] = "codex"}

Process == Refresh \union Connection

\* whole: no step of it has failed, and no other sync has run beside it.
\* floor, made: how many requests the list showed when it began, and how
\* many had been made.
IdleSync == [at |-> "idle", account |-> None, page |-> 0, fetched |-> 0,
             seen |-> {}, todo |-> {}, panel |-> None,
             whole |-> FALSE, floor |-> 0, made |-> 0]

Partial(s) == [s EXCEPT !.whole = FALSE, !.floor = 0, !.made = 0]

Places == {"idle", "page", "days", "panel", "write"}
Panel == [day : Day, readings : [Names -> Counters \union {None}]]
Sync == [at : Places, account : Account \union {None}, page : 0 .. MaxPages, fetched : Nat,
         seen : SUBSET Nat, todo : SUBSET Day, panel : Panel \union {None},
         whole : BOOLEAN, floor : Nat, made : Nat]
Totals == [Day \X Model -> Counters \union {None}]

TablesTypeOK ==
    /\ connected \subseteq Account
    /\ daily \in [Account -> [Key -> Counters \union {None}]]
    /\ baseline \in [Account -> [at : Nat, counters : Counters] \union {None}]
    /\ hash \in [Account -> [Source -> (1 .. MaxVersion) \union {None}]]
    /\ entries \in [Account -> [Source -> Totals]]

UseTypeOK ==
    /\ today \in Day
    /\ used \in [Account -> [Day -> Counters]]
    /\ file \in [Account -> [Source -> Seq(Totals)]]

MeterTypeOK ==
    /\ clock \in 0 .. MaxReadings
    /\ meter \in [Account -> Counters]
    /\ \A a \in Account : taken[a] \subseteq [at : 1 .. clock, day : Day, counters : Counters]

LogTypeOK ==
    /\ log \in [Account -> Seq(Key)]
    /\ listed \in [Account -> Nat] /\ \A a \in Account : listed[a] <= Len(log[a])
    /\ aged \in [Account -> Nat] /\ \A a \in Account : aged[a] <= listed[a]

SyncTypeOK ==
    /\ sync \in [Process -> Sync]
    /\ \A p \in Process : sync[p].at # "idle" =>
         sync[p].account \in Account /\ sync[p].seen \subseteq DOMAIN log[sync[p].account]

TypeOK == TablesTypeOK /\ UseTypeOK /\ MeterTypeOK /\ LogTypeOK /\ SyncTypeOK

Init ==
    /\ \E accounts \in Starts : StoreInit(accounts)
    /\ today = 1
    /\ used = [a \in Account |-> [d \in Day |-> Zero]]
    /\ clock = 0
    /\ meter = [a \in Account |-> Zero] /\ taken = [a \in Account |-> {}]
    /\ log = [a \in Account |-> <<>>]
    /\ listed = [a \in Account |-> 0] /\ aged = [a \in Account |-> 0]
    /\ sync = [p \in Process |-> IdleSync]
    /\ file = [a \in Account |-> [s \in Source |-> <<>>]]

Uses(a, c) == used' = [used EXCEPT ![a][today] = Plus(@, c)]

NextDay ==
    /\ today < LastDay
    /\ today' = today + 1
    /\ UNCHANGED <<tables, used, meterVars, log, listed, aged, sync, file>>

-----------------------------------------------------------------------------
(* A meter, whose readings may be stored late, in any order or twice.      *)

UseMeter ==
    \E a \in Metered, c \in {[tokens |-> 1, requests |-> 0], [tokens |-> 1, requests |-> 1]} :
        /\ Total(Day, used[a]).tokens < MaxUse
        /\ Uses(a, c)
        /\ meter' = [meter EXCEPT ![a] = Plus(@, c)]
        /\ UNCHANGED <<tables, today, clock, taken, log, listed, aged, sync, file>>

\* The platform starts a billing period, or loses its count.
ResetMeter ==
    /\ \E a \in Account : \E c \in {Zero, [tokens |-> 0, requests |-> meter[a].requests]} :
         c # meter[a] /\ meter' = [meter EXCEPT ![a] = c]
    /\ UNCHANGED <<tables, today, used, clock, taken, log, listed, aged, sync, file>>

\* Two readings of one moment, with counters that differ, carry one time.
TakeReading ==
    /\ \E a \in Metered, at \in {clock, clock + 1} \ {0} :
         /\ Cardinality(taken[a]) < MaxReadings
         /\ at <= MaxReadings
         /\ clock' = at
         /\ \A r \in taken[a] : r.at = at => r.day = today
         /\ taken' = [taken EXCEPT ![a] = @ \union {[at |-> at, day |-> today, counters |-> meter[a]]}]
    /\ UNCHANGED <<tables, today, used, meter, log, listed, aged, sync, file>>

StoreReading ==
    /\ \E a \in Metered : \E r \in taken[a] :
         RecordUsageSnapshot(a, [at |-> r.at, counters |-> r.counters], r.day)
    /\ UNCHANGED <<today, used, meterVars, log, listed, aged, sync, file>>

-----------------------------------------------------------------------------
(* Codex: rollout files grow while sessions run, past midnight too.        *)

Latest(a, s) == IF file[a][s] = <<>> THEN [k \in Day \X Model |-> None] ELSE Last(file[a][s])

GrowFile ==
    \E a \in Codex, s \in Source, m \in Model :
        LET c == [tokens |-> 2, requests |-> 1] IN
        /\ Len(file[a][s]) < MaxVersion
        /\ file' = [file EXCEPT ![a][s] =
             Append(@, [Latest(a, s) EXCEPT ![<<today, m>>] = Plus(Shown(@), c)])]
        /\ Uses(a, c)
        /\ UNCHANGED <<tables, today, meterVars, log, listed, aged, sync>>

\* A file is hashed: versions that differ have hashes that differ.
File(a, s, v) == [source |-> s, hash |-> v, entries |-> file[a][s][v]]

\* A folder that was read at any earlier time is imported.
ImportCodexUsage ==
    /\ \E a \in Codex :
         \E read \in UNION {[S -> 1 .. MaxVersion] : S \in SUBSET Source} :
            /\ \A s \in DOMAIN read : read[s] <= Len(file[a][s])
            /\ ReplaceCodexUsageSources(a, SetToSeq({File(a, s, read[s]) : s \in DOMAIN read}))
    /\ UNCHANGED <<today, used, meterVars, log, listed, aged, sync, file>>

-----------------------------------------------------------------------------
(* TokenRhythm.                                                            *)

Tokens(m) == IF m = Unnamed THEN 1 ELSE 2
Request(m) == [tokens |-> Tokens(m), requests |-> 1]

Call ==
    \E a \in Rhythm, m \in Names :
        /\ Len(log[a]) < MaxUse
        /\ log' = [log EXCEPT ![a] = Append(@, <<today, m>>)]
        /\ Uses(a, Request(m))
        /\ UNCHANGED <<tables, today, meterVars, listed, aged, sync, file>>

\* The request list lags behind the aggregates.
List ==
    /\ \E a \in Account : listed[a] < Len(log[a]) /\ listed' = [listed EXCEPT ![a] = @ + 1]
    /\ UNCHANGED <<tables, today, used, meterVars, log, aged, sync, file>>

\* The list is asked for the last thirty days: the oldest request leaves it.
\* Whether the platform counts them from midnight or to the minute is not
\* known, so a day may leave request by request.
Age ==
    /\ \E a \in Account :
         /\ aged[a] < listed[a] /\ log[a][aged[a] + 1][1] < today
         /\ aged' = [aged EXCEPT ![a] = @ + 1]
    /\ UNCHANGED <<tables, today, used, meterVars, log, listed, sync, file>>

\* tokenRhythmUsageReadings: the models' totals of a set of requests, what
\* is left of the day's total under no name, and None for no usage.
Readings(a, requests) ==
    [m \in Names |->
        LET mine == {i \in requests : log[a][i][2] = m}
        IN IF mine = {} THEN None ELSE Total(mine, [i \in mine |-> Request(m)])]

OfDay(a, requests, d) == {i \in requests : log[a][i][1] = d}

\* fetchUsageHistoryPage: the newest requests come first, and the first o
\* are out of range.
PageOf(o, n, k) == {i \in o + 1 .. n : n - k * PageSize < i /\ i <= n - (k - 1) * PageSize}
PageNow(a, k) == PageOf(aged[a], listed[a], k)

Set(p, s) == sync' = [sync EXCEPT ![p] = s]
Running == {p \in Process : sync[p].at # "idle"}

\* A refresh, which holds accountOps, or a first connection, which does
\* not, begins its sync once the balance is stored.
StartSync(p) ==
    /\ sync[p].at = "idle"
    /\ \E a \in Rhythm :
         LET s == [IdleSync EXCEPT !.at = "page", !.account = a, !.page = 1] IN
         sync' = [q \in Process |->
             IF q # p THEN Partial(sync[q])
             ELSE IF Running # {} THEN s
             ELSE [s EXCEPT !.whole = TRUE, !.floor = listed[a], !.made = Len(log[a])]]
    /\ UNCHANGED <<tables, today, used, meterVars, log, listed, aged, file>>

\* The list is given up at the first page that fails, and after MaxPages.
HistoryFails(p) ==
    /\ sync[p].at = "page"
    /\ Set(p, Partial([sync[p] EXCEPT !.at = "panel", !.page = 0, !.fetched = 0, !.seen = {}]))
    /\ UNCHANGED <<tables, today, used, meterVars, log, listed, aged, file>>

\* A mutant: the pages are read until one holds a request seen before.
FetchPageUntilSeen(p) ==
    LET s == sync[p]
        items == PageNow(s.account, s.page)
        last == items \intersect s.seen # {} \/ items = {}
    IN  /\ s.at = "page"
        /\ s.page < MaxPages \/ last
        /\ Set(p, IF last
                  THEN [s EXCEPT !.at = "days", !.seen = @ \union items,
                                 !.todo = {log[s.account][i][1] : i \in s.seen \union items}]
                  ELSE [s EXCEPT !.page = @ + 1, !.seen = @ \union items])
        /\ UNCHANGED <<tables, today, used, meterVars, log, listed, aged, file>>

\* FetchUsageHistory: one page.  A request seen on an earlier page, where
\* it stood before others arrived, is not counted again, but it does count
\* towards the total that ends the list; a platform may give no total, and
\* then a page that is not full ends it.
FetchPage(p) ==
    LET s == sync[p]
        items == PageNow(s.account, s.page)
        fetched == s.fetched + Cardinality(items)
        seen == s.seen \union items
    IN  /\ s.at = "page"
        /\ \E total \in {0, listed[s.account] - aged[s.account]} :
             LET last == \/ items = {}
                         \/ total > 0 /\ fetched >= total
                         \/ total = 0 /\ Cardinality(items) < PageSize
             IN /\ last \/ s.page < MaxPages
                /\ Set(p, IF last
                          THEN [s EXCEPT !.at = "days", !.page = 0, !.fetched = 0, !.seen = seen,
                                         !.todo = {log[s.account][i][1] : i \in seen}]
                          ELSE [s EXCEPT !.page = @ + 1, !.fetched = fetched, !.seen = seen])
        /\ UNCHANGED <<tables, today, used, meterVars, log, listed, aged, file>>

\* syncTokenRhythmUsageSnapshots: the days of the list, oldest first, until
\* one cannot be stored.
StoreDay(p) ==
    LET s == sync[p] IN
    /\ s.at = "days" /\ s.todo # {}
    /\ LET d == Min(s.todo) IN
       \/ /\ UpsertAbsoluteDailyUsage(s.account, d, Readings(s.account, OfDay(s.account, s.seen, d)))
          /\ Set(p, [s EXCEPT !.todo = @ \ {d}])
       \/ /\ Set(p, Partial([s EXCEPT !.todo = {}]))
          /\ UNCHANGED tables
    /\ UNCHANGED <<today, used, meterVars, log, listed, aged, file>>

DaysDone(p) ==
    /\ sync[p].at = "days" /\ sync[p].todo = {}
    /\ Set(p, [sync[p] EXCEPT !.at = "panel", !.seen = {}])
    /\ UNCHANGED <<tables, today, used, meterVars, log, listed, aged, file>>

\* FetchTodayUsage: the day's totals, which the list may not show yet.
FetchToday(p) ==
    LET s == sync[p] IN
    /\ s.at = "panel"
    /\ \/ Set(p, IdleSync)
       \/ LET requests == OfDay(s.account, DOMAIN log[s.account], today) IN
          Set(p, [s EXCEPT !.at = "write",
                           !.panel = [day |-> today, readings |-> Readings(s.account, requests)]])
    /\ UNCHANGED <<tables, today, used, meterVars, log, listed, aged, file>>

StoreToday(p) ==
    LET s == sync[p] IN
    /\ s.at = "write"
    /\ \/ UpsertAbsoluteDailyUsage(s.account, s.panel.day, s.panel.readings)
       \/ UNCHANGED tables
    /\ Set(p, IdleSync)
    /\ UNCHANGED <<today, used, meterVars, log, listed, aged, file>>

\* A deletion waits for a refresh, but not for a first connection.
Delete ==
    /\ Running \subseteq Connection
    /\ \E a \in connected : DeleteConnectedAccount(a)
    /\ UNCHANGED <<today, used, meterVars, log, listed, aged, sync, file>>

-----------------------------------------------------------------------------
Next ==
    \/ NextDay \/ Delete
    \/ UseMeter \/ ResetMeter \/ TakeReading \/ StoreReading
    \/ GrowFile \/ ImportCodexUsage
    \/ Call \/ List \/ Age
    \/ \E p \in Process :
         \/ StartSync(p) \/ HistoryFails(p) \/ FetchPage(p) \/ StoreDay(p)
         \/ DaysDone(p) \/ FetchToday(p) \/ StoreToday(p)

Spec == Init /\ [][Next]_vars

-----------------------------------------------------------------------------
(* Properties.                                                             *)

Stored(a, d) == Total(Names, [m \in Names |-> Shown(daily[a][<<d, m>>])])

\* Usage is never invented.  Up to any day, the dashboard shows no more
\* than was used, although readings come late, twice or after a meter
\* started again, pages of a list shift while they are read, two refreshes
\* store the same days, and a folder is imported again.  (Use between two
\* readings counts for the day of the later one, never for an earlier day.)
NeverInvents ==
    \A a \in Account, d \in Day :
        AtMost(Total(1 .. d, [e \in Day |-> Stored(a, e)]), Total(1 .. d, used[a]))

\* The daily rows of a Codex account are the totals of exactly the files
\* that have been imported, each in the version whose hash is stored: a
\* file that is skipped as unchanged, replaced, or brought back to an
\* older version by a late import leaves nothing behind.
UsageFromSources ==
    \A a \in Codex :
        LET files == {s \in Source : hash[a][s] # None} IN
        \A d \in Day :
            Stored(a, d) =
              Total(files, [s \in files |->
                  Total(Model, [m \in Model |-> Shown(file[a][s][hash[a][s]][<<d, m>>])])])

\* The tables hold what they may, and only for accounts there are: a
\* deletion leaves no usage behind, and no sync, import or reading that was
\* under way brings any back.
DeletedLeavesNoUsage ==
    /\ TypeOK
    /\ \A a \in Account \ connected :
         /\ daily[a] = NoRows /\ baseline[a] = None
         /\ hash[a] = [s \in Source |-> None] /\ entries[a] = NoEntries

\* A sync that ends without an error, and that no other one ran beside, has
\* stored every request that the list showed when it began and still shows,
\* on its day, and every request that had been made by then on the day it
\* read last.
SyncIsComplete ==
    [][\A p \in Process :
         LET s == sync[p]
             known(d) == OfDay(s.account, IF d = s.panel.day THEN 1 .. s.made
                                          ELSE aged[s.account] + 1 .. s.floor, d)
             stored(k) == daily'[s.account][k] = s.panel.readings[k[2]]
         IN  /\ s.at = "write" /\ sync'[p].at = "idle" /\ s.whole
             /\ s.account \in connected /\ \A k \in Key : k[1] = s.panel.day => stored(k)
             =>
               \A a \in {s.account}, d \in Day :
                  AtMost(Total(known(d), [i \in known(d) |-> Request(log[a][i][2])]), Stored(a, d)')]_vars
=============================================================================
