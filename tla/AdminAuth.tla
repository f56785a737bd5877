----------------------------- MODULE AdminAuth -----------------------------
(***************************************************************************)
(* The console's administrator sessions and its table of failed logins     *)
(* (internal/api/auth.go).  Handlers run side by side; each operation on   *)
(* the tables holds adminAuth.mu, and a login takes several of them.  The  *)
(* clock is read just before the lock is taken: the same instant here.     *)
(***************************************************************************)
EXTENDS Integers, FiniteSets

CONSTANTS
    Login,          \* handlers of POST /auth/session and /auth/connect
    Source,         \* addresses that requests come from
    SessionId,      \* cookies that a behaviour may hand out
    FailureWindow, Lockout, MaxFailures, MaxTracked,  \* the limits of the code
    SessionTTL,     \* the two lifetimes of a session
    MaxTime,        \* bound: the clock runs from 1 to MaxTime
    None

ASSUME LimitsAssumption ==
    /\ FailureWindow \in Nat \ {0} /\ Lockout \in Nat \ {0}
    /\ MaxFailures \in Nat \ {0} /\ MaxTracked \in Nat \ {0}
    /\ SessionTTL \subseteq Nat \ {0} /\ MaxTime \in Nat \ {0}
ASSUME SourceAssumption == IsFiniteSet(Source)

Time == 1 .. MaxTime
Entry == [start : Time, until : Nat, seen : Time, count : Nat \ {0}]

ASSUME AuthNoneAssumption == None \notin Source \union Entry

VARIABLES
    required,   \* a password is configured
    now,        \* the clock
    failures,   \* loginFailures[a]: [start, until, seen, count], or None
    sessions,   \* sessions[c]: when it expires, New before, Gone after
    login       \* login[r]: the request that handler r serves

authVars == <<required, now, failures, sessions, login>>

Never == 0      \* the zero time
New == 0
Gone == -1

NoLogin == [at |-> "idle", source |-> None]

AuthTypeOK ==
    /\ required \in BOOLEAN
    /\ now \in Time
    /\ failures \in [Source -> Entry \union {None}]
    /\ sessions \in [SessionId -> Nat \union {Gone}]
    /\ login \in [Login -> [at : {"off", "idle", "verify", "clear"}, source : Source \union {None}]]

AuthInit(needed, awake) ==
    /\ required = needed
    /\ now = 1
    /\ failures = [a \in Source |-> None]
    /\ sessions = [c \in SessionId |-> New]
    /\ login = [r \in Login |-> [NoLogin EXCEPT !.at = IF r \in awake THEN "idle" ELSE "off"]]

TrackedIn(table) == {a \in Source : table[a] # None}
Tracked == TrackedIn(failures)
Blocked(a) == failures[a] # None /\ now < failures[a].until
Live(c) == sessions[c] \notin {New, Gone} /\ now < sessions[c]

\* Without a password nothing looks at the clock.
Tick ==
    /\ required /\ now < MaxTime
    /\ now' = now + 1
    /\ UNCHANGED <<required, failures, sessions, login>>

-----------------------------------------------------------------------------
(* Logins.                                                                 *)

\* A mutant: an entry whose window is over is forgotten, block and all.
LoginAllowedByWindow(a) ==
    IF failures[a] # None /\ now - failures[a].start >= FailureWindow
    THEN failures' = [failures EXCEPT ![a] = None]
    ELSE ~Blocked(a) /\ UNCHANGED failures

\* loginAllowed, when it lets the request on: a block or a window that is
\* over is forgotten.
LoginAllowed(a) ==
    /\ ~Blocked(a)
    /\ failures' = IF /\ failures[a] # None
                      /\ failures[a].until # Never \/ now - failures[a].start >= FailureWindow
                   THEN [failures EXCEPT ![a] = None] ELSE failures

\* login and connect, up to the password; a refused request changes nothing.
BeginLogin(r) ==
    /\ required /\ login[r].at = "idle"
    /\ \E a \in Source :
         /\ LoginAllowed(a)
         /\ login' = [login EXCEPT ![r] = [at |-> "verify", source |-> a]]
    /\ UNCHANGED <<required, now, sessions>>

\* recordLoginFailure: the entry of a source after one more failure.
AfterFailure(a) ==
    LET old == failures[a]
        fresh == old = None \/ now - old.start >= FailureWindow
        count == IF fresh THEN 1 ELSE old.count + 1
    IN [start |-> IF fresh THEN now ELSE old.start, seen |-> now, count |-> count,
        until |-> IF count >= MaxFailures THEN now + Lockout
                  ELSE IF fresh THEN Never ELSE old.until]

\* An entry is over with its block, or with its window if it has none.
Over(e) == IF e.until # Never THEN now >= e.until ELSE now - e.seen >= FailureWindow
Current(table) ==
    [a \in Source |-> IF table[a] # None /\ Over(table[a]) THEN None ELSE table[a]]

\* A mutant: only what is over is dropped from a table that is too large.
LimitToCurrent(table) == {Current(table)}

\* limitLoginFailureEntriesLocked: the tables a table that is too large may
\* be cut down to, by one for each of the entries seen longest ago.
LimitLoginFailures(table) ==
    LET current == Current(table)
        oldest == {a \in TrackedIn(current) :
                     \A b \in TrackedIn(current) : current[a].seen <= current[b].seen}
    IN IF Cardinality(TrackedIn(table)) <= MaxTracked THEN {table}
       ELSE IF Cardinality(TrackedIn(current)) <= MaxTracked THEN {current}
       ELSE {[current EXCEPT ![a] = None] : a \in oldest}

\* The password is wrong, or there is none in the request.
FailLogin(r) ==
    /\ login[r].at = "verify"
    /\ LET a == login[r].source IN
       failures' \in LimitLoginFailures([failures EXCEPT ![a] = AfterFailure(a)])
    /\ login' = [login EXCEPT ![r] = NoLogin]
    /\ UNCHANGED <<required, now, sessions>>

\* createSession, which drops the sessions that have expired.
CreateSession(r) ==
    /\ login[r].at = "verify"
    /\ \E c \in SessionId, ttl \in SessionTTL :
         /\ sessions[c] = New
         /\ sessions' = [d \in SessionId |->
              IF d = c THEN now + ttl
              ELSE IF sessions[d] # New /\ ~Live(d) THEN Gone ELSE sessions[d]]
    /\ login' = [login EXCEPT ![r].at = "clear"]
    /\ UNCHANGED <<required, now, failures>>

\* No random bytes for a cookie: an error, and no failure of the source.
RefuseSession(r) ==
    /\ login[r].at = "verify"
    /\ login' = [login EXCEPT ![r] = NoLogin]
    /\ UNCHANGED <<required, now, failures, sessions>>

ClearFailures(r) ==
    /\ login[r].at = "clear"
    /\ failures' = [failures EXCEPT ![login[r].source] = None]
    /\ login' = [login EXCEPT ![r] = NoLogin]
    /\ UNCHANGED <<required, now, sessions>>

Logout(c) ==
    /\ sessions[c] \notin {New, Gone}
    /\ sessions' = [sessions EXCEPT ![c] = Gone]
    /\ UNCHANGED <<required, now, failures, login>>

\* The middleware: without a password every request passes; with one, a
\* request with the password itself as bearer token, which leaves no trace in
\* either table, or with the cookie of a live session.  An expired session is
\* dropped and the request refused.
Admitted(bearer) == required => bearer \/ \E c \in SessionId : Live(c)

DropExpired(c) ==
    /\ sessions[c] \notin {New, Gone} /\ ~Live(c)
    /\ sessions' = [sessions EXCEPT ![c] = Gone]
    /\ UNCHANGED <<required, now, failures, login>>

AuthNext ==
    \/ Tick
    \/ \E r \in Login :
         BeginLogin(r) \/ FailLogin(r) \/ CreateSession(r) \/ RefuseSession(r) \/ ClearFailures(r)
    \/ \E c \in SessionId : Logout(c) \/ DropExpired(c)
=============================================================================
