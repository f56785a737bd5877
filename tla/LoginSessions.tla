--------------------------- MODULE LoginSessions ---------------------------
(***************************************************************************)
(* Logins through a platform's own page: the sessions of the account       *)
(* service (StartCodexDeviceLogin ... DeviceLoginStatus in                 *)
(* internal/service/accounts.go), the goroutine that polls the platform    *)
(* for each of them, TRAE's listener on the loopback interface             *)
(* (internal/integration/trae) and Kiro's callback to the console          *)
(* (internal/integration/kiro).                                            *)
(*                                                                         *)
(* Time is one flag per login: expired once challenge.ExpiresAt has        *)
(* passed, which is also the deadline of the goroutine's context.          *)
(***************************************************************************)
EXTENDS Naturals, FiniteSets

CONSTANTS
    Polled,         \* logins at Codex, WorkBuddy, Qoder or Cursor
    Trae,           \* logins at TRAE
    Kiro,           \* logins at Kiro
    Callback,       \* requests of a browser to Kiro's callback
    Together,       \* bound: the sets of logins that a behaviour may start
    MaxRequests,    \* bound: requests to the listener of one TRAE login
    None

ASSUME KindsAssumption ==
    /\ Polled \intersect Trae = {} /\ Polled \intersect Kiro = {}
    /\ Trae \intersect Kiro = {}
ASSUME NoneAssumption == None \notin Polled \union Trae \union Kiro
ASSUME TogetherAssumption == Together \subseteq SUBSET (Polled \union Trae \union Kiro)
ASSUME MaxRequestsAssumption == MaxRequests \in Nat

Login == Polled \union Trae \union Kiro
PolledPlatform == {"codex", "workbuddy", "qoder", "cursor"}

VARIABLES
    session,      \* session[s]: its entry in Accounts.sessions
    at,           \* at[s]: where the code that runs login s is
    platform,     \* platform[s]: where the user logs in
    approved,     \* logins the user has approved on the platform's page
    expired,      \* logins whose challenge has expired
    connected,    \* connected[s]: the number of accounts stored for login s
    \* TRAE
    pending,      \* the logins in the client's table
    listener,     \* listener[s]: "none", "open" or "closed"
    answer,       \* answer[s]: what the callback left in the login's state
    request,      \* request[s]: a browser is connected to the listener
    requests,     \* requests[s]: how many there have been
    closing,      \* logins whose listener closes in half a second
    \* Kiro
    kiroPending,  \* states the account service waits for
    kiroClient,   \* states the client waits for
    call          \* call[h]: callback h: its login and where its handler is

traeVars == <<pending, listener, answer, request, requests, closing>>
kiroVars == <<kiroPending, kiroClient, call>>
vars == <<session, at, platform, approved, expired, connected, traeVars, kiroVars>>

Session == [status : {"absent", "pending", "failed", "completed"},
            named : BOOLEAN, why : {"", "timeout", "gone", "error"}]
Call == [login : Kiro \union {None}, at : {"idle", "client", "connect", "tell", "end"}]

Absent == [status |-> "absent", named |-> FALSE, why |-> ""]
Pending == [status |-> "pending", named |-> FALSE, why |-> ""]

TypeOK ==
    /\ session \in [Login -> Session]
    /\ at \in [Login -> {"start", "install", "publish", "poll", "wait", "exchange",
                         "connect", "tell", "handed", "end"}]
    /\ platform \in [Login -> PolledPlatform \union {"trae", "kiro", "none"}]
    /\ approved \subseteq Login
    /\ expired \subseteq Login
    /\ connected \in [Login -> Nat]
    /\ pending \subseteq Trae
    /\ listener \in [Trae -> {"none", "open", "closed"}]
    /\ answer \in [Trae -> {"none", "code", "token", "error"}]
    /\ request \in [Trae -> BOOLEAN]
    /\ requests \in [Trae -> 0 .. MaxRequests]
    /\ closing \subseteq Trae
    /\ kiroPending \subseteq Kiro
    /\ kiroClient \subseteq Kiro
    /\ call \in [Callback -> Call]

Init ==
    /\ session = [s \in Login |-> Absent]
    /\ \E started \in Together : at = [s \in Login |-> IF s \in started THEN "start" ELSE "end"]
    /\ platform = [s \in Login |-> "none"]
    /\ approved = {}
    /\ expired = {}
    /\ connected = [s \in Login |-> 0]
    /\ pending = {}
    /\ listener = [s \in Trae |-> "none"]
    /\ answer = [s \in Trae |-> "none"]
    /\ request = [s \in Trae |-> FALSE]
    /\ requests = [s \in Trae |-> 0]
    /\ closing = {}
    /\ kiroPending = {}
    /\ kiroClient = {}
    /\ call = [h \in Callback |-> [login |-> None, at |-> "idle"]]

-----------------------------------------------------------------------------
(* Sessions.                                                               *)

\* updateDeviceSession, when it reports a failure or the account stored.
Failed(s, why) == session' = [session EXCEPT ![s] = [status |-> "failed", named |-> FALSE, why |-> why]]
Completed(s) == session' = [session EXCEPT ![s] = [status |-> "completed", named |-> TRUE, why |-> ""]]

Goto(s, place) == at' = [at EXCEPT ![s] = place]

\* The goroutine reports the failure and returns.
GiveUp(s, why) == Failed(s, why) /\ Goto(s, "end")

\* An approval, and the end of a challenge, come from outside at any time.
Approve(s) ==
    /\ session[s].status = "pending" /\ s \in Polled
    /\ approved' = approved \union {s}
    /\ UNCHANGED <<session, at, platform, expired, connected, traeVars, kiroVars>>

Expire(s) ==
    /\ s \notin expired
    /\ at[s] \notin {"start", "end"}
    /\ expired' = expired \union {s}
    /\ UNCHANGED <<session, at, platform, approved, connected, traeVars, kiroVars>>

-----------------------------------------------------------------------------
(* Codex, WorkBuddy, Qoder and Cursor: the platform is polled.             *)

\* A platform's answer: none at all, or an HTTP status with or without
\* every token that the client looks for, from a domain that it accepts.
Answers == [arrived : BOOLEAN, status : {200, 202, 403, 404, 500},
            tokens : BOOLEAN, domain : BOOLEAN]

\* Tokens come only after the approval, and only with status 200; no answer
\* comes to a request whose context is over.
AnswersTo(s) ==
    {a \in Answers : /\ a.arrived => s \notin expired
                     /\ a.tokens => s \in approved /\ a.status = 200}

\* How each client reads an answer.
CodexPoll(a) ==
    IF ~a.arrived THEN "error"
    ELSE IF a.status \in {403, 404} THEN "pending"
    ELSE IF a.status = 200 /\ a.tokens THEN "granted" ELSE "error"

WorkBuddyPoll(a) ==
    IF ~a.arrived THEN "error"
    ELSE IF ~a.tokens THEN "pending"
    ELSE IF a.domain THEN "granted" ELSE "error"

QoderPoll(a) ==
    IF ~a.arrived THEN "error"
    ELSE IF a.status \in {202, 404} THEN "pending"
    ELSE IF a.status # 200 THEN "error"
    ELSE IF a.tokens THEN "granted" ELSE "pending"

CursorPoll(a) ==
    IF ~a.arrived THEN "error"
    ELSE IF a.status \in {202, 404} THEN "pending"
    ELSE IF a.status # 200 THEN "error"
    ELSE IF a.tokens THEN "granted" ELSE "pending"

Reads(p, a) ==
    CASE p = "codex" -> CodexPoll(a) [] p = "workbuddy" -> WorkBuddyPoll(a)
      [] p = "qoder" -> QoderPoll(a) [] p = "cursor" -> CursorPoll(a)

\* The challenge: Codex and WorkBuddy ask the platform for one and leave
\* nothing behind when it refuses; Qoder and Cursor make their own.  The
\* session is published and its goroutine started in one step: nothing
\* reads the session in between.
StartCodexDeviceLogin(s) == at[s] = "start" /\ platform' = [platform EXCEPT ![s] = "codex"]
StartWorkBuddyOAuth(s) == at[s] = "start" /\ platform' = [platform EXCEPT ![s] = "workbuddy"]
StartQoderOAuth(s) == at[s] = "start" /\ platform' = [platform EXCEPT ![s] = "qoder"]
StartCursorOAuth(s) == at[s] = "start" /\ platform' = [platform EXCEPT ![s] = "cursor"]

Start(s) ==
    /\ s \in Polled
    /\ StartCodexDeviceLogin(s) \/ StartWorkBuddyOAuth(s) \/ StartQoderOAuth(s) \/ StartCursorOAuth(s)
    /\ session' = [session EXCEPT ![s] = Pending]
    /\ Goto(s, "poll")
    /\ UNCHANGED <<approved, expired, connected, traeVars, kiroVars>>

\* A mutant: a failed poll is tried again, as an unanswered one is.
PollRetrying(s) ==
    /\ s \in Polled /\ at[s] = "poll"
    /\ \E a \in AnswersTo(s) :
         IF Reads(platform[s], a) = "granted"
         THEN Goto(s, "connect") ELSE Goto(s, "wait")
    /\ UNCHANGED <<session, platform, approved, expired, connected, traeVars, kiroVars>>

\* Codex answers with a code that still has to be exchanged.
Poll(s) ==
    /\ s \in Polled /\ at[s] = "poll"
    /\ \E a \in AnswersTo(s) :
         \/ Reads(platform[s], a) = "error" /\ GiveUp(s, "error")
         \/ Reads(platform[s], a) = "pending" /\ Goto(s, "wait") /\ UNCHANGED session
         \/ /\ Reads(platform[s], a) = "granted" /\ UNCHANGED session
            /\ Goto(s, IF platform[s] = "codex" THEN "exchange" ELSE "connect")
    /\ UNCHANGED <<platform, approved, expired, connected, traeVars, kiroVars>>

\* The select between the ticker and the context's deadline.
Tick(s) ==
    /\ at[s] = "wait"
    /\ Goto(s, "poll")
    /\ UNCHANGED <<session, platform, approved, expired, connected, traeVars, kiroVars>>

Timeout(s) ==
    /\ at[s] = "wait" /\ s \in expired
    /\ GiveUp(s, "timeout")
    /\ UNCHANGED <<platform, approved, expired, connected, traeVars, kiroVars>>

\* exchangeDeviceCode and exchangeAuthCode.
Exchange(s) ==
    /\ at[s] = "exchange"
    /\ \/ GiveUp(s, "error")
       \/ s \notin expired /\ Goto(s, "connect") /\ UNCHANGED session
    /\ UNCHANGED <<platform, approved, expired, connected, traeVars, kiroVars>>

\* connectCodexWithID and its like read the account's usage and store it
\* under a new identifier; either may fail.
Connect(s) ==
    /\ at[s] = "connect"
    /\ \/ GiveUp(s, "error") /\ UNCHANGED connected
       \/ /\ s \notin expired
          /\ connected' = [connected EXCEPT ![s] = @ + 1]
          /\ Goto(s, "tell") /\ UNCHANGED session
    /\ UNCHANGED <<platform, approved, expired, traeVars, kiroVars>>

\* A mutant: the goroutine reports the timeout of its context even when the
\* account is stored.
TellIfInTime(s) ==
    /\ at[s] = "tell"
    /\ IF s \in expired THEN Failed(s, "timeout") ELSE Completed(s)
    /\ Goto(s, "end")
    /\ UNCHANGED <<platform, approved, expired, connected, traeVars, kiroVars>>

Tell(s) ==
    /\ at[s] = "tell"
    /\ Completed(s)
    /\ Goto(s, "end")
    /\ UNCHANGED <<platform, approved, expired, connected, traeVars, kiroVars>>

-----------------------------------------------------------------------------
(* TRAE: the browser comes back to a listener on the loopback interface.   *)

Close(closed) == listener' = [s \in Trae |-> IF s \in closed THEN "closed" ELSE listener[s]]

\* StartLogin listens, and asks TRAE which host to log in at; whatever the
\* answer, it goes on.
Listen(s) ==
    /\ s \in Trae /\ at[s] = "start"
    /\ platform' = [platform EXCEPT ![s] = "trae"]
    /\ listener' = [listener EXCEPT ![s] = "open"]
    /\ Goto(s, "install")
    /\ UNCHANGED <<session, approved, expired, connected, pending, answer,
                   request, requests, closing, kiroVars>>

\* A mutant: the earlier logins leave the table with their listeners open.
InstallOver(s) ==
    /\ s \in Trae /\ at[s] = "install"
    /\ pending' = {s}
    /\ Goto(s, "publish")
    /\ UNCHANGED <<session, platform, approved, expired, connected, listener,
                   answer, request, requests, closing, kiroVars>>

\* Its login takes the place of every earlier one in the client's table.
Install(s) ==
    /\ s \in Trae /\ at[s] = "install"
    /\ Close(pending)
    /\ pending' = {s}
    /\ Goto(s, "publish")
    /\ UNCHANGED <<session, platform, approved, expired, connected,
                   answer, request, requests, closing, kiroVars>>

\* StartTraeOAuth publishes the session and starts its goroutine.
Publish(s) ==
    /\ s \in Trae /\ at[s] = "publish"
    /\ session' = [session EXCEPT ![s] = Pending]
    /\ Goto(s, "poll")
    /\ UNCHANGED <<platform, approved, expired, connected, traeVars, kiroVars>>

\* A browser connects to the listener; its request is served later, even
\* when the listener is closed by then.
Visit(s) ==
    /\ s \in Trae /\ listener[s] = "open" /\ ~request[s]
    /\ requests[s] < MaxRequests
    /\ at[s] \notin {"start", "install"}
    /\ request' = [request EXCEPT ![s] = TRUE]
    /\ requests' = [requests EXCEPT ![s] = @ + 1]
    /\ UNCHANGED <<session, at, platform, approved, expired, connected, pending,
                   listener, answer, closing, kiroVars>>

\* The handler of serveCallback, for a request with an authorization code,
\* with a refresh token only, with neither, or that says the login failed.
\* The page is told that the login succeeded in all cases but the last, and
\* then the listener is to be closed.
Serve(s) ==
    /\ s \in Trae /\ request[s]
    /\ request' = [request EXCEPT ![s] = FALSE]
    /\ \E says \in {"code", "token", "neither", "failed"} :
         /\ answer' = IF s \in pending
                      THEN [answer EXCEPT ![s] = IF says \in {"code", "token"} THEN says ELSE "error"]
                      ELSE answer
         /\ closing' = IF says = "failed" THEN closing ELSE closing \union {s}
    /\ UNCHANGED <<session, at, platform, approved, expired, connected, pending,
                   listener, requests, kiroVars>>

CloseServed(s) ==
    /\ s \in closing
    /\ Close({s})
    /\ closing' = closing \ {s}
    /\ UNCHANGED <<session, at, platform, approved, expired, connected, pending,
                   answer, request, requests, kiroVars>>

\* A mutant: a poll takes the login out of the table whatever it finds.
PollTaking(s) ==
    /\ s \in Trae /\ at[s] = "poll"
    /\ \/ /\ s \notin pending
          /\ GiveUp(s, "gone") /\ UNCHANGED <<pending, listener>>
       \/ /\ s \in pending
          /\ pending' = pending \ {s} /\ Close({s})
          /\ IF answer[s] = "code" THEN Goto(s, "exchange") /\ UNCHANGED session
             ELSE IF answer[s] = "none" THEN Goto(s, "wait") /\ UNCHANGED session
             ELSE GiveUp(s, "error")
    /\ UNCHANGED <<platform, approved, expired, connected, answer, request, requests, closing, kiroVars>>

\* PollLogin: the login has been replaced; it is too late; the browser has
\* not come back yet; or it has, and the login is taken out of the table.
PollLogin(s) ==
    /\ s \in Trae /\ at[s] = "poll"
    /\ \/ /\ s \notin pending
          /\ GiveUp(s, "gone") /\ UNCHANGED <<pending, listener>>
       \/ /\ s \in pending /\ s \in expired
          /\ pending' = pending \ {s} /\ Close({s})
          /\ GiveUp(s, "timeout")
       \/ /\ s \in pending /\ s \notin expired /\ answer[s] = "none"
          /\ Goto(s, "wait") /\ UNCHANGED <<session, pending, listener>>
       \/ /\ s \in pending /\ s \notin expired /\ answer[s] # "none"
          /\ pending' = pending \ {s} /\ Close({s})
          /\ IF answer[s] = "code" THEN Goto(s, "exchange") /\ UNCHANGED session
             ELSE GiveUp(s, "error")
    /\ UNCHANGED <<platform, approved, expired, connected, answer, request, requests, closing, kiroVars>>

-----------------------------------------------------------------------------
(* Kiro: the browser comes back to the console; no goroutine waits.        *)

\* The client's StartLogin, under the client's lock.
StartLogin(s) ==
    /\ s \in Kiro /\ at[s] = "start"
    /\ platform' = [platform EXCEPT ![s] = "kiro"]
    /\ kiroClient' = kiroClient \union {s}
    /\ Goto(s, "publish")
    /\ UNCHANGED <<session, approved, expired, connected, traeVars, kiroPending, call>>

\* StartKiroOAuth, under the account service's lock.
StartKiroOAuth(s) ==
    /\ s \in Kiro /\ at[s] = "publish"
    /\ session' = [session EXCEPT ![s] = Pending]
    /\ kiroPending' = kiroPending \union {s}
    /\ Goto(s, "handed")
    /\ UNCHANGED <<platform, approved, expired, connected, traeVars, kiroClient, call>>

Returns(h) == call' = [call EXCEPT ![h].at = "end"]
Advance(h, place) == call' = [call EXCEPT ![h].at = place]

\* CompleteKiroOAuth takes the state, under the lock; a second request with
\* the same state is refused.
CompleteKiroOAuth(h) ==
    /\ call[h].at = "idle"
    /\ \E s \in Kiro :
         /\ at[s] = "handed"
         /\ call' = [call EXCEPT ![h] = [login |-> s, at |-> IF s \in kiroPending THEN "client" ELSE "end"]]
         /\ kiroPending' = kiroPending \ {s}
    /\ UNCHANGED <<session, at, platform, approved, expired, connected, traeVars, kiroClient>>

\* CompleteLogin takes the login out of the client's table; it fails when it
\* is not there, too late, refused by the user or by the token endpoint, or
\* when the browser has gone.
CompleteLogin(h) ==
    /\ call[h].at = "client"
    /\ LET s == call[h].login IN
       /\ kiroClient' = kiroClient \ {s}
       /\ \/ Failed(s, "error") /\ Returns(h)
          \/ s \in kiroClient \ expired /\ Advance(h, "connect") /\ UNCHANGED session
    /\ UNCHANGED <<at, platform, approved, expired, connected, traeVars, kiroPending>>

ConnectKiro(h) ==
    /\ call[h].at = "connect"
    /\ LET s == call[h].login IN
       \/ Failed(s, "error") /\ Returns(h) /\ UNCHANGED connected
       \/ /\ connected' = [connected EXCEPT ![s] = @ + 1]
          /\ Advance(h, "tell") /\ UNCHANGED session
    /\ UNCHANGED <<at, platform, approved, expired, traeVars, kiroPending, kiroClient>>

TellKiro(h) ==
    /\ call[h].at = "tell"
    /\ Completed(call[h].login) /\ Returns(h)
    /\ UNCHANGED <<at, platform, approved, expired, connected, traeVars, kiroPending, kiroClient>>

-----------------------------------------------------------------------------
Goroutine(s) ==
    \/ Poll(s) \/ PollLogin(s) \/ Tick(s) \/ Timeout(s)
    \/ Exchange(s) \/ Connect(s) \/ Tell(s)

Handler(h) == CompleteLogin(h) \/ ConnectKiro(h) \/ TellKiro(h)

Next ==
    \/ \E s \in Login :
         \/ Start(s) \/ Listen(s) \/ Install(s) \/ Publish(s)
         \/ StartLogin(s) \/ StartKiroOAuth(s) \/ Approve(s) \/ Expire(s)
         \/ Visit(s) \/ Serve(s) \/ CloseServed(s) \/ Goroutine(s)
    \/ \E h \in Callback : CompleteKiroOAuth(h) \/ Handler(h)

Spec == Init /\ [][Next]_vars

\* Every request to a platform has a timeout, so that a goroutine and a
\* handler take their next step; and a challenge that is out expires.
FairSpec ==
    /\ Spec
    /\ \A s \in Login : WF_vars(Goroutine(s)) /\ WF_vars(Publish(s)) /\ WF_vars(Expire(s))
    /\ \A h \in Callback : WF_vars(Handler(h))

-----------------------------------------------------------------------------
(* Properties.                                                             *)

\* A listener that accepts connections on the loopback interface belongs to
\* the login in the client's table, or to a login that is being started,
\* and there is one such login at most: a login that was replaced, answered
\* or found too late leaves no listener behind.  (One that times out between
\* two polls stays in the table until the next login is started.)
ListenersHaveOwners ==
    /\ Cardinality(pending) <= 1
    /\ \A s \in Trae : listener[s] = "open" => s \in pending \/ at[s] = "install"

\* The account service and the Kiro client each keep a table of the states
\* they wait for, under locks of their own.  The client still waits for
\* every state the service does, and for no other but that of a login that
\* is being started or answered.
KiroTablesAgree ==
    /\ kiroPending \subseteq kiroClient
    /\ \A s \in kiroClient \ kiroPending :
         \/ at[s] = "publish"
         \/ \E h \in Callback : call[h] = [login |-> s, at |-> "client"]

\* No login leaves a listener or an entry of a table behind.
NothingLeftBehind == ListenersHaveOwners /\ KiroTablesAgree

\* A TRAE login stays in the client's table, where the browser's return can
\* reach it, until its own poll finds it answered or too late, or until a
\* later login is started: no poll, timeout or callback of another one ends
\* it.
KeptUntilReplaced ==
    [][\A s \in pending :
         s \notin pending' =>
           \/ at[s] = "poll" /\ (s \in expired \/ answer[s] # "none")
           \/ \E t \in Trae \ {s} : at[t] = "install" /\ t \in pending']_vars

\* Every login keeps the promise of LoginContract: whatever the order of
\* polls, callbacks, timeouts and retried callbacks, it connects one account
\* and names it, or none and says so, and never takes that back.
Contract == INSTANCE LoginContract WITH
    Logins <- Login,
    status <- [s \in Login |-> session[s].status],
    connected <- connected

KeepsItsPromise == Contract!Spec

\* A login at a platform that is polled ends, when the user does nothing and
\* when a later login replaced it; a Kiro login ends once its callback has
\* come.
EveryLoginEnds ==
    /\ \A s \in Polled \union Trae :
         session[s].status = "pending" ~> session[s].status \in {"failed", "completed"}
    /\ \A s \in Kiro :
         session[s].status = "pending" /\ s \notin kiroPending
           ~> session[s].status \in {"failed", "completed"}
=============================================================================
