------------------------ MODULE LoginSessionsProofs ------------------------
(***************************************************************************)
(* For any number of logins and callbacks: every login keeps its promise,  *)
(* and leaves no listener and no entry of a table behind.                  *)
(***************************************************************************)
EXTENDS LoginSessions, TLAPS, FiniteSetTheorems

\* How far a login is, and what its session and the pool show by then.
Life == \A s \in Login :
    /\ at[s] \in {"start", "install", "publish"} =>
         session[s].status = "absent" /\ connected[s] = 0
    /\ at[s] \in {"poll", "wait", "exchange", "connect"} =>
         session[s].status = "pending" /\ connected[s] = 0
    /\ at[s] = "tell" => session[s].status = "pending" /\ connected[s] = 1
    /\ s \in Kiro => at[s] \in {"start", "publish", "handed", "end"}
    /\ at[s] = "handed" => s \in Kiro

\* A Kiro login is answered by one callback at a time, the one that has
\* taken its state out of the account service's table.
Answering(h) == call[h].at \in {"client", "connect", "tell"}

Handlers ==
    /\ \A h \in Callback : Answering(h) =>
         LET s == call[h].login IN
         /\ s \in Kiro \ kiroPending /\ at[s] = "handed"
         /\ session[s].status = "pending"
         /\ connected[s] = IF call[h].at = "tell" THEN 1 ELSE 0
    /\ \A h, g \in Callback : Answering(h) /\ Answering(g) /\ call[h].login = call[g].login => h = g
    /\ \A s \in kiroPending :
         at[s] = "handed" /\ session[s].status = "pending" /\ connected[s] = 0

KiroTables ==
    /\ KiroTablesAgree
    /\ \A s \in Kiro : at[s] = "publish" => s \in kiroClient

Listeners ==
    /\ \A s, t \in pending : s = t
    /\ \A s \in Trae : listener[s] = "open" => s \in pending \/ at[s] = "install"

LoginInv == TypeOK /\ Life /\ Handlers /\ KiroTables /\ Listeners

-----------------------------------------------------------------------------
LEMMA InitInv == Init => LoginInv
<1> SUFFICES ASSUME Init PROVE LoginInv
  OBVIOUS
<1> PICK started \in Together : at = [s \in Login |-> IF s \in started THEN "start" ELSE "end"]
  BY DEF Init
<1>1. TypeOK
  <2>1. session \in [Login -> Session]
    BY DEF Init, Absent, Session
  <2>2. call \in [Callback -> Call]
    BY DEF Init, Call
  <2>3. at \in [Login -> {"start", "install", "publish", "poll", "wait", "exchange",
                          "connect", "tell", "handed", "end"}]
    OBVIOUS
  <2>4. requests \in [Trae -> 0 .. MaxRequests] /\ connected \in [Login -> Nat]
    BY MaxRequestsAssumption DEF Init
  <2> QED
    BY <2>1, <2>2, <2>3, <2>4 DEF Init, TypeOK
<1>2. Life
  BY DEF Init, Life, Absent
<1>3. Handlers
  BY DEF Init, Handlers, Answering
<1>4. KiroTables
  BY DEF Init, KiroTables, KiroTablesAgree, Login
<1>5. Listeners
  BY DEF Init, Listeners
<1> QED
  BY <1>1, <1>2, <1>3, <1>4, <1>5 DEF LoginInv

-----------------------------------------------------------------------------
(* Types.                                                                  *)

LEMMA SessionType ==
    ASSUME TypeOK, NEW s \in Login, NEW why \in {"", "timeout", "gone", "error"},
           Failed(s, why) \/ Completed(s) \/ UNCHANGED session \/ session' = [session EXCEPT ![s] = Pending]
    PROVE  session' \in [Login -> Session]
<1>1. /\ [status |-> "failed", named |-> FALSE, why |-> why] \in Session
      /\ [status |-> "completed", named |-> TRUE, why |-> ""] \in Session
      /\ Pending \in Session
  BY DEF Session, Pending
<1> QED
  BY <1>1 DEF TypeOK, Failed, Completed

LEMMA PolledTypeStep ==
    ASSUME TypeOK, NEW s \in Login,
           Start(s) \/ Poll(s) \/ Tick(s) \/ Timeout(s) \/ Exchange(s) \/ Connect(s) \/ Tell(s)
    PROVE  TypeOK'
<1> USE DEF GiveUp, Goto
<1>1. CASE Start(s)
  BY <1>1, SessionType DEF TypeOK, Start, StartCodexDeviceLogin, StartWorkBuddyOAuth,
        StartQoderOAuth, StartCursorOAuth, PolledPlatform, traeVars, kiroVars
<1>2. CASE Poll(s)
  BY <1>2, SessionType DEF TypeOK, Poll, traeVars, kiroVars
<1>3. CASE Tick(s) \/ Timeout(s)
  BY <1>3, SessionType DEF TypeOK, Tick, Timeout, traeVars, kiroVars
<1>4. CASE Exchange(s)
  BY <1>4, SessionType DEF TypeOK, Exchange, traeVars, kiroVars
<1>5. CASE Connect(s)
  <2>1. connected' \in [Login -> Nat]
    BY <1>5 DEF TypeOK, Connect
  <2>2. session' \in [Login -> Session]
    BY <1>5, SessionType DEF Connect
  <2> QED
    BY <1>5, <2>1, <2>2 DEF TypeOK, Connect, traeVars, kiroVars
<1>6. CASE Tell(s)
  BY <1>6, SessionType DEF TypeOK, Tell, traeVars, kiroVars
<1> QED
  BY <1>1, <1>2, <1>3, <1>4, <1>5, <1>6

LEMMA TraeTypeStep ==
    ASSUME TypeOK, NEW s \in Login,
           Listen(s) \/ Install(s) \/ Publish(s) \/ Visit(s) \/ Serve(s) \/ CloseServed(s) \/ PollLogin(s)
    PROVE  TypeOK'
<1> USE MaxRequestsAssumption DEF GiveUp, Goto, Close
<1>1. CASE Listen(s)
  BY <1>1 DEF TypeOK, Listen, kiroVars
<1>2. CASE Install(s)
  BY <1>2 DEF TypeOK, Install, kiroVars
<1>3. CASE Publish(s)
  BY <1>3, SessionType DEF TypeOK, Publish, traeVars, kiroVars
<1>4. CASE Visit(s)
  <2>1. requests' \in [Trae -> 0 .. MaxRequests]
    BY <1>4 DEF TypeOK, Visit
  <2>2. request' \in [Trae -> BOOLEAN]
    BY <1>4 DEF TypeOK, Visit
  <2> QED
    BY <1>4, <2>1, <2>2 DEF TypeOK, Visit, kiroVars
<1>5. CASE Serve(s)
  <2>1. answer' \in [Trae -> {"none", "code", "token", "error"}]
    BY <1>5 DEF TypeOK, Serve
  <2>2. request' \in [Trae -> BOOLEAN] /\ closing' \subseteq Trae
    BY <1>5 DEF TypeOK, Serve
  <2> QED
    BY <1>5, <2>1, <2>2 DEF TypeOK, Serve, kiroVars
<1>6. CASE CloseServed(s)
  BY <1>6 DEF TypeOK, CloseServed, kiroVars
<1>7. CASE PollLogin(s)
  <2>1. session' \in [Login -> Session]
    BY <1>7, SessionType DEF PollLogin
  <2>2. pending' \subseteq Trae /\ listener' \in [Trae -> {"none", "open", "closed"}]
    BY <1>7 DEF TypeOK, PollLogin
  <2>3. at' \in [Login -> {"start", "install", "publish", "poll", "wait", "exchange",
                           "connect", "tell", "handed", "end"}]
    BY <1>7 DEF TypeOK, PollLogin
  <2> QED
    BY <1>7, <2>1, <2>2, <2>3 DEF TypeOK, PollLogin, kiroVars
<1> QED
  BY <1>1, <1>2, <1>3, <1>4, <1>5, <1>6, <1>7

LEMMA KiroTypeStep ==
    ASSUME TypeOK,
           \/ \E s \in Login : StartLogin(s) \/ StartKiroOAuth(s)
           \/ \E h \in Callback : CompleteKiroOAuth(h)
    PROVE  TypeOK'
<1> USE DEF Goto
<1>1. ASSUME NEW s \in Login, StartLogin(s) PROVE TypeOK'
  BY <1>1 DEF TypeOK, StartLogin, traeVars
<1>2. ASSUME NEW s \in Login, StartKiroOAuth(s) PROVE TypeOK'
  BY <1>2, SessionType DEF TypeOK, StartKiroOAuth, traeVars
<1>3. ASSUME NEW h \in Callback, CompleteKiroOAuth(h) PROVE TypeOK'
  <2>1. call' \in [Callback -> Call]
    BY <1>3 DEF TypeOK, CompleteKiroOAuth, Call
  <2> QED
    BY <1>3, <2>1 DEF TypeOK, CompleteKiroOAuth, traeVars
<1> QED
  BY <1>1, <1>2, <1>3

LEMMA HandlerTypeStep ==
    ASSUME TypeOK, Handlers, NEW h \in Callback, Handler(h)
    PROVE  TypeOK'
<1> DEFINE s == call[h].login
<1>1. s \in Login
  BY DEF Handler, CompleteLogin, ConnectKiro, TellKiro, Handlers, Answering, Login
<1>2. session' \in [Login -> Session]
  BY <1>1, SessionType DEF Handler, CompleteLogin, ConnectKiro, TellKiro
<1>3. call' \in [Callback -> Call]
  BY DEF TypeOK, Handler, CompleteLogin, ConnectKiro, TellKiro, Returns, Advance, Call
<1>4. connected' \in [Login -> Nat]
  BY DEF TypeOK, Handler, CompleteLogin, ConnectKiro, TellKiro
<1>5. kiroClient' \subseteq Kiro
  BY DEF TypeOK, Handler, CompleteLogin, ConnectKiro, TellKiro
<1> QED
  BY <1>2, <1>3, <1>4, <1>5 DEF TypeOK, Handler, CompleteLogin, ConnectKiro, TellKiro, traeVars

LEMMA TypeStep == LoginInv /\ [Next]_vars => TypeOK'
<1> SUFFICES ASSUME LoginInv, [Next]_vars PROVE TypeOK'
  OBVIOUS
<1>1. ASSUME NEW s \in Login, Approve(s) \/ Expire(s) PROVE TypeOK'
  BY <1>1 DEF LoginInv, TypeOK, Approve, Expire, traeVars, kiroVars
<1>2. CASE UNCHANGED vars
  BY <1>2 DEF LoginInv, TypeOK, vars, traeVars, kiroVars
<1> QED
  BY <1>1, <1>2, PolledTypeStep, TraeTypeStep, KiroTypeStep, HandlerTypeStep
  DEF LoginInv, Next, Goroutine

-----------------------------------------------------------------------------
(* How a step of one login looks to the others.                            *)

OnlyOf(s) == \A t \in Login \ {s} :
    session'[t] = session[t] /\ at'[t] = at[t] /\ connected'[t] = connected[t]

\* A login that is not Kiro's leaves Kiro's invariants alone.
LEMMA OtherLogins ==
    ASSUME TypeOK, Handlers, KiroTables, NEW s \in Login \ Kiro, OnlyOf(s), UNCHANGED kiroVars
    PROVE  Handlers' /\ KiroTables'
<1>1. (\A t \in Kiro : t \in Login /\ t # s) /\ kiroClient \subseteq Kiro
  BY DEF Login, TypeOK
<1>2. Handlers'
  BY <1>1 DEF Handlers, OnlyOf, Answering, kiroVars, TypeOK
<1>3. KiroTables'
  BY <1>1 DEF KiroTables, KiroTablesAgree, OnlyOf, kiroVars
<1> QED
  BY <1>2, <1>3

\* What a goroutine, or the start of a login, does to its own login.
Moves(s) ==
    \/ UNCHANGED <<session, connected>> /\ at[s] \in {"poll", "wait", "exchange"}
         /\ at'[s] \in {"poll", "wait", "exchange", "connect"}
    \/ UNCHANGED <<session, connected>> /\ at[s] \in {"start", "install"} /\ at'[s] \in {"install", "publish"}
    \/ session'[s] = Pending /\ UNCHANGED connected /\ at[s] \in {"start", "publish"} /\ at'[s] = "poll"
    \/ (\E why \in {"error", "timeout", "gone"} : Failed(s, why)) /\ UNCHANGED connected
         /\ at[s] \in {"poll", "wait", "exchange", "connect"} /\ at'[s] = "end"
    \/ UNCHANGED session /\ connected'[s] = connected[s] + 1 /\ at[s] = "connect" /\ at'[s] = "tell"
    \/ Completed(s) /\ UNCHANGED connected /\ at[s] = "tell" /\ at'[s] = "end"

LEMMA PolledMoves ==
    ASSUME TypeOK, NEW s \in Login,
           Start(s) \/ Poll(s) \/ Tick(s) \/ Timeout(s) \/ Exchange(s) \/ Connect(s) \/ Tell(s)
    PROVE  OnlyOf(s) /\ Moves(s) /\ UNCHANGED kiroVars /\ UNCHANGED traeVars
<1> USE DEF TypeOK, OnlyOf, Moves, GiveUp, Goto, Failed, Completed
<1>1. CASE Start(s)
  BY <1>1 DEF Start, StartCodexDeviceLogin, StartWorkBuddyOAuth, StartQoderOAuth, StartCursorOAuth
<1>2. CASE Poll(s)
  BY <1>2 DEF Poll
<1>3. CASE Tick(s) \/ Timeout(s)
  BY <1>3 DEF Tick, Timeout
<1>4. CASE Exchange(s)
  BY <1>4 DEF Exchange
<1>5. CASE Connect(s)
  BY <1>5 DEF Connect
<1>6. CASE Tell(s)
  BY <1>6 DEF Tell
<1> QED
  BY <1>1, <1>2, <1>3, <1>4, <1>5, <1>6

LEMMA TraeMoves ==
    ASSUME TypeOK, NEW s \in Login, Listen(s) \/ Install(s) \/ Publish(s) \/ PollLogin(s)
    PROVE  OnlyOf(s) /\ Moves(s) /\ UNCHANGED kiroVars /\ s \in Trae
<1> USE DEF TypeOK, OnlyOf, Moves, GiveUp, Goto, Failed
<1>1. CASE Listen(s)
  BY <1>1 DEF Listen
<1>2. CASE Install(s)
  BY <1>2 DEF Install
<1>3. CASE Publish(s)
  BY <1>3 DEF Publish
<1>4. CASE PollLogin(s)
  BY <1>4 DEF PollLogin
<1> QED
  BY <1>1, <1>2, <1>3, <1>4

LEMMA LifeMoves ==
    ASSUME TypeOK, Life, NEW s \in Login \ Kiro, OnlyOf(s), Moves(s)
    PROVE  Life'
<1> DEFINE LifeOf(places, why, stored) ==
        /\ places \in {"start", "install", "publish"} => why = "absent" /\ stored = 0
        /\ places \in {"poll", "wait", "exchange", "connect"} => why = "pending" /\ stored = 0
        /\ places = "tell" => why = "pending" /\ stored = 1
        /\ places # "handed"
<1>1. LifeOf(at[s], session[s].status, connected[s])
  BY DEF Life
<1>2. LifeOf(at'[s], session'[s].status, connected'[s])
  <2>1. ASSUME UNCHANGED <<session, connected>>,
               \/ /\ at[s] \in {"poll", "wait", "exchange"}
                  /\ at'[s] \in {"poll", "wait", "exchange", "connect"}
               \/ at[s] \in {"start", "install"} /\ at'[s] \in {"install", "publish"}
        PROVE  LifeOf(at'[s], session'[s].status, connected'[s])
    BY <1>1, <2>1
  <2>2. ASSUME session'[s] = Pending, UNCHANGED connected, at[s] \in {"start", "publish"}, at'[s] = "poll"
        PROVE  LifeOf(at'[s], session'[s].status, connected'[s])
    <3>1. Pending.status = "pending"
      BY DEF Pending
    <3>2. connected'[s] = 0 /\ session'[s].status = "pending"
      BY <1>1, <2>2, <3>1
    <3> QED
      BY <2>2, <3>2
  <2>3. ASSUME UNCHANGED session, connected'[s] = connected[s] + 1, at[s] = "connect", at'[s] = "tell"
        PROVE  LifeOf(at'[s], session'[s].status, connected'[s])
    BY <1>1, <2>3
  <2>4. ASSUME at'[s] = "end" PROVE LifeOf(at'[s], session'[s].status, connected'[s])
    BY <2>4
  <2> HIDE DEF LifeOf
  <2> QED
    BY <2>1, <2>2, <2>3, <2>4 DEF Moves
<1> QED
  BY <1>2 DEF Life, OnlyOf

\* Only a login that is not Kiro's is at a goroutine's place.
LEMMA NotKiro ==
    ASSUME Life, NEW s \in Login,
           Start(s) \/ Listen(s) \/ Install(s) \/ Publish(s) \/ Goroutine(s)
    PROVE  s \in Login \ Kiro
BY KindsAssumption DEF Life, Start, Listen, Install, Publish, Goroutine, Poll, PollLogin,
   Tick, Timeout, Exchange, Connect, Tell

LEMMA OutsideSteps ==
    ASSUME NEW s, Approve(s) \/ Expire(s) \/ Visit(s) \/ Serve(s) \/ CloseServed(s)
    PROVE  UNCHANGED <<session, at, connected, pending, kiroVars>>
BY DEF Approve, Expire, Visit, Serve, CloseServed, traeVars, kiroVars

LEMMA UnchangedLogins ==
    ASSUME Life, Handlers, KiroTables, UNCHANGED <<session, at, connected, kiroVars>>
    PROVE  Life' /\ Handlers' /\ KiroTables'
BY DEF Life, Handlers, KiroTables, KiroTablesAgree, Answering, kiroVars

-----------------------------------------------------------------------------
(* Kiro.                                                                   *)

LEMMA StartLoginStep ==
    ASSUME LoginInv, NEW s \in Login, StartLogin(s)
    PROVE  Life' /\ Handlers' /\ KiroTables'
<1>1. /\ s \in Kiro /\ at[s] = "start" /\ at' = [at EXCEPT ![s] = "publish"]
      /\ kiroClient' = kiroClient \union {s}
      /\ UNCHANGED <<session, connected, kiroPending, call>>
  BY DEF StartLogin, Goto
<1>2. at \in [Login -> {"start", "install", "publish", "poll", "wait", "exchange",
                        "connect", "tell", "handed", "end"}] /\ Kiro \subseteq Login
  BY DEF LoginInv, TypeOK, Login
<1>3. Life'
  BY <1>1, <1>2 DEF LoginInv, Life
<1>4. Handlers'
  BY <1>1, <1>2 DEF LoginInv, Handlers, Answering
<1>5. KiroTables'
  BY <1>1, <1>2 DEF LoginInv, KiroTables, KiroTablesAgree
<1> QED
  BY <1>3, <1>4, <1>5

LEMMA StartKiroOAuthStep ==
    ASSUME LoginInv, NEW s \in Login, StartKiroOAuth(s)
    PROVE  Life' /\ Handlers' /\ KiroTables'
<1>1. /\ s \in Kiro /\ at[s] = "publish" /\ at' = [at EXCEPT ![s] = "handed"]
      /\ session' = [session EXCEPT ![s] = Pending]
      /\ kiroPending' = kiroPending \union {s}
      /\ UNCHANGED <<connected, kiroClient, call>>
  BY DEF StartKiroOAuth, Goto
<1>2. /\ at \in [Login -> {"start", "install", "publish", "poll", "wait", "exchange",
                           "connect", "tell", "handed", "end"}]
      /\ session \in [Login -> Session] /\ Kiro \subseteq Login /\ s \in kiroClient
      /\ connected[s] = 0 /\ Pending.status = "pending"
  BY <1>1 DEF LoginInv, TypeOK, Login, KiroTables, Life, Pending
<1>3. Life'
  BY <1>1, <1>2 DEF LoginInv, Life
<1>4. Handlers'
  BY <1>1, <1>2 DEF LoginInv, Handlers, Answering
<1>5. KiroTables'
  BY <1>1, <1>2 DEF LoginInv, KiroTables, KiroTablesAgree
<1> QED
  BY <1>3, <1>4, <1>5

LEMMA CompleteKiroOAuthStep ==
    ASSUME LoginInv, NEW h \in Callback, CompleteKiroOAuth(h)
    PROVE  Life' /\ Handlers' /\ KiroTables'
<1> PICK s \in Kiro :
      /\ at[s] = "handed"
      /\ call' = [call EXCEPT ![h] = [login |-> s, at |-> IF s \in kiroPending THEN "client" ELSE "end"]]
      /\ kiroPending' = kiroPending \ {s}
  BY DEF CompleteKiroOAuth
<1>1. call[h].at = "idle" /\ UNCHANGED <<session, at, connected, kiroClient>>
  BY DEF CompleteKiroOAuth
<1>2. call \in [Callback -> Call] /\ ~Answering(h)
  BY <1>1 DEF LoginInv, TypeOK, Answering
<1>3. \A g \in Callback \ {h} : call'[g] = call[g]
  BY <1>2
<1>4. /\ call'[h].login = s
      /\ call'[h].at = IF s \in kiroPending THEN "client" ELSE "end"
  BY <1>2
<1>5. Life'
  BY <1>1 DEF LoginInv, Life
<1>6. Handlers'
  <2>1. \A g \in Callback : Answering(g)' => IF g = h THEN s \in kiroPending ELSE Answering(g)
    BY <1>3, <1>4 DEF Answering
  <2> QED
    BY <1>1, <1>3, <1>4, <2>1 DEF LoginInv, Handlers, Answering
<1>7. KiroTables'
  <2>1. kiroPending' \subseteq kiroClient' /\ \A t \in Kiro : at'[t] = "publish" => t \in kiroClient'
    BY <1>1 DEF LoginInv, KiroTables, KiroTablesAgree
  <2>2. ASSUME NEW t \in kiroClient' \ kiroPending'
        PROVE  at'[t] = "publish" \/ \E g \in Callback : call'[g] = [login |-> t, at |-> "client"]
    <3>1. CASE t = s /\ s \in kiroPending
      BY <1>2, <3>1
    <3>2. CASE ~(t = s /\ s \in kiroPending)
      <4>1. t \in kiroClient \ kiroPending
        BY <1>1, <2>2, <3>2
      <4>2. CASE at[t] = "publish"
        BY <1>1, <4>2
      <4>3. CASE \E g \in Callback : call[g] = [login |-> t, at |-> "client"]
        BY <1>1, <1>3, <4>3
      <4> QED
        BY <4>1, <4>2, <4>3 DEF LoginInv, KiroTables, KiroTablesAgree
    <3> QED
      BY <3>1, <3>2
  <2> QED
    BY <2>1, <2>2 DEF KiroTables, KiroTablesAgree
<1> QED
  BY <1>5, <1>6, <1>7

LEMMA HandlerStep ==
    ASSUME LoginInv, NEW h \in Callback, Handler(h)
    PROVE  Life' /\ Handlers' /\ KiroTables'
<1> DEFINE s == call[h].login
<1>1. /\ Answering(h) /\ s \in Kiro \ kiroPending /\ at[s] = "handed" /\ s \in Login
      /\ session[s].status = "pending"
      /\ connected[s] = IF call[h].at = "tell" THEN 1 ELSE 0
  BY DEF LoginInv, Handlers, Handler, CompleteLogin, ConnectKiro, TellKiro, Answering, Login
<1>2. /\ session \in [Login -> Session] /\ connected \in [Login -> Nat]
      /\ call \in [Callback -> Call] /\ kiroClient \subseteq Kiro
  BY DEF LoginInv, TypeOK
<1>3. /\ UNCHANGED <<at, kiroPending>>
      /\ \A t \in Login \ {s} : session'[t] = session[t] /\ connected'[t] = connected[t]
      /\ \A g \in Callback \ {h} : call'[g] = call[g]
      /\ call'[h].login = s
  <2> USE DEF Failed, Completed, Returns, Advance
  <2>1. CASE CompleteLogin(h)
    BY <1>1, <1>2, <2>1 DEF CompleteLogin, Call
  <2>2. CASE ConnectKiro(h)
    BY <1>1, <1>2, <2>2 DEF ConnectKiro, Call
  <2>3. CASE TellKiro(h)
    BY <1>1, <1>2, <2>3 DEF TellKiro, Call
  <2> QED
    BY <2>1, <2>2, <2>3 DEF Handler
<1>4. \/ call'[h].at = "end"
      \/ /\ call'[h].at = "connect" /\ call[h].at = "client"
         /\ UNCHANGED <<session, connected>>
      \/ /\ call'[h].at = "tell" /\ call[h].at = "connect"
         /\ session' = session /\ connected'[s] = connected[s] + 1
  <2> USE DEF Returns, Advance
  <2>1. CASE CompleteLogin(h)
    BY <1>1, <1>2, <2>1 DEF CompleteLogin, Call
  <2>2. CASE ConnectKiro(h)
    BY <1>1, <1>2, <2>2 DEF ConnectKiro, Call
  <2>3. CASE TellKiro(h)
    BY <1>1, <1>2, <2>3 DEF TellKiro, Call
  <2> QED
    BY <2>1, <2>2, <2>3 DEF Handler
<1>5. Life'
  BY <1>1, <1>3 DEF LoginInv, Life
<1>6. Handlers'
  <2>1. \A g \in Callback \ {h} : Answering(g) => call[g].login # s /\ call[g].login \in Login
    BY <1>1 DEF LoginInv, Handlers, Login
  <2>2. Answering(h)' => /\ session'[s].status = "pending"
                         /\ connected'[s] = IF call'[h].at = "tell" THEN 1 ELSE 0
    BY <1>1, <1>4 DEF Answering
  <2>3. \A t \in kiroPending : t # s /\ t \in Login
    BY <1>1 DEF LoginInv, TypeOK, Login
  <2>4. \A g \in Callback \ {h} : Answering(g)' = Answering(g)
    BY <1>3 DEF Answering
  <2>5. ASSUME NEW g \in Callback, Answering(g)'
        PROVE  LET t == call'[g].login IN
               /\ t \in Kiro \ kiroPending' /\ at'[t] = "handed"
               /\ session'[t].status = "pending"
               /\ connected'[t] = IF call'[g].at = "tell" THEN 1 ELSE 0
    <3>1. CASE g = h
      BY <1>1, <1>3, <2>2, <2>5, <3>1
    <3>2. CASE g # h
      BY <1>3, <2>1, <2>4, <2>5, <3>2 DEF LoginInv, Handlers
    <3> QED
      BY <3>1, <3>2
  <2>6. \A g, f \in Callback : Answering(g)' /\ Answering(f)' /\ call'[g].login = call'[f].login => g = f
    BY <1>1, <1>3, <2>1, <2>4 DEF LoginInv, Handlers
  <2>7. \A t \in kiroPending' :
          at'[t] = "handed" /\ session'[t].status = "pending" /\ connected'[t] = 0
    BY <1>3, <2>3 DEF LoginInv, Handlers
  <2> QED
    BY <2>5, <2>6, <2>7 DEF Handlers
<1>7. KiroTables'
  <2>1. \/ kiroClient' = kiroClient
        \/ call[h].at = "client" /\ kiroClient' = kiroClient \ {s}
    <3>1. CASE CompleteLogin(h)
      BY <3>1 DEF CompleteLogin
    <3>2. CASE ConnectKiro(h) \/ TellKiro(h)
      <4>1. UNCHANGED kiroClient
        BY <1>2, <3>2 DEF ConnectKiro, TellKiro, Returns, Advance, Call, Failed, Completed
      <4> QED
        BY <4>1
    <3> QED
      BY <3>1, <3>2 DEF Handler
  <2>2. kiroPending' \subseteq kiroClient'
    BY <1>1, <1>3, <2>1 DEF LoginInv, KiroTables, KiroTablesAgree
  <2>3. \A t \in Kiro : at'[t] = "publish" => t \in kiroClient'
    BY <1>1, <1>3, <2>1 DEF LoginInv, KiroTables
  <2>4. ASSUME NEW t \in kiroClient' \ kiroPending'
        PROVE  at'[t] = "publish" \/ \E g \in Callback : call'[g] = [login |-> t, at |-> "client"]
    <3>1. t \in kiroClient \ kiroPending
      BY <1>3, <2>1, <2>4
    <3>2. CASE at[t] = "publish"
      BY <1>3, <3>2
    <3>3. ASSUME NEW g \in Callback, call[g] = [login |-> t, at |-> "client"]
          PROVE  \E f \in Callback : call'[f] = [login |-> t, at |-> "client"]
      <4>1. CASE g # h
        BY <1>3, <3>3, <4>1
      <4>2. CASE g = h
        <5>1. t = s /\ call[h].at = "client"
          BY <3>3, <4>2
        <5>2. CompleteLogin(h)
          BY <5>1 DEF Handler, ConnectKiro, TellKiro
        <5> QED
          BY <2>4, <5>1, <5>2 DEF CompleteLogin
      <4> QED
        BY <4>1, <4>2
    <3> QED
      BY <3>1, <3>2, <3>3 DEF LoginInv, KiroTables, KiroTablesAgree
  <2> QED
    BY <2>2, <2>3, <2>4 DEF KiroTables, KiroTablesAgree
<1> QED
  BY <1>5, <1>6, <1>7

-----------------------------------------------------------------------------
(* TRAE's table and listeners.                                             *)

LEMMA ListenersStep == LoginInv /\ [Next]_vars => Listeners'
<1> SUFFICES ASSUME LoginInv, [Next]_vars PROVE Listeners'
  OBVIOUS
<1> USE DEF Listeners
<1>1. /\ Listeners /\ pending \subseteq Trae /\ listener \in [Trae -> {"none", "open", "closed"}]
      /\ Trae \subseteq Login /\ at \in [Login -> {"start", "install", "publish", "poll", "wait",
                                                  "exchange", "connect", "tell", "handed", "end"}]
  BY DEF LoginInv, TypeOK, Login
<1>2. ASSUME NEW s \in Login, Listen(s) PROVE Listeners'
  BY <1>1, <1>2 DEF Listen, Goto
<1>3. ASSUME NEW s \in Login, Install(s) PROVE Listeners'
  <2>1. \A t \in Trae : listener'[t] = IF t \in pending THEN "closed" ELSE listener[t]
    BY <1>3 DEF Install, Close
  <2> QED
    BY <1>1, <1>3, <2>1 DEF Install, Goto
<1>4. ASSUME NEW s \in Login, PollLogin(s) PROVE Listeners'
  <2>1. at' = [at EXCEPT ![s] = at'[s]] /\ at[s] = "poll"
    BY <1>1, <1>4 DEF PollLogin, GiveUp, Goto
  <2>2. \/ UNCHANGED <<pending, listener>>
        \/ pending' = pending \ {s} /\ Close({s})
    BY <1>4 DEF PollLogin
  <2>3. CASE UNCHANGED <<pending, listener>>
    BY <1>1, <2>1, <2>3
  <2>4. CASE pending' = pending \ {s} /\ Close({s})
    <3>1. \A t \in Trae : listener'[t] = IF t = s THEN "closed" ELSE listener[t]
      BY <2>4 DEF Close
    <3> QED
      BY <1>1, <2>1, <2>4, <3>1
  <2> QED
    BY <2>2, <2>3, <2>4
<1>5. ASSUME NEW s \in Login, CloseServed(s) PROVE Listeners'
  <2>1. \A t \in Trae : listener'[t] = "open" => listener[t] = "open"
    BY <1>5 DEF CloseServed, Close
  <2> QED
    BY <1>1, <1>5, <2>1 DEF CloseServed
<1>6. ASSUME UNCHANGED <<pending, listener>>,
             \A t \in Trae : at[t] = "install" => at'[t] = "install"
      PROVE  Listeners'
  BY <1>1, <1>6
<1>7. ASSUME NEW s \in Login, OnlyOf(s), at[s] # "install", UNCHANGED <<pending, listener>>
      PROVE  Listeners'
  BY <1>1, <1>6, <1>7 DEF OnlyOf
<1>8. ASSUME NEW s \in Login, Start(s) \/ Poll(s) \/ Tick(s) \/ Timeout(s) \/ Exchange(s) \/ Connect(s) \/ Tell(s)
      PROVE  Listeners'
  <2>1. OnlyOf(s) /\ UNCHANGED traeVars
    BY <1>8, PolledMoves DEF LoginInv
  <2>2. at[s] # "install"
    BY <1>8 DEF Start, StartCodexDeviceLogin, StartWorkBuddyOAuth, StartQoderOAuth, StartCursorOAuth,
         Poll, Tick, Timeout, Exchange, Connect, Tell
  <2> QED
    BY <1>7, <2>1, <2>2 DEF traeVars
<1>9. ASSUME NEW s \in Login, Publish(s) PROVE Listeners'
  BY <1>1, <1>7, <1>9, TraeMoves DEF LoginInv, Publish, traeVars
<1>10. ASSUME NEW s \in Login, StartLogin(s) \/ StartKiroOAuth(s) PROVE Listeners'
  BY <1>1, <1>6, <1>10 DEF StartLogin, StartKiroOAuth, Goto, traeVars
<1>11. ASSUME NEW s \in Login, Approve(s) \/ Expire(s) \/ Visit(s) \/ Serve(s) PROVE Listeners'
  BY <1>6, <1>11 DEF Approve, Expire, Visit, Serve, traeVars
<1>12. ASSUME NEW h \in Callback, CompleteKiroOAuth(h) \/ Handler(h) PROVE Listeners'
  BY <1>6, <1>12 DEF CompleteKiroOAuth, Handler, CompleteLogin, ConnectKiro, TellKiro, traeVars
<1>13. CASE UNCHANGED vars
  BY <1>6, <1>13 DEF vars, traeVars
<1> QED
  BY <1>2, <1>3, <1>4, <1>5, <1>8, <1>9, <1>10, <1>11, <1>12, <1>13 DEF Next, Goroutine

LEMMA LoginStep == LoginInv /\ [Next]_vars => (Life /\ Handlers /\ KiroTables)'
<1> SUFFICES ASSUME LoginInv, [Next]_vars PROVE Life' /\ Handlers' /\ KiroTables'
  OBVIOUS
<1>1. TypeOK /\ Life /\ Handlers /\ KiroTables
  BY DEF LoginInv
<1>2. ASSUME NEW s \in Login \ Kiro, OnlyOf(s), Moves(s), UNCHANGED kiroVars
      PROVE  Life' /\ Handlers' /\ KiroTables'
  BY <1>1, <1>2, LifeMoves, OtherLogins
<1>3. ASSUME NEW s \in Login,
             Start(s) \/ Poll(s) \/ Tick(s) \/ Timeout(s) \/ Exchange(s) \/ Connect(s) \/ Tell(s)
      PROVE  Life' /\ Handlers' /\ KiroTables'
  BY <1>1, <1>2, <1>3, PolledMoves, NotKiro DEF Goroutine
<1>4. ASSUME NEW s \in Login, Listen(s) \/ Install(s) \/ Publish(s) \/ PollLogin(s)
      PROVE  Life' /\ Handlers' /\ KiroTables'
  BY <1>1, <1>2, <1>4, TraeMoves, NotKiro DEF Goroutine
<1>5. ASSUME NEW s \in Login, Approve(s) \/ Expire(s) \/ Visit(s) \/ Serve(s) \/ CloseServed(s)
      PROVE  Life' /\ Handlers' /\ KiroTables'
  BY <1>1, <1>5, OutsideSteps, UnchangedLogins
<1>6. CASE UNCHANGED vars
  BY <1>1, <1>6, UnchangedLogins DEF vars
<1> QED
  BY <1>3, <1>4, <1>5, <1>6, StartLoginStep, StartKiroOAuthStep, CompleteKiroOAuthStep, HandlerStep
  DEF Next, Goroutine

LEMMA LoginInvariance == Spec => []LoginInv
<1>1. LoginInv /\ [Next]_vars => LoginInv'
  BY TypeStep, LoginStep, ListenersStep DEF LoginInv
<1> QED
  BY InitInv, <1>1, PTL DEF Spec

-----------------------------------------------------------------------------
(* The theorems.                                                           *)

\* The sessions, tables and places keep to their types.
THEOREM LoginsTypeOK == Spec => []TypeOK
<1>1. LoginInv => TypeOK
  BY DEF LoginInv
<1> QED
  BY <1>1, LoginInvariance, PTL

\* Whatever logins replace one another, are called back twice or run out of
\* time, every open listener has its owner and Kiro's two tables agree.
THEOREM LoginsNothingLeftBehind == Spec => []NothingLeftBehind
<1>1. ASSUME LoginInv PROVE NothingLeftBehind
  <2>1. Cardinality(pending) <= 1
    <3>1. CASE pending = {}
      BY <3>1, FS_EmptySet
    <3>2. ASSUME NEW s \in pending PROVE Cardinality(pending) <= 1
      <4>1. pending = {s}
        BY <1>1, <3>2 DEF LoginInv, Listeners
      <4> QED
        BY <4>1, FS_Singleton
    <3> QED
      BY <3>1, <3>2
  <2> QED
    BY <1>1, <2>1 DEF LoginInv, Listeners, KiroTables, NothingLeftBehind, ListenersHaveOwners
<1> QED
  BY <1>1, LoginInvariance, PTL

\* A TRAE login leaves the client's table only by its own poll or for a
\* later login.
THEOREM LoginsKeptUntilReplaced == Spec => KeptUntilReplaced
<1> DEFINE Cause(s) ==
        \/ at[s] = "poll" /\ (s \in expired \/ answer[s] # "none")
        \/ \E t \in Trae \ {s} : at[t] = "install" /\ t \in pending'
<1>1. ASSUME LoginInv, [Next]_vars PROVE [\A s \in pending : s \notin pending' => Cause(s)]_vars
  <2> SUFFICES ASSUME NEW s \in pending, s \notin pending' PROVE Cause(s)
    OBVIOUS
  <2>1. ASSUME NEW t \in Login, Install(t) PROVE Cause(s)
    BY <2>1 DEF Install
  <2>2. ASSUME NEW t \in Login, PollLogin(t) PROVE Cause(s)
    BY <2>2 DEF PollLogin
  <2>3. CASE UNCHANGED pending
    BY <2>3
  <2>4. ASSUME NEW t \in Login,
               Start(t) \/ Poll(t) \/ Tick(t) \/ Timeout(t) \/ Exchange(t) \/ Connect(t) \/ Tell(t)
        PROVE  UNCHANGED pending
    BY <1>1, <2>4, PolledMoves DEF LoginInv, traeVars
  <2>5. ASSUME NEW t \in Login, Approve(t) \/ Expire(t) \/ Visit(t) \/ Serve(t) \/ CloseServed(t)
        PROVE  UNCHANGED pending
    BY <2>5, OutsideSteps
  <2>6. ASSUME NEW t \in Login, Listen(t) \/ Publish(t) \/ StartLogin(t) \/ StartKiroOAuth(t)
        PROVE  UNCHANGED pending
    BY <2>6 DEF Listen, Publish, StartLogin, StartKiroOAuth, traeVars
  <2>7. ASSUME NEW h \in Callback, CompleteKiroOAuth(h) \/ Handler(h) PROVE UNCHANGED pending
    BY <2>7 DEF CompleteKiroOAuth, Handler, CompleteLogin, ConnectKiro, TellKiro, traeVars
  <2>8. CASE UNCHANGED vars
    BY <2>3, <2>8 DEF vars, traeVars
  <2> HIDE DEF Cause
  <2> QED
    BY <1>1, <2>1, <2>2, <2>3, <2>4, <2>5, <2>6, <2>7, <2>8 DEF Next, Goroutine
<1> QED
  BY <1>1, LoginInvariance, PTL DEF Spec, KeptUntilReplaced

\* Every step of a login is a step of its contract, or none.
THEOREM LoginsKeepTheirPromise == Spec => KeepsItsPromise
<1> DEFINE shown == [s \in Login |-> session[s].status]
<1>1. Init => Contract!Init
  <2>1. Absent.status = "absent"
    BY DEF Absent
  <2>2. Init => shown = [s \in Login |-> "absent"]
    BY <2>1 DEF Init
  <2> QED
    BY <2>2 DEF Init, Contract!Init
<1>2. ASSUME LoginInv, [Next]_vars PROVE [Contract!Next]_<<shown, connected>>
  <2> DEFINE Kept == [Contract!Next]_<<shown, connected>>
  <2>1. session \in [Login -> Session] /\ connected \in [Login -> Nat]
    BY <1>2 DEF LoginInv, TypeOK
  <2>2. ASSUME UNCHANGED <<session, connected>> PROVE Kept
    BY <2>2
  <2>3. ASSUME NEW s \in Login, session' = [session EXCEPT ![s] = Pending],
               session[s].status = "absent", UNCHANGED connected
        PROVE  Kept
    <3>1. shown' = [shown EXCEPT ![s] = "pending"] /\ shown[s] = "absent"
      BY <2>1, <2>3 DEF Pending
    <3>2. Contract!Begin(s)
      BY <2>3, <3>1 DEF Contract!Begin
    <3> QED
      BY <3>2 DEF Contract!Next
  <2>4. ASSUME NEW s \in Login, NEW why, Failed(s, why),
               session[s].status = "pending", connected[s] = 0, UNCHANGED connected
        PROVE  Kept
    <3>1. shown' = [shown EXCEPT ![s] = "failed"] /\ shown[s] = "pending"
      BY <2>1, <2>4 DEF Failed
    <3>2. Contract!Fail(s)
      BY <2>4, <3>1 DEF Contract!Fail
    <3> QED
      BY <3>2 DEF Contract!Next
  <2>5. ASSUME NEW s \in Login, connected' = [connected EXCEPT ![s] = @ + 1],
               session[s].status = "pending", connected[s] = 0, UNCHANGED session
        PROVE  Kept
    <3>1. connected' = [connected EXCEPT ![s] = 1] /\ shown[s] = "pending" /\ shown' = shown
      BY <2>1, <2>5
    <3>2. Contract!Connect(s)
      BY <2>5, <3>1 DEF Contract!Connect
    <3> QED
      BY <3>2 DEF Contract!Next
  <2>6. ASSUME NEW s \in Login, Completed(s),
               session[s].status = "pending", connected[s] = 1, UNCHANGED connected
        PROVE  Kept
    <3>1. shown' = [shown EXCEPT ![s] = "completed"] /\ shown[s] = "pending"
      BY <2>1, <2>6 DEF Completed
    <3>2. Contract!Complete(s)
      BY <2>6, <3>1 DEF Contract!Complete
    <3> QED
      BY <3>2 DEF Contract!Next
  <2> HIDE DEF Kept
  <2>7. ASSUME NEW s \in Login, Goroutine(s) PROVE Kept
    <3> USE DEF GiveUp
    <3>1. CASE Poll(s)
      BY <1>2, <2>2, <2>4, <3>1 DEF Poll, LoginInv, Life
    <3>2. CASE PollLogin(s)
      BY <1>2, <2>2, <2>4, <3>2 DEF PollLogin, LoginInv, Life
    <3>3. CASE Tick(s) \/ Timeout(s)
      BY <1>2, <2>2, <2>4, <3>3 DEF Tick, Timeout, LoginInv, Life
    <3>4. CASE Exchange(s)
      BY <1>2, <2>2, <2>4, <3>4 DEF Exchange, LoginInv, Life
    <3>5. CASE Connect(s)
      BY <1>2, <2>4, <2>5, <3>5 DEF Connect, LoginInv, Life
    <3>6. CASE Tell(s)
      BY <1>2, <2>6, <3>6 DEF Tell, LoginInv, Life
    <3> QED
      BY <2>7, <3>1, <3>2, <3>3, <3>4, <3>5, <3>6 DEF Goroutine
  <2>8. ASSUME NEW s \in Login, Start(s) \/ Publish(s) \/ StartKiroOAuth(s) PROVE Kept
    BY <1>2, <2>3, <2>8 DEF Start, StartCodexDeviceLogin, StartWorkBuddyOAuth, StartQoderOAuth,
         StartCursorOAuth, Publish, StartKiroOAuth, LoginInv, Life
  <2>9. ASSUME NEW s \in Login, Listen(s) \/ Install(s) \/ StartLogin(s) PROVE Kept
    BY <2>2, <2>9 DEF Listen, Install, StartLogin
  <2>10. ASSUME NEW s \in Login, Approve(s) \/ Expire(s) \/ Visit(s) \/ Serve(s) \/ CloseServed(s)
        PROVE  Kept
    BY <2>2, <2>10, OutsideSteps
  <2>11. ASSUME NEW h \in Callback, CompleteKiroOAuth(h) PROVE Kept
    BY <2>2, <2>11 DEF CompleteKiroOAuth
  <2>12. ASSUME NEW h \in Callback, Handler(h) PROVE Kept
    <3> DEFINE s == call[h].login
    <3>1. /\ s \in Login /\ session[s].status = "pending"
          /\ connected[s] = IF call[h].at = "tell" THEN 1 ELSE 0
      BY <1>2, <2>12 DEF LoginInv, Handlers, Handler, CompleteLogin, ConnectKiro, TellKiro, Answering, Login
    <3>2. CASE CompleteLogin(h)
      BY <2>2, <2>4, <3>1, <3>2 DEF CompleteLogin
    <3>3. CASE ConnectKiro(h)
      BY <2>4, <2>5, <3>1, <3>3 DEF ConnectKiro
    <3>4. CASE TellKiro(h)
      BY <2>6, <3>1, <3>4 DEF TellKiro
    <3> QED
      BY <2>12, <3>2, <3>3, <3>4 DEF Handler
  <2>13. ASSUME UNCHANGED vars PROVE Kept
    BY <2>2, <2>13 DEF vars
  <2>14. Kept
    BY <1>2, <2>7, <2>8, <2>9, <2>10, <2>11, <2>12, <2>13 DEF Next
  <2> QED
    BY <2>14 DEF Kept
<1> QED
  BY <1>1, <1>2, LoginInvariance, PTL DEF Spec, KeepsItsPromise, Contract!Spec
=============================================================================
