--------------------------- MODULE ConsoleProofs ---------------------------
(***************************************************************************)
(* For any number of logins, addresses, streams and publishers and any     *)
(* limits: the table of failed logins stays bounded and its blocks hold,   *)
(* no send meets a closed channel, and no change goes untold.              *)
(***************************************************************************)
EXTENDS Console, TLAPS, FiniteSetTheorems

\* Why no send meets a closed channel: only subscribed channels are sent to,
\* for whoever changes the subscriptions waits until nobody sends.
Channels ==
    /\ \A p \in Publisher : pub[p].todo \subseteq clients
    /\ \A p \in Publisher : pub[p].todo # {} => pub[p].at = "send"
    /\ clients \intersect closed = {}
    /\ \A x \in closed : stream[x] = "end"
    /\ NeverSendsOnClosed

ConsoleInv == TypeOK /\ Channels /\ NoChangeGoesUntold /\ TrackedSourcesBounded

-----------------------------------------------------------------------------
(* Types.                                                                  *)

LEMMA InitInv == Init => ConsoleInv
<1> SUFFICES ASSUME Init PROVE ConsoleInv
  OBVIOUS
<1> PICK t \in Together : AuthInit(t.required, t.login) /\ HubInit(t.stream, t.publisher)
  BY DEF Init
<1> t \in [required : BOOLEAN, login : SUBSET Login, stream : SUBSET Stream, publisher : SUBSET Publisher]
  BY TogetherAssumption
<1>1. AuthTypeOK
  BY LimitsAssumption DEF AuthInit, AuthTypeOK, Time, NoLogin, New
<1>2. HubTypeOK
  <2>1. pub \in [Publisher -> [at : {"off", "idle", "lock", "send"}, todo : SUBSET Stream]]
    BY Zenon DEF HubInit
  <2>2. buffer \in [Stream -> 0 .. BufferSize] /\ told \in [Stream -> 0 .. MaxChanges] /\ changes \in 0 .. MaxChanges
    BY BufferAssumption, MaxChangesAssumption DEF HubInit
  <2> QED
    BY <2>1, <2>2 DEF HubInit, HubTypeOK
<1>3. Channels
  BY DEF HubInit, Channels, NeverSendsOnClosed
<1>4. NoChangeGoesUntold
  BY DEF HubInit, NoChangeGoesUntold
<1>5. Tracked = {}
  BY DEF AuthInit, Tracked, TrackedIn
<1>6. TrackedSourcesBounded
  BY <1>5, FS_EmptySet, LimitsAssumption DEF TrackedSourcesBounded
<1> QED
  BY <1>1, <1>2, <1>3, <1>4, <1>6 DEF ConsoleInv, TypeOK

\* An entry after one more failure is an entry.
LEMMA AfterFailureIsEntry ==
    ASSUME AuthTypeOK, NEW a \in Source
    PROVE  AfterFailure(a) \in Entry
BY LimitsAssumption DEF AuthTypeOK, AfterFailure, Entry, Time, Never

\* The three ways of limitLoginFailureEntriesLocked: nothing to do, dropping
\* what is over, and evicting one entry more.
LEMMA LimitCases ==
    ASSUME NEW table, NEW result \in LimitLoginFailures(table)
    PROVE  \/ result = table /\ Cardinality(TrackedIn(table)) <= MaxTracked
           \/ result = Current(table) /\ Cardinality(TrackedIn(Current(table))) <= MaxTracked
           \/ /\ ~(Cardinality(TrackedIn(Current(table))) <= MaxTracked)
              /\ \E c \in TrackedIn(Current(table)) : result = [Current(table) EXCEPT ![c] = None]
BY DEF LimitLoginFailures

LEMMA CurrentIsTable ==
    ASSUME NEW table \in [Source -> Entry \union {None}]
    PROVE  /\ Current(table) \in [Source -> Entry \union {None}]
           /\ TrackedIn(Current(table)) \subseteq TrackedIn(table)
BY DEF Current, TrackedIn

LEMMA AuthTypeStep == AuthTypeOK /\ AuthNext => AuthTypeOK'
<1> SUFFICES ASSUME AuthTypeOK, AuthNext PROVE AuthTypeOK'
  OBVIOUS
<1> USE LimitsAssumption DEF AuthTypeOK
<1>1. CASE Tick
  BY <1>1 DEF Tick, Time
<1>2. ASSUME NEW r \in Login, BeginLogin(r) PROVE AuthTypeOK'
  BY <1>2 DEF BeginLogin, LoginAllowed
<1>3. ASSUME NEW r \in Login, FailLogin(r) PROVE AuthTypeOK'
  <2> DEFINE a == login[r].source
             table == [failures EXCEPT ![a] = AfterFailure(a)]
  <2>1. failures' \in LimitLoginFailures(table) /\ login[r].at = "verify"
    BY <1>3 DEF FailLogin
  <2>2. table \in [Source -> Entry \union {None}]
    <3>1. CASE a \in Source
      BY <3>1, AfterFailureIsEntry
    <3>2. CASE a \notin Source
      BY <3>2
    <3> QED
      BY <3>1, <3>2
  <2>3. failures' \in [Source -> Entry \union {None}]
    <3> HIDE DEF table, a
    <3> QED
      BY <2>1, <2>2, LimitCases, CurrentIsTable
  <2>4. login' \in [Login -> [at : {"off", "idle", "verify", "clear"}, source : Source \union {None}]]
    BY <1>3 DEF FailLogin, NoLogin
  <2> QED
    BY <1>3, <2>3, <2>4 DEF FailLogin
<1>4. ASSUME NEW r \in Login, CreateSession(r) PROVE AuthTypeOK'
  BY <1>4 DEF CreateSession, Time, Gone
<1>5. ASSUME NEW r \in Login, RefuseSession(r) \/ ClearFailures(r) PROVE AuthTypeOK'
  BY <1>5 DEF RefuseSession, ClearFailures, NoLogin
<1>6. ASSUME NEW c \in SessionId, Logout(c) \/ DropExpired(c) PROVE AuthTypeOK'
  BY <1>6 DEF Logout, DropExpired, Gone
<1> QED
  BY <1>1, <1>2, <1>3, <1>4, <1>5, <1>6 DEF AuthNext
LEMMA HubTypeStep == HubTypeOK /\ HubNext => HubTypeOK'
<1> SUFFICES ASSUME HubTypeOK, HubNext PROVE HubTypeOK'
  OBVIOUS
<1> USE BufferAssumption, MaxChangesAssumption DEF HubTypeOK
<1>1. ASSUME NEW p \in Publisher, Change(p) PROVE HubTypeOK'
  BY <1>1 DEF Change
<1>2. ASSUME NEW p \in Publisher, Publish(p) PROVE HubTypeOK'
  BY <1>2 DEF Publish
<1>3. ASSUME NEW p \in Publisher, Send(p) PROVE HubTypeOK'
  <2> PICK x \in pub[p].todo :
         /\ buffer' = [buffer EXCEPT ![x] = IF @ < BufferSize THEN @ + 1 ELSE @]
         /\ pub' = [pub EXCEPT ![p].todo = @ \ {x}]
         /\ panicked' = (panicked \/ x \in closed)
    BY <1>3 DEF Send
  <2>1. x \in Stream /\ buffer' \in [Stream -> 0 .. BufferSize]
    OBVIOUS
  <2>2. panicked' \in BOOLEAN
    OBVIOUS
  <2>3. pub' \in [Publisher -> [at : {"off", "idle", "lock", "send"}, todo : SUBSET Stream]]
    OBVIOUS
  <2> QED
    BY <1>3, <2>1, <2>2, <2>3 DEF Send
<1>4. ASSUME NEW p \in Publisher, Published(p) PROVE HubTypeOK'
  BY <1>4 DEF Published
<1>5. ASSUME NEW x \in Stream, Disconnect(x) \/ Subscribe(x) \/ Unsubscribe(x) PROVE HubTypeOK'
  BY <1>5 DEF Disconnect, Subscribe, Unsubscribe, Step
<1>6. ASSUME NEW x \in Stream, Take(x) \/ Heartbeat(x) PROVE HubTypeOK'
  BY <1>6 DEF Take, Heartbeat, Step
<1>7. ASSUME NEW x \in Stream, NEW from, Written(x, from) \/ Leave(x, from) PROVE HubTypeOK'
  BY <1>7 DEF Written, Leave, Step
<1> QED
  BY <1>1, <1>2, <1>3, <1>4, <1>5, <1>6, <1>7 DEF HubNext, PublisherStep, Handler, ContextDone

LEMMA OpenTypeStep == HubTypeOK => \A x \in Stream : Open(x) \/ Refuse(x) => HubTypeOK'
BY DEF HubTypeOK, Open, Refuse, Step

LEMMA TypeStep == TypeOK /\ [Next]_vars => TypeOK'
<1> SUFFICES ASSUME TypeOK, [Next]_vars PROVE TypeOK'
  OBVIOUS
<1>1. UNCHANGED authVars => AuthTypeOK'
  BY DEF TypeOK, AuthTypeOK, authVars
<1>2. UNCHANGED hubVars => HubTypeOK'
  BY DEF TypeOK, HubTypeOK, hubVars
<1> QED
  BY <1>1, <1>2, AuthTypeStep, HubTypeStep, OpenTypeStep DEF TypeOK, Next, OpenStream, vars

-----------------------------------------------------------------------------
(* The channels of the hub.                                                *)

\* What a step of publisher p, or of stream x, may change.
LEMMA ChannelsStep == TypeOK /\ Channels /\ [Next]_vars => Channels'
<1> SUFFICES ASSUME HubTypeOK, Channels, [Next]_vars PROVE Channels'
  BY DEF TypeOK
<1> USE DEF HubTypeOK, Channels, NeverSendsOnClosed
<1>1. ASSUME NEW p \in Publisher, Change(p) \/ Publish(p) \/ Published(p) PROVE Channels'
  BY <1>1 DEF Change, Publish, Published
<1>2. ASSUME NEW p \in Publisher, Send(p) PROVE Channels'
  BY <1>2 DEF Send
<1>3. ASSUME NEW x \in Stream, Subscribe(x) PROVE Channels'
  <2>1. stream[x] = "subscribe" /\ x \notin closed
    BY <1>3 DEF Subscribe, Step
  <2> QED
    BY <1>3, <2>1 DEF Subscribe, Step
<1>4. ASSUME NEW x \in Stream, Unsubscribe(x) PROVE Channels'
  <2>1. \A p \in Publisher : pub[p].todo = {}
    BY <1>4 DEF Unsubscribe, Sending
  <2> QED
    BY <1>4, <2>1 DEF Unsubscribe, Step
<1>5. ASSUME NEW x \in Stream, Disconnect(x) PROVE Channels'
  BY <1>5 DEF Disconnect
<1>6. ASSUME NEW x \in Stream, NEW from \in {"off", "greet", "select", "write"}, NEW to,
             Step(x, from, to), UNCHANGED <<clients, closed, pub, panicked>>
      PROVE  Channels'
  BY <1>6 DEF Step
<1>7. ASSUME NEW x \in Stream, Open(x) \/ Refuse(x) PROVE Channels'
  BY <1>7, <1>6 DEF Open, Refuse
<1>8. ASSUME NEW x \in Stream, Take(x) \/ Heartbeat(x) \/ ContextDone(x) PROVE Channels'
  BY <1>8, <1>6 DEF Take, Heartbeat, ContextDone, Leave
<1>9. ASSUME NEW x \in Stream, NEW from \in {"greet", "write"}, Written(x, from) \/ Leave(x, from)
      PROVE  Channels'
  BY <1>9, <1>6 DEF Written, Leave
<1>10. CASE UNCHANGED hubVars
  BY <1>10 DEF hubVars
<1> QED
  BY <1>1, <1>2, <1>3, <1>4, <1>5, <1>7, <1>8, <1>9, <1>10
  DEF Next, OpenStream, HubNext, PublisherStep, Handler, vars

-----------------------------------------------------------------------------
(* What a stream has been told.                                            *)

LEMMA UntoldStep == TypeOK /\ Channels /\ NoChangeGoesUntold /\ [Next]_vars => NoChangeGoesUntold'
<1> SUFFICES ASSUME HubTypeOK, Channels, NoChangeGoesUntold, [Next]_vars,
                    NEW x \in clients', told'[x] < changes'
             PROVE  \/ buffer'[x] > 0
                    \/ \E p \in Publisher : pub'[p].at = "lock" \/ x \in pub'[p].todo
  BY DEF TypeOK, NoChangeGoesUntold
<1> DEFINE Untold == buffer'[x] > 0 \/ \E p \in Publisher : pub'[p].at = "lock" \/ x \in pub'[p].todo
<1> USE BufferAssumption DEF HubTypeOK, NoChangeGoesUntold
<1>1. ASSUME NEW p \in Publisher, Change(p) PROVE Untold
  BY <1>1 DEF Change
<1>2. ASSUME NEW p \in Publisher, Publish(p) PROVE Untold
  BY <1>2 DEF Publish
<1>3. ASSUME NEW p \in Publisher, Send(p) PROVE Untold
  <2> PICK y \in pub[p].todo :
         /\ buffer' = [buffer EXCEPT ![y] = IF @ < BufferSize THEN @ + 1 ELSE @]
         /\ pub' = [pub EXCEPT ![p].todo = @ \ {y}]
    BY <1>3 DEF Send
  <2>1. y \in Stream /\ UNCHANGED <<changes, clients, told>>
    BY <1>3 DEF Send
  <2>2. CASE y = x
    BY <2>1, <2>2
  <2>3. CASE y # x
    <3>1. buffer'[x] = buffer[x]
      BY <2>1, <2>3
    <3>2. \A q \in Publisher : pub'[q].at = pub[q].at /\ (x \in pub[q].todo => x \in pub'[q].todo)
      BY <2>3
    <3> QED
      BY <2>1, <3>1, <3>2
  <2> QED
    BY <2>2, <2>3
<1>4. ASSUME NEW p \in Publisher, Published(p) PROVE Untold
  BY <1>4 DEF Published
<1>5. ASSUME NEW y \in Stream, Subscribe(y) PROVE Untold
  BY <1>5 DEF Subscribe
<1>6. ASSUME NEW y \in Stream, Take(y) PROVE Untold
  BY <1>6 DEF Take
<1>7. ASSUME UNCHANGED <<changes, buffer, pub, told>>, clients' \subseteq clients PROVE Untold
  BY <1>7
<1>8. ASSUME NEW y \in Stream,
             Open(y) \/ Refuse(y) \/ Unsubscribe(y) \/ Disconnect(y) \/ Heartbeat(y) \/ ContextDone(y)
      PROVE  Untold
  BY <1>8, <1>7 DEF Open, Refuse, Unsubscribe, Disconnect, Heartbeat, ContextDone, Leave
<1>9. ASSUME NEW y \in Stream, NEW from, Written(y, from) \/ Leave(y, from) PROVE Untold
  BY <1>9, <1>7 DEF Written, Leave
<1>10. CASE UNCHANGED hubVars
  BY <1>10, <1>7 DEF hubVars
<1> QED
  BY <1>1, <1>2, <1>3, <1>4, <1>5, <1>6, <1>8, <1>9, <1>10
  DEF Next, OpenStream, HubNext, PublisherStep, Handler, vars

-----------------------------------------------------------------------------
(* The table of failed logins.                                             *)

\* The entries that are left when one more source has failed: no more than
\* before and that source.
LEMMA TrackedAfterFailure ==
    ASSUME AuthTypeOK, TrackedSourcesBounded, NEW b \in Source,
           NEW table, table = [failures EXCEPT ![b] = AfterFailure(b)]
    PROVE  /\ TrackedIn(Current(table)) \subseteq Tracked \union {b}
           /\ IsFiniteSet(TrackedIn(Current(table)))
           /\ Cardinality(TrackedIn(Current(table))) <= MaxTracked + 1
           /\ Cardinality(TrackedIn(Current(table))) > MaxTracked =>
                 /\ b \in TrackedIn(Current(table)) \ Tracked
                 /\ Cardinality(Tracked) = MaxTracked
<1> DEFINE kept == TrackedIn(Current(table))
<1>1. table \in [Source -> Entry \union {None}]
  BY AfterFailureIsEntry DEF AuthTypeOK
<1>2. kept \subseteq Tracked \union {b}
  BY <1>1, CurrentIsTable DEF TrackedIn, Tracked
<1>3. IsFiniteSet(Tracked)
  BY SourceAssumption, FS_Subset DEF Tracked, TrackedIn
<1>4. /\ Cardinality(Tracked) \in Nat /\ Cardinality(Tracked) <= MaxTracked
      /\ MaxTracked \in Nat
  BY <1>3, FS_CardinalityType, LimitsAssumption DEF TrackedSourcesBounded
<1>5. /\ IsFiniteSet(Tracked \union {b})
      /\ Cardinality(Tracked \union {b}) = IF b \in Tracked THEN Cardinality(Tracked) ELSE Cardinality(Tracked) + 1
  BY <1>3, FS_AddElement
<1>6. IsFiniteSet(kept) /\ Cardinality(kept) <= Cardinality(Tracked \union {b})
  BY <1>2, <1>5, FS_Subset
<1>7. Cardinality(kept) \in Nat
  BY <1>6, FS_CardinalityType
<1>8. b \notin kept => Cardinality(kept) <= Cardinality(Tracked)
  BY <1>2, <1>3, FS_Subset
<1>9. Cardinality(kept) <= MaxTracked + 1
  <2> HIDE DEF kept
  <2> QED
    BY <1>4, <1>5, <1>6, <1>7
<1>10. Cardinality(kept) > MaxTracked => b \in kept /\ b \notin Tracked /\ Cardinality(Tracked) = MaxTracked
  <2> HIDE DEF kept
  <2> QED
    BY <1>4, <1>5, <1>6, <1>7, <1>8
<1> QED
  BY <1>2, <1>6, <1>9, <1>10

\* The steps that touch the table at all.
LEMMA BoundedStep == TypeOK /\ TrackedSourcesBounded /\ [Next]_vars => TrackedSourcesBounded'
<1> SUFFICES ASSUME AuthTypeOK, TrackedSourcesBounded, [Next]_vars PROVE TrackedSourcesBounded'
  BY DEF TypeOK
<1>1. ASSUME Tracked' \subseteq Tracked PROVE TrackedSourcesBounded'
  <2>1. IsFiniteSet(Tracked)
    BY SourceAssumption, FS_Subset DEF Tracked, TrackedIn
  <2>2. Cardinality(Tracked') <= Cardinality(Tracked) /\ IsFiniteSet(Tracked')
    BY <1>1, <2>1, FS_Subset
  <2>3. Cardinality(Tracked) \in Nat /\ Cardinality(Tracked') \in Nat
    BY <2>1, <2>2, FS_CardinalityType
  <2> QED
    BY <2>2, <2>3, LimitsAssumption DEF TrackedSourcesBounded
<1>2. ASSUME UNCHANGED failures PROVE TrackedSourcesBounded'
  BY <1>2, <1>1 DEF Tracked, TrackedIn
<1>3. ASSUME NEW r \in Login, BeginLogin(r) PROVE TrackedSourcesBounded'
  BY <1>3, <1>1 DEF BeginLogin, LoginAllowed, Tracked, TrackedIn, AuthTypeOK
<1>4. ASSUME NEW r \in Login, ClearFailures(r) PROVE TrackedSourcesBounded'
  BY <1>4, <1>1 DEF ClearFailures, Tracked, TrackedIn, AuthTypeOK
<1>5. ASSUME NEW r \in Login, FailLogin(r) PROVE TrackedSourcesBounded'
  <2> DEFINE b == login[r].source
             table == [failures EXCEPT ![b] = AfterFailure(b)]
             kept == TrackedIn(Current(table))
  <2>1. failures' \in LimitLoginFailures(table)
    BY <1>5 DEF FailLogin
  <2>2. b \in Source \union {None}
    BY DEF AuthTypeOK
  <2>3. CASE b \notin Source
    <3>1. table = failures
      BY <2>3 DEF AuthTypeOK
    <3>2. failures' = failures
      BY <2>1, <3>1 DEF LimitLoginFailures, TrackedSourcesBounded, Tracked
    <3> QED
      BY <1>2, <3>2
  <2>4. CASE b \in Source
    <3>1. IsFiniteSet(kept) /\ Cardinality(kept) <= MaxTracked + 1
      BY <2>4, TrackedAfterFailure
    <3>2. Current(table) \in [Source -> Entry \union {None}]
      BY <2>4, CurrentIsTable, AfterFailureIsEntry DEF AuthTypeOK
    <3>3. ASSUME NEW c \in kept, failures' = [Current(table) EXCEPT ![c] = None]
          PROVE  TrackedSourcesBounded'
      <4>1. Tracked' = kept \ {c}
        <5> DEFINE left == Current(table)
        <5> HIDE DEF left
        <5> QED
          BY <3>2, <3>3 DEF Tracked, TrackedIn, left
      <4>2. Cardinality(Tracked') = Cardinality(kept) - 1 /\ Cardinality(kept) \in Nat
        BY <3>1, <4>1, FS_RemoveElement, FS_CardinalityType
      <4> QED
        BY <3>1, <4>2, LimitsAssumption DEF TrackedSourcesBounded
    <3>4. ASSUME Cardinality(Tracked') <= MaxTracked PROVE TrackedSourcesBounded'
      BY <3>4 DEF TrackedSourcesBounded
    <3> HIDE DEF table
    <3> QED
      BY <2>1, <3>3, <3>4, LimitCases DEF Tracked
  <2> QED
    BY <2>2, <2>3, <2>4
<1>6. ASSUME NEW r \in Login, CreateSession(r) \/ RefuseSession(r) PROVE TrackedSourcesBounded'
  BY <1>6, <1>2 DEF CreateSession, RefuseSession
<1>7. ASSUME NEW c \in SessionId, Logout(c) \/ DropExpired(c) PROVE TrackedSourcesBounded'
  BY <1>7, <1>2 DEF Logout, DropExpired
<1>8. CASE Tick \/ UNCHANGED authVars
  BY <1>8, <1>2 DEF Tick, authVars
<1> QED
  BY <1>3, <1>4, <1>5, <1>6, <1>7, <1>8 DEF Next, OpenStream, AuthNext, vars

\* Who lifts a block: a failure of another source does only by evicting.
LEMMA BlockStep ==
    ASSUME TypeOK, TrackedSourcesBounded, [Next]_vars, NEW a \in Source, Blocked(a)
    PROVE  \/ Blocked(a)'
           \/ now' >= failures[a].until
           \/ \E r \in Login : login[r].source = a /\ login'[r] # login[r]
           \/ Cardinality(Tracked) = MaxTracked /\ Tracked' \ Tracked # {}
<1> DEFINE Lifted ==
        \/ Blocked(a)'
        \/ now' >= failures[a].until
        \/ \E r \in Login : login[r].source = a /\ login'[r] # login[r]
        \/ Cardinality(Tracked) = MaxTracked /\ Tracked' \ Tracked # {}
<1>0. AuthTypeOK /\ failures[a] \in Entry /\ now \in Time /\ now < failures[a].until
  BY DEF TypeOK, AuthTypeOK, Blocked
<1>1. ASSUME failures'[a] = failures[a], now' = now PROVE Lifted
  BY <1>1 DEF Blocked
<1>2. ASSUME Tick PROVE Lifted
  <2>1. now' \in Int /\ failures[a].until \in Int
    BY <1>0, <1>2 DEF Tick, Entry, Time
  <2> QED
    BY <1>0, <1>2, <2>1 DEF Tick, Blocked
<1>3. ASSUME NEW r \in Login, BeginLogin(r) PROVE Lifted
  <2> PICK b \in Source : LoginAllowed(b)
    BY <1>3 DEF BeginLogin
  <2>1. b # a
    BY DEF LoginAllowed
  <2>2. failures'[a] = failures[a]
    BY <1>0, <2>1 DEF LoginAllowed, AuthTypeOK
  <2> QED
    BY <1>1, <1>3, <2>2 DEF BeginLogin
<1>4. ASSUME NEW r \in Login, login[r].source = a, login'[r] # login[r] PROVE Lifted
  BY <1>4
<1>5. ASSUME NEW r \in Login, FailLogin(r) PROVE Lifted
  <2> DEFINE b == login[r].source
             table == [failures EXCEPT ![b] = AfterFailure(b)]
  <2>1. failures' \in LimitLoginFailures(table) /\ now' = now
    BY <1>5 DEF FailLogin
  <2>2. CASE b = a
    <3>1. login'[r].at = "idle" /\ login[r].at = "verify"
      BY <1>0, <1>5 DEF FailLogin, AuthTypeOK, NoLogin
    <3> QED
      BY <1>4, <2>2, <3>1
  <2>3. CASE b # a
    <3>1. table[a] = failures[a] /\ table \in [Source -> Entry \union {None}]
      <4>1. CASE b \in Source
        BY <1>0, <2>3, <4>1, AfterFailureIsEntry DEF AuthTypeOK
      <4>2. CASE b \notin Source
        BY <1>0, <4>2 DEF AuthTypeOK
      <4> QED
        BY <4>1, <4>2
    <3>2. Current(table)[a] = failures[a]
      <4>1. ~Over(failures[a])
        BY <1>0 DEF Over, Never, Time, Entry
      <4> HIDE DEF table
      <4> QED
        BY <3>1, <4>1 DEF Current
    <3>3. ASSUME NEW c \in TrackedIn(Current(table)),
                 failures' = [Current(table) EXCEPT ![c] = None],
                 ~(Cardinality(TrackedIn(Current(table))) <= MaxTracked)
          PROVE  Lifted
      <4>1. CASE b \notin Source
        <5>1. table = failures
          BY <1>0, <4>1 DEF AuthTypeOK
        <5>2. failures' = failures
          BY <2>1, <5>1 DEF LimitLoginFailures, TrackedSourcesBounded, Tracked
        <5> QED
          BY <1>1, <2>1, <5>2
      <4>2. CASE b \in Source
        <5>1. b \in TrackedIn(Current(table)) \ Tracked /\ Cardinality(Tracked) = MaxTracked
          <6>1. IsFiniteSet(TrackedIn(Current(table)))
            BY <1>0, <4>2, TrackedAfterFailure
          <6>2. Cardinality(TrackedIn(Current(table))) > MaxTracked
            BY <3>3, <6>1, FS_CardinalityType, LimitsAssumption
          <6> QED
            BY <1>0, <4>2, <6>2, TrackedAfterFailure
        <5>2. Current(table) \in [Source -> Entry \union {None}]
          BY <3>1, CurrentIsTable
        <5> DEFINE left == Current(table)
        <5>3. CASE c # a
          <6>1. failures'[a] = failures[a]
            <7> HIDE DEF left
            <7> QED
              BY <3>2, <3>3, <5>2, <5>3
          <6> QED
            BY <1>1, <2>1, <6>1
        <5>4. CASE c = a
          <6>1. failures'[b] = left[b] /\ left[b] # None
            <7> HIDE DEF left, b
            <7> QED
              BY <2>3, <3>3, <4>2, <5>1, <5>2, <5>4 DEF TrackedIn, left
          <6>2. b \in Tracked'
            BY <4>2, <6>1 DEF Tracked, TrackedIn
          <6> QED
            BY <5>1, <6>2
        <5> QED
          BY <5>3, <5>4
      <4> QED
        BY <4>1, <4>2
    <3>4. ASSUME failures' = table \/ failures' = Current(table) PROVE Lifted
      BY <1>1, <2>1, <3>1, <3>2, <3>4
    <3> HIDE DEF table, Lifted
    <3> QED
      BY <2>1, <3>3, <3>4, LimitCases
  <2> QED
    BY <2>2, <2>3
<1>6. ASSUME NEW r \in Login, ClearFailures(r) PROVE Lifted
  <2>1. CASE login[r].source = a
    <3>1. login'[r].at = "idle" /\ login[r].at = "clear"
      BY <1>0, <1>6 DEF ClearFailures, AuthTypeOK, NoLogin
    <3> QED
      BY <1>4, <2>1, <3>1
  <2>2. CASE login[r].source # a
    BY <1>0, <1>1, <1>6, <2>2 DEF ClearFailures, AuthTypeOK
  <2> QED
    BY <2>1, <2>2
<1>7. ASSUME UNCHANGED <<failures, now>> PROVE Lifted
  BY <1>1, <1>7
<1>8. ASSUME NEW r \in Login, CreateSession(r) \/ RefuseSession(r) PROVE Lifted
  BY <1>7, <1>8 DEF CreateSession, RefuseSession
<1>9. ASSUME NEW c \in SessionId, Logout(c) \/ DropExpired(c) PROVE Lifted
  BY <1>7, <1>9 DEF Logout, DropExpired
<1>10. CASE UNCHANGED authVars
  BY <1>7, <1>10 DEF authVars
<1>11. AuthNext \/ UNCHANGED authVars
  BY DEF Next, OpenStream, vars
<1>12. ASSUME AuthNext PROVE Lifted
  <2> HIDE DEF Lifted
  <2> QED
    BY <1>2, <1>3, <1>5, <1>6, <1>8, <1>9, <1>12 DEF AuthNext
<1> QED
  BY <1>10, <1>11, <1>12

-----------------------------------------------------------------------------
(* The theorems.                                                           *)

LEMMA ConsoleInvariance == Spec => []ConsoleInv
<1>1. ConsoleInv /\ [Next]_vars => ConsoleInv'
  BY TypeStep, ChannelsStep, UntoldStep, BoundedStep DEF ConsoleInv
<1> QED
  BY InitInv, <1>1, PTL DEF Spec

\* The tables, channels and counters of the console have their shapes.
THEOREM ConsoleTypeOK == Spec => []TypeOK
<1>1. ConsoleInv => TypeOK
  BY DEF ConsoleInv
<1> QED
  BY <1>1, ConsoleInvariance, PTL

\* For any number of addresses and any limit, the table of failed logins
\* stays within it (limitLoginFailureEntriesLocked).
THEOREM ConsoleTrackedSourcesBounded == Spec => []TrackedSourcesBounded
<1>1. ConsoleInv => TrackedSourcesBounded
  BY DEF ConsoleInv
<1> QED
  BY <1>1, ConsoleInvariance, PTL

\* A block is lifted only by its end, by a login let in before, or by an
\* eviction from a full table (loginAllowed, recordLoginFailure).
THEOREM ConsoleBlockHolds == Spec => BlockHolds
<1>1. ConsoleInv /\ [Next]_vars => [\A a \in Source : Blocked(a) =>
          \/ Blocked(a)'
          \/ now' >= failures[a].until
          \/ \E r \in Login : login[r].source = a /\ login'[r] # login[r]
          \/ Cardinality(Tracked) = MaxTracked /\ Tracked' \ Tracked # {}]_vars
  BY BlockStep DEF ConsoleInv
<1> QED
  BY <1>1, ConsoleInvariance, PTL DEF Spec, BlockHolds

\* Whatever streams come and go, no publisher sends on a closed channel.
THEOREM ConsoleNeverSendsOnClosed == Spec => []NeverSendsOnClosed
<1>1. ConsoleInv => NeverSendsOnClosed
  BY DEF ConsoleInv, Channels
<1> QED
  BY <1>1, ConsoleInvariance, PTL

\* For any buffer of at least one event, a subscribed stream learns of
\* every change: an event is lost only when another one is in the channel.
THEOREM ConsoleNoChangeGoesUntold == Spec => []NoChangeGoesUntold
<1>1. ConsoleInv => NoChangeGoesUntold
  BY DEF ConsoleInv
<1> QED
  BY <1>1, ConsoleInvariance, PTL
=============================================================================
