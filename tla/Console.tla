------------------------------ MODULE Console ------------------------------
(***************************************************************************)
(* The console: event streams (EventHub) are opened by requests that have  *)
(* passed the middleware of AdminAuth, and stay open when the session that *)
(* opened them ends.                                                       *)
(***************************************************************************)
EXTENDS AdminAuth, EventHub

\* Bound: what runs together, as [required, login, stream, publisher].
CONSTANT Together

ASSUME TogetherAssumption == Together \subseteq
    [required : BOOLEAN, login : SUBSET Login, stream : SUBSET Stream, publisher : SUBSET Publisher]

vars == <<authVars, hubVars>>

Init == \E t \in Together :
    /\ AuthInit(t.required, t.login)
    /\ HubInit(t.stream, t.publisher)

\* GET /events, behind the middleware, with the password or with a cookie.
OpenStream(x) ==
    /\ \E bearer \in BOOLEAN : Admitted(bearer)
    /\ Open(x) \/ Refuse(x)
    /\ UNCHANGED authVars

Next ==
    \/ \E x \in Stream : OpenStream(x)
    \/ AuthNext /\ UNCHANGED hubVars
    \/ HubNext /\ UNCHANGED authVars

Spec == Init /\ [][Next]_vars
FairSpec == Spec /\ HubFairness

-----------------------------------------------------------------------------
(* Properties.                                                             *)

\* Sessions, the table of failures and the channels have their shapes.
TypeOK == AuthTypeOK /\ HubTypeOK

\* However many addresses fail side by side, the table of failed logins
\* never holds more of them than its limit (limitLoginFailureEntriesLocked).
TrackedSourcesBounded == Cardinality(Tracked) <= MaxTracked

\* Until its time is up, a source's block is lifted by a login of that
\* source that was let in before the block began, or by the eviction of a
\* source from a full table; never by a new request, a window that is over,
\* or what another source does while there is room.
BlockHolds ==
    [][\A a \in Source : Blocked(a) =>
          \/ Blocked(a)'
          \/ now' >= failures[a].until
          \/ \E r \in Login : login[r].source = a /\ login'[r] # login[r]
          \/ Cardinality(Tracked) = MaxTracked /\ Tracked' \ Tracked # {}]_vars

\* No publisher sends on the channel of a stream that has unsubscribed,
\* which would bring the whole program down.
NeverSendsOnClosed == ~panicked

\* Events are lost when a channel is full, but a subscribed stream that has
\* not been told of a change has an event in its channel, or a publisher
\* that has yet to come to it.
NoChangeGoesUntold ==
    \A x \in clients : told[x] < changes =>
        \/ buffer[x] > 0
        \/ \E p \in Publisher : pub[p].at = "lock" \/ x \in pub[p].todo

\* The handler of a dashboard that has gone ends, its channel taken out of
\* the hub, whatever the publishers are doing.
StreamsAreReleased ==
    \A x \in Stream : (stream[x] # "off" /\ x \notin alive) ~> (stream[x] = "end" /\ x \notin clients)
=============================================================================
