------------------------------ MODULE EventHub ------------------------------
(***************************************************************************)
(* The hub that tells open dashboards of a change (EventHub in             *)
(* internal/service/events.go) and the handler of each event stream        *)
(* (serveEventStream in internal/api/events.go).                           *)
(*                                                                         *)
(* An event carries a type and a message that no dashboard reads: it makes *)
(* the dashboard load everything again.  A buffer is therefore a number.   *)
(***************************************************************************)
EXTENDS Integers, FiniteSets

CONSTANTS
    Stream,         \* event streams
    Publisher,      \* goroutines that change the store and publish
    BufferSize,     \* the size of a subscriber's channel
    MaxChanges      \* bound: changes of the store

ASSUME BufferAssumption == BufferSize \in Nat \ {0}
ASSUME MaxChangesAssumption == MaxChanges \in Nat

VARIABLES
    changes,    \* what the store has been changed to, counting up
    clients,    \* EventHub.clients: the subscribed channels
    closed,     \* the channels that are closed
    buffer,     \* buffer[x]: the number of events in x's channel
    waiting,    \* streams in mu.Lock, to subscribe or to unsubscribe
    pub,        \* pub[p]: where publisher p is and whom it still sends to
    stream,     \* stream[x]: where the handler of stream x is
    alive,      \* streams whose dashboard is still there
    told,       \* history: changes, when x subscribed or last took an event
    panicked    \* history: something was sent on a closed channel

hubVars == <<changes, clients, closed, buffer, waiting, pub, stream, alive, told, panicked>>

HubTypeOK ==
    /\ changes \in 0 .. MaxChanges
    /\ clients \subseteq Stream /\ closed \subseteq Stream
    /\ buffer \in [Stream -> 0 .. BufferSize]
    /\ waiting \subseteq Stream
    /\ pub \in [Publisher -> [at : {"off", "idle", "lock", "send"}, todo : SUBSET Stream]]
    /\ stream \in [Stream -> {"off", "subscribe", "greet", "select", "write", "leave", "end"}]
    /\ alive \subseteq Stream
    /\ told \in [Stream -> 0 .. MaxChanges]
    /\ panicked \in BOOLEAN

HubInit(streams, publishers) ==
    /\ changes = 0
    /\ clients = {} /\ closed = {}
    /\ buffer = [x \in Stream |-> 0]
    /\ waiting = {}
    /\ pub = [p \in Publisher |-> [at |-> IF p \in publishers THEN "idle" ELSE "off", todo |-> {}]]
    /\ stream = [x \in Stream |-> IF x \in streams THEN "off" ELSE "end"]
    /\ alive = {}
    /\ told = [x \in Stream |-> 0]
    /\ panicked = FALSE

Sending == {p \in Publisher : pub[p].at = "send"}

-----------------------------------------------------------------------------
(* Publishing.                                                             *)

\* An operation commits a change, and publishes after it.
Change(p) ==
    /\ pub[p].at = "idle" /\ changes < MaxChanges
    /\ changes' = changes + 1
    /\ pub' = [pub EXCEPT ![p].at = "lock"]
    /\ UNCHANGED <<clients, closed, buffer, waiting, stream, alive, told, panicked>>

\* Publish takes mu.RLock, after the writers that wait for it.
Publish(p) ==
    /\ pub[p].at = "lock" /\ waiting = {}
    /\ pub' = [pub EXCEPT ![p] = [at |-> "send", todo |-> clients]]
    /\ UNCHANGED <<changes, clients, closed, buffer, waiting, stream, alive, told, panicked>>

\* A mutant: the publisher waits for room in the channel.
SendBlocking(p) ==
    /\ \E x \in pub[p].todo :
         /\ buffer[x] < BufferSize
         /\ buffer' = [buffer EXCEPT ![x] = @ + 1]
         /\ pub' = [pub EXCEPT ![p].todo = @ \ {x}]
         /\ panicked' = (panicked \/ x \in closed)
    /\ UNCHANGED <<changes, clients, closed, waiting, stream, alive, told>>

\* The select with a default: the event is lost when the channel is full.
Send(p) ==
    /\ \E x \in pub[p].todo :
         /\ buffer' = [buffer EXCEPT ![x] = IF @ < BufferSize THEN @ + 1 ELSE @]
         /\ pub' = [pub EXCEPT ![p].todo = @ \ {x}]
         /\ panicked' = (panicked \/ x \in closed)
    /\ UNCHANGED <<changes, clients, closed, waiting, stream, alive, told>>

Published(p) ==
    /\ pub[p].at = "send" /\ pub[p].todo = {}
    /\ pub' = [pub EXCEPT ![p].at = "idle"]
    /\ UNCHANGED <<changes, clients, closed, buffer, waiting, stream, alive, told, panicked>>

-----------------------------------------------------------------------------
(* A stream.                                                               *)

Step(x, from, to) == stream[x] = from /\ stream' = [stream EXCEPT ![x] = to]

\* The response cannot be streamed: no Flusher, or a deadline that stays.
Refuse(x) ==
    /\ Step(x, "off", "end")
    /\ UNCHANGED <<changes, clients, closed, buffer, waiting, pub, alive, told, panicked>>

\* The request has passed the middleware.
Open(x) ==
    /\ Step(x, "off", "subscribe")
    /\ alive' = alive \union {x}
    /\ waiting' = waiting \union {x}
    /\ UNCHANGED <<changes, clients, closed, buffer, pub, told, panicked>>

Subscribe(x) ==
    /\ x \in waiting /\ Sending = {}
    /\ Step(x, "subscribe", "greet")
    /\ clients' = clients \union {x}
    /\ waiting' = waiting \ {x}
    /\ told' = [told EXCEPT ![x] = changes]
    /\ UNCHANGED <<changes, closed, buffer, pub, alive, panicked>>

\* The dashboard is closed, or its connection breaks.
Disconnect(x) ==
    /\ x \in alive
    /\ alive' = alive \ {x}
    /\ UNCHANGED <<changes, clients, closed, buffer, waiting, pub, stream, told, panicked>>

\* unsubscribe is deferred: every return calls it.
Leave(x, from) ==
    /\ Step(x, from, "leave")
    /\ waiting' = waiting \union {x}
    /\ UNCHANGED <<changes, clients, closed, buffer, pub, alive, told, panicked>>

\* A mutant: what came while a frame was written counts as told by it.
WrittenDraining(x, from) ==
    /\ Step(x, from, "select")
    /\ buffer' = [buffer EXCEPT ![x] = 0]
    /\ UNCHANGED <<changes, clients, closed, waiting, pub, alive, told, panicked>>

\* A frame, the first one and heartbeats too, may still be written to a
\* connection that broke a moment ago, and may fail on one that works.
Written(x, from) ==
    /\ Step(x, from, "select")
    /\ UNCHANGED <<changes, clients, closed, buffer, waiting, pub, alive, told, panicked>>

\* The select of the handler: the request's context, the channel, and the
\* heartbeat.
ContextDone(x) == x \notin alive /\ Leave(x, "select")

Take(x) ==
    /\ Step(x, "select", "write")
    /\ buffer[x] > 0
    /\ buffer' = [buffer EXCEPT ![x] = @ - 1]
    /\ told' = [told EXCEPT ![x] = changes]
    /\ UNCHANGED <<changes, clients, closed, waiting, pub, alive, panicked>>

Heartbeat(x) ==
    /\ Step(x, "select", "write")
    /\ UNCHANGED <<changes, clients, closed, buffer, waiting, pub, alive, told, panicked>>

\* A mutant: a channel is closed while publishers hold the lock.
UnsubscribeAtOnce(x) ==
    /\ x \in waiting
    /\ Step(x, "leave", "end")
    /\ clients' = clients \ {x}
    /\ closed' = closed \union {x}
    /\ waiting' = waiting \ {x}
    /\ UNCHANGED <<changes, buffer, pub, alive, told, panicked>>

Unsubscribe(x) ==
    /\ x \in waiting /\ Sending = {}
    /\ Step(x, "leave", "end")
    /\ clients' = clients \ {x}
    /\ closed' = closed \union {x}
    /\ waiting' = waiting \ {x}
    /\ UNCHANGED <<changes, buffer, pub, alive, told, panicked>>

PublisherStep(p) == Publish(p) \/ Send(p) \/ Published(p)

Handler(x) ==
    \/ Subscribe(x) \/ Unsubscribe(x)
    \/ Written(x, "greet") \/ Leave(x, "greet")
    \/ Take(x) \/ Heartbeat(x) \/ ContextDone(x)
    \/ Written(x, "write") \/ Leave(x, "write")

HubNext ==
    \/ \E p \in Publisher : Change(p) \/ PublisherStep(p)
    \/ \E x \in Stream : Disconnect(x) \/ Handler(x)

\* Publishers and handlers go on.  A select whose context is over chooses
\* among the cases that are ready at random, and so comes to it.
HubFairness ==
    /\ \A p \in Publisher : WF_hubVars(PublisherStep(p))
    /\ \A x \in Stream : WF_hubVars(Handler(x)) /\ SF_hubVars(ContextDone(x))
=============================================================================
