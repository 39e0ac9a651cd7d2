--------------------------- MODULE CoreDeviceInvoke ---------------------------
(* One CoreDeviceService (services/ios/core-device/core-device-service.ts) over  *)
(* its RemoteXpcFramedTransport objects (lib/remote-xpc/): serialised            *)
(* invocations that each dial a fresh connection, fire-and-forget messages that  *)
(* share whatever connection is there, replies that carry no request number, a   *)
(* timeout per invocation, and close().  A step is one event-loop callback with   *)
(* the promise continuations it triggers.                                         *)
EXTENDS Naturals, Sequences, SequencesExt

CONSTANTS
    Invocation,   \* calls of invoke or sendReceive
    Sender,       \* calls of send
    MaxTransports, \* bound: RemoteXpcFramedTransport objects
    MaxCloses,    \* bound: calls of close()
    NoTransport, NoCall

ASSUME BoundsAssumption == MaxTransports \in Nat /\ MaxCloses \in Nat
ASSUME CallsAssumption == Invocation \cap Sender = {}

ASSUME NoTransportAssumption == NoTransport \notin Nat

Call == Invocation \cup Sender
Transport == 1..MaxTransports  \* in the order of their construction

VARIABLES
    calls,      \* progress of each call, its transport and the reply it got
    queue,      \* invokeQueue: invocations in arrival order, the head runs
    transport,  \* CoreDeviceService.transport
    nextId,     \* CoreDeviceService.nextMessageId
    link,       \* state of each transport
    sent,       \* ids of the messages written on each transport, in order
    requests,   \* requests a device has yet to answer, per transport
    closes      \* calls of close() so far

vars == <<calls, queue, transport, nextId, link, sent, requests, closes>>

Phases == {"idle", "queued", "closing", "connecting", "waiting", "ok", "failed"}

\* "ending": the peer has half-closed, 'close' is yet to come; "closing": close()
\* was called, the socket is shutting down.
Links == {"unused", "dialing", "open", "ending", "closing", "closed"}

Init ==
    /\ calls = [c \in Call |-> [phase |-> "idle", on |-> NoTransport, reply |-> NoCall]]
    /\ queue = <<>>
    /\ transport = NoTransport
    /\ nextId = 1
    /\ link = [t \in Transport |-> "unused"]
    /\ sent = [t \in Transport |-> <<>>]
    /\ requests = [t \in Transport |-> <<>>]
    /\ closes = 0

Set(c, phase, t) == [calls EXCEPT ![c] = [@ EXCEPT !.phase = phase, !.on = t]]

\* RemoteXpcFramedTransport.isConnected
IsConnected(t) == t # NoTransport /\ link[t] \in {"open", "ending"}

-----------------------------------------------------------------------------
(* Transports.                                                                 *)

\* Mutant: the numbering goes on across connections.
IdKept == nextId

\* newTransport: the numbering restarts with the connection.
IdOfNew == 1

\* shutdownSocket: end, then destroy after a timeout at the latest.
Shutdown(t) == IF link[t] \in {"dialing", "open", "ending"} THEN "closing" ELSE link[t]

\* The invocations whose waitForResponse listens on t.
WaitingOn(t) == {c \in Invocation : calls[c].phase = "waiting" /\ calls[c].on = t}

\* Mutant: release() is not called when the operation throws.
KeepsTurn(c, q) == q

\* enqueueInvocation: release() in the finally block lets the next one run.
Release(c, q) == Tail(q)

\* The invocations in failing reject.
FailCalls(failing) ==
    /\ calls' = [c \in Call |-> IF c \in failing THEN [calls[c] EXCEPT !.phase = "failed"]
                                ELSE calls[c]]
    /\ queue' = IF queue # <<>> /\ Head(queue) \in failing THEN Release(Head(queue), queue)
                ELSE queue

\* sendDataFrame by c on t.
Write(c, t, id) ==
    /\ sent' = [sent EXCEPT ![t] = Append(@, id)]
    /\ nextId' = id + 1
    /\ requests' = IF c \in Invocation THEN [requests EXCEPT ![t] = Append(@, c)] ELSE requests

-----------------------------------------------------------------------------
(* invoke and sendReceive.                                                     *)

\* enqueueInvocation up to `await previous`.
Invoke(c) ==
    /\ calls[c].phase = "idle"
    /\ calls' = Set(c, "queued", NoTransport)
    /\ queue' = Append(queue, c)
    /\ UNCHANGED <<transport, nextId, link, sent, requests, closes>>

\* Mutant: an invocation starts without waiting for its turn.
AnyTurn(c) == TRUE

HasTurn(c) == Head(queue) = c

\* createTransport up to the connected socket.
Dial(c, t) ==
    /\ \A s \in Transport : link[s] = "unused" <=> s >= t
    /\ link' = [link EXCEPT ![t] = "dialing"]
    /\ calls' = Set(c, "connecting", t)

\* Mutant: the open connection is used again.
ReuseTransport(c) ==
    \/ /\ transport = NoTransport
       /\ \E t \in Transport : Dial(c, t)
       /\ UNCHANGED <<transport, nextId, sent, requests>>
    \/ /\ transport # NoTransport
       /\ calls' = Set(c, "waiting", transport)
       /\ Write(c, transport, nextId)
       /\ UNCHANGED <<transport, link>>

\* Mutant: the previous connection is dropped without closing it.
DropTransport(c) ==
    /\ transport' = NoTransport
    /\ \E t \in Transport : Dial(c, t)
    /\ UNCHANGED <<nextId, sent, requests>>

\* refreshTransport up to its first await.
RefreshTransport(c) ==
    \/ /\ transport = NoTransport
       /\ \E t \in Transport : Dial(c, t)
       /\ UNCHANGED <<transport, nextId, sent, requests>>
    \/ /\ transport # NoTransport
       /\ link' = [link EXCEPT ![transport] = Shutdown(transport)]
       /\ calls' = Set(c, "closing", transport)
       /\ transport' = NoTransport
       /\ UNCHANGED <<nextId, sent, requests>>

\* The previous invocation is over: operation() runs.
Start(c) ==
    /\ calls[c].phase = "queued"
    /\ HasTurn(c)
    /\ RefreshTransport(c)
    /\ UNCHANGED <<queue, closes>>

\* `await previous.close()` returned.
PreviousClosed(c) ==
    /\ calls[c].phase = "closing"
    /\ link[calls[c].on] = "closed"
    /\ \E t \in Transport : Dial(c, t)
    /\ UNCHANGED <<queue, transport, nextId, sent, requests, closes>>

\* connect() resolved: the transport becomes the service's, whatever was there.
\* An invocation registers its listeners and sends; a sender just sends.
Connected(c) ==
    /\ calls[c].phase = "connecting"
    /\ LET t == calls[c].on IN
       /\ link[t] = "dialing"
       /\ link' = [link EXCEPT ![t] = "open"]
       /\ transport' = t
       /\ Write(c, t, IdOfNew)
       /\ calls' = Set(c, IF c \in Invocation THEN "waiting" ELSE "ok", t)
    /\ UNCHANGED <<queue, closes>>

\* The peer half-closed before the first message: sendDataFrame throws, on the
\* transport that is already the service's.
ConnectedTooLate(c) ==
    /\ calls[c].phase = "connecting"
    /\ link' = [link EXCEPT ![calls[c].on] = "ending"]
    /\ transport' = calls[c].on
    /\ nextId' = IdOfNew + 1
    /\ FailCalls({c})
    /\ UNCHANGED <<sent, requests, closes>>

\* The tunnel cannot be reached, or the connect timeout or the handshake failed.
ConnectFails(c) ==
    /\ calls[c].phase = "connecting"
    /\ link' = [link EXCEPT ![calls[c].on] = "closed"]
    /\ FailCalls({c})
    /\ UNCHANGED <<transport, nextId, sent, requests, closes>>

\* The device answers the oldest request of t, with output or with an error.  The
\* message resolves whoever listens; after close() nobody reads any more.
Answer(t) ==
    /\ link[t] \in {"open", "ending"}
    /\ requests[t] # <<>>
    /\ requests' = [requests EXCEPT ![t] = Tail(@)]
    /\ \/ \E outcome \in {"ok", "failed"}, c \in WaitingOn(t) :
             /\ calls' = [calls EXCEPT ![c] = [@ EXCEPT !.phase = outcome,
                                                        !.reply = Head(requests[t])]]
             /\ queue' = Tail(queue)
       \/ /\ WaitingOn(t) = {}
          /\ UNCHANGED <<calls, queue>>
    /\ UNCHANGED <<transport, nextId, link, sent, closes>>

\* The timer of waitForResponse fires, or a frame cannot be parsed: the
\* invocation rejects, the connection stays as it is.
InvokeTimeout(c) ==
    /\ c \in Invocation
    /\ calls[c].phase = "waiting"
    /\ FailCalls({c})
    /\ UNCHANGED <<transport, nextId, link, sent, requests, closes>>

-----------------------------------------------------------------------------
(* send, close() and the sockets.                                              *)

\* send on the connected transport, which may no longer be writable, or on a new
\* one.
Send(c) ==
    /\ c \in Sender
    /\ calls[c].phase = "idle"
    /\ \/ /\ IsConnected(transport) /\ link[transport] = "open"
          /\ Write(c, transport, nextId)
          /\ calls' = Set(c, "ok", transport)
          /\ UNCHANGED link
       \/ /\ IsConnected(transport) /\ link[transport] = "ending"
          /\ calls' = Set(c, "failed", transport)
          /\ nextId' = nextId + 1
          /\ UNCHANGED <<link, sent, requests>>
       \/ /\ ~IsConnected(transport)
          /\ \E t \in Transport : Dial(c, t)
          /\ UNCHANGED <<nextId, sent, requests>>
    /\ UNCHANGED <<queue, transport, closes>>

\* close(): the service forgets its transport and shuts it down.
Close ==
    /\ transport # NoTransport
    /\ closes < MaxCloses
    /\ closes' = closes + 1
    /\ transport' = NoTransport
    /\ link' = [link EXCEPT ![transport] = Shutdown(transport)]
    /\ UNCHANGED <<calls, queue, nextId, sent, requests>>

\* The device half-closes the connection.
PeerEnds(t) ==
    /\ link[t] = "open"
    /\ link' = [link EXCEPT ![t] = "ending"]
    /\ UNCHANGED <<calls, queue, transport, nextId, sent, requests, closes>>

\* 'error' or 'close' of the socket: whoever waits on t rejects.
SocketCloses(t) ==
    /\ link[t] \in {"open", "ending", "closing"}
    /\ link' = [link EXCEPT ![t] = "closed"]
    /\ requests' = [requests EXCEPT ![t] = <<>>]
    /\ FailCalls(WaitingOn(t))
    /\ UNCHANGED <<transport, nextId, sent, closes>>

-----------------------------------------------------------------------------
Next ==
    \/ \E c \in Invocation : Invoke(c) \/ Start(c) \/ PreviousClosed(c) \/ InvokeTimeout(c)
    \/ \E c \in Sender : Send(c)
    \/ \E c \in Call : Connected(c) \/ ConnectedTooLate(c) \/ ConnectFails(c)
    \/ \E t \in Transport : Answer(t) \/ PeerEnds(t) \/ SocketCloses(t)
    \/ Close

Spec == Init /\ [][Next]_vars

\* Dials and shutdowns are bounded by timeouts, every wait has a timer, promise
\* continuations run.  The device need not answer.
Fairness ==
    /\ \A c \in Invocation : /\ WF_vars(Start(c))
                             /\ WF_vars(PreviousClosed(c))
                             /\ WF_vars(InvokeTimeout(c))
    /\ \A c \in Call : WF_vars(ConnectFails(c))
    /\ \A t \in Transport : WF_vars(link[t] = "closing" /\ SocketCloses(t))

FairSpec == Spec /\ Fairness

-----------------------------------------------------------------------------
(* Properties.                                                                 *)

\* Every variable stays in its domain; the queue holds the unfinished invocations.
TypeOK ==
    /\ \A c \in Call : /\ calls[c].phase \in Phases
                       /\ calls[c].on \in Transport \cup {NoTransport}
                       /\ calls[c].reply \in Invocation \cup {NoCall}
    /\ IsInjective(queue)
    /\ ToSet(queue) = {c \in Invocation : calls[c].phase \notin {"idle", "ok", "failed"}}
    /\ transport \in Transport \cup {NoTransport}
    /\ nextId \in Nat \ {0}
    /\ link \in [Transport -> Links]
    /\ \A t \in Transport : ToSet(requests[t]) \subseteq Invocation
    /\ closes \in 0..MaxCloses

\* "Calls are also serialized, so they never overlap": at most one invocation has
\* left the queue, and it is the one at its head.
InvocationsNeverOverlap ==
    \A c \in Invocation :
        calls[c].phase \in {"closing", "connecting", "waiting"} => Head(queue) = c

\* A reply resolves the invocation it answers, although replies carry no request
\* number: a late answer to an invocation that timed out finds no listener.
RepliesMatch == \A c \in Invocation : calls[c].phase = "ok" => calls[c].reply = c

\* On every connection the messages are numbered 1, 2, 3, ..., however sends,
\* invocations and reconnects interleave.
IdsConsecutive == \A t \in Transport : \A i \in 1..Len(sent[t]) : sent[t][i] = i

\* The queue holds the invocations that have not ended, and each connection numbers its own
\* messages from 1.
StateExact == TypeOK /\ IdsConsecutive

\* As long as only invocations are used, the service holds on to every open
\* connection: none is left behind by a timeout, a failure or close().
NoOrphan ==
    (\A c \in Sender : calls[c].phase = "idle") =>
        \A t \in Transport : link[t] \in {"open", "ending"} => t = transport

\* "One failed call does not poison the queue": every invocation ends.
EveryInvocationEnds ==
    \A c \in Invocation : calls[c].phase = "queued" ~> calls[c].phase \in {"ok", "failed"}
=============================================================================
