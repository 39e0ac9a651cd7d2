----------------------------- MODULE RsdConnect -----------------------------
(* The discovery of a device's services: discoverServices coalesces its        *)
(* callers (tunnel-rsd-discovery.ts), an RsdServiceCatalogClient settles one    *)
(* promise from messages, timers and socket events, and its                     *)
(* RemoteXpcFramedTransport owns the socket and the HTTP/2 handshake            *)
(* (lib/remote-xpc/).  A step is one event-loop callback with the promise       *)
(* continuations it triggers.                                                   *)
EXTENDS Naturals, FiniteSets

CONSTANTS
    Caller,         \* callers of discoverServices for one UDID
    MaxDiscoveries  \* bound: clients constructed

ASSUME DiscoveriesAssumption == MaxDiscoveries \in Nat

Client == 1..MaxDiscoveries  \* in the order of their construction

VARIABLES
    clients,  \* the state of each client with its transport
    awaits    \* the discovery each caller awaits or awaited last; 0 if none

vars == <<clients, awaits>>

(* Fields of a client.  The operation timer of connect() is armed as long as    *)
(* session is "open", the connect timer of the transport as long as progress is *)
(* "dialing".                                                                   *)
Fields ==
    [link : {"none", "dialing", "open", "dying", "closed"},  \* the TCP socket
     shutdown : {"no", "running", "finished"},   \* shutdownSocket
     closer : {"none", "user", "connect", "timer", "handshake", "force"}, \* who awaits it
     hasSocket : BOOLEAN,        \* RemoteXpcFramedTransport.socket is set
     connected : BOOLEAN,        \* RemoteXpcFramedTransport.connected
     closing : BOOLEAN,          \* RemoteXpcFramedTransport.closing
     progress : {"none", "dialing", "delay", "writing", "closing", "catch", "over"},
                                 \* connectTransport and the connect() it awaits
     hasTransport : BOOLEAN,     \* RsdServiceCatalogClient._transport is set
     services : BOOLEAN,         \* RsdServiceCatalogClient._services is set
     serviceTimer : BOOLEAN,     \* _serviceExtractionTimer is armed
     session : {"none", "open", "ok", "failed"},  \* the promise of connect()
     user : {"none", "connecting", "closing", "done"},  \* discoverServicesOnce
     result : {"none", "ok", "failed"},
     errorHeard : BOOLEAN,       \* once('error') is still registered
     unheard : BOOLEAN]          \* an 'error' was emitted that nobody listened to

Unused ==
    [link |-> "none", shutdown |-> "no", closer |-> "none", hasSocket |-> FALSE,
     connected |-> FALSE, closing |-> FALSE, progress |-> "none", hasTransport |-> FALSE,
     services |-> FALSE, serviceTimer |-> FALSE, session |-> "none", user |-> "none",
     result |-> "none", errorHeard |-> FALSE, unheard |-> FALSE]

Init ==
    /\ clients = [d \in Client |-> Unused]
    /\ awaits = [c \in Caller |-> 0]

Change(d, state) ==
    /\ clients' = [clients EXCEPT ![d] = state]
    /\ UNCHANGED awaits

-----------------------------------------------------------------------------
(* What the handlers do to the state k of a client.                            *)

\* RemoteXpcFramedTransport.close up to its await.  Only the first call finds the
\* socket; a later one returns at once, whatever became of the first.
TransportClose(k, who) ==
    IF k.hasSocket
    THEN [k EXCEPT !.hasSocket = FALSE, !.connected = FALSE, !.closing = TRUE,
                   !.shutdown = "running", !.closer = who]
    ELSE [k EXCEPT !.connected = FALSE, !.closing = FALSE]

CleanupResources(k) ==
    [k EXCEPT !.serviceTimer = FALSE, !.hasTransport = FALSE, !.services = FALSE]

\* What follows `await this.close()` in discoverServicesOnce, in connectTransport.
ClosedFor(k, who) ==
    IF who = "user" THEN [k EXCEPT !.user = "done"] ELSE [k EXCEPT !.progress = "over"]

\* RsdServiceCatalogClient.close by who, to its await or to its end.
ClientClose(k, who) ==
    LET timerCleared == [k EXCEPT !.serviceTimer = FALSE]
        asked == TransportClose(timerCleared, who)
    IN  IF ~k.hasTransport THEN ClosedFor(timerCleared, who)
        ELSE IF k.hasSocket THEN asked
        ELSE ClosedFor(CleanupResources(asked), who)

\* Mutant: close() is called on success only.
ClosesOnSuccess(k) ==
    LET ended == [k EXCEPT !.result = IF k.services THEN "ok" ELSE "failed", !.user = "closing"]
    IN  IF k.services THEN ClientClose(ended, "user") ELSE [ended EXCEPT !.user = "done"]

\* Mutant: close() is not awaited.
ReturnsAtOnce(k) ==
    [ClientClose([k EXCEPT !.result = IF k.services THEN "ok" ELSE "failed"], "user")
        EXCEPT !.user = "done"]

\* discoverServicesOnce after `await remoteXPC.connect()`: getServices, then close
\* in the finally block.
UserResumes(k) ==
    ClientClose([k EXCEPT !.result = IF k.session = "ok" /\ k.services THEN "ok" ELSE "failed",
                          !.user = "closing"],
                "user")

\* settleSuccess and settleFailure, with the caller's continuation.
Settled(k, outcome) ==
    IF k.session # "open" THEN k
    ELSE UserResumes([k EXCEPT !.session = outcome, !.services = k.services \/ outcome = "ok"])

\* The catch block of connectTransport: reject, then close; the caller of
\* connect() resumes in a microtask, after close() began.
ConnectThrew(k) ==
    LET rejected == [k EXCEPT !.session = IF k.session = "open" THEN "failed" ELSE k.session,
                              !.progress = "catch"]
        closed == ClientClose(rejected, "connect")
    IN  IF k.session = "open" THEN UserResumes(closed) ELSE closed

\* Mutant: finish() does not resolve the promise.
NobodyResumes(k) == [k EXCEPT !.shutdown = "finished", !.closing = FALSE, !.closer = "none"]

\* finish() of shutdownSocket: whoever awaited the close goes on.
ShutdownFinished(k) ==
    LET f == [k EXCEPT !.shutdown = "finished", !.closing = FALSE, !.closer = "none"] IN
    CASE k.closer = "handshake" -> ConnectThrew(f)
      [] k.closer = "timer"     -> Settled(CleanupResources(f), "failed")
      [] k.closer = "force"     -> f
      [] OTHER                  -> ClosedFor(CleanupResources(f), k.closer)

\* The transport emits 'error'; without a listener Node.js throws it.
EmitError(k) ==
    IF k.errorHeard THEN Settled([k EXCEPT !.errorHeard = FALSE], "failed")
    ELSE [k EXCEPT !.unheard = TRUE]

-----------------------------------------------------------------------------
(* discoverServices and connect().                                             *)

InFlight == {d \in Client : clients[d].user \in {"connecting", "closing"}}

\* connect() up to the dial.
Connecting ==
    [Unused EXCEPT !.link = "dialing", !.hasSocket = TRUE, !.progress = "dialing",
                   !.hasTransport = TRUE, !.session = "open", !.user = "connecting",
                   !.errorHeard = TRUE]

\* Mutant: a finished discovery stays in inFlightByUdid.
JoinsFinished(c) ==
    /\ 1 \in Client
    /\ awaits' = [awaits EXCEPT ![c] = 1]
    /\ clients' = IF clients[1].user = "none" THEN [clients EXCEPT ![1] = Connecting] ELSE clients

\* Join the discovery in flight, or start one.
Coalesce(c) ==
    \/ \E d \in InFlight :
          /\ awaits' = [awaits EXCEPT ![c] = d]
          /\ UNCHANGED clients
    \/ \E d \in Client :
          /\ InFlight = {}
          /\ \A e \in Client : clients[e].user = "none" <=> e >= d
          /\ clients' = [clients EXCEPT ![d] = Connecting]
          /\ awaits' = [awaits EXCEPT ![c] = d]

DiscoverServices(c) == awaits[c] \notin InFlight /\ Coalesce(c)

-----------------------------------------------------------------------------
(* The connect sequence of the transport.                                      *)

\* 'connect' arrives, also on a socket that was ended meanwhile.
Connected(d) ==
    LET k == clients[d] IN
    /\ k.link = "dialing"
    /\ Change(d, [k EXCEPT !.link = "open", !.progress = "delay"])

\* The dial fails, or takes too long and is destroyed.
DialFails(d) ==
    LET k == clients[d] IN
    /\ k.progress = "dialing"
    /\ Change(d, ConnectThrew([k EXCEPT !.link = IF @ = "dialing" THEN "dying" ELSE @]))

\* The handshake delay is over.
DelayOver(d) ==
    LET k == clients[d] IN
    /\ k.progress = "delay"
    /\ Change(d, [k EXCEPT !.progress = "writing"])

\* The last write of Handshake.perform was accepted; it may have been issued
\* before close() ended the socket.  The service timer is armed.
HandshakeDone(d) ==
    LET k == clients[d] IN
    /\ k.progress = "writing"
    /\ k.link = "open"
    /\ Change(d, [k EXCEPT !.connected = TRUE, !.progress = "over", !.serviceTimer = TRUE])

\* A write fails or the socket is not writable: the transport closes, then throws.
HandshakeFails(d) ==
    LET k == clients[d] IN
    /\ k.progress = "writing"
    /\ Change(d, IF k.hasSocket
                 THEN TransportClose([k EXCEPT !.progress = "closing"], "handshake")
                 ELSE ConnectThrew(TransportClose(k, "handshake")))

-----------------------------------------------------------------------------
(* Messages, timers and the socket.                                            *)

\* Data reaches the transport until shutdownSocket removes its listener.
Hears(k) == k.link = "open" /\ k.hasSocket

\* A message with a service catalog; the device sends it once it has read part of
\* the handshake.
CatalogArrives(d) ==
    LET k == clients[d] IN
    /\ Hears(k)
    /\ k.progress \in {"writing", "over"}
    /\ k.session = "open"
    /\ Change(d, Settled(k, "ok"))

\* A frame that Http2FrameParser refuses.
FrameRefused(d) ==
    LET k == clients[d] IN
    /\ Hears(k)
    /\ Change(d, EmitError(k))

\* Mutant: forceCleanup forgets the transport without closing it.
ForgetTransport(k) == CleanupResources(k)

ForceCleanup(k) ==
    CleanupResources(IF k.hasTransport THEN TransportClose(k, "force") ELSE k)

\* The operation timer of connect().
OperationTimeout(d) ==
    LET k == clients[d] IN
    /\ k.session = "open"
    /\ Change(d, Settled(ForceCleanup(k), "failed"))

\* handlePostHandshakeServiceTimeout: close, unless connect() is settled.
ServiceTimeout(d) ==
    LET k == clients[d] fired == [k EXCEPT !.serviceTimer = FALSE] IN
    /\ k.serviceTimer
    /\ Change(d, IF k.session = "open" THEN TransportClose(fired, "timer") ELSE fired)

\* The socket fails: reported only in the connected phase.
SocketError(d) ==
    LET k == clients[d] failed == [k EXCEPT !.link = "dying", !.connected = FALSE] IN
    /\ k.link = "open"
    /\ Change(d, IF k.closing \/ ~k.connected THEN failed ELSE EmitError(failed))

\* 'close' of the socket: the transport's handler first, then shutdownSocket's.
SocketCloses(d) ==
    LET k == clients[d]
        reported == Settled([k EXCEPT !.link = "closed", !.connected = FALSE], "failed")
    IN  /\ k.link \in {"open", "dying"}
        /\ Change(d, IF k.shutdown = "running" THEN ShutdownFinished(reported) ELSE reported)

\* The timers of shutdownSocket destroy the socket; 'close' comes later, or came.
ShutdownTimeout(d) ==
    LET k == clients[d] IN
    /\ k.shutdown = "running"
    /\ Change(d, ShutdownFinished([k EXCEPT !.link = IF @ = "closed" THEN @ ELSE "dying"]))

-----------------------------------------------------------------------------
Next ==
    \/ \E c \in Caller : DiscoverServices(c)
    \/ \E d \in Client :
          \/ Connected(d) \/ DialFails(d) \/ DelayOver(d) \/ HandshakeDone(d) \/ HandshakeFails(d)
          \/ CatalogArrives(d) \/ FrameRefused(d) \/ OperationTimeout(d) \/ ServiceTimeout(d)
          \/ SocketError(d) \/ SocketCloses(d) \/ ShutdownTimeout(d)

Spec == Init /\ [][Next]_vars

\* Timers fire, and a destroyed socket emits 'close'.  The device need not do
\* anything.
Fairness ==
    \A d \in Client : /\ WF_vars(OperationTimeout(d))
                      /\ WF_vars(ShutdownTimeout(d))
                      /\ WF_vars(clients[d].link = "dying" /\ SocketCloses(d))

FairSpec == Spec /\ Fairness

-----------------------------------------------------------------------------
(* Properties.                                                                 *)

\* Every variable stays in its domain, and a client's fields agree: it keeps the
\* transport as long as that has a socket, has services only from a settled
\* connect(), and whoever awaits a shutdown awaits one that runs.
TypeOK ==
    /\ clients \in [Client -> Fields]
    /\ awaits \in [Caller -> 0..MaxDiscoveries]
    /\ \A d \in Client : /\ clients[d].hasSocket => clients[d].hasTransport
                         /\ clients[d].services => clients[d].session = "ok"
                         /\ clients[d].closer # "none" <=> clients[d].shutdown = "running"

\* The transport never emits an 'error' that nobody hears, which would end the
\* process: the caller of connect() closes the transport before a second one.
NoUnheardError == \A d \in Client : ~clients[d].unheard

\* When a discovery returns, its socket is closed or being shut down.
ReleasedOnReturn ==
    \A d \in Client : clients[d].user = "done" =>
        clients[d].link \in {"dying", "closed"} \/ clients[d].shutdown # "no"

\* "Open RSD, read the service catalog, and close": a catalog is returned only
\* after the connection it came from was destroyed.
SuccessAfterClose ==
    \A d \in Client : clients[d].user = "done" /\ clients[d].result = "ok" =>
        clients[d].link \in {"dying", "closed"} /\ clients[d].shutdown = "finished"

\* Every discovery returns, and its socket closes.
DiscoveryEnds ==
    \A d \in Client : clients[d].user = "connecting"
        ~> clients[d].user = "done" /\ clients[d].link = "closed"

-----------------------------------------------------------------------------
(* The promise of discoverServices.                                            *)

Phase == IF InFlight = {} THEN "none"
         ELSE IF \E d \in InFlight : clients[d].result = "ok" THEN "closing"
         ELSE "connecting"

Waiting == {c \in Caller : awaits[c] \in InFlight}

Outcome == [c \in Caller |-> IF awaits[c] = 0 \/ c \in Waiting THEN "none"
                             ELSE clients[awaits[c]].result]

D == INSTANCE Discovery WITH phase <- Phase, waiting <- Waiting, outcome <- Outcome

\* The clients, timers and sockets together keep it: concurrent calls coalesce,
\* their outcomes agree and come in one step, and nothing that happens after the
\* catalog was read can turn success into failure.
ImplementsDiscovery == D!Spec
=============================================================================
