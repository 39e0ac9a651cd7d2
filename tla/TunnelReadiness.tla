--------------------------- MODULE TunnelReadiness ---------------------------
(* The tunnel registry server and its long-poll readiness coordinator          *)
(* (tunnel-registry-server.ts, tunnel-readiness.ts), together with the three   *)
(* parties that meet there: the tunnel-creation script that publishes and      *)
(* removes entries, the clients that run resolveTunnelService, and the clients *)
(* that PUT an entry.  The server is one Node.js process: a step below is one   *)
(* synchronous segment between two awaits.                                      *)
EXTENDS Naturals, FiniteSets

CONSTANTS
    Client,     \* calls of resolveTunnelService, each with at most one request
    Udid,       \* device identifiers
    Service,    \* RSD service names
    MaxWrites,  \* bound: registry writes in a behaviour
    NoEntry,    \* no entry in the registry
    NoUdid      \* the request slot of a client is empty

ASSUME WritesAssumption == MaxWrites \in Nat
ASSUME NoUdidAssumption == NoUdid \notin Udid

VARIABLES
    tunnels,    \* registry.tunnels
    writes,     \* the clock behind lastUpdated: number of entries written
    waiters,    \* TunnelReadinessCoordinator.waitersByUdid
    publisher,  \* publishDiscoveredTunnelEntry of the creation script, per UDID
    server,     \* the http.Server
    target,     \* the UDID named by a client's request
    phase,      \* how far the server is with a client's request
    timer,      \* the setTimeout of waitForReady
    answer,     \* the HTTP answer of the request
    arrived,    \* history: value of writes when the request arrived
    caller      \* progress of resolveTunnelService

serverVars == <<tunnels, writes, waiters, publisher, server>>
requestVars == <<target, phase, timer, answer, arrived>>
vars == <<tunnels, writes, waiters, publisher, server,
          target, phase, timer, answer, arrived, caller>>

-----------------------------------------------------------------------------
(* Data.  An entry keeps what the properties tell apart: the discovered        *)
(* catalog, the time of its last update and which path wrote it.               *)

Entry == [services : SUBSET Service, lastUpdated : 1..MaxWrites, by : {"publish", "put"}]

ASSUME NoEntryAssumption == NoEntry \notin Entry

\* A catalog as the RSD handshake yields it: servicesFromXpcBody never returns
\* an empty one.
Catalog == (SUBSET Service) \ {{}}

IsTunnelEntryReady(e) == e # NoEntry /\ e.services # {}

Code == {200, 404, 408, 500}
NoAnswer == [code |-> 0, entry |-> NoEntry]
Ok(e) == [code |-> 200, entry |-> e]
Failed(c) == [code |-> c, entry |-> NoEntry]
Answer == [code : {0} \cup Code, entry : Entry \cup {NoEntry}]

Init ==
    /\ tunnels = [u \in Udid |-> NoEntry]
    /\ writes = 0
    /\ waiters = [u \in Udid |-> {}]
    /\ publisher = [u \in Udid |-> "idle"]
    /\ server = "listening"
    /\ target = [c \in Client |-> NoUdid]
    /\ phase = [c \in Client |-> "idle"]
    /\ timer = [c \in Client |-> "none"]
    /\ answer = [c \in Client |-> NoAnswer]
    /\ arrived = [c \in Client |-> 0]
    /\ caller = [c \in Client |-> "idle"]

-----------------------------------------------------------------------------
(* TunnelReadinessCoordinator.                                                 *)

\* Mutant: the list is dropped and the timers cleared, nobody is settled.
DropWaiters(u, others, a) ==
    /\ waiters' = [waiters EXCEPT ![u] = {}]
    /\ timer' = [c \in Client |-> IF c \in waiters[u] THEN "cleared" ELSE timer[c]]
    /\ UNCHANGED <<phase, answer>>

\* Every waiter of u is settled with answer a, its timer cleared, its list
\* dropped; so are the requests in others, which wait for no timer.  The
\* handlers send their responses in later microtasks.
SettleWaiters(u, others, a) ==
    LET settled == waiters[u] \cup others IN
    /\ waiters' = [waiters EXCEPT ![u] = {}]
    /\ timer' = [c \in Client |-> IF c \in waiters[u] THEN "cleared" ELSE timer[c]]
    /\ phase' = [c \in Client |-> IF c \in settled THEN "settled" ELSE phase[c]]
    /\ answer' = [c \in Client |-> IF c \in settled THEN a ELSE answer[c]]

MarkPending(u) == SettleWaiters(u, {}, Failed(408))

\* Mutant: the entry is written without waking the long polls.
ResolveNobody(u, others, e) ==
    /\ phase' = [c \in Client |-> IF c \in others THEN "settled" ELSE phase[c]]
    /\ answer' = [c \in Client |-> IF c \in others THEN Ok(e) ELSE answer[c]]
    /\ UNCHANGED <<waiters, timer>>

ResolveReady(u, others, e) == SettleWaiters(u, others, Ok(e))

WaitForReady(c, u) ==
    /\ waiters' = [waiters EXCEPT ![u] = @ \cup {c}]
    /\ timer' = [timer EXCEPT ![c] = "armed"]
    /\ phase' = [phase EXCEPT ![c] = "parked"]
    /\ UNCHANGED answer

\* Mutant: the timed-out waiter stays in its list.
KeepWaiter(u, c) == waiters' = waiters

RemoveWaiter(u, c) == waiters' = [waiters EXCEPT ![u] = @ \ {c}]

\* The timer of waitForReady: the waiter leaves its list and is rejected.
WaiterTimeout(c) ==
    /\ timer[c] = "armed"
    /\ RemoveWaiter(target[c], c)
    /\ timer' = [timer EXCEPT ![c] = "fired"]
    /\ phase' = [phase EXCEPT ![c] = "settled"]
    /\ answer' = [answer EXCEPT ![c] = Failed(408)]
    /\ UNCHANGED <<tunnels, writes, publisher, server, target, arrived, caller>>

\* getTunnelByUdid resumes after its await and sends the response.
SendSettled(c) ==
    /\ phase[c] = "settled"
    /\ phase' = [phase EXCEPT ![c] = "answered"]
    /\ UNCHANGED <<serverVars, target, timer, answer, arrived, caller>>

-----------------------------------------------------------------------------
(* TunnelRegistryServer: the entry operations.                                 *)

\* Mutant: the stamp runs ahead of the clock.
StampedAhead(services, by) == [services |-> services, lastUpdated |-> writes + 2, by |-> by]

Stamped(services, by) == [services |-> services, lastUpdated |-> writes + 1, by |-> by]

\* Mutant: the long polls are woken with the entry the write replaces.
UpsertWakesFirst(u, services, refreshers) ==
    /\ writes < MaxWrites
    /\ tunnels' = [tunnels EXCEPT ![u] = Stamped(services, "publish")]
    /\ writes' = writes + 1
    /\ ResolveReady(u, refreshers, tunnels[u])

\* upsertReadyEntry: write, then wake every long poll of the UDID.  A refresh
\* handler (refreshers) answers with the same entry.
UpsertReadyEntry(u, services, refreshers) ==
    /\ writes < MaxWrites
    /\ tunnels' = [tunnels EXCEPT ![u] = Stamped(services, "publish")]
    /\ writes' = writes + 1
    /\ ResolveReady(u, refreshers, Stamped(services, "publish"))

\* removeTunnelEntry: delete, then reject every long poll of the UDID.
RemoveTunnelEntry(u) ==
    /\ tunnels' = [tunnels EXCEPT ![u] = NoEntry]
    /\ MarkPending(u)
    /\ UNCHANGED writes

-----------------------------------------------------------------------------
(* The creation script.                                                        *)

\* publishDiscoveredTunnelEntry up to `await discoverServices`.
PublishBegin(u) ==
    /\ publisher[u] = "idle"
    /\ writes < MaxWrites
    /\ publisher' = [publisher EXCEPT ![u] = "discovering"]
    /\ MarkPending(u)
    /\ UNCHANGED <<tunnels, writes, server, target, arrived, caller>>

\* Discovery succeeded: the entry is built and published.
PublishDone(u) ==
    /\ publisher[u] = "discovering"
    /\ publisher' = [publisher EXCEPT ![u] = "idle"]
    /\ \E services \in Catalog : UpsertReadyEntry(u, services, {})
    /\ UNCHANGED <<server, target, arrived, caller>>

\* Discovery threw: publishDiscoveredTunnelEntry rethrows and writes nothing.
PublishFail(u) ==
    /\ publisher[u] = "discovering"
    /\ publisher' = [publisher EXCEPT ![u] = "idle"]
    /\ UNCHANGED <<tunnels, writes, waiters, server, requestVars, caller>>

\* The forwarder of u died: finalize deletes the entry, then calls onRemove.
TunnelDied(u) ==
    /\ tunnels[u] # NoEntry
    /\ RemoveTunnelEntry(u)
    /\ UNCHANGED <<publisher, server, target, arrived, caller>>

-----------------------------------------------------------------------------
(* The HTTP handlers.                                                          *)

Arrive(c, u) ==
    /\ server = "listening"
    /\ target' = [target EXCEPT ![c] = u]
    /\ arrived' = [arrived EXCEPT ![c] = writes]

Reply(c, a) ==
    /\ phase' = [phase EXCEPT ![c] = "answered"]
    /\ answer' = [answer EXCEPT ![c] = a]
    /\ timer' = [timer EXCEPT ![c] = "none"]
    /\ UNCHANGED waiters

\* GET /tunnels/:udid, with wait standing for waitMs > 0.
GetTunnelByUdid(c, u, wait) ==
    /\ Arrive(c, u)
    /\ \/ /\ IsTunnelEntryReady(tunnels[u])
          /\ Reply(c, Ok(tunnels[u]))
       \/ /\ ~IsTunnelEntryReady(tunnels[u])
          /\ ~wait
          /\ Reply(c, Failed(404))
       \/ /\ ~IsTunnelEntryReady(tunnels[u])
          /\ wait
          /\ WaitForReady(c, u)

\* POST /tunnels/:udid/refresh-services up to `await this.refreshServices`.
RefreshTunnelServices(c, u) ==
    /\ Arrive(c, u)
    /\ \/ /\ tunnels[u] = NoEntry
          /\ Reply(c, Failed(404))
       \/ /\ tunnels[u] # NoEntry
          /\ phase' = [phase EXCEPT ![c] = "refreshing"]
          /\ timer' = [timer EXCEPT ![c] = "none"]
          /\ UNCHANGED <<waiters, answer>>

\* The refresh resumes: publish the new catalog, wake the long polls, answer.
RefreshDone(c) ==
    /\ phase[c] = "refreshing"
    /\ \E services \in Catalog : UpsertReadyEntry(target[c], services, {c})
    /\ UNCHANGED <<publisher, server, target, arrived, caller>>

\* discoverServices threw: 500.
RefreshFail(c) ==
    /\ phase[c] = "refreshing"
    /\ Reply(c, Failed(500))
    /\ UNCHANGED <<tunnels, writes, publisher, server, target, arrived, caller>>

\* PUT /tunnels/:udid from any client: the body replaces the entry; the
\* coordinator is not told.
UpdateTunnel(u) ==
    /\ server = "listening"
    /\ writes < MaxWrites
    /\ \E services \in SUBSET Service :
          tunnels' = [tunnels EXCEPT ![u] = Stamped(services, "put")]
    /\ writes' = writes + 1
    /\ UNCHANGED <<waiters, publisher, server, requestVars, caller>>

\* stop(): no new connections; the close callback waits for open requests.
Open(c) == phase[c] \in {"parked", "settled", "refreshing"}

StopBegin ==
    /\ server = "listening"
    /\ server' = "closing"
    /\ UNCHANGED <<tunnels, writes, waiters, publisher, requestVars, caller>>

StopDone ==
    /\ server = "closing"
    /\ \A c \in Client : ~Open(c)
    /\ server' = "stopped"
    /\ UNCHANGED <<tunnels, writes, waiters, publisher, requestVars, caller>>

-----------------------------------------------------------------------------
(* resolveTunnelService: GET with a wait, then one refresh when the service is *)
(* missing from the catalog; each fetch has a timeout of its own.              *)

CallGet(c, u, wait) ==
    /\ caller[c] \in {"idle", "resolved", "failed"}
    /\ ~Open(c)
    /\ GetTunnelByUdid(c, u, wait)
    /\ caller' = [caller EXCEPT ![c] = "get"]
    /\ UNCHANGED <<tunnels, writes, publisher, server>>

\* The first answer: an entry with the service resolves, any failure ends.
GetAnswered(c, service) ==
    /\ caller[c] = "get"
    /\ phase[c] = "answered"
    /\ \/ /\ answer[c].code # 200
          /\ caller' = [caller EXCEPT ![c] = "failed"]
          /\ UNCHANGED <<serverVars, requestVars>>
       \/ /\ answer[c].code = 200
          /\ service \in answer[c].entry.services
          /\ caller' = [caller EXCEPT ![c] = "resolved"]
          /\ UNCHANGED <<serverVars, requestVars>>
       \/ /\ answer[c].code = 200
          /\ service \notin answer[c].entry.services
          /\ RefreshTunnelServices(c, target[c])
          /\ caller' = [caller EXCEPT ![c] = "refresh"]
          /\ UNCHANGED <<tunnels, writes, publisher, server>>

\* The second answer ends the call.
RefreshAnswered(c, service) ==
    /\ caller[c] = "refresh"
    /\ phase[c] = "answered"
    /\ caller' = [caller EXCEPT ![c] =
                    IF answer[c].code = 200 /\ service \in answer[c].entry.services
                    THEN "resolved" ELSE "failed"]
    /\ UNCHANGED <<serverVars, requestVars>>

\* fetchWithTimeout aborts, or the connection is refused: the call throws.  The
\* server is not told; its handler goes on.
FetchTimeout(c) ==
    /\ caller[c] \in {"get", "refresh"}
    /\ caller' = [caller EXCEPT ![c] = "failed"]
    /\ UNCHANGED <<serverVars, requestVars>>

-----------------------------------------------------------------------------
Next ==
    \/ \E u \in Udid : PublishBegin(u) \/ PublishDone(u) \/ PublishFail(u)
                       \/ TunnelDied(u) \/ UpdateTunnel(u)
    \/ \E c \in Client : WaiterTimeout(c) \/ SendSettled(c)
                         \/ RefreshDone(c) \/ RefreshFail(c) \/ FetchTimeout(c)
    \/ \E c \in Client, u \in Udid, wait \in BOOLEAN : CallGet(c, u, wait)
    \/ \E c \in Client, s \in Service : GetAnswered(c, s) \/ RefreshAnswered(c, s)
    \/ StopBegin \/ StopDone

Spec == Init /\ [][Next]_vars

\* Timers fire, microtasks run, discovery is bounded by the RSD operation timer,
\* and http.Server.close calls back once the last request is answered.
Fairness ==
    /\ \A c \in Client : /\ WF_vars(WaiterTimeout(c))
                         /\ WF_vars(SendSettled(c))
                         /\ WF_vars(RefreshDone(c) \/ RefreshFail(c))
    /\ WF_vars(StopDone)

FairSpec == Spec /\ Fairness

-----------------------------------------------------------------------------
(* Properties.                                                                 *)

\* Every variable stays in its domain.
TypeOK ==
    /\ tunnels \in [Udid -> Entry \cup {NoEntry}]
    /\ writes \in 0..MaxWrites
    /\ waiters \in [Udid -> SUBSET Client]
    /\ publisher \in [Udid -> {"idle", "discovering"}]
    /\ server \in {"listening", "closing", "stopped"}
    /\ target \in [Client -> Udid \cup {NoUdid}]
    /\ phase \in [Client -> {"idle", "parked", "settled", "refreshing", "answered"}]
    /\ timer \in [Client -> {"none", "armed", "cleared", "fired"}]
    /\ answer \in [Client -> Answer]
    /\ arrived \in [Client -> 0..MaxWrites]
    /\ caller \in [Client -> {"idle", "get", "refresh", "resolved", "failed"}]

\* The waiter lists are exactly the parked requests, each under the UDID it asked
\* for and with its timer running: no waiter is forgotten, left behind by its
\* timer, or kept after it was settled (tunnel-readiness.ts, all four methods).
WaitersExact ==
    /\ \A u \in Udid, c \in Client :
          c \in waiters[u] <=> phase[c] = "parked" /\ target[c] = u
    /\ \A c \in Client : phase[c] = "parked" <=> timer[c] = "armed"

\* "Long-poll until the tunnel is ready": no long poll stays parked on a UDID
\* whose entry is ready, whoever wrote the entry.
NoWaiterOnReadyEntry ==
    \A u \in Udid : IsTunnelEntryReady(tunnels[u]) => waiters[u] = {}

\* The same for entries the script or a refresh published: the check in
\* getTunnelByUdid and the wake-up in upsertReadyEntry leave no window between
\* them in which a wake-up is lost.
PublishedIsSeen ==
    \A u \in Udid : IsTunnelEntryReady(tunnels[u]) /\ tunnels[u].by = "publish"
                        => waiters[u] = {}

\* A long poll that had to wait is answered only with a ready entry written after
\* it arrived, never with the one it found unusable.
FreshAnswer ==
    \A c \in Client : answer[c].code = 200 /\ timer[c] = "cleared" =>
        /\ IsTunnelEntryReady(answer[c].entry)
        /\ answer[c].entry.lastUpdated > arrived[c]

\* "Wait until resolveReady for udid, or reject after waitMs": a long poll is
\* refused only once its timer has fired.
RefusedAfterWait ==
    \A c \in Client : phase[c] = "settled" /\ answer[c].code = 408 => timer[c] = "fired"

\* Every long poll is answered, whatever the publisher and the other clients do.
PollAnswered == \A c \in Client : phase[c] = "parked" ~> phase[c] = "answered"

\* stop() returns: the requests that hold the server open all end.
StopCompletes == server = "closing" ~> server = "stopped"
=============================================================================
