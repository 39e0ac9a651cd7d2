----------------------------- MODULE PortForwarder -----------------------------
(* DevicePortForwarder (lib/port-forwarding): a local server that dials a fresh     *)
(* upstream connection for each client. Dialling takes time: clients leave and      *)
(* stop() runs meanwhile.                                                           *)
EXTENDS Naturals

CONSTANTS
    Conn,      \* local clients
    MaxCalls   \* bound: calls of start() and of stop()

VARIABLES
    forwarder,  \* this.server and what the user's calls came to
    conns,      \* per client: handleDownstreamConnection and its two sockets
    active      \* activeSockets: <<"local" or "up", client>>

pfVars == <<forwarder, conns, active>>

PfInit ==
    /\ forwarder = [server |-> "none", calls |-> 0, crashed |-> FALSE, left |-> FALSE]
    /\ conns = [c \in Conn |-> [stage |-> "none", local |-> "none", up |-> "none"]]
    /\ active = {}

Running == ~forwarder.crashed

\* start(): returns at once when there is a server, also one that could not listen.
Start ==
    /\ Running /\ forwarder.calls < MaxCalls
    /\ \E server \in IF forwarder.server = "none" THEN {"listening", "failed"} ELSE {forwarder.server} :
       forwarder' = [forwarder EXCEPT !.server = server, !.calls = @ + 1, !.left = FALSE]
    /\ UNCHANGED <<conns, active>>

\* stop(): every socket in the set is destroyed, the server is closed; one that never
\* listened makes close() fail.
Stop ==
    /\ Running /\ forwarder.calls < MaxCalls
    /\ conns' = [c \in Conn |-> [conns[c] EXCEPT
           !.local = IF <<"local", c>> \in active THEN "closed" ELSE @,
           !.up = IF <<"up", c>> \in active THEN "closed" ELSE @]]
    /\ active' = {}
    /\ forwarder' = [forwarder EXCEPT !.server = "none", !.calls = @ + 1, !.left = TRUE]

\* A client connects: its socket is tracked while the primary connector dials.
Accept(c) ==
    /\ Running /\ forwarder.server = "listening" /\ conns[c].stage = "none"
    /\ conns' = [conns EXCEPT ![c] = [@ EXCEPT !.stage = "primary", !.local = "open"]]
    /\ active' = active \cup {<<"local", c>>}
    /\ UNCHANGED forwarder

Dialling(c) == Running /\ conns[c].stage \in {"primary", "fallback"}

\* openUpstreamSocket: the fallback connector, if there is one, when the primary fails.
PrimaryFails(c) ==
    /\ Running /\ conns[c].stage = "primary"
    /\ conns' = [conns EXCEPT ![c].stage = "fallback"]
    /\ UNCHANGED <<forwarder, active>>

DialFails(c) ==
    /\ Dialling(c)
    /\ conns' = [conns EXCEPT ![c] = [@ EXCEPT !.stage = "failed", !.local = "closed"]]
    /\ active' = active \ {<<"local", c>>}
    /\ UNCHANGED forwarder

\* Mutant: only the local side is tracked.
LocalOnly(c) == {}

\* The upstream socket is tracked from the moment it is known.
UpstreamOf(c) == {<<"up", c>>}

\* The upstream is there: listeners are put on both sockets and they are piped. A local
\* socket that has closed emits no further close.
Dialled(c) ==
    /\ Dialling(c)
    /\ conns' = [conns EXCEPT ![c] = [@ EXCEPT !.stage = "piped", !.up = "open"]]
    /\ active' = active \cup UpstreamOf(c)
    /\ UNCHANGED forwarder

\* teardown: both sides are destroyed, whichever ended first.
Teardown(c, side) == [conns[c] EXCEPT !.local = "closed", !.up = "closed"]

\* Either side of a piped pair ends or fails.
PairEnds(c, side) ==
    /\ Running /\ conns[c].stage = "piped" /\ conns[c][side] = "open"
    /\ conns' = [conns EXCEPT ![c] = Teardown(c, side)]
    /\ active' = active \ {<<"local", c>>, <<"up", c>>}
    /\ UNCHANGED forwarder

\* A client leaves while its upstream is dialled: nobody listens to its socket, and the
\* error of one that is reset is nobody's.
LeavesEarly(c, how) ==
    /\ Dialling(c) /\ conns[c].local = "open"
    /\ conns' = [conns EXCEPT ![c].local = "closed"]
    /\ forwarder' = [forwarder EXCEPT !.crashed = (how = "reset")]
    /\ UNCHANGED active

PfNext ==
    \/ Start \/ Stop
    \/ \E c \in Conn : Accept(c) \/ PrimaryFails(c) \/ DialFails(c) \/ Dialled(c)
    \/ \E c \in Conn, side \in {"local", "up"} : PairEnds(c, side)
    \/ \E c \in Conn, how \in {"closed", "reset"} : LeavesEarly(c, how)

PfSpec == PfInit /\ [][PfNext]_pfVars

-----------------------------------------------------------------------------
OpenSockets == {s \in {"local", "up"} \X Conn : conns[s[2]][s[1]] = "open"}

\* Whatever is open can still be closed: no socket of the forwarder escapes activeSockets,
\* from which stop() takes what it destroys, in any order of dialling, leaving and stopping.
OpenIsTracked == OpenSockets \subseteq active

\* "Stops the forwarding server and closes active sockets": when stop() has returned and
\* nothing was started since, nothing is open.
StopClosesAll == forwarder.left => OpenSockets = {}
=============================================================================
