------------------------------ MODULE WebInspector ------------------------------
(* WebInspectorService (services/ios/webinspector): one connection made on first use, a   *)
(* loop that receives its messages in the background, and generators (listenMessage) that *)
(* yield them; stopListeningAsync() and close() wait for the loop and then take every     *)
(* handler off.                                                                           *)
EXTENDS Naturals, Sequences, FiniteSets

CONSTANTS
    Listener,       \* bound: calls of listenMessage
    MaxDials,       \* bound: connections
    MaxLoops,       \* bound: runs of the background loop
    MaxMessages     \* bound: messages of the device

VARIABLES inspector,    \* connection, connectionPromise, isReceiving, stopListeningAsync
          dials,        \* per connection: how far _doConnect is, whether the connection is open
          loops,        \* per run of the loop: whether it goes on
          listeners,    \* per generator: what it is at, its queue and what it yielded
          webinspectord \* messages made, messages received of the connection but not taken

inspectVars == <<inspector, dials, loops, listeners, webinspectord>>

NoListener == [at |-> "idle", attached |-> FALSE, queue |-> <<>>, stopped |-> FALSE, got |-> <<>>, due |-> <<>>, late |-> FALSE]
InspectInit ==
    /\ inspector = [connection |-> 0, promise |-> 0, receiving |-> FALSE, loop |-> 0, stop |-> "no", closedEarly |-> FALSE]
    /\ dials = [k \in 1..MaxDials |-> "none"]
    /\ loops = [i \in 1..MaxLoops |-> "none"]
    /\ listeners = [l \in Listener |-> NoListener]
    /\ webinspectord = [made |-> 0, queue |-> <<>>]

Fresh(f) == {i \in DOMAIN f : f[i] = "none"}
Next1(f) == CHOOSE i \in Fresh(f) : \A j \in Fresh(f) : i <= j
Opened == {k \in DOMAIN dials : dials[k] \in {"drain", "open"}}

-----------------------------------------------------------------------------
(* listenMessage: first the connection; startMessageReceiver unless there is a loop.      *)

\* The generators of S attach their handlers.
Begins(S) ==
    /\ listeners' = [l \in Listener |-> IF l \in S THEN [listeners[l] EXCEPT !.at = "waiting", !.attached = TRUE, !.late = inspector.stop # "no"]
                                        ELSE listeners[l]]

LoopStarts(in, S) == S # {} /\ ~in.receiving /\ in.connection # 0
Receiving(in, S) == IF LoopStarts(in, S) THEN [in EXCEPT !.receiving = TRUE, !.loop = Next1(loops)] ELSE in
LoopsOf(in, S) == IF LoopStarts(in, S) THEN [loops EXCEPT ![Next1(loops)] = "runs"] ELSE loops

\* Mutant: every caller that finds no connection makes one.
MakesOne == inspector.connection = 0
Dials == inspector.connection = 0 /\ inspector.promise = 0

Listen(l) ==
    /\ listeners[l].at = "idle" /\ Fresh(loops) # {}
    /\ \/ /\ inspector.connection # 0
          /\ Begins({l}) /\ inspector' = Receiving(inspector, {l}) /\ loops' = LoopsOf(inspector, {l})
          /\ UNCHANGED dials
       \/ /\ inspector.connection = 0
          /\ listeners' = [listeners EXCEPT ![l].at = "connecting"]
          /\ \/ /\ Dials /\ Fresh(dials) # {}
                /\ dials' = [dials EXCEPT ![Next1(dials)] = "dial"]
                /\ inspector' = [inspector EXCEPT !.promise = Next1(dials)]
             \/ ~Dials /\ UNCHANGED <<dials, inspector>>
          /\ UNCHANGED loops
    /\ UNCHANGED webinspectord

\* _doConnect: the connection is kept before what follows the check-in is read.
Dialled(k) ==
    /\ dials[k] = "dial"
    /\ \/ /\ dials' = [dials EXCEPT ![k] = "drain"] /\ inspector' = [inspector EXCEPT !.connection = k]
          /\ UNCHANGED listeners
       \/ /\ dials' = [dials EXCEPT ![k] = "failed"]
          /\ inspector' = [inspector EXCEPT !.connection = 0, !.promise = 0]
          /\ listeners' = [l \in Listener |-> IF listeners[l].at = "connecting" THEN [listeners[l] EXCEPT !.at = "ended"] ELSE listeners[l]]
    /\ UNCHANGED <<loops, webinspectord>>

\* Drained of a message, if there is one, and reported; who waited for it listens. When the
\* service was closed meanwhile, sendMessage connects anew and its callers wait on.
Drained(k) ==
    /\ dials[k] \in {"drain", "shut"}
    /\ LET S == {l \in Listener : listeners[l].at = "connecting"}
       IN IF inspector.connection = 0
          THEN /\ \/ /\ inspector.promise = 0 /\ Fresh(dials) # {}
                     /\ dials' = [dials EXCEPT ![k] = "closed", ![Next1(dials)] = "dial"]
                     /\ inspector' = [inspector EXCEPT !.promise = Next1(dials)]
                  \/ /\ inspector.promise # 0
                     /\ dials' = [dials EXCEPT ![k] = "closed"] /\ UNCHANGED inspector
               /\ UNCHANGED <<loops, listeners, webinspectord>>
          ELSE /\ Fresh(loops) # {}
               /\ dials' = [dials EXCEPT ![k] = IF @ = "drain" THEN "open" ELSE "closed"]
               /\ Begins(S) /\ inspector' = Receiving(inspector, S) /\ loops' = LoopsOf(inspector, S)
               /\ \/ webinspectord.queue # <<>> /\ webinspectord' = [webinspectord EXCEPT !.queue = Tail(@)]
                  \/ webinspectord.queue = <<>> /\ UNCHANGED webinspectord

-----------------------------------------------------------------------------
(* The loop.                                                                     *)

Attached == {l \in Listener : listeners[l].attached}

\* Mutant: the promise that was resolved is resolved again by the next message.
StaysWaiting(l) == listeners[l].at \in {"waiting", "yields"}
Awaits(l) == listeners[l].at = "waiting"

\* messageHandler: to the consumer that waits, or to the queue.
Handled(l, m) ==
    [listeners[l] EXCEPT !.due = Append(@, m), !.at = IF @ = "waiting" THEN "yields" ELSE @,
         !.got = IF listeners[l].at = "waiting" THEN Append(@, m) ELSE @,
         !.queue = IF Awaits(l) THEN @ ELSE Append(@, m)]

\* The loop goes on while isReceiving and there is a connection.
GoesOn == inspector.receiving /\ inspector.connection # 0
AfterReceive(i) ==
    /\ loops' = [loops EXCEPT ![i] = IF GoesOn THEN @ ELSE "ended"]
    /\ inspector' = [inspector EXCEPT !.receiving = @ /\ GoesOn]

Receives(i) ==
    /\ loops[i] = "runs" /\ webinspectord.queue # <<>>
    /\ webinspectord' = [webinspectord EXCEPT !.queue = Tail(@)]
    /\ listeners' = [l \in Listener |-> IF l \in Attached THEN Handled(l, Head(webinspectord.queue)) ELSE listeners[l]]
    /\ AfterReceive(i) /\ UNCHANGED dials

\* receive() timed out.
NothingCame(i) ==
    /\ loops[i] = "runs" /\ ~GoesOn /\ webinspectord.queue = <<>>
    /\ AfterReceive(i) /\ UNCHANGED <<dials, listeners, webinspectord>>

Stopped(l) == [listeners[l] EXCEPT !.stopped = TRUE, !.at = IF @ = "waiting" THEN "ended" ELSE @, !.attached = @ /\ listeners[l].at # "waiting"]

\* Another error ends the loop and, while it was wanted, the generators.
LoopFails(i) ==
    /\ loops[i] = "runs" /\ inspector.connection # 0
    /\ loops' = [loops EXCEPT ![i] = "ended"]
    /\ inspector' = [inspector EXCEPT !.receiving = FALSE]
    /\ listeners' = [l \in Listener |-> IF l \in Attached /\ inspector.receiving THEN Stopped(l) ELSE listeners[l]]
    /\ UNCHANGED <<dials, webinspectord>>

\* The consumer asks for the next message, or returns.
Asks(l) ==
    LET g == listeners[l]
    IN /\ g.at = "yields"
       /\ listeners' = [listeners EXCEPT ![l] =
             IF g.stopped THEN [g EXCEPT !.at = "ended", !.attached = FALSE]
             ELSE IF g.queue # <<>> THEN [g EXCEPT !.got = Append(g.got, Head(g.queue)), !.queue = Tail(g.queue)]
             ELSE [g EXCEPT !.at = "waiting"]]
       /\ UNCHANGED <<inspector, dials, loops, webinspectord>>
Returns(l) ==
    /\ listeners[l].at = "yields"
    /\ listeners' = [listeners EXCEPT ![l].at = "ended", ![l].attached = FALSE]
    /\ UNCHANGED <<inspector, dials, loops, webinspectord>>

-----------------------------------------------------------------------------
(* stopListeningAsync and close.                                                *)

StopListening(how) ==
    /\ inspector.stop = "no"
    /\ inspector' = [inspector EXCEPT !.receiving = FALSE, !.stop = how]
    /\ listeners' = [l \in Listener |-> IF l \in Attached THEN Stopped(l) ELSE listeners[l]]
    /\ UNCHANGED <<dials, loops, webinspectord>>

\* Once the loop has ended.
StopDone ==
    /\ inspector.stop # "no" /\ (inspector.loop # 0 => loops[inspector.loop] = "ended")
    /\ LET k == inspector.connection closes == inspector.stop = "close"
       IN /\ inspector' = [inspector EXCEPT !.stop = "no", !.loop = 0,
                               !.promise = IF closes THEN 0 ELSE @, !.connection = IF closes THEN 0 ELSE @,
                               !.closedEarly = @ \/ (closes /\ \E d \in DOMAIN dials : dials[d] \in {"dial", "drain", "shut"})]
          /\ dials' = IF closes /\ k # 0 THEN [dials EXCEPT ![k] = IF @ = "drain" THEN "shut" ELSE "closed"] ELSE dials
          /\ webinspectord' = IF closes THEN [webinspectord EXCEPT !.queue = <<>>] ELSE webinspectord
    /\ listeners' = [l \in Listener |-> [listeners[l] EXCEPT !.attached = FALSE]]
    /\ UNCHANGED loops

DeviceSends ==
    /\ webinspectord.made < MaxMessages /\ inspector.connection # 0
    /\ webinspectord' = [webinspectord EXCEPT !.made = @ + 1, !.queue = Append(@, webinspectord.made + 1)]
    /\ UNCHANGED <<inspector, dials, loops, listeners>>

InspectNext ==
    \/ \E l \in Listener : Listen(l) \/ Asks(l) \/ Returns(l)
    \/ \E k \in 1..MaxDials : Dialled(k) \/ Drained(k)
    \/ \E i \in 1..MaxLoops : Receives(i) \/ NothingCame(i) \/ LoopFails(i)
    \/ \E how \in {"stop", "close"} : StopListening(how)
    \/ StopDone \/ DeviceSends
InspectSpec == InspectInit /\ [][InspectNext]_inspectVars

-----------------------------------------------------------------------------
\* A generator that did not begin while another stop was under way yields what was received
\* since, in order, each message once, until it is stopped; and never waits while one is due.
YieldsAll ==
    \A l \in Listener : ~listeners[l].late =>
        /\ listeners[l].got \o listeners[l].queue = listeners[l].due
        /\ listeners[l].at = "waiting" => listeners[l].attached /\ listeners[l].queue = <<>>

\* The comment of connectToWebInspectorService: "only one TCP connection is ever created" for
\* concurrent callers; unless close() came while it was being made.
OneConnection == ~inspector.closedEarly => Cardinality(Opened \cup {k \in DOMAIN dials : dials[k] = "dial"}) <= 1
=============================================================================
