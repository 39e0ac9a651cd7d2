---------------------------- MODULE AfcConnection ----------------------------
(* One AfcService (services/ios/afc/index.ts) and its packet demultiplexer     *)
(* (demux.ts): operations that share a socket, a send lock, a background        *)
(* reader that routes responses by packet number, one timer per operation, and  *)
(* reconnect().  The service is dialled by UDID.  A step is one event-loop       *)
(* callback with the promise continuations it triggers.                          *)
EXTENDS Naturals, Sequences, FiniteSets

CONSTANTS
    Op,                 \* calls of _sendAndWait
    Socket,             \* sockets dialled; bound
    MaxReconnects,      \* bound: calls of reconnect()
    NoSocket, NoOp

ASSUME ReconnectAssumption == MaxReconnects \in Nat
ASSUME OpAssumption == IsFiniteSet(Op)
ASSUME PlaceholdersAssumption == NoSocket \notin Socket /\ NoOp \notin Op

Demux == 1..(MaxReconnects + 1)  \* one AfcPacketDemux before and after each reconnect

VARIABLES
    sockets,    \* unused, open or destroyed
    readerOf,   \* the demux whose _readerLoop reads a socket; 0 if none
    wire,       \* requests a device has yet to answer, per socket, in order
    socket,     \* AfcService.socket
    demux,      \* AfcService.demux: the current generation
    dead,       \* AfcService.connectionError: 0, or the demux of the operation that set it
    stopped,    \* AfcPacketDemux.stopped
    readSocket, \* AfcPacketDemux.readerSocket
    packetNum,  \* AfcPacketDemux.packetNum
    pending,    \* AfcPacketDemux.pending: sets of [num, op]
    holder,     \* the operation inside the send lock
    queue,      \* operations waiting for the send lock
    ops,        \* progress of each operation
    user,       \* progress of the caller of reconnect()
    hurried     \* history: generations that reconnect() closed with operations in flight

vars == <<sockets, readerOf, wire, socket, demux, dead, stopped, readSocket,
          packetNum, pending, holder, queue, ops, user, hurried>>

Phases == {"idle", "dialing", "queued", "sending", "expired", "waiting", "ok", "failed"}
NewOp == [phase |-> "idle", demux |-> 0, socket |-> NoSocket, num |-> 0, reply |-> NoOp]

Init ==
    /\ sockets = [s \in Socket |-> "unused"]
    /\ readerOf = [s \in Socket |-> 0]
    /\ wire = [s \in Socket |-> <<>>]
    /\ socket = NoSocket
    /\ demux = 1
    /\ dead = 0
    /\ stopped = [d \in Demux |-> FALSE]
    /\ readSocket = [d \in Demux |-> NoSocket]
    /\ packetNum = [d \in Demux |-> 0]
    /\ pending = [d \in Demux |-> {}]
    /\ holder = [d \in Demux |-> NoOp]
    /\ queue = [d \in Demux |-> <<>>]
    /\ ops = [o \in Op |-> NewOp]
    /\ user = "idle"
    /\ hurried = {}

InFlight(o) == ops[o].phase \in {"dialing", "queued", "sending", "expired", "waiting"}

-----------------------------------------------------------------------------
(* Failure.  Destroying a socket makes the sends blocked on it throw and wakes  *)
(* its reader, which, if it is the current one of its demux, rejects every       *)
(* pending waiter there.  An operation whose waiter is rejected while its send   *)
(* is blocked ("expired") ends only when the send does.                          *)

PendingOps(d) == {w.op : w \in pending[d]}

CurrentReader(s) == readerOf[s] # 0 /\ ~stopped[readerOf[s]] /\ readSocket[readerOf[s]] = s

\* Operations inside sendAfcPacket on one of the sockets in S.
SendsOn(S) == {o \in Op : ops[o].phase \in {"sending", "expired"} /\ ops[o].socket \in S}

\* Mutant: the reader fails without rejecting what is pending.
ForgottenBy(S) == {}

\* Operations whose waiters the readers of the sockets in S reject.
RejectedBy(S) == UNION {PendingOps(readerOf[s]) : s \in {x \in S : CurrentReader(x)}}

\* Mutant: a rejected operation leaves the send lock taken.
FailInLock(ended, rejected) ==
    /\ ops' = [o \in Op |-> IF o \in ended \cup rejected THEN [ops[o] EXCEPT !.phase = "failed"]
                            ELSE ops[o]]
    /\ pending' = [d \in Demux |-> {w \in pending[d] : w.op \notin ended \cup rejected}]
    /\ UNCHANGED holder

\* The operations that end when those in ended throw and the waiters of those in
\* rejected are rejected.
Ending(ended, rejected) == ended \cup {o \in rejected : ops[o].phase = "waiting"}

\* They reject, leaving the lock and the pending map; the rest of rejected expires.
Fail(ended, rejected) ==
    LET failures == Ending(ended, rejected) IN
    /\ ops' = [o \in Op |-> IF o \in failures THEN [ops[o] EXCEPT !.phase = "failed"]
                            ELSE IF o \in rejected THEN [ops[o] EXCEPT !.phase = "expired"]
                            ELSE ops[o]]
    /\ holder' = [d \in Demux |-> IF holder[d] \in failures THEN NoOp ELSE holder[d]]
    /\ pending' = [d \in Demux |-> {w \in pending[d] : w.op \notin ended \cup rejected}]

\* _markConnectionDead: the first error sticks, and the service's socket goes.
\* Every AfcConnectionError an operation of demux d rejects with ends here.
FailAndMarkDead(d, ended, broken) ==
    LET killed == broken \cup (IF dead # 0 \/ socket = NoSocket THEN {} ELSE {socket})
    IN  /\ dead' = IF dead # 0 THEN dead ELSE d
        /\ socket' = IF dead # 0 THEN socket ELSE NoSocket
        /\ sockets' = [s \in Socket |-> IF s \in killed THEN "destroyed" ELSE sockets[s]]
        /\ Fail(ended \cup SendsOn(killed), RejectedBy(killed))

-----------------------------------------------------------------------------
(* _connect and the send lock.                                                 *)

\* A call on a service whose connection is not dead: reuse the open socket, or
\* dial.  (On a dead one it throws at once and changes nothing.)
Call(o) ==
    /\ ops[o].phase = "idle"
    /\ dead = 0
    /\ \/ /\ socket # NoSocket
          /\ ops' = [ops EXCEPT ![o] = [@ EXCEPT !.phase = "queued", !.demux = demux,
                                                 !.socket = socket]]
          /\ queue' = [queue EXCEPT ![demux] = Append(@, o)]
       \/ /\ socket = NoSocket
          /\ ops' = [ops EXCEPT ![o] = [@ EXCEPT !.phase = "dialing", !.demux = demux]]
          /\ UNCHANGED queue
    /\ UNCHANGED <<hurried, sockets, readerOf, wire, socket, demux, dead, stopped, readSocket,
                   packetNum, pending, holder, user>>

\* createRawServiceSocket returned s: it becomes the service's socket, whatever
\* was there, and the current demux starts to read it.
Dialed(s) ==
    /\ sockets[s] = "unused"
    /\ readerOf' = [readerOf EXCEPT ![s] = demux]
    /\ readSocket' = [readSocket EXCEPT ![demux] = s]

\* An operation's dial completes.  Its own demux may have been stopped since:
\* then ensureReaderStarted throws, and the error kills the new connection.
DialDone(o, s) ==
    /\ ops[o].phase = "dialing"
    /\ Dialed(s)
    /\ \/ /\ ~stopped[ops[o].demux]
          /\ sockets' = [sockets EXCEPT ![s] = "open"]
          /\ socket' = s
          /\ ops' = [ops EXCEPT ![o] = [@ EXCEPT !.phase = "queued", !.socket = s]]
          /\ queue' = [queue EXCEPT ![ops[o].demux] = Append(@, o)]
          /\ UNCHANGED <<dead, pending, holder>>
       \/ /\ stopped[ops[o].demux]
          /\ sockets' = [sockets EXCEPT ![s] = IF dead # 0 THEN "open" ELSE "destroyed"]
          /\ socket' = IF dead # 0 THEN s ELSE NoSocket
          /\ dead' = IF dead # 0 THEN dead ELSE ops[o].demux
          /\ Fail({o}, IF dead # 0 THEN {} ELSE PendingOps(demux))
          /\ UNCHANGED queue
    /\ UNCHANGED <<hurried, wire, demux, stopped, packetNum, user>>

\* The tunnel or the service cannot be reached: not an AfcConnectionError.
DialFails(o) ==
    /\ ops[o].phase = "dialing"
    /\ ops' = [ops EXCEPT ![o].phase = "failed"]
    /\ UNCHANGED <<hurried, sockets, readerOf, wire, socket, demux, dead, stopped, readSocket,
                   packetNum, pending, holder, queue, user>>

\* Mutant: no lock is taken, and the number is advanced too late to count.
EnterUnlocked(d) ==
    /\ queue[d] # <<>>
    /\ LET o == Head(queue[d]) n == packetNum[d] IN
       /\ sockets[ops[o].socket] = "open"
       /\ queue' = [queue EXCEPT ![d] = Tail(@)]
       /\ pending' = [pending EXCEPT ![d] = @ \cup {[num |-> n, op |-> o]}]
       /\ ops' = [ops EXCEPT ![o] = [@ EXCEPT !.phase = "sending", !.num = n]]
    /\ UNCHANGED <<hurried, sockets, readerOf, wire, socket, demux, dead, stopped, readSocket,
                   packetNum, holder, user>>

\* The head of the queue enters the lock: number, waiter, timer, then the writes.
\* A destroyed socket makes the first write throw.
EnterLock(d) ==
    /\ holder[d] = NoOp
    /\ queue[d] # <<>>
    /\ LET o == Head(queue[d]) s == ops[o].socket n == packetNum[d] IN
       /\ queue' = [queue EXCEPT ![d] = Tail(@)]
       /\ packetNum' = [packetNum EXCEPT ![d] = @ + 1]
       /\ \/ /\ sockets[s] = "open"
             /\ holder' = [holder EXCEPT ![d] = o]
             /\ pending' = [pending EXCEPT ![d] = @ \cup {[num |-> n, op |-> o]}]
             /\ ops' = [ops EXCEPT ![o] = [@ EXCEPT !.phase = "sending", !.num = n]]
             /\ UNCHANGED <<sockets, socket, dead>>
          \/ /\ sockets[s] = "destroyed"
             /\ FailAndMarkDead(d, {o}, {})
    /\ UNCHANGED <<hurried, readerOf, wire, demux, stopped, readSocket, user>>

\* The lock after sendAfcPacket returned.  The locked callback is an async
\* function that returns the waiter's promise, so AsyncLock keeps the lock until
\* the response settles it.
LockWhileWaiting(o) == holder

\* sendAfcPacket has written the packet (at once or after drain).  An operation
\* that expired meanwhile rejects now.
SendDone(o) ==
    /\ ops[o].phase \in {"sending", "expired"}
    /\ sockets[ops[o].socket] = "open"
    /\ wire' = [wire EXCEPT ![ops[o].socket] = Append(@, [num |-> ops[o].num, op |-> o])]
    /\ \/ /\ ops[o].phase = "sending"
          /\ ops' = [ops EXCEPT ![o].phase = "waiting"]
          /\ holder' = LockWhileWaiting(o)
          /\ UNCHANGED <<sockets, socket, dead, pending>>
       \/ /\ ops[o].phase = "expired"
          /\ FailAndMarkDead(ops[o].demux, {o}, {})
    /\ UNCHANGED <<hurried, readerOf, demux, stopped, readSocket, packetNum, queue, user>>

-----------------------------------------------------------------------------
(* The reader.                                                                 *)

\* pending.get(header.packetNum)
WaitersFor(d, num) == {w \in pending[d] : w.num = num}

\* A response arrives on s and its reader routes it.  A reader whose demux was
\* stopped handles the packet it was waiting for, then ends.
Receive(s) ==
    /\ sockets[s] = "open"
    /\ readerOf[s] # 0
    /\ wire[s] # <<>>
    /\ wire' = [wire EXCEPT ![s] = Tail(@)]
    /\ LET d == readerOf[s] packet == Head(wire[s]) IN
       /\ \/ \E w \in WaitersFor(d, packet.num) :
                /\ pending' = [pending EXCEPT ![d] = @ \ {w}]
                /\ ops' = [ops EXCEPT ![w.op] = [@ EXCEPT !.phase = "ok", !.reply = packet.op]]
                /\ holder' = [holder EXCEPT ![d] = IF @ = w.op THEN NoOp ELSE @]
          \/ /\ WaitersFor(d, packet.num) = {}
             /\ UNCHANGED <<pending, ops, holder>>
       /\ readerOf' = IF stopped[d] THEN [readerOf EXCEPT ![s] = 0] ELSE readerOf
    /\ UNCHANGED <<hurried, sockets, socket, demux, dead, stopped, readSocket, packetNum, queue, user>>

\* The peer closes s, or nothing was read from it for AFC_OPERATION_TIMEOUT_MS:
\* the reader ends; if it is the current one the connection is marked dead.  If
\* not, only a send blocked on s fails, with an AfcConnectionError or another.
ReaderFails(s) ==
    /\ sockets[s] = "open"
    /\ readerOf[s] # 0
    /\ \/ /\ CurrentReader(s) \/ SendsOn({s}) # {}
          /\ FailAndMarkDead(readerOf[s], {}, {s})
       \/ /\ ~CurrentReader(s)
          /\ sockets' = [sockets EXCEPT ![s] = "destroyed"]
          /\ Fail(SendsOn({s}), {})
          /\ UNCHANGED <<dead, socket>>
    /\ UNCHANGED <<hurried, readerOf, wire, demux, stopped, readSocket, packetNum, queue, user>>

\* The timer of _registerPending fires: an operation that waits rejects with an
\* AfcConnectionError, which kills the connection; one that sends has lost its
\* waiter.
OpTimeout(o) ==
    /\ \/ /\ ops[o].phase = "waiting"
          /\ FailAndMarkDead(ops[o].demux, {o}, {})
       \/ /\ ops[o].phase = "sending"
          /\ Fail({}, {o})
          /\ UNCHANGED <<sockets, socket, dead>>
    /\ UNCHANGED <<hurried, readerOf, wire, demux, stopped, readSocket, packetNum, queue, user>>

-----------------------------------------------------------------------------
(* reconnect().                                                                *)

\* Mutant: the error of the old connection outlives close().
ErrorKept(rejected) == IF dead # 0 THEN dead ELSE IF rejected # {} THEN demux ELSE 0

\* The error after close() cleared it and the rejections of the old demux ran.
ErrorAfterClose(rejected) == IF rejected # {} THEN demux ELSE 0

\* close() then _connect() up to its first await.  close clears the error and
\* stops the demux; the rejections of what was pending run after reconnect's
\* synchronous part, and the first of them marks the connection dead again.
Reconnect ==
    /\ user = "idle"
    /\ demux <= MaxReconnects
    /\ user' = "dialing"
    /\ stopped' = [stopped EXCEPT ![demux] = TRUE]
    /\ demux' = demux + 1
    /\ hurried' = IF \E o \in Op : InFlight(o) THEN hurried \cup {demux} ELSE hurried
    /\ socket' = NoSocket
    /\ sockets' = [s \in Socket |-> IF s = socket THEN "destroyed" ELSE sockets[s]]
    /\ Fail(SendsOn({socket}), PendingOps(demux))
    /\ dead' = ErrorAfterClose(Ending(SendsOn({socket}), PendingOps(demux)))
    /\ UNCHANGED <<readerOf, wire, readSocket, packetNum, queue>>

\* _connect returns and reconnect() resolves.
ReconnectDone(s) ==
    /\ user = "dialing"
    /\ Dialed(s)
    /\ sockets' = [sockets EXCEPT ![s] = "open"]
    /\ socket' = s
    /\ user' = "idle"
    /\ UNCHANGED <<hurried, wire, demux, dead, stopped, packetNum, pending, holder, queue, ops>>

ReconnectFails ==
    /\ user = "dialing"
    /\ user' = "idle"
    /\ UNCHANGED <<hurried, sockets, readerOf, wire, socket, demux, dead, stopped, readSocket,
                   packetNum, pending, holder, queue, ops>>

-----------------------------------------------------------------------------
Next ==
    \/ \E o \in Op : Call(o) \/ DialFails(o) \/ SendDone(o) \/ OpTimeout(o)
    \/ \E o \in Op, s \in Socket : DialDone(o, s)
    \/ \E d \in Demux : EnterLock(d)
    \/ \E s \in Socket : Receive(s) \/ ReaderFails(s) \/ ReconnectDone(s)
    \/ Reconnect \/ ReconnectFails

Spec == Init /\ [][Next]_vars

\* Dials are bounded by their timeouts, lock callbacks run, every operation has
\* a timer and so has every read; a device need not answer.  A socket nobody reads
\* any more (one of two concurrent dials, after reconnect()) has no timer: its
\* peer is assumed to accept what is written.
Fairness ==
    /\ \A o \in Op : /\ WF_vars(DialFails(o) \/ \E s \in Socket : DialDone(o, s))
                     /\ WF_vars(OpTimeout(o))
                     /\ WF_vars(SendDone(o) /\ readerOf[ops[o].socket] = 0)
    /\ \A d \in Demux : WF_vars(EnterLock(d))
    /\ \A s \in Socket : WF_vars(ReaderFails(s))

FairSpec == Spec /\ Fairness

-----------------------------------------------------------------------------
(* Properties.                                                                 *)

\* Every variable stays in its domain.
TypeOK ==
    /\ sockets \in [Socket -> {"unused", "open", "destroyed"}]
    /\ readerOf \in [Socket -> {0} \cup Demux]
    /\ socket \in Socket \cup {NoSocket}
    /\ demux \in Demux
    /\ dead \in {0} \cup Demux
    /\ stopped \in [Demux -> BOOLEAN]
    /\ readSocket \in [Demux -> Socket \cup {NoSocket}]
    /\ packetNum \in [Demux -> 0..Cardinality(Op)]
    /\ \A d \in Demux : \A w \in pending[d] : w.op \in Op /\ w.num \in 0..(packetNum[d] - 1)
    /\ holder \in [Demux -> Op \cup {NoOp}]
    /\ \A d \in Demux : \A i \in 1..Len(queue[d]) : queue[d][i] \in Op
    /\ \A o \in Op : ops[o].phase \in Phases /\ ops[o].demux \in {0} \cup Demux
    /\ user \in {"idle", "dialing"}
    /\ hurried \subseteq Demux

\* An operation succeeds only with the response to its own request, even when two
\* sockets are read at once after concurrent dials.
RepliesMatch == \A o \in Op : ops[o].phase = "ok" => ops[o].reply = o

\* The pending map of a live demux holds exactly the operations that were
\* numbered and have no outcome, one waiter each, all numbers distinct.
PendingExact ==
    \A d \in Demux :
        /\ PendingOps(d) = {o \in Op : ops[o].demux = d /\ ops[o].phase \in {"sending", "waiting"}}
        /\ \A w \in pending[d], x \in pending[d] : w.num = x.num => w = x

\* The send lock is held exactly by the operation being sent or answered: it is
\* never left locked by one that ended.
LockHeldByLiveOp ==
    \A d \in Demux : holder[d] # NoOp =>
        ops[holder[d]].phase \in {"sending", "expired", "waiting"} /\ ops[holder[d]].demux = d

\* When the socket its demux reads is destroyed, an operation on it is rejected at
\* once, not when its 30 s timer fires.  (One on the other socket of two
\* concurrent dials is not.)
RejectedAtOnce ==
    \A o \in Op : ops[o].phase \in {"sending", "waiting"} /\ CurrentReader(ops[o].socket)
        => sockets[ops[o].socket] = "open"

\* What the service keeps agrees with its operations: the pending map with those that were
\* numbered, the send lock with the one being sent or answered, no waiter on a dead socket.
StateExact == TypeOK /\ PendingExact /\ LockHeldByLiveOp /\ RejectedAtOnce

\* "awaiting the response happens outside the send lock": the lock's holder is
\* still sending.
LockOnlyWhileSending ==
    \A d \in Demux : holder[d] # NoOp => ops[holder[d]].phase \in {"sending", "expired"}

\* "Can call this to recover instead of creating a new instance": what kills a
\* connection is an error of an operation on it, never one left over from the
\* connection that reconnect() replaced.
ReconnectRecovers == dead # 0 => dead = demux

\* reconnect() does recover when it is called with nothing in flight: only a
\* generation closed with operations still in flight leaves errors behind.
IdleReconnectRecovers == dead # 0 => dead = demux \/ dead \in hurried

\* Every operation ends: no lost response, dead socket or stopped demux leaves a
\* caller waiting for ever, inside the send lock or behind it.
EveryOpEnds == \A o \in Op : InFlight(o) ~> ops[o].phase \in {"ok", "failed"}
=============================================================================
