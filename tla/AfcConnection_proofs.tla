-------------------------- MODULE AfcConnection_proofs --------------------------
(* What one AfcService and its demultiplexers keep, for any number of operations,   *)
(* sockets and reconnects: each response reaches its own request, the pending map    *)
(* and the send lock agree with the operations, and only a reconnect that cut off    *)
(* operations in flight leaves an error behind.                                      *)
EXTENDS AfcConnection, SequenceTheorems, FiniteSetTheorems, TLAPS

Progress == [phase : Phases, demux : {0} \cup Demux, socket : Socket \cup {NoSocket},
             num : Nat, reply : Op \cup {NoOp}]
Packet == [num : Nat, op : Op]

\* The domains of the variables.
Typed ==
    /\ sockets \in [Socket -> {"unused", "open", "destroyed"}]
    /\ readerOf \in [Socket -> {0} \cup Demux]
    /\ wire \in [Socket -> Seq(Packet)]
    /\ socket \in Socket \cup {NoSocket}
    /\ demux \in Demux
    /\ dead \in {0} \cup Demux
    /\ stopped \in [Demux -> BOOLEAN]
    /\ readSocket \in [Demux -> Socket \cup {NoSocket}]
    /\ packetNum \in [Demux -> Nat]
    /\ pending \in [Demux -> SUBSET Packet]
    /\ holder \in [Demux -> Op \cup {NoOp}]
    /\ queue \in [Demux -> Seq(Op)]
    /\ ops \in [Op -> Progress]
    /\ user \in {"idle", "dialing"}
    /\ hurried \subseteq Demux

Sending(o) == ops[o].phase \in {"sending", "expired"}
Begun(o) == ops[o].phase \in {"queued", "sending", "expired", "waiting"}

\* Each operation has the generation it was called in, and past the dial a socket.
OpsExact ==
    /\ \A o \in Op : ops[o].phase # "idle" => ops[o].demux \in Demux
    /\ \A o \in Op : Begun(o) => ops[o].socket \in Socket
    /\ \A o \in Op : ops[o].phase \in {"idle", "dialing"} => ops[o].socket = NoSocket

\* A socket is read by the generation of the operations on it, until it is no longer read; one
\* that was never dialled has neither.
SocketsExact ==
    /\ socket # NoSocket => readerOf[socket] = demux /\ sockets[socket] # "unused"
    /\ \A o \in Op : ops[o].socket # NoSocket =>
           sockets[ops[o].socket] # "unused" /\ readerOf[ops[o].socket] \in {0, ops[o].demux}
    /\ \A s \in Socket : sockets[s] = "unused" => readerOf[s] = 0 /\ wire[s] = <<>>
    /\ \A s \in Socket : readerOf[s] <= demux

\* The generations before the current one are the stopped ones, and only those that were cut
\* off still have operations in flight.
GenerationsExact ==
    /\ \A d \in Demux : stopped[d] <=> d < demux
    /\ \A o \in Op : ops[o].phase # "idle" => ops[o].demux <= demux
    /\ \A o \in Op : InFlight(o) => ops[o].demux = demux \/ ops[o].demux \in hurried

\* The queue of the send lock: distinct operations that wait for it.
QueueExact ==
    \A d \in Demux :
        /\ \A i \in 1..Len(queue[d]) : /\ ops[queue[d][i]].phase = "queued"
                                       /\ ops[queue[d][i]].demux = d
        /\ \A i \in 1..Len(queue[d]), j \in 1..Len(queue[d]) : queue[d][i] = queue[d][j] => i = j

\* What is on the wire is the request of an operation on that socket.
WireExact ==
    \A s \in Socket : \A i \in 1..Len(wire[s]) :
        LET p == wire[s][i] IN /\ ops[p.op].socket = s /\ ops[p.op].num = p.num
                               /\ ops[p.op].phase \notin {"idle", "dialing", "queued"}

Written(o) == \E s \in Socket : \E i \in 1..Len(wire[s]) : wire[s][i].op = o
Numbered(o) == ops[o].phase \in {"sending", "expired", "waiting"} \/ Written(o)

\* The numbers of a generation are given out once.
NumbersExact ==
    /\ \A o \in Op : Numbered(o) => ops[o].num < packetNum[ops[o].demux]
    /\ \A o \in Op, p \in Op :
           Numbered(o) /\ Numbered(p) /\ ops[o].demux = ops[p].demux /\ ops[o].num = ops[p].num => o = p

\* The waiters are those of the numbered operations without an outcome.
WaitersExact ==
    \A d \in Demux :
        /\ \A w \in pending[d] : ops[w.op].num = w.num
        /\ PendingOps(d) = {o \in Op : ops[o].demux = d /\ ops[o].phase \in {"sending", "waiting"}}

\* At most one number per operation that was called in the generation.
PastDial(d) == {o \in Op : ops[o].demux = d /\ ops[o].phase \notin {"idle", "dialing"}}
Counted == \A d \in Demux : packetNum[d] + Len(queue[d]) <= Cardinality(PastDial(d))

IInv ==
    /\ Typed /\ OpsExact /\ SocketsExact /\ GenerationsExact /\ QueueExact
    /\ WireExact /\ NumbersExact /\ WaitersExact /\ Counted
    /\ RepliesMatch /\ LockHeldByLiveOp /\ RejectedAtOnce /\ IdleReconnectRecovers

-----------------------------------------------------------------------------
(* What a step leaves alone keeps the parts of the invariant.                  *)

LEMMA DemuxIs == Demux \subseteq Nat \ {0} /\ 1 \in Demux /\ \A d \in Demux : d <= MaxReconnects => d + 1 \in Demux
BY ReconnectAssumption DEF Demux

LEMMA InitInv == Init => IInv
<1> SUFFICES ASSUME Init  PROVE IInv
  OBVIOUS
<1>1. ops \in [Op -> Progress] /\ \A o \in Op : ops[o] = NewOp
  BY DEF Init, NewOp, Progress, Phases
<1>2. Typed
  BY <1>1, DemuxIs DEF Init, Typed
<1>3. OpsExact /\ SocketsExact /\ RepliesMatch /\ RejectedAtOnce
  BY <1>1 DEF Init, NewOp, OpsExact, SocketsExact, RepliesMatch, RejectedAtOnce, Begun
<1>4. GenerationsExact /\ LockHeldByLiveOp /\ IdleReconnectRecovers
  BY <1>1, DemuxIs DEF Init, NewOp, GenerationsExact, LockHeldByLiveOp, IdleReconnectRecovers, InFlight
<1>5. QueueExact /\ WireExact
  BY DEF Init, QueueExact, WireExact
<1>6. NumbersExact
  BY <1>1 DEF Init, NewOp, NumbersExact, Numbered, Written
<1>7. WaitersExact
  BY <1>1 DEF Init, NewOp, WaitersExact, PendingOps
<1>8. Counted
  <2> SUFFICES ASSUME NEW d \in Demux
               PROVE  packetNum[d] + Len(queue[d]) <= Cardinality(PastDial(d))
    BY DEF Counted
  <2>1. IsFiniteSet(PastDial(d))
    BY OpAssumption, FS_Subset DEF PastDial
  <2> QED BY <2>1, FS_CardinalityType DEF Init
<1> QED BY <1>2, <1>3, <1>4, <1>5, <1>6, <1>7, <1>8 DEF IInv

LEMMA NumberedIs ==
    ASSUME IInv, NEW o \in Op, Numbered(o)
    PROVE  /\ ops[o].phase \notin {"idle", "dialing", "queued"}
           /\ ops[o].demux \in Demux /\ ops[o].num \in Nat /\ ops[o].num < packetNum[ops[o].demux]
<1>1. ops[o].phase \notin {"idle", "dialing", "queued"}
  <2>1. CASE Written(o)
    <3>1. PICK s \in Socket : \E i \in 1..Len(wire[s]) : wire[s][i].op = o
      BY <2>1 DEF Written
    <3> QED BY <3>1 DEF IInv, WireExact
  <2> QED BY <2>1 DEF Numbered
<1> QED BY <1>1 DEF IInv, Typed, Progress, OpsExact, NumbersExact

\* No number is given out.
LEMMA NumbersStay ==
    ASSUME IInv, packetNum' \in [Demux -> Nat],
           \A d \in Demux : packetNum[d] <= packetNum'[d],
           \A o \in Op : Numbered(o)' => /\ Numbered(o)
                                         /\ ops'[o].num = ops[o].num /\ ops'[o].demux = ops[o].demux
    PROVE  NumbersExact'
<1>1. ASSUME NEW o \in Op, Numbered(o)'  PROVE ops'[o].num < packetNum'[ops'[o].demux]
  <2>1. /\ Numbered(o) /\ ops'[o].num = ops[o].num /\ ops'[o].demux = ops[o].demux
    BY <1>1
  <2>2. ops[o].demux \in Demux /\ ops[o].num \in Nat /\ ops[o].num < packetNum[ops[o].demux]
    BY <2>1, NumberedIs
  <2>3. /\ packetNum[ops[o].demux] \in Nat /\ packetNum'[ops[o].demux] \in Nat
        /\ packetNum[ops[o].demux] <= packetNum'[ops[o].demux]
    BY <2>2 DEF IInv, Typed
  <2> QED BY <2>1, <2>2, <2>3
<1>2. ASSUME NEW o \in Op, NEW p \in Op, Numbered(o)', Numbered(p)',
             ops'[o].demux = ops'[p].demux, ops'[o].num = ops'[p].num
      PROVE  o = p
  BY <1>2 DEF IInv, NumbersExact
<1> QED BY <1>1, <1>2 DEF NumbersExact

\* Nothing enters the queues, and whoever was past the dial stays so.
LEMMA CountedStays ==
    ASSUME IInv, packetNum' \in [Demux -> Nat], queue' \in [Demux -> Seq(Op)],
           \A d \in Demux : packetNum'[d] + Len(queue'[d]) <= packetNum[d] + Len(queue[d]),
           \A d \in Demux : PastDial(d) \subseteq PastDial(d)'
    PROVE  Counted'
<1> SUFFICES ASSUME NEW d \in Demux
             PROVE  (packetNum[d] + Len(queue[d]) <= Cardinality(PastDial(d)))'
  BY DEF Counted
<1>1. IsFiniteSet(PastDial(d)')
  BY OpAssumption, FS_Subset DEF PastDial
<1>2. /\ IsFiniteSet(PastDial(d))
      /\ Cardinality(PastDial(d)) \in Nat /\ Cardinality(PastDial(d)') \in Nat
      /\ Cardinality(PastDial(d)) <= Cardinality(PastDial(d)')
  BY <1>1, FS_Subset, FS_CardinalityType
<1>3. packetNum[d] + Len(queue[d]) <= Cardinality(PastDial(d))
  BY DEF IInv, Counted
<1>4. /\ Len(queue[d]) \in Nat /\ Len(queue'[d]) \in Nat
      /\ packetNum[d] \in Nat /\ packetNum'[d] \in Nat
  BY LenProperties DEF IInv, Typed
<1>5. packetNum'[d] + Len(queue'[d]) <= packetNum[d] + Len(queue[d])
  OBVIOUS
<1> QED BY <1>2, <1>3, <1>4, <1>5

LEMMA QueueStays ==
    ASSUME IInv, queue' = queue,
           \A o \in Op : ops[o].phase = "queued" =>
               ops'[o].phase = "queued" /\ ops'[o].demux = ops[o].demux
    PROVE  QueueExact'
<1>1. \A d \in Demux : \A i \in 1..Len(queue[d]) : queue[d][i] \in Op
  BY ElementOfSeq DEF IInv, Typed
<1> QED BY <1>1 DEF IInv, QueueExact

LEMMA WireStays ==
    ASSUME IInv, wire' = wire,
           \A o \in Op : ops[o].phase \notin {"idle", "dialing", "queued"} =>
               /\ ops'[o].socket = ops[o].socket /\ ops'[o].num = ops[o].num
               /\ ops'[o].phase \notin {"idle", "dialing", "queued"}
    PROVE  WireExact'
<1> SUFFICES ASSUME NEW s \in Socket, NEW i \in 1..Len(wire[s])
             PROVE  /\ ops'[wire[s][i].op].socket = s /\ ops'[wire[s][i].op].num = wire[s][i].num
                    /\ ops'[wire[s][i].op].phase \notin {"idle", "dialing", "queued"}
  BY DEF WireExact
<1>1. wire[s][i] \in Packet
  BY ElementOfSeq DEF IInv, Typed
<1>2. wire[s][i].op \in Op
  BY <1>1 DEF Packet
<1>3. /\ ops[wire[s][i].op].socket = s /\ ops[wire[s][i].op].num = wire[s][i].num
      /\ ops[wire[s][i].op].phase \notin {"idle", "dialing", "queued"}
  BY DEF IInv, WireExact
<1> QED BY <1>2, <1>3

LEMMA GenerationsStay ==
    ASSUME IInv, UNCHANGED <<demux, stopped, hurried>>,
           \A o \in Op : ops'[o].phase # "idle" => ops[o].phase # "idle" /\ ops'[o].demux = ops[o].demux,
           \A o \in Op : InFlight(o)' => InFlight(o)
    PROVE  GenerationsExact'
BY DEF IInv, GenerationsExact, InFlight

\* Sockets may be destroyed, and the service may let go of its own.
LEMMA SocketsStay ==
    ASSUME IInv, UNCHANGED <<demux, readerOf, wire>>, socket' \in {socket, NoSocket},
           \A s \in Socket : sockets'[s] = "unused" <=> sockets[s] = "unused",
           \A o \in Op : ops'[o].socket # NoSocket =>
               ops'[o].socket = ops[o].socket /\ ops'[o].demux = ops[o].demux
    PROVE  SocketsExact'
<1>1. \A o \in Op : ops[o].socket \in Socket \cup {NoSocket}
  BY DEF IInv, Typed, Progress
<1>2. socket \in Socket \cup {NoSocket}
  BY DEF IInv, Typed
<1> QED BY <1>1, <1>2 DEF IInv, SocketsExact

-----------------------------------------------------------------------------
(* Failure.                                                                    *)

\* The state of each operation after some of them throw and others are rejected.
LEMMA FailOps ==
    ASSUME IInv, NEW ended \in SUBSET Op, NEW rejected \in SUBSET Op, Fail(ended, rejected)
    PROVE  /\ ops' \in [Op -> Progress]
           /\ \A o \in Op : /\ ops'[o].demux = ops[o].demux /\ ops'[o].socket = ops[o].socket
                            /\ ops'[o].num = ops[o].num /\ ops'[o].reply = ops[o].reply
           /\ \A o \in Op : ops'[o].phase = IF o \in Ending(ended, rejected) THEN "failed"
                                            ELSE IF o \in rejected THEN "expired" ELSE ops[o].phase
           /\ holder' \in [Demux -> Op \cup {NoOp}]
           /\ \A d \in Demux : holder'[d] \in {holder[d], NoOp} \ Ending(ended, rejected)
           /\ pending' \in [Demux -> SUBSET Packet]
           /\ \A d \in Demux : pending'[d] = {w \in pending[d] : w.op \notin ended \cup rejected}
<1> DEFINE failures == Ending(ended, rejected)
<1>1. failures \subseteq Op
  BY DEF Ending
<1>2. /\ ops' = [o \in Op |-> IF o \in failures THEN [ops[o] EXCEPT !.phase = "failed"]
                              ELSE IF o \in rejected THEN [ops[o] EXCEPT !.phase = "expired"]
                              ELSE ops[o]]
      /\ holder' = [d \in Demux |-> IF holder[d] \in failures THEN NoOp ELSE holder[d]]
      /\ pending' = [d \in Demux |-> {w \in pending[d] : w.op \notin ended \cup rejected}]
  BY DEF Fail
<1> HIDE DEF failures
<1>3. ASSUME NEW o \in Op
      PROVE  /\ ops'[o] \in Progress
             /\ ops'[o].demux = ops[o].demux /\ ops'[o].socket = ops[o].socket
             /\ ops'[o].num = ops[o].num /\ ops'[o].reply = ops[o].reply
             /\ ops'[o].phase = IF o \in failures THEN "failed"
                                ELSE IF o \in rejected THEN "expired" ELSE ops[o].phase
  <2>1. ops[o] \in Progress
    BY DEF IInv, Typed
  <2>2. CASE o \in failures
    <3>1. ops'[o] = [ops[o] EXCEPT !.phase = "failed"]
      BY <1>2, <2>2
    <3> QED BY <2>1, <2>2, <3>1 DEF Progress, Phases
  <2>3. CASE o \notin failures /\ o \in rejected
    <3>1. ops'[o] = [ops[o] EXCEPT !.phase = "expired"]
      BY <1>2, <2>3
    <3> QED BY <2>1, <2>3, <3>1 DEF Progress, Phases
  <2>4. CASE o \notin failures /\ o \notin rejected
    BY <1>2, <2>1, <2>4
  <2> QED BY <2>2, <2>3, <2>4
<1>4. ops' \in [Op -> Progress]
  BY <1>2, <1>3
<1>5. /\ holder' \in [Demux -> Op \cup {NoOp}]
      /\ \A d \in Demux : holder'[d] \in {holder[d], NoOp} \ failures
  BY <1>1, <1>2, PlaceholdersAssumption DEF IInv, Typed
<1>6. /\ pending' \in [Demux -> SUBSET Packet]
      /\ \A d \in Demux : pending'[d] = {w \in pending[d] : w.op \notin ended \cup rejected}
  BY <1>2 DEF IInv, Typed
<1> QED BY <1>3, <1>4, <1>5, <1>6 DEF failures

\* The waiters, the lock and the replies agree with the operations after a failure.
LEMMA FailKeeps ==
    ASSUME IInv, NEW ended \in SUBSET Op, NEW rejected \in SUBSET Op, Fail(ended, rejected),
           \A o \in ended : InFlight(o),
           \A o \in rejected : ops[o].phase \in {"sending", "waiting"}
    PROVE  /\ OpsExact' /\ WaitersExact' /\ LockHeldByLiveOp' /\ RepliesMatch'
           /\ \A o \in Op : InFlight(o)' => InFlight(o)
           /\ \A o \in Op : Sending(o)' \/ ops'[o].phase = "waiting" => ops[o].phase \in {"sending", "expired", "waiting"}
           /\ \A o \in Op : ops'[o].phase \in {"sending", "waiting"} =>
                                ops'[o].phase = ops[o].phase /\ o \notin ended \cup rejected
           /\ \A o \in Op : ops'[o].phase = "idle" <=> ops[o].phase = "idle"
           /\ \A o \in Op : ops'[o].phase \in {ops[o].phase, "expired", "failed"}
           /\ \A o \in Op : ops[o].phase = "queued" /\ o \notin ended => ops'[o].phase = "queued"
           /\ \A d \in Demux : PastDial(d) \subseteq PastDial(d)'
<1> DEFINE failures == Ending(ended, rejected)
<1>1. /\ failures \subseteq Op /\ ended \subseteq failures
      /\ \A o \in rejected : ops[o].phase = "waiting" => o \in failures
      /\ \A o \in failures : o \notin ended => o \in rejected /\ ops[o].phase = "waiting"
  BY DEF Ending
<1>2. /\ ops' \in [Op -> Progress]
      /\ \A o \in Op : /\ ops'[o].demux = ops[o].demux /\ ops'[o].socket = ops[o].socket
                       /\ ops'[o].num = ops[o].num /\ ops'[o].reply = ops[o].reply
      /\ \A o \in Op : ops'[o].phase = IF o \in failures THEN "failed"
                                       ELSE IF o \in rejected THEN "expired" ELSE ops[o].phase
      /\ \A d \in Demux : holder'[d] \in {holder[d], NoOp} \ failures
      /\ \A d \in Demux : pending'[d] = {w \in pending[d] : w.op \notin ended \cup rejected}
  BY FailOps
<1> HIDE DEF failures
<1>3. OpsExact'
  BY <1>1, <1>2 DEF IInv, OpsExact, Begun, InFlight
<1>4. \A o \in Op : InFlight(o)' => InFlight(o)
  BY <1>1, <1>2 DEF InFlight
<1>5. \A o \in Op : Sending(o)' \/ ops'[o].phase = "waiting" => ops[o].phase \in {"sending", "expired", "waiting"}
  BY <1>1, <1>2 DEF Sending
<1>6. \A o \in Op : ops'[o].phase \in {"sending", "waiting"} =>
                        ops'[o].phase = ops[o].phase /\ o \notin ended \cup rejected
  BY <1>1, <1>2
<1>7. \A o \in Op : ops'[o].phase = "idle" <=> ops[o].phase = "idle"
  BY <1>1, <1>2 DEF InFlight
<1>8. \A o \in Op : ops[o].phase = "queued" /\ o \notin ended => ops'[o].phase = "queued"
  BY <1>1, <1>2
<1>9. \A d \in Demux : PastDial(d) \subseteq PastDial(d)'
  BY <1>1, <1>2 DEF PastDial
<1>13. \A o \in Op : ops'[o].phase \in {ops[o].phase, "expired", "failed"}
  BY <1>2
<1>10. WaitersExact'
  <2> SUFFICES ASSUME NEW d \in Demux
               PROVE  /\ \A w \in pending'[d] : ops'[w.op].num = w.num
                      /\ PendingOps(d)' = {o \in Op : ops'[o].demux = d /\ ops'[o].phase \in {"sending", "waiting"}}
    BY DEF WaitersExact
  <2>1. \A w \in pending[d] : w.op \in Op
    BY DEF IInv, Typed, Packet
  <2>2. /\ \A w \in pending[d] : ops[w.op].num = w.num
        /\ PendingOps(d) = {o \in Op : ops[o].demux = d /\ ops[o].phase \in {"sending", "waiting"}}
    BY DEF IInv, WaitersExact
  <2>3. \A w \in pending'[d] : ops'[w.op].num = w.num
    BY <1>2, <2>1, <2>2
  <2>4. PendingOps(d)' = PendingOps(d) \ (ended \cup rejected)
    BY <1>2 DEF PendingOps
  <2>5. \A o \in Op : ops[o].phase \in {"sending", "waiting"} /\ o \notin ended \cup rejected
                          <=> ops'[o].phase \in {"sending", "waiting"}
    BY <1>1, <1>2
  <2> QED BY <1>2, <2>2, <2>3, <2>4, <2>5
<1>11. LockHeldByLiveOp'
  <2> SUFFICES ASSUME NEW d \in Demux, holder'[d] # NoOp
               PROVE  ops'[holder'[d]].phase \in {"sending", "expired", "waiting"} /\ ops'[holder'[d]].demux = d
    BY DEF LockHeldByLiveOp
  <2>1. holder'[d] = holder[d] /\ holder[d] \in Op /\ holder[d] \notin failures
    BY <1>2 DEF IInv, Typed
  <2>2. ops[holder[d]].phase \in {"sending", "expired", "waiting"} /\ ops[holder[d]].demux = d
    BY <2>1 DEF IInv, LockHeldByLiveOp
  <2> QED BY <1>2, <2>1, <2>2
<1>12. RepliesMatch'
  BY <1>1, <1>2 DEF IInv, RepliesMatch
<1> QED BY <1>3, <1>4, <1>5, <1>6, <1>7, <1>8, <1>9, <1>10, <1>11, <1>12, <1>13

\* Who reads a socket that some operation is on, and whom it rejects.
LEMMA ReaderIs ==
    ASSUME IInv, NEW s \in Socket
    PROVE  /\ readerOf[s] # 0 => readerOf[s] \in Demux
           /\ CurrentReader(s) => readerOf[s] = demux
           /\ \A o \in Op : ops[o].socket = s /\ readerOf[s] # 0 => ops[o].demux = readerOf[s]
<1>1. readerOf[s] # 0 => readerOf[s] \in Demux
  BY DEF IInv, Typed
<1>2. ASSUME CurrentReader(s)  PROVE readerOf[s] = demux
  <2>1. readerOf[s] \in Demux /\ ~stopped[readerOf[s]] /\ readerOf[s] <= demux
    BY <1>1, <1>2 DEF CurrentReader, IInv, SocketsExact
  <2>2. ~(readerOf[s] < demux)
    BY <2>1 DEF IInv, GenerationsExact
  <2>3. readerOf[s] \in Nat /\ demux \in Nat
    BY <2>1, DemuxIs DEF IInv, Typed
  <2> QED BY <2>1, <2>2, <2>3
<1>3. \A o \in Op : ops[o].socket = s /\ readerOf[s] # 0 => ops[o].demux = readerOf[s]
  BY PlaceholdersAssumption DEF IInv, SocketsExact
<1> QED BY <1>1, <1>2, <1>3

\* Destroying a socket rejects operations that wait for a response, and all of those on it when
\* its reader is the current one.
LEMMA RejectedIs ==
    ASSUME IInv, NEW S \in SUBSET Socket
    PROVE  /\ RejectedBy(S) \in SUBSET Op /\ SendsOn(S) \in SUBSET Op
           /\ \A o \in RejectedBy(S) : ops[o].phase \in {"sending", "waiting"}
           /\ \A o \in SendsOn(S) : InFlight(o)
           /\ \A o \in Op : ops[o].phase \in {"sending", "waiting"} /\ ops[o].socket \in S
                                /\ CurrentReader(ops[o].socket) => o \in RejectedBy(S)
<1>1. SendsOn(S) \in SUBSET Op /\ \A o \in SendsOn(S) : InFlight(o)
  BY DEF SendsOn, InFlight
<1>2. \A d \in Demux : PendingOps(d) = {o \in Op : ops[o].demux = d /\ ops[o].phase \in {"sending", "waiting"}}
  BY DEF IInv, WaitersExact
<1>3. \A o \in RejectedBy(S) : o \in Op /\ ops[o].phase \in {"sending", "waiting"}
  <2> SUFFICES ASSUME NEW s \in S, CurrentReader(s), NEW o \in PendingOps(readerOf[s])
               PROVE  o \in Op /\ ops[o].phase \in {"sending", "waiting"}
    BY DEF RejectedBy
  <2>1. readerOf[s] \in Demux
    BY ReaderIs DEF CurrentReader
  <2> QED BY <1>2, <2>1
<1>4. ASSUME NEW o \in Op, ops[o].phase \in {"sending", "waiting"}, ops[o].socket \in S,
             CurrentReader(ops[o].socket)
      PROVE  o \in RejectedBy(S)
  <2>1. readerOf[ops[o].socket] \in Demux /\ ops[o].demux = readerOf[ops[o].socket]
    BY <1>4, ReaderIs DEF CurrentReader
  <2>2. o \in PendingOps(readerOf[ops[o].socket])
    BY <1>2, <1>4, <2>1
  <2> QED BY <1>4, <2>2 DEF RejectedBy
<1> QED BY <1>1, <1>3, <1>4

\* Whoever destroys sockets and rejects what their readers reject leaves no waiter on them.
LEMMA KilledRejects ==
    ASSUME IInv, NEW ended \in SUBSET Op, NEW rejected \in SUBSET Op, Fail(ended, rejected),
           \A o \in ended : InFlight(o),
           \A o \in rejected : ops[o].phase \in {"sending", "waiting"},
           UNCHANGED <<readerOf, stopped, readSocket>>,
           NEW K \in SUBSET Socket, RejectedBy(K) \subseteq rejected,
           \A s \in Socket : sockets[s] = "open" => sockets'[s] = "open" \/ s \in K
    PROVE  RejectedAtOnce'
<1> SUFFICES ASSUME NEW o \in Op, ops'[o].phase \in {"sending", "waiting"},
                    CurrentReader(ops[o].socket)', ops'[o].socket = ops[o].socket
             PROVE  sockets'[ops[o].socket] = "open"
  <2>1. \A o \in Op : ops'[o].socket = ops[o].socket
    BY FailOps
  <2> QED BY <2>1 DEF RejectedAtOnce, CurrentReader
<1>1. ops[o].phase = ops'[o].phase /\ o \notin rejected
  BY FailKeeps
<1>2. ops[o].socket \in Socket
  BY <1>1 DEF IInv, OpsExact, Begun
<1>3. CurrentReader(ops[o].socket)
  BY <1>2 DEF CurrentReader
<1>4. sockets[ops[o].socket] = "open"
  BY <1>1, <1>3 DEF IInv, RejectedAtOnce
<1>5. ops[o].socket \notin K
  BY <1>1, <1>3, RejectedIs
<1> QED BY <1>2, <1>4, <1>5

\* Those in E throw and those in R are rejected when the connection dies of those in ended.
DeadBy(ended, E, R) ==
    /\ Fail(E, R)
    /\ ended \subseteq E
    /\ \A o \in E : o \in ended \/ Sending(o)
    /\ \A o \in R : ops[o].phase \in {"sending", "waiting"}

\* Marking the connection dead: the service lets go of its socket, the error is that of the
\* current generation or of one that was cut off, and some operations fail.
LEMMA MarkedDead ==
    ASSUME IInv, NEW d \in Demux, d = demux \/ d \in hurried,
           NEW ended \in SUBSET Op, \A o \in ended : InFlight(o),
           NEW broken \in SUBSET Socket, \A s \in broken : sockets[s] # "unused",
           FailAndMarkDead(d, ended, broken),
           UNCHANGED <<readerOf, demux, stopped, readSocket, hurried>>
    PROVE  /\ sockets' \in [Socket -> {"unused", "open", "destroyed"}]
           /\ dead' \in {0} \cup Demux
           /\ socket' \in {socket, NoSocket}
           /\ \A s \in Socket : sockets'[s] = "unused" <=> sockets[s] = "unused"
           /\ RejectedAtOnce' /\ IdleReconnectRecovers'
           /\ \E E \in SUBSET Op, R \in SUBSET Op : DeadBy(ended, E, R)
<1> DEFINE killed == broken \cup (IF dead # 0 \/ socket = NoSocket THEN {} ELSE {socket})
<1>1. /\ dead' = IF dead # 0 THEN dead ELSE d
      /\ socket' = IF dead # 0 THEN socket ELSE NoSocket
      /\ sockets' = [s \in Socket |-> IF s \in killed THEN "destroyed" ELSE sockets[s]]
      /\ Fail(ended \cup SendsOn(killed), RejectedBy(killed))
  BY DEF FailAndMarkDead
<1>2. killed \in SUBSET Socket /\ \A s \in killed : sockets[s] # "unused"
  BY DEF IInv, Typed, SocketsExact
<1> HIDE DEF killed
<1>3. sockets' \in [Socket -> {"unused", "open", "destroyed"}]
  BY <1>1 DEF IInv, Typed
<1>4. dead' \in {0} \cup Demux /\ socket' \in {socket, NoSocket}
  BY <1>1 DEF IInv, Typed
<1>5. \A s \in Socket : sockets'[s] = "unused" <=> sockets[s] = "unused"
  BY <1>1, <1>2
<1>6. IdleReconnectRecovers'
  BY <1>1 DEF IInv, IdleReconnectRecovers
<1>7. /\ RejectedBy(killed) \in SUBSET Op /\ SendsOn(killed) \in SUBSET Op
      /\ \A o \in RejectedBy(killed) : ops[o].phase \in {"sending", "waiting"}
      /\ \A o \in SendsOn(killed) : InFlight(o)
  BY <1>2, RejectedIs
<1>8. ended \cup SendsOn(killed) \in SUBSET Op /\ \A o \in ended \cup SendsOn(killed) : InFlight(o)
  BY <1>7
<1>9. \A s \in Socket : sockets[s] = "open" => sockets'[s] = "open" \/ s \in killed
  BY <1>1
<1>10. RejectedAtOnce'
  BY <1>1, <1>2, <1>7, <1>8, <1>9, KilledRejects
<1>11. \A o \in ended \cup SendsOn(killed) : o \in ended \/ Sending(o)
  BY DEF SendsOn, Sending
<1>12. DeadBy(ended, ended \cup SendsOn(killed), RejectedBy(killed))
  BY <1>1, <1>7, <1>11 DEF DeadBy
<1> QED BY <1>3, <1>4, <1>5, <1>6, <1>7, <1>8, <1>10, <1>12

\* A step that makes operations fail and may write to the wire, give out a number or shorten a
\* queue.
LEMMA FailStep ==
    ASSUME IInv, NEW ended \in SUBSET Op, NEW rejected \in SUBSET Op, Fail(ended, rejected),
           \A o \in ended : InFlight(o),
           \A o \in rejected : ops[o].phase \in {"sending", "waiting"},
           UNCHANGED <<hurried, readerOf, demux, stopped, readSocket, user>>,
           sockets' \in [Socket -> {"unused", "open", "destroyed"}],
           dead' \in {0} \cup Demux, socket' \in {socket, NoSocket},
           \A s \in Socket : sockets'[s] = "unused" <=> sockets[s] = "unused",
           RejectedAtOnce', IdleReconnectRecovers',
           wire' \in [Socket -> Seq(Packet)], WireExact',
           \A s \in Socket : sockets[s] = "unused" => wire'[s] = wire[s],
           \A o \in Op : Written(o)' => Numbered(o),
           packetNum' \in [Demux -> Nat], queue' \in [Demux -> Seq(Op)], QueueExact',
           \A d \in Demux : packetNum[d] <= packetNum'[d],
           \A d \in Demux : packetNum'[d] + Len(queue'[d]) <= packetNum[d] + Len(queue[d])
    PROVE  IInv'
<1>1. /\ ops' \in [Op -> Progress] /\ holder' \in [Demux -> Op \cup {NoOp}]
      /\ pending' \in [Demux -> SUBSET Packet]
      /\ \A o \in Op : ops'[o].demux = ops[o].demux /\ ops'[o].socket = ops[o].socket /\ ops'[o].num = ops[o].num
  BY FailOps
<1>2. OpsExact' /\ WaitersExact' /\ LockHeldByLiveOp' /\ RepliesMatch'
  BY FailKeeps
<1>3. /\ \A o \in Op : InFlight(o)' => InFlight(o)
      /\ \A o \in Op : Sending(o)' \/ ops'[o].phase = "waiting" => ops[o].phase \in {"sending", "expired", "waiting"}
      /\ \A o \in Op : ops'[o].phase = "idle" <=> ops[o].phase = "idle"
      /\ \A d \in Demux : PastDial(d) \subseteq PastDial(d)'
  BY FailKeeps
<1>4. Typed'
  BY <1>1 DEF IInv, Typed
<1>5. SocketsExact'
  <2>1. socket' # NoSocket => readerOf'[socket'] = demux' /\ sockets'[socket'] # "unused"
    BY DEF IInv, Typed, SocketsExact
  <2>2. \A o \in Op : ops'[o].socket # NoSocket =>
           sockets'[ops'[o].socket] # "unused" /\ readerOf'[ops'[o].socket] \in {0, ops'[o].demux}
    BY <1>1 DEF IInv, Typed, Progress, SocketsExact
  <2>3. \A s \in Socket : /\ sockets'[s] = "unused" => readerOf'[s] = 0 /\ wire'[s] = <<>>
                          /\ readerOf'[s] <= demux'
    BY DEF IInv, SocketsExact
  <2> QED BY <2>1, <2>2, <2>3 DEF SocketsExact
<1>6. GenerationsExact'
  BY <1>1, <1>3, GenerationsStay
<1>7. NumbersExact'
  <2>1. \A o \in Op : Numbered(o)' => Numbered(o)
    BY <1>3 DEF Numbered, Sending
  <2> QED BY <1>1, <2>1, NumbersStay
<1>8. Counted'
  BY <1>3, CountedStays
<1> QED BY <1>2, <1>4, <1>5, <1>6, <1>7, <1>8 DEF IInv

\* A step that only makes operations fail, none of them queued.
LEMMA OnlyFailStep ==
    ASSUME IInv, NEW ended \in SUBSET Op, NEW rejected \in SUBSET Op, Fail(ended, rejected),
           \A o \in ended : ops[o].phase \in {"sending", "expired", "waiting"},
           \A o \in rejected : ops[o].phase \in {"sending", "waiting"},
           UNCHANGED <<hurried, readerOf, wire, demux, stopped, readSocket, packetNum, queue, user>>,
           sockets' \in [Socket -> {"unused", "open", "destroyed"}],
           dead' \in {0} \cup Demux, socket' \in {socket, NoSocket},
           \A s \in Socket : sockets'[s] = "unused" <=> sockets[s] = "unused",
           RejectedAtOnce', IdleReconnectRecovers'
    PROVE  IInv'
<1>1. \A o \in ended : InFlight(o)
  BY DEF InFlight
<1>2. /\ \A o \in Op : ops'[o].demux = ops[o].demux /\ ops'[o].socket = ops[o].socket /\ ops'[o].num = ops[o].num
      /\ \A o \in Op : ops[o].phase = "queued" /\ o \notin ended => ops'[o].phase = "queued"
      /\ \A o \in Op : ops'[o].phase \in {ops[o].phase, "expired", "failed"}
  BY <1>1, FailOps, FailKeeps
<1>3. QueueExact'
  <2>1. \A o \in Op : ops[o].phase = "queued" => ops'[o].phase = "queued" /\ ops'[o].demux = ops[o].demux
    BY <1>2
  <2> QED BY <2>1, QueueStays
<1>4. WireExact'
  <2>1. \A o \in Op : ops[o].phase \notin {"idle", "dialing", "queued"} =>
            ops'[o].phase \notin {"idle", "dialing", "queued"}
    BY <1>2
  <2> QED BY <1>2, <2>1, WireStays
<1>5. \A o \in Op : Written(o)' => Numbered(o)
  BY DEF Written, Numbered
<1>6. \A d \in Demux : packetNum[d] <= packetNum'[d] /\ packetNum'[d] + Len(queue'[d]) <= packetNum[d] + Len(queue[d])
  BY LenProperties DEF IInv, Typed
<1>7. /\ wire' \in [Socket -> Seq(Packet)] /\ packetNum' \in [Demux -> Nat] /\ queue' \in [Demux -> Seq(Op)]
      /\ \A s \in Socket : sockets[s] = "unused" => wire'[s] = wire[s]
  BY DEF IInv, Typed
<1> QED BY <1>1, <1>3, <1>4, <1>5, <1>6, <1>7, FailStep

LEMMA OpTimeoutKeeps == ASSUME IInv, NEW o \in Op, OpTimeout(o)  PROVE IInv'
<1>1. UNCHANGED <<hurried, readerOf, wire, demux, stopped, readSocket, packetNum, queue, user>>
  BY DEF OpTimeout
<1>2. CASE ops[o].phase = "waiting" /\ FailAndMarkDead(ops[o].demux, {o}, {})
  <2>1. ops[o].demux \in Demux /\ InFlight(o) /\ (ops[o].demux = demux \/ ops[o].demux \in hurried)
    BY <1>2 DEF IInv, OpsExact, GenerationsExact, InFlight
  <2>2. {o} \in SUBSET Op /\ \A p \in {o} : InFlight(p)
    BY <2>1
  <2>3. {} \in SUBSET Socket /\ \A s \in {} : sockets[s] # "unused"
    OBVIOUS
  <2>4. /\ sockets' \in [Socket -> {"unused", "open", "destroyed"}]
        /\ dead' \in {0} \cup Demux /\ socket' \in {socket, NoSocket}
        /\ \A s \in Socket : sockets'[s] = "unused" <=> sockets[s] = "unused"
        /\ RejectedAtOnce' /\ IdleReconnectRecovers'
    BY <1>1, <1>2, <2>1, <2>2, <2>3, MarkedDead
  <2>5. PICK E \in SUBSET Op, R \in SUBSET Op : DeadBy({o}, E, R)
    BY <1>1, <1>2, <2>1, <2>2, <2>3, MarkedDead
  <2>6. \A p \in E : ops[p].phase \in {"sending", "expired", "waiting"}
    BY <1>2, <2>5 DEF DeadBy, Sending
  <2> QED BY <1>1, <2>4, <2>5, <2>6, OnlyFailStep DEF DeadBy
<1>3. CASE ops[o].phase = "sending" /\ Fail({}, {o}) /\ UNCHANGED <<sockets, socket, dead>>
  <2>1. {o} \in SUBSET Op /\ {} \in SUBSET Op /\ {} \in SUBSET Socket
    OBVIOUS
  <2>2. \A p \in {o} : ops[p].phase \in {"sending", "waiting"}
    BY <1>3
  <2>3. RejectedBy({}) \subseteq {o} /\ \A s \in Socket : sockets[s] = "open" => sockets'[s] = "open" \/ s \in {}
    BY <1>3 DEF RejectedBy
  <2>4. RejectedAtOnce'
    BY <1>1, <1>3, <2>1, <2>2, <2>3, KilledRejects
  <2>5. IdleReconnectRecovers'
    BY <1>1, <1>3 DEF IInv, IdleReconnectRecovers
  <2>6. /\ sockets' \in [Socket -> {"unused", "open", "destroyed"}]
        /\ dead' \in {0} \cup Demux /\ socket' \in {socket, NoSocket}
        /\ \A s \in Socket : sockets'[s] = "unused" <=> sockets[s] = "unused"
    BY <1>3 DEF IInv, Typed
  <2> QED BY <1>1, <1>3, <2>1, <2>2, <2>4, <2>5, <2>6, OnlyFailStep
<1> QED BY <1>2, <1>3 DEF OpTimeout

LEMMA ReaderFailsKeeps == ASSUME IInv, NEW s \in Socket, ReaderFails(s)  PROVE IInv'
<1>1. /\ UNCHANGED <<hurried, readerOf, wire, demux, stopped, readSocket, packetNum, queue, user>>
      /\ sockets[s] = "open" /\ readerOf[s] # 0 /\ readerOf[s] \in Demux
  BY ReaderIs DEF ReaderFails
<1>2. CASE (CurrentReader(s) \/ SendsOn({s}) # {}) /\ FailAndMarkDead(readerOf[s], {}, {s})
  <2>1. readerOf[s] = demux \/ readerOf[s] \in hurried
    <3>1. CASE CurrentReader(s)
      BY <3>1, ReaderIs
    <3>2. CASE SendsOn({s}) # {}
      <4>1. PICK o \in Op : ops[o].socket = s /\ InFlight(o)
        BY <3>2 DEF SendsOn, InFlight
      <4> QED BY <1>1, <4>1, ReaderIs DEF IInv, GenerationsExact
    <3> QED BY <1>2, <3>1, <3>2
  <2>2. {} \in SUBSET Op /\ \A p \in {} : InFlight(p)
    OBVIOUS
  <2>3. {s} \in SUBSET Socket /\ \A t \in {s} : sockets[t] # "unused"
    BY <1>1
  <2>4. /\ sockets' \in [Socket -> {"unused", "open", "destroyed"}]
        /\ dead' \in {0} \cup Demux /\ socket' \in {socket, NoSocket}
        /\ \A t \in Socket : sockets'[t] = "unused" <=> sockets[t] = "unused"
        /\ RejectedAtOnce' /\ IdleReconnectRecovers'
    BY <1>1, <1>2, <2>1, <2>2, <2>3, MarkedDead
  <2>5. PICK E \in SUBSET Op, R \in SUBSET Op : DeadBy({}, E, R)
    BY <1>1, <1>2, <2>1, <2>2, <2>3, MarkedDead
  <2>6. \A p \in E : ops[p].phase \in {"sending", "expired", "waiting"}
    BY <2>5 DEF DeadBy, Sending
  <2> QED BY <1>1, <2>4, <2>5, <2>6, OnlyFailStep DEF DeadBy
<1>3. CASE ~CurrentReader(s) /\ sockets' = [sockets EXCEPT ![s] = "destroyed"]
           /\ Fail(SendsOn({s}), {}) /\ UNCHANGED <<dead, socket>>
  <2>1. SendsOn({s}) \in SUBSET Op /\ {} \in SUBSET Op /\ {s} \in SUBSET Socket
    BY DEF SendsOn
  <2>2. \A p \in SendsOn({s}) : ops[p].phase \in {"sending", "expired", "waiting"} /\ InFlight(p)
    BY DEF SendsOn, InFlight
  <2>3. RejectedBy({s}) \subseteq {}
    BY <1>3 DEF RejectedBy
  <2>4. /\ sockets' \in [Socket -> {"unused", "open", "destroyed"}]
        /\ \A t \in Socket : sockets'[t] = "unused" <=> sockets[t] = "unused"
        /\ \A t \in Socket : sockets[t] = "open" => sockets'[t] = "open" \/ t \in {s}
    BY <1>1, <1>3 DEF IInv, Typed
  <2>5. RejectedAtOnce'
    BY <1>1, <1>3, <2>1, <2>2, <2>3, <2>4, KilledRejects
  <2>6. IdleReconnectRecovers'
    BY <1>1, <1>3 DEF IInv, IdleReconnectRecovers
  <2>7. dead' \in {0} \cup Demux /\ socket' \in {socket, NoSocket}
    BY <1>3 DEF IInv, Typed
  <2> QED BY <1>1, <1>3, <2>1, <2>2, <2>4, <2>5, <2>6, <2>7, OnlyFailStep
<1> QED BY <1>2, <1>3 DEF ReaderFails

-----------------------------------------------------------------------------
(* The send lock.                                                              *)

\* The request of an operation in the send lock goes onto its socket.
LEMMA WriteIs ==
    ASSUME IInv, NEW o \in Op, Sending(o), sockets[ops[o].socket] = "open",
           wire' = [wire EXCEPT ![ops[o].socket] = Append(@, [num |-> ops[o].num, op |-> o])],
           \A p \in Op : ops[p].phase \notin {"idle", "dialing", "queued"} =>
               /\ ops'[p].socket = ops[p].socket /\ ops'[p].num = ops[p].num
               /\ ops'[p].phase \notin {"idle", "dialing", "queued"}
    PROVE  /\ wire' \in [Socket -> Seq(Packet)] /\ WireExact'
           /\ \A s \in Socket : sockets[s] = "unused" => wire'[s] = wire[s]
           /\ \A p \in Op : Written(p)' => Numbered(p)
<1> DEFINE s == ops[o].socket
           r == [num |-> ops[o].num, op |-> o]
<1>1. s \in Socket /\ r \in Packet
  BY DEF IInv, Typed, Progress, OpsExact, Begun, Sending, Packet
<1>2. wire' = [wire EXCEPT ![s] = Append(wire[s], r)] /\ wire \in [Socket -> Seq(Packet)]
  BY DEF IInv, Typed
<1>3. sockets[s] = "open" /\ r.op = o /\ r.num = ops[o].num
  OBVIOUS
<1>4. ops[o].phase \notin {"idle", "dialing", "queued"}
  BY DEF Sending
<1>5. ops[o].socket = s
  OBVIOUS
<1> HIDE DEF s, r
<1>6. wire' \in [Socket -> Seq(Packet)]
  BY <1>1, <1>2
<1>7. \A t \in Socket : sockets[t] = "unused" => wire'[t] = wire[t]
  BY <1>1, <1>2, <1>3
<1>8. ASSUME NEW t \in Socket, NEW i \in 1..Len(wire'[t])
      PROVE  \/ i \in 1..Len(wire[t]) /\ wire'[t][i] = wire[t][i] /\ wire[t][i] \in Packet
             \/ t = s /\ wire'[t][i] = r
  <2>1. CASE t = s
    <3>1. wire'[t] = Append(wire[s], r) /\ wire[s] \in Seq(Packet)
      BY <1>1, <1>2, <2>1
    <3> QED BY <1>1, <1>8, <2>1, <3>1
  <2>2. CASE t # s
    <3>1. wire'[t] = wire[t] /\ wire[t] \in Seq(Packet)
      BY <1>1, <1>2, <2>2
    <3> QED BY <1>8, <3>1, ElementOfSeq
  <2> QED BY <2>1, <2>2
<1>9. WireExact'
  <2> SUFFICES ASSUME NEW t \in Socket, NEW i \in 1..Len(wire'[t])
               PROVE  /\ ops'[wire'[t][i].op].socket = t /\ ops'[wire'[t][i].op].num = wire'[t][i].num
                      /\ ops'[wire'[t][i].op].phase \notin {"idle", "dialing", "queued"}
    BY DEF WireExact
  <2>1. CASE i \in 1..Len(wire[t]) /\ wire'[t][i] = wire[t][i] /\ wire[t][i] \in Packet
    <3>1. /\ ops[wire[t][i].op].socket = t /\ ops[wire[t][i].op].num = wire[t][i].num
          /\ ops[wire[t][i].op].phase \notin {"idle", "dialing", "queued"}
      BY <2>1 DEF IInv, WireExact
    <3>2. wire[t][i].op \in Op
      BY <2>1 DEF Packet
    <3> QED BY <2>1, <3>1, <3>2
  <2>2. CASE t = s /\ wire'[t][i] = r
    BY <1>3, <1>4, <1>5, <2>2
  <2> QED BY <1>8, <2>1, <2>2
<1>10. ASSUME NEW p \in Op, Written(p)'  PROVE Numbered(p)
  <2>1. PICK t \in Socket : \E i \in 1..Len(wire'[t]) : wire'[t][i].op = p
    BY <1>10 DEF Written
  <2>2. PICK i \in 1..Len(wire'[t]) : wire'[t][i].op = p
    BY <2>1
  <2>3. CASE i \in 1..Len(wire[t]) /\ wire'[t][i] = wire[t][i]
    BY <2>2, <2>3 DEF Numbered, Written
  <2>4. CASE wire'[t][i] = r
    BY <1>3, <2>2, <2>4 DEF Numbered, Sending
  <2> QED BY <1>8, <2>3, <2>4
<1> QED BY <1>6, <1>7, <1>9, <1>10

LEMMA SendDoneKeeps == ASSUME IInv, NEW o \in Op, SendDone(o)  PROVE IInv'
<1>1. /\ UNCHANGED <<hurried, readerOf, demux, stopped, readSocket, packetNum, queue, user>>
      /\ Sending(o) /\ sockets[ops[o].socket] = "open"
      /\ wire' = [wire EXCEPT ![ops[o].socket] = Append(@, [num |-> ops[o].num, op |-> o])]
  BY DEF SendDone, Sending
<1>2. CASE ops[o].phase = "sending" /\ ops' = [ops EXCEPT ![o].phase = "waiting"]
           /\ holder' = LockWhileWaiting(o) /\ UNCHANGED <<sockets, socket, dead, pending>>
  <2>1. /\ \A p \in Op : p # o => ops'[p] = ops[p]
        /\ ops'[o] = [ops[o] EXCEPT !.phase = "waiting"] /\ ops[o] \in Progress
        /\ holder' = holder
    BY <1>2 DEF IInv, Typed, LockWhileWaiting
  <2>2. /\ ops'[o] \in Progress /\ ops'[o].phase = "waiting" /\ ops'[o].demux = ops[o].demux
        /\ ops'[o].socket = ops[o].socket /\ ops'[o].num = ops[o].num /\ ops'[o].reply = ops[o].reply
    BY <2>1 DEF Progress, Phases
  <2>3. ops' \in [Op -> Progress]
    BY <1>2, <2>1, <2>2 DEF IInv, Typed
  <2>4. \A p \in Op : /\ ops'[p].demux = ops[p].demux /\ ops'[p].socket = ops[p].socket
                      /\ ops'[p].num = ops[p].num /\ ops'[p].reply = ops[p].reply
    BY <2>1, <2>2
  <2>5. /\ wire' \in [Socket -> Seq(Packet)] /\ WireExact'
        /\ \A s \in Socket : sockets[s] = "unused" => wire'[s] = wire[s]
        /\ \A p \in Op : Written(p)' => Numbered(p)
    BY <1>1, <1>2, <2>1, <2>2, WriteIs
  <2>6. Typed'
    BY <1>1, <1>2, <2>1, <2>3, <2>5 DEF IInv, Typed
  <2>7. OpsExact' /\ RepliesMatch' /\ LockHeldByLiveOp'
    <3>1. OpsExact' /\ RepliesMatch'
      BY <1>2, <2>1, <2>2 DEF IInv, OpsExact, RepliesMatch, Begun
    <3>2. \A d \in Demux : holder[d] \in Op \cup {NoOp}
      BY DEF IInv, Typed
    <3>3. LockHeldByLiveOp'
      BY <1>2, <2>1, <2>2, <3>2 DEF IInv, LockHeldByLiveOp
    <3> QED BY <3>1, <3>3
  <2>8. SocketsExact'
    BY <1>1, <1>2, <2>4, <2>5 DEF IInv, Typed, SocketsExact
  <2>9. GenerationsExact'
    BY <1>1, <1>2, <2>1, <2>2, GenerationsStay DEF InFlight
  <2>10. QueueExact'
    BY <1>1, <1>2, <2>1, <2>2, QueueStays
  <2>11. NumbersExact'
    <3>1. \A p \in Op : Numbered(p)' => Numbered(p)
      BY <1>2, <2>1, <2>5 DEF Numbered
    <3>2. \A d \in Demux : packetNum[d] <= packetNum'[d]
      BY <1>1 DEF IInv, Typed
    <3>3. packetNum' \in [Demux -> Nat]
      BY <2>6 DEF Typed
    <3> QED BY <2>4, <3>1, <3>2, <3>3, NumbersStay
  <2>12. WaitersExact'
    <3>1. \A p \in Op : ops'[p].phase \in {"sending", "waiting"} <=> ops[p].phase \in {"sending", "waiting"}
      BY <1>2, <2>1, <2>2
    <3>2. \A d \in Demux : \A w \in pending[d] : w.op \in Op
      BY DEF IInv, Typed, Packet
    <3> QED BY <1>2, <2>4, <3>1, <3>2 DEF IInv, WaitersExact, PendingOps
  <2>13. Counted'
    <3>1. \A d \in Demux : packetNum'[d] + Len(queue'[d]) <= packetNum[d] + Len(queue[d])
      BY <1>1, LenProperties DEF IInv, Typed
    <3>2. \A d \in Demux : PastDial(d) \subseteq PastDial(d)'
      BY <2>1, <2>2 DEF PastDial
    <3>3. packetNum' \in [Demux -> Nat] /\ queue' \in [Demux -> Seq(Op)]
      BY <2>6 DEF Typed
    <3> QED BY <3>1, <3>2, <3>3, CountedStays
  <2>14. RejectedAtOnce' /\ IdleReconnectRecovers'
    BY <1>1, <1>2, <2>1, <2>2 DEF IInv, RejectedAtOnce, IdleReconnectRecovers, CurrentReader
  <2> QED BY <2>5, <2>6, <2>7, <2>8, <2>9, <2>10, <2>11, <2>12, <2>13, <2>14 DEF IInv
<1>3. CASE ops[o].phase = "expired" /\ FailAndMarkDead(ops[o].demux, {o}, {})
  <2>1. ops[o].demux \in Demux /\ InFlight(o) /\ (ops[o].demux = demux \/ ops[o].demux \in hurried)
    BY <1>3 DEF IInv, OpsExact, GenerationsExact, InFlight
  <2>2. {o} \in SUBSET Op /\ \A p \in {o} : InFlight(p)
    BY <2>1
  <2>3. {} \in SUBSET Socket /\ \A s \in {} : sockets[s] # "unused"
    OBVIOUS
  <2>4. /\ sockets' \in [Socket -> {"unused", "open", "destroyed"}]
        /\ dead' \in {0} \cup Demux /\ socket' \in {socket, NoSocket}
        /\ \A s \in Socket : sockets'[s] = "unused" <=> sockets[s] = "unused"
        /\ RejectedAtOnce' /\ IdleReconnectRecovers'
    BY <1>1, <1>3, <2>1, <2>2, <2>3, MarkedDead
  <2>5. PICK E \in SUBSET Op, R \in SUBSET Op : DeadBy({o}, E, R)
    BY <1>1, <1>3, <2>1, <2>2, <2>3, MarkedDead
  <2>6. /\ Fail(E, R)
        /\ \A p \in E : ops[p].phase \in {"sending", "expired", "waiting"} /\ InFlight(p)
        /\ \A p \in R : ops[p].phase \in {"sending", "waiting"}
    BY <1>3, <2>5 DEF DeadBy, Sending, InFlight
  <2>7. /\ \A p \in Op : ops'[p].demux = ops[p].demux /\ ops'[p].socket = ops[p].socket /\ ops'[p].num = ops[p].num
        /\ \A p \in Op : ops[p].phase = "queued" /\ p \notin E => ops'[p].phase = "queued"
        /\ \A p \in Op : ops'[p].phase \in {ops[p].phase, "expired", "failed"}
    BY <2>6, FailOps, FailKeeps
  <2>8. /\ wire' \in [Socket -> Seq(Packet)] /\ WireExact'
        /\ \A s \in Socket : sockets[s] = "unused" => wire'[s] = wire[s]
        /\ \A p \in Op : Written(p)' => Numbered(p)
    <3>1. \A p \in Op : ops[p].phase \notin {"idle", "dialing", "queued"} =>
              /\ ops'[p].socket = ops[p].socket /\ ops'[p].num = ops[p].num
              /\ ops'[p].phase \notin {"idle", "dialing", "queued"}
      BY <2>7
    <3> QED BY <1>1, <3>1, WriteIs
  <2>9. QueueExact'
    <3>1. \A p \in Op : ops[p].phase = "queued" => ops'[p].phase = "queued" /\ ops'[p].demux = ops[p].demux
      BY <2>6, <2>7
    <3> QED BY <1>1, <3>1, QueueStays
  <2>10. \A d \in Demux : packetNum[d] <= packetNum'[d] /\ packetNum'[d] + Len(queue'[d]) <= packetNum[d] + Len(queue[d])
    BY <1>1, LenProperties DEF IInv, Typed
  <2>11. packetNum' \in [Demux -> Nat] /\ queue' \in [Demux -> Seq(Op)]
    BY <1>1 DEF IInv, Typed
  <2> QED BY <1>1, <2>4, <2>6, <2>8, <2>9, <2>10, <2>11, FailStep
<1> QED BY <1>2, <1>3 DEF SendDone

\* The head of a queue leaves it.
LEMMA DequeueIs ==
    ASSUME IInv, NEW d \in Demux, queue[d] # <<>>, queue' = [queue EXCEPT ![d] = Tail(@)]
    PROVE  /\ Head(queue[d]) \in Op
           /\ ops[Head(queue[d])].phase = "queued" /\ ops[Head(queue[d])].demux = d
           /\ queue' \in [Demux -> Seq(Op)]
           /\ Len(queue'[d]) = Len(queue[d]) - 1 /\ Len(queue[d]) \in Nat \ {0}
           /\ \A e \in Demux : e # d => queue'[e] = queue[e]
           /\ \A e \in Demux : \A i \in 1..Len(queue'[e]) :
                  queue'[e][i] \in Op /\ ops[queue'[e][i]].phase = "queued" /\ queue'[e][i] # Head(queue[d])
           /\ (\A p \in Op : ops[p].phase = "queued" /\ p # Head(queue[d]) =>
                   ops'[p].phase = "queued" /\ ops'[p].demux = ops[p].demux) => QueueExact'
<1> DEFINE o == Head(queue[d])
<1>1. queue[d] \in Seq(Op) /\ queue \in [Demux -> Seq(Op)]
  BY DEF IInv, Typed
<1>2. /\ Len(queue[d]) \in Nat \ {0} /\ Tail(queue[d]) \in Seq(Op)
      /\ Len(Tail(queue[d])) = Len(queue[d]) - 1
      /\ \A i \in 1..Len(Tail(queue[d])) : Tail(queue[d])[i] = queue[d][i + 1] /\ i + 1 \in 1..Len(queue[d])
      /\ Head(queue[d]) = queue[d][1] /\ 1 \in 1..Len(queue[d])
  BY <1>1
<1>3. queue'[d] = Tail(queue[d]) /\ \A e \in Demux : e # d => queue'[e] = queue[e]
  BY <1>1
<1>4. queue' \in [Demux -> Seq(Op)]
  BY <1>1, <1>2
<1>5. /\ \A e \in Demux : \A i \in 1..Len(queue[e]) : /\ ops[queue[e][i]].phase = "queued"
                                                   /\ ops[queue[e][i]].demux = e
      /\ \A e \in Demux : \A i \in 1..Len(queue[e]), j \in 1..Len(queue[e]) :
             queue[e][i] = queue[e][j] => i = j
  BY DEF IInv, QueueExact
<1>6. o \in Op /\ ops[o].phase = "queued" /\ ops[o].demux = d
  BY <1>1, <1>2, <1>5, ElementOfSeq
<1>7. ASSUME NEW e \in Demux, NEW i \in 1..Len(queue'[e])
      PROVE  /\ queue'[e][i] \in Op /\ ops[queue'[e][i]].phase = "queued"
             /\ ops[queue'[e][i]].demux = e /\ queue'[e][i] # o
  <2>1. CASE e = d
    <3>1. i \in 1..Len(Tail(queue[d])) /\ queue'[e][i] = Tail(queue[d])[i]
      BY <1>3, <1>7, <2>1
    <3>5. i + 1 \in 1..Len(queue[d]) /\ queue'[e][i] = queue[d][i + 1] /\ i + 1 # 1
      BY <1>2, <3>1
    <3>2. queue[d][i + 1] \in Op
      BY <1>1, <3>5, ElementOfSeq
    <3>3. ops[queue[d][i + 1]].phase = "queued" /\ ops[queue[d][i + 1]].demux = d
      BY <1>5, <3>5
    <3>4. queue[d][i + 1] # queue[d][1]
      BY <1>2, <1>5, <3>5
    <3> QED BY <1>2, <2>1, <3>5, <3>2, <3>3, <3>4
  <2>2. CASE e # d
    <3>1. queue'[e] = queue[e] /\ queue[e] \in Seq(Op)
      BY <1>1, <1>3, <2>2
    <3> QED BY <1>5, <1>6, <1>7, <2>2, <3>1, ElementOfSeq
  <2> QED BY <2>1, <2>2
<1>8. ASSUME NEW e \in Demux, NEW i \in 1..Len(queue'[e]), NEW j \in 1..Len(queue'[e]),
             queue'[e][i] = queue'[e][j]
      PROVE  i = j
  <2>1. CASE e = d
    <3>1. /\ i + 1 \in 1..Len(queue[d]) /\ queue'[e][i] = queue[d][i + 1]
          /\ j + 1 \in 1..Len(queue[d]) /\ queue'[e][j] = queue[d][j + 1]
      BY <1>2, <1>3, <1>8, <2>1
    <3>2. i + 1 = j + 1
      BY <1>5, <1>8, <3>1
    <3> QED BY <1>4, <3>2
  <2>2. CASE e # d
    <3>1. queue'[e] = queue[e]
      BY <1>3, <2>2
    <3> QED BY <1>5, <1>8, <3>1
  <2> QED BY <2>1, <2>2
<1>9. ASSUME \A p \in Op : ops[p].phase = "queued" /\ p # o =>
                 ops'[p].phase = "queued" /\ ops'[p].demux = ops[p].demux
      PROVE  QueueExact'
  <2>1. \A e \in Demux : \A i \in 1..Len(queue'[e]) : /\ ops'[queue'[e][i]].phase = "queued"
                                                   /\ ops'[queue'[e][i]].demux = e
    BY <1>7, <1>9
  <2>2. \A e \in Demux : \A i \in 1..Len(queue'[e]), j \in 1..Len(queue'[e]) :
            queue'[e][i] = queue'[e][j] => i = j
    BY <1>8
  <2> QED BY <2>1, <2>2 DEF QueueExact
<1> QED BY <1>2, <1>3, <1>4, <1>6, <1>7, <1>9

LEMMA EnterLockKeeps == ASSUME IInv, NEW d \in Demux, EnterLock(d)  PROVE IInv'
<1> DEFINE o == Head(queue[d])
<1>1. /\ UNCHANGED <<hurried, readerOf, wire, demux, stopped, readSocket, user>>
      /\ holder[d] = NoOp /\ queue[d] # <<>> /\ queue' = [queue EXCEPT ![d] = Tail(@)]
      /\ packetNum' = [packetNum EXCEPT ![d] = @ + 1]
  BY DEF EnterLock
<1>2. /\ o \in Op /\ ops[o].phase = "queued" /\ ops[o].demux = d
      /\ queue' \in [Demux -> Seq(Op)]
      /\ Len(queue'[d]) = Len(queue[d]) - 1 /\ Len(queue[d]) \in Nat \ {0}
      /\ \A e \in Demux : e # d => queue'[e] = queue[e]
  BY <1>1, DequeueIs
<1>3. (\A p \in Op : ops[p].phase = "queued" /\ p # o =>
           ops'[p].phase = "queued" /\ ops'[p].demux = ops[p].demux) => QueueExact'
  BY <1>1, DequeueIs
<1>4. \/ /\ sockets[ops[o].socket] = "open"
         /\ holder' = [holder EXCEPT ![d] = o]
         /\ pending' = [pending EXCEPT ![d] = @ \cup {[num |-> packetNum[d], op |-> o]}]
         /\ ops' = [ops EXCEPT ![o] = [@ EXCEPT !.phase = "sending", !.num = packetNum[d]]]
         /\ UNCHANGED <<sockets, socket, dead>>
      \/ FailAndMarkDead(d, {o}, {})
  BY DEF EnterLock
<1> HIDE DEF o
<1>5. packetNum' \in [Demux -> Nat] /\ packetNum[d] \in Nat /\ packetNum'[d] = packetNum[d] + 1
  BY <1>1 DEF IInv, Typed
<1>6. \A e \in Demux : packetNum[e] <= packetNum'[e]
  BY <1>1, <1>5 DEF IInv, Typed
<1>7. \A e \in Demux : packetNum'[e] + Len(queue'[e]) <= packetNum[e] + Len(queue[e])
  <2>1. \A e \in Demux : Len(queue[e]) \in Nat /\ packetNum[e] \in Nat
    BY LenProperties DEF IInv, Typed
  <2>2. \A e \in Demux : e # d => packetNum'[e] = packetNum[e]
    BY <1>1 DEF IInv, Typed
  <2> SUFFICES ASSUME NEW e \in Demux
               PROVE  packetNum'[e] + Len(queue'[e]) <= packetNum[e] + Len(queue[e])
    OBVIOUS
  <2>3. CASE e = d
    <3>1. Len(queue'[d]) = Len(queue[d]) - 1 /\ Len(queue[d]) \in Nat
      BY <1>2
    <3> QED BY <1>5, <2>3, <3>1
  <2>4. CASE e # d
    <3>1. queue'[e] = queue[e] /\ packetNum'[e] = packetNum[e]
      BY <1>2, <2>2, <2>4
    <3> QED BY <2>1, <3>1
  <2> QED BY <2>3, <2>4
<1>8. ~Numbered(o)
  <2> SUFFICES ASSUME Written(o)  PROVE FALSE
    BY <1>2 DEF Numbered
  <2>1. PICK s \in Socket : \E i \in 1..Len(wire[s]) : wire[s][i].op = o
    BY DEF Written
  <2> QED BY <1>2, <2>1 DEF IInv, WireExact
<1>9. CASE /\ sockets[ops[o].socket] = "open"
           /\ holder' = [holder EXCEPT ![d] = o]
           /\ pending' = [pending EXCEPT ![d] = @ \cup {[num |-> packetNum[d], op |-> o]}]
           /\ ops' = [ops EXCEPT ![o] = [@ EXCEPT !.phase = "sending", !.num = packetNum[d]]]
           /\ UNCHANGED <<sockets, socket, dead>>
  <2> DEFINE w == [num |-> packetNum[d], op |-> o]
  <2>1. \A p \in Op : p # o => ops'[p] = ops[p]
    BY <1>2, <1>9 DEF IInv, Typed
  <2>19. ops'[o] = [ops[o] EXCEPT !.phase = "sending", !.num = packetNum[d]] /\ ops[o] \in Progress
    BY <1>2, <1>9 DEF IInv, Typed
  <2>2. /\ ops'[o] \in Progress /\ ops'[o].phase = "sending" /\ ops'[o].demux = ops[o].demux
        /\ ops'[o].socket = ops[o].socket /\ ops'[o].num = packetNum[d] /\ ops'[o].reply = ops[o].reply
    BY <1>5, <2>19 DEF Progress, Phases
  <2>3. ops' \in [Op -> Progress]
    BY <1>9, <2>1, <2>2, <2>19 DEF IInv, Typed
  <2>4. w \in Packet /\ w.num = packetNum[d] /\ w.op = o
    BY <1>2, <1>5 DEF Packet
  <2>5. /\ pending' = [pending EXCEPT ![d] = pending[d] \cup {w}]
        /\ pending \in [Demux -> SUBSET Packet]
    BY <1>9 DEF IInv, Typed
  <2> HIDE DEF w
  <2>6. pending' \in [Demux -> SUBSET Packet]
    BY <2>4, <2>5
  <2>7. holder' \in [Demux -> Op \cup {NoOp}]
    BY <1>2, <1>9 DEF IInv, Typed
  <2>8. Typed'
    BY <1>1, <1>2, <1>5, <1>9, <2>3, <2>6, <2>7 DEF IInv, Typed
  <2>9. OpsExact' /\ RepliesMatch'
    BY <1>2, <2>1, <2>2 DEF IInv, OpsExact, RepliesMatch, Begun
  <2>10. LockHeldByLiveOp'
    <3>1. \A e \in Demux : holder[e] \in Op \cup {NoOp}
      BY DEF IInv, Typed
    <3>2. \A e \in Demux : holder'[e] = IF e = d THEN o ELSE holder[e]
      BY <1>9 DEF IInv, Typed
    <3> QED BY <1>2, <2>1, <2>2, <3>1, <3>2 DEF IInv, LockHeldByLiveOp
  <2>11. SocketsExact'
    BY <1>1, <1>2, <1>9, <2>1, <2>2 DEF IInv, SocketsExact
  <2>12. GenerationsExact'
    BY <1>1, <1>2, <2>1, <2>2, GenerationsStay DEF InFlight
  <2>13. QueueExact'
    BY <1>3, <2>1
  <2>14. WireExact'
    BY <1>1, <1>2, <2>1, WireStays
  <2>15. NumbersExact'
    <3>1. \A p \in Op : Written(p)' <=> Written(p)
      BY <1>1 DEF Written
    <3>2. \A p \in Op : p # o => (Numbered(p)' <=> Numbered(p))
      BY <2>1, <3>1 DEF Numbered
    <3>3. \A p \in Op : Numbered(p) => /\ ops[p].demux \in Demux /\ ops[p].num \in Nat
                                       /\ ops[p].num < packetNum[ops[p].demux]
      BY NumberedIs
    <3>4. ASSUME NEW p \in Op, Numbered(p)'  PROVE ops'[p].num < packetNum'[ops'[p].demux]
      <4>1. CASE p = o
        BY <1>2, <1>5, <2>2, <4>1
      <4>2. CASE p # o
        <5>1. /\ ops'[p] = ops[p] /\ ops[p].demux \in Demux /\ ops[p].num \in Nat
              /\ ops[p].num < packetNum[ops[p].demux]
          BY <2>1, <3>2, <3>3, <3>4, <4>2
        <5>2. packetNum[ops[p].demux] \in Nat /\ packetNum'[ops[p].demux] \in Nat
              /\ packetNum[ops[p].demux] <= packetNum'[ops[p].demux]
          BY <1>5, <1>6, <5>1 DEF IInv, Typed
        <5> QED BY <5>1, <5>2
      <4> QED BY <4>1, <4>2
    <3>5. \A p \in Op : p # o /\ Numbered(p) /\ ops[p].demux = d => ops[p].num # packetNum[d]
      BY <1>5, <3>3
    <3>6. \A p \in Op, q \in Op :
              Numbered(p)' /\ Numbered(q)' /\ ops'[p].demux = ops'[q].demux
                  /\ ops'[p].num = ops'[q].num => p = q
      <4> SUFFICES ASSUME NEW p \in Op, NEW q \in Op, Numbered(p)', Numbered(q)',
                          ops'[p].demux = ops'[q].demux, ops'[p].num = ops'[q].num, p # q
                   PROVE  FALSE
        OBVIOUS
      <4>1. CASE p = o
        BY <1>2, <2>1, <2>2, <3>2, <3>5, <4>1
      <4>2. CASE q = o
        BY <1>2, <2>1, <2>2, <3>2, <3>5, <4>2
      <4>3. CASE p # o /\ q # o
        <5>1. Numbered(p) /\ Numbered(q) /\ ops'[p] = ops[p] /\ ops'[q] = ops[q]
          BY <2>1, <3>2, <4>3
        <5> QED BY <5>1 DEF IInv, NumbersExact
      <4> QED BY <4>1, <4>2, <4>3
    <3> QED BY <3>4, <3>6 DEF NumbersExact
  <2>16. WaitersExact'
    <3>1. /\ \A e \in Demux : \A x \in pending[e] : x.op \in Op /\ x.op # o /\ ops[x.op].num = x.num
          /\ \A e \in Demux : PendingOps(e) = {p \in Op : ops[p].demux = e /\ ops[p].phase \in {"sending", "waiting"}}
      <4>1. \A e \in Demux : \A x \in pending[e] : x.op \in Op /\ x.op \in PendingOps(e)
        BY DEF IInv, Typed, Packet, PendingOps
      <4> QED BY <1>2, <4>1 DEF IInv, WaitersExact
    <3>2. \A e \in Demux : pending'[e] = IF e = d THEN pending[e] \cup {w} ELSE pending[e]
      BY <2>5
    <3>3. ASSUME NEW e \in Demux, NEW x \in pending'[e]  PROVE ops'[x.op].num = x.num
      <4>1. CASE x = w
        BY <2>2, <2>4, <4>1
      <4>2. CASE x # w
        <5>1. x \in pending[e]
          BY <3>2, <3>3, <4>2
        <5> QED BY <2>1, <3>1, <5>1
      <4> QED BY <4>1, <4>2
    <3>4. \A e \in Demux : PendingOps(e)' = IF e = d THEN PendingOps(e) \cup {o} ELSE PendingOps(e)
      BY <2>4, <3>2 DEF PendingOps
    <3>5. ASSUME NEW e \in Demux
          PROVE  PendingOps(e)' = {p \in Op : ops'[p].demux = e /\ ops'[p].phase \in {"sending", "waiting"}}
      <4> DEFINE now == {p \in Op : ops'[p].demux = e /\ ops'[p].phase \in {"sending", "waiting"}}
      <4>1. PendingOps(e) = {p \in Op : ops[p].demux = e /\ ops[p].phase \in {"sending", "waiting"}}
        BY <3>1
      <4>2. o \notin PendingOps(e) /\ (o \in now <=> e = d)
        BY <1>2, <2>2, <4>1
      <4>3. \A p \in Op : p # o => (p \in now <=> p \in PendingOps(e))
        BY <2>1, <4>1
      <4>4. now \subseteq Op /\ PendingOps(e) \subseteq Op /\ o \in Op
        BY <1>2, <4>1
      <4> HIDE DEF now
      <4>5. PendingOps(e)' = now
        BY <3>4, <4>2, <4>3, <4>4
      <4> QED BY <4>5 DEF now
    <3> QED BY <3>3, <3>5 DEF WaitersExact
  <2>17. Counted'
    <3>1. \A e \in Demux : PastDial(e) \subseteq PastDial(e)'
      BY <2>1, <2>2 DEF PastDial
    <3> QED BY <1>2, <1>5, <1>7, <3>1, CountedStays
  <2>18. RejectedAtOnce' /\ IdleReconnectRecovers'
    BY <1>1, <1>9, <2>1, <2>2 DEF IInv, RejectedAtOnce, IdleReconnectRecovers, CurrentReader
  <2> QED BY <2>8, <2>9, <2>10, <2>11, <2>12, <2>13, <2>14, <2>15, <2>16, <2>17, <2>18 DEF IInv
<1>10. CASE FailAndMarkDead(d, {o}, {})
  <2>1. InFlight(o) /\ (d = demux \/ d \in hurried)
    BY <1>2 DEF IInv, GenerationsExact, InFlight
  <2>2. {o} \in SUBSET Op /\ \A p \in {o} : InFlight(p)
    BY <1>2, <2>1
  <2>3. {} \in SUBSET Socket /\ \A s \in {} : sockets[s] # "unused"
    OBVIOUS
  <2>4. /\ sockets' \in [Socket -> {"unused", "open", "destroyed"}]
        /\ dead' \in {0} \cup Demux /\ socket' \in {socket, NoSocket}
        /\ \A s \in Socket : sockets'[s] = "unused" <=> sockets[s] = "unused"
        /\ RejectedAtOnce' /\ IdleReconnectRecovers'
    BY <1>1, <1>10, <2>1, <2>2, <2>3, MarkedDead
  <2>5. PICK E \in SUBSET Op, R \in SUBSET Op : DeadBy({o}, E, R)
    BY <1>1, <1>10, <2>1, <2>2, <2>3, MarkedDead
  <2>6. /\ Fail(E, R)
        /\ \A p \in E : InFlight(p) /\ (p = o \/ Sending(p))
        /\ \A p \in R : ops[p].phase \in {"sending", "waiting"}
    BY <2>1, <2>5 DEF DeadBy, Sending, InFlight
  <2>7. /\ \A p \in Op : ops'[p].demux = ops[p].demux /\ ops'[p].socket = ops[p].socket /\ ops'[p].num = ops[p].num
        /\ \A p \in Op : ops[p].phase = "queued" /\ p \notin E => ops'[p].phase = "queued"
        /\ \A p \in Op : ops'[p].phase \in {ops[p].phase, "expired", "failed"}
    BY <2>6, FailOps, FailKeeps
  <2>8. QueueExact'
    BY <1>3, <2>6, <2>7 DEF Sending
  <2>9. WireExact'
    <3>1. \A p \in Op : ops[p].phase \notin {"idle", "dialing", "queued"} =>
              ops'[p].phase \notin {"idle", "dialing", "queued"}
      BY <2>7
    <3> QED BY <1>1, <2>7, <3>1, WireStays
  <2>10. \A p \in Op : Written(p)' => Numbered(p)
    BY <1>1 DEF Written, Numbered
  <2>11. /\ wire' \in [Socket -> Seq(Packet)]
         /\ \A s \in Socket : sockets[s] = "unused" => wire'[s] = wire[s]
    BY <1>1 DEF IInv, Typed
  <2> QED BY <1>1, <1>2, <1>5, <1>6, <1>7, <2>4, <2>6, <2>8, <2>9, <2>10, <2>11, FailStep
<1> QED BY <1>4, <1>9, <1>10

-----------------------------------------------------------------------------
(* The reader.                                                                 *)

\* The first packet leaves the wire of a socket.
LEMMA UnwireIs ==
    ASSUME IInv, NEW s \in Socket, wire[s] # <<>>, wire' = [wire EXCEPT ![s] = Tail(@)],
           \A o \in Op : ops[o].phase \notin {"idle", "dialing", "queued"} =>
               /\ ops'[o].socket = ops[o].socket /\ ops'[o].num = ops[o].num
               /\ ops'[o].phase \notin {"idle", "dialing", "queued"}
    PROVE  /\ Head(wire[s]) \in Packet /\ Written(Head(wire[s]).op)
           /\ ops[Head(wire[s]).op].socket = s /\ ops[Head(wire[s]).op].num = Head(wire[s]).num
           /\ wire' \in [Socket -> Seq(Packet)] /\ WireExact'
           /\ \A t \in Socket : t # s => wire'[t] = wire[t]
           /\ \A p \in Op : Written(p)' => Written(p)
<1>1. wire[s] \in Seq(Packet) /\ wire \in [Socket -> Seq(Packet)]
  BY DEF IInv, Typed
<1>2. /\ Tail(wire[s]) \in Seq(Packet)
      /\ \A i \in 1..Len(Tail(wire[s])) : Tail(wire[s])[i] = wire[s][i + 1] /\ i + 1 \in 1..Len(wire[s])
      /\ Head(wire[s]) = wire[s][1] /\ 1 \in 1..Len(wire[s])
  BY <1>1
<1>3. wire'[s] = Tail(wire[s]) /\ \A t \in Socket : t # s => wire'[t] = wire[t]
  BY <1>1
<1>4. wire' \in [Socket -> Seq(Packet)]
  BY <1>1, <1>2
<1>5. Head(wire[s]) \in Packet
  BY <1>1, <1>2, ElementOfSeq
<1>6. Written(Head(wire[s]).op)
  BY <1>2 DEF Written
<1>7. ops[Head(wire[s]).op].socket = s /\ ops[Head(wire[s]).op].num = Head(wire[s]).num
  BY <1>2 DEF IInv, WireExact
<1>8. ASSUME NEW t \in Socket, NEW i \in 1..Len(wire'[t])
      PROVE  \E j \in 1..Len(wire[t]) : wire'[t][i] = wire[t][j]
  <2>1. CASE t = s
    <3>1. i \in 1..Len(Tail(wire[s])) /\ wire'[t][i] = Tail(wire[s])[i]
      BY <1>3, <1>8, <2>1
    <3> QED BY <1>2, <2>1, <3>1
  <2>2. CASE t # s
    BY <1>3, <1>8, <2>2
  <2> QED BY <2>1, <2>2
<1>9. WireExact'
  <2> SUFFICES ASSUME NEW t \in Socket, NEW i \in 1..Len(wire'[t])
               PROVE  /\ ops'[wire'[t][i].op].socket = t /\ ops'[wire'[t][i].op].num = wire'[t][i].num
                      /\ ops'[wire'[t][i].op].phase \notin {"idle", "dialing", "queued"}
    BY DEF WireExact
  <2>1. PICK j \in 1..Len(wire[t]) : wire'[t][i] = wire[t][j]
    BY <1>8
  <2>2. wire[t][j] \in Packet
    BY <1>1, ElementOfSeq
  <2>3. wire[t][j].op \in Op
    BY <2>2 DEF Packet
  <2>4. /\ ops[wire[t][j].op].socket = t /\ ops[wire[t][j].op].num = wire[t][j].num
        /\ ops[wire[t][j].op].phase \notin {"idle", "dialing", "queued"}
    BY DEF IInv, WireExact
  <2> QED BY <2>1, <2>3, <2>4
<1>10. ASSUME NEW p \in Op, Written(p)'  PROVE Written(p)
  <2>1. PICK t \in Socket : \E i \in 1..Len(wire'[t]) : wire'[t][i].op = p
    BY <1>10 DEF Written
  <2>2. PICK i \in 1..Len(wire'[t]) : wire'[t][i].op = p
    BY <2>1
  <2>3. PICK j \in 1..Len(wire[t]) : wire'[t][i] = wire[t][j]
    BY <1>8
  <2> QED BY <2>2, <2>3 DEF Written
<1> QED BY <1>3, <1>4, <1>5, <1>6, <1>7, <1>9, <1>10

\* The waiter that a packet is routed to is that of the operation it answers: the numbers of one
\* generation are distinct, and a socket carries the requests of one generation.
LEMMA RoutedIs ==
    ASSUME IInv, NEW s \in Socket, readerOf[s] # 0, wire[s] # <<>>,
           NEW w \in WaitersFor(readerOf[s], Head(wire[s]).num)
    PROVE  /\ readerOf[s] \in Demux /\ w \in pending[readerOf[s]] /\ w.op \in Op
           /\ w.op = Head(wire[s]).op
           /\ ops[w.op].phase \in {"sending", "waiting"} /\ ops[w.op].demux = readerOf[s]
           /\ ops[w.op].num = w.num
           /\ \A x \in pending[readerOf[s]] : x.op = w.op => x = w
<1> DEFINE d == readerOf[s]
           p == Head(wire[s])
<1>1. d \in Demux
  BY ReaderIs
<1>2. wire[s] \in Seq(Packet) /\ p = wire[s][1] /\ 1 \in 1..Len(wire[s])
  <2>1. wire[s] \in Seq(Packet)
    BY DEF IInv, Typed
  <2> QED BY <2>1
<1>13. p \in Packet
  BY <1>2, ElementOfSeq
<1>3. p.op \in Op
  BY <1>13 DEF Packet
<1>4. Numbered(p.op) /\ ops[p.op].socket = s /\ ops[p.op].num = p.num
  BY <1>2 DEF IInv, WireExact, Numbered, Written
<1>5. ops[p.op].demux = d
  BY <1>3, <1>4, ReaderIs
<1>6. w \in pending[d] /\ w.num = p.num
  BY DEF WaitersFor
<1> HIDE DEF d, p
<1>7. pending[d] \subseteq Packet
  BY <1>1 DEF IInv, Typed
<1>8. w.op \in PendingOps(d) /\ ops[w.op].num = w.num
  BY <1>1, <1>6 DEF IInv, WaitersExact, PendingOps
<1>9. w.op \in Op /\ ops[w.op].demux = d /\ ops[w.op].phase \in {"sending", "waiting"}
  BY <1>1, <1>8 DEF IInv, WaitersExact
<1>10. Numbered(w.op)
  BY <1>9 DEF Numbered
<1>11. w.op = p.op
  BY <1>3, <1>4, <1>5, <1>6, <1>8, <1>9, <1>10 DEF IInv, NumbersExact
<1>12. \A x \in pending[d] : x.op = w.op => x = w
  <2> SUFFICES ASSUME NEW x \in pending[d], x.op = w.op  PROVE x = w
    OBVIOUS
  <2>1. ops[x.op].num = x.num
    BY <1>1 DEF IInv, WaitersExact
  <2>2. x \in Packet /\ w \in Packet /\ x.num = w.num
    BY <1>6, <1>7, <1>8, <2>1
  <2> QED BY <2>2 DEF Packet
<1> QED BY <1>1, <1>6, <1>8, <1>9, <1>11, <1>12 DEF d, p

\* A packet may settle its operation, and a reader whose generation was stopped ends.
LEMMA ReceiveStep ==
    ASSUME IInv, NEW s \in Socket, sockets[s] = "open", readerOf[s] # 0, wire[s] # <<>>,
           wire' = [wire EXCEPT ![s] = Tail(@)],
           readerOf' = IF stopped[readerOf[s]] THEN [readerOf EXCEPT ![s] = 0] ELSE readerOf,
           UNCHANGED <<hurried, sockets, socket, demux, dead, stopped, readSocket, packetNum, queue, user>>,
           ops' \in [Op -> Progress], holder' \in [Demux -> Op \cup {NoOp}], pending' \in [Demux -> SUBSET Packet],
           \A o \in Op : /\ ops'[o].demux = ops[o].demux /\ ops'[o].socket = ops[o].socket
                         /\ ops'[o].num = ops[o].num
                         /\ (ops'[o] = ops[o] \/ (ops[o].phase \in {"sending", "waiting"} /\ ops'[o].phase = "ok")),
           WaitersExact', LockHeldByLiveOp', RepliesMatch'
    PROVE  IInv'
<1>1. \A o \in Op : ops[o].phase \notin {"idle", "dialing", "queued"} =>
               /\ ops'[o].socket = ops[o].socket /\ ops'[o].num = ops[o].num
               /\ ops'[o].phase \notin {"idle", "dialing", "queued"}
  OBVIOUS
<1>2. wire' \in [Socket -> Seq(Packet)] /\ WireExact' /\ \A p \in Op : Written(p)' => Written(p)
  BY <1>1, UnwireIs
<1>3. \A t \in Socket : t # s => wire'[t] = wire[t]
  BY <1>1, UnwireIs
<1>4. readerOf[s] \in Demux
  BY ReaderIs
<1>5. /\ readerOf' \in [Socket -> {0} \cup Demux]
      /\ \A t \in Socket : readerOf'[t] = readerOf[t] \/ (t = s /\ readerOf'[t] = 0 /\ stopped[readerOf[t]])
  <2>1. readerOf \in [Socket -> {0} \cup Demux]
    BY DEF IInv, Typed
  <2>2. CASE stopped[readerOf[s]] /\ readerOf' = [readerOf EXCEPT ![s] = 0]
    BY <2>1, <2>2
  <2>3. CASE readerOf' = readerOf
    BY <2>1, <2>3
  <2> QED BY <2>2, <2>3
<1>6. Typed'
  BY <1>2, <1>5 DEF IInv, Typed
<1>7. OpsExact'
  BY DEF IInv, OpsExact, Begun
<1>8. SocketsExact'
  <2>1. socket' # NoSocket => readerOf'[socket'] = demux' /\ sockets'[socket'] # "unused"
    <3> SUFFICES ASSUME socket # NoSocket  PROVE readerOf'[socket] = demux /\ sockets[socket] # "unused"
      OBVIOUS
    <3>1. socket \in Socket /\ readerOf[socket] = demux /\ sockets[socket] # "unused"
      BY DEF IInv, Typed, SocketsExact
    <3>2. demux \in Demux /\ ~stopped[demux]
      BY DemuxIs DEF IInv, Typed, GenerationsExact
    <3> QED BY <1>5, <3>1, <3>2
  <2>2. \A o \in Op : ops'[o].socket # NoSocket =>
           sockets'[ops'[o].socket] # "unused" /\ readerOf'[ops'[o].socket] \in {0, ops'[o].demux}
    BY <1>5 DEF IInv, Typed, Progress, SocketsExact
  <2>3. \A t \in Socket : sockets'[t] = "unused" => readerOf'[t] = 0 /\ wire'[t] = <<>>
    BY <1>3, <1>5 DEF IInv, SocketsExact
  <2>4. \A t \in Socket : readerOf'[t] <= demux'
    BY <1>5, DemuxIs DEF IInv, Typed, SocketsExact
  <2> QED BY <2>1, <2>2, <2>3, <2>4 DEF SocketsExact
<1>9. GenerationsExact'
  <2>1. \A o \in Op : ops'[o].phase # "idle" => ops[o].phase # "idle" /\ ops'[o].demux = ops[o].demux
    OBVIOUS
  <2>2. \A o \in Op : InFlight(o)' => InFlight(o)
    BY DEF InFlight
  <2> QED BY <2>1, <2>2, GenerationsStay
<1>10. QueueExact'
  BY QueueStays
<1>11. NumbersExact'
  <2>1. \A p \in Op : Numbered(p)' => Numbered(p)
    BY <1>2 DEF Numbered
  <2>2. packetNum' \in [Demux -> Nat] /\ \A d \in Demux : packetNum[d] <= packetNum'[d]
    BY DEF IInv, Typed
  <2> QED BY <2>1, <2>2, NumbersStay
<1>12. Counted'
  <2>1. \A d \in Demux : packetNum'[d] + Len(queue'[d]) <= packetNum[d] + Len(queue[d])
    BY LenProperties DEF IInv, Typed
  <2>2. \A d \in Demux : PastDial(d) \subseteq PastDial(d)'
    BY DEF PastDial
  <2>3. packetNum' \in [Demux -> Nat] /\ queue' \in [Demux -> Seq(Op)]
    BY DEF IInv, Typed
  <2> QED BY <2>1, <2>2, <2>3, CountedStays
<1>13. RejectedAtOnce'
  <2> SUFFICES ASSUME NEW o \in Op, ops'[o].phase \in {"sending", "waiting"}, CurrentReader(ops[o].socket)'
               PROVE  sockets[ops[o].socket] = "open"
    BY DEF RejectedAtOnce, CurrentReader
  <2>1. ops'[o] = ops[o]
    OBVIOUS
  <2>2. ops[o].socket \in Socket
    BY <2>1 DEF IInv, OpsExact, Begun
  <2>3. CurrentReader(ops[o].socket)
    <3>1. readerOf'[ops[o].socket] # 0 /\ ops'[o].socket = ops[o].socket
      BY <2>1 DEF CurrentReader
    <3>2. readerOf'[ops[o].socket] = readerOf[ops[o].socket]
      BY <1>5, <2>2, <3>1
    <3> QED BY <2>1, <3>1, <3>2 DEF CurrentReader
  <2> QED BY <2>1, <2>3 DEF IInv, RejectedAtOnce
<1>14. IdleReconnectRecovers'
  BY DEF IInv, IdleReconnectRecovers
<1> QED BY <1>2, <1>6, <1>7, <1>8, <1>9, <1>10, <1>11, <1>12, <1>13, <1>14 DEF IInv

LEMMA ReceiveKeeps == ASSUME IInv, NEW s \in Socket, Receive(s)  PROVE IInv'
<1> DEFINE d == readerOf[s]
           packet == Head(wire[s])
<1>1. /\ UNCHANGED <<hurried, sockets, socket, demux, dead, stopped, readSocket, packetNum, queue, user>>
      /\ sockets[s] = "open" /\ readerOf[s] # 0 /\ wire[s] # <<>>
      /\ wire' = [wire EXCEPT ![s] = Tail(@)]
      /\ readerOf' = IF stopped[d] THEN [readerOf EXCEPT ![s] = 0] ELSE readerOf
  BY DEF Receive
<1>2. CASE UNCHANGED <<pending, ops, holder>>
  <2>1. WaitersExact' /\ LockHeldByLiveOp' /\ RepliesMatch'
    BY <1>2 DEF IInv, WaitersExact, PendingOps, LockHeldByLiveOp, RepliesMatch
  <2>2. ops' \in [Op -> Progress] /\ holder' \in [Demux -> Op \cup {NoOp}] /\ pending' \in [Demux -> SUBSET Packet]
    BY <1>2 DEF IInv, Typed
  <2>3. \A o \in Op : /\ ops'[o].demux = ops[o].demux /\ ops'[o].socket = ops[o].socket
                      /\ ops'[o].num = ops[o].num
                      /\ (ops'[o] = ops[o] \/ (ops[o].phase \in {"sending", "waiting"} /\ ops'[o].phase = "ok"))
    BY <1>2
  <2> QED BY <1>1, <2>1, <2>2, <2>3, ReceiveStep
<1>3. ASSUME NEW w \in WaitersFor(d, packet.num),
             pending' = [pending EXCEPT ![d] = @ \ {w}],
             ops' = [ops EXCEPT ![w.op] = [@ EXCEPT !.phase = "ok", !.reply = packet.op]],
             holder' = [holder EXCEPT ![d] = IF @ = w.op THEN NoOp ELSE @]
      PROVE  IInv'
  <2>1. /\ d \in Demux /\ w \in pending[d] /\ w.op \in Op /\ w.op = packet.op
        /\ ops[w.op].phase \in {"sending", "waiting"} /\ ops[w.op].demux = d /\ ops[w.op].num = w.num
        /\ \A x \in pending[d] : x.op = w.op => x = w
    BY <1>1, <1>3, RoutedIs
  <2>2. /\ pending' = [pending EXCEPT ![d] = pending[d] \ {w}] /\ pending \in [Demux -> SUBSET Packet]
        /\ holder' = [holder EXCEPT ![d] = IF holder[d] = w.op THEN NoOp ELSE holder[d]]
        /\ holder \in [Demux -> Op \cup {NoOp}]
        /\ ops' = [ops EXCEPT ![w.op] = [ops[w.op] EXCEPT !.phase = "ok", !.reply = w.op]]
        /\ ops \in [Op -> Progress]
    BY <1>3, <2>1 DEF IInv, Typed
  <2> DEFINE o == w.op
  <2> HIDE DEF d, packet
  <2>3. \A p \in Op : p # o => ops'[p] = ops[p]
    BY <2>1, <2>2
  <2>4. ops'[o] = [ops[o] EXCEPT !.phase = "ok", !.reply = o] /\ ops[o] \in Progress /\ o \in Op
    BY <2>1, <2>2
  <2>5. /\ ops'[o] \in Progress /\ ops'[o].phase = "ok" /\ ops'[o].demux = ops[o].demux
        /\ ops'[o].socket = ops[o].socket /\ ops'[o].num = ops[o].num /\ ops'[o].reply = o
    BY <2>4 DEF Progress, Phases
  <2>6. ops[o].phase \in {"sending", "waiting"} /\ ops[o].demux = d
    BY <2>1
  <2>7. /\ ops' \in [Op -> Progress] /\ holder' \in [Demux -> Op \cup {NoOp}]
        /\ pending' \in [Demux -> SUBSET Packet]
    BY <2>1, <2>2, <2>5
  <2>8. \A e \in Demux : holder'[e] = IF e = d /\ holder[e] = o THEN NoOp ELSE holder[e]
    BY <2>1, <2>2
  <2>9. \A e \in Demux : pending'[e] = IF e = d THEN pending[e] \ {w} ELSE pending[e]
    BY <2>1, <2>2
  <2>10. \A x \in pending[d] : x.op = o => x = w
    BY <2>1
  <2>11. w.op = o /\ w \in pending[d] /\ d \in Demux
    BY <2>1
  <2> HIDE DEF o
  <2>12. WaitersExact'
    <3>1. ASSUME NEW e \in Demux, NEW x \in pending'[e]  PROVE ops'[x.op].num = x.num
      <4>2. x \in pending[e]
        BY <2>9, <3>1
      <4>1. x.op \in Op /\ ops[x.op].num = x.num
        BY <4>2 DEF IInv, Typed, Packet, WaitersExact
      <4> QED BY <2>3, <2>5, <4>1
    <3>2. ASSUME NEW e \in Demux
          PROVE  PendingOps(e)' = {p \in Op : ops'[p].demux = e /\ ops'[p].phase \in {"sending", "waiting"}}
      <4> DEFINE now == {p \in Op : ops'[p].demux = e /\ ops'[p].phase \in {"sending", "waiting"}}
      <4>1. PendingOps(e) = {p \in Op : ops[p].demux = e /\ ops[p].phase \in {"sending", "waiting"}}
        BY DEF IInv, WaitersExact
      <4>2. o \notin now /\ (o \in PendingOps(e) <=> e = d)
        BY <2>4, <2>5, <2>6, <4>1
      <4>3. \A p \in Op : p # o => (p \in now <=> p \in PendingOps(e))
        BY <2>3, <4>1
      <4>4. now \subseteq Op /\ PendingOps(e) \subseteq Op /\ o \in Op
        BY <2>4, <4>1
      <4> HIDE DEF now
      <4>5. PendingOps(e)' = PendingOps(e) \ {o}
        <5>1. CASE e = d
          BY <2>9, <2>10, <2>11, <5>1 DEF PendingOps
        <5>2. CASE e # d
          <6>1. PendingOps(e)' = PendingOps(e)
            BY <2>9, <5>2 DEF PendingOps
          <6> QED BY <4>2, <5>2, <6>1
        <5> QED BY <5>1, <5>2
      <4>6. PendingOps(e)' = now
        BY <4>2, <4>3, <4>4, <4>5
      <4> QED BY <4>6 DEF now
    <3> QED BY <3>1, <3>2 DEF WaitersExact
  <2>13. LockHeldByLiveOp'
    <3> SUFFICES ASSUME NEW e \in Demux, holder'[e] # NoOp
                 PROVE  ops'[holder'[e]].phase \in {"sending", "expired", "waiting"} /\ ops'[holder'[e]].demux = e
      BY DEF LockHeldByLiveOp
    <3>1. holder'[e] = holder[e] /\ holder[e] # NoOp /\ holder[e] \in Op /\ ~(e = d /\ holder[e] = o)
      BY <2>2, <2>8
    <3>2. ops[holder[e]].phase \in {"sending", "expired", "waiting"} /\ ops[holder[e]].demux = e
      BY <3>1 DEF IInv, LockHeldByLiveOp
    <3>3. holder[e] # o
      BY <2>6, <3>1, <3>2
    <3> QED BY <2>3, <3>1, <3>2, <3>3
  <2>14. RepliesMatch'
    BY <2>3, <2>5 DEF IInv, RepliesMatch
  <2>15. \A p \in Op : /\ ops'[p].demux = ops[p].demux /\ ops'[p].socket = ops[p].socket
                       /\ ops'[p].num = ops[p].num
                       /\ (ops'[p] = ops[p] \/ (ops[p].phase \in {"sending", "waiting"} /\ ops'[p].phase = "ok"))
    <3> SUFFICES ASSUME NEW p \in Op
                 PROVE  /\ ops'[p].demux = ops[p].demux /\ ops'[p].socket = ops[p].socket
                        /\ ops'[p].num = ops[p].num
                        /\ (ops'[p] = ops[p] \/ (ops[p].phase \in {"sending", "waiting"} /\ ops'[p].phase = "ok"))
      OBVIOUS
    <3>1. CASE p = o
      BY <2>5, <2>6, <3>1
    <3>2. CASE p # o
      BY <2>3, <3>2
    <3> QED BY <3>1, <3>2
  <2> QED BY <1>1, <2>7, <2>12, <2>13, <2>14, <2>15, ReceiveStep DEF d
<1> QED BY <1>2, <1>3 DEF Receive

-----------------------------------------------------------------------------
(* Calls and dials.                                                            *)

\* An operation before the send lock is in none of the maps.
LEMMA ApartIs ==
    ASSUME IInv, NEW o \in Op, ops[o].phase \in {"idle", "dialing"},
           ops' \in [Op -> Progress], \A p \in Op : p # o => ops'[p] = ops[p],
           ops'[o].phase \in {"dialing", "queued", "failed"},
           UNCHANGED <<pending, holder, wire, packetNum>>
    PROVE  /\ WaitersExact' /\ LockHeldByLiveOp' /\ RepliesMatch' /\ WireExact' /\ NumbersExact'
           /\ \A d \in Demux : o \notin PastDial(d)
<1>1. \A d \in Demux : o \notin PastDial(d)
  BY DEF PastDial
<1>2. WaitersExact'
  <2>1. \A d \in Demux : /\ PendingOps(d)' = PendingOps(d)
                         /\ \A w \in pending[d] : w.op \in Op /\ w.op \in PendingOps(d) /\ ops[w.op].num = w.num
    BY DEF IInv, Typed, Packet, WaitersExact, PendingOps
  <2> SUFFICES ASSUME NEW d \in Demux
               PROVE  /\ \A w \in pending[d] : ops'[w.op].num = w.num
                      /\ PendingOps(d) = {p \in Op : ops'[p].demux = d /\ ops'[p].phase \in {"sending", "waiting"}}
    BY <2>1 DEF WaitersExact
  <2>2. PendingOps(d) = {p \in Op : ops[p].demux = d /\ ops[p].phase \in {"sending", "waiting"}}
    BY DEF IInv, WaitersExact
  <2>3. o \notin PendingOps(d)
    BY <2>2
  <2>4. \A w \in pending[d] : ops'[w.op].num = w.num
    BY <2>1, <2>3
  <2>5. \A p \in Op : (ops'[p].demux = d /\ ops'[p].phase \in {"sending", "waiting"})
                          <=> (ops[p].demux = d /\ ops[p].phase \in {"sending", "waiting"})
    <3> SUFFICES ASSUME NEW p \in Op
                 PROVE  (ops'[p].demux = d /\ ops'[p].phase \in {"sending", "waiting"})
                            <=> (ops[p].demux = d /\ ops[p].phase \in {"sending", "waiting"})
      OBVIOUS
    <3> QED BY DEF Progress
  <2> QED BY <2>2, <2>4, <2>5
<1>3. LockHeldByLiveOp'
  <2>1. \A d \in Demux : holder[d] \in Op \cup {NoOp}
    BY DEF IInv, Typed
  <2>2. \A d \in Demux : holder[d] # o \/ holder[d] = NoOp
    BY DEF IInv, LockHeldByLiveOp
  <2> QED BY <2>1, <2>2 DEF IInv, LockHeldByLiveOp
<1>4. RepliesMatch'
  BY DEF IInv, RepliesMatch
<1>5. WireExact'
  BY WireStays
<1>6. NumbersExact'
  <2>1. \A p \in Op : Written(p)' <=> Written(p)
    BY DEF Written
  <2>2. ~Numbered(o)
    BY NumberedIs
  <2>3. \A p \in Op : Numbered(p)' => Numbered(p) /\ p # o
    <3> SUFFICES ASSUME NEW p \in Op, Numbered(p)'  PROVE Numbered(p) /\ p # o
      OBVIOUS
    <3>1. CASE p = o
      <4>1. ~Written(o)
        BY <2>2 DEF Numbered
      <4> QED BY <2>1, <3>1, <4>1 DEF Numbered
    <3>2. CASE p # o
      BY <2>1, <3>2 DEF Numbered
    <3> QED BY <3>1, <3>2
  <2>4. packetNum' \in [Demux -> Nat] /\ \A d \in Demux : packetNum[d] <= packetNum'[d]
    BY DEF IInv, Typed
  <2> QED BY <2>3, <2>4, NumbersStay
<1> QED BY <1>1, <1>2, <1>3, <1>4, <1>5, <1>6

\* An operation joins the queue of its generation's lock.
LEMMA EnqueueIs ==
    ASSUME IInv, NEW o \in Op, ops[o].phase \in {"idle", "dialing"}, NEW d \in Demux,
           ops' \in [Op -> Progress], \A p \in Op : p # o => ops'[p] = ops[p],
           ops'[o].phase = "queued", ops'[o].demux = d,
           queue' = [queue EXCEPT ![d] = Append(@, o)], packetNum' = packetNum
    PROVE  queue' \in [Demux -> Seq(Op)] /\ QueueExact' /\ Counted'
<1>1. queue[d] \in Seq(Op) /\ queue \in [Demux -> Seq(Op)] /\ queue' = [queue EXCEPT ![d] = Append(queue[d], o)]
  BY DEF IInv, Typed
<1>2. queue'[d] = Append(queue[d], o) /\ \A e \in Demux : e # d => queue'[e] = queue[e]
  BY <1>1
<1>3. queue' \in [Demux -> Seq(Op)]
  BY <1>1
<1>4. /\ Len(queue[d]) \in Nat /\ Len(queue'[d]) = Len(queue[d]) + 1
      /\ queue'[d][Len(queue[d]) + 1] = o
      /\ \A i \in 1..Len(queue[d]) : queue'[d][i] = queue[d][i]
  BY <1>1, <1>2
<1>5. /\ \A e \in Demux : \A i \in 1..Len(queue[e]) : ops[queue[e][i]].phase = "queued" /\ ops[queue[e][i]].demux = e
      /\ \A e \in Demux : \A i \in 1..Len(queue[e]), j \in 1..Len(queue[e]) : queue[e][i] = queue[e][j] => i = j
  BY DEF IInv, QueueExact
<1>6. \A e \in Demux : \A i \in 1..Len(queue[e]) : queue[e][i] \in Op /\ queue[e][i] # o
  BY <1>1, <1>5, ElementOfSeq
<1>7. ASSUME NEW e \in Demux, NEW i \in 1..Len(queue'[e])
      PROVE  \/ i \in 1..Len(queue[e]) /\ queue'[e][i] = queue[e][i]
             \/ e = d /\ i = Len(queue[d]) + 1 /\ queue'[e][i] = o
  BY <1>2, <1>4, <1>7
<1>8. QueueExact'
  <2>1. ASSUME NEW e \in Demux, NEW i \in 1..Len(queue'[e])
        PROVE  ops'[queue'[e][i]].phase = "queued" /\ ops'[queue'[e][i]].demux = e
    <3>1. CASE i \in 1..Len(queue[e]) /\ queue'[e][i] = queue[e][i]
      BY <1>5, <1>6, <3>1
    <3>2. CASE e = d /\ queue'[e][i] = o
      BY <3>2
    <3> QED BY <1>7, <3>1, <3>2
  <2>2. ASSUME NEW e \in Demux, NEW i \in 1..Len(queue'[e]), NEW j \in 1..Len(queue'[e]),
               queue'[e][i] = queue'[e][j]
        PROVE  i = j
    <3>1. /\ \/ i \in 1..Len(queue[e]) /\ queue'[e][i] = queue[e][i]
             \/ e = d /\ i = Len(queue[d]) + 1 /\ queue'[e][i] = o
          /\ \/ j \in 1..Len(queue[e]) /\ queue'[e][j] = queue[e][j]
             \/ e = d /\ j = Len(queue[d]) + 1 /\ queue'[e][j] = o
      BY <1>7
    <3> QED BY <1>5, <1>6, <2>2, <3>1
  <2> QED BY <2>1, <2>2 DEF QueueExact
<1>9. Counted'
  <2> SUFFICES ASSUME NEW e \in Demux
               PROVE  packetNum[e] + Len(queue'[e]) <= Cardinality(PastDial(e)')
    BY DEF Counted
  <2>1. IsFiniteSet(PastDial(e)') /\ IsFiniteSet(PastDial(e))
    BY OpAssumption, FS_Subset DEF PastDial
  <2>2. packetNum[e] + Len(queue[e]) <= Cardinality(PastDial(e)) /\ packetNum[e] \in Nat
    BY DEF IInv, Counted, Typed
  <2>3. CASE e = d
    <3>1. o \notin PastDial(e) /\ PastDial(e) \cup {o} \subseteq PastDial(e)'
      BY <2>3 DEF PastDial
    <3>2. IsFiniteSet(PastDial(e) \cup {o}) /\ Cardinality(PastDial(e) \cup {o}) = Cardinality(PastDial(e)) + 1
      BY <2>1, <3>1, FS_AddElement
    <3>3. /\ Cardinality(PastDial(e) \cup {o}) <= Cardinality(PastDial(e)')
          /\ Cardinality(PastDial(e)') \in Nat /\ Cardinality(PastDial(e)) \in Nat
      BY <2>1, <3>1, FS_Subset, FS_CardinalityType
    <3>4. Len(queue'[e]) = Len(queue[e]) + 1 /\ Len(queue[e]) \in Nat
      BY <1>4, <2>3
    <3> QED BY <2>2, <3>2, <3>3, <3>4
  <2>4. CASE e # d
    <3>1. PastDial(e) \subseteq PastDial(e)'
      BY DEF PastDial
    <3>2. /\ Cardinality(PastDial(e)) <= Cardinality(PastDial(e)')
          /\ Cardinality(PastDial(e)') \in Nat /\ Cardinality(PastDial(e)) \in Nat
      BY <2>1, <3>1, FS_Subset, FS_CardinalityType
    <3>3. Len(queue'[e]) = Len(queue[e]) /\ Len(queue[e]) \in Nat
      BY <1>1, <1>2, <2>4, LenProperties
    <3> QED BY <2>2, <3>2, <3>3
  <2> QED BY <2>3, <2>4
<1> QED BY <1>3, <1>8, <1>9

\* A step that moves one operation that is not in the maps and touches no socket.
LEMMA ApartStep ==
    ASSUME IInv, NEW o \in Op, ops[o].phase \in {"idle", "dialing"},
           ops' \in [Op -> Progress], \A p \in Op : p # o => ops'[p] = ops[p],
           ops'[o].phase \in {"dialing", "queued", "failed"},
           ops'[o].demux \in Demux, ops'[o].demux <= demux,
           ops'[o].phase # "failed" => ops'[o].demux = demux \/ ops'[o].demux \in hurried,
           ops'[o].phase = "dialing" => ops'[o].socket = NoSocket,
           ops'[o].phase = "queued" => ops'[o].socket \in Socket,
           ops'[o].socket # NoSocket =>
               sockets[ops'[o].socket] # "unused" /\ readerOf[ops'[o].socket] \in {0, ops'[o].demux},
           UNCHANGED <<hurried, sockets, readerOf, wire, socket, demux, dead, stopped, readSocket,
                       packetNum, pending, holder, user>>,
           queue' \in [Demux -> Seq(Op)], QueueExact', Counted'
    PROVE  IInv'
<1>1. WaitersExact' /\ LockHeldByLiveOp' /\ RepliesMatch' /\ WireExact' /\ NumbersExact'
  BY ApartIs
<1>2. Typed'
  BY DEF IInv, Typed
<1>3. OpsExact'
  BY DEF IInv, OpsExact, Begun
<1>4. SocketsExact'
  <2>1. \A p \in Op : ops'[p].socket # NoSocket =>
           sockets[ops'[p].socket] # "unused" /\ readerOf[ops'[p].socket] \in {0, ops'[p].demux}
    BY DEF IInv, SocketsExact
  <2> QED BY <2>1 DEF IInv, SocketsExact
<1>5. GenerationsExact'
  BY DEF IInv, GenerationsExact, InFlight
<1>6. RejectedAtOnce' /\ IdleReconnectRecovers'
  BY DEF IInv, RejectedAtOnce, IdleReconnectRecovers, CurrentReader
<1> QED BY <1>1, <1>2, <1>3, <1>4, <1>5, <1>6 DEF IInv

LEMMA CallKeeps == ASSUME IInv, NEW o \in Op, Call(o)  PROVE IInv'
<1>1. /\ UNCHANGED <<hurried, sockets, readerOf, wire, socket, demux, dead, stopped, readSocket,
                   packetNum, pending, holder, user>>
      /\ ops[o].phase = "idle"
  BY DEF Call
<1>2. ops[o] \in Progress /\ ops \in [Op -> Progress] /\ demux \in Demux /\ demux <= demux
  BY DemuxIs DEF IInv, Typed
<1>3. ops[o].socket = NoSocket
  BY <1>1 DEF IInv, OpsExact
<1>4. CASE /\ socket # NoSocket
           /\ ops' = [ops EXCEPT ![o] = [@ EXCEPT !.phase = "queued", !.demux = demux, !.socket = socket]]
           /\ queue' = [queue EXCEPT ![demux] = Append(@, o)]
  <2>1. socket \in Socket /\ sockets[socket] # "unused" /\ readerOf[socket] = demux
    BY <1>4 DEF IInv, Typed, SocketsExact
  <2>2. ops'[o] = [ops[o] EXCEPT !.phase = "queued", !.demux = demux, !.socket = socket]
    BY <1>2, <1>4
  <2>3. ops'[o] \in Progress /\ ops'[o].phase = "queued" /\ ops'[o].demux = demux /\ ops'[o].socket = socket
    BY <1>2, <2>1, <2>2 DEF Progress, Phases
  <2>4. \A p \in Op : p # o => ops'[p] = ops[p]
    BY <1>2, <1>4
  <2>5. ops' \in [Op -> Progress]
    BY <1>2, <1>4, <2>3, <2>4
  <2>6. queue' \in [Demux -> Seq(Op)] /\ QueueExact' /\ Counted'
    BY <1>1, <1>2, <1>4, <2>3, <2>4, <2>5, EnqueueIs
  <2> QED BY <1>1, <1>2, <2>1, <2>3, <2>4, <2>5, <2>6, ApartStep
<1>5. CASE ops' = [ops EXCEPT ![o] = [@ EXCEPT !.phase = "dialing", !.demux = demux]] /\ queue' = queue
  <2>1. ops'[o] = [ops[o] EXCEPT !.phase = "dialing", !.demux = demux]
    BY <1>2, <1>5
  <2>2. ops'[o] \in Progress /\ ops'[o].phase = "dialing" /\ ops'[o].demux = demux /\ ops'[o].socket = NoSocket
    BY <1>2, <1>3, <2>1 DEF Progress, Phases
  <2>3. \A p \in Op : p # o => ops'[p] = ops[p]
    BY <1>2, <1>5
  <2>4. ops' \in [Op -> Progress]
    BY <1>2, <1>5, <2>2, <2>3
  <2>5. QueueExact'
    BY <1>1, <1>5, <2>3, QueueStays
  <2>6. Counted'
    <3>1. \A d \in Demux : packetNum'[d] + Len(queue'[d]) <= packetNum[d] + Len(queue[d])
      BY <1>1, <1>5, LenProperties DEF IInv, Typed
    <3>2. \A d \in Demux : PastDial(d) \subseteq PastDial(d)'
      BY <1>1, <2>3 DEF PastDial
    <3>3. packetNum' \in [Demux -> Nat] /\ queue' \in [Demux -> Seq(Op)]
      BY <1>1, <1>5 DEF IInv, Typed
    <3> QED BY <3>1, <3>2, <3>3, CountedStays
  <2>7. queue' \in [Demux -> Seq(Op)]
    BY <1>5 DEF IInv, Typed
  <2> QED BY <1>1, <1>2, <2>2, <2>3, <2>4, <2>5, <2>6, <2>7, ApartStep
<1> QED BY <1>4, <1>5 DEF Call

LEMMA DialFailsKeeps == ASSUME IInv, NEW o \in Op, DialFails(o)  PROVE IInv'
<1>1. /\ UNCHANGED <<hurried, sockets, readerOf, wire, socket, demux, dead, stopped, readSocket,
                   packetNum, pending, holder, queue, user>>
      /\ ops[o].phase = "dialing" /\ ops' = [ops EXCEPT ![o].phase = "failed"]
  BY DEF DialFails
<1>2. ops[o] \in Progress /\ ops \in [Op -> Progress]
  BY DEF IInv, Typed
<1>3. ops[o].socket = NoSocket /\ ops[o].demux \in Demux /\ ops[o].demux <= demux
  BY <1>1 DEF IInv, OpsExact, GenerationsExact
<1>4. ops'[o] = [ops[o] EXCEPT !.phase = "failed"]
  BY <1>1, <1>2
<1>5. ops'[o] \in Progress /\ ops'[o].phase = "failed" /\ ops'[o].demux = ops[o].demux /\ ops'[o].socket = NoSocket
  BY <1>2, <1>3, <1>4 DEF Progress, Phases
<1>6. \A p \in Op : p # o => ops'[p] = ops[p]
  BY <1>1, <1>2
<1>7. ops' \in [Op -> Progress]
  BY <1>1, <1>2, <1>5, <1>6
<1>8. QueueExact'
  BY <1>1, <1>6, QueueStays
<1>9. Counted'
  <2>1. \A d \in Demux : packetNum'[d] + Len(queue'[d]) <= packetNum[d] + Len(queue[d])
    BY <1>1, LenProperties DEF IInv, Typed
  <2>2. \A d \in Demux : PastDial(d) \subseteq PastDial(d)'
    BY <1>1, <1>6 DEF PastDial
  <2>3. packetNum' \in [Demux -> Nat] /\ queue' \in [Demux -> Seq(Op)]
    BY <1>1 DEF IInv, Typed
  <2> QED BY <2>1, <2>2, <2>3, CountedStays
<1>10. queue' \in [Demux -> Seq(Op)]
  BY <1>1 DEF IInv, Typed
<1> QED BY <1>1, <1>3, <1>5, <1>6, <1>7, <1>8, <1>9, <1>10, ApartStep

\* reconnect() giving up, or nothing at all.
LEMMA UserStep ==
    ASSUME IInv, UNCHANGED <<hurried, sockets, readerOf, wire, socket, demux, dead, stopped, readSocket,
                             packetNum, pending, holder, queue, ops>>,
           user' \in {"idle", "dialing"}
    PROVE  IInv'
<1>1. Typed'
  BY DEF IInv, Typed
<1>2. OpsExact' /\ SocketsExact' /\ GenerationsExact' /\ QueueExact'
  BY DEF IInv, OpsExact, SocketsExact, GenerationsExact, QueueExact, Begun, InFlight
<1>3. WireExact' /\ NumbersExact' /\ WaitersExact' /\ Counted'
  BY DEF IInv, WireExact, NumbersExact, Numbered, Written, WaitersExact, PendingOps, Counted, PastDial
<1>4. RepliesMatch' /\ LockHeldByLiveOp' /\ RejectedAtOnce' /\ IdleReconnectRecovers'
  BY DEF IInv, RepliesMatch, LockHeldByLiveOp, RejectedAtOnce, IdleReconnectRecovers, CurrentReader
<1> QED BY <1>1, <1>2, <1>3, <1>4 DEF IInv

\* A new socket: nothing is on it, and from now on it is the only one whose failure rejects.
LEMMA DialedIs ==
    ASSUME IInv, NEW s \in Socket, Dialed(s), UNCHANGED <<demux, stopped>>
    PROVE  /\ sockets[s] = "unused" /\ wire[s] = <<>>
           /\ \A o \in Op : ops[o].socket # s
           /\ readerOf' \in [Socket -> {0} \cup Demux] /\ readSocket' \in [Demux -> Socket \cup {NoSocket}]
           /\ readerOf'[s] = demux /\ \A t \in Socket : t # s => readerOf'[t] = readerOf[t]
           /\ \A t \in Socket : readerOf'[t] <= demux
           /\ \A t \in Socket : CurrentReader(t)' => t = s
<1>1. /\ sockets[s] = "unused" /\ readerOf' = [readerOf EXCEPT ![s] = demux]
      /\ readSocket' = [readSocket EXCEPT ![demux] = s]
  BY DEF Dialed
<1>2. demux \in Demux /\ demux \in Nat
  BY DemuxIs DEF IInv, Typed
<1>3. wire[s] = <<>> /\ \A o \in Op : ops[o].socket # s
  BY <1>1, PlaceholdersAssumption DEF IInv, SocketsExact
<1>4. /\ readerOf' \in [Socket -> {0} \cup Demux] /\ readSocket' \in [Demux -> Socket \cup {NoSocket}]
      /\ readerOf'[s] = demux /\ \A t \in Socket : t # s => readerOf'[t] = readerOf[t]
      /\ readSocket'[demux] = s
  BY <1>1, <1>2 DEF IInv, Typed
<1>5. \A t \in Socket : readerOf'[t] <= demux
  BY <1>2, <1>4 DEF IInv, SocketsExact
<1>6. ASSUME NEW t \in Socket, CurrentReader(t)'  PROVE t = s
  <2>1. readerOf'[t] # 0 /\ ~stopped[readerOf'[t]] /\ readSocket'[readerOf'[t]] = t
    BY <1>6 DEF CurrentReader
  <2>2. readerOf'[t] \in Demux
    BY <1>4, <2>1
  <2>3. ~(readerOf'[t] < demux) /\ readerOf'[t] <= demux /\ readerOf'[t] \in Nat
    BY <1>5, <2>1, <2>2, DemuxIs DEF IInv, GenerationsExact
  <2>4. readerOf'[t] = demux
    BY <1>2, <2>3
  <2> QED BY <1>4, <2>1, <2>4
<1> QED BY <1>1, <1>3, <1>4, <1>5, <1>6

\* The socket a dial made is not on the way of any operation that sends or waits.
LEMMA DialedRejects ==
    ASSUME IInv, NEW s \in Socket, Dialed(s), UNCHANGED <<demux, stopped>>,
           \A o \in Op : ops'[o].phase \in {"sending", "waiting"} =>
               ops[o].phase = ops'[o].phase /\ ops'[o].socket = ops[o].socket
    PROVE  RejectedAtOnce'
<1> SUFFICES ASSUME NEW o \in Op, ops'[o].phase \in {"sending", "waiting"}, CurrentReader(ops[o].socket)'
             PROVE  FALSE
  BY DEF RejectedAtOnce, CurrentReader
<1>1. ops[o].phase \in {"sending", "waiting"}
  OBVIOUS
<1>2. ops[o].socket \in Socket
  BY <1>1 DEF IInv, OpsExact, Begun
<1>3. ops[o].socket # s
  BY DialedIs
<1> QED BY <1>2, <1>3, DialedIs

LEMMA ReconnectDoneKeeps == ASSUME IInv, NEW s \in Socket, ReconnectDone(s)  PROVE IInv'
<1>1. /\ UNCHANGED <<hurried, wire, demux, dead, stopped, packetNum, pending, holder, queue, ops>>
      /\ Dialed(s) /\ sockets' = [sockets EXCEPT ![s] = "open"] /\ socket' = s /\ user' = "idle"
  BY DEF ReconnectDone
<1>2. /\ wire[s] = <<>> /\ \A o \in Op : ops[o].socket # s
      /\ readerOf' \in [Socket -> {0} \cup Demux] /\ readSocket' \in [Demux -> Socket \cup {NoSocket}]
      /\ readerOf'[s] = demux /\ \A t \in Socket : t # s => readerOf'[t] = readerOf[t]
      /\ \A t \in Socket : readerOf'[t] <= demux
  BY <1>1, DialedIs
<1>3. /\ sockets' \in [Socket -> {"unused", "open", "destroyed"}]
      /\ sockets'[s] = "open" /\ \A t \in Socket : t # s => sockets'[t] = sockets[t]
  BY <1>1 DEF IInv, Typed
<1>4. Typed'
  BY <1>1, <1>2, <1>3 DEF IInv, Typed
<1>5. SocketsExact'
  <2>1. \A o \in Op : ops[o].socket # NoSocket =>
           /\ ops[o].socket \in Socket /\ ops[o].socket # s
           /\ sockets[ops[o].socket] # "unused" /\ readerOf[ops[o].socket] \in {0, ops[o].demux}
    BY <1>2 DEF IInv, Typed, Progress, SocketsExact
  <2>2. \A o \in Op : ops'[o].socket # NoSocket =>
           sockets'[ops'[o].socket] # "unused" /\ readerOf'[ops'[o].socket] \in {0, ops'[o].demux}
    BY <1>1, <1>2, <1>3, <2>1
  <2>3. \A t \in Socket : sockets'[t] = "unused" => readerOf'[t] = 0 /\ wire'[t] = <<>>
    BY <1>1, <1>2, <1>3 DEF IInv, SocketsExact
  <2> QED BY <1>1, <1>2, <1>3, <2>2, <2>3 DEF SocketsExact
<1>6. OpsExact' /\ GenerationsExact' /\ QueueExact'
  BY <1>1 DEF IInv, OpsExact, GenerationsExact, QueueExact, Begun, InFlight
<1>7. WireExact' /\ NumbersExact' /\ WaitersExact' /\ Counted'
  BY <1>1 DEF IInv, WireExact, NumbersExact, Numbered, Written, WaitersExact, PendingOps, Counted, PastDial
<1>8. RepliesMatch' /\ LockHeldByLiveOp' /\ IdleReconnectRecovers'
  BY <1>1 DEF IInv, RepliesMatch, LockHeldByLiveOp, IdleReconnectRecovers
<1>9. RejectedAtOnce'
  BY <1>1, DialedRejects
<1> QED BY <1>4, <1>5, <1>6, <1>7, <1>8, <1>9 DEF IInv

LEMMA DialDoneKeeps == ASSUME IInv, NEW o \in Op, NEW s \in Socket, DialDone(o, s)  PROVE IInv'
<1>1. /\ UNCHANGED <<hurried, wire, demux, stopped, packetNum, user>>
      /\ Dialed(s) /\ ops[o].phase = "dialing"
  BY DEF DialDone
<1>2. /\ wire[s] = <<>> /\ \A p \in Op : ops[p].socket # s
      /\ readerOf' \in [Socket -> {0} \cup Demux] /\ readSocket' \in [Demux -> Socket \cup {NoSocket}]
      /\ readerOf'[s] = demux /\ \A t \in Socket : t # s => readerOf'[t] = readerOf[t]
      /\ \A t \in Socket : readerOf'[t] <= demux
  BY <1>1, DialedIs
<1>3. /\ ops[o] \in Progress /\ ops \in [Op -> Progress] /\ ops[o].demux \in Demux /\ ops[o].demux <= demux
      /\ demux \in Nat /\ ops[o].demux \in Nat
      /\ ops[o].demux = demux \/ ops[o].demux \in hurried
  BY <1>1, DemuxIs DEF IInv, Typed, OpsExact, GenerationsExact, InFlight
<1>4. \A p \in Op : ops[p].socket # NoSocket =>
           /\ ops[p].socket \in Socket /\ ops[p].socket # s
           /\ sockets[ops[p].socket] # "unused" /\ readerOf'[ops[p].socket] \in {0, ops[p].demux}
  BY <1>2 DEF IInv, Typed, Progress, SocketsExact
<1>5. CASE /\ ~stopped[ops[o].demux]
           /\ sockets' = [sockets EXCEPT ![s] = "open"]
           /\ socket' = s
           /\ ops' = [ops EXCEPT ![o] = [@ EXCEPT !.phase = "queued", !.socket = s]]
           /\ queue' = [queue EXCEPT ![ops[o].demux] = Append(@, o)]
           /\ UNCHANGED <<dead, pending, holder>>
  <2>1. ops[o].demux = demux
    <3>1. ~(ops[o].demux < demux)
      BY <1>3, <1>5 DEF IInv, GenerationsExact
    <3> QED BY <1>3, <3>1
  <2>2. /\ sockets' \in [Socket -> {"unused", "open", "destroyed"}]
        /\ sockets'[s] = "open" /\ \A t \in Socket : t # s => sockets'[t] = sockets[t]
    BY <1>5 DEF IInv, Typed
  <2>3. ops'[o] = [ops[o] EXCEPT !.phase = "queued", !.socket = s]
    BY <1>3, <1>5
  <2>4. ops'[o] \in Progress /\ ops'[o].phase = "queued" /\ ops'[o].demux = demux /\ ops'[o].socket = s
    BY <1>3, <2>1, <2>3 DEF Progress, Phases
  <2>5. \A p \in Op : p # o => ops'[p] = ops[p]
    BY <1>3, <1>5
  <2>6. ops' \in [Op -> Progress]
    BY <1>3, <1>5, <2>4, <2>5
  <2>7. queue' \in [Demux -> Seq(Op)] /\ QueueExact' /\ Counted'
    BY <1>1, <1>3, <1>5, <2>1, <2>4, <2>5, <2>6, EnqueueIs
  <2>8. WaitersExact' /\ LockHeldByLiveOp' /\ RepliesMatch' /\ WireExact' /\ NumbersExact'
    BY <1>1, <1>5, <2>4, <2>5, <2>6, ApartIs
  <2>9. Typed'
    BY <1>1, <1>2, <1>5, <2>2, <2>6, <2>7 DEF IInv, Typed
  <2>10. OpsExact'
    BY <1>3, <2>1, <2>4, <2>5 DEF IInv, OpsExact, Begun
  <2>11. SocketsExact'
    <3>1. \A p \in Op : ops'[p].socket # NoSocket =>
             sockets'[ops'[p].socket] # "unused" /\ readerOf'[ops'[p].socket] \in {0, ops'[p].demux}
      BY <1>2, <1>4, <2>2, <2>4, <2>5
    <3>2. \A t \in Socket : sockets'[t] = "unused" => readerOf'[t] = 0 /\ wire'[t] = <<>>
      BY <1>1, <1>2, <2>2 DEF IInv, SocketsExact
    <3> QED BY <1>1, <1>2, <1>5, <2>2, <3>1, <3>2 DEF SocketsExact
  <2>12. GenerationsExact'
    BY <1>1, <1>3, <2>1, <2>4, <2>5 DEF IInv, GenerationsExact, InFlight
  <2>13. RejectedAtOnce'
    BY <1>1, <2>4, <2>5, DialedRejects
  <2>14. IdleReconnectRecovers'
    BY <1>1, <1>5 DEF IInv, IdleReconnectRecovers
  <2> QED BY <2>7, <2>8, <2>9, <2>10, <2>11, <2>12, <2>13, <2>14 DEF IInv
<1>6. CASE /\ stopped[ops[o].demux]
           /\ sockets' = [sockets EXCEPT ![s] = IF dead # 0 THEN "open" ELSE "destroyed"]
           /\ socket' = IF dead # 0 THEN s ELSE NoSocket
           /\ dead' = IF dead # 0 THEN dead ELSE ops[o].demux
           /\ Fail({o}, IF dead # 0 THEN {} ELSE PendingOps(demux))
           /\ UNCHANGED queue
  <2> DEFINE R == IF dead # 0 THEN {} ELSE PendingOps(demux)
  <2>1. R \in SUBSET Op /\ \A p \in R : ops[p].phase \in {"sending", "waiting"}
    BY DEF IInv, Typed, WaitersExact
  <2>2. {o} \in SUBSET Op /\ Fail({o}, R) /\ \A p \in {o} : InFlight(p)
    BY <1>1, <1>6 DEF InFlight
  <2> HIDE DEF R
  <2>3. /\ ops' \in [Op -> Progress] /\ holder' \in [Demux -> Op \cup {NoOp}]
        /\ pending' \in [Demux -> SUBSET Packet]
        /\ \A p \in Op : ops'[p].demux = ops[p].demux /\ ops'[p].socket = ops[p].socket /\ ops'[p].num = ops[p].num
    BY <2>1, <2>2, FailOps
  <2>4. OpsExact' /\ WaitersExact' /\ LockHeldByLiveOp' /\ RepliesMatch'
    BY <2>1, <2>2, FailKeeps
  <2>5. /\ \A p \in Op : InFlight(p)' => InFlight(p)
        /\ \A p \in Op : Sending(p)' \/ ops'[p].phase = "waiting" => ops[p].phase \in {"sending", "expired", "waiting"}
        /\ \A p \in Op : ops'[p].phase \in {"sending", "waiting"} => ops'[p].phase = ops[p].phase
        /\ \A p \in Op : ops'[p].phase = "idle" <=> ops[p].phase = "idle"
        /\ \A p \in Op : ops'[p].phase \in {ops[p].phase, "expired", "failed"}
        /\ \A p \in Op : ops[p].phase = "queued" /\ p \notin {o} => ops'[p].phase = "queued"
        /\ \A d \in Demux : PastDial(d) \subseteq PastDial(d)'
    BY <2>1, <2>2, FailKeeps
  <2>6. /\ sockets' \in [Socket -> {"unused", "open", "destroyed"}]
        /\ sockets'[s] # "unused" /\ \A t \in Socket : t # s => sockets'[t] = sockets[t]
    BY <1>6 DEF IInv, Typed
  <2>7. Typed'
    BY <1>1, <1>2, <1>3, <1>6, <2>3, <2>6 DEF IInv, Typed
  <2>8. SocketsExact'
    <3>1. \A p \in Op : ops'[p].socket # NoSocket =>
             sockets'[ops'[p].socket] # "unused" /\ readerOf'[ops'[p].socket] \in {0, ops'[p].demux}
      BY <1>4, <2>3, <2>6
    <3>2. \A t \in Socket : sockets'[t] = "unused" => readerOf'[t] = 0 /\ wire'[t] = <<>>
      BY <1>1, <1>2, <2>6 DEF IInv, SocketsExact
    <3> QED BY <1>1, <1>2, <1>6, <2>6, <3>1, <3>2 DEF SocketsExact
  <2>9. GenerationsExact'
    BY <1>1, <2>3, <2>5, GenerationsStay
  <2>10. QueueExact'
    <3>1. \A p \in Op : ops[p].phase = "queued" => ops'[p].phase = "queued" /\ ops'[p].demux = ops[p].demux
      BY <1>1, <2>3, <2>5
    <3> QED BY <1>6, <3>1, QueueStays
  <2>11. WireExact'
    <3>1. \A p \in Op : ops[p].phase \notin {"idle", "dialing", "queued"} =>
              ops'[p].phase \notin {"idle", "dialing", "queued"}
      BY <2>5
    <3> QED BY <1>1, <2>3, <3>1, WireStays
  <2>12. NumbersExact'
    <3>1. \A p \in Op : Numbered(p)' => Numbered(p)
      BY <1>1, <2>5 DEF Numbered, Written, Sending
    <3>2. packetNum' \in [Demux -> Nat] /\ \A d \in Demux : packetNum[d] <= packetNum'[d]
      BY <1>1 DEF IInv, Typed
    <3> QED BY <2>3, <3>1, <3>2, NumbersStay
  <2>13. Counted'
    <3>1. \A d \in Demux : packetNum'[d] + Len(queue'[d]) <= packetNum[d] + Len(queue[d])
      BY <1>1, <1>6, LenProperties DEF IInv, Typed
    <3>2. packetNum' \in [Demux -> Nat] /\ queue' \in [Demux -> Seq(Op)]
      BY <2>7 DEF Typed
    <3> QED BY <2>5, <3>1, <3>2, CountedStays
  <2>14. RejectedAtOnce'
    BY <1>1, <2>3, <2>5, DialedRejects
  <2>15. IdleReconnectRecovers'
    BY <1>1, <1>3, <1>6 DEF IInv, IdleReconnectRecovers
  <2> QED BY <2>4, <2>7, <2>8, <2>9, <2>10, <2>11, <2>12, <2>13, <2>14, <2>15 DEF IInv
<1> QED BY <1>5, <1>6 DEF DialDone

LEMMA ReconnectKeeps == ASSUME IInv, Reconnect  PROVE IInv'
<1> DEFINE E == SendsOn({socket})
           R == PendingOps(demux)
<1>1. /\ UNCHANGED <<readerOf, wire, readSocket, packetNum, queue>>
      /\ demux <= MaxReconnects /\ user' = "dialing" /\ demux' = demux + 1 /\ socket' = NoSocket
      /\ stopped' = [stopped EXCEPT ![demux] = TRUE]
      /\ hurried' = IF \E o \in Op : InFlight(o) THEN hurried \cup {demux} ELSE hurried
      /\ sockets' = [s \in Socket |-> IF s = socket THEN "destroyed" ELSE sockets[s]]
      /\ Fail(E, R)
      /\ dead' = ErrorAfterClose(Ending(E, R))
  BY DEF Reconnect
<1>21. demux' = demux + 1
  BY <1>1
<1>2. demux \in Demux /\ demux \in Nat /\ demux' \in Demux
  BY <1>1, DemuxIs DEF IInv, Typed
<1>3. E \in SUBSET Op /\ \A o \in E : ops[o].phase \in {"sending", "expired", "waiting"} /\ InFlight(o)
  BY DEF SendsOn, InFlight
<1>4. R \in SUBSET Op /\ \A o \in R : ops[o].phase \in {"sending", "waiting"}
  BY <1>2 DEF IInv, WaitersExact
<1> HIDE DEF E, R
<1>5. /\ ops' \in [Op -> Progress] /\ holder' \in [Demux -> Op \cup {NoOp}]
      /\ pending' \in [Demux -> SUBSET Packet]
      /\ \A p \in Op : ops'[p].demux = ops[p].demux /\ ops'[p].socket = ops[p].socket /\ ops'[p].num = ops[p].num
  BY <1>1, <1>3, <1>4, FailOps
<1>6. OpsExact' /\ WaitersExact' /\ LockHeldByLiveOp' /\ RepliesMatch'
  BY <1>1, <1>3, <1>4, FailKeeps
<1>7. /\ \A p \in Op : InFlight(p)' => InFlight(p)
      /\ \A p \in Op : Sending(p)' \/ ops'[p].phase = "waiting" => ops[p].phase \in {"sending", "expired", "waiting"}
      /\ \A p \in Op : ops'[p].phase \in {"sending", "waiting"} => ops'[p].phase = ops[p].phase
      /\ \A p \in Op : ops'[p].phase = "idle" <=> ops[p].phase = "idle"
      /\ \A p \in Op : ops'[p].phase \in {ops[p].phase, "expired", "failed"}
      /\ \A p \in Op : ops[p].phase = "queued" /\ p \notin E => ops'[p].phase = "queued"
      /\ \A d \in Demux : PastDial(d) \subseteq PastDial(d)'
  BY <1>1, <1>3, <1>4, FailKeeps
<1>8. /\ sockets' \in [Socket -> {"unused", "open", "destroyed"}]
      /\ \A t \in Socket : sockets'[t] = "unused" <=> sockets[t] = "unused"
  <2>1. socket \in Socket => sockets[socket] # "unused"
    BY PlaceholdersAssumption DEF IInv, SocketsExact
  <2> QED BY <1>1, <2>1 DEF IInv, Typed
<1>9. stopped' \in [Demux -> BOOLEAN] /\ \A d \in Demux : stopped'[d] = IF d = demux THEN TRUE ELSE stopped[d]
  BY <1>1, <1>2 DEF IInv, Typed
<1>10. hurried' \subseteq Demux /\ hurried \subseteq hurried' /\ ((\E o \in Op : InFlight(o)) => demux \in hurried')
  BY <1>1, <1>2 DEF IInv, Typed
<1>11. dead' \in {0, demux} /\ (dead' # 0 => \E o \in Op : InFlight(o))
  <2>1. \A o \in Ending(E, R) : o \in Op /\ InFlight(o)
    BY <1>3, <1>4 DEF Ending, InFlight
  <2> QED BY <1>1, <2>1 DEF ErrorAfterClose
<1>12. Typed'
  <2>1. dead' \in {0} \cup Demux
    BY <1>2, <1>11
  <2> QED BY <1>1, <1>2, <1>5, <1>8, <1>9, <1>10, <2>1 DEF IInv, Typed
<1>13. SocketsExact'
  <2>1. \A p \in Op : ops'[p].socket # NoSocket =>
           sockets'[ops'[p].socket] # "unused" /\ readerOf'[ops'[p].socket] \in {0, ops'[p].demux}
    BY <1>1, <1>5, <1>8 DEF IInv, Typed, Progress, SocketsExact
  <2>2. \A t \in Socket : sockets'[t] = "unused" => readerOf'[t] = 0 /\ wire'[t] = <<>>
    BY <1>1, <1>8 DEF IInv, SocketsExact
  <2>3. \A t \in Socket : readerOf'[t] <= demux'
    <3>2. readerOf' = readerOf
      BY <1>1
    <3> SUFFICES ASSUME NEW t \in Socket  PROVE readerOf[t] <= demux + 1
      BY <1>21, <3>2
    <3>1. readerOf[t] <= demux /\ readerOf[t] \in Nat
      <4>1. readerOf[t] \in {0} \cup Demux
        BY DEF IInv, Typed
      <4>2. readerOf[t] <= demux
        BY DEF IInv, SocketsExact
      <4>3. \A d \in Demux : d \in Nat
        BY DemuxIs
      <4>4. readerOf[t] \in Nat
        BY <4>1, <4>3
      <4> QED BY <4>2, <4>4
    <3> QED BY <1>2, <3>1
  <2> QED BY <1>1, <2>1, <2>2, <2>3 DEF SocketsExact
<1>14. GenerationsExact'
  <2>1. ASSUME NEW d \in Demux  PROVE stopped'[d] <=> d < demux'
    <3>1. (stopped[d] <=> d < demux) /\ d \in Nat
      BY DemuxIs DEF IInv, GenerationsExact
    <3>2. stopped'[d] = IF d = demux THEN TRUE ELSE stopped[d]
      BY <1>9
    <3>3. CASE d = demux
      BY <1>2, <1>21, <3>2, <3>3
    <3>4. CASE d # demux
      BY <1>2, <1>21, <3>1, <3>2, <3>4
    <3> QED BY <3>3, <3>4
  <2>2. ASSUME NEW o \in Op, ops'[o].phase # "idle"  PROVE ops'[o].demux <= demux'
    <3>1. ops[o].demux <= demux /\ ops[o].demux \in Demux /\ ops'[o].demux = ops[o].demux
      BY <1>5, <1>7, <2>2 DEF IInv, OpsExact, GenerationsExact
    <3>2. ops[o].demux \in Nat
      BY <3>1, DemuxIs
    <3> QED BY <1>2, <1>21, <3>1, <3>2
  <2>3. ASSUME NEW o \in Op, InFlight(o)'  PROVE ops'[o].demux = demux' \/ ops'[o].demux \in hurried'
    BY <1>5, <1>7, <1>10, <2>3 DEF IInv, GenerationsExact
  <2> QED BY <2>1, <2>2, <2>3 DEF GenerationsExact
<1>15. QueueExact'
  <2>1. \A p \in Op : ops[p].phase = "queued" => ops'[p].phase = "queued" /\ ops'[p].demux = ops[p].demux
    BY <1>3, <1>5, <1>7
  <2> QED BY <1>1, <2>1, QueueStays
<1>16. WireExact'
  <2>1. \A p \in Op : ops[p].phase \notin {"idle", "dialing", "queued"} =>
            ops'[p].phase \notin {"idle", "dialing", "queued"}
    BY <1>7
  <2> QED BY <1>1, <1>5, <2>1, WireStays
<1>17. NumbersExact'
  <2>1. \A p \in Op : Numbered(p)' => Numbered(p)
    BY <1>1, <1>7 DEF Numbered, Written, Sending
  <2>2. packetNum' \in [Demux -> Nat] /\ \A d \in Demux : packetNum[d] <= packetNum'[d]
    BY <1>1 DEF IInv, Typed
  <2> QED BY <1>5, <2>1, <2>2, NumbersStay
<1>18. Counted'
  <2>1. \A d \in Demux : packetNum'[d] + Len(queue'[d]) <= packetNum[d] + Len(queue[d])
    BY <1>1, LenProperties DEF IInv, Typed
  <2>2. packetNum' \in [Demux -> Nat] /\ queue' \in [Demux -> Seq(Op)]
    BY <1>12 DEF Typed
  <2> QED BY <1>7, <2>1, <2>2, CountedStays
<1>19. RejectedAtOnce'
  <2>1. ASSUME NEW t \in Socket, CurrentReader(t)'  PROVE FALSE
    <3>1. readerOf[t] # 0 /\ ~stopped'[readerOf[t]]
      BY <1>1, <2>1 DEF CurrentReader
    <3>2. readerOf[t] \in Demux /\ readerOf[t] <= demux /\ readerOf[t] \in Nat
      BY <3>1, DemuxIs DEF IInv, Typed, SocketsExact
    <3>3. readerOf[t] < demux'
      BY <1>2, <1>21, <3>2
    <3> QED BY <1>14, <3>1, <3>2, <3>3 DEF GenerationsExact
  <2> SUFFICES ASSUME NEW o \in Op, ops'[o].phase \in {"sending", "waiting"}, CurrentReader(ops[o].socket)'
               PROVE  FALSE
    BY <1>5 DEF RejectedAtOnce, CurrentReader
  <2>2. ops[o].phase \in {"sending", "waiting"}
    BY <1>7
  <2>3. ops[o].socket \in Socket
    BY <2>2 DEF IInv, OpsExact, Begun
  <2>4. \A t \in Socket : ~CurrentReader(t)'
    BY <2>1
  <2>5. ops'[o].socket \in Socket
    BY <1>5, <2>3
  <2> QED BY <2>4, <2>5 DEF CurrentReader
<1>20. IdleReconnectRecovers'
  BY <1>10, <1>11 DEF IdleReconnectRecovers
<1> QED BY <1>6, <1>12, <1>13, <1>14, <1>15, <1>16, <1>17, <1>18, <1>19, <1>20 DEF IInv

-----------------------------------------------------------------------------
LEMMA NextKeeps == IInv /\ [Next]_vars => IInv'
<1> SUFFICES ASSUME IInv, [Next]_vars  PROVE IInv'
  OBVIOUS
<1>1. CASE \E o \in Op : Call(o)
  BY <1>1, CallKeeps
<1>2. CASE \E o \in Op : DialFails(o)
  BY <1>2, DialFailsKeeps
<1>3. CASE \E o \in Op : SendDone(o)
  BY <1>3, SendDoneKeeps
<1>4. CASE \E o \in Op : OpTimeout(o)
  BY <1>4, OpTimeoutKeeps
<1>5. CASE \E o \in Op, s \in Socket : DialDone(o, s)
  BY <1>5, DialDoneKeeps
<1>6. CASE \E d \in Demux : EnterLock(d)
  BY <1>6, EnterLockKeeps
<1>7. CASE \E s \in Socket : Receive(s)
  BY <1>7, ReceiveKeeps
<1>8. CASE \E s \in Socket : ReaderFails(s)
  BY <1>8, ReaderFailsKeeps
<1>9. CASE \E s \in Socket : ReconnectDone(s)
  BY <1>9, ReconnectDoneKeeps
<1>10. CASE Reconnect
  BY <1>10, ReconnectKeeps
<1>11. CASE ReconnectFails
  BY <1>11, UserStep DEF ReconnectFails
<1>12. CASE UNCHANGED vars
  <2>1. user' \in {"idle", "dialing"}
    BY <1>12 DEF vars, IInv, Typed
  <2> QED BY <1>12, <2>1, UserStep DEF vars
<1> QED BY <1>1, <1>2, <1>3, <1>4, <1>5, <1>6, <1>7, <1>8, <1>9, <1>10, <1>11, <1>12 DEF Next

LEMMA Invariance == Spec => []IInv
<1>1. IInv /\ [Next]_vars => IInv'
  BY NextKeeps
<1> QED BY InitInv, <1>1, PTL DEF Spec

\* No generation gives out more numbers than there are operations.
LEMMA TypeIs == IInv => TypeOK
<1> SUFFICES ASSUME IInv  PROVE TypeOK
  OBVIOUS
<1>1. packetNum \in [Demux -> 0..Cardinality(Op)]
  <2> SUFFICES ASSUME NEW d \in Demux  PROVE packetNum[d] \in 0..Cardinality(Op)
    BY DEF IInv, Typed
  <2>1. /\ IsFiniteSet(PastDial(d)) /\ Cardinality(PastDial(d)) \in Nat
        /\ Cardinality(Op) \in Nat /\ Cardinality(PastDial(d)) <= Cardinality(Op)
    <3>1. PastDial(d) \subseteq Op
      BY DEF PastDial
    <3> QED BY <3>1, OpAssumption, FS_Subset, FS_CardinalityType
  <2>2. packetNum[d] + Len(queue[d]) <= Cardinality(PastDial(d))
    BY DEF IInv, Counted
  <2>3. packetNum[d] \in Nat /\ Len(queue[d]) \in Nat
    BY LenProperties DEF IInv, Typed
  <2> QED BY <2>1, <2>2, <2>3
<1>2. ASSUME NEW d \in Demux, NEW w \in pending[d]  PROVE w.op \in Op /\ w.num \in 0..(packetNum[d] - 1)
  <2>1. w.op \in Op /\ w.num \in Nat /\ w.op \in PendingOps(d)
    BY DEF IInv, Typed, Packet, PendingOps
  <2>2. ops[w.op].demux = d /\ ops[w.op].phase \in {"sending", "waiting"} /\ ops[w.op].num = w.num
    BY <2>1 DEF IInv, WaitersExact
  <2>3. w.num < packetNum[d] /\ packetNum[d] \in Nat
    BY <2>1, <2>2 DEF IInv, Typed, NumbersExact, Numbered
  <2> QED BY <2>1, <2>3
<1>3. ASSUME NEW d \in Demux, NEW i \in 1..Len(queue[d])  PROVE queue[d][i] \in Op
  BY ElementOfSeq DEF IInv, Typed
<1>4. \A o \in Op : ops[o].phase \in Phases /\ ops[o].demux \in {0} \cup Demux
  BY DEF IInv, Typed, Progress
<1> QED BY <1>1, <1>2, <1>3, <1>4 DEF IInv, Typed, TypeOK

\* What the service keeps agrees with its operations, for any number of them and of reconnects:
\* the pending map of each generation with the operations that were numbered in it, the send lock
\* with the one being sent or answered, and no waiter stays on a destroyed socket.
THEOREM StaysExact == Spec => []StateExact
<1>1. IInv => StateExact
  <2> SUFFICES ASSUME IInv  PROVE StateExact
    OBVIOUS
  <2>1. TypeOK
    BY TypeIs
  <2>2. PendingExact
    <3>1. \A d \in Demux : PendingOps(d) = {o \in Op : ops[o].demux = d /\ ops[o].phase \in {"sending", "waiting"}}
      BY DEF IInv, WaitersExact
    <3>2. ASSUME NEW d \in Demux, NEW w \in pending[d], NEW x \in pending[d], w.num = x.num
          PROVE  w = x
      <4>1. /\ w \in Packet /\ x \in Packet /\ w.op \in PendingOps(d) /\ x.op \in PendingOps(d)
            /\ ops[w.op].num = w.num /\ ops[x.op].num = x.num
        BY DEF IInv, Typed, WaitersExact, PendingOps
      <4>2. /\ w.op \in Op /\ ops[w.op].demux = d /\ Numbered(w.op)
            /\ x.op \in Op /\ ops[x.op].demux = d /\ Numbered(x.op)
        BY <3>1, <4>1 DEF Numbered
      <4>3. w.op = x.op
        BY <3>2, <4>1, <4>2 DEF IInv, NumbersExact
      <4> QED BY <3>2, <4>1, <4>3 DEF Packet
    <3> QED BY <3>1, <3>2 DEF PendingExact
  <2> QED BY <2>1, <2>2 DEF IInv, StateExact
<1> QED BY <1>1, Invariance, PTL

\* An operation succeeds only with the response to its own request, whatever the order of
\* responses, timeouts, dials and reconnects.
THEOREM AnswersMatch == Spec => []RepliesMatch
<1>1. IInv => RepliesMatch
  BY DEF IInv
<1> QED BY <1>1, Invariance, PTL

\* reconnect() called with nothing in flight recovers: an error that is still there is of the
\* current generation, or of one that was closed with operations in flight.
THEOREM IdleRecovers == Spec => []IdleReconnectRecovers
<1>1. IInv => IdleReconnectRecovers
  BY DEF IInv
<1> QED BY <1>1, Invariance, PTL
================================================================================
