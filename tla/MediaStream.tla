------------------------------ MODULE MediaStream ------------------------------
(* The receive path of a media stream (services/ios/display): datagrams reach the   *)
(* UdpMediaReceiver lost, twice or out of order, its iterator hands them one by one  *)
(* to parseRtpPacket, the AccessUnitAssembler with its HevcDepacketizer, the loss    *)
(* reporter and the counter of the RTCP receiver reports.                            *)
EXTENDS Naturals, Sequences, SequencesExt

CONSTANTS
    Script,     \* the RTP packets in the order sent: [pic, form, key, last]
    First,      \* sequence number of the first of them
    Modulus,    \* 2^16 in the code
    Copyable    \* bound: the packets that the network may deliver twice

Packet == 1..Len(Script)
Rtcp == 0                \* a datagram on the same port that is not RTP
Sequence(i) == (First + i - 1) % Modulus
Unset == Modulus         \* no sequence number: lastSequence is undefined

VARIABLES
    network,    \* packets sent, in flight, copies made, an RTCP datagram sent, arrivals
    receiver,   \* UdpMediaReceiver: queue, the iterator and what it was handed
    assembler,  \* AccessUnitAssembler, HevcDepacketizer
    loss,       \* PacketLossReporter
    keepalive   \* RtcpKeepalive: the extended highest sequence number

mediaVars == <<network, receiver, assembler, loss, keepalive>>

MediaInit ==
    /\ network = [sent |-> 0, air |-> {}, copies |-> {}, rtcp |-> FALSE, arrived |-> <<>>]
    /\ receiver = [queue |-> <<>>, iter |-> "none", handed |-> Rtcp, closed |-> FALSE,
                   aborted |-> FALSE, taken |-> <<>>]
    /\ assembler = [parts |-> <<>>, isKey |-> FALSE, corrupt |-> FALSE, last |-> Unset,
                    fu |-> <<>>, active |-> FALSE, sets |-> FALSE,
                    received |-> 0, lost |-> 0, dropped |-> 0, units |-> <<>>]
    /\ loss = [gaps |-> 0, packets |-> 0, recent |-> FALSE, reported |-> 0]
    /\ keepalive = [running |-> TRUE, cycles |-> 0, last |-> Unset, highest |-> 0]

-----------------------------------------------------------------------------
(* The device and the network.                                                  *)

DeviceSends ==
    /\ network.sent < Len(Script)
    /\ network' = [network EXCEPT !.sent = @ + 1, !.air = @ \cup {network.sent + 1}]
    /\ UNCHANGED <<receiver, assembler, loss, keepalive>>

\* Mutant: the resolver stays set when the promise is resolved.
StaysPending(d) ==
    CASE receiver.iter = "waiting" -> [receiver EXCEPT !.iter = "handed", !.handed = d]
      [] receiver.iter = "handed" -> receiver
      [] OTHER -> [receiver EXCEPT !.queue = Append(@, d)]

\* enqueue(): who waits in packets() is handed the datagram, else it is queued.
Enqueue(d) ==
    IF receiver.iter = "waiting" THEN [receiver EXCEPT !.iter = "handed", !.handed = d]
    ELSE [receiver EXCEPT !.queue = Append(@, d)]

Arrives(d) ==
    /\ ~receiver.closed
    /\ receiver' = Enqueue(d)
    /\ network' = [network EXCEPT !.arrived = Append(@, d), !.rtcp = @ \/ d = Rtcp,
                     !.air = IF d = Rtcp THEN @ ELSE @ \ {d}]
    /\ UNCHANGED <<assembler, loss, keepalive>>

MediaArrives(i) == i \in network.air /\ Arrives(i)
RtcpArrives == ~network.rtcp /\ Arrives(Rtcp)

\* The network copies a packet; one it loses stays in the air for ever.
Copied(i) ==
    /\ i \in Copyable \ (network.air \cup network.copies) /\ i <= network.sent
    /\ network' = [network EXCEPT !.air = @ \cup {i}, !.copies = @ \cup {i}]
    /\ UNCHANGED <<receiver, assembler, loss, keepalive>>

-----------------------------------------------------------------------------
(* From a datagram to access units.                                            *)

IsNext(previous, s) == s = (previous + 1) % Modulus
Gap(s) == assembler.last # Unset /\ ~IsNext(assembler.last, s)
Missing(s) == (s + 2 * Modulus - assembler.last - 1) % Modulus

\* HevcDepacketizer.push, after reset() at a gap: the packets of the NAL unit that packet i
\* completes, if it does, and what is kept of a fragmented one.
Depacketized(i, fu, active) ==
    CASE Script[i].form \in {"sets", "single"} -> [nal |-> <<i>>, fu |-> fu, active |-> active]
      [] Script[i].form = "start" -> [nal |-> <<>>, fu |-> <<i>>, active |-> TRUE]
      [] Script[i].form \in {"middle", "end"} /\ ~active -> [nal |-> <<>>, fu |-> fu, active |-> FALSE]
      [] Script[i].form = "middle" /\ active -> [nal |-> <<>>, fu |-> Append(fu, i), active |-> TRUE]
      [] Script[i].form = "end" /\ active -> [nal |-> Append(fu, i), fu |-> <<>>, active |-> FALSE]

\* absorbNal: parameter sets are cached, a slice of a key picture makes the unit a key frame.
AbsorbsSets(nal) == nal # <<>> /\ Script[nal[1]].form = "sets"
AbsorbsKey(nal) == nal # <<>> /\ Script[nal[1]].form # "sets" /\ Script[nal[1]].key

\* Mutant: a gap discards the fragments but not the picture they belong to.
DropsFragments(s) == FALSE

\* A gap leaves the picture being assembled incomplete.
Corrupts(s) == Gap(s)

\* completeAccessUnit(), on a marker: an incomplete picture is dropped.
Completed(a) ==
    [a EXCEPT !.parts = <<>>, !.isKey = FALSE, !.corrupt = FALSE,
              !.dropped = IF a.corrupt THEN @ + 1 ELSE @,
              !.units = IF a.corrupt \/ a.parts = <<>> THEN @
                        ELSE Append(@, [parts |-> a.parts, key |-> a.isKey])]

Pushed(i) ==
    LET s == Sequence(i)
        d == Depacketized(i, IF Gap(s) THEN <<>> ELSE assembler.fu, assembler.active /\ ~Gap(s))
        a == [assembler EXCEPT
                !.received = @ + 1, !.lost = IF Gap(s) THEN @ + Missing(s) ELSE @,
                !.corrupt = @ \/ Corrupts(s), !.last = s,
                !.fu = d.fu, !.active = d.active, !.parts = @ \o d.nal,
                !.sets = @ \/ AbsorbsSets(d.nal), !.isKey = @ \/ AbsorbsKey(d.nal)]
    IN IF Script[i].last THEN Completed(a) ELSE a

\* record(): at most one line per interval, the first gap at once; emit() empties what is held.
Recorded(missing) ==
    IF loss.recent THEN [loss EXCEPT !.gaps = @ + 1, !.packets = @ + missing]
    ELSE [gaps |-> 0, packets |-> 0, recent |-> TRUE, reported |-> loss.reported + loss.packets + missing]

\* observeSequence(): a drop of more than half the range is a wraparound.
Wraps(s) == keepalive.last # Unset /\ s < keepalive.last /\ keepalive.last - s > Modulus \div 2

Observed(s) ==
    LET cycles == IF Wraps(s) THEN (keepalive.cycles + 1) % Modulus ELSE keepalive.cycles
        candidate == cycles * Modulus + s
    IN [keepalive EXCEPT !.cycles = cycles, !.last = s,
                         !.highest = IF candidate > @ THEN candidate ELSE @]

\* consume(): what is not RTP is skipped.
Consumes(d) ==
    IF d = Rtcp THEN UNCHANGED <<assembler, loss, keepalive>>
    ELSE /\ keepalive' = Observed(Sequence(d))
         /\ assembler' = Pushed(d)
         /\ loss' = IF Gap(Sequence(d)) THEN Recorded(Missing(Sequence(d))) ELSE loss

-----------------------------------------------------------------------------
(* packets(): the iterator, and what ends it.                                  *)

Iterates ==
    /\ receiver.iter = "none" /\ receiver' = [receiver EXCEPT !.iter = "ready"]
    /\ UNCHANGED <<network, assembler, loss, keepalive>>

\* The consumer asks for the next datagram.
Takes ==
    /\ receiver.iter = "ready" /\ ~receiver.aborted /\ receiver.queue # <<>>
    /\ receiver' = [receiver EXCEPT !.queue = Tail(@), !.taken = Append(@, Head(receiver.queue))]
    /\ Consumes(Head(receiver.queue))
    /\ UNCHANGED network

Waits ==
    /\ receiver.iter = "ready" /\ (receiver.aborted \/ receiver.queue = <<>>)
    /\ receiver' = [receiver EXCEPT !.iter = IF receiver.aborted \/ receiver.closed
                                             THEN "ended" ELSE "waiting"]
    /\ UNCHANGED <<network, assembler, loss, keepalive>>

Resumes ==
    /\ receiver.iter = "handed"
    /\ receiver' = [receiver EXCEPT !.iter = "ready", !.taken = Append(@, receiver.handed)]
    /\ Consumes(receiver.handed)
    /\ UNCHANGED network

\* wake(undefined): who waits is released; nobody else notices.
Released(r) == IF r.iter = "waiting" THEN [r EXCEPT !.iter = "ended"] ELSE r

\* The caller's signal.
Aborts ==
    /\ ~receiver.aborted /\ receiver' = Released([receiver EXCEPT !.aborted = TRUE])
    /\ UNCHANGED <<network, assembler, loss, keepalive>>

\* The socket fails: the receiver closes itself, what is queued is still handed out.
SocketFails ==
    /\ ~receiver.closed /\ receiver' = Released([receiver EXCEPT !.closed = TRUE])
    /\ UNCHANGED <<network, assembler, loss, keepalive>>

\* tearDown(), up to the request to the device.
Stops ==
    /\ keepalive.running
    /\ keepalive' = [keepalive EXCEPT !.running = FALSE]
    /\ receiver' = Released([receiver EXCEPT !.aborted = TRUE, !.closed = TRUE])
    /\ loss' = [loss EXCEPT !.gaps = 0, !.packets = 0, !.reported = @ + loss.packets]
    /\ UNCHANGED <<network, assembler>>

\* The reporting interval passes.
IntervalEnds ==
    /\ loss.recent /\ loss' = [loss EXCEPT !.recent = FALSE]
    /\ UNCHANGED <<network, receiver, assembler, keepalive>>

MediaNext ==
    \/ DeviceSends \/ RtcpArrives \/ Iterates \/ Takes \/ Waits \/ Resumes
    \/ \E i \in Packet : MediaArrives(i) \/ Copied(i)
    \/ Aborts \/ SocketFails \/ Stops \/ IntervalEnds

MediaSpec == MediaInit /\ [][MediaNext]_mediaVars

-----------------------------------------------------------------------------
\* Of the datagrams taken, the first and the last that are RTP, and those that follow each other.
Earliest(i) == \E k \in DOMAIN receiver.taken :
    i # Rtcp /\ receiver.taken[k] = i /\ \A j \in 1..(k - 1) : receiver.taken[j] = Rtcp
Latest(i) == \E k \in DOMAIN receiver.taken :
    i # Rtcp /\ receiver.taken[k] = i /\ \A j \in (k + 1)..Len(receiver.taken) : receiver.taken[j] = Rtcp
Adjacent(i, j) == \E k, l \in DOMAIN receiver.taken :
    /\ k < l /\ {i, j} \subseteq Packet /\ receiver.taken[k] = i /\ receiver.taken[l] = j
    /\ \A m \in (k + 1)..(l - 1) : receiver.taken[m] = Rtcp

\* What no receiver can see: as many packets are missing as there are sequence numbers.
Aliased == \E i, j \in Packet : Adjacent(i, j) /\ j # i + 1 /\ IsNext(Sequence(i), Sequence(j))

\* Every packet of one picture from its first part on, in order; and the first part begins the
\* picture, but of the picture whose packet was the first to be taken: before it there was no
\* sequence number to compare with.
Whole(parts) ==
    LET pic == Script[parts[1]].pic
    IN /\ \A k \in 1..(Len(parts) - 1) : parts[k + 1] = parts[k] + 1
       /\ {parts[k] : k \in 1..Len(parts)} = {i \in Packet : Script[i].pic = pic /\ i >= parts[1]}
       /\ \/ \A i \in 1..(parts[1] - 1) : Script[i].pic # pic
          \/ \E i \in Packet : Earliest(i) /\ Script[i].pic = pic

\* "Access units missing any packet are dropped rather than delivered".
UnitsWhole == Aliased \/ \A n \in 1..Len(assembler.units) : Whole(assembler.units[n].parts)

\* "Datagrams that land between bind() and the first read are not lost": what was taken, what
\* is in hand and what is queued are all that arrived, in the order of arrival.
NothingSkipped ==
    receiver.taken \o (IF receiver.iter = "handed" THEN <<receiver.handed>> ELSE <<>>)
        \o receiver.queue = network.arrived

\* "Reports carry an honest extended highest-sequence value, tracking wraparound": no report
\* claims a packet later than the latest that was taken.
HighestIsHonest ==
    (\E i \in Packet : Contains(receiver.taken, i)) =>
        \E i \in Packet : Contains(receiver.taken, i) /\ keepalive.highest <= First + i - 1
=============================================================================
