---------------------------- MODULE DvtConnection -----------------------------
(* One DVTSecureSocketProxyService (services/ios/dvt/index.ts) and the channels   *)
(* made on it: one socket, one read buffer that every reader fills and empties,   *)
(* a fragmenter per channel, no lock.  A DTX frame is a header of two bytes and,   *)
(* unless it is the first of several fragments, a payload of one; a message       *)
(* travels as one frame or as three.  The read loop takes one step per iteration;  *)
(* promise continuations run before the next socket event (Quiet).                *)
EXTENDS Naturals, Sequences, FiniteSets, SequencesExt

CONSTANTS
    Caller,          \* who calls the service and the instruments on it
    MaxConnections,  \* bound: sockets dialled
    MaxMessages,     \* bound: requests and device messages, per run
    ChunkSize        \* bound: bytes per 'data' event, when that many have come

VARIABLES
    svc,     \* the fields of the service
    sock,    \* the current socket: "none", "open" or "destroyed"
    wire,    \* bytes on their way from the device
    device,  \* replies it owes, fragments it has yet to send, messages so far
    calls,   \* progress of each caller, the channel it holds, a reply it got that was not its
    stray,   \* channels with a message nobody asked for or a reply nobody read
    causes   \* what happened that the connection has no defence against

dvtVars == <<svc, sock, wire, device, calls, stray, causes>>

None == [id |-> 0, channel |-> 0, stream |-> FALSE]
NoHeader == [msg |-> None, f |-> 0, n |-> 0, part |-> 0]
Fragmenter == [messages |-> <<>>, partial |-> [s \in BOOLEAN |-> <<>>]]
Broadcast == [c \in {0} |-> Fragmenter]

DvtInit ==
    /\ svc = [connection |-> 0, dialled |-> 0, lastChannelCode |-> 0, channelCache |-> 0,
              channelMessages |-> Broadcast, isHandshakeComplete |-> FALSE, readBuffer |-> <<>>]
    /\ sock = "none" /\ wire = <<>> /\ stray = {} /\ causes = {}
    /\ device = [owed |-> <<>>, rest |-> <<>>, count |-> 0]
    /\ calls = [c \in Caller |-> [at |-> "idle", phase |-> "header", header |-> NoHeader,
                                  channel |-> 0, held |-> [code |-> 0, on |-> 0],
                                  want |-> 0, got |-> None]]

Readers == {c \in Caller : calls[c].at \in {"hello", "make", "request", "listen"}}
HasMessage(ch) == svc.channelMessages[ch].messages # <<>>

\* readExact waits for 'data': the buffer holds less than the header or payload asked for.
Needs(c) == IF calls[c].phase = "header" THEN 2 ELSE 1
Waiting(c) ==
    /\ c \in Readers /\ Len(svc.readBuffer) < Needs(c) /\ sock = "open"
    /\ calls[c].phase = "header" => /\ calls[c].channel \in DOMAIN svc.channelMessages
                                    /\ ~HasMessage(calls[c].channel)

\* What loses the frames of the stream: data nobody was reading, data two readers
\* appended, a connection that starts with bytes of the last one in the buffer, a drain
\* that met the first of several fragments.  Behaviours are followed up to there.
Broken == {"unread", "overlap", "leftover", "drained", "garbled"}

\* No promise continuation is left to run.
Quiet == (\A c \in Readers : Waiting(c)) /\ causes \cap Broken = {}

MayStart(c) == Quiet /\ calls[c].at = "idle"

-----------------------------------------------------------------------------
(* Sending.                                                                    *)

\* sendMessage: a new message, its reply owed if the device knows the channel.
\* (A write fails on a destroyed socket, whose callers then see the error.)
Send(ch, known) ==
    /\ device.count < MaxMessages
    /\ device' = [device EXCEPT !.count = @ + 1,
                     !.owed = IF known THEN Append(@, [id |-> device.count + 1, channel |-> ch,
                                                       stream |-> FALSE])
                              ELSE @]

Reading(c, at, ch, want) ==
    [calls EXCEPT ![c] = [@ EXCEPT !.at = at, !.phase = "header", !.channel = ch,
                                   !.want = want, !.got = None]]

\* A call that ends.
Idle(c) == [calls EXCEPT ![c] = [@ EXCEPT !.at = "idle", !.want = 0, !.channel = 0, !.got = None]]

\* connect(): dials when there is no connection.  The factories connect a service before
\* they hand it out, so no other call is in progress.
Connect(c) ==
    /\ MayStart(c) /\ \A o \in Caller : calls[o].at = "idle"
    /\ svc.connection = 0 /\ svc.dialled < MaxConnections
    /\ calls' = [calls EXCEPT ![c] = [@ EXCEPT !.at = "dial"]]
    /\ UNCHANGED <<svc, sock, wire, device, stray, causes>>

\* The dial succeeds: performHandshake sends the capabilities and reads the device's.
\* What an earlier connection left in the read buffer is still there.
Dialed(c) ==
    /\ Quiet /\ calls[c].at = "dial"
    /\ svc' = [svc EXCEPT !.connection = svc.dialled + 1, !.dialled = @ + 1]
    /\ sock' = "open"
    /\ device.count < MaxMessages
    /\ LET hello == [id |-> device.count + 1, channel |-> 0, stream |-> FALSE]
       IN /\ device' = [owed |-> <<hello>>, rest |-> <<>>, count |-> device.count + 1]
          /\ calls' = Reading(c, "hello", 0, hello.id)
    /\ wire' = <<>> /\ UNCHANGED stray
    /\ causes' = IF svc.readBuffer = <<>> THEN causes ELSE causes \cup {"leftover"}

DialFails(c) ==
    /\ Quiet /\ calls[c].at = "dial" /\ calls' = Idle(c)
    /\ UNCHANGED <<svc, sock, wire, device, stray, causes>>

\* makeChannel: codes are never used twice by one service.
NextCode == svc.lastChannelCode + 1

\* initialize() of an instrument: makeChannel, from the cache or from the device.
MakeChannel(c) ==
    /\ MayStart(c) /\ svc.isHandshakeComplete
    /\ IF svc.channelCache # 0
       THEN /\ calls' = [calls EXCEPT ![c] = [@ EXCEPT !.held = [code |-> svc.channelCache,
                                                                 on |-> svc.connection]]]
            /\ UNCHANGED <<svc, device>>
       ELSE /\ sock = "open" /\ Send(0, TRUE)
            /\ svc' = [svc EXCEPT !.lastChannelCode = NextCode]
            /\ calls' = [Reading(c, "make", 0, device'.count) EXCEPT
                            ![c] = [@ EXCEPT !.held = [code |-> NextCode, on |-> 0]]]
    /\ UNCHANGED <<sock, wire, stray, causes>>

Current(c) == calls[c].held.on = svc.connection

\* A call on the channel an instrument holds, followed by receivePlist.  The instrument
\* keeps the channel when the service is closed and connected again.
Request(c) ==
    /\ MayStart(c) /\ calls[c].held.on # 0 /\ sock = "open"
    /\ Send(calls[c].held.code, Current(c))
    /\ calls' = Reading(c, "request", calls[c].held.code, device'.count)
    /\ UNCHANGED <<svc, sock, wire, stray, causes>>

\* A call that asks for a reply and does not read it (stop, clear).
Command(c) ==
    /\ MayStart(c) /\ calls[c].held.on # 0 /\ sock = "open"
    /\ Send(calls[c].held.code, Current(c))
    /\ stray' = stray \cup {<<svc.connection, calls[c].held.code>>}
    /\ UNCHANGED <<svc, sock, wire, calls, causes>>

\* receivePlist with an AbortSignal: the iterators.
Listen(c) ==
    /\ MayStart(c) /\ calls[c].held.on # 0
    /\ calls' = Reading(c, "listen", calls[c].held.code, 0)
    /\ UNCHANGED <<svc, sock, wire, device, stray, causes>>

-----------------------------------------------------------------------------
(* Reading.                                                                    *)

\* drainBufferedMessages: drops each buffered message by its header's length, which for
\* the first of several fragments counts payloads that come after other headers.
Length(b) == IF b.n > 1 /\ b.f = 0 THEN b.n - 1 ELSE 1
Drained(buf) ==
    LET left[i \in 1..(Len(buf) + 1)] ==     \* what is left when i is the next byte looked at
            IF Len(buf) < i + 1 \/ Len(buf) < i + 1 + Length(buf[i]) THEN SubSeq(buf, i, Len(buf))
            ELSE left[i + 2 + Length(buf[i])]
    IN left[1]

FirstFragments(buf) == {i \in DOMAIN buf : buf[i].n > 1 /\ buf[i].f = 0}

\* A channel gets a new fragmenter.
Added(ch) == [k \in (DOMAIN svc.channelMessages) \cup {ch} |->
                 IF k = ch THEN Fragmenter ELSE svc.channelMessages[k]]

\* makeChannel after the reply: cached, with a new fragmenter.
Made(code) == [svc EXCEPT !.channelCache = code, !.channelMessages = Added(code)]

\* recvPacketFragments returns m to its caller, who goes on: performHandshake checks it,
\* makeChannel looks for an NSError.
Return(c, m) ==
    LET popped == [svc EXCEPT !.channelMessages[calls[c].channel].messages = Tail(@)]
        got == IF calls[c].want \in {0, m.id} THEN Idle(c)
               ELSE [calls EXCEPT ![c] = [@ EXCEPT !.at = "idle", !.want = 0, !.got = m]]
    IN \/ /\ calls[c].at = "hello"
          /\ svc' = [popped EXCEPT !.isHandshakeComplete = TRUE, !.readBuffer = Drained(@)]
          /\ causes' = IF FirstFragments(svc.readBuffer) = {} THEN causes
                       ELSE causes \cup {"drained"}
          /\ calls' = got
       \/ /\ calls[c].at = "make"
          /\ LET code == calls[c].held.code
             IN /\ svc' = [Made(code) EXCEPT !.channelMessages[0].messages = Tail(@)]
                /\ calls' = [got EXCEPT ![c] = [@ EXCEPT !.held.on = svc.connection]]
          /\ UNCHANGED causes
       \/ /\ calls[c].at \in {"hello", "make"}
          /\ svc' = popped
          /\ calls' = [got EXCEPT ![c] = [@ EXCEPT !.held = [code |-> 0, on |-> 0]]]
          /\ UNCHANGED causes
       \/ /\ calls[c].at \in {"request", "listen"}
          /\ svc' = popped /\ calls' = got
          /\ UNCHANGED causes

Garbled == /\ causes' = causes \cup {"garbled"}
           /\ UNCHANGED <<svc, calls>>

\* A header was read from the buffer: its channel gets a fragmenter; the first of several
\* fragments has no payload.
TakeHeader(c) ==
    LET h == svc.readBuffer[1]
        second == svc.readBuffer[2]
        ch == h.msg.channel
    IN IF h.part # 1 \/ second # [h EXCEPT !.part = 2]
       THEN Garbled
       ELSE /\ svc' = [svc EXCEPT !.readBuffer = SubSeq(@, 3, Len(@)),
                          !.channelMessages = IF ch \in DOMAIN @ THEN @ ELSE Added(ch)]
            /\ calls' = IF h.n > 1 /\ h.f = 0 THEN calls
                        ELSE [calls EXCEPT ![c] = [@ EXCEPT !.phase = "payload", !.header = h]]
            /\ UNCHANGED causes

\* addFragment keeps what comes on the negative code of a channel apart.
PartialOf(stream) == stream

\* ChannelFragmenter.addFragment.
AddFragment(fr, h) ==
    LET s == PartialOf(h.msg.stream)
        whole == Append(fr.partial[s], h)
    IN IF h.f = h.n - 1
       THEN [messages |-> Append(fr.messages, whole), partial |-> [fr.partial EXCEPT ![s] = <<>>]]
       ELSE [fr EXCEPT !.partial[s] = whole]

\* Mutant: the fragment goes to the channel that is being read.
ReadersOwn(c, h) == calls[c].channel

\* targetFragmenter: the channel is the frame's, whoever reads it.
TargetOf(c, h) == h.msg.channel

\* The payload was read: the fragment joins the others of its channel.
TakePayload(c) ==
    LET h == calls[c].header
    IN IF Head(svc.readBuffer) # [h EXCEPT !.part = 3]
       THEN Garbled
       ELSE /\ svc' = [svc EXCEPT !.readBuffer = Tail(@),
                          !.channelMessages[TargetOf(c, h)] = AddFragment(@, h)]
            /\ calls' = [calls EXCEPT ![c] = [@ EXCEPT !.phase = "header", !.header = NoHeader]]
            /\ UNCHANGED causes

\* What a queue holds is a message if its frames are those of one message, in order.
Whole(frames) == /\ \A i \in DOMAIN frames : frames[i].msg = frames[1].msg
                 /\ Len(frames) = (IF frames[1].n = 1 THEN 1 ELSE frames[1].n - 1)

\* One iteration of the read loop of recvPacketFragments.
Iterate(c) ==
    /\ c \in Readers /\ causes \cap Broken = {}
    /\ UNCHANGED <<sock, wire, device, stray>>
    /\ \/ /\ calls[c].phase = "header" /\ calls[c].channel \notin DOMAIN svc.channelMessages
          /\ calls' = Idle(c) /\ UNCHANGED <<svc, causes>>
       \/ /\ calls[c].phase = "header" /\ calls[c].channel \in DOMAIN svc.channelMessages
          /\ IF HasMessage(calls[c].channel)
             THEN LET frames == Head(svc.channelMessages[calls[c].channel].messages)
                  IN IF Whole(frames) THEN Return(c, frames[1].msg) ELSE Garbled
             ELSE /\ Len(svc.readBuffer) >= 2 /\ TakeHeader(c)
       \/ /\ calls[c].phase = "payload" /\ svc.readBuffer # <<>> /\ TakePayload(c)
       \/ \* socket.destroyed, or no socket
          /\ sock # "open" /\ Len(svc.readBuffer) < Needs(c)
          /\ calls[c].phase = "header" => /\ calls[c].channel \in DOMAIN svc.channelMessages
                                          /\ ~HasMessage(calls[c].channel)
          /\ calls' = Idle(c) /\ UNCHANGED <<svc, causes>>

MinOf(a, b) == IF a < b THEN a ELSE b

\* A 'data' event: every waiting reader appends the chunk; with none it is lost.
Data(n) ==
    /\ Quiet /\ sock = "open" /\ wire # <<>>
    /\ LET waiting == {c \in Caller : Waiting(c)}
           chunk == SubSeq(wire, 1, MinOf(n, Len(wire)))
       IN /\ svc' = [svc EXCEPT !.readBuffer = @ \o FlattenSeq([i \in 1..Cardinality(waiting) |-> chunk])]
          /\ causes' = causes \cup (IF waiting = {} THEN {"unread"} ELSE {})
                              \cup (IF Cardinality(waiting) > 1 THEN {"overlap"} ELSE {})
    /\ wire' = SubSeq(wire, n + 1, Len(wire))
    /\ UNCHANGED <<sock, device, calls, stray>>

\* Mutant: the signal is passed to the payload's read too.
AnyPhase(c) == TRUE

\* Only the read of a header takes the AbortSignal.
Abortable(c) == calls[c].phase = "header"

Abort(c) ==
    /\ Quiet /\ calls[c].at = "listen" /\ Abortable(c)
    /\ calls' = Idle(c)
    /\ UNCHANGED <<svc, sock, wire, device, stray, causes>>

-----------------------------------------------------------------------------
(* Closing, the device, the specification.                                     *)

\* Mutant: the fragmenters are kept.
KeepMessages == svc.channelMessages

\* close() forgets every channel.
ClearedMessages == Broadcast

\* close(): the socket is destroyed, which rejects whoever waits for data.  The read
\* buffer stays.  With channels it first sends _channelCanceled: and awaits the write.
Disconnect(others) ==
    /\ svc' = [svc EXCEPT !.connection = 0, !.isHandshakeComplete = FALSE, !.channelCache = 0,
                          !.channelMessages = ClearedMessages]
    /\ sock' = "destroyed" /\ wire' = <<>>
    /\ calls' = [c \in Caller |-> IF c \in Readers \cup others THEN Idle(c)[c] ELSE calls[c]]
    /\ UNCHANGED <<device, stray, causes>>

CloseBegin(c) ==
    /\ Quiet /\ calls[c].at = "idle" /\ svc.connection # 0
    /\ IF DOMAIN svc.channelMessages = {0} THEN Disconnect({})
       ELSE /\ calls' = [calls EXCEPT ![c] = [@ EXCEPT !.at = "closing"]]
            /\ UNCHANGED <<svc, sock, wire, device, stray, causes>>

\* A second close() that awaited the same write finds no connection and throws.
CloseDone(c) ==
    /\ Quiet /\ calls[c].at = "closing"
    /\ IF svc.connection # 0 THEN Disconnect({c})
       ELSE calls' = Idle(c) /\ UNCHANGED <<svc, sock, wire, device, stray, causes>>

\* The connection ends under the service, which keeps it.
PeerCloses ==
    /\ Quiet /\ sock = "open" /\ svc.connection # 0
    /\ sock' = "destroyed" /\ wire' = <<>>
    /\ calls' = [c \in Caller |-> IF c \in Readers THEN Idle(c)[c] ELSE calls[c]]
    /\ UNCHANGED <<svc, device, stray, causes>>

Bytes(m, f, n) ==
    [i \in 1..(IF n > 1 /\ f = 0 THEN 2 ELSE 3) |-> [msg |-> m, f |-> f, n |-> n, part |-> i]]

\* The device sends message m whole or its first frame, the others to follow.
Emit(m, n) ==
    /\ wire' = wire \o Bytes(m, 0, n)
    /\ \A r \in Range(device.rest) : r.msg.channel # m.channel \/ r.msg.stream # m.stream

RestOf(m, n) == [i \in 1..(n - 1) |-> [msg |-> m, f |-> i, n |-> n]]

\* Replies on one channel come in the order of their requests.
DeviceReplies(n) ==
    /\ Quiet /\ sock = "open" /\ device.owed # <<>>
    /\ \E i \in DOMAIN device.owed :
          /\ \A j \in 1..(i - 1) : device.owed[j].channel # device.owed[i].channel
          /\ Emit(device.owed[i], n)
          /\ device' = [device EXCEPT !.owed = RemoveAt(@, i),
                                      !.rest = @ \o RestOf(device.owed[i], n)]
    /\ UNCHANGED <<svc, sock, calls, stray, causes>>

\* A message nobody asked for.  recvPlist() takes whatever comes first on its channel.
DeviceEvents(ch, n) ==
    /\ Quiet /\ sock = "open" /\ device.count < MaxMessages
    /\ ch \in DOMAIN svc.channelMessages /\ svc.isHandshakeComplete
    /\ LET m == [id |-> device.count + 1, channel |-> ch, stream |-> TRUE]
       IN /\ Emit(m, n)
          /\ device' = [device EXCEPT !.count = @ + 1, !.rest = @ \o RestOf(m, n)]
    /\ stray' = stray \cup {<<svc.connection, ch>>}
    /\ UNCHANGED <<svc, sock, calls, causes>>

\* The next frame of a message that is on its way.
DeviceContinues ==
    /\ Quiet /\ sock = "open" /\ device.rest # <<>>
    /\ \E i \in DOMAIN device.rest :
          LET r == device.rest[i]
          IN /\ \A j \in 1..(i - 1) : device.rest[j].msg # r.msg
             /\ wire' = wire \o Bytes(r.msg, r.f, r.n)
             /\ device' = [device EXCEPT !.rest = RemoveAt(@, i)]
    /\ UNCHANGED <<svc, sock, calls, stray, causes>>

DvtNext ==
    \/ \E c \in Caller : Connect(c) \/ Dialed(c) \/ DialFails(c) \/ MakeChannel(c) \/ Request(c)
                         \/ Command(c) \/ Listen(c) \/ Iterate(c) \/ Abort(c)
                         \/ CloseBegin(c) \/ CloseDone(c)
    \/ \E n \in ChunkSize : Data(n)
    \/ PeerCloses
    \/ \E n \in {1, 3} : DeviceReplies(n)
    \/ \E n \in {1, 3}, ch \in DOMAIN svc.channelMessages : DeviceEvents(ch, n)
    \/ DeviceContinues

DvtSpec == DvtInit /\ [][DvtNext]_dvtVars

-----------------------------------------------------------------------------
\* Whatever the splits, fragments, aborts and lost connections, what a reader takes for a
\* header is one, and what a channel delivers is a message: only what Broken names can
\* move the read position away from the frames.
FramesKept == "garbled" \notin causes

\* A call gets the reply to its own request, whatever goes on on other channels, unless
\* its own channel carried a message nobody asked for or a reply nobody read.
RepliesMatch ==
    \A c \in Caller : calls[c].got # None => \E s \in stray : s[2] = calls[c].channel

\* An instrument that kept its channel over close() and connect() never reads what
\* belongs to a channel of the new connection.
ChannelsNeverAlias ==
    \A c \in Caller : calls[c].at \in {"request", "listen"} /\ calls[c].held.on # svc.connection
                        => calls[c].channel \notin DOMAIN svc.channelMessages
=============================================================================
