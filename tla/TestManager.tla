------------------------------ MODULE TestManager ------------------------------
(* DvtTestmanagedProxyService (services/ios/testmanagerd/index.ts) after its         *)
(* handshake: the one reader of the connection makes a channel and polls it with      *)
(* timeouts, answers what the daemon calls back there, and answers by itself what      *)
(* comes on other channels meanwhile. Frames are as in DvtConnection: a header of two  *)
(* bytes, a payload of one, and no payload for the first of several fragments.         *)
EXTENDS Naturals, Sequences, SequencesExt

CONSTANTS
    MaxCallbacks,   \* bound: messages of the daemon's own
    Chunks          \* bound: sizes of a 'data' event

Channel == {0, 1}    \* the broadcast channel and the one that is made

VARIABLES
    proxy,    \* socket, read buffer, fragmenters, what was received last per channel
    poll,     \* the reader: what it is doing and on which channel
    testmanagerd,   \* the daemon: messages sent, the frames to follow, bytes on the way
    answers   \* replies written, in order: channel and message

tmVars == <<proxy, poll, testmanagerd, answers>>

NoFrame == [id |-> 0, ch |-> 0, f |-> 0, n |-> 0, asks |-> FALSE, reply |-> FALSE, part |-> 0]

TmInit ==
    /\ proxy = [socket |-> "open", buffer |-> <<>>, made |-> FALSE, fragmenters |-> {0},
                queue |-> [c \in Channel |-> <<>>],
                lastId |-> [c \in Channel |-> 0], asks |-> [c \in Channel |-> FALSE],
                unread |-> FALSE, garbled |-> FALSE]
    /\ poll = [at |-> "idle", target |-> 0, phase |-> "header", frame |-> NoFrame,
               timed |-> FALSE, writing |-> FALSE]
    /\ testmanagerd = [count |-> 0, rest |-> <<>>, wire |-> <<>>, requested |-> FALSE, asked |-> {}]
    /\ answers = <<>>

Reading == poll.at = "reading" /\ ~poll.writing
Needs == IF poll.phase = "header" THEN 2 ELSE 1
HasMessage == proxy.queue[poll.target] # <<>>
Waiting == Reading /\ Len(proxy.buffer) < Needs /\ (poll.phase = "header" => ~HasMessage)

\* No continuation of a promise is left to run: events of the socket come then only.
Quiet == (Reading => Waiting) /\ ~proxy.garbled /\ ~proxy.unread

-----------------------------------------------------------------------------
(* The caller.                                                                  *)

Reads(ch, timed) == [poll EXCEPT !.at = "reading", !.target = ch, !.phase = "header", !.timed = timed]

\* makeChannel: the request, then whatever comes first on the broadcast channel.
MakeChannel ==
    /\ poll.at = "idle" /\ ~poll.writing /\ ~testmanagerd.requested /\ proxy.socket = "open"
    /\ testmanagerd' = [testmanagerd EXCEPT !.requested = TRUE]
    /\ poll' = Reads(0, FALSE) /\ UNCHANGED <<proxy, answers>>

\* recvPlistWithTimeout, again and again.
Polls ==
    /\ poll.at = "idle" /\ ~poll.writing /\ proxy.made
    /\ poll' = Reads(1, TRUE) /\ UNCHANGED <<proxy, testmanagerd, answers>>

\* sendReply: the reply names the last message received on the channel. write() calls back at
\* once, or when the kernel has taken the data.
Writes(ch, next) ==
    /\ answers' = Append(answers, <<ch, proxy.lastId[ch]>>)
    /\ \E later \in BOOLEAN : poll' = [next EXCEPT !.writing = later]

\* A callback was handled: lastMessageExpectsReply, sendReply.
Replies ==
    /\ poll.at = "got" /\ ~poll.writing
    /\ IF ~proxy.asks[poll.target] THEN poll' = [poll EXCEPT !.at = "idle"] /\ UNCHANGED answers
       ELSE IF proxy.socket # "open" THEN poll' = [poll EXCEPT !.at = "failed"] /\ UNCHANGED answers
       ELSE Writes(poll.target, [poll EXCEPT !.at = "idle"])
    /\ UNCHANGED <<proxy, testmanagerd>>

Written ==
    /\ poll.writing /\ poll' = [poll EXCEPT !.writing = FALSE]
    /\ UNCHANGED <<proxy, testmanagerd, answers>>

-----------------------------------------------------------------------------
(* recvPacketFragments.                                                         *)

\* A message is there: makeChannel takes it for its reply, a poll hands it to its caller.
Returns ==
    /\ Reading /\ poll.phase = "header" /\ HasMessage
    /\ proxy' = [proxy EXCEPT !.queue[poll.target] = Tail(@), !.made = TRUE, !.fragmenters = Channel]
    /\ poll' = [poll EXCEPT !.at = IF proxy.made THEN "got" ELSE "idle"]
    /\ UNCHANGED <<testmanagerd, answers>>

\* Mutant: the flag of the fragment at hand.
AsksNow(h) == h.asks

\* Only the first fragment carries expectsReply reliably.
AsksOf(h) == IF h.f = 0 THEN h.asks ELSE proxy.asks[h.ch]

Garbles == /\ proxy' = [proxy EXCEPT !.garbled = TRUE] /\ UNCHANGED poll

TakesHeader ==
    LET h == proxy.buffer[1]
    IN /\ Reading /\ poll.phase = "header" /\ ~HasMessage /\ Len(proxy.buffer) >= 2
       /\ IF h.part # 1 \/ proxy.buffer[2] # [h EXCEPT !.part = 2] THEN Garbles
          ELSE /\ proxy' = [proxy EXCEPT !.buffer = SubSeq(@, 3, Len(@)), !.fragmenters = @ \cup {h.ch},
                               !.lastId[h.ch] = h.id, !.asks[h.ch] = AsksOf(h)]
               /\ poll' = IF h.n > 1 /\ h.f = 0 THEN poll
                          ELSE [poll EXCEPT !.phase = "payload", !.frame = h]
       /\ UNCHANGED <<testmanagerd, answers>>

\* addFragment, then the automatic reply to what is not on the channel being read: one for
\* each payload of a message that expects one.
TakesPayload ==
    LET h == poll.frame
        next == [poll EXCEPT !.phase = "header", !.frame = NoFrame]
        whole == h.f = h.n - 1
    IN /\ Reading /\ poll.phase = "payload" /\ proxy.buffer # <<>>
       /\ IF Head(proxy.buffer) # [h EXCEPT !.part = 3] THEN Garbles /\ UNCHANGED answers
          ELSE /\ proxy' = [proxy EXCEPT !.buffer = Tail(@),
                               !.queue[h.ch] = IF whole THEN Append(@, h.id) ELSE @]
               /\ IF h.ch # poll.target /\ ~h.reply /\ proxy.asks[h.ch] /\ proxy.socket = "open"
                  THEN Writes(h.ch, next)
                  ELSE poll' = next /\ UNCHANGED answers
       /\ UNCHANGED testmanagerd

\* The timer of recvPlistWithTimeout: only a header's read takes its signal.
\* Mutant: the read of a payload takes the signal too.
AnyPhase == TRUE
Abortable == poll.phase = "header"

TimesOut ==
    /\ Waiting /\ poll.timed /\ Abortable
    /\ poll' = [poll EXCEPT !.at = "idle"] /\ UNCHANGED <<proxy, testmanagerd, answers>>

\* A read fails once the socket has: at once, also when it failed between two reads.
ReadFails ==
    /\ Waiting /\ proxy.socket # "open"
    /\ poll' = [poll EXCEPT !.at = "failed"] /\ UNCHANGED <<proxy, testmanagerd, answers>>

\* 'data': nobody listens while a reply is being written.
Data(k) ==
    LET size == IF k < Len(testmanagerd.wire) THEN k ELSE Len(testmanagerd.wire)
    IN /\ Quiet /\ proxy.socket = "open" /\ size > 0
       /\ testmanagerd' = [testmanagerd EXCEPT !.wire = SubSeq(@, size + 1, Len(@))]
       /\ proxy' = IF Waiting THEN [proxy EXCEPT !.buffer = @ \o SubSeq(testmanagerd.wire, 1, size)]
                   ELSE [proxy EXCEPT !.unread = TRUE]
       /\ UNCHANGED <<poll, answers>>

SocketFails ==
    /\ Quiet /\ proxy.socket = "open" /\ proxy' = [proxy EXCEPT !.socket = "lost"]
    /\ UNCHANGED <<poll, testmanagerd, answers>>

\* close(): _channelCanceled for the channels made, then everything is forgotten; who has lost
\* its socket skips the message.
Close ==
    /\ poll.at \in {"idle", "failed"} /\ ~poll.writing /\ proxy.socket # "closed"
    /\ proxy' = [proxy EXCEPT !.socket = "closed", !.fragmenters = {0}, !.made = FALSE,
                    !.queue = [c \in Channel |-> <<>>],
                    !.lastId = [c \in Channel |-> 0], !.asks = [c \in Channel |-> FALSE]]
    /\ poll' = [poll EXCEPT !.at = "failed"]
    /\ UNCHANGED <<testmanagerd, answers>>

-----------------------------------------------------------------------------
(* The daemon.                                                                  *)

\* The flag of a later fragment says nothing.
Frames(m) == [f \in 1..m.n |-> [m EXCEPT !.f = f - 1, !.asks = @ /\ f = 1]]
Bytes(h) == [p \in 1..(IF h.n > 1 /\ h.f = 0 THEN 2 ELSE 3) |-> [h EXCEPT !.part = p]]

Sends(ch, n, asks, reply) ==
    testmanagerd' = [testmanagerd EXCEPT !.count = @ + 1, !.asked = IF asks THEN @ \cup {testmanagerd.count + 1} ELSE @,
        !.rest = @ \o Frames([id |-> testmanagerd.count + 1, ch |-> ch, f |-> 0, n |-> n,
                              asks |-> asks, reply |-> reply, part |-> 0])]

DaemonAnswers ==
    /\ testmanagerd.requested /\ ~proxy.made /\ \A r \in Range(testmanagerd.rest) : ~r.reply
    /\ ~(\E b \in Range(testmanagerd.wire \o proxy.buffer) : b.reply)
    /\ proxy.queue[0] = <<>> /\ ~poll.frame.reply
    /\ Sends(0, 1, FALSE, TRUE) /\ UNCHANGED <<proxy, poll, answers>>

DaemonCalls(ch, n, asks) ==
    /\ testmanagerd.count < MaxCallbacks + 1 /\ (ch = 1 => proxy.made)
    /\ \A r \in Range(testmanagerd.rest) : r.ch # ch
    /\ Sends(ch, n, asks, FALSE) /\ UNCHANGED <<proxy, poll, answers>>

\* Frames of messages on different channels may alternate.
DaemonEmits(i) ==
    /\ i \in DOMAIN testmanagerd.rest /\ \A j \in 1..(i - 1) : testmanagerd.rest[j].ch # testmanagerd.rest[i].ch
    /\ testmanagerd' = [testmanagerd EXCEPT !.rest = RemoveAt(@, i), !.wire = @ \o Bytes(testmanagerd.rest[i])]
    /\ UNCHANGED <<proxy, poll, answers>>

TmNext ==
    \/ MakeChannel \/ Polls \/ Replies \/ Written \/ Returns \/ TakesHeader \/ TakesPayload
    \/ TimesOut \/ ReadFails \/ SocketFails \/ Close \/ DaemonAnswers
    \/ \E k \in Chunks : Data(k)
    \/ \E ch \in Channel, n \in {1, 3}, asks \in BOOLEAN : DaemonCalls(ch, n, asks)
    \/ \E i \in DOMAIN testmanagerd.rest : DaemonEmits(i)

TmSpec == TmInit /\ [][TmNext]_tmVars

-----------------------------------------------------------------------------
\* "Payload must be read atomically to keep DTX framing aligned": whatever the timeouts, the
\* chunks and the messages in between, what is read as a header is one. (The model ends where data
\* comes when nobody listens.)
FramingAligned == ~proxy.garbled

\* "Auto-reply to non-target channel messages to prevent testmanagerd timeouts": a message
\* that expects a reply and is left in the queue of another channel has got one, unless the socket was lost.
OthersAnswered ==
    proxy.socket = "open" =>
      \A ch \in Channel \ {poll.target} : \A id \in Range(proxy.queue[ch]) :
        id \in testmanagerd.asked => <<ch, id>> \in Range(answers)

\* "Register all listeners before any async gap to prevent data race": no data comes while
\* nobody listens. Does not hold: the socket keeps flowing between two reads.
NothingUnread == ~proxy.unread
=============================================================================
