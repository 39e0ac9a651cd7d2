-------------------------------- MODULE XpcWire --------------------------------
(* XPC messages over HTTP/2 (lib/remote-xpc): what the device sends on its streams goes  *)
(* in DATA frames that end anywhere, and reaches the host in chunks that end anywhere;   *)
(* Http2FrameParser collects frames, and RemoteXpcFramedTransport messages. Each frame   *)
(* on an even stream is credited with two WINDOW_UPDATE frames.                          *)
EXTENDS XpcMessage

CONSTANTS
    Messages,   \* bound: stream -> the bodies the device sends on it
    Cuts,       \* bound: lengths of frames, besides all there is
    Chunks      \* bound: lengths of chunks, besides all there is

VARIABLES
    sender,    \* the device: what is left to send, what is sent, streams that are in a message
    segment,   \* bytes on the way
    framed     \* RemoteXpcFramedTransport: buffer of the parser, pending data, messages, credits, whether
               \* it has heard anything

wireVars == <<sender, segment, framed>>

FramesInit ==
    /\ sender = [left |-> [s \in DOMAIN Messages |-> [i \in DOMAIN Messages[s] |-> EncodeMessage(0, 0, Messages[s][i])]],
                 sent |-> <<>>, data |-> 0, begun |-> {}, mixed |-> FALSE, wrong |-> FALSE, other |-> FALSE]
    /\ segment = <<>>
    /\ framed = [buffer |-> <<>>, pending |-> <<>>, got |-> <<>>, credit |-> 0, heard |-> 0, refused |-> FALSE]

-----------------------------------------------------------------------------
(* Frame.serialize.                                                              *)

Header(length, type, padded, stream) ==
    First("number", length, 3) \o First("frame", type, 1) \o First("flag", padded, 1) \o First("number", stream, 4)
Serialized(type, padded, stream, body) == Header(Len(body), type, padded, stream) \o body

\* The body of a DATA frame: the length of the padding, data, padding.
DataBody(data, pad) == IF pad = 0 THEN data ELSE First("number", pad, 1) \o data \o [i \in 1..pad |-> Nul]

\* The next bytes of a stream; a message ends with its frame. Another stream may come in between.
SendsData(s, n, pad) ==
    /\ sender.left[s] # <<>> /\ n <= Len(sender.left[s][1])
    /\ LET message == sender.left[s][1]
           all == n = Len(message)
           index == 1 + Len(Messages[s]) - Len(sender.left[s])
           body == DataBody(SubSeq(message, 1, n), pad)
       IN /\ segment' = segment \o Serialized("data", pad # 0, s, body)
          /\ sender' = [sender EXCEPT
                !.left[s] = IF all THEN Tail(@) ELSE <<SubSeq(message, n + 1, Len(message))>> \o Tail(@),
                !.sent = IF all THEN Append(@, Messages[s][index]) ELSE @,
                !.data = @ + IF s % 2 = 0 THEN Len(body) ELSE 0,
                !.begun = IF all THEN @ \ {s} ELSE @ \cup {s},
                !.mixed = @ \/ sender.begun \ {s} # {}]
    /\ UNCHANGED framed

\* SETTINGS and the like; or a DATA frame with more padding than it has bytes.
SendsOther ==
    /\ ~sender.other /\ segment # <<>> /\ sender' = [sender EXCEPT !.other = TRUE]
    /\ segment' = segment \o Serialized("other", FALSE, 0, Word(0)) /\ UNCHANGED framed

SendsWrong ==
    /\ ~sender.wrong /\ \A s \in DOMAIN Messages : sender.left[s] = <<>>
    /\ segment' = segment \o Serialized("data", TRUE, 1, First("number", 9, 1))
    /\ sender' = [sender EXCEPT !.wrong = TRUE] /\ UNCHANGED framed

-----------------------------------------------------------------------------
(* Http2FrameParser.append: whole frames, from what was kept and what came.      *)

RECURSIVE FramesIn(_)
FramesIn(b) ==
    LET end == 9 + b[1][2]
    IN IF Len(b) < 9 THEN <<>> ELSE IF Len(b) < end THEN <<>>
       ELSE <<SubSeq(b, 1, end)>> \o FramesIn(SubSeq(b, end + 1, Len(b)))

\* parseFrame, stripDataFramePadding.
Body(f) == SubSeq(f, 10, Len(f))
BadPadding(f) == f[4][2] = "data" /\ f[5][2] /\ (Len(f) = 9 \/ Body(f)[1][2] >= Len(f) - 9)
DataOf(f) == IF f[4][2] # "data" THEN <<>> ELSE IF ~f[5][2] THEN Body(f)
             ELSE SubSeq(Body(f), 2, Len(f) - 9 - Body(f)[1][2])

\* buildWindowUpdateFrames: the padding is credited as well.
\* Mutant: only the data is.
DataCredit(f) == IF f[4][2] = "data" /\ f[6][2] % 2 = 0 THEN Len(DataOf(f)) ELSE 0
Credit(f) == IF f[4][2] = "data" /\ f[6][2] % 2 = 0 THEN Len(Body(f)) ELSE 0

\* ingestXpcData, of one frame: messages as long as they decode. The data of all streams is
\* one sequence of messages.
RECURSIVE Ingest(_, _)
Ingest(got, pending) ==
    LET m == DecodeMessage(pending)
    IN IF pending = <<>> \/ m = Bad THEN <<got, pending>>
       ELSE Ingest(IF m.body = None THEN got ELSE Append(got, m.body), SubSeq(pending, m.used + 1, Len(pending)))

\* Mutant: what is incomplete is not kept.
Drops(pending) == <<>>
Keeps(pending) == pending

Handle(state, f) ==
    LET after == Ingest(state.got, state.pending \o DataOf(f))
    IN IF f[4][2] # "data" THEN state
       ELSE [state EXCEPT !.got = after[1], !.pending = Keeps(after[2]), !.credit = @ + Credit(f)]

\* handleData: a frame that is refused takes the frames before it in the chunk with it, and
\* the error closes the connection.
Arrives(n) ==
    /\ n \in 1..Len(segment) /\ ~framed.refused
    /\ segment' = SubSeq(segment, n + 1, Len(segment))
    /\ LET all == framed.buffer \o SubSeq(segment, 1, n)
           frames == FramesIn(all)
           used == Len(FlattenSeq(frames))
       IN framed' = IF \E i \in DOMAIN frames : BadPadding(frames[i]) THEN [framed EXCEPT !.refused = TRUE, !.heard = 1]
                    ELSE [FoldLeft(Handle, framed, frames) EXCEPT !.heard = 1, !.buffer = SubSeq(all, used + 1, Len(all))]
    /\ UNCHANGED sender

\* The device does not wait for the host: it sends all before the first chunk is read.
Sends == /\ framed.heard = 0
         /\ \/ \E s \in DOMAIN Messages \ sender.begun, n \in Cuts : SendsData(s, n, 0)
            \/ \E s \in DOMAIN Messages, pad \in {0, 2} : sender.left[s] # <<>> /\ SendsData(s, Len(sender.left[s][1]), pad)
            \/ SendsOther \/ SendsWrong

FramesNext == Sends \/ \E n \in Chunks \cup {Len(segment)} : Arrives(n)

FramesSpec == FramesInit /\ [][FramesNext]_wireVars

-----------------------------------------------------------------------------
Bodies == LET sent == SelectSeq(sender.sent, LAMBDA b : b # None) IN [i \in DOMAIN sent |-> Plain(sent[i])]
AllKeysAligned == \A s \in DOMAIN Messages : \A i \in DOMAIN Messages[s] : ~Misaligned(Messages[s][i])

\* However messages are cut into frames, and frames into chunks, what is received is what was
\* sent, in order, and all of it once all has come - as long as the device does not begin a
\* message on one stream within another, and no key is misaligned.
MessagesKept ==
    ~sender.mixed /\ AllKeysAligned =>
        /\ IsPrefix(framed.got, Bodies)
        /\ segment = <<>> /\ ~framed.refused /\ framed.buffer = <<>> => Len(framed.got) = Len(Bodies)

\* Every byte of the bodies of DATA frames on even streams is given back to the window.
WindowKept == segment = <<>> /\ ~framed.refused /\ framed.buffer = <<>> => framed.credit = sender.data
=============================================================================
