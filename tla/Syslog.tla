------------------------------- MODULE Syslog -------------------------------
(* syslog-service: SyslogService starts and stops captures, each on a connection of its   *)
(* own, and SyslogProtocolParser, of which there is one, makes entries of their bytes. In  *)
(* text mode the bytes are lines. The four bytes of a length are one cell here.           *)
EXTENDS Integers, Sequences, SequencesExt

CONSTANTS
    Start,        \* bound: calls of start()
    None,
    Streams,      \* bound: the lists of entries a device sends
    MinEntry, MaxEntry,   \* MIN_ENTRY_SIZE, MAX_ENTRY_SIZE
    MaxBuffer,    \* MAX_BUFFER_SIZE
    Chunks,       \* bound: sizes of what a socket reads at once, one for a connection
    Lost          \* bound: bytes that the reader of plists takes, before it is unpiped

VARIABLES logger,   \* the service and its parser
          feed      \* the connections: feed[s] is the one of start s

Marker == 2   HeaderSize == 2   NUL == 0   Newline == 9

-----------------------------------------------------------------------------
(* Entries, as a device writes them: the sizes of image, message, subsystem and category, *)
(* with their terminators, the file name and these. An entry: [file, image, message, label].*)

Sized(s) == IF s = <<>> THEN <<>> ELSE Append(s, NUL)
Variable(e) == <<Sized(e.image), Sized(e.message), Sized(e.label[1]), Sized(e.label[2])>>
Encoded(e) == LET v == Variable(e) IN <<Len(v[1]), Len(v[2]), Len(v[3]), Len(v[4])>> \o Append(e.file, NUL) \o FlattenSeq(v)
Framed(e) == <<Marker, Len(Encoded(e))>> \o Encoded(e)
Line(e) == e.message \o <<Newline, NUL>>
Written(f, e) == IF f.lines THEN Line(e) ELSE Framed(e)

\* parseSyslogEntry: what is cut short by the end is shorter; no file name is an error.
Terminator(d) == {i \in 5..Len(d) : d[i] = NUL}
First(S) == CHOOSE i \in S : \A j \in S : i <= j
Cut(d, at, size) == IF size > 1 THEN SubSeq(d, at, IF at + size - 2 > Len(d) THEN Len(d) ELSE at + size - 2) ELSE <<>>
Parsed(d) ==
    LET image == First(Terminator(d)) + 1
        message == image + d[1]
        subsystem == message + d[2]
    IN IF Len(d) < 4 \/ Terminator(d) = {} THEN <<>>
       ELSE <<[file |-> SubSeq(d, 5, image - 2), image |-> Cut(d, image, d[1]), message |-> Cut(d, message, d[2]),
               label |-> <<Cut(d, subsystem, d[3]), Cut(d, subsystem + d[3], d[4])>>]>>

\* processBuffer: the bytes that stay and the entries they gave.
Markers(b) == {i \in DOMAIN b : b[i] = Marker}
Plausible(n) == n \in MinEntry..MaxEntry
RECURSIVE Process(_, _)
Process(b, out) ==
    LET at == SubSeq(b, First(Markers(b)), Len(b))
        size == HeaderSize + at[2]
    IN IF Markers(b) = {} THEN [buffer |-> <<>>, out |-> out]
       ELSE IF Len(at) < HeaderSize THEN [buffer |-> at, out |-> out]
       ELSE IF ~Plausible(at[2]) THEN Process(Tail(at), out)
       ELSE IF Len(at) < size THEN [buffer |-> at, out |-> out]
       ELSE Process(SubSeq(at, size + 1, Len(at)), out \o Parsed(SubSeq(at, HeaderSize + 1, size)))

\* addData: what would overflow the buffer starts a new one.
AddData(b, d) == IF Len(d) > MaxBuffer THEN [buffer |-> <<>>, out |-> <<>>]
                 ELSE Process((IF Len(b) + Len(d) > MaxBuffer THEN <<>> ELSE b) \o d, <<>>)

\* The lines of a text capture; an empty line is dropped.
Ends(b) == {i \in 1..(Len(b) - 1) : b[i] = Newline /\ b[i + 1] = NUL}
RECURSIVE Lines(_, _)
Lines(b, out) == LET i == First(Ends(b))
                 IN IF Ends(b) = {} THEN [buffer |-> b, out |-> out]
                    ELSE Lines(SubSeq(b, i + 2, Len(b)), IF i = 1 THEN out ELSE Append(out, SubSeq(b, 1, i - 1)))

-----------------------------------------------------------------------------
(* logger.starts[s]: "new", "connecting", "requesting", "started", "failed". logger.clean: *)
(* no two starts overlapped, and no stop came before a start was done; logger.out: what    *)
(* was emitted since the last stop, with the start it is of, while clean. feed[s].lost:    *)
(* the bytes that went to the plist splitter, into which the socket is piped at first.     *)

NoFeed == [lines |-> FALSE, open |-> FALSE, handled |-> FALSE, chunk |-> 0, rest |-> <<>>, sent |-> <<>>, text |-> <<>>, lost |-> 0]
SyslogInit ==
    /\ logger = [capturing |-> FALSE, connection |-> None, handler |-> None, buffer |-> <<>>, out |-> <<>>,
                 starts |-> [s \in Start |-> "new"], clean |-> TRUE]
    /\ feed = [s \in Start |-> NoFeed]

Pending == {s \in Start : logger.starts[s] \in {"connecting", "requesting"}}

\* Mutant: what stop() leaves in the parser is read by the next capture.
KeepsBuffer(l) == l.buffer
Reset(l) == <<>>
StoppedLogger(l) == [l EXCEPT !.capturing = FALSE, !.buffer = Reset(l), !.connection = None, !.out = <<>>,
                          !.handler = IF l.connection = None THEN @ ELSE None]
StoppedFeed(f) == [s \in Start |->
    IF s # logger.connection THEN f[s]
    ELSE [f[s] EXCEPT !.open = FALSE, !.handled = IF s = logger.handler THEN FALSE ELSE @]]

Stop == /\ logger.capturing
        /\ logger' = [StoppedLogger(logger) EXCEPT !.clean = @ /\ Pending = {}]
        /\ feed' = StoppedFeed(feed)

\* start() first stops a capture there is.
Starts(s, textMode) ==
    /\ logger.starts[s] = "new"
    /\ LET l == IF logger.capturing THEN StoppedLogger(logger) ELSE logger
       IN logger' = [l EXCEPT !.capturing = TRUE, !.starts[s] = "connecting", !.clean = @ /\ Pending = {}, !.out = <<>>]
    /\ feed' = [(IF logger.capturing THEN StoppedFeed(feed) ELSE feed) EXCEPT ![s].lines = textMode]

\* The connection is there; text comes by itself, and what came with the answer to the check-in
\* is lost; for entries a request is sent.
Connects(s, entries, chunk, n) ==
    LET all == FlattenSeq([i \in DOMAIN entries |-> Written(feed[s], entries[i])])
    IN /\ logger.starts[s] = "connecting" /\ n <= Len(all) /\ (feed[s].lines \/ n = 0)
       /\ logger' = [logger EXCEPT !.connection = s, !.starts[s] = IF feed[s].lines THEN "started" ELSE "requesting",
                         !.handler = IF feed[s].lines THEN s ELSE @]
       /\ feed' = [feed EXCEPT ![s] = [open |-> TRUE, handled |-> @.lines, lines |-> @.lines, chunk |-> chunk, sent |-> entries,
                                       text |-> <<>>, lost |-> n, rest |-> SubSeq(all, n + 1, Len(all))]]

\* The answer, and n bytes behind it that the reader of plists took.
Answered(s, n) ==
    /\ logger.starts[s] = "requesting" /\ feed[s].open /\ n <= Len(feed[s].rest)
    /\ logger' = [logger EXCEPT !.starts[s] = "started", !.handler = s]
    /\ feed' = [feed EXCEPT ![s].handled = TRUE, ![s].lost = n, ![s].rest = SubSeq(@, n + 1, Len(@))]

\* The connection or the request failed.
StartFails(s) ==
    /\ s \in Pending
    /\ logger' = [logger EXCEPT !.starts[s] = "failed", !.capturing = FALSE]
    /\ UNCHANGED feed

Data(s) ==
    /\ feed[s].open /\ feed[s].handled /\ feed[s].rest # <<>>
    /\ LET n == IF feed[s].chunk > Len(feed[s].rest) THEN Len(feed[s].rest) ELSE feed[s].chunk
           bytes == SubSeq(feed[s].rest, 1, n)
           read == IF feed[s].lines THEN Lines(feed[s].text \o bytes, <<>>) ELSE AddData(logger.buffer, bytes)
       IN /\ feed' = [feed EXCEPT ![s].rest = SubSeq(@, n + 1, Len(@)),
                                  ![s].text = IF feed[s].lines /\ logger.capturing THEN read.buffer ELSE @]
          /\ logger' = IF ~logger.capturing THEN logger
                       ELSE [logger EXCEPT !.buffer = IF feed[s].lines THEN @ ELSE read.buffer,
                                           !.out = IF logger.clean THEN @ \o [i \in DOMAIN read.out |-> <<s, read.out[i]>>] ELSE <<>>]

SyslogNext ==
    \/ Stop
    \/ \E s \in Start :
          \/ \E textMode \in BOOLEAN : Starts(s, textMode)
          \/ \E entries \in Streams, chunk \in Chunks, n \in Lost : Connects(s, entries, chunk, n)
          \/ \E n \in Lost : Answered(s, n)
          \/ StartFails(s)
          \/ Data(s)
SyslogSpec == SyslogInit /\ [][SyslogNext]_<<logger, feed>>

-----------------------------------------------------------------------------
\* What an entry or a line is emitted as; an empty line is not.
Emitted(s) == IF ~feed[s].lines THEN feed[s].sent
              ELSE SelectSeq([i \in DOMAIN feed[s].sent |-> feed[s].sent[i].message], LAMBDA m : m # <<>>)

\* However the bytes are cut, and whatever markers are in them, a capture emits the entries of
\* its connection, in order, each once and as it was; and so does the next one, where one
\* call came after the other. All of them, when all was read. Of a text whose beginning the
\* plist splitter took all lines but the first one are lines of it; of entries, nothing is said.
EntriesExact ==
    LET s == logger.connection
        all == [i \in DOMAIN Emitted(s) |-> <<s, Emitted(s)[i]>>]
    IN logger.clean /\ logger.capturing /\ s # None /\ logger.starts[s] = "started" =>
          /\ feed[s].lost = 0 =>
                IsPrefix(logger.out, all) /\ (feed[s].rest = <<>> => Len(logger.out) = Len(all))
          /\ feed[s].lost # 0 /\ feed[s].lines /\ logger.out # <<>> =>
                \E k \in 0..Len(all) : IsPrefix(Tail(logger.out), SubSeq(all, k + 1, Len(all)))

\* The comment of stop(): the socket is destroyed "to fully release the handle".
StopReleases == ~logger.capturing /\ Pending = {} => \A s \in Start : ~feed[s].open
=============================================================================
