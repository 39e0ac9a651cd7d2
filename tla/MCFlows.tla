-------------------------------- MODULE MCFlows --------------------------------
(* The flows of several protocols and several connections, checked one at a time: those that *)
(* must come to an end, under the fairness of each, and those that put together what comes in  *)
(* pieces.                                                                                     *)
EXTENDS Naturals, Sequences

CONSTANTS MaxEmptyPolls, MaxSuites,   \* XcTest
          Attempts, MaxCalls,   \* AppleTv
          Asker, MaxAsks,   \* Lockdown
          RtpPackets, FirstSequence, NumberRange, Doubled,   \* MediaStream
          ZipEntries, ZipBuffer, SocketHighWater, ZipRead, Installations,   \* ZipConduit
          ListedEntries, LongestName, LongestCalled, LongestPad, LongestComment, WindowSizes, FirstWindow,   \* ZipReader
          DnsPackets, DnsInstances, DnsHosts, Discoveries, DnsHeard   \* MdnsBrowse

ASSUME PollsAssumption == MaxEmptyPolls \in Nat

\* What a device sends are pictures one after the other, the last packet of each marked, and a
\* NAL unit that is cut comes as a first fragment, others, and a last one, within a picture.
ASSUME PicturesAssumption ==
    /\ FirstSequence \in Nat /\ NumberRange \in Nat \ {0}
    /\ RtpPackets \in Seq([pic : Nat, form : {"sets", "single", "start", "middle", "end"}, key : BOOLEAN, last : BOOLEAN])
    /\ \A i, j \in 1..Len(RtpPackets) : i < j =>
          IF \E k \in i..(j - 1) : RtpPackets[k].last THEN RtpPackets[i].pic < RtpPackets[j].pic
          ELSE RtpPackets[i].pic = RtpPackets[j].pic
    /\ \A i \in 1..Len(RtpPackets) :
          /\ RtpPackets[i].form \in {"start", "middle"} =>
                ~RtpPackets[i].last /\ (i < Len(RtpPackets) => RtpPackets[i + 1].form \in {"middle", "end"})
          /\ RtpPackets[i].form \in {"middle", "end"} => i > 1 /\ RtpPackets[i - 1].form \in {"start", "middle"}

\* What an archive lists are directories, which have no payload, and files. A buffer of a
\* transfer is as much as the socket takes before it asks its writer to wait.
ASSUME ArchiveAssumption ==
    /\ ZipEntries \in Seq([kind : {"block", "stored"}, size : Nat, central : Nat, local : Nat])
    /\ \A i \in 1..Len(ZipEntries) : ZipEntries[i].kind = "block" => ZipEntries[i].size = 0
    /\ {ZipBuffer, SocketHighWater, ZipRead, Installations} \subseteq Nat
    /\ SocketHighWater <= ZipBuffer /\ ZipBuffer > 0

\* A window holds at least the fixed part of a header (46 bytes; the smallest window has 1024).
ASSUME WindowAssumption ==
    /\ {ListedEntries, LongestName, LongestCalled, LongestPad, LongestComment, FirstWindow} \subseteq Nat /\ FirstWindow > 0
    /\ WindowSizes \subseteq Nat /\ \A c \in WindowSizes : c >= 2

\* The records of a datagram are of five kinds; an address has its family.
ASSUME RecordsAssumption ==
    /\ DnsPackets \subseteq Seq([type : {"PTR"}, of : DnsInstances, val : {""}]
                             \cup [type : {"SRV"}, of : DnsInstances, val : DnsHosts \X Nat]
                             \cup [type : {"TXT"}, of : DnsInstances, val : STRING]
                             \cup [type : {"A"}, of : DnsHosts, val : {"v4"} \X Nat]
                             \cup [type : {"AAAA"}, of : DnsHosts, val : {"v6"} \X Nat])
    /\ {Discoveries, DnsHeard} \subseteq Nat

VARIABLES component,   \* the one that runs; the variables of the others are Resting
          runner, open, listener, target, closers,   \* XcTest
          flow, client, tv, remoted,   \* AppleTv
          recording, capture, task, file, streaming,   \* Recording
          relay, stage, upgrade, plist, requests, lockdownd,   \* Lockdown
          network, receiver, assembler, loss, keepalive,   \* MediaStream
          conduit, upload, outgoing, installd,   \* ZipConduit
          archive, window, zip,   \* ZipReader
          browser, heard, discovery   \* MdnsBrowse

xctestVars == <<runner, open, listener, target, closers>>
appletvVars == <<flow, client, tv, remoted>>
recordingVars == <<recording, capture, task, file, streaming>>
lockdownVars == <<relay, stage, upgrade, plist, requests, lockdownd>>
mediaVars == <<network, receiver, assembler, loss, keepalive>>
conduitVars == <<conduit, upload, outgoing, installd>>
readerVars == <<archive, window, zip>>
mdnsVars == <<browser, heard, discovery>>
vars == <<component, xctestVars, appletvVars, recordingVars, lockdownVars, mediaVars, conduitVars, readerVars, mdnsVars>>

\* MediaStream: a picture that is cut into fragments, and one in a packet of its own.
Piece(p, f, k, l) == [pic |-> p, form |-> f, key |-> k, last |-> l]
Packets == <<Piece(1, "sets", TRUE, FALSE), Piece(1, "start", TRUE, FALSE), Piece(1, "end", TRUE, TRUE),
             Piece(2, "single", FALSE, TRUE)>>

\* ZipConduit: a directory, two files.
Entry(kind, size, central, local) == [kind |-> kind, size |-> size, central |-> central, local |-> local]
Ipa == <<Entry("block", 0, 0, 0), Entry("stored", 5, 0, 1), Entry("stored", 2, 1, 1)>>

\* MdnsBrowse: records alone and together; two instances on one host, two addresses of a kind,
\* services that are not there.
Record(t, o, v) == [type |-> t, of |-> o, val |-> v]
Datagrams == {<<Record("PTR", "i", "")>>, <<Record("SRV", "i", <<"h", 1>>), Record("TXT", "i", "id")>>,
              <<Record("A", "h", <<"v4", 1>>)>>,
              <<Record("AAAA", "h", <<"v6", 1>>), Record("PTR", "j", ""), Record("SRV", "j", <<"h", 1>>)>>,
              <<Record("SRV", "i", <<"g", 2>>), Record("A", "h", <<"v4", 2>>)>>,
              <<Record("SRV", "j", <<"g", 0>>), Record("SRV", "i", <<".", 1>>)>>}

X == INSTANCE XcTest
A == INSTANCE AppleTv
R == INSTANCE Recording
L == INSTANCE Lockdown
M == INSTANCE MediaStream WITH Script <- RtpPackets, First <- FirstSequence, Modulus <- NumberRange, Copyable <- Doubled
Q == INSTANCE ZipConduit WITH Entries <- ZipEntries, BufferSize <- ZipBuffer, HighWater <- SocketHighWater,
                              MaxRead <- ZipRead, MaxInstalls <- Installations
Z == INSTANCE ZipReader WITH MaxEntries <- ListedEntries, MaxName <- LongestName, MaxCalled <- LongestCalled,
                             MaxPad <- LongestPad, MaxComment <- LongestComment, Chunks <- WindowSizes, SearchChunk <- FirstWindow
B == INSTANCE MdnsBrowse WITH Packet <- DnsPackets, Instance <- DnsInstances, Host <- DnsHosts,
                              MaxCalls <- Discoveries, MaxHeard <- DnsHeard

Resting == 0
Init ==
    /\ component \in {"xctest", "appletv", "recording", "lockdown", "media", "conduit", "reader", "mdns"}
    /\ IF component = "xctest" THEN X!XcInit
       ELSE runner = Resting /\ open = Resting /\ listener = Resting /\ target = Resting /\ closers = Resting
    /\ IF component = "appletv" THEN A!TvInit
       ELSE flow = Resting /\ client = Resting /\ tv = Resting /\ remoted = Resting
    /\ IF component = "recording" THEN R!RecInit
       ELSE recording = Resting /\ capture = Resting /\ task = Resting /\ file = Resting /\ streaming = Resting
    /\ IF component = "lockdown" THEN L!LdInit
       ELSE relay = Resting /\ stage = Resting /\ upgrade = Resting /\ plist = Resting /\ requests = Resting /\ lockdownd = Resting
    /\ IF component = "media" THEN M!MediaInit
       ELSE network = Resting /\ receiver = Resting /\ assembler = Resting /\ loss = Resting /\ keepalive = Resting
    /\ IF component = "conduit" THEN Q!ZcInit
       ELSE conduit = Resting /\ upload = Resting /\ outgoing = Resting /\ installd = Resting
    /\ IF component = "reader" THEN Z!ZipInit ELSE archive = Resting /\ window = Resting /\ zip = Resting
    /\ IF component = "mdns" THEN B!MdnsInit ELSE browser = Resting /\ heard = Resting /\ discovery = Resting

OthersRest(c) ==
    /\ UNCHANGED component
    /\ IF c = "xctest" THEN TRUE ELSE UNCHANGED xctestVars
    /\ IF c = "appletv" THEN TRUE ELSE UNCHANGED appletvVars
    /\ IF c = "recording" THEN TRUE ELSE UNCHANGED recordingVars
    /\ IF c = "lockdown" THEN TRUE ELSE UNCHANGED lockdownVars
    /\ IF c = "media" THEN TRUE ELSE UNCHANGED mediaVars
    /\ IF c = "conduit" THEN TRUE ELSE UNCHANGED conduitVars
    /\ IF c = "reader" THEN TRUE ELSE UNCHANGED readerVars
    /\ IF c = "mdns" THEN TRUE ELSE UNCHANGED mdnsVars

Xctest == component = "xctest" /\ X!XcNext /\ OthersRest("xctest")
Appletv == component = "appletv" /\ A!TvNext /\ OthersRest("appletv")
Recording == component = "recording" /\ R!RecNext /\ OthersRest("recording")
Lockdown == component = "lockdown" /\ L!LdNext /\ OthersRest("lockdown")
Media == component = "media" /\ M!MediaNext /\ OthersRest("media")
Conduit == component = "conduit" /\ Q!ZcNext /\ OthersRest("conduit")
Reader == component = "reader" /\ Z!ZipNext /\ OthersRest("reader")
Mdns == component = "mdns" /\ B!MdnsNext /\ OthersRest("mdns")

Next == Xctest \/ Appletv \/ Recording \/ Lockdown \/ Media \/ Conduit \/ Reader \/ Mdns

\* The fairness of each component, as its own specification has it: the host goes on with what
\* it has begun, its timers fire, and what it awaits of itself comes about. Peers need not
\* answer and users need not call; an awaited step that has no timer is in none of these.
XctestGoesOn == component = "xctest" /\ X!HostGoesOn /\ OthersRest("xctest")
XctestListens == component = "xctest" /\ X!ListenerGoesOn /\ OthersRest("xctest")
XctestCloses(k) == component = "xctest" /\ X!Close(k) /\ OthersRest("xctest")
AppletvGoesOn == component = "appletv" /\ A!HostStep /\ OthersRest("appletv")
RecordingStarts == /\ component = "recording" /\ OthersRest("recording")
                   /\ R!Binds \/ R!NegotiationFails \/ R!Negotiates \/ R!Creates \/ R!CreateFails
RecordingTimer == component = "recording" /\ R!TimerFires /\ OthersRest("recording")
RecordingEnds == /\ component = "recording" /\ OthersRest("recording")
                 /\ R!LoopsLeft \/ R!Settles \/ R!FileCloses \/ R!Returns
RecordingTrack(t) == component = "recording" /\ R!WriteEnds(t) /\ OthersRest("recording")
RecordingLoop(t) == component = "recording" /\ R!LoopEnds(t) /\ OthersRest("recording")
RecordingStops(t) == component = "recording" /\ (R!StopAsked(t) \/ R!StopAnswered(t)) /\ OthersRest("recording")
LockdownCloses == component = "lockdown" /\ (L!RelayEnds \/ L!RelayStopped) /\ OthersRest("lockdown")

Fairness ==
    /\ WF_vars(XctestGoesOn) /\ WF_vars(XctestListens) /\ \A k \in X!Closer : WF_vars(XctestCloses(k))
    /\ WF_vars(AppletvGoesOn)
    /\ WF_vars(RecordingStarts) /\ WF_vars(RecordingTimer) /\ WF_vars(RecordingEnds)
    /\ \A t \in R!Track : WF_vars(RecordingTrack(t)) /\ WF_vars(RecordingLoop(t)) /\ WF_vars(RecordingStops(t))
    /\ WF_vars(LockdownCloses)

Spec == Init /\ [][Next]_vars /\ Fairness

\* A flow that has ended, however it went, leaves nothing behind: neither processes nor
\* connections of a test run, nor sockets, reports or open files of a recording, to which
\* no loop writes any more, nor sockets or a suspended remoted of an Apple TV pairing; but for
\* what the modules name: a process whose number was not learnt or which could not be killed,
\* two connections of a test run that ended early, the socket of a tunnel without a name.
NothingLeftBehind ==
    /\ component = "xctest" => X!RunLeavesNothing
    /\ component = "recording" => R!NothingLeft /\ R!NoWriteAfterClose
    /\ component = "appletv" => A!RemotedResumed /\ A!SocketsClosed

\* A flow reports only what came about: a run passes if its plan ended without failures, and
\* a pairing goes on to the keys and the tunnel only after the peer has answered the proof with
\* anything but an error, over packets that are numbered as it expects them.
OutcomeTrue ==
    /\ component = "xctest" => X!VerdictMatches
    /\ component = "appletv" => A!ErrorStops /\ A!Numbered

\* What is handed on whole is what came in pieces, whatever was lost, doubled or reordered on
\* the way, and whatever was written over while it was still to be sent: the pictures of a
\* display stream of their packets, the archive that a device installs of the entries it is
\* given, the directory of an archive, one entry of each name, of what a window over it shows,
\* and is refused for a cause only, and the devices of a multicast browse of the service
\* records with a host and a port that came.
PiecesExact ==
    /\ component = "media" => M!UnitsWhole /\ M!NothingSkipped
    /\ component = "conduit" => Q!StreamExact
    /\ component = "reader" => Z!EntriesExact /\ Z!RefusedForCause
    /\ component = "mdns" => B!DiscoveryExact

\* What was begun comes to an end, but where the modules name the states in which nothing is
\* left that would end it; and close() of lockdown releases its relay.
EndsInTime ==
    /\ <>[](component = "xctest" => X!At("ended") \/ X!LeftToDevice)
    /\ (CASE component \in {"xctest", "media", "conduit", "reader", "mdns"} -> FALSE
          [] component = "appletv" -> ~A!Stage("idle")
          [] component = "recording" -> R!Stage("negotiating")
          [] component = "lockdown" -> L!At("closed"))
       ~> (CASE component \in {"xctest", "media", "conduit", "reader", "mdns"} -> TRUE
             [] component = "appletv" -> A!Stage("idle") \/ A!Hung
             [] component = "recording" -> R!EndedOrAborted
             [] component = "lockdown" -> L!Released)
================================================================================
