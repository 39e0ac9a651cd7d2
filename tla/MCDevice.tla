------------------------------- MODULE MCDevice --------------------------------
(* The services of a device and the ways to it, checked one at a time: a behaviour is one of  *)
(* the component that Init chose. They share no state in the program.                        *)
EXTENDS MCValues, MCLinks

VARIABLES logger, feed,   \* Syslog
          bplist,   \* BinaryPlist
          sender, segment, framed,   \* XpcWire
          pairing,   \* PairingCodec
          archived   \* KeyedArchive

syslogVars == <<logger, feed>>
plistVars == <<bplist>>
xpcVars == <<sender, segment, framed>>
pairingVars == <<pairing>>
keyedVars == <<archived>>
dataVars == <<syslogVars, plistVars, xpcVars, pairingVars, keyedVars>>
vars == <<linksVars, dataVars>>

\* Syslog: entries with start bytes among their numbers.
EntryA == [file |-> <<5>>, image |-> <<>>, message |-> <<2>>, label |-> <<<<>>, <<>>>>]
EntryB == [file |-> <<2, 7>>, image |-> <<6>>, message |-> <<>>, label |-> <<<<>>, <<9>>>>]
Traces == {<<EntryA, EntryB>>, <<EntryA, EntryA>>}

\* CrashReports: a report between two of p that is of q, and an entry that names none.
Report(p, s) == [process |-> p, saved |-> s]
Reports == <<Report("p", TRUE), Report("p", FALSE), Report("q", TRUE), Report("p", TRUE)>>

\* AfcTree: names that differ in case only, and names that are the same once sanitized.
Directories == [r |-> <<"x", "X", "d">>, d |-> <<"y:", "y">>]
SafeName == [e \in {"x", "X", "d", "y:", "y"} |-> CASE e \in {"x", "d"} -> "x" [] e = "X" -> "X" [] OTHER -> "y"]
FoldedName == [n \in {"x", "X", "y"} |-> IF n = "X" THEN "x" ELSE n]

\* InstallationProxy: an empty part, and a last one that is not.
Lists == <<<<1, 2>>, <<>>, <<3>>>>

S == INSTANCE Syslog WITH Start <- {"a", "b"}, None <- "none", Streams <- Traces, MinEntry <- 6, MaxEntry <- 12,
                      MaxBuffer <- 100, Chunks <- {1, 4}, Lost <- {0, 2}
Y == INSTANCE BinaryPlist WITH Base <- 4, Inline <- 4, Magic <- 2, TypeKey <- <<0>>, ValueKey <- <<3>>, Plists <- PlistValues
X == INSTANCE XpcWire WITH Wide <- {"w"}, Messages <- XpcMessages, Cuts <- {30}, Chunks <- {11}
O == INSTANCE PairingCodec WITH Base <- 64, Fragment <- 3, Values <- OpackValues, Items <- TlvItems
K == INSTANCE KeyedArchive WITH Graphs <- AllGraphs, MaxDepth <- 10

Init ==
    /\ component \in {"usbmux", "forwarder", "lockdown", "testmanager", "syslog", "webinspector", "crash", "mounter", "proxy", "transfer", "tree", "plist", "xpc", "pairing", "keyed"}
    /\ LinksInit
    /\ IF component = "syslog" THEN S!SyslogInit ELSE logger = Resting /\ feed = Resting
    /\ IF component = "plist" THEN Y!PlistInit ELSE bplist = Resting
    /\ IF component = "xpc" THEN X!FramesInit
       ELSE sender = Resting /\ segment = Resting /\ framed = Resting
    /\ IF component = "pairing" THEN O!PairingInit ELSE pairing = Resting
    /\ IF component = "keyed" THEN K!ArchiveInit ELSE archived = Resting

OthersRest(c) ==
    /\ LinksRest(c)
    /\ IF c = "syslog" THEN TRUE ELSE UNCHANGED syslogVars
    /\ IF c = "plist" THEN TRUE ELSE UNCHANGED plistVars
    /\ IF c = "xpc" THEN TRUE ELSE UNCHANGED xpcVars
    /\ IF c = "pairing" THEN TRUE ELSE UNCHANGED pairingVars
    /\ IF c = "keyed" THEN TRUE ELSE UNCHANGED keyedVars

Syslog == component = "syslog" /\ S!SyslogNext /\ OthersRest("syslog")
Plist == component = "plist" /\ Y!PlistNext /\ OthersRest("plist")
Xpc == component = "xpc" /\ X!FramesNext /\ OthersRest("xpc")
Pairing == component = "pairing" /\ O!PairingNext /\ OthersRest("pairing")
Keyed == component = "keyed" /\ K!ArchiveNext /\ OthersRest("keyed")

Links == LinksNext /\ UNCHANGED dataVars

Next == Links \/ Syslog \/ Plist \/ Xpc \/ Pairing \/ Keyed
Spec == Init /\ [][Next]_vars

\* What is read is what was written, on whatever paths a value takes and however its bytes are
\* cut, lost or doubled: binary plists, XPC messages in HTTP/2 frames, whose peer may go on
\* sending for as long as there is more to come, OPACK and TLV8, keyed archives, entries of the
\* syslog, of whose text the first lines may be lost. The modules name what they leave out.
RoundTrips ==
    /\ component = "plist" => Y!PlistKept
    /\ component = "xpc" => X!MessagesKept /\ X!WindowKept
    /\ component = "pairing" => O!PairingDataKept
    /\ component = "keyed" => K!ArchiveKept
    /\ component = "syslog" => S!EntriesExact

\* PairingCodec.OpackKept, which does not hold.
OpackKept == component = "pairing" => O!OpackKept
================================================================================
