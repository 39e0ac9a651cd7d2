------------------------------- MODULE ZipConduit ------------------------------
(* ZipConduitService (services/ios/zipconduit): an IPA is streamed over one socket as   *)
(* local headers and payloads, then the progress of the installation is read. A write   *)
(* hands the socket a reference: the bytes that go out are those the buffer holds when   *)
(* the kernel takes them.                                                                *)
EXTENDS Integers, Sequences, SequencesExt

CONSTANTS
    Entries,      \* what the archive lists: kind, units of payload, central and local extra
    BufferSize,   \* TRANSFER_CHUNK_SIZE, in units
    HighWater,    \* of the socket, at most BufferSize
    MaxRead,      \* bound: units in a chunk of an entry's stream
    MaxInstalls   \* bound

VARIABLES
    conduit,   \* ZipConduitService: its socket, and where its caller is
    upload,    \* sendIpaFile and pipeReadableToSocket: item, units copied, offset, buffers
    outgoing,  \* the socket: state, writes the kernel has not taken, units it has
    installd   \* the device: plists that have come

zcVars == <<conduit, upload, outgoing, installd>>

Block == [kind |-> "block", size |-> 0, central |-> 0, local |-> 0]
MetaInf == [kind |-> "made", size |-> 1, central |-> 0, local |-> 0]

\* InitTransfer, META-INF and its file, the entries, the marker of the central directory.
Items == <<Block, Block, MetaInf>> \o Entries \o <<Block>>
Item == Items[upload.item]
IsFile(e) == e.kind # "block"

NewUpload == [item |-> 1, at |-> "header", copied |-> 0, offset |-> 0, 
              buffer |-> [i \in DOMAIN Items |-> [k \in 1..BufferSize |-> 0]]]

ZcInit ==
    /\ conduit = [at |-> "none", has |-> FALSE, installs |-> 0]
    /\ upload = NewUpload
    /\ outgoing = [state |-> "none", queue |-> <<>>, wire |-> <<>>]
    /\ installd = <<>>

-----------------------------------------------------------------------------
(* connect: createRawServiceSocket and the check-in.                             *)

Connects ==
    /\ conduit.at = "none" /\ ~conduit.has
    /\ conduit' = [conduit EXCEPT !.at = "checkin"] /\ UNCHANGED <<upload, installd>>
    /\ outgoing' = [state |-> "open", queue |-> <<>>, wire |-> <<>>]

\* An answer that is not the expected one leaves the socket as it is.
CheckedIn(valid) ==
    /\ conduit.at = "checkin" /\ outgoing.state = "open"
    /\ conduit' = [conduit EXCEPT !.at = IF valid THEN "ready" ELSE "failed", !.has = valid]
    /\ UNCHANGED <<upload, outgoing, installd>>

\* The idle timer of the dial, which holds until the check-in is over.
CheckinTimesOut ==
    /\ conduit.at = "checkin"
    /\ conduit' = [conduit EXCEPT !.at = "failed"] /\ outgoing' = [outgoing EXCEPT !.state = "destroyed"]
    /\ UNCHANGED <<upload, installd>>

-----------------------------------------------------------------------------
(* install.                                                                      *)

Installs ==
    /\ conduit.at = "ready" /\ conduit.installs < MaxInstalls
    /\ conduit' = [conduit EXCEPT !.at = "sending", !.installs = @ + 1] /\ upload' = NewUpload
    /\ outgoing' = [outgoing EXCEPT !.wire = <<>>] /\ UNCHANGED installd

\* writableLength: the units of the writes that the kernel has not taken; each knows how many
\* have been written up to it.
Written == IF outgoing.queue = <<>> THEN 0 ELSE Last(outgoing.queue).upto
Queued == IF outgoing.queue = <<>> THEN 0 ELSE Written - (Head(outgoing.queue).upto - Head(outgoing.queue).n)

\* Mutant: what is written is as good as sent.
NeverFull(n) == FALSE
Full(n) == Queued + n >= HighWater

\* writeBufferToSocket: the queue takes the data, and the caller waits until it is empty.
Write(item, n) ==
    /\ outgoing.state = "open"
    /\ outgoing' = [outgoing EXCEPT !.queue = Append(@, [item |-> item, n |-> n, upto |-> Written + n])]
    /\ conduit' = [conduit EXCEPT !.at = IF Full(n) THEN "draining" ELSE "sending"]

NextItem(u) == [u EXCEPT !.item = @ + 1, !.at = "header", !.copied = 0, !.offset = 0]

Sending == conduit.at = "sending" /\ upload.item \in DOMAIN Items

\* openEntry reads the local header into the entry, which is what the data offset needs.
OpensEntry ==
    /\ Sending /\ upload.at = "header" /\ Item.kind = "stored"
    /\ upload' = [upload EXCEPT !.at = "opened"] /\ UNCHANGED <<conduit, outgoing, installd>>

WritesHeader ==
    /\ Sending /\ upload.at = (IF Item.kind = "stored" THEN "opened" ELSE "header")
    /\ Write(upload.item, 0)
    /\ upload' = (IF IsFile(Item) THEN [upload EXCEPT !.at = "copy"] ELSE NextItem(upload))
    /\ UNCHANGED installd

DataOffset(e) == e.local

\* for await: units of the entry's stream are copied into the buffer of this file.
Copies(n) ==
    /\ Sending /\ upload.at = "copy" /\ n <= Item.size - upload.copied /\ n <= BufferSize - upload.offset
    /\ upload' = [upload EXCEPT !.copied = @ + n, !.offset = @ + n,
          !.buffer[upload.item] =
             [k \in 1..BufferSize |->
                IF k \in (upload.offset + 1)..(upload.offset + n)
                THEN upload.copied + (k - upload.offset) + (DataOffset(Item) - Item.local) ELSE @[k]]]
    /\ UNCHANGED <<conduit, outgoing, installd>>

\* A full buffer is written and filled again from its start; the rest is written at the end.
WritesBuffer ==
    /\ Sending /\ upload.at = "copy"
    /\ upload.offset = BufferSize \/ (upload.copied = Item.size /\ upload.offset > 0)
    /\ Write(upload.item, upload.offset)
    /\ upload' = [upload EXCEPT !.offset = 0] /\ UNCHANGED installd

EndsFile ==
    /\ Sending /\ upload.at = "copy" /\ upload.copied = Item.size /\ upload.offset = 0
    /\ upload' = NextItem(upload) /\ UNCHANGED <<conduit, outgoing, installd>>

\* The kernel takes the first write, as the buffer is now; 'drain' once nothing is queued.
Units(w) == IF w.n = 0 THEN <<<<w.item, 0>>>> ELSE [k \in 1..w.n |-> <<w.item, upload.buffer[w.item][k]>>]

Flushes ==
    /\ outgoing.state = "open" /\ outgoing.queue # <<>>
    /\ outgoing' = [outgoing EXCEPT !.queue = Tail(@), !.wire = @ \o Units(Head(outgoing.queue))]
    /\ conduit' = [conduit EXCEPT !.at = IF @ = "draining" /\ Len(outgoing.queue) = 1 THEN "sending" ELSE @]
    /\ UNCHANGED <<upload, installd>>

\* The archive cannot be read, an entry's stream fails, or the socket is gone.
SendFails ==
    /\ Sending \/ (conduit.at = "draining" /\ outgoing.state # "open")
    /\ conduit' = [conduit EXCEPT !.at = "ready"] /\ UNCHANGED <<upload, outgoing, installd>>

Uploaded ==
    /\ conduit.at = "sending" /\ upload.item \notin DOMAIN Items
    /\ conduit' = [conduit EXCEPT !.at = "waiting"] /\ UNCHANGED <<upload, outgoing, installd>>

-----------------------------------------------------------------------------
(* waitForInstallation.                                                          *)

\* evaluateProgress: DataComplete ends the wait, an error fails it, a percentage is reported.
Progress ==
    /\ conduit.at = "waiting" /\ installd # <<>>
    /\ installd' = Tail(installd)
    /\ conduit' = [conduit EXCEPT !.at = IF Head(installd) = "percent" THEN @ ELSE "ready"]
    /\ UNCHANGED <<upload, outgoing>>

\* Thirty seconds without a plist destroy the socket, whatever the timeout of the install.
WaitFails ==
    /\ conduit.at = "waiting" /\ installd = <<>>
    /\ conduit' = [conduit EXCEPT !.at = "ready"]
    /\ outgoing' = [outgoing EXCEPT !.state = IF @ = "open" THEN "destroyed" ELSE @]
    /\ UNCHANGED <<upload, installd>>

\* close: the listeners are removed and the socket is forgotten.
Closes ==
    /\ conduit.at \in {"ready", "failed"} /\ conduit.has
    /\ conduit' = [conduit EXCEPT !.at = "closed", !.has = FALSE] /\ UNCHANGED <<upload, outgoing, installd>>

\* The device: progress, once it has everything; or the connection is lost.
DeviceReports(plist) ==
    /\ conduit.at = "waiting" /\ outgoing.queue = <<>> /\ Len(installd) < 2 /\ outgoing.state = "open"
    /\ installd' = Append(installd, plist) /\ UNCHANGED <<conduit, upload, outgoing>>

ConnectionLost ==
    /\ outgoing.state = "open" /\ outgoing' = [outgoing EXCEPT !.state = "destroyed"]
    /\ installd' = <<>> /\ UNCHANGED <<conduit, upload>>

ZcNext ==
    \/ Connects \/ CheckinTimesOut \/ Installs \/ OpensEntry \/ WritesHeader \/ WritesBuffer \/ EndsFile
    \/ Flushes \/ SendFails \/ Uploaded \/ Progress \/ WaitFails \/ Closes \/ ConnectionLost
    \/ \E valid \in BOOLEAN : CheckedIn(valid)
    \/ \E n \in 1..MaxRead : Copies(n)
    \/ \E plist \in {"percent", "complete", "error"} : DeviceReports(plist)

ZcSpec == ZcInit /\ [][ZcNext]_zcVars

-----------------------------------------------------------------------------
\* What the device expects: the header of each item, and after that its units in order.
Following(x) == IF x[2] < Items[x[1]].size THEN <<x[1], x[2] + 1>> ELSE <<x[1] + 1, 0>>

\* The device gets the headers and the payload of every entry, unit by unit, each payload as
\* long as its header says: buffers that are filled again while the socket still holds them,
\* and payloads that do not begin where the local header ends, would show here.
StreamExact ==
    conduit.installs = 1 =>
        /\ outgoing.wire # <<>> => Head(outgoing.wire) = <<1, 0>>
        /\ \A k \in 1..Len(outgoing.wire) : outgoing.wire[k][1] \in DOMAIN Items
        /\ \A k \in 1..(Len(outgoing.wire) - 1) : outgoing.wire[k + 1] = Following(outgoing.wire[k])

\* "Close the underlying socket." Does not hold: nothing destroys it.
CloseCloses == conduit.at = "closed" => outgoing.state # "open"
=============================================================================
