------------------------------- MODULE ZipReader -------------------------------
(* StreamZip (services/ios/zipconduit/stream-zip.ts): how the central directory of an  *)
(* archive is found and read through a window of its file that grows to the left and   *)
(* moves to the right. A byte of the file is its offset; the headers of an entry and   *)
(* of the end record have two bytes here. A name is known by its length: two names of   *)
(* one length are one. The order in which Object.values lists the entries (that of     *)
(* their names' first, but names that are numbers before the others) and archives of   *)
(* the Zip64 form are left out.                                                        *)
EXTENDS Integers, Sequences, SequencesExt

CONSTANTS
    MaxEntries, MaxName, MaxCalled, MaxPad,   \* bounds of an archive
    MaxComment,                    \* MAXFILECOMMENT
    Chunks,                        \* chunkSize of the configuration
    SearchChunk                    \* 1024 bytes of the search's first window

CenHdr == 2
EndHdr == 2
Junk == -1

VARIABLES
    archive,   \* what is before the directory, its entries' variable parts and the names
               \* they begin with, the comment
    window,    \* FileWindowBuffer: position, buffer, and what the last read returned
    zip        \* StreamZip: signatureOp, entriesOp, the entries emitted, entryMap, the promise of readiness

zipVars == <<archive, window, zip>>

\* Where the headers are, one after the other, and the end record after the last one.
Headers(a) ==
    LET at[i \in 1..(Len(a.names) + 1)] == IF i = 1 THEN a.pad ELSE at[i - 1] + CenHdr + a.names[i - 1]
    IN at
HeaderAt(i) == Headers(archive)[i]
EndAt == HeaderAt(Len(archive.names) + 1)
FileSize == EndAt + EndHdr + archive.comment
Least(a, b) == IF a < b THEN a ELSE b

ZipInit ==
    /\ archive \in [pad : 0..MaxPad, names : BoundedSeq(0..MaxName, MaxEntries),
                    called : BoundedSeq(0..MaxCalled, MaxEntries), comment : 0..MaxComment]
    /\ Len(archive.called) = Len(archive.names)
    /\ \A i \in DOMAIN archive.names : archive.called[i] <= archive.names[i]
    /\ window = [position |-> 0, buffer |-> <<>>, got |-> 0]
    /\ zip = [at |-> "opening", chunk |-> 0, lastPos |-> 0, step |-> 0, pos |-> 0, left |-> 0,
              entry |-> 0, emitted |-> <<>>, entryMap |-> <<>>, io |-> TRUE]

-----------------------------------------------------------------------------
(* FsRead and FileWindowBuffer: length bytes at offset pos, put into the buffer from    *)
(* `at` on, as far as the file goes.                                                    *)

FsRead(buffer, at, length, position, pos) ==
    window' = [position |-> position, got |-> Least(length, FileSize - pos),
               buffer |-> [k \in 1..Len(buffer) |->
                  IF k - 1 \in at..(at + length - 1) /\ pos + (k - 1 - at) < FileSize
                  THEN pos + (k - 1 - at) ELSE buffer[k]]]

Blank(n) == [k \in 1..n |-> Junk]
Reads(pos, length) == FsRead(Blank(length), 0, length, pos, pos)

ExpandLeft(length) == FsRead(Blank(length) \o window.buffer, 0, length, window.position - length, window.position - length)

\* Mutant: the window moves over bytes that stay where they are.
Unshifted(shift) == window.buffer

\* buffer.copy(buffer, 0, shift): the tail keeps its old bytes.
Shifted(shift) == [k \in DOMAIN window.buffer |->
    IF k + shift \in DOMAIN window.buffer THEN window.buffer[k + shift] ELSE window.buffer[k]]

MoveRight(shift) ==
    LET size == Len(window.buffer)
    IN FsRead(Shifted(shift), size - shift, shift, window.position + shift, window.position + size)

-----------------------------------------------------------------------------

\* open, readFile, readCentralDirectory.
Opens(c) ==
    LET chunk == Least(c, FileSize)
        step == Least(SearchChunk, chunk)
    IN /\ zip.at = "opening"
       /\ zip' = [zip EXCEPT !.at = "searching", !.chunk = chunk, !.step = step, !.lastPos = FileSize]
       /\ Reads(FileSize - step, step) /\ UNCHANGED archive

MinPos == FileSize - Least(EndHdr + MaxComment, FileSize)

SignatureIn(b, k) == k + 1 \in DOMAIN b /\ b[k] = EndAt /\ b[k + 1] = EndAt + 1

\* readUntilFoundCallback: backwards through the window, as far as the comment may be long.
Found == \E p \in MinPos..(zip.lastPos - 1) :
            p >= window.position /\ SignatureIn(window.buffer, p - window.position + 1)

Searched ==
    LET pos == (IF window.position > MinPos THEN window.position ELSE MinPos) - 1
    IN /\ zip.at = "searching" /\ window.got > 0 /\ ~Found
       /\ IF pos <= MinPos THEN zip' = [zip EXCEPT !.at = "failed", !.io = FALSE] /\ UNCHANGED window
          ELSE /\ zip' = [zip EXCEPT !.lastPos = pos + 1, !.step = 2 * @]
               /\ ExpandLeft(Least(2 * zip.step, pos - MinPos))
       /\ UNCHANGED archive

\* readCentralDirectoryComplete, readEntries.
FindsDirectory ==
    /\ zip.at = "searching" /\ window.got > 0 /\ Found
    /\ zip' = [zip EXCEPT !.at = "entries", !.pos = archive.pad, !.left = Len(archive.names)]
    /\ Reads(archive.pad, Least(zip.chunk, FileSize - archive.pad)) /\ UNCHANGED archive

-----------------------------------------------------------------------------
(* readEntriesCallback, an iteration of its loop at a time.                      *)

Parsing == zip.at = "entries" /\ window.got > 0 /\ zip.left > 0
BufferPos == zip.pos - window.position
Held(n) == SubSeq(window.buffer, BufferPos + 1, Least(BufferPos + n, Len(window.buffer)))
Bytes(from, n) == [k \in 1..n |-> from + k - 1]

\* readHeader throws at anything that is not the header of an entry.
ReadsHeader ==
    /\ Parsing /\ zip.entry = 0
    /\ IF \E i \in DOMAIN archive.names : Held(CenHdr) = Bytes(HeaderAt(i), CenHdr)
       THEN zip' = [zip EXCEPT !.pos = @ + CenHdr,
                       !.entry = CHOOSE i \in DOMAIN archive.names : Held(CenHdr) = Bytes(HeaderAt(i), CenHdr)]
       ELSE zip' = [zip EXCEPT !.at = "failed", !.io = FALSE]
    /\ UNCHANGED <<archive, window>>

\* Mutant: the next header is not asked for.
NameOnly == archive.names[zip.entry]
Advance == archive.names[zip.entry] + (IF zip.left > 1 THEN CenHdr ELSE 0)
Enough == Len(window.buffer) - BufferPos >= Advance

\* entryMap[entry.name] = entry: an entry takes the place of an earlier one of its name.
Put(map, name, e) == [n \in DOMAIN map \cup {name} |-> IF n = name THEN e ELSE map[n]]

\* entry.read: its bytes as they are in the buffer.
ReadsName ==
    LET n == archive.names[zip.entry]
        e == <<zip.entry, Held(n)>>
    IN /\ Parsing /\ zip.entry # 0 /\ Enough
       /\ zip' = [zip EXCEPT !.emitted = Append(@, e), !.entryMap = Put(@, archive.called[zip.entry], e),
                             !.entry = 0, !.left = @ - 1, !.pos = @ + n]
       /\ UNCHANGED <<archive, window>>

Moves ==
    /\ Parsing /\ zip.entry # 0 /\ ~Enough
    /\ MoveRight(BufferPos) /\ UNCHANGED <<archive, zip>>

Ready ==
    /\ zip.at = "entries" /\ window.got > 0 /\ zip.left = 0
    /\ zip' = [zip EXCEPT !.at = "ready"] /\ UNCHANGED <<archive, window>>

\* A read that returns nothing is an error of the archive.
ReturnsNothing ==
    /\ zip.at \in {"searching", "entries"} /\ window.got <= 0
    /\ zip' = [zip EXCEPT !.at = "failed", !.io = FALSE] /\ UNCHANGED <<archive, window>>

\* open, fstat or read fails.
IoFails ==
    /\ zip.at \in {"opening", "searching", "entries"}
    /\ zip' = [zip EXCEPT !.at = "failed"] /\ UNCHANGED <<archive, window>>

ZipNext ==
    \/ \E c \in Chunks : Opens(c)
    \/ Searched \/ FindsDirectory \/ ReadsHeader \/ ReadsName \/ Moves \/ Ready \/ ReturnsNothing \/ IoFails

ZipSpec == ZipInit /\ [][ZipNext]_zipVars

-----------------------------------------------------------------------------
\* Whatever the windows, the entries emitted are those of the directory, in order, each with
\* the bytes of its own name; and an archive that is ready lists each name of the directory
\* once, as the last entry of that name.
Entry(i) == <<i, Bytes(HeaderAt(i) + CenHdr, archive.names[i])>>
LastOf(name, i) == archive.called[i] = name /\ \A j \in DOMAIN archive.names : archive.called[j] = name => j <= i
EntriesExact ==
    /\ \A i \in DOMAIN zip.emitted : zip.emitted[i] = Entry(i)
    /\ zip.at = "ready" =>
          /\ Len(zip.emitted) = Len(archive.names)
          /\ DOMAIN zip.entryMap = {archive.called[i] : i \in DOMAIN archive.names}
          /\ \A name \in DOMAIN zip.entryMap : \E i \in DOMAIN archive.names : LastOf(name, i) /\ zip.entryMap[name] = Entry(i)

\* An archive is refused only for what is known: a read that failed, an entry that does not
\* fit in a window, or an end record with the longest comment, at the first byte that may be
\* searched, which windows that have grown never reach.
RefusedForCause ==
    zip.at = "failed" /\ ~zip.io =>
        \/ \E i \in DOMAIN archive.names :
               archive.names[i] + (IF i < Len(archive.names) THEN CenHdr ELSE 0) > zip.chunk
        \/ EndAt = MinPos
=============================================================================
