------------------------------ MODULE AfcTransfer ------------------------------
(* The file transfers of AfcService (services/ios/afc/index.ts, stream-utils.ts):       *)
(* contents and streams are read through a pump of READ requests, written in WRITE      *)
(* requests, and a handle of the device is held meanwhile. A request may be refused     *)
(* with a status, and the connection may die, after which every request fails.          *)
EXTENDS Naturals

CONSTANTS
    Size,        \* bound: units of a file
    ChunkSize,   \* MAXIMUM_READ_SIZE and MAXIMUM_WRITE_SIZE, in units
    HighWater,   \* of the read stream
    MaxOps       \* bound: transfers

Reading == {"getFileContents", "readToStream", "pull"}
Writing == {"setFileContents", "writeFromStream"}

VARIABLES
    transfer,   \* the operation: which, where it is, its outcome, units done
    pump,       \* the read stream: left, buffered, Readable's reading flag, pumping, ended
    afcd        \* the device: the remote file, open handles, whether the connection lives

atVars == <<transfer, pump, afcd>>

NoPump == [left |-> 0, buffered |-> 0, reading |-> FALSE, pumping |-> FALSE, ended |-> FALSE]

AtInit ==
    /\ transfer = [kind |-> "none", at |-> "idle", failed |-> FALSE, done |-> 0, size |-> 0, ops |-> 0,
                   removal |-> "none"]
    /\ pump = NoPump
    /\ afcd = [file |-> 0, whole |-> TRUE, exists |-> TRUE, handles |-> 0, lives |-> TRUE, refusedClose |-> FALSE]

Goto(at) == transfer' = [transfer EXCEPT !.at = at]
Least(a, b) == IF a < b THEN a ELSE b

Starts(kind, size) ==
    /\ transfer.at = "idle" /\ transfer.ops < MaxOps /\ afcd.lives
    /\ transfer' = [kind |-> kind, at |-> IF kind \in Reading THEN "resolve" ELSE "open", failed |-> FALSE,
                    done |-> 0, size |-> size, ops |-> transfer.ops + 1, removal |-> "none"]
    /\ pump' = NoPump
    /\ afcd' = [afcd EXCEPT !.file = IF kind \in Reading THEN size ELSE @, !.refusedClose = FALSE,
                            !.exists = kind \in Reading \/ @, !.whole = TRUE]

\* _resolvePath and stat: a size that holds from here on.
Resolves ==
    /\ transfer.at = "resolve" /\ afcd.lives /\ Goto("open") /\ UNCHANGED <<pump, afcd>>

\* fopen: 'w' truncates.
Opens ==
    /\ transfer.at = "open" /\ afcd.lives
    /\ transfer' = [transfer EXCEPT !.at = "moving"]
    /\ pump' = [NoPump EXCEPT !.left = transfer.size]
    /\ afcd' = [afcd EXCEPT !.handles = @ + 1, !.exists = TRUE,
                   !.whole = transfer.kind \in Reading, !.file = IF transfer.kind \in Reading THEN @ ELSE 0]

OpenFails ==
    /\ transfer.at \in {"resolve", "open"}
    /\ transfer' = [transfer EXCEPT !.at = "ended", !.failed = TRUE] /\ UNCHANGED <<pump, afcd>>

-----------------------------------------------------------------------------
(* createAfcReadStream.                                                          *)

MovingIn == transfer.at = "moving" /\ transfer.kind \in Reading

\* Readable: read() asks for more unless that was done already, and nothing has come yet.
Asks ==
    /\ MovingIn /\ ~pump.reading /\ ~pump.ended /\ pump.buffered < HighWater
    /\ pump' = [pump EXCEPT !.reading = TRUE,
                   !.pumping = @ \/ pump.left > 0, !.ended = ~pump.pumping /\ pump.left = 0]
    /\ UNCHANGED <<transfer, afcd>>

\* Mutant: who stops because the buffer is full does not say so.
Lingers(more) == TRUE
StillPumping(more) == more

\* The answer to a READ: less than was asked for ends the stream, a full buffer stops the
\* pump, which otherwise sends the next request.
Comes(n) ==
    LET asked == Least(pump.left, ChunkSize)
        full == pump.buffered + n >= HighWater
    IN /\ MovingIn /\ pump.pumping /\ pump.left > 0 /\ afcd.lives /\ n = Least(asked, afcd.file - (transfer.size - pump.left))
       /\ pump' = [pump EXCEPT !.left = @ - n, !.buffered = @ + n, !.reading = FALSE,
                      !.ended = n < asked \/ (~full /\ pump.left = n),
                      !.pumping = StillPumping(~full /\ n = asked /\ pump.left > n)]
       /\ UNCHANGED <<transfer, afcd>>

Consumes ==
    /\ MovingIn /\ pump.buffered > 0
    /\ transfer' = [transfer EXCEPT !.done = @ + pump.buffered]
    /\ pump' = [pump EXCEPT !.buffered = 0] /\ UNCHANGED afcd

ReadEnds ==
    /\ MovingIn /\ pump.ended /\ pump.buffered = 0
    /\ Goto("close") /\ UNCHANGED <<pump, afcd>>

-----------------------------------------------------------------------------
(* fwrite, createAfcWriteStream.                                                 *)

MovingOut == transfer.at = "moving" /\ transfer.kind \in Writing

Writes ==
    /\ MovingOut /\ transfer.done < transfer.size /\ afcd.lives
    /\ LET n == Least(ChunkSize, transfer.size - transfer.done)
       IN /\ transfer' = [transfer EXCEPT !.done = @ + n]
          /\ afcd' = [afcd EXCEPT !.file = @ + n]
    /\ UNCHANGED pump

WriteEnds ==
    /\ MovingOut /\ transfer.done = transfer.size
    /\ Goto("close") /\ afcd' = [afcd EXCEPT !.whole = TRUE] /\ UNCHANGED pump

\* Mutant: what was written stays.
ToClose == "close"
AfterFailure == IF transfer.kind \in Writing THEN "remove" ELSE "close"

\* A READ or WRITE is refused, the connection is dead, or the local side of a pipe fails.
MoveFails ==
    /\ transfer.at = "moving"
    /\ transfer' = [transfer EXCEPT !.at = AfterFailure, !.failed = TRUE] /\ UNCHANGED <<pump, afcd>>

\* rmSingle(path, true): a failure is swallowed.
Removes ==
    /\ transfer.at = "remove" /\ afcd.lives
    /\ transfer' = [transfer EXCEPT !.at = "close", !.removal = "done"]
    /\ afcd' = [afcd EXCEPT !.exists = FALSE] /\ UNCHANGED pump

RemovalFails ==
    /\ transfer.at = "remove"
    /\ transfer' = [transfer EXCEPT !.at = "close", !.removal = "failed"] /\ UNCHANGED <<pump, afcd>>

\* fclose in the finally block: a failure replaces the outcome, except for a stream.
Closes ==
    /\ transfer.at = "close" /\ afcd.lives
    /\ Goto("ended") /\ afcd' = [afcd EXCEPT !.handles = @ - 1] /\ UNCHANGED pump

CloseFails ==
    /\ transfer.at = "close"
    /\ transfer' = [transfer EXCEPT !.at = "ended", !.failed = @ \/ transfer.kind # "readToStream"]
    /\ afcd' = [afcd EXCEPT !.refusedClose = TRUE] /\ UNCHANGED pump

Returns ==
    /\ transfer.at = "ended" /\ Goto("idle")
    /\ pump' = NoPump /\ afcd' = [afcd EXCEPT !.handles = 0, !.lives = TRUE]

\* The device: the file shrinks while it is read; the connection dies.
Shrinks ==
    /\ MovingIn /\ afcd.file > 0 /\ transfer.size - pump.left < afcd.file
    /\ afcd' = [afcd EXCEPT !.file = @ - 1] /\ UNCHANGED <<transfer, pump>>

Dies ==
    /\ transfer.at # "idle" /\ afcd.lives
    /\ afcd' = [afcd EXCEPT !.lives = FALSE] /\ UNCHANGED <<transfer, pump>>

AtNext ==
    \/ \E kind \in Reading \cup Writing, size \in 0..Size : Starts(kind, size)
    \/ Resolves \/ Opens \/ OpenFails \/ Asks \/ Consumes \/ ReadEnds \/ Writes \/ WriteEnds \/ MoveFails
    \/ Removes \/ RemovalFails \/ Closes \/ CloseFails \/ Returns \/ Shrinks \/ Dies
    \/ \E n \in 0..ChunkSize : Comes(n)

AtSpec == AtInit /\ [][AtNext]_atVars

-----------------------------------------------------------------------------
\* No wake-up is lost between the stream and its pump: data that was asked for is being
\* fetched, or the end has come.
ReadServed == MovingIn /\ pump.reading => pump.ended \/ (pump.pumping /\ pump.left > 0)

\* A transfer that has ended holds no handle of the device, unless the device would not close
\* it; one that succeeded moved all of the file, as far as it was still there; and one that
\* failed to write leaves no partial file, unless it could not be removed either.
EndsClean ==
    transfer.at = "ended" =>
        /\ afcd.handles > 0 => afcd.refusedClose
        /\ ~transfer.failed => transfer.done = Least(transfer.size, afcd.file) /\ afcd.whole
        /\ transfer.failed /\ ~afcd.whole => ~afcd.exists \/ transfer.removal = "failed"
=============================================================================
