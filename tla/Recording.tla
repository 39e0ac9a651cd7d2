------------------------------- MODULE Recording -------------------------------
(* Recording the device's screen, its sound or both (services/ios/display): a       *)
(* capture per track is negotiated with DisplayService, its units are written to a   *)
(* file until a timer, a frame count or an error ends the recording, then the        *)
(* captures are stopped and the files closed. MediaStream is what happens to the     *)
(* datagrams of one capture.                                                         *)
EXTENDS Naturals, Sequences, FiniteSets

Tracks(kind) == CASE kind = "screen" -> {"video"} [] kind = "sound" -> {"audio"} [] OTHER -> {"video", "audio"}
Track == {"video", "audio"}

VARIABLES
    recording,  \* which function runs, its stage, its timer and controller, its result
    capture,    \* per track: receiver, reports, abort signal and teardown of the capture
    task,       \* per track: the loop over its access units
    file,       \* per track: the writer
    streaming   \* the tracks the device is sending

recVars == <<recording, capture, task, file, streaming>>

NoCapture == [receiver |-> "none", live |-> FALSE, reports |-> FALSE, aborted |-> FALSE, stop |-> "none"]

RecInit ==
    /\ recording \in [kind : {"screen", "sound", "both"}, stage : {"idle"}, timer : {"off"},
                      aborted : {FALSE}, result : {"none"}]
    /\ capture = [t \in Track |-> NoCapture]
    /\ task = [t \in Track |-> "none"] /\ file = [t \in Track |-> "none"]
    /\ streaming = {}

Mine == Tracks(recording.kind)
Stage(s) == recording.stage = s
Goes(s) == [recording EXCEPT !.stage = s]
Fails(s) == [recording EXCEPT !.stage = s, !.result = "error"]
NextTrack == IF "video" \in Mine /\ ~capture["video"].live THEN "video" ELSE "audio"

-----------------------------------------------------------------------------
(* Starting: the socket is bound before the stream is negotiated.                *)

\* UdpMediaReceiver.bind for the next track, or its failure.
Binds ==
    /\ Stage("idle") \/ Stage("next")
    /\ \/ /\ recording' = Goes("negotiating")
          /\ capture' = [capture EXCEPT ![NextTrack].receiver = "open"]
       \/ recording' = Fails("stopping") /\ UNCHANGED capture
    /\ UNCHANGED <<task, file, streaming>>

\* startVideoStream or startAudioStream fails, the stream started or not: the receiver goes.
NegotiationFails ==
    /\ Stage("negotiating")
    /\ capture' = [capture EXCEPT ![NextTrack].receiver = "closed"]
    /\ streaming' \in {streaming, streaming \cup {NextTrack}}
    /\ recording' = Fails("stopping") /\ UNCHANGED <<task, file>>

\* The loops over access units start; only from now on is the controller's signal heard.
LoopsFrom(timer) ==
    /\ recording' = [recording EXCEPT !.stage = "loop", !.timer = timer]
    /\ task' = [t \in Track |-> IF t \in Mine THEN "waiting" ELSE "none"]

\* The answer; receiver reports keep the stream alive, if it names the SSRCs. With the last
\* track the AnnexBFileWriter of the video is created, which opens its file in its own time.
Negotiates ==
    /\ Stage("negotiating")
    /\ \E reports \in BOOLEAN : capture' = [capture EXCEPT ![NextTrack].live = TRUE, ![NextTrack].reports = reports]
    /\ streaming' = streaming \cup {NextTrack}
    /\ IF NextTrack = "video" /\ recording.kind = "both"
       THEN recording' = Goes("next") /\ UNCHANGED <<task, file>>
       ELSE /\ file' = [file EXCEPT !["video"] = IF "video" \in Mine THEN "open" ELSE @]
            /\ CASE recording.kind = "screen" -> LoopsFrom("armed")
                 [] recording.kind = "sound" ->
                        recording' = [recording EXCEPT !.stage = "creating", !.timer = "armed"] /\ UNCHANGED task
                 [] OTHER -> recording' = Goes("creating") /\ UNCHANGED task

\* M4aFileWriter.create, awaited: a recording of sound has started its timer before.
Creates ==
    /\ Stage("creating") /\ file' = [file EXCEPT !["audio"] = "open"]
    /\ LoopsFrom(IF recording.kind = "sound" THEN recording.timer ELSE "armed")
    /\ UNCHANGED <<capture, streaming>>

\* Mutant: the error is thrown at once.
ThrowsAtOnce == [recording EXCEPT !.stage = "done", !.result = "error", !.timer = "off"]

\* What is streaming already is stopped first.
CreationFailed == [recording EXCEPT !.stage = "stopping", !.result = "error", !.timer = "off"]

CreateFails ==
    /\ Stage("creating") /\ recording' = CreationFailed
    /\ UNCHANGED <<capture, task, file, streaming>>

-----------------------------------------------------------------------------
(* The loops.                                                                   *)

Hears(t) == task[t] \in {"waiting", "writing"}

\* tearDown(), once: reports, signal and receiver at once, then the request to stop.
TornDown(c) == [c EXCEPT !.reports = FALSE, !.aborted = TRUE, !.receiver = "closed", !.stop = "asked"]
Asks(t) == capture[t].live /\ capture[t].stop = "none"

\* The timer: a recording of the screen stops its capture, the others abort their signal,
\* which reaches the captures that are listening for it.
TimerFires ==
    /\ recording.timer = "armed"
    /\ recording' = [recording EXCEPT !.timer = "fired", !.aborted = recording.kind # "screen"]
    /\ capture' = [t \in Track |->
           IF recording.kind = "screen" /\ Asks(t) THEN TornDown(capture[t])
           ELSE [capture[t] EXCEPT !.aborted = @ \/ (recording.kind # "screen" /\ Hears(t))]]
    /\ UNCHANGED <<task, file, streaming>>

Ended(t) == capture[t].aborted \/ capture[t].receiver = "closed"

\* A unit arrives and is written; frames before the first key frame are not.
UnitArrives(t) ==
    /\ task[t] = "waiting" /\ t \in streaming /\ ~Ended(t)
    /\ task' = [task EXCEPT ![t] = "writing"]
    /\ UNCHANGED <<recording, capture, file, streaming>>

\* write() returns when the stream has room, or throws the error the stream had; the screen's
\* loop is left when it has its frames.
WriteEnds(t) ==
    /\ task[t] = "writing"
    /\ \/ file[t] = "failed" /\ task' = [task EXCEPT ![t] = "failed"]
       \/ file[t] = "open" /\ task' = [task EXCEPT ![t] = "waiting"]
       \/ file[t] = "open" /\ recording.kind = "screen" /\ task' = [task EXCEPT ![t] = "done"]
    /\ UNCHANGED <<recording, capture, file, streaming>>

LoopEnds(t) ==
    /\ task[t] = "waiting" /\ Ended(t) /\ task' = [task EXCEPT ![t] = "done"]
    /\ UNCHANGED <<recording, capture, file, streaming>>

\* A file cannot be opened or written: its stream keeps the error for the next call.
FileFails(t) ==
    /\ file[t] = "open" /\ file' = [file EXCEPT ![t] = "failed"]
    /\ UNCHANGED <<recording, capture, task, streaming>>

SocketFails(t) ==
    /\ capture[t].live /\ capture[t].receiver = "open"
    /\ capture' = [capture EXCEPT ![t].receiver = "closed"]
    /\ UNCHANGED <<recording, task, file, streaming>>

\* The device gives up a stream that no report keeps alive.
DeviceReaps(t) ==
    /\ t \in streaming /\ ~capture[t].reports /\ streaming' = streaming \ {t}
    /\ UNCHANGED <<recording, capture, task, file>>

-----------------------------------------------------------------------------
(* The end: finally.                                                            *)

Failed == \E t \in Track : task[t] = "failed"
Settled == \A t \in Mine : task[t] \in {"done", "failed"}

\* Mutant: the other loop is left to the timer.
LeftToTimer(t) == FALSE

\* controller.abort() reaches each loop that still listens.
ToldToEnd(t) == Hears(t)

\* Promise.all: both loops are done, or one has failed and the other is told to end.
LoopsLeft ==
    /\ Stage("loop") /\ (Failed \/ Settled)
    /\ recording' = [recording EXCEPT !.stage = "settling", !.timer = "off", !.aborted = TRUE,
                                      !.result = IF Failed THEN "error" ELSE @]
    /\ capture' = [t \in Track |-> [capture[t] EXCEPT !.aborted = @ \/ ToldToEnd(t)]]
    /\ UNCHANGED <<task, file, streaming>>

\* Mutant: the files are closed as soon as one loop has failed.
WaitsForNone == TRUE

\* Promise.allSettled: both loops have ended before anything is closed.
WaitsForBoth == Settled

Settles ==
    /\ Stage("settling") /\ WaitsForBoth
    /\ recording' = Goes("stopping") /\ UNCHANGED <<capture, task, file, streaming>>

\* capture.stop(), one after the other; a teardown in flight is joined.
StopAsked(t) ==
    /\ Stage("stopping") /\ Asks(t) /\ \A u \in Track : capture[u].stop # "asked"
    /\ capture' = [capture EXCEPT ![t] = TornDown(@)]
    /\ UNCHANGED <<recording, task, file, streaming>>

\* stopAllMediaStreams is answered, or fails, which is only logged: all streams are stopped.
StopAnswered(t) ==
    /\ capture[t].stop = "asked"
    /\ capture' = [capture EXCEPT ![t].stop = "ended"]
    /\ streaming' \in {streaming, {}}
    /\ UNCHANGED <<recording, task, file>>

AllStopped == \A t \in Track : capture[t].live => capture[t].stop = "ended"

\* close(): the sound's first, the video's whatever came of it.
FileCloses ==
    /\ Stage("stopping") /\ AllStopped /\ \E t \in Track : file[t] \in {"open", "failed"}
    /\ \E t \in Track : /\ file[t] \in {"open", "failed"}
                        /\ t = "video" => file["audio"] \notin {"open", "failed"}
                        /\ file' = [file EXCEPT ![t] = "closed"]
                        /\ \/ recording' = Fails("stopping")
                           \/ file[t] = "open" /\ UNCHANGED recording
    /\ UNCHANGED <<capture, task, streaming>>

Returns ==
    /\ Stage("stopping") /\ AllStopped /\ \A t \in Track : file[t] \in {"none", "closed"}
    /\ recording' = [recording EXCEPT !.stage = "done", !.result = IF @ = "none" THEN "ok" ELSE @]
    /\ UNCHANGED <<capture, task, file, streaming>>

-----------------------------------------------------------------------------
\* What the host does without the device's or a user's help: promises and its timers.
RecHost ==
    \/ Binds \/ NegotiationFails \/ Negotiates \/ Creates \/ CreateFails \/ TimerFires
    \/ LoopsLeft \/ Settles \/ FileCloses \/ Returns
    \/ \E t \in Track : WriteEnds(t) \/ LoopEnds(t) \/ StopAsked(t) \/ StopAnswered(t)

RecNext == RecHost \/ \E t \in Track : UnitArrives(t) \/ FileFails(t) \/ SocketFails(t) \/ DeviceReaps(t)

\* Fairness: promises are continued, timers fire, invocations have a timeout of their own;
\* each loop goes on whatever the other does.
RecFair == /\ WF_recVars(Binds \/ NegotiationFails \/ Negotiates \/ Creates \/ CreateFails)
           /\ WF_recVars(TimerFires) /\ WF_recVars(LoopsLeft \/ Settles \/ FileCloses \/ Returns)
           /\ \A t \in Track : WF_recVars(WriteEnds(t)) /\ WF_recVars(LoopEnds(t))
                               /\ WF_recVars(StopAsked(t) \/ StopAnswered(t))

RecSpec == RecInit /\ [][RecNext]_recVars /\ RecFair

-----------------------------------------------------------------------------
\* A recording that has returned, however it went, leaves nothing that its caller could not
\* release: no socket, no receiver reports that keep the device streaming, no open file.
NothingLeft ==
    Stage("done") => \A t \in Track : /\ capture[t].receiver # "open" /\ ~capture[t].reports
                                      /\ file[t] \notin {"open", "failed"}

\* "Both loops must be finished before the writers close": no loop is left to write to a
\* file that is closed.
NoWriteAfterClose == \A t \in Track : file[t] = "closed" => ~Hears(t)

\* A recording ends by itself: "How long to record, in milliseconds".
RecordingEnds == Stage("negotiating") ~> Stage("done")

\* The same but for a timer that fires while the file of a sound recording is created.
EndedOrAborted == Stage("done") \/ (recording.kind = "sound" /\ recording.aborted)
RecordingEndsInTime == Stage("negotiating") ~> EndedOrAborted
=============================================================================
