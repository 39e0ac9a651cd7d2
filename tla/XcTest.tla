-------------------------------- MODULE XcTest --------------------------------
(* XCTestRunner and XCUITestService (services/ios/testmanagerd/xcuitest.ts): run()  *)
(* sets three connections up, launches the test runner on the device, authorizes    *)
(* it, waits for its configuration to be asked for, and for the plan to end, while  *)
(* a background listener polls the exec connection; close() takes all of it down,   *)
(* at the end of run() and whenever a user calls it.                                *)
EXTENDS Naturals, FiniteSets

CONSTANTS
    MaxEmptyPolls,  \* MAX_CONSECUTIVE_EMPTY_POLLS
    MaxSuites       \* bound: test suites the device reports

VARIABLES
    runner,    \* XCTestRunner: the stage of run(), its fields and its result
    open,      \* connections open on the host, and the process on the device
    listener,  \* the callback listener and the two deferred promises
    target,    \* connections lost, and what the device has still to say on the exec connection
    closers    \* close() in progress, of run() and of the user

xcVars == <<runner, open, listener, target, closers>>

Closer == {"run", "user"}

XcInit ==
    /\ runner = [stage |-> "exec", services |-> FALSE, installationProxy |-> FALSE,
                 xcuitest |-> FALSE, launchedPid |-> FALSE, result |-> "none", failedAt |-> "none"]
    /\ open = {}
    /\ listener = [state |-> "none", cut |-> FALSE, empty |-> 0, aborted |-> FALSE, error |-> FALSE,
                   config |-> "none", finished |-> "none", summary |-> "none"]
    /\ target = [lost |-> {}, ready |-> FALSE, plan |-> "idle", suites |-> 0, verdict |-> "none"]
    /\ closers = [k \in Closer |-> "idle"]

At(stage) == runner.stage = stage
Alive(c) == c \in open /\ c \notin target.lost
Step(stage) == runner' = [runner EXCEPT !.stage = stage]

\* A stage throws; the finally block of run() calls close().
Throws(stage) ==
    /\ runner' = [runner EXCEPT !.stage = "ending", !.result = "error", !.failedAt = stage]
    /\ closers' = [closers EXCEPT !["run"] = "begin"]

-----------------------------------------------------------------------------
(* setupAndLaunch.                                                             *)

\* startXCTestServices: the connections in turn; when one fails, all are closed.
ConnectNext ==
    /\ runner.stage \in {"exec", "control", "dvt"}
    /\ \/ /\ open' = open \cup {runner.stage}
          /\ runner' = [runner EXCEPT
                 !.stage = CASE @ = "exec" -> "control" [] @ = "control" -> "dvt" [] OTHER -> "lookup",
                 !.services = At("dvt"), !.installationProxy = At("dvt")]
          /\ UNCHANGED closers
       \/ /\ open' = {} /\ Throws("services")
    /\ UNCHANGED <<listener, target>>

\* lookupApps: the proxy is opened by its first request and closed after it.
LookupApps ==
    /\ At("lookup")
    /\ \/ /\ runner.installationProxy
          /\ runner' = [runner EXCEPT !.stage = "init_exec", !.installationProxy = FALSE,
                                      !.xcuitest = TRUE]
          /\ UNCHANGED closers
       \/ Throws("lookup")
    /\ UNCHANGED <<open, listener, target>>

\* initExecSession: a channel and a request on the exec connection.
InitExecSession ==
    /\ At("init_exec")
    /\ \/ Alive("exec") /\ Step("launch_runner") /\ UNCHANGED closers
       \/ Throws("init_exec")
    /\ UNCHANGED <<open, listener, target>>

\* ProcessControl.launch: the device starts the process or refuses it; it answers later.
LaunchRunner ==
    /\ At("launch_runner")
    /\ \/ /\ runner.xcuitest /\ Alive("dvt")
          /\ open' \in {open, open \cup {"process"}} /\ Step("launching") /\ UNCHANGED closers
       \/ Throws("launch_runner") /\ UNCHANGED open
    /\ UNCHANGED <<listener, target>>

\* The next message of the channel is taken for the reply: unless it is a number, the process
\* has none, whether it was started or not. A read fails when the connection is closed or lost.
LaunchFails ==
    /\ At("launching") /\ Throws("launching")
    /\ UNCHANGED <<open, listener, target>>

\* The number of the process, then startExecCallbackListener, which a close() has taken away.
Launched ==
    /\ At("launching") /\ Alive("dvt") /\ "process" \in open
    /\ IF runner.xcuitest
       THEN /\ runner' = [runner EXCEPT !.stage = "authorize", !.launchedPid = TRUE]
            /\ listener' = [listener EXCEPT !.state = "polling", !.aborted = FALSE,
                                            !.config = "pending", !.finished = "pending"]
            /\ target' = [target EXCEPT !.ready = TRUE]
            /\ UNCHANGED closers
       ELSE /\ runner' = [runner EXCEPT !.stage = "ending", !.launchedPid = TRUE,
                                        !.result = "error", !.failedAt = "listen"]
            /\ closers' = [closers EXCEPT !["run"] = "begin"]
            /\ UNCHANGED <<listener, target>>
    /\ UNCHANGED open

\* initControlSessionAndAuthorize: a channel and two requests on the control connection.
Authorize ==
    /\ At("authorize")
    /\ \/ Alive("control") /\ runner.xcuitest /\ Step("start_plan") /\ UNCHANGED closers
       \/ Throws("authorize")
    /\ UNCHANGED <<open, listener, target>>

\* startExecutingTestPlan waits for the configuration reply, if it is still to be sent.
StartPlan ==
    /\ At("start_plan") /\ listener.config # "pending"
    /\ \/ /\ runner.xcuitest /\ Alive("exec")
          /\ Step("wait_finish")
          /\ target' = [target EXCEPT !.plan = "running"]
          /\ UNCHANGED closers
       \/ Throws("start_plan") /\ UNCHANGED target
    /\ UNCHANGED <<open, listener>>

\* executeAndWait: the plan's end or the timer, whichever is first.
Ends(result) ==
    /\ runner' = [runner EXCEPT !.stage = "ending", !.result = result]
    /\ closers' = [closers EXCEPT !["run"] = "begin"]
    /\ UNCHANGED <<open, listener, target>>

WaitFinish ==
    /\ At("wait_finish")
    /\ \/ listener.finished \in {"passed", "failed"}
          /\ Ends(IF listener.error THEN "failed" ELSE listener.finished)
       \/ listener.finished = "pending" /\ Ends("timed_out")

-----------------------------------------------------------------------------
(* The callback listener.                                                      *)

\* Mutant: a listener that gives up reports success.
ResolvedPassed(l) == [l EXCEPT !.finished = IF @ = "pending" THEN "passed" ELSE @]

\* finishedDeferred.resolve('failed'): a deferred settles once.
ResolvedFailed(l) == [l EXCEPT !.finished = IF @ = "pending" THEN "failed" ELSE @]

\* Polls of a second without a message; too many end the listener, and leave whoever waits
\* for the configuration reply waiting.
EmptyPoll ==
    /\ listener.state = "polling" /\ ~listener.cut /\ Alive("exec")
    /\ listener' = IF listener.aborted THEN [listener EXCEPT !.state = "ended"]
                   ELSE IF listener.empty + 1 >= MaxEmptyPolls
                   THEN ResolvedFailed([listener EXCEPT !.state = "ended", !.error = TRUE,
                                                        !.empty = MaxEmptyPolls])
                   ELSE [listener EXCEPT !.empty = @ + 1]
    /\ UNCHANGED <<runner, open, target, closers>>

\* Mutant: a listener that fails leaves the configuration reply pending.
StaysPending ==
    IF listener.aborted THEN [listener EXCEPT !.state = "ended"]
    ELSE ResolvedFailed([listener EXCEPT !.state = "ended", !.error = TRUE])

\* The read or the reply throws: it unblocks startExecutingTestPlan.
ListenerFails ==
    IF listener.aborted THEN [listener EXCEPT !.state = "ended"]
    ELSE ResolvedFailed([listener EXCEPT !.state = "ended", !.error = TRUE, !.config = "none"])

ListenerError ==
    /\ listener.state = "polling" /\ ~Alive("exec")
    /\ listener' = ListenerFails
    /\ UNCHANGED <<runner, open, target, closers>>

\* A message has come.
Polled == [listener EXCEPT !.cut = FALSE, !.empty = 0, !.state = IF listener.aborted THEN "ended" ELSE @]

Receives == listener.state = "polling" /\ Alive("exec") /\ "process" \in open

\* Its header comes first: the payload is awaited without a timer or a signal.
HeaderComes ==
    /\ Receives /\ ~listener.cut
    /\ listener' = [listener EXCEPT !.cut = TRUE]
    /\ UNCHANGED <<runner, open, target, closers>>

\* Another callback, which nothing here depends on.
OtherCallback == Receives /\ listener' = Polled /\ UNCHANGED <<runner, open, target, closers>>

\* _XCT_testRunnerReadyWithCapabilities: is answered with the configuration.
RunnerReady ==
    /\ Receives /\ target.ready
    /\ target' = [target EXCEPT !.ready = FALSE]
    /\ listener' = [Polled EXCEPT !.config = IF @ = "pending" THEN "resolved" ELSE @]
    /\ UNCHANGED <<runner, open, closers>>

\* handleCallback keeps the summary of the last suite that finished.
SuiteFinished(summary) ==
    /\ Receives /\ target.plan = "running" /\ target.suites < MaxSuites
    /\ target' = [target EXCEPT !.suites = @ + 1, !.verdict = summary]
    /\ listener' = [Polled EXCEPT !.summary = summary]
    /\ UNCHANGED <<runner, open, closers>>

PlanFinished ==
    /\ Receives /\ target.plan = "running"
    /\ target' = [target EXCEPT !.plan = "finished"]
    /\ listener' = [listener EXCEPT !.state = "ended", !.cut = FALSE,
                       !.finished = IF @ # "pending" THEN @
                                    ELSE IF listener.summary = "failures" THEN "failed" ELSE "passed"]
    /\ UNCHANGED <<runner, open, closers>>

\* A connection is lost.
ConnectionLost(c) ==
    /\ c \in open \ target.lost
    /\ target' = [target EXCEPT !.lost = @ \cup {c}]
    /\ UNCHANGED <<runner, open, listener, closers>>

-----------------------------------------------------------------------------
(* close().                                                                    *)

UserCloses ==
    /\ closers["user"] = "idle" /\ ~At("ended")
    /\ closers' = [closers EXCEPT !["user"] = "begin"]
    /\ UNCHANGED <<runner, open, listener, target>>

\* Mutant: the process is killed only while somebody listens to it.
KillsRunning == runner.services /\ listener.state = "polling"

\* close() kills the test runner it has launched.
Kills == runner.services /\ runner.launchedPid

\* The proxy is closed and the process killed, which fails if the connection is gone.
CloseBegin(k) ==
    /\ closers[k] = "begin"
    /\ open' = IF Kills /\ Alive("dvt") THEN open \ {"process"} ELSE open
    /\ runner' = [runner EXCEPT !.installationProxy = FALSE,
                                !.launchedPid = @ /\ ~runner.services]
    /\ closers' = [closers EXCEPT ![k] = IF runner.xcuitest THEN "stop" ELSE "dvt"]
    /\ UNCHANGED <<listener, target>>

\* XCUITestService.stop(): the deferred promises are settled and the listener aborted.
StopBegin(k) ==
    /\ closers[k] = "stop"
    /\ listener' = ResolvedFailed([listener EXCEPT !.aborted = TRUE, !.config = "none"])
    /\ closers' = [closers EXCEPT ![k] = IF listener.state = "polling" THEN "join" ELSE "leave"]
    /\ UNCHANGED <<runner, open, target>>

\* stop() has seen the listener end.
Joined(k) ==
    /\ closers[k] = "join" /\ listener.state # "polling"
    /\ closers' = [closers EXCEPT ![k] = "leave"]
    /\ UNCHANGED <<runner, open, listener, target>>

\* Both connections are closed.
StopDone(k) ==
    /\ closers[k] = "leave"
    /\ open' = open \ {"exec", "control"}
    /\ runner' = [runner EXCEPT !.xcuitest = FALSE]
    /\ closers' = [closers EXCEPT ![k] = "dvt"]
    /\ UNCHANGED <<listener, target>>

\* The DVT connection is closed if the services are still known.
CloseDvt(k) ==
    /\ closers[k] = "dvt"
    /\ open' = IF runner.services THEN open \ {"dvt"} ELSE open
    /\ runner' = [runner EXCEPT !.services = FALSE, !.stage = IF k = "run" THEN "ended" ELSE @]
    /\ closers' = [closers EXCEPT ![k] = "done"]
    /\ UNCHANGED <<listener, target>>

Close(k) == CloseBegin(k) \/ StopBegin(k) \/ Joined(k) \/ StopDone(k) \/ CloseDvt(k)

Setup == ConnectNext \/ LookupApps \/ InitExecSession \/ LaunchRunner \/ Launched \/ LaunchFails
         \/ Authorize \/ StartPlan \/ WaitFinish

XcNext ==
    \/ Setup \/ EmptyPoll \/ ListenerError \/ HeaderComes \/ OtherCallback \/ RunnerReady
    \/ PlanFinished \/ UserCloses
    \/ \E c \in {"exec", "control", "dvt"} : ConnectionLost(c)
    \/ \E summary \in {"clean", "failures"} : SuiteFinished(summary)
    \/ \E k \in Closer : Close(k)

\* The stage waits for the device, without a timer. The read throws once the connection is
\* lost, or when close() has destroyed the socket, which that of the DVT service does; the
\* others only say that they end, and wait for the device to do so.
AwaitsAnswer ==
    \/ runner.stage \in {"exec", "control", "dvt"}
    \/ At("init_exec") /\ "exec" \notin target.lost
    \/ At("authorize") /\ "control" \notin target.lost
    \/ runner.stage \in {"launch_runner", "launching"} /\ Alive("dvt")

\* Fairness: what awaits the host or a timer goes on, timers fire and the listener polls; the
\* device owes nothing.
HostGoesOn == Setup /\ ~AwaitsAnswer
ListenerGoesOn == EmptyPoll \/ (ListenerError /\ (listener.cut => "exec" \in target.lost))

XcSpec == XcInit /\ [][XcNext]_xcVars /\ WF_xcVars(HostGoesOn)
          /\ WF_xcVars(ListenerGoesOn) /\ \A k \in Closer : WF_xcVars(Close(k))

-----------------------------------------------------------------------------
Undisturbed == closers["user"] = "idle"

\* "XCTestRunner ... manages service setup, launch, execution, and cleanup": when run() has
\* ended, nothing it opened or launched is left, whatever failed on the way.
RunCleansUp == At("ended") /\ Undisturbed => open = {}

\* The same, but for the two testmanagerd connections of a run that ended before it had
\* made the object that closes them, and for a process whose number was not learnt, or which
\* could not be killed over a connection that was lost.
ProcessLost == runner.failedAt = "launching" \/ "dvt" \in target.lost

RunLeavesNothing ==
    At("ended") /\ Undisturbed =>
        open \subseteq (IF runner.failedAt = "lookup" THEN {"exec", "control"} ELSE {})
                       \cup (IF ProcessLost THEN {"process"} ELSE {})

\* A run passes only if its plan ran to the end and the last suite had no failures,
\* whatever connections were lost, timers fired and close() was called.
VerdictMatches ==
    runner.result = "passed" => target.plan = "finished" /\ target.verdict # "failures"

\* run() ends: "Resolve deferred promises so nothing hangs".
RunEnds == <>At("ended")

\* The test runner never asked for its configuration and the listener gave up in silence,
\* which leaves startExecutingTestPlan waiting for ever.
SilentBeforeConfig ==
    At("start_plan") /\ listener.config = "pending" /\ listener.empty = MaxEmptyPolls

\* The device has sent a header, and owes the payload.
PayloadOwed == listener.state = "polling" /\ listener.cut /\ "exec" \notin target.lost

\* The device goes on sending callbacks, and owes the one that asks for the configuration.
ConfigOwed == At("start_plan") /\ listener.config = "pending" /\ listener.state = "polling"

\* run() ends unless the device leaves it for ever in one of these states.
LeftToDevice == AwaitsAnswer \/ SilentBeforeConfig \/ PayloadOwed \/ ConfigOwed
RunEndsOrAwaits == <>[](At("ended") \/ LeftToDevice)
=============================================================================
