---------------------------- MODULE MCFlows_proofs ----------------------------
(* Proofs about the flows, for every value of the constants: what a test run, a   *)
(* recording and an Apple TV pairing leave behind, and what they report; and what  *)
(* is put together of the packets of a stream, the entries of an archive, what a   *)
(* window over one shows, and the records of a browse.                             *)
EXTENDS MCFlows, FiniteSetTheorems, SequenceTheorems, WellFoundedInduction, TLAPS

-----------------------------------------------------------------------------
(* XcTest: the inductive invariant.                                            *)

RunStages == {"exec", "control", "dvt", "lookup", "init_exec", "launch_runner", "launching",
              "authorize", "start_plan", "wait_finish", "ending", "ended"}
Runners == [stage : RunStages, services : BOOLEAN, installationProxy : BOOLEAN,
            xcuitest : BOOLEAN, launchedPid : BOOLEAN,
            result : {"none", "error", "passed", "failed", "timed_out"},
            failedAt : {"none", "services", "lookup", "init_exec", "launch_runner", "launching",
                        "listen", "authorize", "start_plan"}]
Listeners == [state : {"none", "polling", "ended"}, cut : BOOLEAN, empty : Nat, aborted : BOOLEAN,
              error : BOOLEAN, config : {"none", "pending", "resolved"},
              finished : {"none", "pending", "passed", "failed"},
              summary : {"none", "clean", "failures"}]
Targets == [lost : SUBSET {"exec", "control", "dvt"}, ready : BOOLEAN, plan : {"idle", "running", "finished"},
            suites : Nat, verdict : {"none", "clean", "failures"}]

XcTyped ==
    /\ runner \in Runners
    /\ open \subseteq {"exec", "control", "dvt", "process"}
    /\ listener \in Listeners
    /\ target \in Targets
    /\ closers \in [X!Closer -> {"idle", "begin", "stop", "join", "leave", "dvt", "done"}]

\* The plan runs only after run() has asked for it, and the listener has the summary of the
\* last suite.
PlanAsked ==
    /\ target.plan # "idle" => runner.stage \in {"wait_finish", "ending", "ended"}
    /\ listener.summary = target.verdict

Passed == target.plan = "finished" /\ target.verdict # "failures"

\* What the listener and run() report of the plan.
ReportsTrue ==
    /\ listener.finished = "passed" => Passed
    /\ runner.result = "passed" => Passed

\* run() closes once, at its end.
ClosesAtEnd ==
    /\ closers["run"] = "idle" <=> ~(X!At("ending") \/ X!At("ended"))
    /\ closers["run"] = "done" <=> X!At("ended")

\* What is open while run() goes on, and what it knows of it.
Held ==
    /\ X!At("exec") => open = {}
    /\ X!At("control") => open \subseteq {"exec"}
    /\ X!At("dvt") => open \subseteq {"exec", "control"}
    /\ runner.stage \in {"exec", "control", "dvt", "lookup"} => ~runner.xcuitest
    /\ runner.stage \in {"lookup", "init_exec", "launch_runner"} => "process" \notin open
    /\ runner.stage \in {"lookup", "init_exec", "launch_runner", "launching", "authorize",
                         "start_plan", "wait_finish"} =>
           runner.services /\ "dvt" \in open
    /\ runner.stage \in {"init_exec", "launch_runner", "launching", "authorize", "start_plan",
                         "wait_finish"} => runner.xcuitest
    /\ runner.stage \in {"authorize", "start_plan", "wait_finish"} => runner.launchedPid

\* What close() of run() has still to close, it will.
ToClose ==
    LET k == closers["run"]
        mine == IF runner.failedAt = "lookup" THEN {"exec", "control"} ELSE {}
    IN X!At("ending") \/ X!At("ended") =>
         /\ "process" \in open => X!ProcessLost \/ (k = "begin" /\ runner.services /\ runner.launchedPid /\ "dvt" \in open)
         /\ "dvt" \in open => k # "done" /\ runner.services
         /\ open \cap {"exec", "control"} \subseteq mine
            \/ (k = "begin" /\ runner.xcuitest) \/ k \in {"stop", "join", "leave"}

XcInv ==
    /\ XcTyped /\ PlanAsked /\ ReportsTrue /\ ClosesAtEnd
    /\ X!Undisturbed => Held /\ ToClose

-----------------------------------------------------------------------------
(* XcTest: the steps.                                                          *)

\* The fields of the records, for the steps that follow.
LEMMA XcFields ==
    ASSUME XcTyped
    PROVE  /\ runner = [stage |-> runner.stage, services |-> runner.services,
                        installationProxy |-> runner.installationProxy,
                        xcuitest |-> runner.xcuitest, launchedPid |-> runner.launchedPid,
                        result |-> runner.result, failedAt |-> runner.failedAt]
           /\ runner.stage \in RunStages
           /\ runner.services \in BOOLEAN /\ runner.installationProxy \in BOOLEAN
           /\ runner.xcuitest \in BOOLEAN /\ runner.launchedPid \in BOOLEAN
           /\ closers["run"] \in {"idle", "begin", "stop", "join", "leave", "dvt", "done"}
           /\ closers["user"] \in {"idle", "begin", "stop", "join", "leave", "dvt", "done"}
           /\ closers = [k \in X!Closer |-> closers[k]]
  BY DEF XcTyped, Runners, X!Closer

\* Before anything is open.
LEMMA XcInitial == X!XcInit => XcInv
  BY DEF X!XcInit, XcInv, XcTyped, PlanAsked, ReportsTrue, ClosesAtEnd, X!Undisturbed, Held,
         ToClose, X!At, X!Closer, RunStages, Runners, Listeners, Targets

\* A stage throws: it leaves to close() what close() can close.
LEMMA XcThrows ==
    ASSUME XcInv, NEW place \in {"services", "lookup", "init_exec", "launch_runner", "launching",
                                 "authorize", "start_plan"},
           X!Throws(place), ~X!At("ending"), ~X!At("ended"), UNCHANGED <<listener, target>>,
           open' \subseteq open,
           X!Undisturbed => /\ "process" \in open' => \/ place = "launching"
                                                      \/ runner.services /\ runner.launchedPid /\ "dvt" \in open'
                            /\ "dvt" \in open' => runner.services
                            /\ open' = {} \/ place = "lookup" \/ runner.xcuitest
    PROVE  XcInv'
  <1>1. /\ runner' \in Runners
        /\ runner'.stage = "ending" /\ runner'.failedAt = place /\ runner'.result = "error"
        /\ runner'.services = runner.services /\ runner'.xcuitest = runner.xcuitest
        /\ runner'.launchedPid = runner.launchedPid
    BY XcFields DEF X!Throws, XcInv, XcTyped, Runners, RunStages
  <1>2. /\ closers' \in [X!Closer -> {"idle", "begin", "stop", "join", "leave", "dvt", "done"}]
        /\ closers'["run"] = "begin" /\ closers'["user"] = closers["user"]
    BY DEF X!Throws, XcInv, XcTyped, X!Closer
  <1>3. XcTyped' /\ PlanAsked' /\ ReportsTrue' /\ ClosesAtEnd'
    BY <1>1, <1>2
       DEF XcInv, XcTyped, PlanAsked, ReportsTrue, ClosesAtEnd, X!At, Passed
  <1>4. X!Undisturbed' => Held' /\ ToClose'
    BY <1>1, <1>2 DEF X!Undisturbed, Held, ToClose, X!ProcessLost, X!At
  <1> QED
    BY <1>3, <1>4 DEF XcInv

\* A stage that goes on leads to the next, whose conditions hold.
LEMMA XcGoesOn ==
    ASSUME XcInv, runner' \in Runners, UNCHANGED closers, XcTyped', PlanAsked', ReportsTrue',
           ~X!At("ending"), ~X!At("ended"), ~X!At("ending")', ~X!At("ended")',
           X!Undisturbed => Held'
    PROVE  XcInv'
  BY DEF XcInv, ClosesAtEnd, ToClose, X!Undisturbed, X!At

\* A connection is made, or all are given up.
LEMMA XcConnectNext ==
    ASSUME XcInv, X!ConnectNext
    PROVE  XcInv'
  <1>1. runner.stage \in {"exec", "control", "dvt"} /\ UNCHANGED <<listener, target>>
    BY DEF X!ConnectNext
  <1>2. CASE open' = {} /\ X!Throws("services")
    BY <1>1, <1>2, XcThrows DEF X!At
  <1>3. CASE ~(open' = {} /\ X!Throws("services"))
    <2>1. /\ open' = open \cup {runner.stage} /\ UNCHANGED closers
          /\ runner' \in Runners
          /\ runner'.stage = CASE runner.stage = "exec" -> "control"
                               [] runner.stage = "control" -> "dvt" [] OTHER -> "lookup"
          /\ runner'.services = (runner.stage = "dvt") /\ runner'.xcuitest = runner.xcuitest
          /\ runner'.result = runner.result
      BY <1>1, <1>3, XcFields DEF X!ConnectNext, XcInv, XcTyped, Runners, RunStages, X!At
    <2>2. XcTyped' /\ PlanAsked' /\ ReportsTrue'
      BY <1>1, <2>1 DEF XcInv, XcTyped, PlanAsked, ReportsTrue, Passed
    <2>3. X!Undisturbed => Held'
      BY <1>1, <2>1 DEF XcInv, Held, X!At
    <2> QED BY <1>1, <2>1, <2>2, <2>3, XcGoesOn DEF X!At
  <1> QED BY <1>2, <1>3

\* The applications are looked up.
LEMMA XcLookupApps ==
    ASSUME XcInv, X!LookupApps
    PROVE  XcInv'
  <1>1. X!At("lookup") /\ UNCHANGED listener
    BY DEF X!LookupApps
  <1>2. CASE X!Throws("lookup")
    <2>1. UNCHANGED <<open, target>>
      BY <1>1, <1>2 DEF X!LookupApps, X!Throws, X!Step, X!At
    <2> QED BY <1>1, <1>2, <2>1, XcThrows DEF XcInv, X!At, Held
  <1>3. CASE ~X!Throws("lookup")
    <2>1. /\ UNCHANGED closers
          /\ runner' \in Runners
          /\ runner'.stage = "init_exec"
          /\ runner'.services = runner.services
          /\ runner'.xcuitest = TRUE
          /\ runner'.launchedPid = runner.launchedPid /\ runner'.result = runner.result
      BY <1>1, <1>3, XcFields DEF X!LookupApps, X!Step, XcInv, XcTyped, Runners, RunStages, X!At
    <2>2. UNCHANGED <<open, target>>
      BY <1>1, <1>3 DEF X!LookupApps, XcInv, XcTyped, Targets
    <2>3. XcTyped' /\ PlanAsked' /\ ReportsTrue'
      BY <1>1, <2>1, <2>2 DEF XcInv, XcTyped, PlanAsked, ReportsTrue, Passed, X!At
    <2>4. X!Undisturbed => Held'
      BY <1>1, <2>1, <2>2 DEF XcInv, Held, X!At
    <2> QED BY <1>1, <2>1, <2>3, <2>4, XcGoesOn DEF X!At
  <1> QED BY <1>2, <1>3

\* A session on the exec connection.
LEMMA XcInitExecSession ==
    ASSUME XcInv, X!InitExecSession
    PROVE  XcInv'
  <1>1. X!At("init_exec") /\ UNCHANGED listener
    BY DEF X!InitExecSession
  <1>2. CASE X!Throws("init_exec")
    <2>1. UNCHANGED <<open, target>>
      BY <1>1, <1>2 DEF X!InitExecSession, X!Throws, X!Step, X!At
    <2> QED BY <1>1, <1>2, <2>1, XcThrows DEF XcInv, X!At, Held
  <1>3. CASE ~X!Throws("init_exec")
    <2>1. /\ UNCHANGED closers
          /\ runner' \in Runners
          /\ runner'.stage = "launch_runner"
          /\ runner'.services = runner.services
          /\ runner'.xcuitest = runner.xcuitest
          /\ runner'.launchedPid = runner.launchedPid /\ runner'.result = runner.result
      BY <1>1, <1>3, XcFields DEF X!InitExecSession, X!Step, XcInv, XcTyped, Runners, RunStages, X!At
    <2>2. UNCHANGED <<open, target>>
      BY <1>1, <1>3 DEF X!InitExecSession, XcInv, XcTyped, Targets
    <2>3. XcTyped' /\ PlanAsked' /\ ReportsTrue'
      BY <1>1, <2>1, <2>2 DEF XcInv, XcTyped, PlanAsked, ReportsTrue, Passed, X!At
    <2>4. X!Undisturbed => Held'
      BY <1>1, <2>1, <2>2 DEF XcInv, Held, X!At
    <2> QED BY <1>1, <2>1, <2>3, <2>4, XcGoesOn DEF X!At
  <1> QED BY <1>2, <1>3

\* The process starts.
LEMMA XcLaunchRunner ==
    ASSUME XcInv, X!LaunchRunner
    PROVE  XcInv'
  <1>1. X!At("launch_runner") /\ UNCHANGED listener
    BY DEF X!LaunchRunner
  <1>2. CASE X!Throws("launch_runner") /\ UNCHANGED <<open, target>>
    BY <1>1, <1>2, XcThrows DEF XcInv, X!At, Held
  <1>3. CASE ~(X!Throws("launch_runner") /\ UNCHANGED <<open, target>>)
    <2>1. /\ UNCHANGED closers
          /\ runner' \in Runners
          /\ runner'.stage = "launching"
          /\ runner'.services = runner.services
          /\ runner'.xcuitest = runner.xcuitest
          /\ runner'.launchedPid = runner.launchedPid /\ runner'.result = runner.result
      BY <1>1, <1>3, XcFields DEF X!LaunchRunner, X!Step, XcInv, XcTyped, Runners, RunStages, X!At
    <2>2. open' \in {open, open \cup {"process"}} /\ UNCHANGED target
      BY <1>1, <1>3 DEF X!LaunchRunner, XcInv, XcTyped, Targets
    <2>3. XcTyped' /\ PlanAsked' /\ ReportsTrue'
      BY <1>1, <2>1, <2>2 DEF XcInv, XcTyped, PlanAsked, ReportsTrue, Passed, X!At
    <2>4. X!Undisturbed => Held'
      BY <1>1, <2>1, <2>2 DEF XcInv, Held, X!At
    <2> QED BY <1>1, <2>1, <2>3, <2>4, XcGoesOn DEF X!At
  <1> QED BY <1>2, <1>3

\* Its number does not come.
LEMMA XcLaunchFails ==
    ASSUME XcInv, X!LaunchFails
    PROVE  XcInv'
  BY XcThrows DEF X!LaunchFails, XcInv, Held, X!At

\* Its number is known.
LEMMA XcLaunched ==
    ASSUME XcInv, X!Launched
    PROVE  XcInv'
  <1>1. X!At("launching") /\ UNCHANGED open /\ target.plan = "idle"
    BY DEF X!Launched, XcInv, PlanAsked, X!At
  <1>3. CASE ~runner.xcuitest
    <2>1. ~X!Undisturbed
      BY <1>1, <1>3 DEF XcInv, Held, X!At
    <2>2. /\ runner' \in Runners /\ runner'.stage = "ending" /\ runner'.result = "error"
          /\ closers' \in [X!Closer -> {"idle", "begin", "stop", "join", "leave", "dvt", "done"}]
          /\ closers'["run"] = "begin" /\ closers'["user"] = closers["user"]
          /\ UNCHANGED <<listener, target>>
      <3>1. /\ runner' = [runner EXCEPT !.stage = "ending", !.launchedPid = TRUE,
                                         !.result = "error", !.failedAt = "listen"]
            /\ closers' = [closers EXCEPT !["run"] = "begin"]
            /\ UNCHANGED <<listener, target>>
        BY <1>3, XcFields DEF X!Launched, XcInv
      <3> QED BY <3>1, XcFields DEF XcInv, XcTyped, Runners, RunStages, X!Closer
    <2> QED
      BY <1>1, <2>1, <2>2
         DEF XcInv, XcTyped, PlanAsked, ReportsTrue, ClosesAtEnd, X!Undisturbed, X!At, Passed
  <1>4. CASE runner.xcuitest
    <2>1. /\ runner' \in Runners /\ UNCHANGED closers
          /\ runner'.stage = "authorize" /\ runner'.services = runner.services
          /\ runner'.xcuitest = runner.xcuitest /\ runner'.launchedPid
          /\ runner'.result = runner.result
      BY <1>4, XcFields DEF X!Launched, XcInv, XcTyped, Runners, RunStages
    <2>2. /\ listener' \in Listeners /\ target' \in Targets
          /\ listener'.finished = "pending" /\ listener'.summary = listener.summary
          /\ target'.plan = target.plan /\ target'.verdict = target.verdict
      <3>1. /\ listener' = [listener EXCEPT !.state = "polling", !.aborted = FALSE,
                                             !.config = "pending", !.finished = "pending"]
            /\ target' = [target EXCEPT !.ready = TRUE]
        BY <1>4 DEF X!Launched
      <3> QED BY <3>1 DEF XcInv, XcTyped, Listeners, Targets
    <2>3. XcTyped' /\ PlanAsked' /\ ReportsTrue'
      BY <1>1, <2>1, <2>2 DEF XcInv, XcTyped, PlanAsked, ReportsTrue, Passed
    <2>4. X!Undisturbed => Held'
      BY <1>1, <2>1 DEF XcInv, Held, X!At
    <2> QED BY <1>1, <2>1, <2>3, <2>4, XcGoesOn DEF X!At
  <1> QED BY <1>3, <1>4

\* The runner is authorized.
LEMMA XcAuthorize ==
    ASSUME XcInv, X!Authorize
    PROVE  XcInv'
  <1>1. X!At("authorize") /\ UNCHANGED listener
    BY DEF X!Authorize
  <1>2. CASE X!Throws("authorize")
    <2>1. UNCHANGED <<open, target>>
      BY <1>1, <1>2 DEF X!Authorize, X!Throws, X!Step, X!At
    <2> QED BY <1>1, <1>2, <2>1, XcThrows DEF XcInv, X!At, Held
  <1>3. CASE ~X!Throws("authorize")
    <2>1. /\ UNCHANGED closers
          /\ runner' \in Runners
          /\ runner'.stage = "start_plan"
          /\ runner'.services = runner.services
          /\ runner'.xcuitest = runner.xcuitest
          /\ runner'.launchedPid = runner.launchedPid /\ runner'.result = runner.result
      BY <1>1, <1>3, XcFields DEF X!Authorize, X!Step, XcInv, XcTyped, Runners, RunStages, X!At
    <2>2. UNCHANGED <<open, target>>
      BY <1>1, <1>3 DEF X!Authorize, XcInv, XcTyped, Targets
    <2>3. XcTyped' /\ PlanAsked' /\ ReportsTrue'
      BY <1>1, <2>1, <2>2 DEF XcInv, XcTyped, PlanAsked, ReportsTrue, Passed, X!At
    <2>4. X!Undisturbed => Held'
      BY <1>1, <2>1, <2>2 DEF XcInv, Held, X!At
    <2> QED BY <1>1, <2>1, <2>3, <2>4, XcGoesOn DEF X!At
  <1> QED BY <1>2, <1>3

\* The plan is started.
LEMMA XcStartPlan ==
    ASSUME XcInv, X!StartPlan
    PROVE  XcInv'
  <1>1. X!At("start_plan") /\ UNCHANGED listener
    BY DEF X!StartPlan
  <1>2. CASE X!Throws("start_plan") /\ UNCHANGED <<open, target>>
    BY <1>1, <1>2, XcThrows DEF XcInv, X!At, Held
  <1>3. CASE ~(X!Throws("start_plan") /\ UNCHANGED <<open, target>>)
    <2>1. /\ UNCHANGED closers
          /\ runner' \in Runners
          /\ runner'.stage = "wait_finish"
          /\ runner'.services = runner.services
          /\ runner'.xcuitest = runner.xcuitest
          /\ runner'.launchedPid = runner.launchedPid /\ runner'.result = runner.result
      BY <1>1, <1>3, XcFields DEF X!StartPlan, X!Step, XcInv, XcTyped, Runners, RunStages, X!At
    <2>2. UNCHANGED open /\ target' \in Targets /\ target'.verdict = target.verdict
          /\ target'.plan = "running" /\ target.plan = "idle"
      BY <1>1, <1>3 DEF X!StartPlan, XcInv, XcTyped, Targets, PlanAsked, X!At
    <2>3. XcTyped' /\ PlanAsked' /\ ReportsTrue'
      BY <1>1, <2>1, <2>2 DEF XcInv, XcTyped, PlanAsked, ReportsTrue, Passed, X!At
    <2>4. X!Undisturbed => Held'
      BY <1>1, <2>1, <2>2 DEF XcInv, Held, X!At
    <2> QED BY <1>1, <2>1, <2>3, <2>4, XcGoesOn DEF X!At
  <1> QED BY <1>2, <1>3

\* The plan has ended, or its time.
LEMMA XcWaitFinish ==
    ASSUME XcInv, X!WaitFinish
    PROVE  XcInv'
  <1>1. X!At("wait_finish") /\ UNCHANGED <<open, listener, target>>
    BY DEF X!WaitFinish, X!Ends
  <1>2. PICK result \in {"passed", "failed", "timed_out"} :
            X!Ends(result) /\ (result = "passed" => listener.finished = "passed")
    BY DEF X!WaitFinish
  <1>3. /\ runner' \in Runners
        /\ runner'.stage = "ending" /\ runner'.failedAt = runner.failedAt
        /\ runner'.result = result
        /\ runner'.services = runner.services /\ runner'.xcuitest = runner.xcuitest
        /\ runner'.launchedPid = runner.launchedPid
    BY <1>2, XcFields DEF X!Ends, XcInv, XcTyped, Runners, RunStages
  <1>4. /\ closers' \in [X!Closer -> {"idle", "begin", "stop", "join", "leave", "dvt", "done"}]
        /\ closers'["run"] = "begin" /\ closers'["user"] = closers["user"]
    BY <1>2 DEF X!Ends, XcInv, XcTyped, X!Closer
  <1>5. XcTyped' /\ PlanAsked' /\ ReportsTrue' /\ ClosesAtEnd'
    BY <1>1, <1>2, <1>3, <1>4
       DEF XcInv, XcTyped, PlanAsked, ReportsTrue, ClosesAtEnd, X!At, Passed
  <1>6. X!Undisturbed' => Held' /\ ToClose'
    BY <1>1, <1>3, <1>4 DEF XcInv, X!Undisturbed, Held, ToClose, X!At
  <1> QED
    BY <1>5, <1>6 DEF XcInv

\* What the listener does touches the listener and what the device has said.
LEMMA XcListener ==
    ASSUME XcInv,
           \/ X!EmptyPoll \/ X!ListenerError \/ X!HeaderComes \/ X!OtherCallback \/ X!RunnerReady
           \/ X!PlanFinished \/ (\E c \in {"exec", "control", "dvt"} : X!ConnectionLost(c))
           \/ \E summary \in {"clean", "failures"} : X!SuiteFinished(summary)
    PROVE  XcInv'
  <1>1. UNCHANGED <<runner, open, closers>>
    BY DEF X!EmptyPoll, X!ListenerError, X!HeaderComes, X!OtherCallback, X!RunnerReady,
           X!PlanFinished, X!ConnectionLost, X!SuiteFinished
  <1>2. listener \in Listeners /\ target \in Targets /\ PlanAsked /\ ReportsTrue
    BY DEF XcInv, XcTyped
  <1>3. listener' \in Listeners /\ target' \in Targets /\ PlanAsked' /\ ReportsTrue'
    <2>1. CASE X!EmptyPoll \/ X!ListenerError
      <3>1. /\ listener' \in Listeners /\ UNCHANGED target
            /\ listener'.summary = listener.summary
            /\ listener'.finished = "passed" => listener.finished = "passed"
        <4>1. \A l \in Listeners : /\ X!ResolvedFailed(l) \in Listeners
                                   /\ X!ResolvedFailed(l).summary = l.summary
                                   /\ X!ResolvedFailed(l).finished # "passed" \/ l.finished = "passed"
          BY DEF X!ResolvedFailed, Listeners
        <4>2. CASE X!EmptyPoll
          <5> DEFINE ended == [listener EXCEPT !.state = "ended"]
                     given == [listener EXCEPT !.state = "ended", !.error = TRUE,
                                               !.empty = MaxEmptyPolls]
                     more == [listener EXCEPT !.empty = @ + 1]
          <5>1. listener' = ended \/ listener' = X!ResolvedFailed(given) \/ listener' = more
            <6> HIDE DEF ended, given, more
            <6>1. listener' = IF listener.aborted THEN ended
                              ELSE IF listener.empty + 1 >= MaxEmptyPolls THEN X!ResolvedFailed(given)
                              ELSE more
              BY <4>2 DEF X!EmptyPoll, ended, given, more
            <6> QED BY <6>1
          <5>2. \A l \in {ended, given, more} :
                   l \in Listeners /\ l.summary = listener.summary /\ l.finished = listener.finished
            <6>1. ended \in Listeners /\ ended.summary = listener.summary
                  /\ ended.finished = listener.finished
              BY <1>2 DEF Listeners, ended
            <6>2. given \in Listeners /\ given.summary = listener.summary
                  /\ given.finished = listener.finished
              BY <1>2, PollsAssumption DEF Listeners, given
            <6>3. more \in Listeners /\ more.summary = listener.summary
                  /\ more.finished = listener.finished
              <7>1. listener.empty + 1 \in Nat
                BY <1>2 DEF Listeners
              <7> QED BY <1>2, <7>1 DEF Listeners, more
            <6> HIDE DEF ended, given, more
            <6> QED BY <6>1, <6>2, <6>3
          <5>3. UNCHANGED target
            BY <4>2 DEF X!EmptyPoll
          <5> HIDE DEF ended, given, more
          <5> QED BY <4>1, <5>1, <5>2, <5>3
        <4>3. CASE X!ListenerError
          <5> DEFINE ended == [listener EXCEPT !.state = "ended"]
                     given == [listener EXCEPT !.state = "ended", !.error = TRUE, !.config = "none"]
          <5>1. listener' = ended \/ listener' = X!ResolvedFailed(given)
            BY <4>3 DEF X!ListenerError, X!ListenerFails
          <5>2. \A l \in {ended, given} :
                   l \in Listeners /\ l.summary = listener.summary /\ l.finished = listener.finished
            BY <1>2 DEF Listeners
          <5>3. UNCHANGED target
            BY <4>3 DEF X!ListenerError
          <5> HIDE DEF ended, given
          <5> QED BY <4>1, <5>1, <5>2, <5>3
        <4> QED BY <2>1, <4>2, <4>3
      <3> QED BY <1>1, <1>2, <3>1 DEF PlanAsked, ReportsTrue, Passed
    <2>2. CASE X!HeaderComes \/ X!OtherCallback \/ X!RunnerReady
               \/ \E c \in {"exec", "control", "dvt"} : X!ConnectionLost(c)
      <3>1. /\ listener' \in Listeners /\ target' \in Targets
            /\ listener'.summary = listener.summary /\ listener'.finished = listener.finished
            /\ target'.plan = target.plan /\ target'.verdict = target.verdict
        <4>1. CASE X!RunnerReady
          BY <1>2, <4>1 DEF X!RunnerReady, X!Polled, Listeners, Targets
        <4>2. CASE \E c \in {"exec", "control", "dvt"} : X!ConnectionLost(c)
          <5>1. PICK c \in {"exec", "control", "dvt"} : X!ConnectionLost(c)
            BY <4>2
          <5>2. UNCHANGED listener /\ target' = [target EXCEPT !.lost = target.lost \cup {c}]
            BY <5>1 DEF X!ConnectionLost
          <5> QED BY <1>2, <5>2 DEF Targets
        <4>3. CASE X!HeaderComes
          BY <1>2, <4>3 DEF X!HeaderComes, Listeners
        <4>4. CASE X!OtherCallback
          BY <1>2, <4>4 DEF X!OtherCallback, X!Polled, Listeners
        <4> QED BY <2>2, <4>1, <4>2, <4>3, <4>4
      <3> QED BY <1>1, <1>2, <3>1 DEF PlanAsked, ReportsTrue, Passed
    <2>3. CASE X!PlanFinished
      <3>1. /\ listener' \in Listeners /\ target' \in Targets
            /\ listener'.summary = listener.summary
            /\ target.plan = "running" /\ target'.plan = "finished"
            /\ target'.verdict = target.verdict
        BY <1>2, <2>3 DEF X!PlanFinished, Listeners, Targets
      <3>2. listener'.finished = "passed" => listener.finished = "passed" \/ listener.summary # "failures"
        BY <1>2, <2>3 DEF X!PlanFinished, Listeners
      <3> QED BY <1>1, <1>2, <3>1, <3>2 DEF PlanAsked, ReportsTrue, Passed
    <2>4. CASE \E summary \in {"clean", "failures"} : X!SuiteFinished(summary)
      <3>1. PICK summary \in {"clean", "failures"} : X!SuiteFinished(summary)
        BY <2>4
      <3>2. /\ listener' \in Listeners /\ target' \in Targets
            /\ listener'.summary = summary /\ listener'.finished = listener.finished
            /\ target.plan = "running" /\ target'.plan = target.plan /\ target'.verdict = summary
        <4>1. /\ target' = [target EXCEPT !.suites = @ + 1, !.verdict = summary]
              /\ listener' = [X!Polled EXCEPT !.summary = summary]
              /\ target.plan = "running"
          BY <3>1 DEF X!SuiteFinished
        <4>2. X!Polled \in Listeners /\ X!Polled.finished = listener.finished
          BY <1>2 DEF X!Polled, Listeners
        <4>3. /\ listener' \in Listeners
              /\ listener'.summary = summary /\ listener'.finished = listener.finished
          BY <4>1, <4>2 DEF Listeners
        <4>4. target' \in Targets /\ target'.plan = target.plan /\ target'.verdict = summary
          <5>1. target.suites + 1 \in Nat
            BY <1>2 DEF Targets
          <5> QED BY <1>2, <3>1, <4>1, <5>1 DEF Targets
        <4> QED BY <4>1, <4>3, <4>4
      <3> QED BY <1>1, <1>2, <3>2 DEF PlanAsked, ReportsTrue, Passed
    <2> QED BY <2>1, <2>2, <2>3, <2>4
  <1>4. target.lost \subseteq target'.lost
    <2>1. CASE \E c \in {"exec", "control", "dvt"} : X!ConnectionLost(c)
      <3>1. PICK c \in {"exec", "control", "dvt"} : X!ConnectionLost(c)
        BY <2>1
      <3>2. target' = [target EXCEPT !.lost = target.lost \cup {c}]
        BY <3>1 DEF X!ConnectionLost
      <3> QED BY <1>2, <3>2 DEF Targets
    <2>2. CASE ~\E c \in {"exec", "control", "dvt"} : X!ConnectionLost(c)
      BY <1>2, <2>2 DEF X!EmptyPoll, X!ListenerError, X!HeaderComes, X!OtherCallback, X!RunnerReady,
             X!PlanFinished, X!SuiteFinished, Targets
    <2> QED BY <2>1, <2>2
  <1>5. X!ProcessLost => X!ProcessLost'
    BY <1>1, <1>4 DEF X!ProcessLost
  <1> QED
    BY <1>1, <1>3, <1>5
       DEF XcInv, XcTyped, ClosesAtEnd, X!Undisturbed, Held, ToClose, X!At

\* A user closes: nothing is claimed any more of what the run leaves.
LEMMA XcUserCloses ==
    ASSUME XcInv, X!UserCloses
    PROVE  XcInv'
  <1>1. /\ closers' \in [X!Closer -> {"idle", "begin", "stop", "join", "leave", "dvt", "done"}]
        /\ closers'["run"] = closers["run"] /\ closers'["user"] = "begin"
        /\ UNCHANGED <<runner, open, listener, target>>
    BY DEF X!UserCloses, XcInv, XcTyped, X!Closer
  <1> QED
    BY <1>1 DEF XcInv, XcTyped, PlanAsked, ReportsTrue, ClosesAtEnd, X!Undisturbed, X!At, Passed

\* close(): the proxy and the process.
LEMMA XcCloseBegin ==
    ASSUME XcInv, NEW k \in X!Closer, X!CloseBegin(k)
    PROVE  XcInv'
  <1>1. /\ runner' \in Runners /\ runner'.stage = runner.stage
        /\ runner'.failedAt = runner.failedAt /\ runner'.result = runner.result
        /\ runner'.services = runner.services /\ runner'.xcuitest = runner.xcuitest
        /\ runner'.launchedPid = (runner.launchedPid /\ ~runner.services)
    BY XcFields DEF X!CloseBegin, XcInv, XcTyped, Runners, RunStages
  <1>2. /\ closers' \in [X!Closer -> {"idle", "begin", "stop", "join", "leave", "dvt", "done"}]
        /\ closers[k] = "begin"
        /\ closers' = [closers EXCEPT ![k] = closers'[k]]
        /\ closers'[k] = IF runner.xcuitest THEN "stop" ELSE "dvt"
    BY DEF X!CloseBegin, XcInv, XcTyped, X!Closer
  <1>3. UNCHANGED <<listener, target>>
    BY DEF X!CloseBegin, XcInv, XcTyped, X!ResolvedFailed, Listeners
  <1>4. open' = IF runner.services /\ runner.launchedPid /\ X!Alive("dvt") THEN open \ {"process"} ELSE open
    BY DEF X!CloseBegin, X!Kills
  <1>5. XcTyped' /\ PlanAsked' /\ ReportsTrue'
    BY <1>1, <1>2, <1>3, <1>4 DEF XcInv, XcTyped, PlanAsked, ReportsTrue, Passed
  <1>6. CASE k = "user"
    <2>1. closers'["run"] = closers["run"] /\ closers'["user"] # "idle"
      BY <1>2, <1>6 DEF XcInv, XcTyped, X!Closer
    <2> QED BY <1>1, <1>5, <1>6, <2>1 DEF XcInv, ClosesAtEnd, X!Undisturbed, X!At
  <1>7. CASE k = "run"
    <2>1. closers'["run"] = closers'[k] /\ closers'["user"] = closers["user"]
      BY <1>2, <1>7 DEF XcInv, XcTyped, X!Closer
    <2>2. ClosesAtEnd'
      BY <1>1, <1>2, <1>7, <2>1 DEF XcInv, ClosesAtEnd, X!At
    <2>3. X!Undisturbed' => Held' /\ ToClose'
      BY <1>1, <1>2, <1>3, <1>4, <1>7, <2>1, <2>2 DEF XcInv, ClosesAtEnd, X!Undisturbed, Held, ToClose, X!ProcessLost, X!Alive, X!At
    <2> QED BY <1>5, <2>2, <2>3 DEF XcInv
  <1> QED BY <1>6, <1>7 DEF X!Closer

\* close(): the listener is told.
LEMMA XcStopBegin ==
    ASSUME XcInv, NEW k \in X!Closer, X!StopBegin(k)
    PROVE  XcInv'
  <1>1. UNCHANGED runner
    BY XcFields DEF X!StopBegin, XcInv, XcTyped, Runners, RunStages
  <1>2. /\ closers' \in [X!Closer -> {"idle", "begin", "stop", "join", "leave", "dvt", "done"}]
        /\ closers[k] = "stop"
        /\ closers' = [closers EXCEPT ![k] = closers'[k]]
        /\ closers'[k] \in {"join", "leave"}
    BY DEF X!StopBegin, XcInv, XcTyped, X!Closer
  <1>3. /\ UNCHANGED target /\ listener' \in Listeners /\ listener'.summary = listener.summary
        /\ listener'.finished = "passed" => listener.finished = "passed"
    BY DEF X!StopBegin, XcInv, XcTyped, X!ResolvedFailed, Listeners
  <1>4. UNCHANGED open
    BY DEF X!StopBegin, X!Kills
  <1>5. XcTyped' /\ PlanAsked' /\ ReportsTrue'
    BY <1>1, <1>2, <1>3, <1>4 DEF XcInv, XcTyped, PlanAsked, ReportsTrue, Passed
  <1>6. CASE k = "user"
    <2>1. closers'["run"] = closers["run"] /\ closers'["user"] # "idle"
      BY <1>2, <1>6 DEF XcInv, XcTyped, X!Closer
    <2> QED BY <1>1, <1>5, <1>6, <2>1 DEF XcInv, ClosesAtEnd, X!Undisturbed, X!At
  <1>7. CASE k = "run"
    <2>1. closers'["run"] = closers'[k] /\ closers'["user"] = closers["user"]
      BY <1>2, <1>7 DEF XcInv, XcTyped, X!Closer
    <2>2. ClosesAtEnd'
      BY <1>1, <1>2, <1>7, <2>1 DEF XcInv, ClosesAtEnd, X!At
    <2>3. X!Undisturbed' => Held' /\ ToClose'
      BY <1>1, <1>2, <1>3, <1>4, <1>7, <2>1, <2>2 DEF XcInv, ClosesAtEnd, X!Undisturbed, Held, ToClose, X!ProcessLost, X!At
    <2> QED BY <1>5, <2>2, <2>3 DEF XcInv
  <1> QED BY <1>6, <1>7 DEF X!Closer

\* close(): the listener has ended.
LEMMA XcJoined ==
    ASSUME XcInv, NEW k \in X!Closer, X!Joined(k)
    PROVE  XcInv'
  <1>1. UNCHANGED runner
    BY XcFields DEF X!Joined, XcInv, XcTyped, Runners, RunStages
  <1>2. /\ closers' \in [X!Closer -> {"idle", "begin", "stop", "join", "leave", "dvt", "done"}]
        /\ closers[k] = "join"
        /\ closers' = [closers EXCEPT ![k] = closers'[k]]
        /\ closers'[k] = "leave"
    BY DEF X!Joined, XcInv, XcTyped, X!Closer
  <1>3. UNCHANGED <<listener, target>>
    BY DEF X!Joined, XcInv, XcTyped, X!ResolvedFailed, Listeners
  <1>4. UNCHANGED open
    BY DEF X!Joined, X!Kills
  <1>5. XcTyped' /\ PlanAsked' /\ ReportsTrue'
    BY <1>1, <1>2, <1>3, <1>4 DEF XcInv, XcTyped, PlanAsked, ReportsTrue, Passed
  <1>6. CASE k = "user"
    <2>1. closers'["run"] = closers["run"] /\ closers'["user"] # "idle"
      BY <1>2, <1>6 DEF XcInv, XcTyped, X!Closer
    <2> QED BY <1>1, <1>5, <1>6, <2>1 DEF XcInv, ClosesAtEnd, X!Undisturbed, X!At
  <1>7. CASE k = "run"
    <2>1. closers'["run"] = closers'[k] /\ closers'["user"] = closers["user"]
      BY <1>2, <1>7 DEF XcInv, XcTyped, X!Closer
    <2>2. ClosesAtEnd'
      BY <1>1, <1>2, <1>7, <2>1 DEF XcInv, ClosesAtEnd, X!At
    <2>3. X!Undisturbed' => Held' /\ ToClose'
      BY <1>1, <1>2, <1>3, <1>4, <1>7, <2>1, <2>2 DEF XcInv, ClosesAtEnd, X!Undisturbed, Held, ToClose, X!ProcessLost, X!At
    <2> QED BY <1>5, <2>2, <2>3 DEF XcInv
  <1> QED BY <1>6, <1>7 DEF X!Closer

\* close(): the two connections.
LEMMA XcStopDone ==
    ASSUME XcInv, NEW k \in X!Closer, X!StopDone(k)
    PROVE  XcInv'
  <1>1. /\ runner' \in Runners /\ runner'.stage = runner.stage
        /\ runner'.failedAt = runner.failedAt /\ runner'.result = runner.result
        /\ runner'.services = runner.services /\ runner'.launchedPid = runner.launchedPid
    BY XcFields DEF X!StopDone, XcInv, XcTyped, Runners, RunStages
  <1>2. /\ closers' \in [X!Closer -> {"idle", "begin", "stop", "join", "leave", "dvt", "done"}]
        /\ closers[k] = "leave"
        /\ closers' = [closers EXCEPT ![k] = closers'[k]]
        /\ closers'[k] = "dvt"
    BY DEF X!StopDone, XcInv, XcTyped, X!Closer
  <1>3. UNCHANGED <<listener, target>>
    BY DEF X!StopDone, XcInv, XcTyped, X!ResolvedFailed, Listeners
  <1>4. open' = open \ {"exec", "control"}
    BY DEF X!StopDone, X!Kills
  <1>5. XcTyped' /\ PlanAsked' /\ ReportsTrue'
    BY <1>1, <1>2, <1>3, <1>4 DEF XcInv, XcTyped, PlanAsked, ReportsTrue, Passed
  <1>6. CASE k = "user"
    <2>1. closers'["run"] = closers["run"] /\ closers'["user"] # "idle"
      BY <1>2, <1>6 DEF XcInv, XcTyped, X!Closer
    <2> QED BY <1>1, <1>5, <1>6, <2>1 DEF XcInv, ClosesAtEnd, X!Undisturbed, X!At
  <1>7. CASE k = "run"
    <2>1. closers'["run"] = closers'[k] /\ closers'["user"] = closers["user"]
      BY <1>2, <1>7 DEF XcInv, XcTyped, X!Closer
    <2>2. ClosesAtEnd'
      BY <1>1, <1>2, <1>7, <2>1 DEF XcInv, ClosesAtEnd, X!At
    <2>3. X!Undisturbed' => Held' /\ ToClose'
      BY <1>1, <1>2, <1>3, <1>4, <1>7, <2>1, <2>2 DEF XcInv, ClosesAtEnd, X!Undisturbed, Held, ToClose, X!ProcessLost, X!At
    <2> QED BY <1>5, <2>2, <2>3 DEF XcInv
  <1> QED BY <1>6, <1>7 DEF X!Closer

\* close(): the DVT connection.
LEMMA XcCloseDvt ==
    ASSUME XcInv, NEW k \in X!Closer, X!CloseDvt(k)
    PROVE  XcInv'
  <1>1. /\ runner' \in Runners /\ runner'.stage = (IF k = "run" THEN "ended" ELSE runner.stage)
        /\ runner'.failedAt = runner.failedAt /\ runner'.result = runner.result
        /\ ~runner'.services
    BY XcFields DEF X!CloseDvt, XcInv, XcTyped, Runners, RunStages
  <1>2. /\ closers' \in [X!Closer -> {"idle", "begin", "stop", "join", "leave", "dvt", "done"}]
        /\ closers[k] = "dvt"
        /\ closers' = [closers EXCEPT ![k] = closers'[k]]
        /\ closers'[k] = "done"
    BY DEF X!CloseDvt, XcInv, XcTyped, X!Closer
  <1>3. UNCHANGED <<listener, target>>
    BY DEF X!CloseDvt, XcInv, XcTyped, X!ResolvedFailed, Listeners
  <1>4. open' = IF runner.services THEN open \ {"dvt"} ELSE open
    BY DEF X!CloseDvt, X!Kills
  <1>5. XcTyped' /\ PlanAsked' /\ ReportsTrue'
    BY <1>1, <1>2, <1>3, <1>4 DEF XcInv, XcTyped, PlanAsked, ReportsTrue, Passed, X!At
  <1>6. CASE k = "user"
    <2>1. closers'["run"] = closers["run"] /\ closers'["user"] # "idle"
      BY <1>2, <1>6 DEF XcInv, XcTyped, X!Closer
    <2> QED BY <1>1, <1>5, <1>6, <2>1 DEF XcInv, ClosesAtEnd, X!Undisturbed, X!At
  <1>7. CASE k = "run"
    <2>1. closers'["run"] = closers'[k] /\ closers'["user"] = closers["user"]
      BY <1>2, <1>7 DEF XcInv, XcTyped, X!Closer
    <2>2. ClosesAtEnd'
      BY <1>1, <1>2, <1>7, <2>1 DEF XcInv, ClosesAtEnd, X!At
    <2>3. X!Undisturbed' => Held' /\ ToClose'
      BY <1>1, <1>2, <1>3, <1>4, <1>7, <2>1, <2>2 DEF XcInv, ClosesAtEnd, X!Undisturbed, Held, ToClose, X!ProcessLost, X!At
    <2> QED BY <1>5, <2>2, <2>3 DEF XcInv
  <1> QED BY <1>6, <1>7 DEF X!Closer

\* Every step of a test run keeps the invariant.
LEMMA XcStep ==
    ASSUME XcInv, X!XcNext
    PROVE  XcInv'
  BY XcConnectNext, XcLookupApps, XcInitExecSession, XcLaunchRunner, XcLaunchFails, XcLaunched, XcAuthorize,
     XcStartPlan, XcWaitFinish, XcListener, XcUserCloses, XcCloseBegin, XcStopBegin, XcJoined,
     XcStopDone, XcCloseDvt
     DEF X!XcNext, X!Setup, X!Close

-----------------------------------------------------------------------------
(* Recording: the inductive invariant.                                         *)

Recordings == [kind : {"screen", "sound", "both"},
               stage : {"idle", "next", "negotiating", "creating", "loop", "settling", "stopping",
                        "done"},
               timer : {"off", "armed", "fired"}, aborted : BOOLEAN,
               result : {"none", "error", "ok"}]
Captures == [receiver : {"none", "open", "closed"}, live : BOOLEAN, reports : BOOLEAN,
             aborted : BOOLEAN, stop : {"none", "asked", "ended"}]

RecTyped ==
    /\ recording \in Recordings
    /\ capture \in [R!Track -> Captures]
    /\ task \in [R!Track -> {"none", "waiting", "writing", "done", "failed"}]
    /\ file \in [R!Track -> {"none", "open", "failed", "closed"}]

Starting == recording.stage \in {"idle", "next", "negotiating"}

\* The captures are negotiated one after the other, the video's first.
OneByOne ==
    /\ R!Stage("idle") => ~capture["video"].live
    /\ R!Stage("next") => recording.kind = "both" /\ capture["video"].live
    /\ R!Stage("negotiating") /\ recording.kind = "screen" => ~capture["video"].live
    /\ Starting => ~capture["audio"].live

\* A capture that is being torn down, or was, has let go of its socket and its reports; one
\* that never was has a socket only while it is negotiated.
TornDownLetsGo ==
    \A t \in R!Track :
        /\ capture[t].stop # "none" => capture[t].receiver # "open" /\ ~capture[t].reports
        /\ ~capture[t].live => /\ capture[t].stop = "none" /\ ~capture[t].reports
                               /\ capture[t].receiver = "open" =>
                                      R!Stage("negotiating") /\ t = R!NextTrack

\* Loops and files live in their stages.
InTheirStages ==
    \A t \in R!Track :
        /\ Starting => file[t] = "none"
        /\ R!Stage("creating") => file["audio"] = "none"
        /\ Starting \/ R!Stage("creating") => task[t] = "none"
        /\ recording.stage \in {"stopping", "done"} => ~R!Hears(t)
        /\ t \notin R!Mine => task[t] = "none"
        /\ file[t] = "closed" => recording.stage \in {"stopping", "done"}

\* A recording returns with its captures stopped and its files closed.
ReturnedReleased ==
    R!Stage("done") => R!AllStopped /\ \A t \in R!Track : file[t] \in {"none", "closed"}

RecInv == RecTyped /\ OneByOne /\ TornDownLetsGo /\ InTheirStages /\ ReturnedReleased

-----------------------------------------------------------------------------
(* Recording: the steps.                                                       *)

\* The fields of the recording, and which track is next.
LEMMA RecFields ==
    ASSUME RecTyped, OneByOne
    PROVE  /\ recording.kind \in {"screen", "sound", "both"}
           /\ R!NextTrack \in R!Track
           /\ Starting => R!NextTrack \in R!Mine /\ ~capture[R!NextTrack].live
           /\ \A t \in R!Track : capture[t] \in Captures
           /\ \A s \in {"negotiating", "next", "creating", "settling", "stopping"} :
                 /\ R!Goes(s) \in Recordings
                 /\ R!Goes(s).kind = recording.kind /\ R!Goes(s).stage = s
                 /\ R!Fails(s) \in Recordings
                 /\ R!Fails(s).kind = recording.kind /\ R!Fails(s).stage = s
  BY DEF RecTyped, Recordings, Captures, OneByOne, Starting, R!NextTrack, R!Mine, R!Tracks,
         R!Track, R!Stage, R!Goes, R!Fails

\* Which tracks are next, and whose the loops are, depend on the kind and on the video's capture.
LEMMA SameTracks ==
    ASSUME recording'.kind = recording.kind
    PROVE  /\ R!Mine' = R!Mine
           /\ capture'["video"].live = capture["video"].live => R!NextTrack' = R!NextTrack
  BY DEF R!Mine, R!NextTrack, R!Tracks

\* Nothing is captured yet.
LEMMA RecInitial == R!RecInit => RecInv
  <1> SUFFICES ASSUME R!RecInit PROVE RecInv
    OBVIOUS
  <1>1. recording \in Recordings /\ recording.stage = "idle"
    BY DEF R!RecInit, Recordings
  <1>2. \A t \in R!Track : capture[t] = R!NoCapture /\ task[t] = "none" /\ file[t] = "none"
    BY DEF R!RecInit
  <1>3. RecTyped
    BY <1>1 DEF R!RecInit, R!NoCapture, RecTyped, Captures
  <1>4. OneByOne /\ TornDownLetsGo
    BY <1>1, <1>2 DEF R!NoCapture, OneByOne, TornDownLetsGo, Starting, R!Stage, R!Track
  <1>5. InTheirStages /\ ReturnedReleased
    BY <1>1, <1>2 DEF InTheirStages, ReturnedReleased, Starting, R!Stage, R!Hears, R!Track
  <1> QED BY <1>3, <1>4, <1>5 DEF RecInv

\* A socket is bound for the next track, or not.
LEMMA RecBinds ==
    ASSUME RecInv, R!Binds
    PROVE  RecInv'
  <1>1. /\ recording.stage \in {"idle", "next"} /\ UNCHANGED <<task, file>>
        /\ recording \in Recordings
    BY DEF R!Binds, R!Stage, RecInv, RecTyped
  <1>2. CASE recording' = R!Fails("stopping") /\ UNCHANGED capture
    <2>1. /\ recording' \in Recordings /\ recording'.kind = recording.kind
          /\ recording'.stage = "stopping"
      BY <1>2, RecFields DEF RecInv
    <2> QED
      BY <1>1, <1>2, <2>1, SameTracks
         DEF RecInv, RecTyped, OneByOne, Starting, TornDownLetsGo, InTheirStages,
             ReturnedReleased, R!Stage, R!Hears
  <1>3. CASE recording' = R!Goes("negotiating")
             /\ capture' = [capture EXCEPT ![R!NextTrack].receiver = "open"]
    <2>1. /\ recording' \in Recordings /\ recording'.kind = recording.kind
          /\ recording'.stage = "negotiating"
      BY <1>3, RecFields DEF RecInv
    <2>2. /\ capture' \in [R!Track -> Captures]
          /\ \A t \in R!Track : /\ capture'[t].live = capture[t].live
                                /\ capture'[t].stop = capture[t].stop
                                /\ capture'[t].reports = capture[t].reports
                                /\ t # R!NextTrack => capture'[t] = capture[t]
      BY <1>3, RecFields DEF RecInv, RecTyped, Captures
    <2>3. R!NextTrack' = R!NextTrack /\ R!Mine' = R!Mine
      BY <2>1, <2>2, SameTracks DEF R!Track
    <2>4. RecTyped' /\ InTheirStages' /\ ReturnedReleased'
      BY <1>1, <2>1, <2>2, <2>3
         DEF RecInv, RecTyped, InTheirStages, ReturnedReleased, Starting, R!Stage, R!Hears
    <2>5. OneByOne'
      BY <1>1, <2>1, <2>2 DEF RecInv, OneByOne, Starting, R!Stage, R!Track
    <2>6. TornDownLetsGo'
      BY <1>1, <2>1, <2>2, <2>3, RecFields DEF RecInv, TornDownLetsGo, Starting, R!Stage
    <2> QED BY <2>4, <2>5, <2>6 DEF RecInv
  <1> QED BY <1>2, <1>3 DEF R!Binds

\* The negotiation fails: its socket goes.
LEMMA RecNegotiationFails ==
    ASSUME RecInv, R!NegotiationFails
    PROVE  RecInv'
  <1>1. /\ recording.stage = "negotiating" /\ UNCHANGED <<task, file>>
        /\ recording' \in Recordings /\ recording'.kind = recording.kind
        /\ recording'.stage = "stopping"
    BY RecFields DEF R!NegotiationFails, R!Stage, RecInv
  <1>2. /\ capture' \in [R!Track -> Captures]
        /\ \A t \in R!Track : /\ capture'[t].live = capture[t].live
                              /\ capture'[t].stop = capture[t].stop
                              /\ capture'[t].reports = capture[t].reports
                              /\ capture'[t].receiver = "open" =>
                                     capture[t].receiver = "open" /\ t # R!NextTrack
    BY RecFields DEF R!NegotiationFails, RecInv, RecTyped, Captures
  <1>3. R!Mine' = R!Mine
    BY <1>1, SameTracks
  <1>4. TornDownLetsGo'
    BY <1>1, <1>2 DEF RecInv, TornDownLetsGo, R!Stage
  <1> QED
    BY <1>1, <1>2, <1>3, <1>4
       DEF RecInv, RecTyped, OneByOne, InTheirStages, ReturnedReleased, Starting, R!Stage, R!Hears

\* The loops start.
LEMMA RecLoopsFrom ==
    ASSUME RecInv, NEW timer \in {"off", "armed", "fired"}, R!LoopsFrom(timer)
    PROVE  /\ recording' \in Recordings /\ recording'.kind = recording.kind
           /\ recording'.stage = "loop"
           /\ task' \in [R!Track -> {"none", "waiting", "writing", "done", "failed"}]
           /\ \A t \in R!Track : t \notin R!Mine => task'[t] = "none"
  <1>1. /\ recording' = [recording EXCEPT !.stage = "loop", !.timer = timer]
        /\ task' = [t \in R!Track |-> IF t \in R!Mine THEN "waiting" ELSE "none"]
    BY DEF R!LoopsFrom
  <1>2. recording' \in Recordings /\ recording'.kind = recording.kind /\ recording'.stage = "loop"
    BY <1>1 DEF RecInv, RecTyped, Recordings
  <1> QED BY <1>1, <1>2

\* A track is negotiated: the next one, a file, or the loops.
LEMMA RecNegotiates ==
    ASSUME RecInv, R!Negotiates
    PROVE  RecInv'
  <1>1. recording.stage = "negotiating"
    BY DEF R!Negotiates, R!Stage
  <1>2. /\ R!NextTrack \in R!Mine /\ ~capture[R!NextTrack].live
        /\ R!NextTrack \in R!Track
        /\ capture[R!NextTrack].stop = "none"
    BY <1>1, RecFields DEF RecInv, TornDownLetsGo, Starting
  <1>3. PICK reports \in BOOLEAN :
            capture' = [capture EXCEPT ![R!NextTrack].live = TRUE, ![R!NextTrack].reports = reports]
    BY DEF R!Negotiates
  <1>4. /\ capture' \in [R!Track -> Captures]
        /\ capture'[R!NextTrack].live /\ capture'[R!NextTrack].stop = "none"
        /\ \A t \in R!Track : t # R!NextTrack => capture'[t] = capture[t]
    BY <1>2, <1>3, RecFields DEF RecInv, RecTyped, Captures
  <1>5. /\ recording' \in Recordings /\ recording'.kind = recording.kind
        /\ \/ /\ R!NextTrack = "video" /\ recording.kind = "both"
              /\ recording'.stage = "next" /\ UNCHANGED <<task, file>>
           \/ recording'.stage = "creating" /\ UNCHANGED task
              /\ (file'["audio"] = file["audio"])
           \/ recording'.stage = "loop"
        /\ file' \in [R!Track -> {"none", "open", "failed", "closed"}]
        /\ \A t \in R!Track : file'[t] = "closed" => file[t] = "closed"
        /\ task' \in [R!Track -> {"none", "waiting", "writing", "done", "failed"}]
        /\ \A t \in R!Track : t \notin R!Mine => task'[t] = "none"
    <2>1. CASE R!NextTrack = "video" /\ recording.kind = "both"
      BY <2>1, RecFields DEF R!Negotiates, RecInv, RecTyped, InTheirStages
    <2>2. CASE ~(R!NextTrack = "video" /\ recording.kind = "both")
      <3>1. /\ file' \in [R!Track -> {"none", "open", "failed", "closed"}]
            /\ file'["audio"] = file["audio"]
            /\ \A t \in R!Track : file'[t] = "closed" => file[t] = "closed"
        BY <2>2 DEF R!Negotiates, RecInv, RecTyped, R!Track
      <3>2. CASE recording.kind = "screen"
        <4>1. R!LoopsFrom("armed")
          BY <2>2, <3>2 DEF R!Negotiates
        <4> QED BY <3>1, <4>1, RecLoopsFrom
      <3>3. CASE recording.kind = "sound"
        <4>1. recording' = [recording EXCEPT !.stage = "creating", !.timer = "armed"]
              /\ UNCHANGED task
          BY <2>2, <3>3 DEF R!Negotiates
        <4> QED BY <3>1, <4>1 DEF RecInv, RecTyped, Recordings, InTheirStages
      <3>4. CASE recording.kind = "both"
        <4>1. recording' = R!Goes("creating") /\ UNCHANGED task
          BY <2>2, <3>4 DEF R!Negotiates
        <4> QED BY <3>1, <4>1, RecFields DEF RecInv, RecTyped, InTheirStages
      <3> QED BY <3>2, <3>3, <3>4, RecFields DEF RecInv
    <2> QED BY <2>1, <2>2
  <1>6. R!Mine' = R!Mine
    BY <1>5, SameTracks
  <1>7. OneByOne'
    BY <1>1, <1>2, <1>4, <1>5 DEF RecInv, OneByOne, Starting, R!Stage, R!Track
  <1>8. TornDownLetsGo'
    BY <1>1, <1>2, <1>4, <1>5 DEF RecInv, TornDownLetsGo, R!Stage
  <1>9. InTheirStages'
    BY <1>1, <1>5, <1>6 DEF RecInv, InTheirStages, Starting, R!Stage, R!Hears, R!Track
  <1> QED
    BY <1>1, <1>4, <1>5, <1>7, <1>8, <1>9 DEF RecInv, RecTyped, ReturnedReleased, R!Stage

\* The sound's file is created, or not.
LEMMA RecCreates ==
    ASSUME RecInv, R!Creates \/ R!CreateFails
    PROVE  RecInv'
  <1>1. recording.stage = "creating" /\ UNCHANGED capture
    BY DEF R!Creates, R!CreateFails, R!Stage
  <1>2. /\ recording' \in Recordings /\ recording'.kind = recording.kind
        /\ \/ recording'.stage = "loop"
           \/ recording'.stage = "stopping" /\ UNCHANGED task
        /\ file' \in [R!Track -> {"none", "open", "failed", "closed"}]
        /\ \A t \in R!Track : file'[t] = "closed" => file[t] = "closed"
        /\ task' \in [R!Track -> {"none", "waiting", "writing", "done", "failed"}]
        /\ \A t \in R!Track : t \notin R!Mine => task'[t] = "none"
    <2>1. CASE R!CreateFails
      BY <2>1 DEF R!CreateFails, R!CreationFailed, RecInv, RecTyped, Recordings, InTheirStages
    <2>2. CASE R!Creates
      <3>1. /\ file' \in [R!Track -> {"none", "open", "failed", "closed"}]
            /\ \A t \in R!Track : file'[t] = "closed" => file[t] = "closed"
        BY <2>2 DEF R!Creates, RecInv, RecTyped, R!Track
      <3>2. PICK timer \in {"off", "armed", "fired"} : R!LoopsFrom(timer)
        BY <2>2 DEF R!Creates, RecInv, RecTyped, Recordings
      <3> QED BY <3>1, <3>2, RecLoopsFrom
    <2> QED BY <2>1, <2>2
  <1>3. R!Mine' = R!Mine /\ R!NextTrack' = R!NextTrack
    BY <1>1, <1>2, SameTracks
  <1> QED
    BY <1>1, <1>2, <1>3
       DEF RecInv, RecTyped, OneByOne, TornDownLetsGo, InTheirStages, ReturnedReleased, Starting,
           R!Stage, R!Hears

\* A step that leaves loops and files, and tears down, or ends to tear down, what it changes
\* of the captures, in the stage it finds or, after the loops, the next.
LEMMA RecCaptures ==
    ASSUME RecInv, UNCHANGED <<task, file>>,
           recording' \in Recordings, recording'.kind = recording.kind,
           \/ recording'.stage = recording.stage
           \/ recording.stage = "loop" /\ recording'.stage = "settling",
           capture' \in [R!Track -> Captures],
           \A t \in R!Track :
               /\ capture'[t].live = capture[t].live
               /\ capture'[t].receiver = "open" => capture[t].receiver = "open"
               /\ capture'[t].reports => capture[t].reports
               /\ \/ capture'[t].stop = capture[t].stop
                  \/ capture[t].stop = "asked" /\ capture'[t].stop = "ended"
                  \/ /\ capture[t].live /\ capture[t].stop = "none"
                     /\ capture'[t].receiver # "open" /\ ~capture'[t].reports
    PROVE  RecInv'
  <1>1. R!Mine' = R!Mine /\ R!NextTrack' = R!NextTrack
    BY SameTracks DEF R!Track
  <1>2. RecTyped' /\ InTheirStages'
    BY <1>1 DEF RecInv, RecTyped, InTheirStages, Starting, R!Stage, R!Hears
  <1>3. OneByOne'
    BY DEF RecInv, OneByOne, Starting, R!Stage, R!Track
  <1>4. TornDownLetsGo'
    BY <1>1 DEF RecInv, TornDownLetsGo, R!Stage
  <1>5. ReturnedReleased'
    BY DEF RecInv, ReturnedReleased, R!AllStopped, R!Stage
  <1> QED BY <1>2, <1>3, <1>4, <1>5 DEF RecInv

\* The timer.
LEMMA RecTimerFires ==
    ASSUME RecInv, R!TimerFires
    PROVE  RecInv'
  <1>1. /\ recording' \in Recordings /\ recording'.kind = recording.kind
        /\ recording'.stage = recording.stage /\ UNCHANGED <<task, file>>
    BY DEF R!TimerFires, RecInv, RecTyped, Recordings
  <1>2. \A t \in R!Track :
           \/ capture'[t] = R!TornDown(capture[t]) /\ capture[t].live /\ capture[t].stop = "none"
           \/ \E a \in BOOLEAN : capture'[t] = [capture[t] EXCEPT !.aborted = a]
    BY DEF R!TimerFires, R!Asks, RecInv, RecTyped, Captures
  <1>3. capture' = [t \in R!Track |-> capture'[t]]
    BY DEF R!TimerFires
  <1>4. \A t \in R!Track : capture[t] \in Captures
    BY DEF RecInv, RecTyped
  <1>5. \A t \in R!Track :
           /\ capture'[t] \in Captures
           /\ capture'[t].live = capture[t].live
           /\ capture'[t].receiver = "open" => capture[t].receiver = "open"
           /\ capture'[t].reports => capture[t].reports
           /\ \/ capture'[t].stop = capture[t].stop
              \/ /\ capture[t].live /\ capture[t].stop = "none"
                 /\ capture'[t].receiver # "open" /\ ~capture'[t].reports
    <2> SUFFICES ASSUME NEW t \in R!Track
                 PROVE  /\ capture'[t] \in Captures
                        /\ capture'[t].live = capture[t].live
                        /\ capture'[t].receiver = "open" => capture[t].receiver = "open"
                        /\ capture'[t].reports => capture[t].reports
                        /\ \/ capture'[t].stop = capture[t].stop
                           \/ /\ capture[t].live /\ capture[t].stop = "none"
                              /\ capture'[t].receiver # "open" /\ ~capture'[t].reports
      OBVIOUS
    <2>1. CASE capture'[t] = R!TornDown(capture[t]) /\ capture[t].live /\ capture[t].stop = "none"
      BY <1>4, <2>1 DEF R!TornDown, Captures
    <2>2. CASE \E a \in BOOLEAN : capture'[t] = [capture[t] EXCEPT !.aborted = a]
      BY <1>4, <2>2 DEF Captures
    <2> QED BY <1>2, <2>1, <2>2
  <1>6. capture' \in [R!Track -> Captures]
    BY <1>3, <1>5
  <1> QED BY <1>1, <1>5, <1>6, RecCaptures

\* The loops are left.
LEMMA RecLoopsLeft ==
    ASSUME RecInv, R!LoopsLeft
    PROVE  RecInv'
  <1>1. /\ recording' \in Recordings /\ recording'.kind = recording.kind
        /\ recording.stage = "loop" /\ recording'.stage = "settling" /\ UNCHANGED <<task, file>>
    <2>1. recording' = [recording EXCEPT !.stage = "settling", !.timer = "off", !.aborted = TRUE,
                                         !.result = IF R!Failed THEN "error" ELSE recording.result]
      BY DEF R!LoopsLeft
    <2> QED BY <2>1 DEF R!LoopsLeft, R!Stage, RecInv, RecTyped, Recordings
  <1>2. \A t \in R!Track : \E a \in BOOLEAN : capture'[t] = [capture[t] EXCEPT !.aborted = a]
    BY DEF R!LoopsLeft, R!ToldToEnd, R!Hears, RecInv, RecTyped, Captures
  <1>3. capture' = [t \in R!Track |-> capture'[t]]
    BY DEF R!LoopsLeft
  <1>4. \A t \in R!Track : /\ capture'[t] \in Captures
                           /\ capture'[t].live = capture[t].live
                           /\ capture'[t].receiver = capture[t].receiver
                           /\ capture'[t].reports = capture[t].reports
                           /\ capture'[t].stop = capture[t].stop
    <2> TAKE t \in R!Track
    <2>1. PICK a \in BOOLEAN : capture'[t] = [capture[t] EXCEPT !.aborted = a]
      BY <1>2
    <2>2. capture[t] \in Captures
      BY DEF RecInv, RecTyped
    <2> QED BY <2>1, <2>2 DEF Captures
  <1>5. capture' \in [R!Track -> Captures]
    BY <1>3, <1>4
  <1> QED BY <1>1, <1>4, <1>5, RecCaptures

\* One capture is torn down, or has been, or loses its socket.
LEMMA RecOneCapture ==
    ASSUME RecInv, NEW t \in R!Track, R!StopAsked(t) \/ R!StopAnswered(t) \/ R!SocketFails(t)
    PROVE  RecInv'
  <1>1. /\ recording' \in Recordings /\ UNCHANGED <<recording, task, file>>
        /\ capture[t] \in Captures
    BY DEF R!StopAsked, R!StopAnswered, R!SocketFails, RecInv, RecTyped
  <1>2. /\ capture' = [capture EXCEPT ![t] = capture'[t]]
        /\ \/ capture'[t] = R!TornDown(capture[t]) /\ capture[t].live /\ capture[t].stop = "none"
           \/ capture'[t] = [capture[t] EXCEPT !.stop = "ended"] /\ capture[t].stop = "asked"
           \/ capture'[t] = [capture[t] EXCEPT !.receiver = "closed"]
    BY DEF R!StopAsked, R!StopAnswered, R!SocketFails, R!Asks, RecInv, RecTyped
  <1>3. /\ capture'[t] \in Captures
        /\ capture'[t].live = capture[t].live
        /\ capture'[t].receiver = "open" => capture[t].receiver = "open"
        /\ capture'[t].reports => capture[t].reports
        /\ \/ capture'[t].stop = capture[t].stop
           \/ capture[t].stop = "asked" /\ capture'[t].stop = "ended"
           \/ /\ capture[t].live /\ capture[t].stop = "none"
              /\ capture'[t].receiver # "open" /\ ~capture'[t].reports
    <2>1. CASE capture'[t] = R!TornDown(capture[t]) /\ capture[t].live /\ capture[t].stop = "none"
      BY <1>1, <2>1 DEF R!TornDown, Captures
    <2>2. CASE capture'[t] = [capture[t] EXCEPT !.stop = "ended"] /\ capture[t].stop = "asked"
      BY <1>1, <2>2 DEF Captures
    <2>3. CASE capture'[t] = [capture[t] EXCEPT !.receiver = "closed"]
      BY <1>1, <2>3 DEF Captures
    <2> QED BY <1>2, <2>1, <2>2, <2>3
  <1>4. capture' \in [R!Track -> Captures] /\ \A u \in R!Track : u # t => capture'[u] = capture[u]
    BY <1>2, <1>3 DEF RecInv, RecTyped
  <1> QED BY <1>1, <1>3, <1>4, RecCaptures

\* What a loop does, and what becomes of a file that is open.
LEMMA RecLoops ==
    ASSUME RecInv, NEW t \in R!Track,
           R!UnitArrives(t) \/ R!WriteEnds(t) \/ R!LoopEnds(t) \/ R!FileFails(t) \/ R!DeviceReaps(t)
    PROVE  RecInv'
  <1>1. UNCHANGED <<recording, capture>>
    BY DEF R!UnitArrives, R!WriteEnds, R!LoopEnds, R!FileFails, R!DeviceReaps
  <1>2. /\ task' \in [R!Track -> {"none", "waiting", "writing", "done", "failed"}]
        /\ \A u \in R!Track : task'[u] = task[u] \/ R!Hears(u)
    BY DEF R!UnitArrives, R!WriteEnds, R!LoopEnds, R!FileFails, R!DeviceReaps, R!Hears, RecInv,
           RecTyped
  <1>3. /\ file' \in [R!Track -> {"none", "open", "failed", "closed"}]
        /\ \A u \in R!Track : file'[u] = file[u] \/ (file[u] = "open" /\ file'[u] = "failed")
    <2>1. CASE R!FileFails(t)
      BY <2>1 DEF R!FileFails, RecInv, RecTyped
    <2>2. CASE ~R!FileFails(t)
      BY <2>2 DEF R!UnitArrives, R!WriteEnds, R!LoopEnds, R!DeviceReaps, RecInv, RecTyped
    <2> QED BY <2>1, <2>2
  <1>4. R!Mine' = R!Mine /\ R!NextTrack' = R!NextTrack
    BY <1>1, SameTracks
  <1>5. InTheirStages'
    BY <1>1, <1>2, <1>3, <1>4 DEF RecInv, InTheirStages, Starting, R!Stage, R!Hears, R!Track
  <1>6. ReturnedReleased'
    BY <1>1, <1>3 DEF RecInv, ReturnedReleased, R!AllStopped, R!Stage
  <1> QED
    BY <1>1, <1>2, <1>3, <1>4, <1>5, <1>6
       DEF RecInv, RecTyped, OneByOne, TornDownLetsGo, Starting, R!Stage

\* The loops have ended; files are closed; the recording returns.
LEMMA RecEnds ==
    ASSUME RecInv, R!Settles \/ R!FileCloses \/ R!Returns
    PROVE  RecInv'
  <1>1. /\ UNCHANGED <<capture, task>>
        /\ recording' \in Recordings /\ recording'.kind = recording.kind
        /\ \/ R!Stage("settling") /\ R!Settled /\ recording'.stage = "stopping" /\ UNCHANGED file
           \/ R!Stage("stopping") /\ recording'.stage = "stopping"
           \/ /\ R!Stage("stopping") /\ recording'.stage = "done" /\ UNCHANGED file
              /\ R!AllStopped /\ \A t \in R!Track : file[t] \in {"none", "closed"}
    <2>1. CASE R!Settles
      BY <2>1, RecFields DEF R!Settles, R!WaitsForBoth, RecInv
    <2>2. CASE R!FileCloses
      <3>1. recording' = recording \/ recording' = R!Fails("stopping")
        BY <2>2 DEF R!FileCloses
      <3> QED BY <2>2, <3>1, RecFields DEF R!FileCloses, R!Stage, RecInv, RecTyped
    <2>3. CASE R!Returns
      <3>1. recording' = [recording EXCEPT !.stage = "done",
                             !.result = IF recording.result = "none" THEN "ok" ELSE recording.result]
        BY <2>3 DEF R!Returns
      <3> QED BY <2>3, <3>1 DEF R!Returns, RecInv, RecTyped, Recordings
    <2> QED BY <2>1, <2>2, <2>3
  <1>2. file' \in [R!Track -> {"none", "open", "failed", "closed"}]
    BY DEF R!Settles, R!FileCloses, R!Returns, RecInv, RecTyped
  <1>3. R!Mine' = R!Mine /\ R!NextTrack' = R!NextTrack
    BY <1>1, SameTracks
  <1>4. \A t \in R!Track : ~R!Hears(t)
    BY <1>1 DEF RecInv, InTheirStages, R!Settled, R!Stage, R!Hears
  <1>5. InTheirStages'
    BY <1>1, <1>2, <1>3, <1>4 DEF RecInv, InTheirStages, Starting, R!Stage, R!Hears
  <1>6. ReturnedReleased'
    BY <1>1 DEF ReturnedReleased, R!AllStopped, R!Stage
  <1> QED
    BY <1>1, <1>2, <1>3, <1>5, <1>6
       DEF RecInv, RecTyped, OneByOne, TornDownLetsGo, Starting, R!Stage

\* Every step of a recording keeps the invariant.
LEMMA RecStep ==
    ASSUME RecInv, R!RecNext
    PROVE  RecInv'
  BY RecBinds, RecNegotiationFails, RecNegotiates, RecCreates, RecTimerFires, RecLoopsLeft,
     RecOneCapture, RecLoops, RecEnds
     DEF R!RecNext, R!RecHost

-----------------------------------------------------------------------------
(* AppleTv: the inductive invariant.                                           *)

Steps == {"handshake", "state1", "state3", "listener", "verify", "setup", "proof", "exchange"}
Flows == [kind : {"tunnel", "pairing"},
          stage : {"idle", "next", "connecting", "send", "receive", "failing", "finish"},
          step : {1, 2, 3, 4, 5}, seq : Nat, attempt : Nat, calls : Nat, udid : BOOLEAN,
          result : {"none", "error", "stored", "tunnel"}, leaked : BOOLEAN]
Clients == [socket : {"none", "connecting", "open", "lost"}, receiving : BOOLEAN,
            timer : BOOLEAN, heard : {"nothing", "part", "ok", "unproved", "error"}]
Tvs == [seen : Nat, asked : Steps \cup {"none"}, gap : BOOLEAN, proof : {"none", "ok", "unproved", "error"},
        paired : BOOLEAN]
Daemons == [stopped : BOOLEAN, held : BOOLEAN]

TvTyped ==
    /\ flow \in Flows
    /\ flow.kind = "tunnel" => flow.step \in {1, 2, 3, 4}
    /\ client \in Clients
    /\ tv \in Tvs
    /\ remoted \in Daemons

\* Who has suspended the daemon knows it, and is under way.
SuspendedHeld ==
    /\ remoted.stopped <=> remoted.held
    /\ A!Stage("idle") => ~remoted.stopped

\* Host and Apple TV count alike on a connection.
CountedAlike ==
    /\ ~tv.gap
    /\ flow.stage \in {"connecting", "send", "receive"} => flow.seq = tv.seen

\* The Apple TV is asked for one thing at a time, and an answer that was heard is the
\* answer to it.
AskedOnce ==
    /\ flow.stage \in {"connecting", "send"} => tv.asked = "none"
    /\ A!Stage("connecting") => client.heard = "nothing"
    /\ A!Stage("receive") /\ tv.asked # "none" => tv.asked = A!StepName
    /\ A!Stage("receive") /\ client.heard \notin {"nothing", "part"} =>
           /\ tv.asked = "none"
           /\ A!StepName \in {"proof", "state3"} => tv.proof = client.heard

\* The steps after the proof are reached with a peer that answered it without an error.
ProvedBefore ==
    /\ flow.stage \in {"send", "receive"} /\ A!StepName \in {"exchange", "listener"} =>
           tv.proof \in {"ok", "unproved"}
    /\ A!ErrorStops

TvInv == TvTyped /\ SuspendedHeld /\ CountedAlike /\ AskedOnce /\ ProvedBefore

\* A call that has returned, or goes on to its next attempt, has no socket.
SocketsGone ==
    /\ flow.stage \in {"idle", "next"} => client.socket = "none"
    /\ flow.leaked => ~flow.udid

-----------------------------------------------------------------------------
(* AppleTv: the steps.                                                         *)

\* Nothing has been sent.
LEMMA TvInitial == A!TvInit => TvInv
  <1> SUFFICES ASSUME A!TvInit PROVE TvInv
    OBVIOUS
  <1>1. flow \in Flows /\ flow.stage = "idle" /\ flow.step = 1
    <2>1. 1 \in {1, 2, 3, 4, 5} /\ 0 \in Nat
      OBVIOUS
    <2> QED BY <2>1 DEF A!TvInit, Flows
  <1>2. TvTyped
    BY <1>1 DEF A!TvInit, TvTyped, A!NewClient, A!NewTv, Clients, Tvs, Daemons
  <1> QED
    BY <1>1, <1>2
       DEF A!TvInit, A!NewTv, TvInv, SuspendedHeld, CountedAlike, AskedOnce, ProvedBefore,
           A!ErrorStops, A!Stage

\* The requests of the two scripts.
LEMMA StepNames ==
    ASSUME TvTyped
    PROVE  /\ A!StepName \in Steps
           /\ Len(A!Script(flow.kind)) = IF flow.kind = "tunnel" THEN 4 ELSE 5
           /\ flow.step = 1 => A!StepName = "handshake"
           /\ A!StepName = "listener" <=> flow.kind = "tunnel" /\ flow.step = 4
           /\ A!StepName = "state3" <=> flow.kind = "tunnel" /\ flow.step = 3
           /\ A!StepName = "exchange" <=> flow.kind = "pairing" /\ flow.step = 5
           /\ A!StepName = "proof" <=> flow.kind = "pairing" /\ flow.step = 4
  BY DEF TvTyped, Flows, A!StepName, A!Script, A!TunnelScript, A!PairingScript, Steps

\* What is typed.
LEMMA FlowTyped ==
    ASSUME TvInv
    PROVE  flow \in Flows /\ tv \in Tvs /\ client \in Clients
  BY DEF TvInv, TvTyped

\* A step that ends what was going on, or leaves it, and leaves the Apple TV.
LEMMA TvLeaves ==
    ASSUME TvInv, flow' \in Flows, flow'.kind = flow.kind,
           flow.kind = "tunnel" => flow'.step \in {1, 2, 3, 4}, client' \in Clients,
           UNCHANGED tv, SuspendedHeld', remoted' \in Daemons,
           \/ flow'.stage \in {"idle", "next", "failing", "finish"}
           \/ flow' = flow /\ client'.heard = client.heard
    PROVE  TvInv'
  <1>1. TvTyped'
    BY DEF TvInv, TvTyped
  <1>2. CASE flow' = flow /\ client'.heard = client.heard
    BY <1>1, <1>2
       DEF TvInv, CountedAlike, AskedOnce, ProvedBefore, A!ErrorStops, A!Stage, A!StepName
  <1>3. CASE flow'.stage \in {"idle", "next", "failing", "finish"}
    BY <1>1, <1>3 DEF TvInv, CountedAlike, AskedOnce, ProvedBefore, A!ErrorStops, A!Stage
  <1> QED BY <1>2, <1>3

\* What becomes of the daemon.
LEMMA Daemon ==
    ASSUME TvInv
    PROVE  /\ \A r : A!Resumes(r) = [stopped |-> FALSE, held |-> FALSE]
           /\ remoted \in Daemons
           /\ [stopped |-> FALSE, held |-> FALSE] \in Daemons
           /\ [stopped |-> TRUE, held |-> TRUE] \in Daemons
  BY DEF TvInv, TvTyped, SuspendedHeld, Daemons, A!Resumes

\* A step that ends a call.
LEMMA TvEnds ==
    ASSUME TvInv, NEW result \in {"none", "error", "stored", "tunnel"}, A!Ends(result)
    PROVE  /\ flow' \in Flows /\ flow'.kind = flow.kind /\ flow'.step = flow.step
           /\ flow'.stage = "idle"
           /\ remoted' \in Daemons /\ SuspendedHeld'
  <1>1. /\ flow' = [flow EXCEPT !.stage = "idle", !.result = result]
        /\ remoted' = [stopped |-> FALSE, held |-> FALSE]
    BY Daemon DEF A!Ends
  <1>2. /\ flow' \in Flows /\ flow'.kind = flow.kind /\ flow'.step = flow.step
        /\ flow'.stage = "idle"
    BY <1>1, FlowTyped DEF Flows
  <1> QED BY <1>1, <1>2, Daemon DEF SuspendedHeld, A!Stage

\* A step that throws.
LEMMA TvFails ==
    ASSUME TvInv, A!Fails
    PROVE  /\ flow' \in Flows /\ flow'.kind = flow.kind /\ flow'.step \in {1, 2, 3, 4}
           /\ flow'.stage = "next"
  BY FlowTyped DEF Flows, A!Fails

\* What becomes of the client when a call is cleaned up.
LEMMA CleanedUp ==
    ASSUME TvInv
    PROVE  /\ A!NewClient \in Clients /\ A!NewClient.heard = "nothing"
           /\ A!Cleanup => client' \in Clients /\ client'.heard = client.heard
  BY DEF TvInv, TvTyped, Clients, A!NewClient, A!Cleanup

\* A call begins.
LEMMA TvBegin ==
    ASSUME TvInv, A!Begin
    PROVE  TvInv'
  <1>1. /\ flow' \in Flows /\ flow'.kind = flow.kind /\ flow'.step = flow.step
        /\ flow'.stage = "next" /\ UNCHANGED <<client, tv>>
    <2>1. flow.calls + 1 \in Nat /\ 0 \in Nat
      BY FlowTyped DEF Flows
    <2>2. /\ flow' = [flow EXCEPT !.stage = "next", !.calls = flow.calls + 1, !.attempt = 0,
                                  !.result = "none"]
          /\ UNCHANGED <<client, tv>>
      BY DEF A!Begin
    <2> QED BY <2>1, <2>2, FlowTyped DEF Flows
  <1>2. remoted' \in Daemons /\ SuspendedHeld'
    <2>1. remoted' = remoted \/ remoted' = [stopped |-> TRUE, held |-> TRUE]
      BY DEF A!Begin, A!Suspends
    <2>2. SuspendedHeld
      BY DEF TvInv
    <2>3. CASE remoted' = remoted
      BY <1>1, <2>2, <2>3, Daemon DEF SuspendedHeld, A!Stage
    <2>4. CASE remoted' = [stopped |-> TRUE, held |-> TRUE]
      BY <1>1, <2>4, Daemon DEF SuspendedHeld, A!Stage
    <2> QED BY <2>1, <2>3, <2>4
  <1> QED BY <1>1, <1>2, TvLeaves DEF TvInv, TvTyped

\* The next device or record, on a new connection.
LEMMA TvTryNext ==
    ASSUME TvInv, A!TryNext
    PROVE  TvInv'
  <1>1. UNCHANGED remoted /\ flow.stage = "next"
    BY DEF A!TryNext, A!Stage
  <1>2. CASE /\ flow' = [flow EXCEPT !.stage = "connecting", !.attempt = @ + 1, !.seq = A!FirstNumber]
             /\ client' = [A!NewClient EXCEPT !.socket = "connecting", !.timer = TRUE]
             /\ tv' = [A!NewTv EXCEPT !.paired = tv.paired]
    <2>1. /\ flow' \in Flows /\ flow'.kind = flow.kind /\ flow'.step = flow.step
          /\ flow'.stage = "connecting" /\ flow'.seq = 0
      <3>1. flow.attempt + 1 \in Nat /\ 0 \in Nat
        BY FlowTyped DEF Flows
      <3>2. flow' = [flow EXCEPT !.stage = "connecting", !.attempt = flow.attempt + 1, !.seq = 0]
        BY <1>2 DEF A!FirstNumber
      <3> QED BY <3>1, <3>2, FlowTyped DEF Flows
    <2>2. client' \in Clients /\ client'.heard = "nothing"
      BY <1>2 DEF Clients, A!NewClient
    <2>3. tv' \in Tvs /\ tv'.seen = 0 /\ ~tv'.gap /\ tv'.asked = "none"
      BY <1>2 DEF TvInv, TvTyped, Tvs, A!NewTv
    <2> QED
      BY <1>1, <2>1, <2>2, <2>3
         DEF TvInv, TvTyped, SuspendedHeld, CountedAlike, AskedOnce, ProvedBefore, A!ErrorStops,
             A!Stage
  <1>3. CASE flow' = [flow EXCEPT !.attempt = @ + 1] /\ UNCHANGED <<client, tv>>
    <2>1. /\ flow' \in Flows /\ flow'.kind = flow.kind /\ flow'.step = flow.step
          /\ flow'.stage = "next"
      BY <1>1, <1>3, FlowTyped DEF Flows
    <2> QED BY <1>1, <1>3, <2>1, TvLeaves DEF TvInv, TvTyped, SuspendedHeld, A!Stage
  <1> QED BY <1>2, <1>3 DEF A!TryNext

\* connect() returns, or fails.
LEMMA TvConnected ==
    ASSUME TvInv, A!Connected
    PROVE  TvInv'
  <1>1. UNCHANGED <<tv, remoted>> /\ flow.stage = "connecting"
    BY DEF A!Connected, A!Stage
  <1>2. CASE A!Fails /\ client' = A!NewClient
    BY <1>1, <1>2, TvFails, CleanedUp, TvLeaves DEF TvInv, TvTyped, SuspendedHeld, A!Stage
  <1>3. CASE /\ client' = [client EXCEPT !.socket = "open", !.timer = FALSE]
             /\ flow' = [flow EXCEPT !.stage = "send", !.step = 1]
    <2>1. /\ flow' \in Flows /\ flow'.kind = flow.kind /\ flow'.step = 1
          /\ flow'.stage = "send" /\ flow'.seq = flow.seq
      BY <1>3, FlowTyped DEF Flows
    <2>2. client' \in Clients
      BY <1>3 DEF TvInv, TvTyped, Clients
    <2>3. TvTyped'
      BY <1>1, <2>1, <2>2 DEF TvInv, TvTyped
    <2>4. A!StepName' = "handshake"
      BY <2>1, <2>3 DEF TvTyped, Flows, A!StepName, A!Script, A!TunnelScript, A!PairingScript
    <2> QED
      BY <1>1, <2>1, <2>3, <2>4
         DEF TvInv, SuspendedHeld, CountedAlike, AskedOnce, ProvedBefore, A!ErrorStops, A!Stage
  <1> QED BY <1>2, <1>3 DEF A!Connected

\* A packet is sent.
LEMMA TvSend ==
    ASSUME TvInv, A!Send
    PROVE  TvInv'
  <1>1. UNCHANGED remoted /\ flow.stage = "send"
    BY DEF A!Send, A!Stage
  <1>2. CASE A!Fails /\ A!Cleanup /\ UNCHANGED tv
    BY <1>1, <1>2, TvFails, CleanedUp, TvLeaves DEF TvInv, TvTyped, SuspendedHeld, A!Stage
  <1>3. CASE ~(A!Fails /\ A!Cleanup /\ UNCHANGED tv)
    <2>1. /\ client' = [client EXCEPT !.receiving = TRUE, !.timer = TRUE, !.heard = "nothing"]
          /\ A!Numbers(flow.seq)
      BY <1>3 DEF A!Send, A!Armed
    <2>2. client' \in Clients /\ client'.heard = "nothing"
      BY <2>1 DEF TvInv, TvTyped, Clients
    <2>3. /\ flow' \in Flows /\ flow'.kind = flow.kind /\ flow'.step = flow.step
          /\ flow'.stage = "receive" /\ flow'.seq = flow.seq + 1
      <3>1. flow.seq + 1 \in Nat
        BY FlowTyped DEF Flows
      <3>2. flow' = [flow EXCEPT !.stage = "receive", !.seq = flow.seq + 1]
        BY <2>1 DEF A!Numbers
      <3> QED BY <3>1, <3>2, FlowTyped DEF Flows
    <2>4. A!StepName' = A!StepName /\ A!StepName \in Steps
      BY <2>3, StepNames DEF A!StepName, TvInv
    <2>5. flow.seq = tv.seen /\ tv \in Tvs /\ ~tv.gap
      BY <1>1 DEF TvInv, TvTyped, CountedAlike
    <2>6. /\ tv' \in Tvs /\ tv'.seen = flow.seq + 1 /\ ~tv'.gap /\ tv'.asked = A!StepName
          /\ tv'.proof = tv.proof
      <3>1. tv' = [tv EXCEPT !.seen = flow.seq + 1, !.gap = @ \/ flow.seq # tv.seen,
                             !.asked = A!StepName]
        BY <2>1 DEF A!Numbers
      <3>2. flow.seq + 1 \in Nat
        BY FlowTyped DEF Flows
      <3>3. (tv.gap \/ flow.seq # tv.seen) = FALSE
        BY <2>5
      <3>4. tv' = [tv EXCEPT !.seen = flow.seq + 1, !.gap = FALSE, !.asked = A!StepName]
        BY <3>1, <3>3
      <3> QED BY <2>4, <2>5, <3>2, <3>4 DEF Tvs
    <2>7. TvTyped'
      BY <1>1, <2>2, <2>3, <2>6 DEF TvInv, TvTyped
    <2> QED
      BY <1>1, <2>2, <2>3, <2>4, <2>6, <2>7
         DEF TvInv, SuspendedHeld, CountedAlike, AskedOnce, ProvedBefore, A!ErrorStops, A!Stage
  <1> QED BY <1>2, <1>3

\* An answer comes.
LEMMA TvAnswers ==
    ASSUME TvInv, NEW what \in {"ok", "unproved", "error"}, NEW chunk \in {"whole", "part"},
           A!Answers(what, chunk)
    PROVE  TvInv'
  <1>1. UNCHANGED <<flow, remoted>> /\ tv.asked # "none" /\ tv \in Tvs /\ client \in Clients
    BY DEF A!Answers, TvInv, TvTyped
  <1>2. /\ tv' \in Tvs /\ tv'.seen = tv.seen /\ tv'.gap = tv.gap /\ tv'.asked = "none"
        /\ tv'.proof = IF tv.asked \in {"proof", "state3"} THEN what ELSE tv.proof
    BY <1>1 DEF A!Answers, Tvs
  <1>3. client' \in Clients /\ client'.heard \in {client.heard, "part", what}
    BY <1>1 DEF A!Answers, Clients
  <1>4. A!StepName' = A!StepName
    BY <1>1 DEF A!StepName
  <1>5. TvTyped' /\ SuspendedHeld' /\ CountedAlike'
    BY <1>1, <1>2, <1>3 DEF TvInv, TvTyped, SuspendedHeld, CountedAlike, A!Stage
  <1>6. flow.stage \notin {"connecting", "send"}
    BY <1>1 DEF TvInv, AskedOnce
  <1>7. CASE flow.stage = "receive"
    <2>1. tv.asked = A!StepName /\ client.heard \in {"nothing", "part"}
      BY <1>1, <1>7 DEF TvInv, AskedOnce, A!Stage
    <2>2. AskedOnce'
      BY <1>1, <1>2, <1>3, <1>4, <1>7, <2>1 DEF AskedOnce, A!Stage
    <2>3. ProvedBefore'
      BY <1>1, <1>2, <1>4, <1>7, <2>1 DEF TvInv, ProvedBefore, A!ErrorStops
    <2> QED BY <1>5, <2>2, <2>3 DEF TvInv
  <1>8. CASE flow.stage # "receive"
    BY <1>1, <1>2, <1>5, <1>6, <1>8 DEF TvInv, AskedOnce, ProvedBefore, A!ErrorStops, A!Stage
  <1> QED BY <1>7, <1>8

\* The task goes on with the answer: after a proof only if it was accepted.
LEMMA TvReceived ==
    ASSUME TvInv, A!Received
    PROVE  TvInv'
  <1>1. /\ UNCHANGED <<client, remoted>> /\ flow.stage = "receive"
        /\ client.heard \in {"ok", "unproved", "error"}
        /\ flow \in Flows /\ tv \in Tvs /\ TvTyped
    BY DEF A!Received, A!Stage, TvInv, TvTyped, Clients
  <1>2. tv.asked = "none" /\ (A!StepName \in {"proof", "state3"} => tv.proof = client.heard)
    BY <1>1 DEF TvInv, AskedOnce, A!Stage
  <1>3. CASE /\ flow' = [flow EXCEPT !.stage = "failing"] \/ flow' = [flow EXCEPT !.stage = "finish"]
             /\ UNCHANGED tv
    <2>1. /\ flow' \in Flows /\ flow'.kind = flow.kind /\ flow'.step = flow.step
          /\ flow'.stage \in {"failing", "finish"}
      BY <1>1, <1>3 DEF Flows
    <2> QED BY <1>1, <1>3, <2>1, TvLeaves DEF TvInv, TvTyped, SuspendedHeld, A!Stage
  <1>4. CASE ~(/\ flow' = [flow EXCEPT !.stage = "failing"] \/ flow' = [flow EXCEPT !.stage = "finish"]
               /\ UNCHANGED tv)
    <2>1. PICK extra \in {0, 1} :
              /\ flow' = [flow EXCEPT !.stage = "send", !.step = @ + 1, !.seq = @ + extra]
              /\ tv' = [tv EXCEPT !.seen = @ + extra]
              /\ A!Accepts(client.heard)
              /\ flow.step # Len(A!Script(flow.kind))
      BY <1>4 DEF A!Received
    <2>2. flow.step + 1 \in {1, 2, 3, 4, 5} /\ (flow.kind = "tunnel" => flow.step + 1 \in {1, 2, 3, 4})
      BY <1>1, <2>1, StepNames DEF TvTyped, Flows
    <2>3. flow.seq \in Nat /\ tv.seen \in Nat /\ flow.seq = tv.seen
      BY <1>1 DEF TvInv, CountedAlike, Flows, Tvs
    <2>4. /\ flow' \in Flows /\ flow'.kind = flow.kind /\ flow'.step = flow.step + 1
          /\ flow'.stage = "send" /\ flow'.seq = flow.seq + extra
      <3>1. flow.seq + extra \in Nat
        BY <2>1, <2>3
      <3> QED BY <1>1, <2>1, <2>2, <3>1, FlowTyped DEF Flows
    <2>5. /\ tv' \in Tvs /\ tv'.seen = tv.seen + extra /\ tv'.gap = tv.gap
          /\ tv'.asked = tv.asked /\ tv'.proof = tv.proof
      BY <1>1, <2>1, <2>3 DEF Tvs
    <2>6. TvTyped'
      BY <1>1, <2>2, <2>4, <2>5 DEF TvTyped
    <2>7. CountedAlike'
      BY <2>3, <2>4, <2>5 DEF TvInv, CountedAlike
    <2>8. A!StepName' \in {"exchange", "listener"} => A!StepName \in {"proof", "state3"}
      <3>1. /\ A!StepName' = "listener" => flow.kind = "tunnel" /\ flow.step + 1 = 4
            /\ A!StepName' = "exchange" => flow.kind = "pairing" /\ flow.step + 1 = 5
        BY <2>4, <2>6 DEF TvTyped, Flows, A!StepName, A!Script, A!TunnelScript, A!PairingScript
      <3> QED BY <1>1, <3>1, StepNames DEF Flows
    <2>9. A!StepName \in {"proof", "state3"} => tv.proof \in {"ok", "unproved"}
      BY <1>1, <1>2, <2>1 DEF A!Accepts, A!ProofAccepts, A!VerifyAccepts
    <2>10. ProvedBefore' /\ AskedOnce'
      BY <1>1, <1>2, <2>4, <2>5, <2>8, <2>9 DEF ProvedBefore, A!ErrorStops, AskedOnce, A!Stage
    <2> QED BY <1>1, <2>4, <2>6, <2>7, <2>10 DEF TvInv, SuspendedHeld, A!Stage
  <1> QED BY <1>3, <1>4

\* A step in which a receive or a connection fails, or is given up.
LEMMA TvGivesUp ==
    ASSUME TvInv,
           \/ A!PinFails \/ A!ReceiveTimesOut \/ A!Disconnects \/ A!PeerCloses \/ A!PeerResets
    PROVE  TvInv'
  <1>1. UNCHANGED <<tv, remoted>>
    BY DEF A!PinFails, A!ReceiveTimesOut, A!Disconnects, A!PeerCloses, A!PeerResets
  <1>2. CASE A!Fails /\ (A!Cleanup \/ client' = A!NewClient) /\ ~A!Stage("idle")
    BY <1>1, <1>2, TvFails, CleanedUp, TvLeaves DEF TvInv, TvTyped, SuspendedHeld, A!Stage
  <1>3. CASE A!ReceiveTimesOut \/ A!PeerCloses \/ A!PeerResets
    <2>1. client' \in Clients /\ client'.heard = client.heard
      BY <1>3 DEF A!ReceiveTimesOut, A!PeerCloses, A!PeerResets, A!TimerAfterClose, TvInv, TvTyped,
                  Clients
    <2>2. flow' = flow \/ flow' = [flow EXCEPT !.stage = "failing"]
      BY <1>3 DEF A!ReceiveTimesOut, A!PeerCloses, A!PeerResets
    <2>3. CASE flow' = flow
      BY <1>1, <2>1, <2>3, TvLeaves DEF TvInv, TvTyped, SuspendedHeld, A!Stage
    <2>4. CASE flow' = [flow EXCEPT !.stage = "failing"]
      <3>1. /\ flow' \in Flows /\ flow'.kind = flow.kind /\ flow'.step = flow.step
            /\ flow'.stage = "failing"
        BY <2>4 DEF TvInv, TvTyped, Flows
      <3> QED BY <1>1, <2>1, <3>1, TvLeaves DEF TvInv, TvTyped, SuspendedHeld, A!Stage
    <2> QED BY <2>2, <2>3, <2>4
  <1> QED BY <1>2, <1>3 DEF A!PinFails, A!Disconnects, A!Stage

\* The last step of a call.
LEMMA TvFinishes ==
    ASSUME TvInv, A!Exhausted \/ A!StoresPairing \/ A!DialsTunnel
    PROVE  TvInv'
  <1>1. UNCHANGED tv /\ ~A!Stage("idle") /\ client' \in Clients
    BY CleanedUp DEF A!Exhausted, A!StoresPairing, A!DialsTunnel, A!Stage, TvInv, TvTyped
  <1>2. CASE A!Ends("error") \/ A!Ends("stored") \/ A!Ends("tunnel")
    <2>1. /\ flow' \in Flows /\ flow'.kind = flow.kind /\ flow'.step = flow.step
          /\ flow'.stage = "idle" /\ remoted' \in Daemons /\ SuspendedHeld'
      BY <1>2, TvEnds
    <2> QED BY <1>1, <2>1, TvLeaves DEF TvInv, TvTyped
  <1>3. CASE A!Fails /\ UNCHANGED remoted
    BY <1>1, <1>3, TvFails, TvLeaves DEF TvInv, TvTyped, SuspendedHeld, A!Stage
  <1>4. CASE flow' = [flow EXCEPT !.stage = "next", !.step = 1, !.leaked = TRUE] /\ UNCHANGED remoted
    <2>1. /\ flow' \in Flows /\ flow'.kind = flow.kind /\ flow'.step \in {1, 2, 3, 4}
          /\ flow'.stage = "next"
      BY <1>4, FlowTyped DEF Flows
    <2> QED BY <1>1, <1>4, <2>1, TvLeaves DEF TvInv, TvTyped, SuspendedHeld, A!Stage
  <1> QED BY <1>2, <1>3, <1>4 DEF A!Exhausted, A!StoresPairing, A!DialsTunnel

\* A user disconnects.
LEMMA TvUserDisconnects ==
    ASSUME TvInv, A!UserDisconnects
    PROVE  TvInv'
  <1>1. UNCHANGED <<flow, tv>> /\ client' \in Clients /\ client'.heard = client.heard
    BY CleanedUp DEF A!UserDisconnects
  <1>2. remoted' \in Daemons /\ SuspendedHeld'
    <2>1. remoted' = [stopped |-> FALSE, held |-> FALSE]
      BY Daemon DEF A!UserDisconnects
    <2> QED BY <2>1, Daemon DEF SuspendedHeld
  <1> QED BY <1>1, <1>2, TvLeaves DEF TvInv, TvTyped

\* Every step of an Apple TV flow keeps the invariant.
LEMMA TvStep ==
    ASSUME TvInv, A!TvNext
    PROVE  TvInv'
  BY TvBegin, TvTryNext, TvConnected, TvSend, TvAnswers, TvReceived, TvGivesUp, TvFinishes,
     TvUserDisconnects
     DEF A!TvNext, A!HostStep

\* No socket is left to a call that has returned.
LEMMA SocketsInitial == A!TvInit => SocketsGone
  <1> SUFFICES ASSUME A!TvInit PROVE SocketsGone
    OBVIOUS
  <1>1. flow.leaked = FALSE
    BY DEF A!TvInit
  <1>2. client.socket = "none"
    BY DEF A!TvInit, A!NewClient
  <1> QED BY <1>1, <1>2 DEF SocketsGone

LEMMA SocketsStep ==
    ASSUME TvInv, SocketsGone, A!TvNext
    PROVE  SocketsGone'
  <1>1. flow \in Flows /\ client \in Clients /\ SocketsGone
    BY FlowTyped
  <1>2. ASSUME A!Fails, client' = A!NewClient \/ A!Cleanup
        PROVE  SocketsGone'
    <2>1. flow'.leaked = flow.leaked /\ flow'.udid = flow.udid
      BY <1>1, <1>2 DEF A!Fails, Flows
    <2>2. CASE client' = A!NewClient
      <3>1. client'.socket = "none"
        BY <2>2 DEF A!NewClient
      <3> QED BY <1>1, <2>1, <3>1 DEF SocketsGone
    <2>3. CASE A!Cleanup
      <3>1. client' = [client EXCEPT !.socket = "none", !.timer = client.timer /\ client.receiving]
        BY <2>3 DEF A!Cleanup
      <3>2. client'.socket = "none"
        BY <1>1, <3>1 DEF Clients
      <3> QED BY <1>1, <2>1, <3>2 DEF SocketsGone
    <2> QED BY <1>2, <2>2, <2>3
  <1>3. ASSUME NEW result, A!Ends(result), client'.socket = "none"
        PROVE  SocketsGone'
    <2>1. flow'.leaked = flow.leaked /\ flow'.udid = flow.udid
      BY <1>1, <1>3 DEF A!Ends, Flows
    <2> QED BY <1>1, <1>3, <2>1 DEF SocketsGone
  <1>4. ASSUME flow'.stage \notin {"idle", "next"}, flow'.leaked = flow.leaked, flow'.udid = flow.udid
        PROVE  SocketsGone'
    BY <1>1, <1>4 DEF SocketsGone
  <1>5. CASE A!Begin
    <2>1. /\ UNCHANGED client /\ flow.stage = "idle"
          /\ flow'.leaked = flow.leaked /\ flow'.udid = flow.udid
      BY <1>1, <1>5 DEF A!Begin, A!Stage, Flows
    <2> QED BY <1>1, <2>1 DEF SocketsGone
  <1>6. CASE A!TryNext
    <2>1. CASE UNCHANGED <<client, tv>>
      <3>1. flow.stage = "next" /\ flow'.leaked = flow.leaked /\ flow'.udid = flow.udid
        BY <1>1, <1>6, <2>1 DEF A!TryNext, A!Stage, Flows
      <3> QED BY <1>1, <2>1, <3>1 DEF SocketsGone
    <2>2. CASE ~UNCHANGED <<client, tv>>
      <3>1. flow'.stage = "connecting" /\ flow'.leaked = flow.leaked /\ flow'.udid = flow.udid
        BY <1>1, <1>6, <2>2 DEF A!TryNext, Flows
      <3> QED BY <1>4, <3>1
    <2> QED BY <2>1, <2>2
  <1>7. CASE A!Exhausted
    <2>1. client'.socket = "none"
      BY <1>1, <1>7 DEF A!Exhausted, A!Stage, SocketsGone
    <2> QED BY <1>3, <1>7, <2>1 DEF A!Exhausted
  <1>8. CASE A!Connected
    <2>1. CASE A!Fails /\ client' = A!NewClient
      BY <1>2, <2>1
    <2>2. CASE ~(A!Fails /\ client' = A!NewClient)
      <3>1. flow'.stage = "send" /\ flow'.leaked = flow.leaked /\ flow'.udid = flow.udid
        BY <1>1, <1>8, <2>2 DEF A!Connected, Flows
      <3> QED BY <1>4, <3>1
    <2> QED BY <2>1, <2>2
  <1>9. CASE A!Send
    <2>1. CASE A!Fails /\ A!Cleanup
      BY <1>2, <2>1
    <2>2. CASE ~(A!Fails /\ A!Cleanup)
      <3>1. A!Numbers(flow.seq)
        BY <1>9, <2>2 DEF A!Send
      <3>2. flow'.stage = "receive" /\ flow'.leaked = flow.leaked /\ flow'.udid = flow.udid
        BY <1>1, <3>1 DEF A!Numbers, Flows
      <3> QED BY <1>4, <3>2
    <2> QED BY <2>1, <2>2
  <1>10. CASE A!PinFails \/ A!Disconnects
    BY <1>2, <1>10 DEF A!PinFails, A!Disconnects
  <1>11. CASE A!Received
    <2>1. flow'.stage \in {"failing", "finish", "send"} /\ flow'.leaked = flow.leaked /\ flow'.udid = flow.udid
      BY <1>1, <1>11 DEF A!Received, Flows
    <2> QED BY <1>4, <2>1
  <1>12. CASE A!ReceiveTimesOut
    <2>1. flow'.stage = "failing" /\ flow'.leaked = flow.leaked /\ flow'.udid = flow.udid
      BY <1>1, <1>12 DEF A!ReceiveTimesOut, Flows
    <2> QED BY <1>4, <2>1
  <1>13. CASE A!StoresPairing
    <2>1. client'.socket = "none" /\ \E result : A!Ends(result)
      BY <1>13 DEF A!StoresPairing, A!NewClient
    <2> QED BY <1>3, <2>1
  <1>14. CASE A!DialsTunnel
    <2>1. client' = A!NewClient /\ client'.socket = "none"
      BY <1>14 DEF A!DialsTunnel, A!NewClient
    <2>2. CASE A!Fails
      BY <1>2, <2>1, <2>2
    <2>3. CASE A!Ends("tunnel")
      BY <1>3, <2>1, <2>3
    <2>4. CASE ~flow.udid /\ flow' = [flow EXCEPT !.stage = "next", !.step = 1, !.leaked = TRUE]
      <3>1. flow'.udid = flow.udid
        BY <1>1, <2>4 DEF Flows
      <3> QED BY <2>1, <2>4, <3>1 DEF SocketsGone
    <2> QED BY <1>14, <2>2, <2>3, <2>4 DEF A!DialsTunnel
  <1>15. CASE A!PeerCloses \/ A!PeerResets
    <2>1. client.socket = "open"
      BY <1>15 DEF A!PeerCloses, A!PeerResets
    <2>2. flow.stage \notin {"idle", "next"}
      BY <1>1, <2>1 DEF SocketsGone
    <2>3. flow'.stage \in {flow.stage, "failing"} /\ flow'.leaked = flow.leaked /\ flow'.udid = flow.udid
      BY <1>1, <1>15 DEF A!PeerCloses, A!PeerResets, Flows
    <2> QED BY <1>4, <2>2, <2>3
  <1>16. CASE A!UserDisconnects
    <2>1. UNCHANGED flow /\ ~A!Stage("idle") /\ client'.socket = "none"
      BY <1>1, <1>16 DEF A!UserDisconnects, A!Cleanup, Clients
    <2> QED BY <1>1, <2>1 DEF SocketsGone
  <1>17. CASE \E what \in {"ok", "unproved", "error"}, chunk \in {"whole", "part"} : A!Answers(what, chunk)
    <2>1. UNCHANGED flow /\ client'.socket = client.socket
      BY <1>1, <1>17 DEF A!Answers, Clients
    <2> QED BY <1>1, <2>1 DEF SocketsGone
  <1> QED
    BY <1>5, <1>6, <1>7, <1>8, <1>9, <1>10, <1>11, <1>12, <1>13, <1>14, <1>15, <1>16, <1>17
       DEF A!TvNext, A!HostStep

-----------------------------------------------------------------------------
(* MediaStream: nothing that arrived is skipped; and what is kept of a picture that is not *)
(* known to be incomplete are its packets up to the last one taken.                        *)
Datagram == 0..Len(RtpPackets)
Receiver == [queue : Seq(Datagram), iter : {"none", "ready", "waiting", "handed", "ended"}, handed : Datagram,
             closed : BOOLEAN, aborted : BOOLEAN, taken : Seq(Datagram)]
Network == [sent : Nat, air : SUBSET M!Packet, copies : SUBSET M!Packet, rtcp : BOOLEAN, arrived : Seq(Datagram)]
Handed(r, arrived) ==
    /\ r.iter # "handed" => r.taken \o r.queue = arrived
    /\ r.iter = "handed" => Append(r.taken, r.handed) \o r.queue = arrived
    /\ r.iter = "waiting" => r.queue = <<>>
ReceiverInv == receiver \in Receiver /\ network \in Network /\ Handed(receiver, network.arrived)

LEMMA DatagramIs == Datagram = M!Packet \cup {M!Rtcp} /\ Datagram \subseteq Nat /\ M!Rtcp \in Datagram
<1>1. Len(RtpPackets) \in Nat
  BY PicturesAssumption
<1> QED BY <1>1 DEF Datagram, M!Packet, M!Rtcp

LEMMA ReceiverInitInv ==
    ASSUME M!MediaInit
    PROVE  ReceiverInv
<1>1. <<>> \in Seq(Datagram) /\ <<>> \o <<>> = <<>>
  OBVIOUS
<1>2. receiver \in Receiver /\ network \in Network
  BY <1>1, DatagramIs DEF M!MediaInit, Receiver, Network
<1> QED BY <1>1, <1>2 DEF M!MediaInit, ReceiverInv, Handed

\* A datagram at either end.
LEMMA Queues ==
    ASSUME NEW s \in Seq(Datagram), NEW t \in Seq(Datagram), NEW m \in Datagram
    PROVE  /\ Append(s, m) \in Seq(Datagram)
           /\ s \o Append(t, m) = Append(s \o t, m)
           /\ t = <<>> => Append(s, m) \o t = Append(s \o t, m)
           /\ t # <<>> => Head(t) \in Datagram /\ Tail(t) \in Seq(Datagram) /\ Append(s, Head(t)) \o Tail(t) = s \o t
<1>1. Append(s, m) \in Seq(Datagram)
  OBVIOUS
<1>2. s \o Append(t, m) = Append(s \o t, m)
  OBVIOUS
<1>3. t = <<>> => Append(s, m) \o t = Append(s \o t, m)
  BY ConcatEmptySeq
<1>4. ASSUME t # <<>>
      PROVE  Head(t) \in Datagram /\ Tail(t) \in Seq(Datagram) /\ Append(s, Head(t)) \o Tail(t) = s \o t
  <2>1. /\ Head(t) \in Datagram /\ Tail(t) \in Seq(Datagram) /\ Len(Tail(t)) = Len(t) - 1 /\ Len(t) >= 1
        /\ t[1] = Head(t) /\ \A i \in 1..Len(Tail(t)) : Tail(t)[i] = t[i + 1]
    BY <1>4, HeadTailProperties, EmptySeq
  <2> DEFINE u == Append(s, Head(t))  v == Tail(t)
  <2>2. u \in Seq(Datagram) /\ v \in Seq(Datagram) /\ Len(u) = Len(s) + 1 /\ u[Len(s) + 1] = t[1] /\ \A i \in 1..Len(s) : u[i] = s[i]
    BY <2>1
  <2>3. u \o v \in Seq(Datagram) /\ s \o t \in Seq(Datagram) /\ Len(u \o v) = Len(s \o t)
    BY <2>1, <2>2
  <2>4. ASSUME NEW i \in 1..Len(s \o t)  PROVE (u \o v)[i] = (s \o t)[i]
    <3>1. CASE i <= Len(s)
      BY <2>1, <2>2, <3>1
    <3>2. CASE i = Len(s) + 1
      BY <2>1, <2>2, <3>2
    <3>3. CASE i > Len(s) + 1
      BY <2>1, <2>2, <3>3
    <3>4. \/ i <= Len(s) \/ i = Len(s) + 1 \/ i > Len(s) + 1
      <4>1. Len(s) \in Nat /\ Len(s \o t) \in Nat
        BY <2>3, LenProperties
      <4> QED BY <4>1
    <3> HIDE DEF u, v
    <3> QED BY <3>1, <3>2, <3>3, <3>4
  <2> HIDE DEF u, v
  <2>5. u \o v = s \o t
    BY <2>3, <2>4, SeqEqual
  <2> QED BY <2>1, <2>5 DEF u, v
<1> QED BY <1>1, <1>2, <1>3, <1>4

LEMMA ReceiverArrives ==
    ASSUME ReceiverInv, NEW d \in Datagram, M!Arrives(d)
    PROVE  ReceiverInv' /\ receiver'.taken = receiver.taken
<1>1. receiver \in Receiver /\ network \in Network /\ Handed(receiver, network.arrived)
  BY DEF ReceiverInv
<1>2. receiver.taken \in Seq(Datagram) /\ receiver.queue \in Seq(Datagram)
  BY <1>1 DEF Receiver
<1>3. network' \in Network /\ network'.arrived = Append(network.arrived, d)
  <2>1. network' = [network EXCEPT !.arrived = Append(network.arrived, d), !.rtcp = network.rtcp \/ d = M!Rtcp,
                      !.air = IF d = M!Rtcp THEN network.air ELSE network.air \ {d}]
    BY DEF M!Arrives
  <2>2. /\ Append(network.arrived, d) \in Seq(Datagram) /\ (network.rtcp \/ d = M!Rtcp) \in BOOLEAN
        /\ (IF d = M!Rtcp THEN network.air ELSE network.air \ {d}) \in SUBSET M!Packet
    BY <1>1 DEF Network
  <2> QED BY <1>1, <2>1, <2>2 DEF Network
<1>4. CASE receiver.iter = "waiting"
  <2>1. receiver' = [receiver EXCEPT !.iter = "handed", !.handed = d]
    BY <1>4 DEF M!Arrives, M!Enqueue
  <2>2. receiver' \in Receiver
    BY <1>1, <2>1 DEF Receiver
  <2>3. receiver'.iter = "handed" /\ receiver'.handed = d /\ receiver'.taken = receiver.taken /\ receiver'.queue = receiver.queue
    BY <1>1, <2>1 DEF Receiver
  <2>4. Append(receiver.taken, d) \o receiver.queue = Append(receiver.taken \o receiver.queue, d)
    <3>1. receiver.queue = <<>>
      BY <1>1, <1>4 DEF Handed
    <3> QED BY <1>2, <3>1, Queues
  <2>5. receiver.taken \o receiver.queue = network.arrived
    BY <1>1, <1>4 DEF Handed
  <2> QED BY <1>3, <2>2, <2>3, <2>4, <2>5 DEF ReceiverInv, Handed
<1>5. CASE receiver.iter # "waiting"
  <2>1. receiver' = [receiver EXCEPT !.queue = Append(receiver.queue, d)]
    BY <1>5 DEF M!Arrives, M!Enqueue
  <2>2. Append(receiver.queue, d) \in Seq(Datagram)
    BY <1>2, Queues
  <2>3. receiver' \in Receiver
    BY <1>1, <2>1, <2>2 DEF Receiver
  <2>4. /\ receiver'.iter = receiver.iter /\ receiver'.handed = receiver.handed /\ receiver'.taken = receiver.taken
        /\ receiver'.queue = Append(receiver.queue, d)
    BY <1>1, <2>1 DEF Receiver
  <2>5. receiver.taken \o Append(receiver.queue, d) = Append(receiver.taken \o receiver.queue, d)
    BY <1>2, Queues
  <2>6. Append(receiver.taken, receiver.handed) \in Seq(Datagram)
    BY <1>1, <1>2, Queues DEF Receiver
  <2>7. Append(receiver.taken, receiver.handed) \o Append(receiver.queue, d) = Append(Append(receiver.taken, receiver.handed) \o receiver.queue, d)
    BY <1>2, <2>6, Queues
  <2>8. Handed(receiver', network'.arrived)
    BY <1>1, <1>3, <1>5, <2>4, <2>5, <2>7 DEF Handed
  <2> QED BY <1>3, <2>3, <2>4, <2>8 DEF ReceiverInv
<1> QED BY <1>4, <1>5

\* What the iterator has been handed, or takes of the queue, is in taken.
LEMMA ReceiverTakes ==
    ASSUME ReceiverInv, M!Takes \/ M!Resumes
    PROVE  /\ ReceiverInv'
           /\ \E d \in Datagram : receiver'.taken = Append(receiver.taken, d) /\ M!Consumes(d)
<1>1. receiver \in Receiver /\ Handed(receiver, network.arrived) /\ network' = network /\ network \in Network
  BY DEF ReceiverInv, M!Takes, M!Resumes
<1>2. receiver.taken \in Seq(Datagram) /\ receiver.queue \in Seq(Datagram) /\ receiver.handed \in Datagram
  BY <1>1 DEF Receiver
<1>3. CASE M!Takes
  <2>1. /\ receiver' = [receiver EXCEPT !.queue = Tail(receiver.queue), !.taken = Append(receiver.taken, Head(receiver.queue))]
        /\ receiver.iter = "ready" /\ receiver.queue # <<>> /\ M!Consumes(Head(receiver.queue))
    BY <1>3 DEF M!Takes
  <2>2. /\ Head(receiver.queue) \in Datagram /\ Tail(receiver.queue) \in Seq(Datagram)
        /\ Append(receiver.taken, Head(receiver.queue)) \o Tail(receiver.queue) = receiver.taken \o receiver.queue
    BY <1>2, <2>1, Queues
  <2>3. Append(receiver.taken, Head(receiver.queue)) \in Seq(Datagram)
    BY <1>2, <2>2, Queues
  <2>4. receiver' \in Receiver
    BY <1>1, <2>1, <2>2, <2>3 DEF Receiver
  <2>5. /\ receiver'.iter = "ready" /\ receiver'.taken = Append(receiver.taken, Head(receiver.queue))
        /\ receiver'.queue = Tail(receiver.queue)
    BY <1>1, <2>1 DEF Receiver
  <2>6. Handed(receiver', network'.arrived)
    BY <1>1, <2>1, <2>2, <2>5 DEF Handed
  <2> QED BY <1>1, <2>1, <2>2, <2>4, <2>5, <2>6 DEF ReceiverInv
<1>4. CASE M!Resumes
  <2>1. /\ receiver' = [receiver EXCEPT !.iter = "ready", !.taken = Append(receiver.taken, receiver.handed)]
        /\ receiver.iter = "handed" /\ M!Consumes(receiver.handed)
    BY <1>4 DEF M!Resumes
  <2>2. Append(receiver.taken, receiver.handed) \in Seq(Datagram)
    BY <1>2, Queues
  <2>3. receiver' \in Receiver
    BY <1>1, <2>1, <2>2 DEF Receiver
  <2>4. /\ receiver'.iter = "ready" /\ receiver'.taken = Append(receiver.taken, receiver.handed)
        /\ receiver'.queue = receiver.queue
    BY <1>1, <2>1 DEF Receiver
  <2>5. Handed(receiver', network'.arrived)
    BY <1>1, <2>1, <2>4 DEF Handed
  <2> QED BY <1>1, <1>2, <2>1, <2>3, <2>4, <2>5 DEF ReceiverInv
<1> QED BY <1>3, <1>4

\* The rest leaves what was taken as it was.
LEMMA ReceiverElse ==
    ASSUME ReceiverInv,
           \/ M!DeviceSends \/ M!Iterates \/ M!Waits \/ M!Aborts \/ M!SocketFails \/ M!Stops \/ M!IntervalEnds
           \/ \E i \in M!Packet : M!Copied(i)
    PROVE  ReceiverInv' /\ receiver'.taken = receiver.taken
<1>1. receiver \in Receiver /\ Handed(receiver, network.arrived) /\ network \in Network
  BY DEF ReceiverInv
<1>2. network' \in Network /\ network'.arrived = network.arrived
  <2>1. Len(RtpPackets) \in Nat
    BY PicturesAssumption
  <2>2. CASE M!DeviceSends
    <3>1. network' = [network EXCEPT !.sent = network.sent + 1, !.air = network.air \cup {network.sent + 1}]
      BY <2>2 DEF M!DeviceSends
    <3>2. network.sent + 1 \in Nat /\ network.air \cup {network.sent + 1} \in SUBSET M!Packet
      BY <1>1, <2>1, <2>2 DEF M!DeviceSends, M!Packet, Network
    <3> QED BY <1>1, <3>1, <3>2 DEF Network
  <2>3. CASE \E i \in M!Packet : M!Copied(i)
    <3>1. PICK i \in M!Packet : network' = [network EXCEPT !.air = network.air \cup {i}, !.copies = network.copies \cup {i}]
      BY <2>3 DEF M!Copied
    <3> DEFINE air == network.air \cup {i}  copies == network.copies \cup {i}
    <3>2. network' = [network EXCEPT !.air = air, !.copies = copies]
      BY <3>1
    <3>3. air \in SUBSET M!Packet /\ copies \in SUBSET M!Packet
      BY <1>1 DEF Network
    <3> HIDE DEF air, copies
    <3> QED BY <1>1, <3>2, <3>3 DEF Network
  <2>4. CASE M!Iterates \/ M!Waits \/ M!Aborts \/ M!SocketFails \/ M!Stops \/ M!IntervalEnds
    BY <1>1, <2>4 DEF M!Iterates, M!Waits, M!Aborts, M!SocketFails, M!Stops, M!IntervalEnds
  <2> QED BY <2>2, <2>3, <2>4
<1>3. /\ receiver'.queue = receiver.queue /\ receiver'.taken = receiver.taken /\ receiver'.handed = receiver.handed
      /\ receiver'.iter = "handed" <=> receiver.iter = "handed"
      /\ receiver'.iter = "waiting" => receiver.queue = <<>>
      /\ receiver' \in Receiver
  <2>1. CASE receiver' = receiver
    BY <1>1, <2>1 DEF Handed
  <2>2. CASE M!Iterates
    BY <1>1, <2>2 DEF M!Iterates, Receiver
  <2>3. CASE M!Waits
    BY <1>1, <2>3 DEF M!Waits, Receiver
  <2>4. CASE M!Aborts
    <3>1. receiver' = M!Released([receiver EXCEPT !.aborted = TRUE])
      BY <2>4 DEF M!Aborts
    <3> QED BY <1>1, <3>1 DEF M!Released, Receiver, Handed
  <2>5. CASE M!SocketFails
    <3>1. receiver' = M!Released([receiver EXCEPT !.closed = TRUE])
      BY <2>5 DEF M!SocketFails
    <3> QED BY <1>1, <3>1 DEF M!Released, Receiver, Handed
  <2>6. CASE M!Stops
    <3>1. receiver' = M!Released([receiver EXCEPT !.aborted = TRUE, !.closed = TRUE])
      BY <2>6 DEF M!Stops
    <3> QED BY <1>1, <3>1 DEF M!Released, Receiver, Handed
  <2>7. CASE M!DeviceSends
    <3>1. receiver' = receiver
      BY <2>7 DEF M!DeviceSends
    <3> QED BY <2>1, <3>1
  <2>8. CASE M!IntervalEnds
    <3>1. receiver' = receiver
      BY <2>8 DEF M!IntervalEnds
    <3> QED BY <2>1, <3>1
  <2>9. CASE \E i \in M!Packet : M!Copied(i)
    <3>1. receiver' = receiver
      BY <2>9 DEF M!Copied
    <3> QED BY <2>1, <3>1
  <2> QED BY <2>2, <2>3, <2>4, <2>5, <2>6, <2>7, <2>8, <2>9
<1>4. Handed(receiver', network'.arrived)
  BY <1>1, <1>2, <1>3 DEF Handed
<1> QED BY <1>1, <1>2, <1>3, <1>4 DEF ReceiverInv

LEMMA ReceiverHolds ==
    ASSUME ReceiverInv
    PROVE  M!NothingSkipped
<1>1. receiver.taken \in Seq(Datagram) /\ receiver.queue \in Seq(Datagram) /\ receiver.handed \in Datagram
  BY DEF ReceiverInv, Receiver
<1>2. receiver.taken \o <<receiver.handed>> = Append(receiver.taken, receiver.handed)
  BY <1>1
<1>3. receiver.taken \o <<>> = receiver.taken
  BY <1>1
<1> QED BY <1>2, <1>3 DEF ReceiverInv, Handed, M!NothingSkipped

-----------------------------------------------------------------------------
(* The pictures of a script: they follow each other, and fragments stay within one.  *)
\* No number is the one that stands for none.
LEMMA Numbers ==
    ASSUME NEW i \in M!Packet
    PROVE  M!Sequence(i) # M!Unset
<1> DEFINE x == FirstSequence + i - 1
<1>1. x \in Nat /\ NumberRange \in Nat /\ NumberRange > 0 /\ i \in Nat
  BY PicturesAssumption DEF M!Packet
<1>2. x % NumberRange \in 0..(NumberRange - 1)
  BY <1>1
<1> QED BY <1>1, <1>2 DEF M!Sequence, M!Unset

Pic(i) == RtpPackets[i].pic
Marked(i) == RtpPackets[i].last
Fragment(i) == RtpPackets[i].form \in {"start", "middle"}

LEMMA Pictures ==
    ASSUME NEW i \in M!Packet
    PROVE  /\ i \in Nat /\ i >= 1 /\ i <= Len(RtpPackets) /\ Len(RtpPackets) \in Nat /\ Pic(i) \in Nat /\ Marked(i) \in BOOLEAN
           /\ RtpPackets[i].form \in {"sets", "single", "start", "middle", "end"}
           /\ Fragment(i) => ~Marked(i) /\ (i + 1 \in M!Packet => RtpPackets[i + 1].form \in {"middle", "end"})
           /\ RtpPackets[i].form \in {"middle", "end"} => i - 1 \in M!Packet /\ Fragment(i - 1) /\ Pic(i - 1) = Pic(i)
           /\ ~Marked(i) /\ i + 1 \in M!Packet => Pic(i + 1) = Pic(i)
           /\ Marked(i) => \A j \in M!Packet : /\ j <= i /\ i + 1 \in M!Packet => Pic(j) < Pic(i + 1)
                                              /\ i < j => Pic(i) < Pic(j)
<1>1. /\ i \in Nat /\ i >= 1 /\ i <= Len(RtpPackets) /\ Len(RtpPackets) \in Nat /\ M!Packet = 1..Len(RtpPackets)
      /\ RtpPackets[i] \in [pic : Nat, form : {"sets", "single", "start", "middle", "end"}, key : BOOLEAN, last : BOOLEAN]
  <2> DEFINE S == [pic : Nat, form : {"sets", "single", "start", "middle", "end"}, key : BOOLEAN, last : BOOLEAN]
  <2>1. RtpPackets \in Seq(S)
    BY PicturesAssumption
  <2> HIDE DEF S
  <2>2. /\ i \in Nat /\ i >= 1 /\ i <= Len(RtpPackets) /\ Len(RtpPackets) \in Nat /\ M!Packet = 1..Len(RtpPackets)
        /\ RtpPackets[i] \in S
    BY <2>1 DEF M!Packet
  <2> QED BY <2>2 DEF S
<1>2. /\ Fragment(i) => ~Marked(i) /\ (i + 1 \in M!Packet => RtpPackets[i + 1].form \in {"middle", "end"})
      /\ RtpPackets[i].form \in {"middle", "end"} => i - 1 \in M!Packet /\ Fragment(i - 1)
  BY <1>1, PicturesAssumption DEF Fragment, Marked
<1>3. ASSUME NEW j \in M!Packet, ~Marked(j), j + 1 \in M!Packet
      PROVE  Pic(j + 1) = Pic(j)
  <2>1. j..((j + 1) - 1) = {j} /\ j < j + 1 /\ j \in Nat
    BY <1>1
  <2>2. ~ \E k \in j..((j + 1) - 1) : RtpPackets[k].last
    BY <2>1, <1>3 DEF Marked
  <2> QED BY <1>1, <1>3, <2>1, <2>2, PicturesAssumption DEF Pic
<1>4. RtpPackets[i].form \in {"middle", "end"} => Pic(i - 1) = Pic(i)
  <2> SUFFICES ASSUME RtpPackets[i].form \in {"middle", "end"} PROVE Pic(i - 1) = Pic(i)
    OBVIOUS
  <2>1. i - 1 \in M!Packet /\ ~Marked(i - 1) /\ (i - 1) + 1 = i
    BY <1>1, <1>2, PicturesAssumption DEF Fragment, Marked
  <2> QED BY <1>3, <2>1
<1>5. ASSUME Marked(i), NEW j \in M!Packet, NEW k \in M!Packet, j <= i, i < k
      PROVE  Pic(j) < Pic(k)
  <2>1. i \in j..(k - 1) /\ j < k
    BY <1>1, <1>5
  <2> QED BY <1>1, <1>5, <2>1, PicturesAssumption DEF Pic, Marked
<1>6. Marked(i) => \A j \in M!Packet : /\ j <= i /\ i + 1 \in M!Packet => Pic(j) < Pic(i + 1)
                                      /\ i < j => Pic(i) < Pic(j)
  BY <1>1, <1>5
<1> QED BY <1>1, <1>2, <1>3, <1>4, <1>6 DEF Pic, Marked

\* The packets of a sequence are of one picture, in order, and end with z.
Follow(s, z) == \A k \in 1..Len(s) : s[k] = (z - Len(s)) + k /\ Pic(s[k]) = Pic(z)

\* A picture is whole from packet a on, or it is one of those whose beginning cannot be known of.
FirstOf(a, early) == (\A j \in 1..(a - 1) : Pic(j) # Pic(a)) \/ Pic(a) \in early

\* What is kept, with what is kept of a fragmented NAL unit, after packet z.
Current(parts, fu, active) == parts \o (IF active THEN fu ELSE <<>>)
Kept(parts, fu, active, z, early) ==
    /\ active => Fragment(z) /\ fu # <<>>
    /\ IF Current(parts, fu, active) = <<>> THEN Pic(z) \in early
       ELSE /\ Follow(Current(parts, fu, active), z) /\ (active \/ ~Fragment(z))
            /\ FirstOf(Current(parts, fu, active)[1], early)

\* Of a packet alone.
LEMMA FollowOne ==
    ASSUME NEW i \in M!Packet
    PROVE  Follow(<<i>>, i) /\ <<i>> # <<>> /\ <<i>>[1] = i /\ <<i>> \in Seq(M!Packet)
<1>1. i \in Nat
  BY Pictures
<1>2. <<i>> \in Seq(M!Packet) /\ Len(<<i>>) = 1 /\ <<i>>[1] = i
  OBVIOUS
<1>3. <<i>> # <<>>
  BY <1>2
<1> QED BY <1>1, <1>2, <1>3 DEF Follow

\* And of one after another.
LEMMA FollowMore ==
    ASSUME NEW s \in Seq(M!Packet), NEW p \in M!Packet, NEW i \in M!Packet, i = p + 1, s # <<>>, Follow(s, p), Pic(i) = Pic(p)
    PROVE  Follow(Append(s, i), i) /\ Append(s, i) # <<>> /\ Append(s, i)[1] = s[1] /\ Append(s, i) \in Seq(M!Packet)
<1>1. i \in Nat /\ p \in Nat
  BY Pictures
<1>2. /\ Len(s) \in Nat /\ Len(s) >= 1 /\ Append(s, i) \in Seq(M!Packet) /\ Len(Append(s, i)) = Len(s) + 1
      /\ Append(s, i)[Len(s) + 1] = i /\ \A k \in 1..Len(s) : Append(s, i)[k] = s[k]
  BY EmptySeq, LenProperties
<1>3. Append(s, i)[1] = s[1]
  BY <1>2
<1>4. Append(s, i) # <<>>
  BY <1>2
<1>5. ASSUME NEW k \in 1..(Len(s) + 1)
      PROVE  Append(s, i)[k] = (i - (Len(s) + 1)) + k /\ Pic(Append(s, i)[k]) = Pic(i)
  <2>1. CASE k = Len(s) + 1
    BY <1>1, <1>2, <2>1
  <2>2. CASE k # Len(s) + 1
    <3>1. k \in 1..Len(s)
      BY <1>2, <2>2
    <3>2. Append(s, i)[k] = s[k] /\ s[k] = (p - Len(s)) + k /\ Pic(s[k]) = Pic(p)
      BY <1>2, <3>1 DEF Follow
    <3> QED BY <1>1, <1>2, <3>1, <3>2
  <2> QED BY <2>1, <2>2
<1> QED BY <1>2, <1>3, <1>4, <1>5 DEF Follow

\* A picture begins, or is joined, with packet i.
LEMMA Fresh ==
    ASSUME NEW i \in M!Packet, NEW fu \in Seq(M!Packet), NEW active \in BOOLEAN, ~active, NEW early, FirstOf(i, early)
    PROVE  /\ M!Depacketized(i, fu, active).nal \in Seq(M!Packet) /\ M!Depacketized(i, fu, active).fu \in Seq(M!Packet)
           /\ M!Depacketized(i, fu, active).active \in BOOLEAN
           /\ Kept(M!Depacketized(i, fu, active).nal, M!Depacketized(i, fu, active).fu, M!Depacketized(i, fu, active).active, i, early)
<1>1. RtpPackets[i].form \in {"sets", "single", "start", "middle", "end"}
  BY Pictures
<1>2. <<>> \in Seq(M!Packet) /\ <<i>> \in Seq(M!Packet) /\ Follow(<<i>>, i) /\ <<i>> # <<>> /\ <<i>>[1] = i
  BY FollowOne
<1>3. <<i>> \o <<>> = <<i>> /\ <<>> \o <<i>> = <<i>> /\ <<>> \o <<>> = <<>>
  BY <1>2, ConcatEmptySeq
<1>4. CASE RtpPackets[i].form \in {"sets", "single"}
  <2>1. M!Depacketized(i, fu, active) = [nal |-> <<i>>, fu |-> fu, active |-> FALSE]
    BY <1>4 DEF M!Depacketized
  <2>2. ~Fragment(i)
    BY <1>4 DEF Fragment
  <2>3. Current(<<i>>, fu, FALSE) = <<i>>
    BY <1>3 DEF Current
  <2>4. Kept(<<i>>, fu, FALSE, i, early)
    BY <1>2, <2>2, <2>3 DEF Kept
  <2>9. M!Depacketized(i, fu, active).nal = <<i>> /\ M!Depacketized(i, fu, active).fu = fu /\ M!Depacketized(i, fu, active).active = FALSE
    BY <2>1
  <2> QED BY <1>2, <2>9, <2>4
<1>5. CASE RtpPackets[i].form = "start"
  <2>1. M!Depacketized(i, fu, active) = [nal |-> <<>>, fu |-> <<i>>, active |-> TRUE]
    BY <1>5 DEF M!Depacketized
  <2>2. Fragment(i)
    BY <1>5 DEF Fragment
  <2>3. Current(<<>>, <<i>>, TRUE) = <<i>>
    BY <1>3 DEF Current
  <2>4. Kept(<<>>, <<i>>, TRUE, i, early)
    BY <1>2, <2>2, <2>3 DEF Kept
  <2>9. M!Depacketized(i, fu, active).nal = <<>> /\ M!Depacketized(i, fu, active).fu = <<i>> /\ M!Depacketized(i, fu, active).active = TRUE
    BY <2>1
  <2> QED BY <1>2, <2>9, <2>4
<1>6. CASE RtpPackets[i].form \in {"middle", "end"}
  <2>1. M!Depacketized(i, fu, active) = [nal |-> <<>>, fu |-> fu, active |-> FALSE]
    BY <1>6 DEF M!Depacketized
  <2>2. i - 1 \in M!Packet /\ Pic(i - 1) = Pic(i) /\ i - 1 \in 1..(i - 1)
    BY <1>6, Pictures DEF M!Packet
  <2>3. Pic(i) \in early
    BY <2>2 DEF FirstOf
  <2>4. Current(<<>>, fu, FALSE) = <<>>
    BY <1>3 DEF Current
  <2>5. Kept(<<>>, fu, FALSE, i, early)
    BY <2>3, <2>4 DEF Kept
  <2>9. M!Depacketized(i, fu, active).nal = <<>> /\ M!Depacketized(i, fu, active).fu = fu /\ M!Depacketized(i, fu, active).active = FALSE
    BY <2>1
  <2> QED BY <1>2, <2>9, <2>5
<1> QED BY <1>1, <1>4, <1>5, <1>6

\* A picture goes on with packet i, the next one.
LEMMA GoesOn2 ==
    ASSUME NEW p \in M!Packet, NEW i \in M!Packet, i = p + 1, ~Marked(p), NEW parts \in Seq(M!Packet), NEW fu \in Seq(M!Packet),
           NEW active \in BOOLEAN, NEW early, Kept(parts, fu, active, p, early)
    PROVE  /\ M!Depacketized(i, fu, active).nal \in Seq(M!Packet) /\ M!Depacketized(i, fu, active).fu \in Seq(M!Packet)
           /\ M!Depacketized(i, fu, active).active \in BOOLEAN
           /\ Kept(parts \o M!Depacketized(i, fu, active).nal, M!Depacketized(i, fu, active).fu, M!Depacketized(i, fu, active).active, i, early)
<1>1. RtpPackets[i].form \in {"sets", "single", "start", "middle", "end"} /\ Pic(i) = Pic(p) /\ p \in Nat /\ i - 1 = p
  BY Pictures
<1>2. /\ Fragment(p) => RtpPackets[i].form \in {"middle", "end"}
      /\ RtpPackets[i].form \in {"middle", "end"} => Fragment(p)
  BY <1>1, Pictures
<1>3. <<>> \in Seq(M!Packet) /\ <<i>> \in Seq(M!Packet) /\ Follow(<<i>>, i) /\ <<i>> # <<>> /\ <<i>>[1] = i
  BY FollowOne
<1>4. parts \o <<>> = parts /\ <<>> \o <<i>> = <<i>> /\ <<i>> \o <<>> = <<i>> /\ parts \o <<i>> = Append(parts, i)
  BY <1>3, ConcatEmptySeq
<1>5. CASE ~active /\ RtpPackets[i].form \in {"middle", "end"}
  <2>1. M!Depacketized(i, fu, active) = [nal |-> <<>>, fu |-> fu, active |-> FALSE]
    BY <1>5 DEF M!Depacketized
  <2>2. Current(parts, fu, active) = parts
    BY <1>4, <1>5 DEF Current
  <2>3. parts = <<>> /\ Pic(p) \in early
    BY <1>2, <1>5, <2>2 DEF Kept
  <2>4. Current(parts \o <<>>, fu, FALSE) = <<>>
    BY <1>4, <2>3 DEF Current
  <2>5. Kept(parts \o <<>>, fu, FALSE, i, early)
    BY <1>1, <2>3, <2>4 DEF Kept
  <2>9. M!Depacketized(i, fu, active).nal = <<>> /\ M!Depacketized(i, fu, active).fu = fu /\ M!Depacketized(i, fu, active).active = FALSE
    BY <2>1
  <2> QED BY <1>3, <2>9, <2>5
<1>6. CASE active
  <2>1. Fragment(p) /\ fu # <<>> /\ RtpPackets[i].form \in {"middle", "end"}
    BY <1>2, <1>6 DEF Kept
  <2> DEFINE cur == parts \o fu
  <2>2. cur \in Seq(M!Packet) /\ cur # <<>> /\ Current(parts, fu, active) = cur
    <3>1. Len(cur) = Len(parts) + Len(fu) /\ Len(fu) # 0 /\ Len(parts) \in Nat /\ Len(fu) \in Nat /\ cur \in Seq(M!Packet)
      BY <2>1, EmptySeq, LenProperties, ConcatProperties
    <3>2. cur # <<>>
      BY <3>1
    <3> QED BY <1>6, <3>1, <3>2 DEF Current
  <2>3. Follow(cur, p) /\ FirstOf(cur[1], early)
    BY <2>2 DEF Kept
  <2>4. parts \o Append(fu, i) = Append(cur, i) /\ Append(fu, i) \in Seq(M!Packet) /\ Append(fu, i) # <<>>
    OBVIOUS
  <2>5. Follow(Append(cur, i), i) /\ Append(cur, i) # <<>> /\ Append(cur, i)[1] = cur[1] /\ Append(cur, i) \in Seq(M!Packet)
    <3> HIDE DEF cur
    <3> QED BY <1>1, <2>2, <2>3, FollowMore
  <2> HIDE DEF cur
  <2>6. CASE RtpPackets[i].form = "middle"
    <3>1. M!Depacketized(i, fu, active) = [nal |-> <<>>, fu |-> Append(fu, i), active |-> TRUE]
      BY <1>6, <2>6 DEF M!Depacketized
    <3>2. Current(parts \o <<>>, Append(fu, i), TRUE) = Append(cur, i)
      BY <1>4, <2>4 DEF Current
    <3>3. Fragment(i)
      BY <2>6 DEF Fragment
    <3>4. Kept(parts \o <<>>, Append(fu, i), TRUE, i, early)
      BY <2>3, <2>4, <2>5, <3>2, <3>3 DEF Kept
    <3>9. M!Depacketized(i, fu, active).nal = <<>> /\ M!Depacketized(i, fu, active).fu = Append(fu, i) /\ M!Depacketized(i, fu, active).active = TRUE
      BY <3>1
    <3> QED BY <1>3, <2>4, <3>9, <3>4
  <2>7. CASE RtpPackets[i].form = "end"
    <3>1. M!Depacketized(i, fu, active) = [nal |-> Append(fu, i), fu |-> <<>>, active |-> FALSE]
      BY <1>6, <2>7 DEF M!Depacketized
    <3>2. Current(parts \o Append(fu, i), <<>>, FALSE) = Append(cur, i)
      BY <2>4, <2>5, ConcatEmptySeq DEF Current
    <3>3. ~Fragment(i)
      BY <2>7 DEF Fragment
    <3>4. Kept(parts \o Append(fu, i), <<>>, FALSE, i, early)
      BY <2>3, <2>5, <3>2, <3>3 DEF Kept
    <3>9. M!Depacketized(i, fu, active).nal = Append(fu, i) /\ M!Depacketized(i, fu, active).fu = <<>> /\ M!Depacketized(i, fu, active).active = FALSE
      BY <3>1
    <3> QED BY <1>3, <2>4, <3>9, <3>4
  <2> QED BY <2>1, <2>6, <2>7
<1>7. CASE ~active /\ RtpPackets[i].form \in {"sets", "single", "start"}
  <2>1. ~Fragment(p) /\ Current(parts, fu, active) = parts
    BY <1>2, <1>4, <1>7 DEF Current
  <2>2. /\ Follow(Append(parts, i), i) /\ Append(parts, i) # <<>> /\ Append(parts, i) \in Seq(M!Packet)
        /\ FirstOf(Append(parts, i)[1], early)
    <3>1. CASE parts = <<>>
      <4>1. Append(parts, i) = <<i>> /\ Pic(i) \in early
        BY <1>1, <1>4, <2>1, <3>1 DEF Kept
      <4> QED BY <1>3, <4>1 DEF FirstOf
    <3>2. CASE parts # <<>>
      <4>1. Follow(parts, p) /\ FirstOf(parts[1], early)
        BY <2>1, <3>2 DEF Kept
      <4> QED BY <1>1, <3>2, <4>1, FollowMore
    <3> QED BY <3>1, <3>2
  <2>3. CASE RtpPackets[i].form = "start"
    <3>1. M!Depacketized(i, fu, active) = [nal |-> <<>>, fu |-> <<i>>, active |-> TRUE]
      BY <1>7, <2>3 DEF M!Depacketized
    <3>2. Current(parts \o <<>>, <<i>>, TRUE) = Append(parts, i)
      BY <1>4 DEF Current
    <3>3. Fragment(i)
      BY <2>3 DEF Fragment
    <3>4. Kept(parts \o <<>>, <<i>>, TRUE, i, early)
      BY <1>3, <2>2, <3>2, <3>3 DEF Kept
    <3>9. M!Depacketized(i, fu, active).nal = <<>> /\ M!Depacketized(i, fu, active).fu = <<i>> /\ M!Depacketized(i, fu, active).active = TRUE
      BY <3>1
    <3> QED BY <1>3, <3>9, <3>4
  <2>4. CASE RtpPackets[i].form \in {"sets", "single"}
    <3>1. M!Depacketized(i, fu, active) = [nal |-> <<i>>, fu |-> fu, active |-> FALSE]
      BY <1>7, <2>4 DEF M!Depacketized
    <3>2. Current(parts \o <<i>>, fu, FALSE) = Append(parts, i)
      BY <1>4, <2>2, ConcatEmptySeq DEF Current
    <3>3. ~Fragment(i)
      BY <2>4 DEF Fragment
    <3>4. Kept(parts \o <<i>>, fu, FALSE, i, early)
      BY <2>2, <3>2, <3>3 DEF Kept
    <3>9. M!Depacketized(i, fu, active).nal = <<i>> /\ M!Depacketized(i, fu, active).fu = fu /\ M!Depacketized(i, fu, active).active = FALSE
      BY <3>1
    <3> QED BY <1>3, <3>9, <3>4
  <2> QED BY <1>7, <2>3, <2>4
<1> QED BY <1>1, <1>5, <1>6, <1>7

\* A marked packet completes the picture.
FullOf(parts, early) ==
    /\ \A k \in 1..(Len(parts) - 1) : parts[k + 1] = parts[k] + 1
    /\ {parts[k] : k \in 1..Len(parts)} = {i \in M!Packet : Pic(i) = Pic(parts[1]) /\ i >= parts[1]}
    /\ FirstOf(parts[1], early)

LEMMA Completes ==
    ASSUME NEW i \in M!Packet, NEW parts \in Seq(M!Packet), NEW fu, NEW active \in BOOLEAN, NEW early,
           Kept(parts, fu, active, i, early), Marked(i)
    PROVE  ~active /\ (parts # <<>> => FullOf(parts, early))
<1>1. ~Fragment(i) /\ i \in Nat /\ M!Packet = 1..Len(RtpPackets) /\ Len(RtpPackets) \in Nat
  BY Pictures DEF M!Packet
<1>2. ~active
  BY <1>1 DEF Kept
<1>3. Current(parts, fu, active) = parts
  BY <1>2, ConcatEmptySeq DEF Current
<1>4. ASSUME parts # <<>>
      PROVE  FullOf(parts, early)
  <2>1. Follow(parts, i) /\ FirstOf(parts[1], early)
    BY <1>3, <1>4 DEF Kept
  <2>2. Len(parts) \in Nat /\ Len(parts) >= 1
    BY <1>4, EmptySeq, LenProperties
  <2>3. \A k \in 1..Len(parts) : parts[k] = (i - Len(parts)) + k /\ Pic(parts[k]) = Pic(i) /\ parts[k] \in M!Packet
    BY <2>1 DEF Follow
  <2>4. \A k \in 1..(Len(parts) - 1) : parts[k + 1] = parts[k] + 1
    BY <1>1, <2>2, <2>3
  <2>5. Pic(parts[1]) = Pic(i) /\ parts[1] = (i - Len(parts)) + 1
    BY <2>2, <2>3
  <2>6. ASSUME NEW j \in M!Packet, Pic(j) = Pic(parts[1]), j >= parts[1]
        PROVE  \E k \in 1..Len(parts) : parts[k] = j
    <3>1. j <= i
      <4>1. i < j => Pic(i) < Pic(j)
        BY Pictures
      <4>2. Pic(i) \in Nat /\ Pic(j) = Pic(i) /\ j \in Nat
        BY <1>1, <2>5, <2>6, Pictures
      <4> QED BY <1>1, <4>1, <4>2
    <3>2. j - (i - Len(parts)) \in 1..Len(parts) /\ (i - Len(parts)) + (j - (i - Len(parts))) = j
      BY <1>1, <2>2, <2>5, <2>6, <3>1
    <3> QED BY <2>3, <3>2
  <2>7. ASSUME NEW k \in 1..Len(parts)
        PROVE  parts[k] \in M!Packet /\ Pic(parts[k]) = Pic(parts[1]) /\ parts[k] >= parts[1]
    BY <1>1, <2>2, <2>3, <2>5
  <2>8. {parts[k] : k \in 1..Len(parts)} = {j \in M!Packet : Pic(j) = Pic(parts[1]) /\ j >= parts[1]}
    BY <2>6, <2>7
  <2> QED BY <2>1, <2>4, <2>8 DEF FullOf
<1> QED BY <1>2, <1>4

\* What is handed to the depacketizer after a gap, or with the picture incomplete: of it only whether it holds a fragment matters.
LEMMA StillActive ==
    ASSUME NEW i \in M!Packet, NEW fu \in Seq(M!Packet), NEW active \in BOOLEAN
    PROVE  /\ M!Depacketized(i, fu, active).nal \in Seq(M!Packet) /\ M!Depacketized(i, fu, active).fu \in Seq(M!Packet)
           /\ M!Depacketized(i, fu, active).active \in BOOLEAN
           /\ (active => RtpPackets[i].form \in {"middle", "end"}) /\ M!Depacketized(i, fu, active).active => Fragment(i)
<1>1. RtpPackets[i].form \in {"sets", "single", "start", "middle", "end"}
  BY Pictures
<1>2. <<>> \in Seq(M!Packet) /\ <<i>> \in Seq(M!Packet) /\ Append(fu, i) \in Seq(M!Packet)
  OBVIOUS
<1>3. CASE RtpPackets[i].form \in {"sets", "single"}
  <2>1. M!Depacketized(i, fu, active) = [nal |-> <<i>>, fu |-> fu, active |-> active]
    BY <1>3 DEF M!Depacketized
  <2>2. M!Depacketized(i, fu, active).nal = <<i>> /\ M!Depacketized(i, fu, active).fu = fu /\ M!Depacketized(i, fu, active).active = active
    BY <2>1
  <2> QED BY <1>2, <1>3, <2>2
<1>4. CASE RtpPackets[i].form = "start"
  <2>1. M!Depacketized(i, fu, active) = [nal |-> <<>>, fu |-> <<i>>, active |-> TRUE]
    BY <1>4 DEF M!Depacketized
  <2>2. M!Depacketized(i, fu, active).nal = <<>> /\ M!Depacketized(i, fu, active).fu = <<i>> /\ M!Depacketized(i, fu, active).active = TRUE
    BY <2>1
  <2> QED BY <1>2, <1>4, <2>2 DEF Fragment
<1>5. CASE RtpPackets[i].form \in {"middle", "end"} /\ ~active
  <2>1. M!Depacketized(i, fu, active) = [nal |-> <<>>, fu |-> fu, active |-> FALSE]
    BY <1>5 DEF M!Depacketized
  <2>2. M!Depacketized(i, fu, active).nal = <<>> /\ M!Depacketized(i, fu, active).fu = fu /\ M!Depacketized(i, fu, active).active = FALSE
    BY <2>1
  <2> QED BY <1>2, <2>2
<1>6. CASE RtpPackets[i].form = "middle" /\ active
  <2>1. M!Depacketized(i, fu, active) = [nal |-> <<>>, fu |-> Append(fu, i), active |-> TRUE]
    BY <1>6 DEF M!Depacketized
  <2>2. M!Depacketized(i, fu, active).nal = <<>> /\ M!Depacketized(i, fu, active).fu = Append(fu, i) /\ M!Depacketized(i, fu, active).active = TRUE
    BY <2>1
  <2> QED BY <1>2, <1>6, <2>2 DEF Fragment
<1>7. CASE RtpPackets[i].form = "end" /\ active
  <2>1. M!Depacketized(i, fu, active) = [nal |-> Append(fu, i), fu |-> <<>>, active |-> FALSE]
    BY <1>7 DEF M!Depacketized
  <2>2. M!Depacketized(i, fu, active).nal = Append(fu, i) /\ M!Depacketized(i, fu, active).fu = <<>> /\ M!Depacketized(i, fu, active).active = FALSE
    BY <2>1
  <2> QED BY <1>2, <2>2
<1> QED BY <1>1, <1>3, <1>4, <1>5, <1>6, <1>7

\* The first and the last of a sequence of datagrams that are RTP, and those that follow each other.
EarliestOf(t, i) == \E k \in DOMAIN t : i # M!Rtcp /\ t[k] = i /\ \A j \in 1..(k - 1) : t[j] = M!Rtcp
LatestOf(t, i) == \E k \in DOMAIN t : i # M!Rtcp /\ t[k] = i /\ \A j \in (k + 1)..Len(t) : t[j] = M!Rtcp
AdjacentOf(t, i, j) == \E k, l \in DOMAIN t :
    /\ k < l /\ {i, j} \subseteq M!Packet /\ t[k] = i /\ t[l] = j
    /\ \A m \in (k + 1)..(l - 1) : t[m] = M!Rtcp
AliasedOf(t) == \E i, j \in M!Packet : AdjacentOf(t, i, j) /\ j # i + 1 /\ M!IsNext(M!Sequence(i), M!Sequence(j))
EarlyPics(t) == {Pic(e) : e \in {e \in M!Packet : EarliestOf(t, e)}}

LEMMA OneMore ==
    ASSUME NEW t \in Seq(Datagram), NEW d \in Datagram, NEW u, u = Append(t, d)
    PROVE  /\ u \in Seq(Datagram) /\ Len(t) \in Nat /\ Len(u) = Len(t) + 1 /\ DOMAIN t = 1..Len(t) /\ DOMAIN u = 1..(Len(t) + 1)
           /\ u[Len(t) + 1] = d /\ \A k \in 1..Len(t) : u[k] = t[k]
  OBVIOUS

LEMMA EarlyStays ==
    ASSUME NEW t \in Seq(Datagram), NEW d \in Datagram, NEW u, u = Append(t, d)
    PROVE  EarlyPics(t) \subseteq EarlyPics(u) /\ (AliasedOf(t) => AliasedOf(u))
<1>1. /\ Len(t) \in Nat /\ DOMAIN t = 1..Len(t) /\ DOMAIN u = 1..(Len(t) + 1) /\ \A k \in 1..Len(t) : u[k] = t[k]
  BY OneMore
<1>2. ASSUME NEW e \in M!Packet, EarliestOf(t, e)
      PROVE  EarliestOf(u, e)
  BY <1>1, <1>2 DEF EarliestOf
<1>3. ASSUME NEW i \in M!Packet, NEW j \in M!Packet, AdjacentOf(t, i, j)
      PROVE  AdjacentOf(u, i, j)
  BY <1>1, <1>3 DEF AdjacentOf
<1> QED BY <1>2, <1>3 DEF EarlyPics, AliasedOf

\* One that is not RTP goes unnoticed.
LEMMA RtcpUnseen ==
    ASSUME NEW t \in Seq(Datagram), NEW u, u = Append(t, M!Rtcp)
    PROVE  /\ (\A k \in DOMAIN t : t[k] = M!Rtcp) => \A k \in DOMAIN u : u[k] = M!Rtcp
           /\ \A p \in M!Packet : LatestOf(t, p) => LatestOf(u, p)
<1>1. /\ Len(u) = Len(t) + 1
      /\ Len(t) \in Nat /\ DOMAIN t = 1..Len(t) /\ DOMAIN u = 1..(Len(t) + 1) /\ \A k \in 1..Len(t) : u[k] = t[k]
      /\ u[Len(t) + 1] = M!Rtcp
  BY OneMore, DatagramIs
<1>2. ASSUME NEW p \in M!Packet, LatestOf(t, p)
      PROVE  LatestOf(u, p)
  <2>1. PICK k \in 1..Len(t) : p # M!Rtcp /\ t[k] = p /\ \A j \in (k + 1)..Len(t) : t[j] = M!Rtcp
    BY <1>1, <1>2 DEF LatestOf
  <2>2. ASSUME NEW j \in (k + 1)..(Len(t) + 1)
        PROVE  u[j] = M!Rtcp
    <3>1. CASE j = Len(t) + 1
      BY <1>1, <3>1
    <3>2. CASE j # Len(t) + 1
      <4>1. j \in (k + 1)..Len(t) /\ j \in 1..Len(t)
        BY <1>1, <3>2
      <4> QED BY <1>1, <2>1, <4>1
    <3> QED BY <3>1, <3>2
  <2> QED BY <1>1, <2>1, <2>2 DEF LatestOf
<1>3. ASSUME \A k \in DOMAIN t : t[k] = M!Rtcp, NEW k \in DOMAIN u
      PROVE  u[k] = M!Rtcp
  BY <1>1, <1>3
<1> QED BY <1>2, <1>3

\* One that is RTP is the last one, after the one that was; and the first one, if there was none.
LEMMA RtpSeen ==
    ASSUME NEW t \in Seq(Datagram), NEW i \in M!Packet, NEW u, u = Append(t, i)
    PROVE  /\ LatestOf(u, i)
           /\ (\A k \in DOMAIN t : t[k] = M!Rtcp) => Pic(i) \in EarlyPics(u)
           /\ \A p \in M!Packet : LatestOf(t, p) => AdjacentOf(u, p, i)
<1>1. /\ Len(u) = Len(t) + 1
      /\ Len(t) \in Nat /\ DOMAIN t = 1..Len(t) /\ DOMAIN u = 1..(Len(t) + 1) /\ \A k \in 1..Len(t) : u[k] = t[k]
      /\ u[Len(t) + 1] = i
  BY OneMore, DatagramIs
<1>2. i # M!Rtcp
  BY Pictures DEF M!Rtcp
<1>3. LatestOf(u, i)
  BY <1>1, <1>2 DEF LatestOf
<1>4. ASSUME \A k \in DOMAIN t : t[k] = M!Rtcp
      PROVE  Pic(i) \in EarlyPics(u)
  <2>1. EarliestOf(u, i)
    BY <1>1, <1>2, <1>4 DEF EarliestOf
  <2> QED BY <2>1 DEF EarlyPics
<1>5. ASSUME NEW p \in M!Packet, LatestOf(t, p)
      PROVE  AdjacentOf(u, p, i)
  <2>1. PICK k \in 1..Len(t) : t[k] = p /\ \A j \in (k + 1)..Len(t) : t[j] = M!Rtcp
    BY <1>1, <1>5 DEF LatestOf
  <2>2. k < Len(t) + 1 /\ k \in DOMAIN u /\ Len(t) + 1 \in DOMAIN u /\ u[k] = p /\ (Len(t) + 1) - 1 = Len(t)
    BY <1>1, <2>1
  <2>3. \A m \in (k + 1)..((Len(t) + 1) - 1) : u[m] = M!Rtcp
    BY <1>1, <2>1
  <2> QED BY <1>1, <2>2, <2>3 DEF AdjacentOf
<1> QED BY <1>3, <1>4, <1>5

-----------------------------------------------------------------------------
(* The assembler: what is kept of the picture being put together.                   *)
Unit == [parts : Seq(M!Packet), key : BOOLEAN]
Assembler == [parts : Seq(M!Packet), isKey : BOOLEAN, corrupt : BOOLEAN, last : Nat, fu : Seq(M!Packet), active : BOOLEAN,
              sets : BOOLEAN, received : Nat, lost : Nat, dropped : Nat, units : Seq(Unit)]
FuOf(s) == IF M!Gap(s) THEN <<>> ELSE assembler.fu
ActiveOf(s) == assembler.active /\ ~M!Gap(s)
NalOf(i) == M!Depacketized(i, FuOf(M!Sequence(i)), ActiveOf(M!Sequence(i))).nal
FuAfter(i) == M!Depacketized(i, FuOf(M!Sequence(i)), ActiveOf(M!Sequence(i))).fu
ActiveAfter(i) == M!Depacketized(i, FuOf(M!Sequence(i)), ActiveOf(M!Sequence(i))).active

LEMMA PushTypes ==
    ASSUME assembler \in Assembler, NEW i \in M!Packet
    PROVE  /\ NalOf(i) \in Seq(M!Packet) /\ FuAfter(i) \in Seq(M!Packet) /\ ActiveAfter(i) \in BOOLEAN
           /\ (ActiveOf(M!Sequence(i)) => RtpPackets[i].form \in {"middle", "end"}) /\ ActiveAfter(i) => Fragment(i)
           /\ FuOf(M!Sequence(i)) \in Seq(M!Packet) /\ ActiveOf(M!Sequence(i)) \in BOOLEAN
<1>1. assembler.fu \in Seq(M!Packet) /\ assembler.active \in BOOLEAN /\ <<>> \in Seq(M!Packet)
  BY DEF Assembler
<1>2. FuOf(M!Sequence(i)) \in Seq(M!Packet)
  BY <1>1 DEF FuOf
<1>3. ActiveOf(M!Sequence(i)) \in BOOLEAN
  BY <1>1 DEF ActiveOf
<1> QED BY <1>2, <1>3, StillActive DEF NalOf, FuAfter, ActiveAfter

\* What the parts and flags of the assembler are when a packet has been pushed.
LEMMA PushedIs ==
    ASSUME assembler \in Assembler, NEW i \in M!Packet, assembler' = M!Pushed(i)
    PROVE  /\ assembler' \in Assembler
           /\ assembler'.last = M!Sequence(i) /\ assembler'.fu = FuAfter(i) /\ assembler'.active = ActiveAfter(i)
           /\ ~Marked(i) => /\ assembler'.parts = assembler.parts \o NalOf(i) /\ assembler'.units = assembler.units
                            /\ assembler'.corrupt = (assembler.corrupt \/ M!Gap(M!Sequence(i)))
           /\ Marked(i) => /\ assembler'.parts = <<>> /\ ~assembler'.corrupt
                           /\ \/ assembler'.units = assembler.units
                              \/ /\ ~assembler.corrupt /\ ~M!Gap(M!Sequence(i)) /\ assembler.parts \o NalOf(i) # <<>>
                                 /\ \E key \in BOOLEAN :
                                      assembler'.units = Append(assembler.units, [parts |-> assembler.parts \o NalOf(i), key |-> key])
<1> DEFINE s == M!Sequence(i)
           lost == IF M!Gap(s) THEN assembler.lost + M!Missing(s) ELSE assembler.lost
           corrupt == assembler.corrupt \/ M!Gap(s)
           sets == assembler.sets \/ M!AbsorbsSets(NalOf(i))
           isKey == assembler.isKey \/ M!AbsorbsKey(NalOf(i))
           parts == assembler.parts \o NalOf(i)
           a == [assembler EXCEPT !.received = assembler.received + 1, !.lost = lost, !.corrupt = corrupt, !.last = s,
                   !.fu = FuAfter(i), !.active = ActiveAfter(i), !.parts = parts, !.sets = sets, !.isKey = isKey]
<1>1. assembler' = IF RtpPackets[i].last THEN M!Completed(a) ELSE a
  BY DEF M!Pushed, M!Corrupts, NalOf, FuAfter, ActiveAfter, FuOf, ActiveOf
<1>2. NalOf(i) \in Seq(M!Packet) /\ FuAfter(i) \in Seq(M!Packet) /\ ActiveAfter(i) \in BOOLEAN
  BY PushTypes
<1>3. s \in Nat /\ NumberRange \in Nat /\ NumberRange > 0
  <2>1. i \in Nat /\ i >= 1 /\ FirstSequence \in Nat /\ NumberRange \in Nat /\ NumberRange > 0
    BY Pictures, PicturesAssumption
  <2>2. FirstSequence + i - 1 \in Nat
    BY <2>1
  <2>3. (FirstSequence + i - 1) % NumberRange \in Nat
    BY <2>1, <2>2
  <2> QED BY <2>1, <2>3 DEF M!Sequence
<1>4. lost \in Nat
  <2>1. assembler.lost \in Nat /\ assembler.last \in Nat
    BY DEF Assembler
  <2>2. s + 2 * NumberRange - assembler.last - 1 \in Int
    BY <1>3, <2>1
  <2>3. (s + 2 * NumberRange - assembler.last - 1) % NumberRange \in Nat
    BY <1>3, <2>2
  <2> QED BY <2>1, <2>3 DEF M!Missing
<1>5. corrupt \in BOOLEAN
  BY DEF Assembler
<1>6. sets \in BOOLEAN
  BY DEF Assembler
<1>7. isKey \in BOOLEAN
  BY DEF Assembler
<1>8. parts \in Seq(M!Packet) /\ assembler.received + 1 \in Nat
  BY <1>2, ConcatProperties DEF Assembler
<1> HIDE DEF s, lost, corrupt, sets, isKey, parts
<1>9. /\ a \in Assembler /\ a.parts = parts /\ a.corrupt = corrupt /\ a.last = s /\ a.fu = FuAfter(i) /\ a.active = ActiveAfter(i)
      /\ a.units = assembler.units /\ a.isKey = isKey /\ a.dropped = assembler.dropped
  BY <1>2, <1>3, <1>4, <1>5, <1>6, <1>7, <1>8 DEF Assembler
<1> HIDE DEF a
<1>10. CASE ~Marked(i)
  <2>1. assembler' = a
    BY <1>1, <1>10 DEF Marked
  <2> QED BY <1>9, <1>10, <2>1 DEF parts, corrupt, s
<1>11. CASE Marked(i)
  <2> DEFINE dropped == IF a.corrupt THEN a.dropped + 1 ELSE a.dropped
             units == IF a.corrupt \/ a.parts = <<>> THEN a.units ELSE Append(a.units, [parts |-> a.parts, key |-> a.isKey])
  <2>1. assembler' = [a EXCEPT !.parts = <<>>, !.isKey = FALSE, !.corrupt = FALSE, !.dropped = dropped, !.units = units]
    BY <1>1, <1>11 DEF Marked, M!Completed
  <2>2. dropped \in Nat /\ <<>> \in Seq(M!Packet)
    BY <1>9 DEF Assembler
  <2>3. units \in Seq(Unit)
    <3>1. [parts |-> a.parts, key |-> a.isKey] \in Unit
      BY <1>9 DEF Assembler, Unit
    <3>2. a.units \in Seq(Unit)
      BY <1>9 DEF Assembler
    <3>3. Append(a.units, [parts |-> a.parts, key |-> a.isKey]) \in Seq(Unit)
      BY <3>1, <3>2
    <3> QED BY <3>2, <3>3
  <2>4. \/ units = assembler.units
        \/ /\ ~assembler.corrupt /\ ~M!Gap(M!Sequence(i)) /\ parts # <<>>
           /\ \E key \in BOOLEAN : units = Append(assembler.units, [parts |-> parts, key |-> key])
    BY <1>7, <1>9 DEF corrupt, s
  <2> HIDE DEF dropped, units
  <2>5. /\ assembler' \in Assembler /\ assembler'.parts = <<>> /\ assembler'.corrupt = FALSE /\ assembler'.units = units
        /\ assembler'.last = a.last /\ assembler'.fu = a.fu /\ assembler'.active = a.active
    BY <1>9, <2>1, <2>2, <2>3 DEF Assembler
  <2> QED BY <1>9, <1>11, <2>4, <2>5 DEF parts, s
<1> QED BY <1>10, <1>11

-----------------------------------------------------------------------------
(* A packet more: into the same picture, at its end, or after a gap.                 *)

LEMMA PacketIs ==
    ASSUME NEW i \in M!Packet
    PROVE  i # M!Rtcp
  BY PicturesAssumption DEF M!Packet, M!Rtcp

LEMMA AfterMarked ==
    ASSUME NEW p \in M!Packet, Marked(p), NEW j \in M!Packet, j <= p, p + 1 \in M!Packet
    PROVE  Pic(j) < Pic(p + 1)
<1>1. j \in Nat /\ p \in Nat /\ M!Packet = 1..Len(RtpPackets) /\ Len(RtpPackets) \in Nat
  BY PicturesAssumption DEF M!Packet
<1>2. p \in j..((p + 1) - 1) /\ j < p + 1 /\ RtpPackets[p].last
  BY <1>1 DEF Marked
<1>3. \A i, k \in 1..Len(RtpPackets) : i < k =>
        IF \E n \in i..(k - 1) : RtpPackets[n].last THEN RtpPackets[i].pic < RtpPackets[k].pic
        ELSE RtpPackets[i].pic = RtpPackets[k].pic
  BY PicturesAssumption
<1> QED BY <1>1, <1>2, <1>3 DEF Pic

\* What is known of the picture being assembled when packet p was the last one taken.
UpTo(a, p, early) ==
    /\ a.active => Fragment(p)
    /\ ~a.corrupt => IF Marked(p) THEN a.parts = <<>> ELSE Kept(a.parts, a.fu, a.active, p, early)
AllFull(units, early) == \A n \in 1..Len(units) : FullOf(units[n].parts, early)
Untouched(a, t) ==
    a.parts = <<>> /\ ~a.active /\ ~a.corrupt /\ a.units = <<>> /\ \A k \in DOMAIN t : t[k] = M!Rtcp
InPicture(a, t, p) ==
    LatestOf(t, p) /\ a.last = M!Sequence(p) /\ (AliasedOf(t) \/ UpTo(a, p, EarlyPics(t)))
PicturesInv ==
    /\ assembler \in Assembler
    /\ \/ assembler.last = M!Unset /\ Untouched(assembler, receiver.taken)
       \/ \E p \in M!Packet : InPicture(assembler, receiver.taken, p)
    /\ AliasedOf(receiver.taken) \/ AllFull(assembler.units, EarlyPics(receiver.taken))

\* More may become known of the first picture; what was whole stays so.
LEMMA Grows ==
    ASSUME NEW early, NEW later, early \subseteq later
    PROVE  /\ \A a, p : UpTo(a, p, early) => UpTo(a, p, later)
           /\ \A units : AllFull(units, early) => AllFull(units, later)
           /\ \A parts, fu, active, p : Kept(parts, fu, active, p, early) => Kept(parts, fu, active, p, later)
<1>1. \A x : FirstOf(x, early) => FirstOf(x, later)
  BY DEF FirstOf
<1>2. ASSUME NEW parts, NEW fu, NEW active, NEW p, Kept(parts, fu, active, p, early)
      PROVE  Kept(parts, fu, active, p, later)
  BY <1>1, <1>2 DEF Kept
<1>3. ASSUME NEW a, NEW p, UpTo(a, p, early)
      PROVE  UpTo(a, p, later)
  BY <1>2, <1>3 DEF UpTo
<1>4. ASSUME NEW units, AllFull(units, early)
      PROVE  AllFull(units, later)
  BY <1>1, <1>4 DEF AllFull, FullOf
<1> QED BY <1>2, <1>3, <1>4

LEMMA PicturesInitInv ==
    ASSUME M!MediaInit
    PROVE  PicturesInv
<1>1. assembler \in Assembler
  <2>1. <<>> \in Seq(M!Packet) /\ <<>> \in Seq(Unit) /\ M!Unset \in Nat
    BY PicturesAssumption DEF M!Unset
  <2> QED BY <2>1 DEF M!MediaInit, Assembler
<1>2. assembler.last = M!Unset /\ Untouched(assembler, receiver.taken)
  BY DEF M!MediaInit, Untouched
<1>3. AllFull(assembler.units, EarlyPics(receiver.taken))
  BY DEF M!MediaInit, AllFull
<1> QED BY <1>1, <1>2, <1>3 DEF PicturesInv

LEMMA PicturesRtcp ==
    ASSUME PicturesInv, ReceiverInv, receiver'.taken = Append(receiver.taken, M!Rtcp), M!Consumes(M!Rtcp)
    PROVE  PicturesInv'
<1>1. assembler' = assembler
  BY DEF M!Consumes
<1> DEFINE t == receiver.taken  u == receiver'.taken
<1>2. t \in Seq(Datagram) /\ M!Rtcp \in Datagram /\ u = Append(t, M!Rtcp)
  BY DatagramIs DEF ReceiverInv, Receiver
<1> HIDE DEF t, u
<1>3. EarlyPics(t) \subseteq EarlyPics(u) /\ (AliasedOf(t) => AliasedOf(u))
  BY <1>2, EarlyStays
<1>4. /\ (\A k \in DOMAIN t : t[k] = M!Rtcp) => \A k \in DOMAIN u : u[k] = M!Rtcp
      /\ \A p \in M!Packet : LatestOf(t, p) => LatestOf(u, p)
  BY <1>2, RtcpUnseen
<1>5. AliasedOf(t) \/ AllFull(assembler.units, EarlyPics(t))
  BY DEF PicturesInv, t
<1>6. AliasedOf(u) \/ AllFull(assembler.units, EarlyPics(u))
  BY <1>3, <1>5, Grows
<1>7. CASE assembler.last = M!Unset /\ Untouched(assembler, t)
  <2>1. Untouched(assembler, u)
    BY <1>4, <1>7 DEF Untouched
  <2> QED BY <1>1, <1>6, <1>7, <2>1 DEF PicturesInv, t, u
<1>8. CASE \E p \in M!Packet : InPicture(assembler, t, p)
  <2>1. PICK p \in M!Packet : InPicture(assembler, t, p)
    BY <1>8
  <2>2. InPicture(assembler, u, p)
    BY <1>3, <1>4, <2>1, Grows DEF InPicture
  <2> QED BY <1>1, <1>6, <2>2 DEF PicturesInv, t, u
<1> QED BY <1>7, <1>8 DEF PicturesInv, t

\* What is kept of a picture whose packets were all seen, with packet i.
LEMMA PicturesPush ==
    ASSUME PicturesInv, ReceiverInv, NEW i \in M!Packet, NEW u, u = Append(receiver.taken, i),
           ~AliasedOf(u), ~assembler.corrupt, ~M!Gap(M!Sequence(i))
    PROVE  Kept(assembler.parts \o NalOf(i), FuAfter(i), ActiveAfter(i), i, EarlyPics(u))
<1> DEFINE t == receiver.taken
<1>1. t \in Seq(Datagram) /\ i \in Datagram /\ u = Append(t, i) /\ assembler \in Assembler
  BY DatagramIs DEF ReceiverInv, Receiver, PicturesInv
<1>2. assembler.parts \in Seq(M!Packet) /\ assembler.fu \in Seq(M!Packet) /\ assembler.active \in BOOLEAN
  BY <1>1 DEF Assembler
<1>3. FuOf(M!Sequence(i)) = assembler.fu /\ ActiveOf(M!Sequence(i)) = assembler.active
  BY <1>2 DEF FuOf, ActiveOf
<1>4. ASSUME assembler.parts = <<>>, ~assembler.active, FirstOf(i, EarlyPics(u))
      PROVE  Kept(assembler.parts \o NalOf(i), FuAfter(i), ActiveAfter(i), i, EarlyPics(u))
  <2>1. NalOf(i) \in Seq(M!Packet)
    BY <1>1, PushTypes
  <2>2. assembler.parts \o NalOf(i) = NalOf(i)
    BY <1>4, <2>1, ConcatEmptySeq
  <2>3. Kept(NalOf(i), FuAfter(i), ActiveAfter(i), i, EarlyPics(u))
    BY <1>2, <1>3, <1>4, Fresh DEF NalOf, FuAfter, ActiveAfter
  <2> QED BY <2>2, <2>3
<1> HIDE DEF t
<1>5. CASE assembler.last = M!Unset /\ Untouched(assembler, t)
  <2>1. Pic(i) \in EarlyPics(u)
    BY <1>1, <1>5, RtpSeen DEF Untouched
  <2> QED BY <1>4, <1>5, <2>1 DEF Untouched, FirstOf
<1>6. CASE \E p \in M!Packet : InPicture(assembler, t, p)
  <2>1. PICK p \in M!Packet : InPicture(assembler, t, p)
    BY <1>6
  <2>2. AdjacentOf(u, p, i)
    BY <1>1, <2>1, RtpSeen DEF InPicture
  <2>3. M!IsNext(M!Sequence(p), M!Sequence(i))
    <3>1. assembler.last = M!Sequence(p) /\ M!Sequence(p) # M!Unset
      BY <2>1, Numbers DEF InPicture
    <3> QED BY <3>1 DEF M!Gap
  <2>4. i = p + 1
    BY <2>2, <2>3 DEF AliasedOf
  <2>5. EarlyPics(t) \subseteq EarlyPics(u) /\ ~AliasedOf(t)
    BY <1>1, EarlyStays
  <2>6. UpTo(assembler, p, EarlyPics(u))
    BY <2>1, <2>5, Grows DEF InPicture
  <2>7. CASE Marked(p)
    <3>1. assembler.parts = <<>> /\ ~assembler.active
      <4>1. ~Fragment(p)
        BY <2>7, Pictures
      <4> QED BY <2>6, <2>7, <4>1 DEF UpTo
    <3>2. \A j \in 1..(i - 1) : Pic(j) # Pic(i)
      <4>1. p \in Nat /\ i \in Nat /\ p <= Len(RtpPackets) /\ Len(RtpPackets) \in Nat /\ i - 1 = p /\ M!Packet = 1..Len(RtpPackets)
        BY <2>4, Pictures DEF M!Packet
      <4>2. ASSUME NEW j \in 1..(i - 1)
            PROVE  Pic(j) # Pic(i)
        <5>1. j \in M!Packet /\ j <= p /\ p + 1 \in M!Packet
          BY <2>4, <4>1
        <5>2. Pic(j) < Pic(p + 1)
          BY <2>7, <5>1, AfterMarked
        <5>3. Pic(j) \in Nat
          BY <5>1, Pictures
        <5> QED BY <2>4, <5>2, <5>3
      <4> QED BY <4>2
    <3> QED BY <1>4, <3>1, <3>2 DEF FirstOf
  <2>8. CASE ~Marked(p)
    <3>1. Kept(assembler.parts, assembler.fu, assembler.active, p, EarlyPics(u))
      BY <2>6, <2>8 DEF UpTo
    <3> QED BY <1>2, <1>3, <2>4, <2>8, <3>1, GoesOn2 DEF NalOf, FuAfter, ActiveAfter
  <2> QED BY <2>7, <2>8
<1> QED BY <1>5, <1>6 DEF PicturesInv, t

\* After packet i, without which nothing can be told of a picture that a gap made incomplete.
LEMMA PicturesActive ==
    ASSUME PicturesInv, ReceiverInv, NEW i \in M!Packet, NEW u, u = Append(receiver.taken, i), ~AliasedOf(u)
    PROVE  ActiveAfter(i) => Fragment(i)
<1> DEFINE t == receiver.taken
<1>1. t \in Seq(Datagram) /\ i \in Datagram /\ u = Append(t, i) /\ assembler \in Assembler
  BY DatagramIs DEF ReceiverInv, Receiver, PicturesInv
<1>2. ASSUME ActiveOf(M!Sequence(i))
      PROVE  RtpPackets[i].form \in {"middle", "end"}
  <2> HIDE DEF t
  <2>1. assembler.active /\ ~M!Gap(M!Sequence(i))
    BY <1>2 DEF ActiveOf
  <2>2. PICK p \in M!Packet : InPicture(assembler, t, p)
    BY <2>1 DEF PicturesInv, Untouched, t
  <2>3. AdjacentOf(u, p, i)
    BY <1>1, <2>2, RtpSeen DEF InPicture
  <2>4. M!IsNext(M!Sequence(p), M!Sequence(i))
    <3>1. assembler.last = M!Sequence(p) /\ M!Sequence(p) # M!Unset
      BY <2>2, Numbers DEF InPicture
    <3> QED BY <2>1, <3>1 DEF M!Gap
  <2>5. i = p + 1
    BY <2>3, <2>4 DEF AliasedOf
  <2>6. ~AliasedOf(t)
    BY <1>1, EarlyStays
  <2>7. Fragment(p)
    BY <2>1, <2>2, <2>6 DEF InPicture, UpTo
  <2> QED BY <2>5, <2>7, Pictures
<1> QED BY <1>1, <1>2, PushTypes

LEMMA PicturesPacket ==
    ASSUME PicturesInv, ReceiverInv, NEW i \in M!Packet, receiver'.taken = Append(receiver.taken, i), M!Consumes(i)
    PROVE  PicturesInv'
<1> DEFINE t == receiver.taken  u == receiver'.taken  parts == assembler.parts \o NalOf(i)
<1>1. t \in Seq(Datagram) /\ i \in Datagram /\ u = Append(t, i) /\ assembler \in Assembler
  BY DatagramIs DEF ReceiverInv, Receiver, PicturesInv
<1>2. assembler' = M!Pushed(i)
  <2>1. i # M!Rtcp
    BY PacketIs
  <2> QED BY <2>1 DEF M!Consumes
<1>3. /\ assembler' \in Assembler
      /\ assembler'.last = M!Sequence(i) /\ assembler'.fu = FuAfter(i) /\ assembler'.active = ActiveAfter(i)
      /\ ~Marked(i) => /\ assembler'.parts = parts /\ assembler'.units = assembler.units
                       /\ assembler'.corrupt = (assembler.corrupt \/ M!Gap(M!Sequence(i)))
      /\ Marked(i) => /\ assembler'.parts = <<>> /\ ~assembler'.corrupt
                      /\ \/ assembler'.units = assembler.units
                         \/ /\ ~assembler.corrupt /\ ~M!Gap(M!Sequence(i)) /\ parts # <<>>
                            /\ \E key \in BOOLEAN : assembler'.units = Append(assembler.units, [parts |-> parts, key |-> key])
  BY <1>1, <1>2, PushedIs
<1>4. LatestOf(u, i) /\ EarlyPics(t) \subseteq EarlyPics(u) /\ (AliasedOf(t) => AliasedOf(u))
  BY <1>1, RtpSeen, EarlyStays
<1>5. CASE AliasedOf(u)
  BY <1>3, <1>4, <1>5 DEF PicturesInv, InPicture
<1>6. CASE ~AliasedOf(u)
  <2>1. ActiveAfter(i) => Fragment(i)
    BY <1>1, <1>6, PicturesActive
  <2>2. ~assembler.corrupt /\ ~M!Gap(M!Sequence(i)) => Kept(parts, FuAfter(i), ActiveAfter(i), i, EarlyPics(u))
    BY <1>1, <1>6, PicturesPush
  <2>3. AllFull(assembler.units, EarlyPics(u))
    BY <1>4, <1>6, Grows DEF PicturesInv
  <2>4. parts \in Seq(M!Packet) /\ ActiveAfter(i) \in BOOLEAN
    BY <1>1, PushTypes, ConcatProperties DEF Assembler
  <2> HIDE DEF u, t, parts
  <2>5. UpTo(assembler', i, EarlyPics(u))
    BY <1>3, <2>1, <2>2 DEF UpTo
  <2>6. AllFull(assembler'.units, EarlyPics(u))
    <3>1. CASE assembler'.units = assembler.units
      BY <2>3, <3>1
    <3>2. CASE assembler'.units # assembler.units
      <4>1. Marked(i) /\ ~assembler.corrupt /\ ~M!Gap(M!Sequence(i)) /\ parts # <<>>
        BY <1>3, <3>2
      <4>2. PICK key \in BOOLEAN : assembler'.units = Append(assembler.units, [parts |-> parts, key |-> key])
        BY <1>3, <3>2
      <4>3. FullOf(parts, EarlyPics(u))
        BY <2>2, <2>4, <4>1, Completes
      <4>4. assembler.units \in Seq(Unit) /\ [parts |-> parts, key |-> key] \in Unit
        BY <1>1, <2>4 DEF Assembler, Unit
      <4>5. /\ Len(assembler.units) \in Nat /\ Len(assembler'.units) = Len(assembler.units) + 1
            /\ assembler'.units[Len(assembler.units) + 1] = [parts |-> parts, key |-> key]
            /\ \A n \in 1..Len(assembler.units) : assembler'.units[n] = assembler.units[n]
        BY <4>2, <4>4
      <4>6. \A n \in 1..(Len(assembler.units) + 1) : n = Len(assembler.units) + 1 \/ n \in 1..Len(assembler.units)
        BY <4>5
      <4> QED BY <2>3, <4>3, <4>5, <4>6 DEF AllFull
    <3> QED BY <3>1, <3>2
  <2> QED BY <1>3, <1>4, <2>5, <2>6 DEF PicturesInv, InPicture, u
<1> QED BY <1>5, <1>6

\* "Access units missing any packet are dropped rather than delivered".
LEMMA PicturesHold ==
    ASSUME PicturesInv
    PROVE  M!UnitsWhole
<1> DEFINE t == receiver.taken
<1>1. \A i : M!Earliest(i) <=> EarliestOf(t, i)
  BY DEF M!Earliest, EarliestOf
<1>2. \A i, j : M!Adjacent(i, j) <=> AdjacentOf(t, i, j)
  BY DEF M!Adjacent, AdjacentOf
<1>3. AliasedOf(t) => M!Aliased
  BY <1>2 DEF AliasedOf, M!Aliased
<1>4. ASSUME NEW parts, FullOf(parts, EarlyPics(t))
      PROVE  M!Whole(parts)
  <2>1. \/ \A j \in 1..(parts[1] - 1) : Pic(j) # Pic(parts[1])
        \/ \E e \in M!Packet : M!Earliest(e) /\ Pic(e) = Pic(parts[1])
    BY <1>1, <1>4 DEF FullOf, FirstOf, EarlyPics
  <2> QED BY <1>4, <2>1 DEF FullOf, M!Whole, Pic
<1> QED BY <1>3, <1>4 DEF PicturesInv, AllFull, M!UnitsWhole

\* Whatever does not consume a datagram leaves the pictures as they were.
LEMMA PicturesSame ==
    ASSUME PicturesInv, assembler' = assembler, receiver'.taken = receiver.taken
    PROVE  PicturesInv'
  BY DEF PicturesInv, Untouched, InPicture

LEMMA MediaStep ==
    ASSUME ReceiverInv, PicturesInv, M!MediaNext
    PROVE  ReceiverInv' /\ PicturesInv'
<1>1. ASSUME NEW d \in Datagram, M!Arrives(d)
      PROVE  ReceiverInv' /\ PicturesInv'
  <2>1. assembler' = assembler
    BY <1>1 DEF M!Arrives
  <2>2. ReceiverInv' /\ receiver'.taken = receiver.taken
    BY <1>1, ReceiverArrives
  <2> QED BY <2>1, <2>2, PicturesSame
<1>2. CASE M!Takes \/ M!Resumes
  <2>1. PICK d \in Datagram : receiver'.taken = Append(receiver.taken, d) /\ M!Consumes(d)
    BY <1>2, ReceiverTakes
  <2>2. ASSUME d = M!Rtcp PROVE PicturesInv'
    <3>1. receiver'.taken = Append(receiver.taken, M!Rtcp) /\ M!Consumes(M!Rtcp)
      BY <2>1, <2>2
    <3> QED BY <3>1, PicturesRtcp
  <2>3. ASSUME d # M!Rtcp PROVE PicturesInv'
    <3>1. d \in M!Packet
      BY <2>3, DatagramIs
    <3> QED BY <2>1, <3>1, PicturesPacket
  <2>4. PicturesInv'
    BY <2>2, <2>3
  <2> QED BY <1>2, <2>4, ReceiverTakes
<1>3. CASE \/ M!DeviceSends \/ M!Iterates \/ M!Waits \/ M!Aborts \/ M!SocketFails \/ M!Stops \/ M!IntervalEnds
           \/ \E i \in M!Packet : M!Copied(i)
  <2>1. assembler' = assembler
    BY <1>3 DEF M!DeviceSends, M!Iterates, M!Waits, M!Aborts, M!SocketFails, M!Stops, M!IntervalEnds, M!Copied
  <2>2. ReceiverInv' /\ receiver'.taken = receiver.taken
    BY <1>3, ReceiverElse
  <2> QED BY <2>1, <2>2, PicturesSame
<1>4. CASE M!RtcpArrives \/ \E i \in M!Packet : M!MediaArrives(i)
  BY <1>1, <1>4, DatagramIs DEF M!RtcpArrives, M!MediaArrives
<1> QED BY <1>2, <1>3, <1>4 DEF M!MediaNext

-----------------------------------------------------------------------------
(* ZipConduit: the writes that the socket holds are, as the buffers are now, what comes *)
(* after what the kernel has taken; and no buffer is filled while the socket holds it.   *)
Last(s) == s[Len(s)]
Items == Q!Items
Zipped == [kind : {"block", "stored", "made"}, size : Nat, central : Nat, local : Nat]
Writing == [item : DOMAIN Items, n : 0..ZipBuffer, upto : Nat]
Buffers == [DOMAIN Items -> [1..ZipBuffer -> Nat]]
Place == Nat \X Nat

\* A sequence with another before it and one after it.
LEMMA Between ==
    ASSUME NEW S, NEW a \in Seq(S), NEW b \in Seq(S), NEW c \in Seq(S), NEW s, s = (a \o b) \o c
    PROVE  /\ s \in Seq(S) /\ Len(s) = Len(a) + Len(b) + Len(c) /\ Len(a) \in Nat /\ Len(b) \in Nat /\ Len(c) \in Nat
           /\ DOMAIN s = 1..Len(s)
           /\ \A i \in 1..Len(s) : \/ i \in 1..Len(a) /\ s[i] = a[i]
                                   \/ i - Len(a) \in 1..Len(b) /\ s[i] = b[i - Len(a)]
                                   \/ i - Len(a) - Len(b) \in 1..Len(c) /\ s[i] = c[i - Len(a) - Len(b)]
<1> DEFINE m == a \o b
<1>1. /\ m \in Seq(S) /\ Len(m) = Len(a) + Len(b) /\ Len(a) \in Nat /\ Len(b) \in Nat /\ Len(c) \in Nat
      /\ \A i \in 1..Len(m) : i <= Len(a) => m[i] = a[i]
      /\ \A i \in 1..Len(m) : i > Len(a) => m[i] = b[i - Len(a)]
  OBVIOUS
<1> HIDE DEF m
<1>2. /\ s \in Seq(S) /\ Len(s) = Len(m) + Len(c) /\ DOMAIN s = 1..Len(s)
      /\ \A i \in 1..Len(s) : i <= Len(m) => s[i] = m[i]
      /\ \A i \in 1..Len(s) : i > Len(m) => s[i] = c[i - Len(m)]
  BY <1>1 DEF m
<1>3. ASSUME NEW i \in 1..Len(s)
      PROVE  \/ i \in 1..Len(a) /\ s[i] = a[i]
             \/ i - Len(a) \in 1..Len(b) /\ s[i] = b[i - Len(a)]
             \/ i - Len(a) - Len(b) \in 1..Len(c) /\ s[i] = c[i - Len(a) - Len(b)]
  <2>1. CASE i <= Len(a)
    BY <1>1, <1>2, <2>1
  <2>2. CASE i > Len(a) /\ i <= Len(m)
    BY <1>1, <1>2, <2>2
  <2>3. CASE i > Len(m)
    <3>1. i - Len(m) = i - Len(a) - Len(b)
      BY <1>1
    <3> QED BY <1>1, <1>2, <2>3, <3>1
  <2> QED BY <1>1, <1>2, <2>1, <2>2, <2>3
<1> QED BY <1>1, <1>2, <1>3

LEMMA ItemsAre ==
    /\ Items \in Seq(Zipped) /\ Len(Items) \in Nat /\ DOMAIN Items = 1..Len(Items) /\ Len(Items) >= 3
    /\ \A i \in DOMAIN Items : Items[i] \in Zipped /\ (Items[i].kind = "block" => Items[i].size = 0)
<1> DEFINE prologue == <<Q!Block, Q!Block, Q!MetaInf>>
           marker == <<Q!Block>>
<1>1. Q!Block \in Zipped /\ Q!MetaInf \in Zipped /\ Q!Block.size = 0 /\ Q!MetaInf.kind = "made"
  BY DEF Zipped, Q!Block, Q!MetaInf
<1>2. ZipEntries \in Seq(Zipped)
  <2> DEFINE S == [kind : {"block", "stored"}, size : Nat, central : Nat, local : Nat]
  <2>1. S \subseteq Zipped
    BY DEF Zipped
  <2>2. ZipEntries \in Seq(S)
    BY ArchiveAssumption
  <2> HIDE DEF S
  <2>3. ZipEntries = [i \in 1..Len(ZipEntries) |-> ZipEntries[i]] /\ Len(ZipEntries) \in Nat /\ \A i \in 1..Len(ZipEntries) : ZipEntries[i] \in S
    BY <2>2
  <2>4. \A i \in 1..Len(ZipEntries) : ZipEntries[i] \in Zipped
    BY <2>1, <2>3
  <2> QED BY <2>3, <2>4, IsASeq
<1> HIDE DEF Zipped
<1>10. Len(prologue) = 3 /\ Len(marker) = 1
  OBVIOUS
<1>3. prologue \in Seq(Zipped) /\ marker \in Seq(Zipped)
  BY <1>1
<1>4. \A i \in 1..3 : prologue[i].kind = "block" => prologue[i].size = 0
  <2>1. prologue[1] = Q!Block /\ prologue[2] = Q!Block /\ prologue[3] = Q!MetaInf
    OBVIOUS
  <2> QED BY <1>1, <2>1
<1>5. Items = (prologue \o ZipEntries) \o marker
  BY DEF Items, Q!Items
<1> HIDE DEF prologue, marker
<1>6. /\ Items \in Seq(Zipped) /\ Len(Items) = Len(prologue) + Len(ZipEntries) + Len(marker) /\ Len(ZipEntries) \in Nat
      /\ DOMAIN Items = 1..Len(Items)
      /\ \A i \in 1..Len(Items) : \/ i \in 1..Len(prologue) /\ Items[i] = prologue[i]
                                  \/ i - Len(prologue) \in 1..Len(ZipEntries) /\ Items[i] = ZipEntries[i - Len(prologue)]
                                  \/ /\ i - Len(prologue) - Len(ZipEntries) \in 1..Len(marker)
                                     /\ Items[i] = marker[i - Len(prologue) - Len(ZipEntries)]
  BY <1>2, <1>3, <1>5, Between
<1>7. Len(Items) \in Nat /\ Len(Items) >= 3 /\ \A i \in DOMAIN Items : Items[i] \in Zipped
  BY <1>10, <1>6
<1>8. marker[1] = Q!Block
  BY DEF marker
<1>9. \A i \in DOMAIN Items : Items[i].kind = "block" => Items[i].size = 0
  <2> SUFFICES ASSUME NEW i \in DOMAIN Items, Items[i].kind = "block"
               PROVE  Items[i].size = 0
    OBVIOUS
  <2>1. CASE i \in 1..Len(prologue) /\ Items[i] = prologue[i]
    BY <1>4, <1>10, <2>1
  <2>2. CASE i - Len(prologue) \in 1..Len(ZipEntries) /\ Items[i] = ZipEntries[i - Len(prologue)]
    BY <2>2, ArchiveAssumption
  <2>3. CASE /\ i - Len(prologue) - Len(ZipEntries) \in 1..Len(marker)
             /\ Items[i] = marker[i - Len(prologue) - Len(ZipEntries)]
    <3>1. Items[i] = marker[1]
      BY <1>6, <1>10, <2>3
    <3> QED BY <1>1, <1>8, <3>1
  <2> QED BY <1>6, <2>1, <2>2, <2>3
<1> QED BY <1>6, <1>7, <1>9

\* The first and the last unit of a write, as the buffers b are, and whether it is one piece of a payload.
Lo(w, b) == IF w.n = 0 THEN <<w.item, 0>> ELSE <<w.item, b[w.item][1]>>
Hi(w, b) == IF w.n = 0 THEN <<w.item, 0>> ELSE <<w.item, b[w.item][w.n]>>
Running(c, n) == \A k \in 1..n : c[k] = c[1] + (k - 1)
Sound(w, b) == w.n = 0 \/ /\ Running(b[w.item], w.n)
                          /\ b[w.item][1] >= 1 /\ b[w.item][w.n] <= Items[w.item].size
UnitsOf(w, b) == IF w.n = 0 THEN <<<<w.item, 0>>>> ELSE [k \in 1..w.n |-> <<w.item, b[w.item][k]>>]

\* Units that follow each other, from the first header on.
InOrder(wire) ==
    /\ wire # <<>> => wire[1] = <<1, 0>>
    /\ \A k \in 1..Len(wire) : wire[k][1] \in DOMAIN Items
    /\ \A k \in 1..(Len(wire) - 1) : wire[k + 1] = Q!Following(wire[k])
\* Writes that do, and that follow what was taken.
Lined(q, b) ==
    /\ \A k \in 1..Len(q) : Sound(q[k], b)
    /\ \A k \in 1..(Len(q) - 1) : Lo(q[k + 1], b) = Q!Following(Hi(q[k], b))
Joined(wire, q, b) == q # <<>> => Lo(q[1], b) = IF wire = <<>> THEN <<1, 0>> ELSE Q!Following(Last(wire))

LEMMA FollowingIs ==
    ASSUME NEW i, NEW y
    PROVE  Q!Following(<<i, y>>) = IF y < Items[i].size THEN <<i, y + 1>> ELSE <<i + 1, 0>>
  BY DEF Q!Following, Items

LEMMA Pairs ==
    ASSUME NEW n \in Nat, NEW i, NEW c, NEW S, \A k \in 1..n : <<i, c[k]>> \in S
    PROVE  /\ [k \in 1..n |-> <<i, c[k]>>] \in Seq(S)
           /\ Len([k \in 1..n |-> <<i, c[k]>>]) = n
           /\ \A k \in 1..n : [m \in 1..n |-> <<i, c[m]>>][k] = <<i, c[k]>>
  OBVIOUS

\* A piece of a payload is in order.
LEMMA PieceInOrder ==
    ASSUME NEW i \in DOMAIN Items, NEW n \in Nat, n # 0, NEW c, Running(c, n), c[1] \in Nat,
           c[n] <= Items[i].size, NEW u, \A k \in 1..n : u[k] = <<i, c[k]>>
    PROVE  /\ u[1] = <<i, c[1]>> /\ u[n] = <<i, c[n]>>
           /\ \A k \in 1..n : u[k][1] \in DOMAIN Items /\ <<i, c[k]>> \in Place
           /\ \A k \in 1..(n - 1) : u[k + 1] = Q!Following(u[k])
<1>1. i \in Nat /\ Items[i].size \in Nat
  BY ItemsAre DEF Zipped
<1>2. \A k \in 1..n : c[k] \in Nat /\ c[k] = c[1] + (k - 1)
  BY DEF Running
<1>3. \A k \in 1..n : <<i, c[k]>> \in Place /\ <<i, c[k]>>[1] = i
  BY <1>1, <1>2 DEF Place
<1>5. 1 \in 1..n /\ n \in 1..n
  OBVIOUS
<1>6. ASSUME NEW k \in 1..(n - 1)
      PROVE  u[k + 1] = Q!Following(u[k])
  <2>1. k \in 1..n /\ k + 1 \in 1..n /\ k \in Nat /\ k < n
    OBVIOUS
  <2>2. c[k] = c[1] + (k - 1) /\ c[k + 1] = c[1] + ((k + 1) - 1) /\ c[n] = c[1] + (n - 1) /\ c[k] \in Nat
    BY <1>2, <1>5, <2>1
  <2>3. c[k + 1] = c[k] + 1 /\ c[k] < Items[i].size
    BY <1>1, <2>1, <2>2
  <2>4. u[k] = <<i, c[k]>> /\ u[k + 1] = <<i, c[k + 1]>>
    BY <2>1
  <2> QED BY <2>3, <2>4, FollowingIs
<1> QED BY <1>3, <1>5, <1>6

LEMMA UnitsTyped ==
    ASSUME NEW w \in Writing, NEW b \in Buffers
    PROVE  UnitsOf(w, b) \in Seq(Place)
<1>1. w.item \in DOMAIN Items /\ w.item \in Nat /\ w.n \in 0..ZipBuffer /\ w.n \in Nat /\ b[w.item] \in [1..ZipBuffer -> Nat]
  BY ItemsAre, ArchiveAssumption DEF Writing, Buffers
<1>2. CASE w.n = 0
  <2>1. <<w.item, 0>> \in Place
    BY <1>1 DEF Place
  <2> DEFINE x == <<w.item, 0>>
  <2> HIDE DEF x
  <2>2. x \in Place /\ UnitsOf(w, b) = <<x>>
    BY <1>2, <2>1 DEF UnitsOf, x
  <2> QED BY <2>2
<1>3. CASE w.n # 0
  <2>1. \A k \in 1..w.n : <<w.item, b[w.item][k]>> \in Place
    <3>1. \A k \in 1..w.n : k \in 1..ZipBuffer
      BY <1>1, ArchiveAssumption
    <3> QED BY <1>1, <3>1 DEF Place
  <2> DEFINE n == w.n  c == b[w.item]  i == w.item
  <2>2. n \in Nat /\ UnitsOf(w, b) = [k \in 1..n |-> <<i, c[k]>>] /\ \A k \in 1..n : <<i, c[k]>> \in Place
    BY <1>1, <1>3, <2>1 DEF UnitsOf
  <2> HIDE DEF n, c, i
  <2> QED BY <2>2, Pairs
<1> QED BY <1>2, <1>3

\* The units of a write are in order, from its first to its last.
LEMMA UnitsInOrder ==
    ASSUME NEW w \in Writing, NEW b \in Buffers, Sound(w, b)
    PROVE  /\ UnitsOf(w, b) \in Seq(Place) /\ UnitsOf(w, b) # <<>> /\ Len(UnitsOf(w, b)) \in Nat /\ Len(UnitsOf(w, b)) >= 1
           /\ UnitsOf(w, b)[1] = Lo(w, b) /\ Last(UnitsOf(w, b)) = Hi(w, b)
           /\ \A k \in 1..Len(UnitsOf(w, b)) : UnitsOf(w, b)[k][1] \in DOMAIN Items
           /\ \A k \in 1..(Len(UnitsOf(w, b)) - 1) : UnitsOf(w, b)[k + 1] = Q!Following(UnitsOf(w, b)[k])
<1> DEFINE u == UnitsOf(w, b)  i == w.item
<1>1. i \in DOMAIN Items /\ i \in Nat /\ w.n \in 0..ZipBuffer /\ w.n \in Nat /\ ZipBuffer \in Nat /\ ZipBuffer > 0 /\ b[i] \in [1..ZipBuffer -> Nat]
  BY ItemsAre, ArchiveAssumption DEF Writing, Buffers
<1>2. CASE w.n = 0
  <2> DEFINE x == <<i, 0>>
  <2>1. u = <<x>> /\ x \in Place /\ x[1] = i
    BY <1>1, <1>2 DEF UnitsOf, Place
  <2>2. Lo(w, b) = x /\ Hi(w, b) = x
    BY <1>2 DEF Lo, Hi
  <2> HIDE DEF u, x
  <2>3. u \in Seq(Place) /\ Len(u) = 1 /\ u[1] = x
    BY <2>1
  <2>4. u # <<>> /\ Last(u) = x
    BY <2>3 DEF Last
  <2> QED BY <1>1, <2>1, <2>2, <2>3, <2>4 DEF u
<1>3. CASE w.n # 0
  <2> DEFINE n == w.n  c == b[i]
  <2>1. u = [k \in 1..n |-> <<i, c[k]>>]
    BY <1>3 DEF UnitsOf
  <2>2. c[1] \in Nat
    BY <1>1
  <2>3. Running(c, n)
    BY <1>3 DEF Sound
  <2>11. c[n] <= Items[i].size
    BY <1>3 DEF Sound
  <2>4. n \in Nat /\ n # 0 /\ i \in DOMAIN Items
    BY <1>1, <1>3
  <2>5. Lo(w, b) = <<i, c[1]>> /\ Hi(w, b) = <<i, c[n]>>
    BY <1>3 DEF Lo, Hi
  <2> HIDE DEF u, n, c, i
  <2>9. \A k \in 1..n : u[k] = <<i, c[k]>>
    BY <2>1
  <2>10. /\ u[1] = <<i, c[1]>> /\ u[n] = <<i, c[n]>>
         /\ \A k \in 1..n : u[k][1] \in DOMAIN Items /\ <<i, c[k]>> \in Place
         /\ \A k \in 1..(n - 1) : u[k + 1] = Q!Following(u[k])
    BY <2>2, <2>3, <2>4, <2>9, <2>11, PieceInOrder
  <2>6. u \in Seq(Place) /\ Len(u) = n
    BY <2>1, <2>4, <2>10, Pairs
  <2>7. u # <<>> /\ n >= 1
    BY <2>4, <2>6
  <2>8. Last(u) = Hi(w, b)
    BY <2>5, <2>6, <2>10 DEF Last
  <2> QED BY <2>4, <2>5, <2>6, <2>7, <2>8, <2>10 DEF u
<1> QED BY <1>2, <1>3

\* One more write that follows the last one.
LEMMA Lengthens ==
    ASSUME NEW q \in Seq(Writing), NEW b \in Buffers, NEW w \in Writing, Lined(q, b), Sound(w, b), NEW wire \in Seq(Place),
           Joined(wire, q, b),
           Lo(w, b) = IF q # <<>> THEN Q!Following(Hi(Last(q), b)) ELSE IF wire # <<>> THEN Q!Following(Last(wire)) ELSE <<1, 0>>
    PROVE  Lined(Append(q, w), b) /\ Joined(wire, Append(q, w), b)
<1> DEFINE r == Append(q, w)
<1>1. /\ Len(q) \in Nat /\ r \in Seq(Writing) /\ Len(r) = Len(q) + 1 /\ r[Len(q) + 1] = w /\ \A k \in 1..Len(q) : r[k] = q[k]
      /\ (q = <<>> <=> Len(q) = 0)
  BY EmptySeq
<1> HIDE DEF r
<1>2. \A k \in 1..Len(r) : Sound(r[k], b)
  <2>1. \A k \in 1..Len(r) : k \in 1..Len(q) \/ k = Len(q) + 1
    BY <1>1
  <2> QED BY <1>1, <2>1 DEF Lined
<1>3. ASSUME NEW k \in 1..(Len(r) - 1)
      PROVE  Lo(r[k + 1], b) = Q!Following(Hi(r[k], b))
  <2>1. CASE k = Len(q)
    <3>1. q # <<>> /\ r[k] = Last(q) /\ r[k + 1] = w
      BY <1>1, <2>1 DEF Last
    <3> QED BY <3>1
  <2>2. CASE k # Len(q)
    <3>1. k \in 1..(Len(q) - 1) /\ r[k] = q[k] /\ r[k + 1] = q[k + 1]
      BY <1>1, <2>2
    <3> QED BY <3>1 DEF Lined
  <2> QED BY <2>1, <2>2
<1>4. Joined(wire, r, b)
  <2>1. CASE q = <<>>
    <3>1. r[1] = w
      BY <1>1, <2>1
    <3> QED BY <2>1, <3>1 DEF Joined
  <2>2. CASE q # <<>>
    <3>1. r[1] = q[1]
      BY <1>1, <2>2
    <3> QED BY <2>2, <3>1 DEF Joined
  <2> QED BY <2>1, <2>2
<1> QED BY <1>2, <1>3, <1>4 DEF Lined, r

\* The first write is taken.
LEMMA Taken ==
    ASSUME NEW q \in Seq(Writing), NEW b \in Buffers, Lined(q, b), NEW wire \in Seq(Place), InOrder(wire), Joined(wire, q, b),
           q # <<>>, NEW u, u = wire \o UnitsOf(Head(q), b)
    PROVE  u \in Seq(Place) /\ u # <<>> /\ InOrder(u) /\ Lined(Tail(q), b) /\ Joined(u, Tail(q), b) /\ Last(u) = Hi(Head(q), b)
<1> DEFINE w == Head(q)  v == UnitsOf(w, b)
<1>1. w \in Writing /\ w = q[1] /\ Len(q) \in Nat /\ Len(q) >= 1
  BY HeadTailProperties, EmptySeq
<1>2. Tail(q) \in Seq(Writing) /\ Len(Tail(q)) = Len(q) - 1 /\ \A k \in 1..Len(Tail(q)) : Tail(q)[k] = q[k + 1]
  BY HeadTailProperties
<1>3. Sound(w, b)
  BY <1>1 DEF Lined
<1> HIDE DEF w
<1>4. /\ v \in Seq(Place) /\ v # <<>> /\ Len(v) \in Nat /\ Len(v) >= 1 /\ v[1] = Lo(w, b) /\ Last(v) = Hi(w, b)
      /\ \A k \in 1..Len(v) : v[k][1] \in DOMAIN Items
      /\ \A k \in 1..(Len(v) - 1) : v[k + 1] = Q!Following(v[k])
  BY <1>1, <1>3, UnitsInOrder
<1> HIDE DEF v
<1>5. /\ u \in Seq(Place) /\ Len(u) = Len(wire) + Len(v) /\ Len(wire) \in Nat
      /\ \A k \in 1..Len(u) : k <= Len(wire) => u[k] = wire[k]
      /\ \A k \in 1..Len(u) : k > Len(wire) => u[k] = v[k - Len(wire)]
  BY <1>4 DEF v, w
<1>6. u # <<>> /\ Last(u) = Hi(w, b)
  <2>1. Len(u) \in 1..Len(u) /\ Len(u) > Len(wire) /\ Len(u) - Len(wire) = Len(v)
    BY <1>4, <1>5
  <2> QED BY <1>4, <1>5, <2>1 DEF Last
<1>7. InOrder(u)
  <2>1. u[1] = <<1, 0>>
    <3>1. CASE wire = <<>>
      <4>1. Len(wire) = 0 /\ 1 \in 1..Len(u) /\ 1 - Len(wire) = 1
        BY <1>4, <1>5, <3>1
      <4> QED BY <1>1, <1>4, <1>5, <3>1, <4>1 DEF Joined
    <3>2. CASE wire # <<>>
      <4>1. 1 <= Len(wire) /\ 1 \in 1..Len(u)
        BY <1>4, <1>5, <3>2, EmptySeq
      <4> QED BY <1>5, <3>2, <4>1 DEF InOrder
    <3> QED BY <3>1, <3>2
  <2>2. ASSUME NEW k \in 1..Len(u)
        PROVE  u[k][1] \in DOMAIN Items
    <3>1. CASE k <= Len(wire)
      BY <1>5, <3>1 DEF InOrder
    <3>2. CASE k > Len(wire)
      <4>1. k - Len(wire) \in 1..Len(v)
        BY <1>4, <1>5, <3>2
      <4> QED BY <1>4, <1>5, <3>2, <4>1
    <3> QED BY <1>5, <3>1, <3>2
  <2>3. ASSUME NEW k \in 1..(Len(u) - 1)
        PROVE  u[k + 1] = Q!Following(u[k])
    <3>1. k \in 1..Len(u) /\ k + 1 \in 1..Len(u) /\ k \in Nat
      BY <1>4, <1>5
    <3>2. CASE k < Len(wire)
      <4>1. k \in 1..(Len(wire) - 1) /\ u[k] = wire[k] /\ u[k + 1] = wire[k + 1]
        BY <1>5, <3>1, <3>2
      <4> QED BY <4>1 DEF InOrder
    <3>3. CASE k = Len(wire)
      <4>1. u[k] = Last(wire) /\ u[k + 1] = v[1] /\ wire # <<>>
        <5>1. (k + 1) - Len(wire) = 1 /\ k + 1 > Len(wire) /\ k <= Len(wire)
          BY <1>5, <3>1, <3>3
        <5> QED BY <1>5, <3>1, <3>3, <5>1 DEF Last
      <4> QED BY <1>1, <1>4, <4>1 DEF Joined
    <3>4. CASE k > Len(wire)
      <4>1. k - Len(wire) \in 1..(Len(v) - 1) /\ (k + 1) - Len(wire) = (k - Len(wire)) + 1
        BY <1>4, <1>5, <3>1, <3>4
      <4>2. u[k] = v[k - Len(wire)] /\ u[k + 1] = v[(k - Len(wire)) + 1]
        BY <1>5, <3>1, <3>4, <4>1
      <4> QED BY <1>4, <4>1, <4>2
    <3> QED BY <1>5, <3>1, <3>2, <3>3, <3>4
  <2> QED BY <2>1, <2>2, <2>3 DEF InOrder
<1>8. Lined(Tail(q), b)
  <2>1. ASSUME NEW k \in 1..Len(Tail(q))
        PROVE  Sound(Tail(q)[k], b)
    <3>1. k + 1 \in 1..Len(q)
      BY <1>1, <1>2
    <3> QED BY <1>2, <3>1 DEF Lined
  <2>2. ASSUME NEW k \in 1..(Len(Tail(q)) - 1)
        PROVE  Lo(Tail(q)[k + 1], b) = Q!Following(Hi(Tail(q)[k], b))
    <3>1. k + 1 \in 1..(Len(q) - 1) /\ Tail(q)[k] = q[k + 1] /\ Tail(q)[k + 1] = q[(k + 1) + 1]
      BY <1>1, <1>2
    <3> QED BY <3>1 DEF Lined
  <2> QED BY <2>1, <2>2 DEF Lined
<1>9. Joined(u, Tail(q), b)
  <2> SUFFICES ASSUME Tail(q) # <<>>
               PROVE  Lo(Tail(q)[1], b) = Q!Following(Last(u))
    BY <1>6 DEF Joined
  <2>1. 1 \in 1..(Len(q) - 1) /\ Tail(q)[1] = q[1 + 1]
    BY <1>1, <1>2, EmptySeq
  <2> QED BY <1>1, <1>6, <2>1 DEF Lined
<1> QED BY <1>5, <1>6, <1>7, <1>8, <1>9 DEF w

\* A buffer that no write refers to changes nothing.
LEMMA Untroubled ==
    ASSUME NEW q \in Seq(Writing), NEW b, NEW c,
           \A k \in 1..Len(q) : q[k].n = 0 \/ c[q[k].item] = b[q[k].item], NEW wire
    PROVE  /\ Lined(q, b) => Lined(q, c)
           /\ Joined(wire, q, b) => Joined(wire, q, c)
           /\ q # <<>> => Hi(Last(q), c) = Hi(Last(q), b)
<1>1. Len(q) \in Nat /\ (q # <<>> => Len(q) >= 1)
  BY EmptySeq
<1>2. \A k \in 1..Len(q) : Lo(q[k], c) = Lo(q[k], b) /\ Hi(q[k], c) = Hi(q[k], b) /\ (Sound(q[k], b) => Sound(q[k], c))
  BY DEF Lo, Hi, Sound
<1>3. Lined(q, b) => Lined(q, c)
  <2> SUFFICES ASSUME Lined(q, b) PROVE Lined(q, c)
    OBVIOUS
  <2>1. \A k \in 1..Len(q) : Sound(q[k], c)
    BY <1>2 DEF Lined
  <2>2. ASSUME NEW k \in 1..(Len(q) - 1)
        PROVE  Lo(q[k + 1], c) = Q!Following(Hi(q[k], c))
    <3>1. k \in 1..Len(q) /\ k + 1 \in 1..Len(q)
      BY <1>1
    <3> QED BY <1>2, <3>1 DEF Lined
  <2> QED BY <2>1, <2>2 DEF Lined
<1>4. Joined(wire, q, b) => Joined(wire, q, c)
  BY <1>1, <1>2 DEF Joined
<1> QED BY <1>1, <1>2, <1>3, <1>4 DEF Last

-----------------------------------------------------------------------------
(* ZipConduit: the inductive invariant.                                              *)
Conduits == [at : {"none", "checkin", "ready", "failed", "sending", "draining", "waiting", "closed"}, has : BOOLEAN, installs : Nat]
Uploads == [item : Nat, at : {"header", "opened", "copy"}, copied : Nat, offset : Nat, buffer : Buffers]
Sockets == [state : {"none", "open", "destroyed"}, queue : Seq(Writing), wire : Seq(Place)]

\* Each write knows how much has been written up to it.
Counted(q) ==
    /\ \A k \in 1..Len(q) : q[k].n <= q[k].upto
    /\ \A k \in 1..Len(q) : \A l \in k..Len(q) : q[k].upto <= q[l].upto
\* The buffer is filled from its start, and never with more than the entry has.
Within(u) ==
    /\ u.at = "copy" => /\ u.item \in DOMAIN Items /\ u.offset <= u.copied /\ u.copied <= Items[u.item].size
                        /\ u.offset <= ZipBuffer
    /\ u.at # "copy" => u.copied = 0 /\ u.offset = 0
UploadTyped ==
    /\ conduit \in Conduits /\ upload \in Uploads /\ outgoing \in Sockets
    /\ Counted(outgoing.queue) /\ Within(upload)
    /\ conduit.at = "none" => conduit.installs = 0
    /\ conduit.installs = 0 => conduit.at \notin {"sending", "draining", "waiting"} /\ outgoing.queue = <<>>

\* x is the last unit written before what is to be uploaded now.
Reached(x, u) == IF u.at = "copy" THEN x = <<u.item, u.copied - u.offset>> ELSE Q!Following(x) = <<u.item, 0>>
Frontier(q, wire, u) ==
    IF q # <<>> THEN Reached(Hi(Last(q), u.buffer), u)
    ELSE IF wire # <<>> THEN Reached(Last(wire), u) ELSE u.item = 1 /\ u.at # "copy"
Filled(u) == u.at = "copy" => \A k \in 1..u.offset : u.buffer[u.item][k] = (u.copied - u.offset) + k

\* No write that is held refers to the buffer that is filled now.
Free(w, u, sending) ==
    /\ w.item <= u.item
    /\ u.at # "copy" => w.item < u.item
    /\ u.at = "copy" /\ sending /\ ~(u.copied = Items[u.item].size /\ u.offset = 0) => w.item < u.item \/ w.n = 0
Apart(q, u, sending) == \A k \in 1..Len(q) : Free(q[k], u, sending)
Chained(o, b) == InOrder(o.wire) /\ Lined(o.queue, b) /\ Joined(o.wire, o.queue, b)
UploadInv ==
    /\ UploadTyped
    /\ conduit.installs = 1 =>
          /\ Chained(outgoing, upload.buffer)
          /\ conduit.at \in {"sending", "draining"} =>
                Frontier(outgoing.queue, outgoing.wire, upload) /\ Filled(upload) /\ Apart(outgoing.queue, upload, conduit.at = "sending")

LEMMA NewUploadIs == Q!NewUpload \in Uploads /\ Q!NewUpload.item = 1 /\ Q!NewUpload.at = "header" /\ Within(Q!NewUpload)
<1> DEFINE blank == [i \in DOMAIN Items |-> [k \in 1..ZipBuffer |-> 0]]
<1>1. blank \in Buffers
  BY DEF Buffers
<1>2. Q!NewUpload = [item |-> 1, at |-> "header", copied |-> 0, offset |-> 0, buffer |-> blank]
  BY DEF Q!NewUpload, Items
<1> HIDE DEF blank
<1> QED BY <1>1, <1>2 DEF Uploads, Within

LEMMA UploadInitInv ==
    ASSUME Q!ZcInit
    PROVE  UploadInv
<1>1. upload \in Uploads /\ Within(upload)
  BY NewUploadIs DEF Q!ZcInit
<1>2. conduit \in Conduits /\ conduit.at = "none" /\ conduit.installs = 0
  BY DEF Q!ZcInit, Conduits
<1>3. <<>> \in Seq(Writing) /\ <<>> \in Seq(Place) /\ Len(<<>>) = 0
  OBVIOUS
<1>4. outgoing \in Sockets /\ outgoing.queue = <<>>
  BY <1>3 DEF Q!ZcInit, Sockets
<1>5. Counted(outgoing.queue)
  BY <1>3, <1>4 DEF Counted
<1> QED BY <1>1, <1>2, <1>4, <1>5 DEF UploadInv, UploadTyped

\* What the socket holds is never less than nothing.
LEMMA Weighs ==
    ASSUME UploadTyped
    PROVE  Q!Queued \in Nat /\ Q!Written \in Nat
<1> DEFINE q == outgoing.queue
<1>1. q \in Seq(Writing) /\ Counted(q)
  BY DEF UploadTyped, Sockets
<1>2. Q!Written = IF q = <<>> THEN 0 ELSE Last(q).upto
  BY DEF Q!Written, Q!Last, Last
<1>3. Q!Queued = IF q = <<>> THEN 0 ELSE Q!Written - (Head(q).upto - Head(q).n)
  BY DEF Q!Queued
<1> HIDE DEF q
<1>4. CASE q = <<>>
  BY <1>2, <1>3, <1>4
<1>5. CASE q # <<>>
  <2>1. Len(q) \in Nat /\ Len(q) >= 1 /\ Head(q) = q[1]
    BY <1>1, <1>5, EmptySeq, HeadTailProperties
  <2>2. 1 \in 1..Len(q) /\ Len(q) \in 1..Len(q)
    BY <2>1
  <2>3. q[1] \in Writing /\ q[Len(q)] \in Writing
    BY <1>1, <2>2
  <2>4. q[1].n <= q[1].upto /\ q[1].upto <= q[Len(q)].upto
    BY <1>1, <2>1, <2>2 DEF Counted
  <2>5. q[1].n \in Nat /\ q[1].upto \in Nat /\ q[Len(q)].upto \in Nat
    BY <2>3, ArchiveAssumption DEF Writing
  <2>6. Q!Written = q[Len(q)].upto
    BY <1>2, <1>5 DEF Last
  <2>7. q[Len(q)].upto - (q[1].upto - q[1].n) \in Nat
    BY <2>4, <2>5
  <2> QED BY <1>3, <1>5, <2>1, <2>5, <2>6, <2>7
<1> QED BY <1>4, <1>5

LEMMA CountedMore ==
    ASSUME NEW q \in Seq(Writing), Counted(q), NEW w \in Writing, w.n <= w.upto, q # <<>> => Last(q).upto <= w.upto
    PROVE  Counted(Append(q, w))
<1> DEFINE r == Append(q, w)
<1>1. /\ Len(q) \in Nat /\ Len(r) = Len(q) + 1 /\ r[Len(q) + 1] = w /\ \A k \in 1..Len(q) : r[k] = q[k]
      /\ (q = <<>> <=> Len(q) = 0)
  BY EmptySeq
<1> HIDE DEF r
<1>2. \A k \in 1..Len(r) : k \in 1..Len(q) \/ k = Len(q) + 1
  BY <1>1
<1>3. \A k \in 1..Len(r) : r[k].n <= r[k].upto
  BY <1>1, <1>2 DEF Counted
<1>4. ASSUME NEW k \in 1..Len(r), NEW l \in k..Len(r)
      PROVE  r[k].upto <= r[l].upto
  <2>1. w.upto \in Nat
    BY DEF Writing
  <2>2. CASE l = Len(q) + 1
    <3>1. CASE k = Len(q) + 1
      BY <1>1, <2>1, <2>2, <3>1
    <3>2. CASE k # Len(q) + 1
      <4>1. k \in 1..Len(q) /\ Len(q) \in k..Len(q) /\ Len(q) \in 1..Len(q) /\ q # <<>>
        BY <1>1, <1>2, <3>2
      <4>2. q[k].upto <= q[Len(q)].upto
        BY <4>1 DEF Counted
      <4>3. q[Len(q)].upto <= w.upto
        BY <4>1 DEF Last
      <4>4. q[k].upto \in Nat /\ q[Len(q)].upto \in Nat
        <5>1. q[k] \in Writing /\ q[Len(q)] \in Writing
          BY <4>1
        <5> QED BY <5>1 DEF Writing
      <4>5. q[k].upto <= w.upto
        BY <2>1, <4>2, <4>3, <4>4
      <4> QED BY <1>1, <2>2, <4>1, <4>5
    <3> QED BY <3>1, <3>2
  <2>3. CASE l # Len(q) + 1
    <3>1. l \in k..Len(q) /\ k \in 1..Len(q) /\ l \in 1..Len(q)
      BY <1>1, <2>3
    <3>2. q[k].upto <= q[l].upto
      BY <3>1 DEF Counted
    <3> QED BY <1>1, <3>1, <3>2
  <2> QED BY <2>2, <2>3
<1> QED BY <1>3, <1>4 DEF Counted, r

LEMMA CountedLess ==
    ASSUME NEW q \in Seq(Writing), Counted(q), q # <<>>
    PROVE  Counted(Tail(q))
<1>1. /\ Len(q) \in Nat /\ Len(q) >= 1 /\ Len(Tail(q)) = Len(q) - 1 /\ \A k \in 1..Len(Tail(q)) : Tail(q)[k] = q[k + 1]
  BY HeadTailProperties, EmptySeq
<1>2. ASSUME NEW k \in 1..Len(Tail(q))
      PROVE  Tail(q)[k].n <= Tail(q)[k].upto
  <2>1. k + 1 \in 1..Len(q)
    BY <1>1
  <2> QED BY <1>1, <2>1 DEF Counted
<1>3. ASSUME NEW k \in 1..Len(Tail(q)), NEW l \in k..Len(Tail(q))
      PROVE  Tail(q)[k].upto <= Tail(q)[l].upto
  <2>1. k + 1 \in 1..Len(q) /\ l + 1 \in (k + 1)..Len(q) /\ l \in 1..Len(Tail(q))
    BY <1>1
  <2> QED BY <1>1, <2>1 DEF Counted
<1> QED BY <1>2, <1>3 DEF Counted

-----------------------------------------------------------------------------
(* ZipConduit: the steps.                                                            *)

\* The steps that touch neither the writes nor the upload.
LEMMA UploadQuiet ==
    ASSUME UploadInv, upload' = upload, conduit' \in Conduits, outgoing' \in Sockets,
           outgoing'.queue = outgoing.queue, outgoing'.wire = outgoing.wire, conduit'.installs = conduit.installs,
           \/ conduit'.at = conduit.at
           \/ conduit'.at \in {"checkin", "ready", "failed", "closed"}
           \/ conduit'.at = "waiting" /\ conduit.at = "sending"
    PROVE  UploadInv'
  BY DEF UploadInv, UploadTyped, Chained

LEMMA UploadQuietSteps ==
    ASSUME UploadInv,
           \/ \E valid \in BOOLEAN : Q!CheckedIn(valid)
           \/ Q!CheckinTimesOut \/ Q!SendFails \/ Q!Uploaded \/ Q!Progress \/ Q!WaitFails \/ Q!Closes \/ Q!ConnectionLost
           \/ \E answer \in {"percent", "complete", "error"} : Q!DeviceReports(answer)
    PROVE  UploadInv'
<1>1. conduit \in Conduits /\ outgoing \in Sockets
  BY DEF UploadInv, UploadTyped
<1>2. CASE \E valid \in BOOLEAN : Q!CheckedIn(valid)
  <2>1. PICK valid \in BOOLEAN : Q!CheckedIn(valid)
    BY <1>2
  <2>2. /\ conduit' = [conduit EXCEPT !.at = IF valid THEN "ready" ELSE "failed", !.has = valid]
        /\ upload' = upload /\ outgoing' = outgoing
    BY <2>1 DEF Q!CheckedIn
  <2>3. conduit' \in Conduits /\ conduit'.installs = conduit.installs /\ conduit'.at \in {"ready", "failed"}
    BY <1>1, <2>2 DEF Conduits
  <2> QED BY <1>1, <2>2, <2>3, UploadQuiet
<1>3. CASE Q!CheckinTimesOut
  <2>1. conduit' = [conduit EXCEPT !.at = "failed"] /\ outgoing' = [outgoing EXCEPT !.state = "destroyed"] /\ upload' = upload
    BY <1>3 DEF Q!CheckinTimesOut
  <2>2. conduit' \in Conduits /\ conduit'.installs = conduit.installs /\ conduit'.at = "failed"
    BY <1>1, <2>1 DEF Conduits
  <2>3. outgoing' \in Sockets /\ outgoing'.queue = outgoing.queue /\ outgoing'.wire = outgoing.wire
    BY <1>1, <2>1 DEF Sockets
  <2> QED BY <2>1, <2>2, <2>3, UploadQuiet
<1>4. CASE Q!SendFails \/ Q!Closes
  <2>1. upload' = upload /\ outgoing' = outgoing
    BY <1>4 DEF Q!SendFails, Q!Closes
  <2>2. conduit' \in Conduits /\ conduit'.installs = conduit.installs /\ conduit'.at \in {"ready", "closed"}
    BY <1>1, <1>4 DEF Q!SendFails, Q!Closes, Conduits
  <2> QED BY <1>1, <2>1, <2>2, UploadQuiet
<1>5. CASE Q!Uploaded
  <2>1. upload' = upload /\ outgoing' = outgoing /\ conduit.at = "sending"
    BY <1>5 DEF Q!Uploaded
  <2>2. conduit' \in Conduits /\ conduit'.installs = conduit.installs /\ conduit'.at = "waiting"
    BY <1>1, <1>5 DEF Q!Uploaded, Conduits
  <2> QED BY <1>1, <2>1, <2>2, UploadQuiet
<1>6. CASE Q!Progress
  <2>1. upload' = upload /\ outgoing' = outgoing /\ conduit' = [conduit EXCEPT !.at = IF Head(installd) = "percent" THEN conduit.at ELSE "ready"]
    BY <1>6 DEF Q!Progress
  <2>2. conduit' \in Conduits /\ conduit'.installs = conduit.installs /\ (conduit'.at = conduit.at \/ conduit'.at = "ready")
    BY <1>1, <2>1 DEF Conduits
  <2> QED BY <1>1, <2>1, <2>2, UploadQuiet
<1>7. CASE Q!WaitFails
  <2>1. /\ upload' = upload /\ conduit' = [conduit EXCEPT !.at = "ready"]
        /\ outgoing' = [outgoing EXCEPT !.state = IF outgoing.state = "open" THEN "destroyed" ELSE outgoing.state]
    BY <1>7 DEF Q!WaitFails
  <2>2. conduit' \in Conduits /\ conduit'.installs = conduit.installs /\ conduit'.at = "ready"
    BY <1>1, <2>1 DEF Conduits
  <2>3. outgoing' \in Sockets /\ outgoing'.queue = outgoing.queue /\ outgoing'.wire = outgoing.wire
    BY <1>1, <2>1 DEF Sockets
  <2> QED BY <2>1, <2>2, <2>3, UploadQuiet
<1>8. CASE Q!ConnectionLost
  <2>1. upload' = upload /\ conduit' = conduit /\ outgoing' = [outgoing EXCEPT !.state = "destroyed"]
    BY <1>8 DEF Q!ConnectionLost
  <2>2. outgoing' \in Sockets /\ outgoing'.queue = outgoing.queue /\ outgoing'.wire = outgoing.wire
    BY <1>1, <2>1 DEF Sockets
  <2> QED BY <1>1, <2>1, <2>2, UploadQuiet
<1>9. CASE \E answer \in {"percent", "complete", "error"} : Q!DeviceReports(answer)
  <2>1. upload' = upload /\ conduit' = conduit /\ outgoing' = outgoing
    BY <1>9 DEF Q!DeviceReports
  <2> QED BY <1>1, <2>1, UploadQuiet
<1> QED BY <1>2, <1>3, <1>4, <1>5, <1>6, <1>7, <1>8, <1>9

LEMMA UploadConnects ==
    ASSUME UploadInv, Q!Connects
    PROVE  UploadInv'
<1>1. /\ conduit \in Conduits /\ conduit.at = "none" /\ conduit.installs = 0
      /\ conduit' = [conduit EXCEPT !.at = "checkin"] /\ upload' = upload
      /\ outgoing' = [state |-> "open", queue |-> <<>>, wire |-> <<>>]
  BY DEF UploadInv, UploadTyped, Q!Connects
<1>2. conduit' \in Conduits /\ conduit'.installs = 0 /\ conduit'.at = "checkin"
  BY <1>1 DEF Conduits
<1>3. <<>> \in Seq(Writing) /\ <<>> \in Seq(Place) /\ Len(<<>>) = 0
  OBVIOUS
<1>4. outgoing' \in Sockets /\ outgoing'.queue = <<>>
  BY <1>1, <1>3 DEF Sockets
<1>5. Counted(outgoing'.queue)
  BY <1>3, <1>4 DEF Counted
<1> QED BY <1>1, <1>2, <1>4, <1>5 DEF UploadInv, UploadTyped

LEMMA UploadInstalls ==
    ASSUME UploadInv, Q!Installs
    PROVE  UploadInv'
<1>1. /\ conduit \in Conduits /\ outgoing \in Sockets /\ Counted(outgoing.queue)
      /\ conduit' = [conduit EXCEPT !.at = "sending", !.installs = conduit.installs + 1]
      /\ upload' = Q!NewUpload /\ outgoing' = [outgoing EXCEPT !.wire = <<>>]
      /\ conduit.installs = 0 => outgoing.queue = <<>>
  BY DEF UploadInv, UploadTyped, Q!Installs
<1>2. conduit' \in Conduits /\ conduit'.installs = conduit.installs + 1 /\ conduit'.at = "sending" /\ conduit.installs \in Nat
  <2>1. conduit.installs \in Nat /\ conduit.installs + 1 \in Nat
    BY <1>1 DEF Conduits
  <2> QED BY <1>1, <2>1 DEF Conduits
<1>3. <<>> \in Seq(Place) /\ Len(<<>>) = 0
  OBVIOUS
<1>4. outgoing' \in Sockets /\ outgoing'.queue = outgoing.queue /\ outgoing'.wire = <<>>
  BY <1>1, <1>3 DEF Sockets
<1>5. upload' \in Uploads /\ Within(upload') /\ upload'.item = 1 /\ upload'.at = "header"
  BY <1>1, NewUploadIs
<1>6. UploadTyped'
  BY <1>1, <1>2, <1>4, <1>5 DEF UploadTyped
<1>7. conduit'.installs = 1 => Chained(outgoing', upload'.buffer) /\ Frontier(outgoing'.queue, outgoing'.wire, upload')
  <2> SUFFICES ASSUME conduit'.installs = 1
               PROVE  Chained(outgoing', upload'.buffer) /\ Frontier(outgoing'.queue, outgoing'.wire, upload')
    OBVIOUS
  <2>1. outgoing'.queue = <<>>
    BY <1>1, <1>2, <1>4
  <2> QED BY <1>3, <1>4, <1>5, <2>1 DEF Chained, InOrder, Lined, Joined, Frontier
<1>8. Filled(upload')
  BY <1>5 DEF Filled
<1>9. conduit'.installs = 1 => Apart(outgoing'.queue, upload', conduit'.at = "sending")
  BY <1>1, <1>2, <1>3, <1>4 DEF Apart
<1> QED BY <1>6, <1>7, <1>8, <1>9 DEF UploadInv

LEMMA UploadOpens ==
    ASSUME UploadInv, Q!OpensEntry
    PROVE  UploadInv'
<1>1. /\ upload \in Uploads /\ Within(upload) /\ upload.at = "header" /\ upload' = [upload EXCEPT !.at = "opened"]
      /\ conduit' = conduit /\ outgoing' = outgoing
  BY DEF UploadInv, UploadTyped, Q!OpensEntry
<1>2. /\ upload' \in Uploads /\ upload'.at = "opened" /\ upload'.item = upload.item /\ upload'.buffer = upload.buffer
      /\ upload'.copied = upload.copied /\ upload'.offset = upload.offset
  BY <1>1 DEF Uploads
<1>3. \A w, s : Free(w, upload, s) => Free(w, upload', s)
  BY <1>1, <1>2 DEF Free
<1>4. \A q, s : Apart(q, upload, s) => Apart(q, upload', s)
  BY <1>3 DEF Apart
<1>5. \A q, wire : Frontier(q, wire, upload) => Frontier(q, wire, upload')
  BY <1>1, <1>2 DEF Frontier, Reached
<1>6. Within(upload') /\ Filled(upload')
  BY <1>1, <1>2 DEF Within, Filled
<1> QED BY <1>1, <1>2, <1>4, <1>5, <1>6 DEF UploadInv, UploadTyped

\* A write is the last of those that the socket holds; one that fills it is waited for.
LEMMA Writes ==
    ASSUME UploadInv, NEW n \in 0..ZipBuffer, upload.item \in DOMAIN Items, conduit.at = "sending", Q!Write(upload.item, n)
    PROVE  \E w \in Writing :
              /\ w.item = upload.item /\ w.n = n
              /\ outgoing' \in Sockets /\ outgoing'.queue = Append(outgoing.queue, w) /\ outgoing'.wire = outgoing.wire
              /\ Counted(Append(outgoing.queue, w))
              /\ conduit' \in Conduits /\ conduit'.installs = conduit.installs /\ conduit.installs # 0
              /\ conduit'.at \in {"sending", "draining"} /\ (n >= ZipBuffer => conduit'.at = "draining")
<1> DEFINE w == [item |-> upload.item, n |-> n, upto |-> Q!Written + n]
<1>1. /\ outgoing' = [outgoing EXCEPT !.queue = Append(outgoing.queue, [item |-> upload.item, n |-> n, upto |-> Q!Written + n])]
      /\ conduit' = [conduit EXCEPT !.at = IF Q!Full(n) THEN "draining" ELSE "sending"]
  BY DEF Q!Write
<1>2. conduit \in Conduits /\ outgoing \in Sockets /\ Counted(outgoing.queue) /\ conduit.installs # 0
  BY DEF UploadInv, UploadTyped
<1>3. Q!Queued \in Nat /\ Q!Written \in Nat /\ ZipBuffer \in Nat /\ n \in Nat /\ SocketHighWater \in Nat
  BY Weighs, ArchiveAssumption DEF UploadInv
<1>4. w \in Writing /\ w.item = upload.item /\ w.n = n /\ w.upto = Q!Written + n
  BY <1>3 DEF Writing
<1>5. outgoing' = [outgoing EXCEPT !.queue = Append(outgoing.queue, w)]
  BY <1>1
<1> HIDE DEF w
<1>6. outgoing.queue \in Seq(Writing) /\ Append(outgoing.queue, w) \in Seq(Writing)
  BY <1>2, <1>4 DEF Sockets
<1>7. outgoing' \in Sockets /\ outgoing'.queue = Append(outgoing.queue, w) /\ outgoing'.wire = outgoing.wire
  BY <1>2, <1>5, <1>6 DEF Sockets
<1>8. Counted(Append(outgoing.queue, w))
  <2>1. w.n <= w.upto
    BY <1>3, <1>4
  <2>2. outgoing.queue # <<>> => Last(outgoing.queue).upto <= w.upto
    <3>1. outgoing.queue # <<>> => Q!Written = Last(outgoing.queue).upto
      BY DEF Q!Written, Q!Last, Last
    <3>2. Q!Written <= w.upto
      BY <1>3, <1>4
    <3> QED BY <3>1, <3>2
  <2> QED BY <1>2, <1>4, <1>6, <2>1, <2>2, CountedMore
<1>9. /\ conduit' \in Conduits /\ conduit'.installs = conduit.installs /\ conduit'.at \in {"sending", "draining"}
      /\ n >= ZipBuffer => conduit'.at = "draining"
  <2>1. n >= ZipBuffer => Q!Full(n)
    BY <1>3, ArchiveAssumption DEF Q!Full
  <2> QED BY <1>1, <1>2, <2>1 DEF Conduits
<1> QED BY <1>2, <1>4, <1>7, <1>8, <1>9

-----------------------------------------------------------------------------
(* ZipConduit: what is written.                                                      *)

\* One more write, and where the upload is after it.
LEMMA AfterWrite ==
    ASSUME UploadInv, conduit.at = "sending", NEW w \in Writing, Sound(w, upload.buffer),
           upload.at = "copy" => Lo(w, upload.buffer) = Q!Following(<<upload.item, upload.copied - upload.offset>>),
           upload.at # "copy" => Lo(w, upload.buffer) = <<upload.item, 0>>,
           outgoing' \in Sockets, outgoing'.queue = Append(outgoing.queue, w), outgoing'.wire = outgoing.wire,
           Counted(Append(outgoing.queue, w)),
           conduit' \in Conduits, conduit'.installs = conduit.installs, conduit.installs # 0,
           conduit'.at \in {"sending", "draining"},
           upload' \in Uploads, Within(upload'), upload'.buffer = upload.buffer, upload'.offset = 0,
           Reached(Hi(w, upload.buffer), upload'),
           conduit.installs = 1 => Free(w, upload', conduit'.at = "sending"),
           conduit.installs = 1 =>
              \A v \in Writing : Free(v, upload, TRUE) => Free(v, upload', conduit'.at = "sending")
    PROVE  UploadInv'
<1> DEFINE q == outgoing.queue  r == Append(q, w)  b == upload.buffer  wire == outgoing.wire
<1>1. /\ q \in Seq(Writing) /\ wire \in Seq(Place) /\ b \in Buffers
  BY DEF UploadInv, UploadTyped, Sockets, Uploads
<1>2. UploadTyped'
  BY DEF UploadTyped
<1>3. Filled(upload')
  BY DEF Filled
<1>4. /\ Len(q) \in Nat /\ Len(r) = Len(q) + 1 /\ r[Len(q) + 1] = w /\ r # <<>>
      /\ \A k \in 1..Len(q) : r[k] = q[k]
  <2> HIDE DEF q
  <2>1. q \in Seq(Writing)
    BY <1>1 DEF q
  <2>2. r \in Seq(Writing) /\ Len(q) \in Nat /\ Len(r) = Len(q) + 1 /\ r[Len(q) + 1] = w /\ \A k \in 1..Len(q) : r[k] = q[k]
    BY <2>1
  <2>3. r # <<>>
    BY <2>2, EmptySeq
  <2> QED BY <2>2, <2>3 DEF q
<1> SUFFICES ASSUME conduit.installs = 1
             PROVE  /\ Chained(outgoing', upload'.buffer) /\ Frontier(outgoing'.queue, outgoing'.wire, upload')
                    /\ Apart(outgoing'.queue, upload', conduit'.at = "sending")
  BY <1>2, <1>3 DEF UploadInv
<1>5. /\ InOrder(wire) /\ Lined(q, b) /\ Joined(wire, q, b)
      /\ Frontier(q, wire, upload) /\ Apart(q, upload, TRUE)
  <2>1. (conduit.at = "sending") = TRUE
    OBVIOUS
  <2> QED BY <2>1 DEF UploadInv, Chained
<1>6. Lo(w, b) = IF q # <<>> THEN Q!Following(Hi(Last(q), b)) ELSE IF wire # <<>> THEN Q!Following(Last(wire)) ELSE <<1, 0>>
  <2>1. CASE q # <<>>
    BY <1>5, <2>1 DEF Frontier, Reached
  <2>2. CASE q = <<>> /\ wire # <<>>
    BY <1>5, <2>2 DEF Frontier, Reached
  <2>3. CASE q = <<>> /\ wire = <<>>
    BY <1>5, <2>3 DEF Frontier
  <2> QED BY <2>1, <2>2, <2>3
<1>7. Lined(r, b) /\ Joined(wire, r, b)
  <2> HIDE DEF b, q, wire
  <2>1. Sound(w, b)
    BY DEF b
  <2> QED BY <1>1, <1>5, <1>6, <2>1, Lengthens
<1>8. Frontier(r, wire, upload')
  <2>1. Last(r) = w
    BY <1>4 DEF Last
  <2> HIDE DEF r
  <2> QED BY <1>4, <2>1 DEF Frontier
<1>9. Apart(r, upload', conduit'.at = "sending")
  <2> DEFINE s == conduit'.at = "sending"
  <2>1. \A v \in Writing : Free(v, upload, TRUE) => Free(v, upload', s)
    OBVIOUS
  <2>2. Free(w, upload', s)
    OBVIOUS
  <2> HIDE DEF s, r
  <2>3. ASSUME NEW k \in 1..Len(r)
        PROVE  Free(r[k], upload', s)
    <3>1. k \in 1..Len(q) \/ k = Len(q) + 1
      BY <1>4
    <3>2. k \in 1..Len(q) => q[k] \in Writing /\ Free(q[k], upload, TRUE)
      <4>1. q \in Seq(Writing) /\ Apart(q, upload, TRUE)
        BY <1>1, <1>5
      <4> HIDE DEF q
      <4>2. k \in 1..Len(q) => q[k] \in Writing
        BY <4>1
      <4>3. k \in 1..Len(q) => Free(q[k], upload, TRUE)
        BY <4>1 DEF Apart
      <4> QED BY <4>2, <4>3
    <3> QED BY <1>4, <2>1, <2>2, <3>1, <3>2
  <2>4. Apart(r, upload', s)
    BY <2>3 DEF Apart
  <2> QED BY <2>4 DEF s
<1> QED BY <1>5, <1>7, <1>8, <1>9 DEF Chained

LEMMA UploadWritesHeader ==
    ASSUME UploadInv, Q!WritesHeader
    PROVE  UploadInv'
<1> DEFINE i == upload.item  b == upload.buffer
<1>1. /\ i \in DOMAIN Items /\ i \in Nat /\ Items[i] \in Zipped /\ (Items[i].kind = "block" => Items[i].size = 0)
      /\ conduit.at = "sending" /\ upload.at # "copy" /\ 0 \in 0..ZipBuffer
      /\ Q!Write(i, 0) /\ upload \in Uploads /\ Within(upload)
      /\ upload' = (IF Items[i].kind # "block" THEN [upload EXCEPT !.at = "copy"] ELSE Q!NextItem(upload))
  <2>1. i \in DOMAIN Items
    BY DEF Q!WritesHeader, Q!Sending, Items
  <2> QED BY <2>1, ItemsAre, ArchiveAssumption DEF Q!WritesHeader, Q!Sending, Q!IsFile, Q!Item, Items, UploadInv, UploadTyped
<1>2. PICK w \in Writing :
         /\ w.item = i /\ w.n = 0
         /\ outgoing' \in Sockets /\ outgoing'.queue = Append(outgoing.queue, w) /\ outgoing'.wire = outgoing.wire
         /\ Counted(Append(outgoing.queue, w))
         /\ conduit' \in Conduits /\ conduit'.installs = conduit.installs /\ conduit.installs # 0
         /\ conduit'.at \in {"sending", "draining"}
  BY <1>1, Writes
<1>3. Sound(w, b) /\ Lo(w, b) = <<i, 0>> /\ Hi(w, b) = <<i, 0>>
  BY <1>2 DEF Sound, Lo, Hi
<1>4. upload.copied = 0 /\ upload.offset = 0
  BY <1>1 DEF Within
<1>5. CASE Items[i].kind # "block"
  <2>1. /\ upload' \in Uploads /\ upload'.at = "copy" /\ upload'.item = i /\ upload'.copied = 0 /\ upload'.offset = 0
        /\ upload'.buffer = b
    BY <1>1, <1>4, <1>5 DEF Uploads
  <2>2. Within(upload') /\ Reached(Hi(w, b), upload')
    BY <1>1, <1>3, <2>1, ArchiveAssumption DEF Within, Reached, Zipped
  <2>3. \A s : Free(w, upload', s)
    BY <1>1, <1>2, <2>1 DEF Free
  <2>4. \A v, s : Free(v, upload, TRUE) => Free(v, upload', s)
    BY <1>1, <2>1 DEF Free
  <2> QED BY <1>1, <1>2, <1>3, <2>1, <2>2, <2>3, <2>4, AfterWrite
<1>6. CASE Items[i].kind = "block"
  <2>1. /\ upload' \in Uploads /\ upload'.at = "header" /\ upload'.item = i + 1 /\ upload'.copied = 0 /\ upload'.offset = 0
        /\ upload'.buffer = b
    <3>1. upload' = [upload EXCEPT !.item = i + 1, !.at = "header", !.copied = 0, !.offset = 0]
      BY <1>1, <1>6 DEF Q!NextItem
    <3>2. i + 1 \in Nat /\ upload \in Uploads
      BY <1>1
    <3> HIDE DEF i, b
    <3>3. /\ upload' \in Uploads /\ upload'.at = "header" /\ upload'.item = i + 1 /\ upload'.copied = 0 /\ upload'.offset = 0
          /\ upload'.buffer = upload.buffer
      BY <3>1, <3>2 DEF Uploads
    <3> QED BY <3>3 DEF b
  <2>2. Within(upload') /\ Reached(Hi(w, b), upload')
    <3>1. Q!Following(<<i, 0>>) = <<i + 1, 0>>
      <4>1. Items[i].size = 0 /\ ~(0 < Items[i].size)
        BY <1>1, <1>6
      <4> HIDE DEF i
      <4> QED BY <4>1, FollowingIs
    <3> QED BY <1>3, <2>1, <3>1 DEF Within, Reached
  <2>3. \A s : Free(w, upload', s)
    BY <1>1, <1>2, <2>1 DEF Free
  <2>4. \A v \in Writing : \A s : Free(v, upload, TRUE) => Free(v, upload', s)
    <3>1. \A v \in Writing : v.item \in Nat
      BY ItemsAre DEF Writing
    <3> QED BY <1>1, <2>1, <3>1 DEF Free
  <2> QED BY <1>1, <1>2, <1>3, <2>1, <2>2, <2>3, <2>4, AfterWrite
<1> QED BY <1>5, <1>6

LEMMA UploadWritesBuffer ==
    ASSUME UploadInv, Q!WritesBuffer
    PROVE  UploadInv'
<1> DEFINE i == upload.item  b == upload.buffer  n == upload.offset  c == upload.copied
<1>1. /\ i \in DOMAIN Items /\ i \in Nat /\ Items[i] \in Zipped /\ Items[i].size \in Nat
      /\ conduit.at = "sending" /\ upload.at = "copy" /\ n \in 0..ZipBuffer /\ n \in Nat /\ c \in Nat /\ n # 0
      /\ n = ZipBuffer \/ c = Items[i].size
      /\ n <= c /\ c <= Items[i].size
      /\ Q!Write(i, n) /\ upload \in Uploads
      /\ upload' = [upload EXCEPT !.offset = 0] /\ ZipBuffer \in Nat
  <2>1. i \in DOMAIN Items /\ upload.at = "copy" /\ upload \in Uploads /\ Within(upload)
    BY DEF Q!WritesBuffer, Q!Sending, Items, UploadInv, UploadTyped
  <2>2. n \in Nat /\ c \in Nat /\ Items[i].size \in Nat /\ Items[i] \in Zipped
    BY <2>1, ItemsAre DEF Uploads, Zipped
  <2>3. n <= c /\ c <= Items[i].size /\ n <= ZipBuffer
    BY <2>1 DEF Within
  <2>4. ZipBuffer \in Nat /\ ZipBuffer > 0
    BY ArchiveAssumption
  <2>5. (n = ZipBuffer \/ (c = Items[i].size /\ n > 0)) /\ Q!Write(i, n) /\ upload' = [upload EXCEPT !.offset = 0] /\ conduit.at = "sending"
    BY DEF Q!WritesBuffer, Q!Sending, Q!Item, Items
  <2> QED BY <2>1, <2>2, <2>3, <2>4, <2>5, ItemsAre
<1>2. PICK w \in Writing :
         /\ w.item = i /\ w.n = n
         /\ outgoing' \in Sockets /\ outgoing'.queue = Append(outgoing.queue, w) /\ outgoing'.wire = outgoing.wire
         /\ Counted(Append(outgoing.queue, w))
         /\ conduit' \in Conduits /\ conduit'.installs = conduit.installs /\ conduit.installs # 0
         /\ conduit'.at \in {"sending", "draining"} /\ (n >= ZipBuffer => conduit'.at = "draining")
  BY <1>1, Writes
<1>3. /\ upload' \in Uploads /\ upload'.at = "copy" /\ upload'.item = i /\ upload'.copied = c /\ upload'.offset = 0
      /\ upload'.buffer = b
  BY <1>1 DEF Uploads
<1>4. CASE conduit.installs = 1
  <2>1. \A k \in 1..n : b[i][k] = (c - n) + k
    BY <1>1, <1>4 DEF UploadInv, Filled
  <2>2. 1 \in 1..n /\ n \in 1..n
    BY <1>1
  <2>3. b[i][1] = (c - n) + 1 /\ b[i][n] = (c - n) + n
    BY <2>1, <2>2
  <2>4. Running(b[i], n)
    <3>1. \A k \in 1..n : (c - n) + k = ((c - n) + 1) + (k - 1)
      BY <1>1
    <3> QED BY <2>1, <2>3, <3>1 DEF Running
  <2>5. (c - n) + n = c /\ (c - n) + 1 >= 1 /\ c - n < Items[i].size
    BY <1>1
  <2>6. Sound(w, b)
    BY <1>1, <1>2, <2>3, <2>4, <2>5 DEF Sound
  <2>7. Lo(w, b) = Q!Following(<<i, c - n>>)
    BY <1>1, <1>2, <2>3, <2>5, FollowingIs DEF Lo
  <2>8. Hi(w, b) = <<i, c>>
    BY <1>1, <1>2, <2>3, <2>5 DEF Hi
  <2>9. Within(upload')
    BY <1>1, <1>3 DEF Within
  <2>10. Reached(Hi(w, b), upload')
    <3>1. c - 0 = c
      BY <1>1
    <3> QED BY <1>3, <2>8, <3>1 DEF Reached
  <2>11. conduit'.at = "sending" => c = Items[i].size
    BY <1>1, <1>2
  <2>12. Free(w, upload', conduit'.at = "sending")
    BY <1>1, <1>2, <1>3, <2>11 DEF Free
  <2>13. \A v : Free(v, upload, TRUE) => Free(v, upload', conduit'.at = "sending")
    BY <1>1, <1>3, <2>11 DEF Free
  <2> QED BY <1>1, <1>2, <1>3, <2>6, <2>7, <2>9, <2>10, <2>12, <2>13, AfterWrite
<1>5. CASE conduit.installs # 1
  <2>1. Within(upload')
    BY <1>1, <1>3 DEF Within
  <2>2. UploadTyped'
    BY <1>2, <1>3, <2>1 DEF UploadTyped
  <2> QED BY <1>2, <1>5, <2>2 DEF UploadInv
<1> QED BY <1>4, <1>5

LEMMA UploadEndsFile ==
    ASSUME UploadInv, Q!EndsFile
    PROVE  UploadInv'
<1> DEFINE i == upload.item  q == outgoing.queue  wire == outgoing.wire
<1>1. /\ upload \in Uploads /\ Within(upload) /\ i \in DOMAIN Items /\ i \in Nat /\ Items[i].size \in Nat
      /\ conduit.at = "sending" /\ upload.at = "copy" /\ upload.copied = Items[i].size /\ upload.offset = 0
      /\ conduit' = conduit /\ outgoing' = outgoing
      /\ upload' = [upload EXCEPT !.item = upload.item + 1, !.at = "header", !.copied = 0, !.offset = 0]
  <2>1. i \in DOMAIN Items /\ upload \in Uploads /\ Within(upload)
    BY DEF Q!EndsFile, Q!Sending, Items, UploadInv, UploadTyped
  <2>2. i \in Nat /\ Items[i].size \in Nat
    BY <2>1, ItemsAre DEF Zipped
  <2> QED BY <2>1, <2>2 DEF Q!EndsFile, Q!Sending, Q!Item, Q!NextItem, Items
<1>2. /\ upload' \in Uploads /\ upload'.at = "header" /\ upload'.item = i + 1 /\ upload'.copied = 0 /\ upload'.offset = 0
      /\ upload'.buffer = upload.buffer
  <2>1. upload.item + 1 \in Nat
    BY <1>1
  <2> QED BY <1>1, <2>1 DEF Uploads
<1>3. Within(upload') /\ Filled(upload')
  BY <1>2 DEF Within, Filled
<1>4. UploadTyped'
  BY <1>1, <1>2, <1>3 DEF UploadInv, UploadTyped
<1> SUFFICES ASSUME conduit.installs = 1
             PROVE  Frontier(q, wire, upload') /\ Apart(q, upload', TRUE)
  BY <1>1, <1>2, <1>3, <1>4 DEF UploadInv
<1>5. Frontier(q, wire, upload) /\ Apart(q, upload, TRUE) /\ q \in Seq(Writing)
  BY <1>1 DEF UploadInv, UploadTyped, Sockets
<1>6. \A x : Reached(x, upload) => Reached(x, upload')
  <2>1. Q!Following(<<i, upload.copied - upload.offset>>) = <<i + 1, 0>>
    <3> DEFINE y == upload.copied - upload.offset
    <3>1. y = Items[i].size /\ ~(y < Items[i].size)
      BY <1>1
    <3> HIDE DEF i, y
    <3>2. Q!Following(<<i, y>>) = <<i + 1, 0>>
      BY <3>1, FollowingIs
    <3> QED BY <3>2 DEF y
  <2> QED BY <1>1, <1>2, <2>1 DEF Reached
<1>7. Frontier(q, wire, upload')
  BY <1>1, <1>2, <1>5, <1>6 DEF Frontier
<1>8. ASSUME NEW k \in 1..Len(q)
      PROVE  Free(q[k], upload', TRUE)
  <2>1. Free(q[k], upload, TRUE)
    BY <1>5 DEF Apart
  <2>2. q[k].item \in Nat
    <3>1. q[k] \in Writing
      BY <1>5
    <3> QED BY <3>1, ItemsAre DEF Writing
  <2> QED BY <1>1, <1>2, <2>1, <2>2 DEF Free
<1> QED BY <1>7, <1>8 DEF Apart

LEMMA UploadCopies ==
    ASSUME UploadInv, NEW n \in 1..ZipRead, Q!Copies(n)
    PROVE  UploadInv'
<1> DEFINE i == upload.item  q == outgoing.queue  wire == outgoing.wire  b == upload.buffer  o == upload.offset
           c == upload.copied
           filled == [k \in 1..ZipBuffer |-> IF k \in (o + 1)..(o + n) THEN c + (k - o) + (Items[i].local - Items[i].local)
                                              ELSE b[i][k]]
           d == [b EXCEPT ![i] = filled]
<1>1. /\ upload \in Uploads /\ i \in DOMAIN Items /\ i \in Nat /\ Items[i].size \in Nat /\ Items[i].local \in Nat
      /\ c \in Nat /\ o \in Nat /\ n \in Nat /\ n >= 1 /\ ZipBuffer \in Nat /\ o <= c
      /\ n <= Items[i].size - c /\ n <= ZipBuffer - o
      /\ conduit.at = "sending" /\ upload.at = "copy"
      /\ conduit' = conduit /\ outgoing' = outgoing /\ b \in Buffers /\ q \in Seq(Writing)
  <2>1. i \in DOMAIN Items /\ upload \in Uploads /\ Within(upload) /\ upload.at = "copy" /\ q \in Seq(Writing)
    BY DEF Q!Copies, Q!Sending, Items, UploadInv, UploadTyped, Sockets
  <2>2. i \in Nat /\ Items[i].size \in Nat /\ Items[i].local \in Nat
    BY <2>1, ItemsAre DEF Zipped
  <2>3. c \in Nat /\ o \in Nat /\ o <= c /\ b \in Buffers
    BY <2>1 DEF Uploads, Within
  <2>4. n \in Nat /\ n >= 1 /\ ZipBuffer \in Nat
    BY ArchiveAssumption
  <2>5. /\ n <= Items[i].size - c /\ n <= ZipBuffer - o /\ conduit.at = "sending" /\ conduit' = conduit /\ outgoing' = outgoing
    BY DEF Q!Copies, Q!Sending, Q!Item, Items
  <2> QED BY <2>1, <2>2, <2>3, <2>4, <2>5
<1>2. upload' = [upload EXCEPT !.copied = c + n, !.offset = o + n, !.buffer = d]
  BY DEF Q!Copies, Q!Item, Q!DataOffset, Items
<1>3. filled \in [1..ZipBuffer -> Nat] /\ \A k \in 1..(o + n) : k > o => filled[k] = c + (k - o)
  <2>1. Items[i].local - Items[i].local = 0
    BY <1>1
  <2>2. b[i] \in [1..ZipBuffer -> Nat]
    BY <1>1 DEF Buffers
  <2> DEFINE z == Items[i].local - Items[i].local
  <2>3. filled = [k \in 1..ZipBuffer |-> IF k \in (o + 1)..(o + n) THEN c + (k - o) + z ELSE b[i][k]]
    OBVIOUS
  <2> HIDE DEF filled, z, b, c, o, i
  <2>4. z = 0
    BY <2>1 DEF z
  <2> QED BY <1>1, <2>2, <2>3, <2>4
<1>4. \A k \in 1..o : filled[k] = b[i][k]
  BY <1>1
<1> HIDE DEF filled
<1>5. d \in Buffers /\ d[i] = filled /\ \A j \in DOMAIN Items : j # i => d[j] = b[j]
  BY <1>1, <1>3 DEF Buffers
<1> HIDE DEF d
<1>6. /\ upload' \in Uploads /\ upload'.at = "copy" /\ upload'.item = i /\ upload'.copied = c + n /\ upload'.offset = o + n
      /\ upload'.buffer = d
  <2>1. c + n \in Nat /\ o + n \in Nat
    BY <1>1
  <2> HIDE DEF c, o
  <2>2. upload' \in Uploads /\ upload'.at = upload.at /\ upload'.item = upload.item /\ upload'.copied = c + n /\ upload'.offset = o + n
        /\ upload'.buffer = d
    BY <1>1, <1>2, <1>5, <2>1 DEF Uploads
  <2> QED BY <1>1, <2>2
<1>7. Within(upload')
  <2>1. o + n <= c + n /\ c + n <= Items[i].size /\ o + n <= ZipBuffer
    BY <1>1
  <2> QED BY <1>1, <1>6, <2>1 DEF Within
<1>8. UploadTyped'
  BY <1>1, <1>6, <1>7 DEF UploadInv, UploadTyped
<1> SUFFICES ASSUME conduit.installs = 1
             PROVE  /\ Lined(q, d) /\ Joined(wire, q, d) /\ Frontier(q, wire, upload') /\ Filled(upload')
                    /\ Apart(q, upload', TRUE)
  <2>1. conduit.installs = 1 => InOrder(wire)
    BY DEF UploadInv, Chained
  <2> QED BY <1>1, <1>6, <1>8, <2>1 DEF UploadInv, Chained
<1>9. Lined(q, b) /\ Joined(wire, q, b) /\ Frontier(q, wire, upload) /\ Filled(upload) /\ Apart(q, upload, TRUE)
  BY <1>1 DEF UploadInv, Chained
<1>10. ASSUME NEW k \in 1..Len(q)
       PROVE  /\ q[k].n = 0 \/ d[q[k].item] = b[q[k].item]
              /\ Free(q[k], upload', TRUE)
  <2>1. Free(q[k], upload, TRUE)
    BY <1>9 DEF Apart
  <2>2. q[k].item \in Nat /\ q[k].item \in DOMAIN Items
    <3>1. q[k] \in Writing
      BY <1>1
    <3> QED BY <3>1, ItemsAre DEF Writing
  <2>3. upload.copied # Items[upload.item].size
    BY <1>1
  <2>4. q[k].item < i \/ q[k].n = 0
    BY <1>1, <2>1, <2>3 DEF Free
  <2>5. q[k].item <= i
    BY <2>1 DEF Free
  <2>6. q[k].n = 0 \/ d[q[k].item] = b[q[k].item]
    BY <1>1, <1>5, <2>2, <2>4
  <2>7. Free(q[k], upload', TRUE)
    BY <1>6, <2>4, <2>5 DEF Free
  <2> QED BY <2>6, <2>7
<1>11. Apart(q, upload', TRUE)
  BY <1>10 DEF Apart
<1>12. /\ Lined(q, d) /\ Joined(wire, q, d)
       /\ q # <<>> => Hi(Last(q), d) = Hi(Last(q), b)
  <2>1. \A k \in 1..Len(q) : q[k].n = 0 \/ d[q[k].item] = b[q[k].item]
    BY <1>10
  <2> HIDE DEF q, b, wire
  <2> QED BY <1>1, <1>9, <2>1, Untroubled
<1>13. Frontier(q, wire, upload')
  <2>1. (c + n) - (o + n) = c - o
    BY <1>1
  <2>2. \A x : Reached(x, upload) => Reached(x, upload')
    BY <1>1, <1>6, <2>1 DEF Reached
  <2>3. CASE q # <<>>
    BY <1>6, <1>9, <1>12, <2>2, <2>3 DEF Frontier
  <2>4. CASE q = <<>>
    BY <1>1, <1>9, <2>2, <2>4 DEF Frontier
  <2> QED BY <2>3, <2>4
<1>14. Filled(upload')
  <2>1. \A k \in 1..o : b[i][k] = (c - o) + k
    BY <1>1, <1>9 DEF Filled
  <2>2. ASSUME NEW k \in 1..(o + n)
        PROVE  d[i][k] = ((c + n) - (o + n)) + k
    <3>1. ((c + n) - (o + n)) + k = (c - o) + k /\ k \in Nat
      BY <1>1
    <3>2. CASE k > o
      <4>1. filled[k] = c + (k - o) /\ c + (k - o) = (c - o) + k
        BY <1>1, <1>3, <3>1, <3>2
      <4> QED BY <1>5, <3>1, <4>1
    <3>3. CASE ~(k > o)
      <4>1. k \in 1..o
        BY <1>1, <3>3
      <4> QED BY <1>4, <1>5, <2>1, <3>1, <4>1
    <3> QED BY <3>2, <3>3
  <2> QED BY <1>6, <2>2 DEF Filled
<1> QED BY <1>11, <1>12, <1>13, <1>14

LEMMA UploadFlushes ==
    ASSUME UploadInv, Q!Flushes
    PROVE  UploadInv'
<1> DEFINE q == outgoing.queue  wire == outgoing.wire  b == upload.buffer  w == Head(q)  u == wire \o UnitsOf(w, b)
<1>1. /\ conduit \in Conduits /\ outgoing \in Sockets /\ upload \in Uploads /\ upload' = upload
      /\ q \in Seq(Writing) /\ wire \in Seq(Place) /\ b \in Buffers /\ q # <<>> /\ Counted(q)
      /\ outgoing' = [outgoing EXCEPT !.queue = Tail(q), !.wire = u]
      /\ conduit' = [conduit EXCEPT !.at = IF conduit.at = "draining" /\ Len(q) = 1 THEN "sending" ELSE conduit.at]
  BY DEF UploadInv, UploadTyped, Sockets, Uploads, Q!Flushes, Q!Units, UnitsOf
<1> HIDE DEF u
<1>2. /\ Len(q) \in Nat /\ Len(q) >= 1 /\ w = q[1] /\ w \in Writing
      /\ Tail(q) \in Seq(Writing) /\ Len(Tail(q)) = Len(q) - 1 /\ \A k \in 1..Len(Tail(q)) : Tail(q)[k] = q[k + 1]
  BY <1>1, HeadTailProperties, EmptySeq
<1>3. u \in Seq(Place)
  BY <1>1, <1>2, UnitsTyped, ConcatProperties DEF u
<1>4. outgoing' \in Sockets /\ outgoing'.queue = Tail(q) /\ outgoing'.wire = u
  <2> HIDE DEF q
  <2> QED BY <1>1, <1>2, <1>3 DEF Sockets
<1>5. /\ conduit' \in Conduits /\ conduit'.installs = conduit.installs
      /\ conduit'.at = IF conduit.at = "draining" /\ Len(q) = 1 THEN "sending" ELSE conduit.at
  BY <1>1 DEF Conduits
<1>6. UploadTyped'
  <2>1. Counted(Tail(q))
    BY <1>1, CountedLess
  <2>2. conduit.installs # 0
    BY <1>1 DEF UploadInv, UploadTyped
  <2>3. Within(upload) /\ conduit.at # "none"
    BY <2>2 DEF UploadInv, UploadTyped
  <2> QED BY <1>1, <1>4, <1>5, <2>1, <2>2, <2>3 DEF UploadTyped
<1> SUFFICES ASSUME conduit.installs = 1
             PROVE  /\ InOrder(u) /\ Lined(Tail(q), b) /\ Joined(u, Tail(q), b)
                    /\ conduit'.at \in {"sending", "draining"} =>
                          Frontier(Tail(q), u, upload) /\ Filled(upload) /\ Apart(Tail(q), upload, conduit'.at = "sending")
  BY <1>1, <1>4, <1>5, <1>6 DEF UploadInv, Chained
<1>7. /\ Lined(q, b) /\ InOrder(wire) /\ Joined(wire, q, b)
      /\ conduit.at \in {"sending", "draining"} =>
            Frontier(q, wire, upload) /\ Filled(upload) /\ Apart(q, upload, conduit.at = "sending")
  BY DEF UploadInv, Chained
<1>8. InOrder(u) /\ Lined(Tail(q), b) /\ Joined(u, Tail(q), b) /\ Last(u) = Hi(w, b) /\ u # <<>>
  <2> HIDE DEF q, b, wire
  <2> QED BY <1>1, <1>7, Taken DEF u
<1> SUFFICES ASSUME conduit'.at \in {"sending", "draining"}
             PROVE  Frontier(Tail(q), u, upload) /\ Filled(upload) /\ Apart(Tail(q), upload, conduit'.at = "sending")
  BY <1>8
<1>9. Frontier(q, wire, upload) /\ Filled(upload) /\ Apart(q, upload, conduit.at = "sending")
  BY <1>5, <1>7
<1>10. Reached(Hi(Last(q), b), upload)
  BY <1>1, <1>9 DEF Frontier
<1>11. Frontier(Tail(q), u, upload)
  <2>1. CASE Tail(q) # <<>>
    <3>1. Len(Tail(q)) \in 1..Len(Tail(q)) /\ Len(Tail(q)) + 1 = Len(q)
      BY <1>2, <2>1, EmptySeq
    <3>2. Last(Tail(q)) = Last(q)
      BY <1>2, <3>1 DEF Last
    <3> QED BY <1>10, <2>1, <3>2 DEF Frontier
  <2>2. CASE Tail(q) = <<>>
    <3>1. Len(q) = 1
      <4>1. Len(Tail(q)) = 0 /\ Len(q) \in Nat /\ Len(Tail(q)) = Len(q) - 1
        BY <1>2, <2>2
      <4> QED BY <4>1
    <3>2. Last(q) = w
      BY <1>2, <3>1 DEF Last
    <3> QED BY <1>8, <1>10, <2>2, <3>2 DEF Frontier
  <2> QED BY <2>1, <2>2
<1>12. Apart(Tail(q), upload, conduit'.at = "sending")
  <2>1. ASSUME NEW k \in 1..Len(Tail(q))
        PROVE  Free(Tail(q)[k], upload, conduit'.at = "sending")
    <3>1. k + 1 \in 1..Len(q) /\ Tail(q)[k] = q[k + 1] /\ Len(q) # 1
      BY <1>2
    <3>2. (conduit'.at = "sending") <=> (conduit.at = "sending")
      BY <1>5, <3>1
    <3>3. Free(q[k + 1], upload, conduit.at = "sending")
      BY <1>9, <3>1 DEF Apart
    <3> QED BY <3>1, <3>2, <3>3 DEF Free
  <2> QED BY <2>1 DEF Apart
<1> QED BY <1>9, <1>11, <1>12

LEMMA UploadSame ==
    ASSUME UploadInv, UNCHANGED conduitVars
    PROVE  UploadInv'
  BY DEF UploadInv, UploadTyped, conduitVars

LEMMA UploadStep ==
    ASSUME UploadInv, Q!ZcNext
    PROVE  UploadInv'
  BY UploadQuietSteps, UploadConnects, UploadInstalls, UploadOpens, UploadWritesHeader, UploadWritesBuffer, UploadEndsFile,
     UploadCopies, UploadFlushes DEF Q!ZcNext

\* The device gets the headers and the payloads in order.
LEMMA UploadHolds ==
    ASSUME UploadInv
    PROVE  Q!StreamExact
<1>1. outgoing.wire # <<>> => Head(outgoing.wire) = outgoing.wire[1]
  BY HeadTailProperties DEF UploadInv, UploadTyped, Sockets
<1> QED BY <1>1 DEF UploadInv, Chained, InOrder, Q!StreamExact, Items

-----------------------------------------------------------------------------
(* Numbers and functions defined one after the other.                                *)

LEMMA LeastOf ==
    ASSUME NEW S, S \subseteq Nat, S # {}
    PROVE  \E m \in S : \A k \in S : m <= k
<1> DEFINE order == OpToRel(<, Nat)
<1>1. IsWellFoundedOn(order, Nat)
  BY NatLessThanWellFounded
<1>4. \A k \in Nat, m \in Nat : k < m => <<k, m>> \in order
  BY DEF OpToRel
<1> HIDE DEF order
<1>2. \E m \in S : \A k \in S : ~ (<<k, m>> \in order)
  BY <1>1, WFMin, Zenon
<1>3. \A k \in Nat, m \in Nat : ~(k < m) => m <= k
  OBVIOUS
<1> QED BY <1>2, <1>3, <1>4

LEMMA GreatestOf ==
    ASSUME NEW n \in Nat, NEW S, S \subseteq 0..n, S # {}
    PROVE  \E m \in S : \A k \in S : k <= m
<1> DEFINE T == {k \in 0..n : n - k \in S}
<1>1. T \subseteq Nat
  OBVIOUS
<1>2. T # {}
  <2>1. PICK k \in S : k \in 0..n
    OBVIOUS
  <2>2. n - k \in 0..n /\ n - (n - k) = k
    BY <2>1
  <2> QED BY <2>1, <2>2
<1>3. \A k \in S : k \in 0..n /\ n - k \in T
  <2>1. \A k \in 0..n : n - k \in 0..n /\ n - (n - k) = k
    OBVIOUS
  <2> QED BY <2>1
<1>4. \A k \in T : k \in 0..n /\ n - k \in S
  OBVIOUS
<1> HIDE DEF T
<1>5. PICK l \in T : \A k \in T : l <= k
  BY <1>1, <1>2, LeastOf
<1>6. \A k \in S : k <= n - l
  <2>1. ASSUME NEW k \in S PROVE k <= n - l
    <3>1. k \in 0..n /\ l \in 0..n /\ l <= n - k
      BY <1>3, <1>4, <1>5
    <3> QED BY <3>1
  <2> QED BY <2>1
<1> QED BY <1>4, <1>5, <1>6

\* A set of numbers to which 0 belongs, and with a number the next one up to the bound, has all.
LEMMA AllUpTo ==
    ASSUME NEW n \in Nat, NEW S, 0 \in S, \A i \in 0..n : i \in S /\ i < n => i + 1 \in S
    PROVE  \A i \in 0..n : i \in S
<1> DEFINE rest == (0..n) \ S
<1>1. ASSUME rest # {}  PROVE FALSE
  <2>1. rest \subseteq Nat
    OBVIOUS
  <2> HIDE DEF rest
  <2>2. PICK m \in rest : \A k \in rest : m <= k
    BY <1>1, <2>1, LeastOf
  <2>3. m \in 0..n /\ m \notin S /\ m # 0
    BY DEF rest
  <2>4. m - 1 \in 0..n /\ m - 1 \notin rest /\ m - 1 < n /\ (m - 1) + 1 = m
    BY <2>2, <2>3
  <2>5. m - 1 \in S
    BY <2>4 DEF rest
  <2> QED BY <2>3, <2>4, <2>5
<1> QED BY <1>1

-----------------------------------------------------------------------------
(* ZipReader: the archive.                                                            *)

Archives == {a \in [pad : Nat, names : Seq(Nat), called : Seq(Nat), comment : 0..LongestComment] :
                Len(a.called) = Len(a.names)}
HeadersUpTo(f, a, n) == [i \in 1..n |-> IF i = 1 THEN a.pad ELSE f[i - 1] + Z!CenHdr + a.names[i - 1]]
HasHeaders(a, n) == \E f : f = HeadersUpTo(f, a, n)

LEMMA HeadersThere ==
    ASSUME NEW a \in Archives
    PROVE  Z!Headers(a) = HeadersUpTo(Z!Headers(a), a, Len(a.names) + 1)
<1> DEFINE n == Len(a.names)  S == {k \in 0..n : HasHeaders(a, k + 1)}
<1>1. n \in Nat /\ a.names \in Seq(Nat)
  BY DEF Archives
<1> HIDE DEF n
<1>2. 0 \in S
  <2> DEFINE g == [i \in 1..1 |-> a.pad]
  <2>1. g = HeadersUpTo(g, a, 0 + 1)
    <3>1. 0 + 1 = 1 /\ \A i \in 1..1 : i = 1
      OBVIOUS
    <3> QED BY <3>1 DEF HeadersUpTo
  <2>2. 0 \in 0..n
    BY <1>1
  <2> QED BY <2>1, <2>2 DEF HasHeaders
<1>3. ASSUME NEW k \in 0..n, k \in S, k < n PROVE k + 1 \in S
  <2>1. PICK f : f = HeadersUpTo(f, a, k + 1)
    BY <1>3 DEF HasHeaders
  <2> DEFINE v == f[k + 1] + Z!CenHdr + a.names[k + 1]  g == [i \in 1..((k + 1) + 1) |-> IF i = (k + 1) + 1 THEN v ELSE f[i]]
  <2>2. k + 1 \in 0..n /\ k \in Nat /\ 1..(k + 1) = 1..((k + 1) + 1) \ {(k + 1) + 1} /\ k + 1 \in 1..(k + 1)
    BY <1>1, <1>3
  <2>3. \A i \in 1..(k + 1) : f[i] = IF i = 1 THEN a.pad ELSE f[i - 1] + Z!CenHdr + a.names[i - 1]
    BY <2>1 DEF HeadersUpTo
  <2> HIDE DEF v
  <2>4. ASSUME NEW i \in 1..((k + 1) + 1)
        PROVE  g[i] = IF i = 1 THEN a.pad ELSE g[i - 1] + Z!CenHdr + a.names[i - 1]
    <3>1. CASE i = (k + 1) + 1
      <4>1. i # 1 /\ i - 1 = k + 1 /\ i - 1 \in 1..((k + 1) + 1) /\ i - 1 # (k + 1) + 1
        BY <2>2, <3>1
      <4>2. g[i] = v /\ g[i - 1] = f[k + 1]
        BY <3>1, <4>1
      <4> HIDE DEF g
      <4> QED BY <4>1, <4>2 DEF v
    <3>2. CASE i # (k + 1) + 1 /\ i = 1
      <4>1. i \in 1..(k + 1)
        BY <2>2, <3>2
      <4> QED BY <2>3, <3>2, <4>1
    <3>3. CASE i # (k + 1) + 1 /\ i # 1
      <4>1. i \in 1..(k + 1) /\ i - 1 \in 1..((k + 1) + 1) /\ i - 1 # (k + 1) + 1
        BY <2>2, <3>3
      <4>2. g[i] = f[i] /\ g[i - 1] = f[i - 1]
        BY <3>3, <4>1
      <4> HIDE DEF g
      <4> QED BY <2>3, <3>3, <4>1, <4>2
    <3> QED BY <3>1, <3>2, <3>3
  <2>5. g = [i \in 1..((k + 1) + 1) |-> g[i]]
    OBVIOUS
  <2> HIDE DEF g
  <2>6. g = HeadersUpTo(g, a, (k + 1) + 1)
    BY <2>4, <2>5 DEF HeadersUpTo
  <2> QED BY <2>2, <2>6 DEF HasHeaders
<1>4. \A k \in 0..n : k \in S
  <2> HIDE DEF S
  <2> QED BY <1>1, <1>2, <1>3, AllUpTo
<1>5. \E f : f = HeadersUpTo(f, a, n + 1)
  <2>1. n \in 0..n
    BY <1>1
  <2> QED BY <1>4, <2>1 DEF HasHeaders
<1> DEFINE h == CHOOSE f : f = HeadersUpTo(f, a, n + 1)
<1>6. h = HeadersUpTo(h, a, n + 1)
  BY <1>5, Zenon
<1>7. Z!Headers(a) = h
  BY Zenon DEF Z!Headers, HeadersUpTo, n
<1> HIDE DEF h
<1> QED BY <1>6, <1>7 DEF n

\* Headers follow each other, each before the next, and the end record comes after all of them.
LEMMA HeadersAre ==
    ASSUME NEW a \in Archives
    PROVE  /\ Len(a.names) \in Nat /\ a.names \in Seq(Nat) /\ a.pad \in Nat /\ a.comment \in Nat /\ a.comment <= LongestComment
           /\ Z!Headers(a)[1] = a.pad
           /\ \A i \in 1..(Len(a.names) + 1) : Z!Headers(a)[i] \in Nat
           /\ \A i \in 1..Len(a.names) : a.names[i] \in Nat /\ Z!Headers(a)[i + 1] = Z!Headers(a)[i] + 2 + a.names[i]
           /\ \A i, j \in 1..(Len(a.names) + 1) : i < j => Z!Headers(a)[i] + 2 + a.names[i] <= Z!Headers(a)[j]
<1> DEFINE h == Z!Headers(a)  n == Len(a.names)
<1>1. /\ n \in Nat /\ a.names \in Seq(Nat) /\ a.pad \in Nat /\ a.comment \in Nat /\ a.comment <= LongestComment
      /\ \A i \in 1..n : a.names[i] \in Nat
  BY WindowAssumption DEF Archives
<1>2. h = HeadersUpTo(h, a, n + 1)
  BY HeadersThere
<1> HIDE DEF h, n
<1>3. \A i \in 1..(n + 1) : h[i] = IF i = 1 THEN a.pad ELSE h[i - 1] + 2 + a.names[i - 1]
  BY <1>2 DEF HeadersUpTo, Z!CenHdr
<1>4. h[1] = a.pad /\ \A i \in 1..n : h[i + 1] = h[i] + 2 + a.names[i]
  <2>1. 1 \in 1..(n + 1) /\ \A i \in 1..n : i + 1 \in 1..(n + 1) /\ i + 1 # 1 /\ (i + 1) - 1 = i
    BY <1>1
  <2> QED BY <1>3, <2>1
<1>5. \A i \in 1..(n + 1) : h[i] \in Nat
  <2> DEFINE S == {k \in 0..n : h[k + 1] \in Nat}
  <2>1. 0 \in S
    BY <1>1, <1>4
  <2>2. ASSUME NEW k \in 0..n, k \in S, k < n PROVE k + 1 \in S
    <3>1. k + 1 \in 0..n /\ k + 1 \in 1..n
      BY <1>1, <2>2
    <3>2. h[(k + 1) + 1] = h[k + 1] + 2 + a.names[k + 1] /\ a.names[k + 1] \in Nat /\ h[k + 1] \in Nat
      BY <1>1, <1>4, <2>2, <3>1
    <3>3. h[(k + 1) + 1] \in Nat
      BY <3>2
    <3> QED BY <3>1, <3>3
  <2>3. \A k \in 0..n : k \in S
    <3> HIDE DEF S
    <3> QED BY <1>1, <2>1, <2>2, AllUpTo
  <2>4. \A i \in 1..(n + 1) : i - 1 \in 0..n /\ (i - 1) + 1 = i
    BY <1>1
  <2> QED BY <2>3, <2>4
<1>6. \A i, j \in 1..(n + 1) : i < j => h[i] + 2 + a.names[i] <= h[j]
  <2> DEFINE S == {k \in 0..n : \A i \in 1..k : h[i] + 2 + a.names[i] <= h[k + 1]}
  <2>1. 0 \in S
    BY <1>1
  <2>2. ASSUME NEW k \in 0..n, k \in S, k < n PROVE k + 1 \in S
    <3>1. k + 1 \in 0..n /\ k + 1 \in 1..n /\ k + 1 \in 1..(n + 1) /\ (k + 1) + 1 \in 1..(n + 1)
      BY <1>1, <2>2
    <3>2. h[(k + 1) + 1] = h[k + 1] + 2 + a.names[k + 1] /\ h[k + 1] \in Nat /\ a.names[k + 1] \in Nat
      BY <1>1, <1>4, <1>5, <3>1
    <3>3. ASSUME NEW i \in 1..(k + 1) PROVE h[i] + 2 + a.names[i] <= h[(k + 1) + 1]
      <4>1. CASE i = k + 1
        BY <3>2, <4>1
      <4>2. CASE i # k + 1
        <5>1. i \in 1..k /\ i \in 1..n /\ i \in 1..(n + 1)
          BY <1>1, <4>2
        <5>2. h[i] + 2 + a.names[i] <= h[k + 1] /\ h[i] \in Nat /\ a.names[i] \in Nat
          BY <1>1, <1>5, <2>2, <5>1
        <5> QED BY <3>2, <5>2
      <4> QED BY <4>1, <4>2
    <3> QED BY <3>1, <3>3
  <2>3. \A k \in 0..n : k \in S
    <3> HIDE DEF S
    <3> QED BY <1>1, <2>1, <2>2, AllUpTo
  <2>4. ASSUME NEW i \in 1..(n + 1), NEW j \in 1..(n + 1), i < j PROVE h[i] + 2 + a.names[i] <= h[j]
    <3>1. j - 1 \in 0..n /\ (j - 1) + 1 = j /\ i \in 1..(j - 1)
      BY <1>1, <2>4
    <3> QED BY <2>3, <3>1
  <2> QED BY <2>4
<1> QED BY <1>1, <1>4, <1>5, <1>6 DEF h, n

End(a) == Z!Headers(a)[Len(a.names) + 1]
Size(a) == End(a) + 2 + a.comment
Lowest(a) == Size(a) - Z!Least(2 + LongestComment, Size(a))
\* What entry i needs of a window: its name, and the header of the next one.
Needs(a, i) == a.names[i] + (IF i < Len(a.names) THEN 2 ELSE 0)

LEMMA EndsAre ==
    ASSUME NEW a \in Archives
    PROVE  /\ End(a) \in Nat /\ Size(a) \in Nat /\ a.pad <= End(a) /\ End(a) + 2 <= Size(a)
           /\ Lowest(a) \in Nat /\ Lowest(a) <= End(a)
           /\ \A i \in 1..Len(a.names) : /\ a.names[i] \in Nat /\ Z!Headers(a)[i] \in Nat /\ a.pad <= Z!Headers(a)[i]
                                         /\ Z!Headers(a)[i] + 2 + Needs(a, i) <= Size(a) /\ Needs(a, i) \in Nat
                                         /\ i < Len(a.names) => Z!Headers(a)[i + 1] = Z!Headers(a)[i] + 2 + a.names[i]
           /\ Len(a.names) # 0 => a.pad + 2 <= End(a)
<1> DEFINE h == Z!Headers(a)  n == Len(a.names)
<1>1. /\ n \in Nat /\ a.pad \in Nat /\ a.comment \in Nat /\ a.comment <= LongestComment /\ h[1] = a.pad
      /\ \A i \in 1..(n + 1) : h[i] \in Nat
      /\ \A i \in 1..n : a.names[i] \in Nat /\ h[i + 1] = h[i] + 2 + a.names[i]
      /\ \A i, j \in 1..(n + 1) : i < j => h[i] + 2 + a.names[i] <= h[j]
      /\ LongestComment \in Nat
  BY HeadersAre, WindowAssumption
<1>2. End(a) = h[n + 1] /\ Size(a) = h[n + 1] + 2 + a.comment
  BY DEF End, Size
<1> HIDE DEF h, n
<1>3. n + 1 \in 1..(n + 1) /\ 1 \in 1..(n + 1) /\ h[n + 1] \in Nat
  BY <1>1
<1>4. \A i \in 1..(n + 1) : a.pad <= h[i]
  <2>1. ASSUME NEW i \in 1..(n + 1), i # 1 PROVE a.pad <= h[i]
    <3>1. 1 < i /\ 1 \in 1..n /\ a.names[1] \in Nat
      BY <1>1, <2>1
    <3>2. h[1] + 2 + a.names[1] <= h[i]
      BY <1>1, <1>3, <3>1
    <3> QED BY <1>1, <3>1, <3>2
  <2> QED BY <1>1, <2>1
<1>5. Lowest(a) \in Nat /\ Lowest(a) <= End(a)
  BY <1>1, <1>2, <1>3 DEF Lowest, Z!Least
<1>6. ASSUME NEW i \in 1..n
      PROVE  /\ a.names[i] \in Nat /\ h[i] \in Nat /\ a.pad <= h[i]
             /\ h[i] + 2 + Needs(a, i) <= Size(a) /\ Needs(a, i) \in Nat
             /\ i < n => h[i + 1] = h[i] + 2 + a.names[i]
  <2>1. i \in 1..(n + 1) /\ i + 1 \in 1..(n + 1) /\ i \in Nat
    BY <1>1
  <2>2. h[i] \in Nat /\ a.names[i] \in Nat /\ h[i + 1] = h[i] + 2 + a.names[i] /\ h[i + 1] \in Nat
    BY <1>1, <2>1
  <2>3. CASE i = n
    <3>1. Needs(a, i) = a.names[i] + 0
      BY <1>1, <2>3 DEF Needs, n
    <3> QED BY <1>1, <1>2, <1>4, <2>1, <2>2, <2>3, <3>1
  <2>4. CASE i < n
    <3>1. Needs(a, i) = a.names[i] + 2
      BY <2>4 DEF Needs, n
    <3>2. h[i + 1] + 2 + a.names[i + 1] <= h[n + 1] /\ a.names[i + 1] \in Nat
      <4>1. i + 1 < n + 1 /\ i + 1 \in 1..n
        BY <1>1, <2>1, <2>4
      <4> QED BY <1>1, <1>3, <2>1, <4>1
    <3> QED BY <1>1, <1>2, <1>3, <1>4, <2>1, <2>2, <3>1, <3>2
  <2> QED BY <1>1, <2>3, <2>4
<1>7. n # 0 => a.pad + 2 <= End(a)
  <2>1. ASSUME n # 0 PROVE a.pad + 2 <= End(a)
    <3>1. 1 \in 1..n /\ 1 < n + 1 /\ a.names[1] \in Nat
      BY <1>1, <2>1
    <3>2. h[1] + 2 + a.names[1] <= h[n + 1]
      BY <1>1, <1>3, <3>1
    <3> QED BY <1>1, <1>2, <1>3, <3>1, <3>2
  <2> QED BY <2>1
<1> QED BY <1>1, <1>2, <1>3, <1>4, <1>5, <1>6, <1>7 DEF h, n

\* No two headers are at the same place.
LEMMA HeadersApart ==
    ASSUME NEW a \in Archives, NEW i \in 1..Len(a.names), NEW j \in 1..Len(a.names), Z!Headers(a)[i] = Z!Headers(a)[j]
    PROVE  i = j
<1> DEFINE h == Z!Headers(a)  n == Len(a.names)
<1>1. /\ n \in Nat /\ \A k \in 1..(n + 1) : h[k] \in Nat
      /\ \A k \in 1..n : a.names[k] \in Nat
      /\ \A k, l \in 1..(n + 1) : k < l => h[k] + 2 + a.names[k] <= h[l]
  BY HeadersAre
<1>2. h[i] = h[j] /\ i \in 1..n /\ j \in 1..n
  OBVIOUS
<1> HIDE DEF h, n
<1>3. i \in 1..(n + 1) /\ j \in 1..(n + 1) /\ h[i] \in Nat /\ a.names[i] \in Nat /\ a.names[j] \in Nat
  BY <1>1, <1>2
<1>4. ~(i < j) /\ ~(j < i)
  BY <1>1, <1>2, <1>3
<1> QED BY <1>3, <1>4

-----------------------------------------------------------------------------
(* ZipReader: the inductive invariant.                                                *)

Windows == [position : Nat, buffer : Seq(Int), got : Int]
EntryMaps == UNION {[names -> Nat \X Seq(Int)] : names \in SUBSET Nat}
Zips == [at : {"opening", "searching", "entries", "ready", "failed"}, chunk : Nat, lastPos : Nat, step : Nat,
         pos : Nat, left : Nat, entry : Nat, emitted : Seq(Nat \X Seq(Int)), entryMap : EntryMaps, io : BOOLEAN]

\* The window shows the bytes of the file; beyond its end there may be anything.
Shows(a, w) == \A k \in 1..Len(w.buffer) : w.position + k - 1 < Size(a) => w.buffer[k] = w.position + k - 1

\* While the directory is searched for, the window ends where the file does, and the end record
\* is not in what was searched.
Searching(a, w, z) ==
    w.position + Len(w.buffer) = Size(a) /\ End(a) < z.lastPos /\ w.got > 0 /\ z.step > 0 /\ z.emitted = <<>> /\ z.entry = 0

\* While it is read, what is to be read next begins in the window, and a header is all in it.
Walking(a, w, z) ==
    /\ Len(w.buffer) = Z!Least(z.chunk, Size(a) - a.pad)
    /\ a.pad <= w.position /\ w.position <= z.pos /\ z.pos <= w.position + Len(w.buffer)
    /\ z.left + Len(z.emitted) = Len(a.names)
    /\ z.left > 0 => LET i == Len(z.emitted) + 1
                     IN IF z.entry = 0 THEN z.pos = Z!Headers(a)[i] /\ z.pos + 2 <= w.position + Len(w.buffer)
                        ELSE z.entry = i /\ z.pos = Z!Headers(a)[i] + 2
    /\ z.left = 0 => z.entry = 0
    /\ w.got <= 0 => \E i \in 1..Len(a.names) : Needs(a, i) > z.chunk

Listed(a, listed) ==
    \A i \in DOMAIN listed : i \in 1..Len(a.names) /\ listed[i] = <<i, Z!Bytes(Z!Headers(a)[i] + 2, a.names[i])>>

ReaderInv ==
    /\ archive \in Archives /\ window \in Windows /\ zip \in Zips
    /\ Shows(archive, window) /\ Listed(archive, zip.emitted)
    /\ zip.at = "opening" => zip.emitted = <<>> /\ zip.entry = 0
    /\ zip.at # "failed" => zip.io
    /\ zip.at \in {"searching", "entries"} => zip.chunk >= 2 /\ zip.chunk <= Size(archive)
    /\ zip.at = "searching" => Searching(archive, window, zip)
    /\ zip.at = "entries" => Walking(archive, window, zip)
    /\ zip.at = "ready" => Len(zip.emitted) = Len(archive.names)
    /\ zip.at = "failed" /\ ~zip.io =>
          (\E i \in 1..Len(archive.names) : Needs(archive, i) > zip.chunk) \/ End(archive) = Lowest(archive)

\* The map has, under each name, the last entry of those emitted.
MapInv ==
    /\ DOMAIN zip.entryMap = {archive.called[i] : i \in 1..Len(zip.emitted)}
    /\ \A i \in 1..Len(zip.emitted) :
          (\A j \in 1..Len(zip.emitted) : archive.called[j] = archive.called[i] => j <= i) =>
             zip.entryMap[archive.called[i]] = zip.emitted[i]

LEMMA ReaderHolds ==
    ASSUME ReaderInv, MapInv
    PROVE  Z!EntriesExact /\ Z!RefusedForCause
<1>1. archive \in Archives /\ zip.emitted \in Seq(Nat \X Seq(Int)) /\ archive.names \in Seq(Nat)
  BY DEF ReaderInv, Archives, Zips
<1>2. DOMAIN archive.names = 1..Len(archive.names)
  BY <1>1
<1> DEFINE total == Len(archive.names)  called == archive.called
<1>5. \A i \in DOMAIN zip.emitted : zip.emitted[i] = Z!Entry(i)
  BY <1>1 DEF ReaderInv, Listed, Z!Entry, Z!HeaderAt, Z!CenHdr
<1>6. ASSUME zip.at = "ready"
      PROVE  /\ Len(zip.emitted) = total
             /\ DOMAIN zip.entryMap = {called[i] : i \in 1..total}
             /\ \A name \in DOMAIN zip.entryMap : \E i \in 1..total : Z!LastOf(name, i) /\ zip.entryMap[name] = Z!Entry(i)
  <2>1. Len(zip.emitted) = total /\ DOMAIN zip.emitted = 1..total
    BY <1>1, <1>6 DEF ReaderInv
  <2>2. DOMAIN zip.entryMap = {called[i] : i \in 1..total}
    BY <2>1 DEF MapInv
  <2>3. ASSUME NEW name \in DOMAIN zip.entryMap
        PROVE  \E i \in 1..total : Z!LastOf(name, i) /\ zip.entryMap[name] = Z!Entry(i)
    <3> DEFINE same == {i \in 1..total : called[i] = name}
    <3>1. PICK i \in 1..total : called[i] = name
      BY <2>2
    <3>2. total \in Nat
      BY <1>1
    <3>3. same \subseteq 0..total /\ i \in same
      BY <3>1, <3>2
    <3> HIDE DEF same
    <3>4. PICK k \in same : \A l \in same : l <= k
      BY <3>2, <3>3, GreatestOf
    <3>5. k \in 1..total /\ called[k] = name /\ \A j \in 1..total : called[j] = name => j <= k
      BY <3>4 DEF same
    <3>6. Z!LastOf(name, k)
      BY <1>2, <3>5 DEF Z!LastOf
    <3>7. zip.entryMap[name] = zip.emitted[k]
      BY <2>1, <3>5 DEF MapInv
    <3> QED BY <1>5, <2>1, <3>5, <3>6, <3>7
  <2> QED BY <2>1, <2>2, <2>3
<1>3. Z!EntriesExact
  BY <1>2, <1>5, <1>6 DEF Z!EntriesExact
<1>4. Z!RefusedForCause
  <2>1. Z!EndAt = End(archive) /\ Z!MinPos = Lowest(archive)
    BY DEF Z!EndAt, Z!MinPos, Z!FileSize, Z!HeaderAt, End, Lowest, Size, Z!EndHdr
  <2> QED BY <1>2, <2>1 DEF ReaderInv, Z!RefusedForCause, Needs, Z!CenHdr
<1> QED BY <1>3, <1>4

LEMMA ReaderInitInv ==
    ASSUME Z!ZipInit
    PROVE  ReaderInv
<1>1. archive \in Archives
  <2>1. archive.pad \in 0..LongestPad /\ archive.comment \in 0..LongestComment
        /\ archive.names \in Z!BoundedSeq(0..LongestName, ListedEntries)
        /\ archive.called \in Z!BoundedSeq(0..LongestCalled, ListedEntries) /\ Len(archive.called) = Len(archive.names)
        /\ archive = [pad |-> archive.pad, names |-> archive.names, called |-> archive.called, comment |-> archive.comment]
    BY DEF Z!ZipInit
  <2>2. LongestPad \in Nat /\ LongestName \in Nat /\ LongestCalled \in Nat /\ ListedEntries \in Nat /\ LongestComment \in Nat
    BY WindowAssumption
  <2>3. PICK m \in 0..ListedEntries : archive.names \in [1..m -> 0..LongestName]
    BY <2>1 DEF Z!BoundedSeq, Z!SeqOf
  <2>4. archive.names \in Seq(Nat)
    BY <2>2, <2>3
  <2>5. PICK l \in 0..ListedEntries : archive.called \in [1..l -> 0..LongestCalled]
    BY <2>1 DEF Z!BoundedSeq, Z!SeqOf
  <2>6. archive.called \in Seq(Nat)
    BY <2>2, <2>5
  <2> QED BY <2>1, <2>2, <2>4, <2>6 DEF Archives
<1>2. <<>> \in Seq(Int) /\ <<>> \in Seq(Nat \X Seq(Int)) /\ Len(<<>>) = 0 /\ DOMAIN <<>> = 1..0
  OBVIOUS
<1>4. <<>> \in EntryMaps
  <2>1. <<>> \in [{} -> Nat \X Seq(Int)]
    OBVIOUS
  <2> QED BY <2>1 DEF EntryMaps
<1>3. window \in Windows /\ zip \in Zips /\ zip.at = "opening" /\ zip.emitted = <<>> /\ zip.entry = 0 /\ window.buffer = <<>> /\ zip.io = TRUE
  BY <1>2, <1>4 DEF Z!ZipInit, Windows, Zips
<1> QED BY <1>1, <1>2, <1>3 DEF ReaderInv, Shows, Listed
-----------------------------------------------------------------------------
(* ZipReader: what a read puts into the window.                                      *)

LEMMA WindowRead ==
    ASSUME archive \in Archives, NEW b \in Seq(Int), NEW at \in Nat, NEW length \in Nat, NEW position \in Nat, NEW pos \in Nat,
           Z!FsRead(b, at, length, position, pos)
    PROVE  /\ window' \in Windows /\ window'.position = position /\ Len(window'.buffer) = Len(b)
           /\ window'.got = Z!Least(length, Size(archive) - pos)
           /\ \A k \in 1..Len(b) : at < k /\ k <= at + length /\ pos + (k - 1 - at) < Size(archive) => window'.buffer[k] = pos + (k - 1 - at)
           /\ \A k \in 1..Len(b) : ~(at < k /\ k <= at + length) => window'.buffer[k] = b[k]
<1> DEFINE v(k) == IF k - 1 \in at..(at + length - 1) /\ pos + (k - 1 - at) < Size(archive) THEN pos + (k - 1 - at) ELSE b[k]
           c == [k \in 1..Len(b) |-> v(k)]
<1>1. Size(archive) \in Nat /\ Len(b) \in Nat
  BY EndsAre
<1>2. \A k \in 1..Len(b) : v(k) \in Int
  BY <1>1
<1>3. Z!FileSize = Size(archive)
  BY DEF Z!FileSize, Z!EndAt, Z!HeaderAt, Z!EndHdr, End, Size
<1>4. window' = [position |-> position, got |-> Z!Least(length, Size(archive) - pos), buffer |-> c]
  BY <1>3 DEF Z!FsRead
<1> HIDE DEF v
<1>5. c \in Seq(Int) /\ Len(c) = Len(b) /\ \A k \in 1..Len(b) : c[k] = v(k)
  BY <1>1, <1>2
<1> HIDE DEF c
<1>6. Z!Least(length, Size(archive) - pos) \in Int
  BY <1>1 DEF Z!Least
<1>7. /\ window' \in Windows /\ window'.position = position /\ Len(window'.buffer) = Len(b)
      /\ window'.got = Z!Least(length, Size(archive) - pos) /\ \A k \in 1..Len(b) : window'.buffer[k] = v(k)
  BY <1>4, <1>5, <1>6 DEF Windows
<1>8. \A k \in 1..Len(b) : k - 1 \in at..(at + length - 1) <=> at < k /\ k <= at + length
  BY <1>1
<1>9. \A k \in 1..Len(b) : at < k /\ k <= at + length /\ pos + (k - 1 - at) < Size(archive) => v(k) = pos + (k - 1 - at)
  BY <1>8 DEF v
<1>10. \A k \in 1..Len(b) : ~(at < k /\ k <= at + length) => v(k) = b[k]
  BY <1>8 DEF v
<1> QED BY <1>7, <1>9, <1>10

LEMMA ReadsShow ==
    ASSUME archive \in Archives, NEW pos \in Nat, NEW length \in Nat, Z!Reads(pos, length)
    PROVE  /\ window' \in Windows /\ window'.position = pos /\ Len(window'.buffer) = length
           /\ window'.got = Z!Least(length, Size(archive) - pos) /\ Shows(archive, window')
<1> DEFINE b == Z!Blank(length)  zero == 0
<1>1. b \in Seq(Int) /\ Len(b) = length
  BY DEF Z!Blank, Z!Junk
<1>2. Z!FsRead(b, zero, length, pos, pos) /\ zero = 0 /\ zero \in Nat
  BY DEF Z!Reads
<1> HIDE DEF b, zero
<1>3. /\ window' \in Windows /\ window'.position = pos /\ Len(window'.buffer) = Len(b)
      /\ window'.got = Z!Least(length, Size(archive) - pos)
      /\ \A k \in 1..Len(b) : zero < k /\ k <= zero + length /\ pos + (k - 1 - zero) < Size(archive) => window'.buffer[k] = pos + (k - 1 - zero)
  BY <1>1, <1>2, WindowRead
<1>4. Size(archive) \in Nat
  BY EndsAre
<1>5. \A k \in 1..length : pos + k - 1 < Size(archive) => window'.buffer[k] = pos + k - 1
  BY <1>1, <1>2, <1>3, <1>4
<1> QED BY <1>1, <1>3, <1>5 DEF Shows

LEMMA ExpandShows ==
    ASSUME archive \in Archives, window \in Windows, Shows(archive, window), NEW length \in Nat, length <= window.position,
           Z!ExpandLeft(length)
    PROVE  /\ window' \in Windows /\ window'.position = window.position - length
           /\ Len(window'.buffer) = length + Len(window.buffer)
           /\ window'.got = Z!Least(length, Size(archive) - (window.position - length)) /\ Shows(archive, window')
<1> DEFINE blank == Z!Blank(length)  old == window.buffer  b == blank \o old  p == window.position - length  zero == 0
<1>1. blank \in Seq(Int) /\ Len(blank) = length
  BY DEF Z!Blank, Z!Junk
<1>2. old \in Seq(Int) /\ Len(old) \in Nat /\ window.position \in Nat /\ p \in Nat
  BY DEF Windows
<1>3. Z!FsRead(b, zero, length, p, p) /\ zero = 0 /\ zero \in Nat
  BY DEF Z!ExpandLeft
<1>4. \A k \in 1..Len(old) : window.position + k - 1 < Size(archive) => old[k] = window.position + k - 1
  BY DEF Shows
<1>6. p = window.position - length
  OBVIOUS
<1>12. b = blank \o old
  OBVIOUS
<1> HIDE DEF blank, old, b, p, zero
<1>5. b \in Seq(Int) /\ Len(b) = length + Len(old) /\ \A k \in 1..Len(b) : k > length => b[k] = old[k - length]
  <2> DEFINE c == blank \o old
  <2>1. c \in Seq(Int) /\ Len(c) = Len(blank) + Len(old)
        /\ \A k \in 1..(Len(blank) + Len(old)) : c[k] = IF k <= Len(blank) THEN blank[k] ELSE old[k - Len(blank)]
    BY <1>1, <1>2, ConcatProperties, Zenon
  <2> HIDE DEF c
  <2>2. b = c
    BY <1>12 DEF c
  <2>3. Len(blank) = length /\ Len(old) \in Nat
    BY <1>1, <1>2
  <2>4. Len(b) = length + Len(old) /\ b \in Seq(Int)
    BY <2>1, <2>2, <2>3
  <2>5. \A k \in 1..(length + Len(old)) : b[k] = IF k <= length THEN blank[k] ELSE old[k - length]
    BY <2>1, <2>2, <2>3
  <2>6. \A k \in 1..Len(b) : k > length => b[k] = old[k - length]
    BY <2>3, <2>4, <2>5
  <2> QED BY <2>4, <2>6
<1>7. /\ window' \in Windows /\ window'.position = p /\ Len(window'.buffer) = Len(b)
      /\ window'.got = Z!Least(length, Size(archive) - p)
      /\ \A k \in 1..Len(b) : zero < k /\ k <= zero + length /\ p + (k - 1 - zero) < Size(archive) => window'.buffer[k] = p + (k - 1 - zero)
      /\ \A k \in 1..Len(b) : ~(zero < k /\ k <= zero + length) => window'.buffer[k] = b[k]
  <2>1. b \in Seq(Int) /\ zero \in Nat /\ p \in Nat
    BY <1>2, <1>3, <1>5
  <2>2. Z!FsRead(b, zero, length, p, p)
    BY <1>3
  <2> QED BY <2>1, <2>2, WindowRead
<1>8. Size(archive) \in Nat
  BY EndsAre
<1>9. ASSUME NEW k \in 1..Len(b), p + k - 1 < Size(archive) PROVE window'.buffer[k] = p + k - 1
  <2>1. CASE k <= length
    BY <1>2, <1>3, <1>5, <1>7, <1>8, <1>9, <2>1
  <2>2. CASE k > length
    <3>3. Len(old) \in Nat /\ Len(b) = length + Len(old) /\ window.position \in Nat
      BY <1>2, <1>5
    <3>4. zero = 0
      BY <1>3
    <3>1. k - length \in 1..Len(old) /\ window.position + (k - length) - 1 = p + k - 1 /\ ~(k <= zero + length)
      BY <1>6, <2>2, <3>3, <3>4
    <3>2. window'.buffer[k] = old[k - length]
      BY <1>5, <1>7, <2>2, <3>1
    <3> QED BY <1>4, <1>9, <3>1, <3>2
  <2> QED BY <1>5, <2>1, <2>2
<1>10. Shows(archive, window')
  BY <1>7, <1>9 DEF Shows
<1>11. window'.position = window.position - length /\ Len(window'.buffer) = length + Len(old)
      /\ window'.got = Z!Least(length, Size(archive) - (window.position - length))
  BY <1>5, <1>6, <1>7
<1> QED BY <1>7, <1>10, <1>11 DEF old

LEMMA MoveShows ==
    ASSUME archive \in Archives, window \in Windows, Shows(archive, window), NEW shift \in 0..Len(window.buffer),
           Z!MoveRight(shift)
    PROVE  /\ window' \in Windows /\ window'.position = window.position + shift
           /\ Len(window'.buffer) = Len(window.buffer)
           /\ window'.got = Z!Least(shift, Size(archive) - (window.position + Len(window.buffer))) /\ Shows(archive, window')
<1> DEFINE old == window.buffer  size == Len(window.buffer)  b == Z!Shifted(shift)  p == window.position
           at == size - shift  q == p + shift  e == p + size
<1>1. old \in Seq(Int) /\ size \in Nat /\ p \in Nat /\ shift \in Nat /\ shift <= size /\ at \in Nat /\ q \in Nat /\ e \in Nat
      /\ DOMAIN old = 1..size /\ \A k \in 1..size : old[k] \in Int
  BY DEF Windows
<1>2. at = size - shift /\ q = p + shift /\ e = p + size
  OBVIOUS
<1>11. Z!FsRead(b, at, shift, q, e)
  BY DEF Z!MoveRight
<1>3. \A k \in 1..size : p + k - 1 < Size(archive) => old[k] = p + k - 1
  BY DEF Shows
<1>4. b = [k \in 1..size |-> IF k + shift \in 1..size THEN old[k + shift] ELSE old[k]]
  BY <1>1 DEF Z!Shifted
<1> HIDE DEF old, size, b, p, at, q, e
<1>5. b \in Seq(Int) /\ Len(b) = size /\ \A k \in 1..size : k + shift \in 1..size => b[k] = old[k + shift]
  BY <1>1, <1>4
<1>6. /\ window' \in Windows /\ window'.position = q /\ Len(window'.buffer) = Len(b)
      /\ window'.got = Z!Least(shift, Size(archive) - e)
      /\ \A k \in 1..Len(b) : at < k /\ k <= at + shift /\ e + (k - 1 - at) < Size(archive) => window'.buffer[k] = e + (k - 1 - at)
      /\ \A k \in 1..Len(b) : ~(at < k /\ k <= at + shift) => window'.buffer[k] = b[k]
  <2>1. b \in Seq(Int) /\ at \in Nat /\ shift \in Nat /\ q \in Nat /\ e \in Nat
    BY <1>1, <1>5
  <2> QED BY <1>11, <2>1, WindowRead
<1>7. Size(archive) \in Nat
  BY EndsAre
<1>8. ASSUME NEW k \in 1..size, q + k - 1 < Size(archive) PROVE window'.buffer[k] = q + k - 1
  <2>1. CASE k + shift > size
    <3>1. at < k /\ k <= at + shift /\ e + (k - 1 - at) = q + k - 1
      BY <1>1, <1>2, <2>1
    <3> QED BY <1>5, <1>6, <1>8, <3>1
  <2>2. CASE k + shift <= size
    <3>1. k + shift \in 1..size /\ ~(at < k) /\ p + (k + shift) - 1 = q + k - 1
      BY <1>1, <1>2, <2>2
    <3>2. window'.buffer[k] = old[k + shift]
      BY <1>5, <1>6, <3>1
    <3> QED BY <1>3, <1>8, <3>1, <3>2
  <2> QED BY <1>1, <2>1, <2>2
<1>9. Shows(archive, window')
  BY <1>5, <1>6, <1>8 DEF Shows
<1>10. window'.position = p + shift /\ Len(window'.buffer) = size /\ window'.got = Z!Least(shift, Size(archive) - (p + size))
  BY <1>2, <1>5, <1>6
<1> QED BY <1>6, <1>9, <1>10 DEF size, p

\* What is taken out of the window is what the file has there.
LEMMA HeldIs ==
    ASSUME archive \in Archives, window \in Windows, Shows(archive, window), zip.pos \in Nat, NEW n \in Nat,
           window.position <= zip.pos, zip.pos + n <= window.position + Len(window.buffer), zip.pos + n <= Size(archive)
    PROVE  Z!Held(n) = Z!Bytes(zip.pos, n) /\ Z!Held(n) \in Seq(Int)
<1> DEFINE w == window.buffer  m == zip.pos - window.position + 1
<1>1. w \in Seq(Int) /\ Len(w) \in Nat /\ window.position \in Nat /\ Size(archive) \in Nat
      /\ \A k \in 1..Len(w) : w[k] \in Int
  BY EndsAre DEF Windows
<1>2. \A k \in 1..Len(w) : window.position + k - 1 < Size(archive) => w[k] = window.position + k - 1
  BY DEF Shows
<1>3. Z!Held(n) = SubSeq(w, m, m + n - 1)
  <2>1. Z!BufferPos = zip.pos - window.position
    BY DEF Z!BufferPos
  <2>5. window.position \in Nat /\ Len(w) \in Nat
    BY <1>1
  <2> DEFINE l == Z!BufferPos + n
  <2>2. l = m + n - 1 /\ Z!BufferPos + 1 = m /\ l <= Len(w) /\ l \in Int
    BY <2>1, <2>5
  <2> HIDE DEF l
  <2>3. Z!Least(l, Len(w)) = l
    BY <1>1, <2>2 DEF Z!Least
  <2>4. Z!Held(n) = SubSeq(w, Z!BufferPos + 1, Z!Least(l, Len(w)))
    BY DEF Z!Held, l
  <2> HIDE DEF w, m
  <2> QED BY <2>2, <2>3, <2>4
<1>4. m \in Int /\ m + n - 1 \in Int /\ m \in Nat /\ m >= 1 /\ m + n - 1 <= Len(w)
  BY <1>1
<1>5. m = zip.pos - window.position + 1
  OBVIOUS
<1> HIDE DEF w, m
<1>6. \A i \in m..(m + n - 1) : w[i] \in Int
  BY <1>1, <1>4
<1>12. Len(w) \in Nat /\ window.position \in Nat /\ Size(archive) \in Nat /\ m >= 1 /\ m \in Nat /\ m + n - 1 <= Len(w)
  BY <1>1, <1>4
<1> DEFINE s == SubSeq(w, m, m + n - 1)  b == Z!Bytes(zip.pos, n)
<1>7. s \in Seq(Int) /\ Len(s) = (IF m <= m + n - 1 THEN m + n - 1 - m + 1 ELSE 0)
      /\ \A i \in 1..(m + n - 1 - m + 1) : s[i] = w[m + i - 1]
  <2> HIDE DEF s
  <2> QED BY <1>4, <1>6, SubSeqProperties DEF s
<1>8. b \in Seq(Int) /\ Len(b) = n /\ \A i \in 1..n : b[i] = zip.pos + i - 1
  BY DEF Z!Bytes
<1> HIDE DEF s, b
<1>9. Len(s) = n /\ m + n - 1 - m + 1 = n
  BY <1>4, <1>7
<1>10. \A i \in 1..n : s[i] = b[i]
  <2>1. ASSUME NEW i \in 1..n PROVE s[i] = b[i]
    <3> DEFINE l == Len(w)  size == Size(archive)  q == zip.pos  p == window.position
    <3>3. l \in Nat /\ size \in Nat /\ q \in Nat /\ p \in Nat /\ m \in Nat /\ m >= 1 /\ m + n - 1 <= l /\ q + n <= size
          /\ m = q - p + 1 /\ i \in 1..n /\ n \in Nat
      BY <1>5, <1>12
    <3> HIDE DEF l, size, q, p
    <3>4. m + i - 1 \in 1..l /\ p + (m + i - 1) - 1 = q + i - 1 /\ q + i - 1 < size
      BY <3>3
    <3>1. m + i - 1 \in 1..Len(w) /\ window.position + (m + i - 1) - 1 = zip.pos + i - 1 /\ zip.pos + i - 1 < Size(archive)
      BY <3>4 DEF l, size, q, p
    <3>2. w[m + i - 1] = zip.pos + i - 1
      BY <1>2, <3>1
    <3> QED BY <1>7, <1>8, <1>9, <3>2
  <2> QED BY <2>1
<1>11. s = b
  BY <1>7, <1>8, <1>9, <1>10, SeqEqual
<1> QED BY <1>3, <1>7, <1>11 DEF s, b

-----------------------------------------------------------------------------
(* ZipReader: the steps.                                                              *)

LEMMA ReaderFacts ==
    ASSUME ReaderInv
    PROVE  /\ archive \in Archives /\ window \in Windows /\ zip \in Zips
           /\ window.position \in Nat /\ window.buffer \in Seq(Int) /\ Len(window.buffer) \in Nat /\ window.got \in Int
           /\ zip.chunk \in Nat /\ zip.lastPos \in Nat /\ zip.step \in Nat /\ zip.pos \in Nat /\ zip.left \in Nat
           /\ zip.entry \in Nat /\ zip.emitted \in Seq(Nat \X Seq(Int)) /\ Len(zip.emitted) \in Nat /\ zip.io \in BOOLEAN
           /\ Z!FileSize = Size(archive) /\ Z!MinPos = Lowest(archive) /\ Z!EndAt = End(archive)
           /\ Size(archive) \in Nat /\ End(archive) \in Nat /\ Lowest(archive) \in Nat
<1>1. archive \in Archives /\ window \in Windows /\ zip \in Zips
  BY DEF ReaderInv
<1>2. Z!FileSize = Size(archive) /\ Z!MinPos = Lowest(archive) /\ Z!EndAt = End(archive)
  BY DEF Z!EndAt, Z!MinPos, Z!FileSize, Z!HeaderAt, End, Lowest, Size, Z!EndHdr
<1>3. Size(archive) \in Nat /\ End(archive) \in Nat /\ Lowest(archive) \in Nat
  BY <1>1, EndsAre
<1>4. window.position \in Nat /\ window.buffer \in Seq(Int) /\ Len(window.buffer) \in Nat /\ window.got \in Int
  BY <1>1 DEF Windows
<1>5. /\ zip.chunk \in Nat /\ zip.lastPos \in Nat /\ zip.step \in Nat /\ zip.pos \in Nat /\ zip.left \in Nat
      /\ zip.entry \in Nat /\ zip.emitted \in Seq(Nat \X Seq(Int)) /\ Len(zip.emitted) \in Nat /\ zip.io \in BOOLEAN
  BY <1>1 DEF Zips
<1> QED BY <1>1, <1>2, <1>3, <1>4, <1>5

LEMMA OpensReader ==
    ASSUME ReaderInv, NEW c \in WindowSizes, Z!Opens(c)
    PROVE  ReaderInv'
<1> DEFINE size == Size(archive)  chunk == Z!Least(c, size)  step == Z!Least(FirstWindow, chunk)  from == size - step
<1>1. archive \in Archives /\ zip \in Zips /\ Z!FileSize = size /\ size \in Nat
  BY ReaderFacts
<1>2. c \in Nat /\ c >= 2 /\ FirstWindow \in Nat /\ FirstWindow > 0
  BY WindowAssumption
<1>3. End(archive) \in Nat /\ End(archive) + 2 <= size
  BY <1>1, EndsAre
<1>4. zip.at = "opening" /\ archive' = archive
      /\ zip' = [zip EXCEPT !.at = "searching", !.chunk = chunk, !.step = step, !.lastPos = size]
  BY <1>1 DEF Z!Opens
<1>5. Z!Reads(from, step)
  BY <1>1 DEF Z!Opens
<1>6. zip.emitted = <<>> /\ zip.entry = 0 /\ zip.io /\ Listed(archive, zip.emitted)
  BY <1>4 DEF ReaderInv
<1>7. chunk = Z!Least(c, size) /\ step = Z!Least(FirstWindow, chunk)
  OBVIOUS
<1>8. from = size - step
  OBVIOUS
<1> HIDE DEF size, chunk, step, from
<1>9. chunk \in Nat /\ chunk >= 2 /\ chunk <= size /\ step \in Nat /\ step > 0 /\ step <= chunk
  BY <1>1, <1>2, <1>3, <1>7 DEF Z!Least
<1>10. from \in Nat
  BY <1>1, <1>8, <1>9
<1>11. /\ window' \in Windows /\ window'.position = from /\ Len(window'.buffer) = step
       /\ window'.got = Z!Least(step, Size(archive) - from) /\ Shows(archive, window')
  BY <1>1, <1>5, <1>9, <1>10, ReadsShow
<1>12. zip' \in Zips /\ zip'.at = "searching" /\ zip'.chunk = chunk /\ zip'.step = step /\ zip'.lastPos = size
       /\ zip'.emitted = zip.emitted /\ zip'.entry = 0 /\ zip'.io
  BY <1>1, <1>4, <1>6, <1>9 DEF Zips
<1>13. window'.got > 0 /\ window'.position + Len(window'.buffer) = size
  BY <1>1, <1>8, <1>9, <1>11 DEF Z!Least, size
<1>14. Searching(archive, window', zip')
  <2>1. End(archive) < zip'.lastPos /\ zip'.step > 0 /\ zip'.emitted = <<>> /\ zip'.entry = 0
    BY <1>1, <1>3, <1>6, <1>9, <1>12
  <2> QED BY <1>13, <2>1 DEF Searching, size
<1>15. zip'.chunk >= 2 /\ zip'.chunk <= Size(archive)
  BY <1>9, <1>12 DEF size
<1> QED BY <1>1, <1>4, <1>6, <1>11, <1>12, <1>14, <1>15 DEF ReaderInv

\* Where the window covers the end record, the search finds it.
LEMMA FoundThere ==
    ASSUME ReaderInv, zip.at = "searching", window.position <= End(archive)
    PROVE  Z!Found
<1> DEFINE p == window.position  b == window.buffer  e == End(archive)  size == Size(archive)  k == e - p + 1
<1>1. archive \in Archives /\ p \in Nat /\ b \in Seq(Int) /\ Len(b) \in Nat /\ e \in Nat /\ size \in Nat
      /\ Z!MinPos = Lowest(archive) /\ Z!EndAt = e /\ zip.lastPos \in Nat /\ Lowest(archive) \in Nat
  BY ReaderFacts
<1>2. e + 2 <= size /\ Lowest(archive) <= e
  BY <1>1, EndsAre
<1>3. p + Len(b) = size /\ e < zip.lastPos
  BY DEF ReaderInv, Searching
<1>4. \A i \in 1..Len(b) : p + i - 1 < size => b[i] = p + i - 1
  BY DEF ReaderInv, Shows
<1>5. DOMAIN b = 1..Len(b) /\ p <= e /\ k = e - p + 1
  BY <1>1
<1> HIDE DEF p, b, e, size, k
<1>6. k \in 1..Len(b) /\ k + 1 \in 1..Len(b) /\ p + k - 1 = e /\ p + (k + 1) - 1 = e + 1 /\ e < size /\ e + 1 < size
  <2>1. p \in Nat /\ Len(b) \in Nat /\ e \in Nat /\ size \in Nat /\ e + 2 <= size /\ p + Len(b) = size /\ p <= e
    BY <1>1, <1>2, <1>3, <1>5
  <2>2. k = e - p + 1
    BY <1>5
  <2> QED BY <2>1, <2>2
<1>7. b[k] = e /\ b[k + 1] = e + 1
  BY <1>4, <1>6
<1>8. Z!SignatureIn(b, k)
  BY <1>1, <1>5, <1>6, <1>7 DEF Z!SignatureIn
<1>9. e \in Z!MinPos..(zip.lastPos - 1) /\ e >= p
  <2>1. Z!MinPos <= e /\ Z!MinPos \in Nat
    BY <1>1, <1>2
  <2> QED BY <1>1, <1>3, <1>5, <2>1
<1> QED BY <1>5, <1>8, <1>9 DEF Z!Found, p, b

LEMMA SearchedReader ==
    ASSUME ReaderInv, Z!Searched
    PROVE  ReaderInv'
<1> DEFINE p == window.position  e == End(archive)  low == Lowest(archive)  size == Size(archive)
           pos == (IF window.position > Z!MinPos THEN window.position ELSE Z!MinPos) - 1
           length == Z!Least(2 * zip.step, pos - Z!MinPos)
<1>1. archive \in Archives /\ window \in Windows /\ zip \in Zips /\ p \in Nat /\ e \in Nat /\ size \in Nat /\ low \in Nat
      /\ Len(window.buffer) \in Nat /\ zip.step \in Nat /\ Z!MinPos = low
  BY ReaderFacts
<1>2. low <= e
  BY <1>1, EndsAre
<1>3. zip.at = "searching" /\ ~Z!Found /\ archive' = archive
  BY DEF Z!Searched
<1>4. IF pos <= Z!MinPos THEN zip' = [zip EXCEPT !.at = "failed", !.io = FALSE] /\ UNCHANGED window
      ELSE zip' = [zip EXCEPT !.lastPos = pos + 1, !.step = 2 * @] /\ Z!ExpandLeft(length)
  BY DEF Z!Searched
<1>5. e < p
  BY <1>1, <1>3, FoundThere
<1>6. /\ p + Len(window.buffer) = size /\ zip.step > 0 /\ zip.emitted = <<>> /\ zip.entry = 0 /\ Shows(archive, window)
      /\ zip.chunk >= 2 /\ zip.chunk <= Size(archive) /\ Listed(archive, zip.emitted) /\ zip.io
  BY <1>3 DEF ReaderInv, Searching
<1>7. pos = p - 1
  BY <1>1, <1>2, <1>5
<1>8. length = Z!Least(2 * zip.step, pos - low)
  BY <1>1
<1> HIDE DEF p, e, low, size, pos, length
<1>9. ASSUME pos <= low PROVE ReaderInv'
  <2>1. e = low
    <3> QED BY <1>1, <1>2, <1>5, <1>7, <1>9
  <2>2. zip' = [zip EXCEPT !.at = "failed", !.io = FALSE] /\ window' = window
    BY <1>1, <1>4, <1>9
  <2>3. zip' \in Zips /\ zip'.at = "failed" /\ zip'.emitted = zip.emitted
    BY <1>1, <2>2 DEF Zips
  <2> QED BY <1>1, <1>3, <1>6, <2>1, <2>2, <2>3 DEF ReaderInv, e, low
<1>10. ASSUME ~(pos <= low) PROVE ReaderInv'
  <2>1. zip' = [zip EXCEPT !.lastPos = pos + 1, !.step = 2 * @] /\ Z!ExpandLeft(length)
    BY <1>1, <1>4, <1>10
  <2>2. length \in Nat /\ length > 0 /\ length <= p
    BY <1>1, <1>6, <1>7, <1>8, <1>10 DEF Z!Least
  <2>3. /\ window' \in Windows /\ window'.position = window.position - length
        /\ Len(window'.buffer) = length + Len(window.buffer)
        /\ window'.got = Z!Least(length, Size(archive) - (window.position - length)) /\ Shows(archive, window')
    BY <1>1, <1>6, <2>1, <2>2, ExpandShows DEF p
  <2>4. window'.position + Len(window'.buffer) = size
    BY <1>1, <1>6, <2>2, <2>3 DEF p
  <2>5. window'.got > 0
    <3>1. window'.got = Z!Least(length, size - (p - length)) /\ p <= size
      BY <1>1, <1>6, <2>3 DEF p, size
    <3> QED BY <1>1, <2>2, <3>1 DEF Z!Least
  <2>6. pos + 1 \in Nat /\ 2 * zip.step \in Nat /\ 2 * zip.step > 0 /\ e < pos + 1
    BY <1>1, <1>5, <1>6, <1>7
  <2>7. /\ zip' \in Zips /\ zip'.at = "searching" /\ zip'.chunk = zip.chunk /\ zip'.step = 2 * zip.step /\ zip'.lastPos = pos + 1
        /\ zip'.emitted = zip.emitted /\ zip'.entry = zip.entry /\ zip'.io = zip.io
    BY <1>1, <1>3, <2>1, <2>6 DEF Zips
  <2>8. Searching(archive, window', zip')
    BY <1>6, <2>4, <2>5, <2>6, <2>7 DEF Searching, e, size
  <2> QED BY <1>1, <1>3, <1>6, <2>3, <2>7, <2>8 DEF ReaderInv
<1> QED BY <1>9, <1>10

LEMMA FindsReader ==
    ASSUME ReaderInv, Z!FindsDirectory
    PROVE  ReaderInv'
<1> DEFINE size == Size(archive)  pad == archive.pad  n == Len(archive.names)  length == Z!Least(zip.chunk, size - pad)
<1>1. archive \in Archives /\ zip \in Zips /\ Z!FileSize = size /\ size \in Nat
  BY ReaderFacts
<1>2. pad \in Nat /\ n \in Nat /\ Z!Headers(archive)[1] = pad
  BY <1>1, HeadersAre
<1>3. pad + 2 <= size
  <2>1. End(archive) \in Nat /\ pad <= End(archive) /\ End(archive) + 2 <= size
    BY <1>1, EndsAre
  <2> QED BY <1>1, <1>2, <2>1
<1>4. zip.at = "searching" /\ archive' = archive /\ zip' = [zip EXCEPT !.at = "entries", !.pos = pad, !.left = n]
  BY DEF Z!FindsDirectory
<1>5. Z!Reads(pad, length)
  BY <1>1 DEF Z!FindsDirectory
<1>6. /\ zip.emitted = <<>> /\ zip.entry = 0 /\ zip.io /\ Listed(archive, zip.emitted)
      /\ zip.chunk \in Nat /\ zip.chunk >= 2 /\ zip.chunk <= Size(archive)
  BY <1>1, <1>4 DEF ReaderInv, Searching, Zips
<1>7. length = Z!Least(zip.chunk, size - pad)
  OBVIOUS
<1> HIDE DEF size, pad, n, length
<1>8. length \in Nat /\ length >= 2 /\ length <= size - pad
  BY <1>1, <1>2, <1>3, <1>6, <1>7 DEF Z!Least
<1>9. /\ window' \in Windows /\ window'.position = pad /\ Len(window'.buffer) = length
      /\ window'.got = Z!Least(length, Size(archive) - pad) /\ Shows(archive, window')
  BY <1>1, <1>2, <1>5, <1>8, ReadsShow
<1>10. window'.got > 0
  BY <1>1, <1>2, <1>8, <1>9 DEF Z!Least, size
<1>11. /\ zip' \in Zips /\ zip'.at = "entries" /\ zip'.pos = pad /\ zip'.left = n /\ zip'.chunk = zip.chunk
       /\ zip'.emitted = <<>> /\ zip'.entry = 0 /\ zip'.io /\ zip'.emitted = zip.emitted
  BY <1>1, <1>2, <1>4, <1>6 DEF Zips
<1>12. Walking(archive, window', zip')
  <2>1. Len(window'.buffer) = Z!Least(zip'.chunk, Size(archive) - archive.pad)
    BY <1>7, <1>9, <1>11 DEF size, pad
  <2>2. archive.pad <= window'.position /\ window'.position <= zip'.pos /\ zip'.pos <= window'.position + Len(window'.buffer)
    BY <1>2, <1>8, <1>9, <1>11 DEF pad
  <2>3. Len(zip'.emitted) = 0
    BY <1>11
  <2>4. zip'.left + Len(zip'.emitted) = Len(archive.names)
    BY <1>2, <1>11, <2>3 DEF n
  <2>5. zip'.pos = Z!Headers(archive)[Len(zip'.emitted) + 1] /\ zip'.pos + 2 <= window'.position + Len(window'.buffer)
    BY <1>2, <1>8, <1>9, <1>11, <2>3
  <2>6. ~(window'.got <= 0)
    <3>1. window'.got \in Int
      BY <1>9 DEF Windows
    <3> QED BY <1>10, <3>1
  <2> QED BY <1>11, <2>1, <2>2, <2>4, <2>5, <2>6 DEF Walking
<1> QED BY <1>1, <1>4, <1>6, <1>9, <1>11, <1>12 DEF ReaderInv

\* What is known while entries are read.
LEMMA WalkingFacts ==
    ASSUME ReaderInv, zip.at = "entries"
    PROVE  /\ Walking(archive, window, zip) /\ Shows(archive, window) /\ Listed(archive, zip.emitted) /\ zip.io
           /\ zip.chunk >= 2 /\ zip.chunk <= Size(archive)
           /\ zip.left > 0 => /\ Len(zip.emitted) + 1 \in 1..Len(archive.names)
                              /\ archive.names[Len(zip.emitted) + 1] \in Nat /\ Z!Headers(archive)[Len(zip.emitted) + 1] \in Nat
                              /\ Needs(archive, Len(zip.emitted) + 1) \in Nat
                              /\ archive.pad <= Z!Headers(archive)[Len(zip.emitted) + 1]
                              /\ Z!Headers(archive)[Len(zip.emitted) + 1] + 2 + Needs(archive, Len(zip.emitted) + 1) <= Size(archive)
<1>1. /\ Walking(archive, window, zip) /\ Shows(archive, window) /\ Listed(archive, zip.emitted) /\ zip.io
      /\ zip.chunk >= 2 /\ zip.chunk <= Size(archive)
  BY DEF ReaderInv
<1>2. archive \in Archives /\ zip.left \in Nat /\ Len(zip.emitted) \in Nat
  BY ReaderFacts
<1>3. Len(archive.names) \in Nat /\ zip.left + Len(zip.emitted) = Len(archive.names)
  BY <1>1, <1>2, HeadersAre DEF Walking
<1>4. zip.left > 0 => Len(zip.emitted) + 1 \in 1..Len(archive.names)
  BY <1>2, <1>3
<1> DEFINE i == Len(zip.emitted) + 1
<1>5. zip.left > 0 => i \in 1..Len(archive.names)
  BY <1>4
<1> HIDE DEF i
<1>6. zip.left > 0 => /\ archive.names[i] \in Nat /\ Z!Headers(archive)[i] \in Nat /\ Needs(archive, i) \in Nat
                      /\ archive.pad <= Z!Headers(archive)[i] /\ Z!Headers(archive)[i] + 2 + Needs(archive, i) <= Size(archive)
  BY <1>2, <1>5, EndsAre
<1> QED BY <1>1, <1>4, <1>6 DEF i

LEMMA ReadsHeaderReader ==
    ASSUME ReaderInv, Z!ReadsHeader
    PROVE  ReaderInv'
<1> DEFINE i == Len(zip.emitted) + 1  h == Z!Headers(archive)  two == 2
<1>1. archive \in Archives /\ window \in Windows /\ zip \in Zips /\ zip.pos \in Nat /\ window.position \in Nat
      /\ Len(window.buffer) \in Nat /\ Size(archive) \in Nat /\ Len(zip.emitted) \in Nat /\ archive.names \in Seq(Nat)
  BY ReaderFacts, HeadersAre
<1>2. zip.at = "entries" /\ zip.left > 0 /\ zip.entry = 0 /\ archive' = archive /\ window' = window
  BY DEF Z!ReadsHeader, Z!Parsing
<1>3. /\ Walking(archive, window, zip) /\ Shows(archive, window) /\ Listed(archive, zip.emitted) /\ zip.io
      /\ zip.chunk >= 2 /\ zip.chunk <= Size(archive)
      /\ i \in 1..Len(archive.names) /\ h[i] \in Nat /\ Needs(archive, i) \in Nat /\ h[i] + 2 + Needs(archive, i) <= Size(archive)
  BY <1>2, WalkingFacts
<1>4. zip.pos = h[i] /\ zip.pos + 2 <= window.position + Len(window.buffer) /\ window.position <= zip.pos
  BY <1>2, <1>3 DEF Walking
<1>5. two \in Nat /\ two = 2 /\ Z!CenHdr = two /\ DOMAIN archive.names = 1..Len(archive.names)
  BY <1>1 DEF Z!CenHdr
<1> HIDE DEF i, h, two
<1>6. zip.pos + two <= window.position + Len(window.buffer) /\ zip.pos + two <= Size(archive)
  BY <1>1, <1>3, <1>4, <1>5
<1>7. Z!Held(two) = Z!Bytes(zip.pos, two)
  BY <1>1, <1>3, <1>4, <1>5, <1>6, HeldIs
<1>8. ASSUME NEW j \in 1..Len(archive.names)
      PROVE  Z!Held(Z!CenHdr) = Z!Bytes(Z!HeaderAt(j), Z!CenHdr) <=> j = i
  <2>1. Z!Held(Z!CenHdr) = Z!Bytes(h[i], two) /\ Z!HeaderAt(j) = h[j]
    BY <1>4, <1>5, <1>7 DEF Z!HeaderAt, h
  <2>2. ASSUME Z!Bytes(h[i], two) = Z!Bytes(h[j], two) PROVE h[i] = h[j]
    <3>1. h[j] \in Nat
      BY <1>1, EndsAre DEF h
    <3>2. Z!Bytes(h[i], two)[1] = h[i] /\ Z!Bytes(h[j], two)[1] = h[j]
      BY <1>3, <1>5, <3>1 DEF Z!Bytes
    <3> QED BY <2>2, <3>2
  <2>3. h[i] = h[j] => i = j
    BY <1>1, <1>3, HeadersApart DEF h
  <2> QED BY <1>5, <2>1, <2>2, <2>3
<1>9. \E j \in DOMAIN archive.names : Z!Held(Z!CenHdr) = Z!Bytes(Z!HeaderAt(j), Z!CenHdr)
  BY <1>3, <1>5, <1>8
<1>10. (CHOOSE j \in DOMAIN archive.names : Z!Held(Z!CenHdr) = Z!Bytes(Z!HeaderAt(j), Z!CenHdr)) = i
  BY <1>3, <1>5, <1>8
<1>11. zip' = [zip EXCEPT !.pos = @ + Z!CenHdr,
                  !.entry = CHOOSE j \in DOMAIN archive.names : Z!Held(Z!CenHdr) = Z!Bytes(Z!HeaderAt(j), Z!CenHdr)]
  BY <1>9 DEF Z!ReadsHeader
<1>12. zip' = [zip EXCEPT !.pos = @ + 2, !.entry = i]
  BY <1>5, <1>10, <1>11
<1>13. i \in Nat /\ i # 0 /\ zip.pos + 2 \in Nat
  BY <1>1, <1>3
<1>14. /\ zip' \in Zips /\ zip'.at = "entries" /\ zip'.pos = zip.pos + 2 /\ zip'.entry = i /\ zip'.chunk = zip.chunk
       /\ zip'.left = zip.left /\ zip'.emitted = zip.emitted /\ zip'.io = zip.io
  BY <1>1, <1>2, <1>12, <1>13 DEF Zips
<1>15. Walking(archive, window, zip')
  <2>1. zip'.pos = h[i] + 2 /\ window.position <= zip'.pos /\ zip'.pos <= window.position + Len(window.buffer)
    BY <1>1, <1>4, <1>14
  <2> QED BY <1>2, <1>3, <1>13, <1>14, <2>1 DEF Walking, i, h
<1> QED BY <1>1, <1>2, <1>3, <1>14, <1>15 DEF ReaderInv

\* What an entry needs of the window, as the reader reckons it.
LEMMA AdvanceIs ==
    ASSUME ReaderInv, zip.at = "entries", zip.left > 0, zip.entry # 0
    PROVE  /\ zip.entry = Len(zip.emitted) + 1 /\ zip.pos = Z!Headers(archive)[zip.entry] + 2
           /\ Z!Advance = Needs(archive, zip.entry) /\ (zip.left > 1 <=> zip.entry < Len(archive.names))
           /\ Z!Enough <=> zip.pos + Needs(archive, zip.entry) <= window.position + Len(window.buffer)
<1>1. /\ archive \in Archives /\ zip.left \in Nat /\ Len(zip.emitted) \in Nat /\ Len(archive.names) \in Nat
      /\ zip.pos \in Nat /\ window.position \in Nat /\ Len(window.buffer) \in Nat
  BY ReaderFacts, HeadersAre
<1>2. zip.entry = Len(zip.emitted) + 1 /\ zip.pos = Z!Headers(archive)[zip.entry] + 2
      /\ zip.left + Len(zip.emitted) = Len(archive.names)
  BY WalkingFacts DEF Walking
<1>3. zip.left > 1 <=> zip.entry < Len(archive.names)
  BY <1>1, <1>2
<1>4. Z!Advance = Needs(archive, zip.entry)
  BY <1>3 DEF Z!Advance, Needs, Z!CenHdr
<1>5. Needs(archive, zip.entry) \in Nat
  BY <1>2, WalkingFacts
<1>6. Z!Enough <=> Len(window.buffer) - (zip.pos - window.position) >= Needs(archive, zip.entry)
  BY <1>4 DEF Z!Enough, Z!BufferPos
<1>7. Z!Enough <=> zip.pos + Needs(archive, zip.entry) <= window.position + Len(window.buffer)
  BY <1>1, <1>5, <1>6
<1> QED BY <1>2, <1>3, <1>4, <1>7

\* Storing an entry under its name.
LEMMA PutTyped ==
    ASSUME NEW map \in EntryMaps, NEW name \in Nat, NEW e \in Nat \X Seq(Int)
    PROVE  Z!Put(map, name, e) \in EntryMaps
<1>1. PICK names \in SUBSET Nat : map \in [names -> Nat \X Seq(Int)]
  BY DEF EntryMaps
<1>2. Z!Put(map, name, e) \in [names \cup {name} -> Nat \X Seq(Int)]
  BY <1>1 DEF Z!Put
<1>3. names \cup {name} \in SUBSET Nat
  BY <1>1
<1> QED BY <1>2, <1>3 DEF EntryMaps

LEMMA ReadsNameReader ==
    ASSUME ReaderInv, Z!ReadsName
    PROVE  ReaderInv'
<1> DEFINE i == zip.entry  h == Z!Headers(archive)  n == archive.names[zip.entry]  total == Len(archive.names)
           bytes == Z!Bytes(zip.pos, n)  old == zip.emitted  new == <<i, bytes>>
           need == Needs(archive, zip.entry)  p == window.position  long == Len(window.buffer)  size == Size(archive)  q == zip.pos
           count == Len(zip.emitted)
<1>1. archive \in Archives /\ window \in Windows /\ zip \in Zips /\ zip.pos \in Nat /\ window.position \in Nat /\ window.got \in Int
      /\ Len(window.buffer) \in Nat /\ Size(archive) \in Nat /\ Len(old) \in Nat /\ old \in Seq(Nat \X Seq(Int)) /\ total \in Nat
      /\ zip.left \in Nat
  BY ReaderFacts, HeadersAre
<1>2. zip.at = "entries" /\ zip.left > 0 /\ zip.entry # 0 /\ archive' = archive /\ window' = window /\ Z!Enough
      /\ zip' = [zip EXCEPT !.emitted = Append(@, <<zip.entry, Z!Held(n)>>),
                            !.entryMap = Z!Put(@, archive.called[zip.entry], <<zip.entry, Z!Held(n)>>),
                            !.entry = 0, !.left = @ - 1, !.pos = @ + n]
      /\ window.got > 0
  BY DEF Z!ReadsName, Z!Parsing
<1>3. i = Len(old) + 1 /\ zip.pos = h[i] + 2 /\ (zip.left > 1 <=> i < total)
      /\ zip.pos + Needs(archive, i) <= window.position + Len(window.buffer)
  BY <1>2, AdvanceIs
<1>4. /\ Walking(archive, window, zip) /\ Shows(archive, window) /\ Listed(archive, old) /\ zip.io
      /\ zip.chunk >= 2 /\ zip.chunk <= Size(archive)
      /\ i \in 1..total /\ n \in Nat /\ h[i] \in Nat /\ Needs(archive, i) \in Nat /\ h[i] + 2 + Needs(archive, i) <= Size(archive)
  BY <1>2, <1>3, WalkingFacts
<1>5. i < total => h[i + 1] = h[i] + 2 + n
  BY <1>1, <1>4, EndsAre
<1>6. Needs(archive, i) = n + (IF i < total THEN 2 ELSE 0)
  BY DEF Needs
<1>7. window.position <= zip.pos /\ zip.left + Len(old) = total /\ Len(window.buffer) = Z!Least(zip.chunk, Size(archive) - archive.pad)
      /\ archive.pad <= window.position
  BY <1>4 DEF Walking
<1>19. q \in Nat /\ p \in Nat /\ long \in Nat /\ size \in Nat /\ n \in Nat /\ need \in Nat /\ h[i] \in Nat /\ count \in Nat
       /\ zip.left \in Nat /\ total \in Nat
  BY <1>1, <1>4
<1>20. q = h[i] + 2 /\ q + need <= p + long /\ h[i] + 2 + need <= size /\ p <= q
  BY <1>3, <1>4, <1>7
<1> HIDE DEF i, h, n, total, bytes, old, new, need, p, long, size, q, count
<1>21. n <= need
  <2>1. need = n + (IF i < total THEN 2 ELSE 0)
    BY <1>6 DEF need, i
  <2>2. need = n + 2 \/ need = n + 0
    BY <2>1
  <2> QED BY <1>19, <2>2
<1>22. q + n <= p + long /\ q + n <= size /\ p <= q + n
  BY <1>19, <1>20, <1>21
<1>8. zip.pos + n <= window.position + Len(window.buffer) /\ zip.pos + n <= Size(archive)
  BY <1>22 DEF q, p, long, size
<1>9. Z!Held(n) = Z!Bytes(zip.pos, n) /\ Z!Held(n) \in Seq(Int)
  BY <1>1, <1>4, <1>7, <1>8, HeldIs
<1>10. bytes \in Seq(Int) /\ new \in Nat \X Seq(Int) /\ Z!Held(n) = bytes
  BY <1>4, <1>9 DEF bytes, new
<1> DEFINE map == Z!Put(zip.entryMap, archive.called[i], new)
<1>11. zip' = [zip EXCEPT !.emitted = Append(old, new), !.entryMap = map, !.entry = 0, !.left = @ - 1, !.pos = @ + n]
  BY <1>2, <1>10 DEF new, old, i
<1>28. map \in EntryMaps
  <2>1. zip.entryMap \in EntryMaps
    BY <1>1 DEF Zips
  <2>3. archive.called \in Seq(Nat) /\ Len(archive.called) = total
    BY <1>1 DEF Archives, total
  <2>4. i \in 1..total
    BY <1>4
  <2>2. archive.called[i] \in Nat
    BY <2>3, <2>4
  <2> QED BY <1>10, <2>1, <2>2, PutTyped
<1> HIDE DEF map
<1> DEFINE listed == Append(old, new)
<1>12. /\ listed \in Seq(Nat \X Seq(Int)) /\ Len(listed) = Len(old) + 1 /\ listed[Len(old) + 1] = new
       /\ \A k \in 1..Len(old) : listed[k] = old[k]
  BY <1>1, <1>10
<1>13. listed = Append(old, new)
  OBVIOUS
<1> HIDE DEF listed
<1>14. zip.left - 1 \in Nat /\ zip.pos + n \in Nat
  BY <1>1, <1>2, <1>4
<1> DEFINE left == zip.left - 1  next == zip.pos + n
<1>23. zip' = [zip EXCEPT !.emitted = listed, !.entryMap = map, !.entry = 0, !.left = left, !.pos = next]
  BY <1>11, <1>13
<1>24. left \in Nat /\ next \in Nat
  BY <1>14
<1>25. left = zip.left - 1 /\ next = zip.pos + n
  OBVIOUS
<1> HIDE DEF left, next
<1>26. zip \in Zips /\ zip.at = "entries" /\ listed \in Seq(Nat \X Seq(Int))
  BY <1>1, <1>2, <1>12
<1>27. /\ zip' \in Zips /\ zip'.at = "entries" /\ zip'.pos = next /\ zip'.entry = 0 /\ zip'.chunk = zip.chunk
       /\ zip'.left = left /\ zip'.emitted = listed /\ zip'.io = zip.io
  BY <1>23, <1>24, <1>26, <1>28 DEF Zips
<1>15. /\ zip' \in Zips /\ zip'.at = "entries" /\ zip'.pos = zip.pos + n /\ zip'.entry = 0 /\ zip'.chunk = zip.chunk
       /\ zip'.left = zip.left - 1 /\ zip'.emitted = listed /\ zip'.io = zip.io
  BY <1>25, <1>27
<1>16. Listed(archive, listed)
  <2>1. DOMAIN listed = 1..(Len(old) + 1) /\ DOMAIN old = 1..Len(old)
    BY <1>1, <1>12
  <2>2. \A k \in 1..Len(old) : k \in 1..total /\ old[k] = <<k, Z!Bytes(h[k] + 2, archive.names[k])>>
    BY <1>4, <2>1 DEF Listed, h, total
  <2>3. new = <<i, Z!Bytes(h[i] + 2, archive.names[i])>>
    BY <1>3 DEF new, bytes, n, i
  <2>4. ASSUME NEW k \in 1..(Len(old) + 1) PROVE k \in 1..total /\ listed[k] = <<k, Z!Bytes(h[k] + 2, archive.names[k])>>
    <3>1. CASE k = Len(old) + 1
      BY <1>3, <1>4, <1>12, <2>3, <3>1
    <3>2. CASE k # Len(old) + 1
      <4>1. k \in 1..Len(old)
        BY <1>1, <3>2
      <4> QED BY <1>12, <2>2, <4>1
    <3> QED BY <3>1, <3>2
  <2> QED BY <2>1, <2>4 DEF Listed, h, total
<1>17. Walking(archive, window, zip')
  <2>1. window.position <= zip'.pos /\ zip'.pos <= window.position + Len(window.buffer)
    BY <1>15, <1>22 DEF q, p, long
  <2>2. zip'.left + Len(zip'.emitted) = total
    <3>1. zip'.left = zip.left - 1 /\ Len(zip'.emitted) = count + 1 /\ zip.left + count = total
      BY <1>7, <1>12, <1>15 DEF count, old
    <3> QED BY <1>19, <3>1
  <2>3. ASSUME zip'.left > 0
        PROVE  zip'.pos = h[Len(zip'.emitted) + 1] /\ zip'.pos + 2 <= window.position + Len(window.buffer)
    <3>1. i < total
      BY <1>1, <1>3, <1>15, <2>3
    <3>2. Needs(archive, i) = n + 2 /\ h[i + 1] = h[i] + 2 + n /\ Len(zip'.emitted) + 1 = i + 1
      BY <1>3, <1>5, <1>6, <1>12, <1>15, <3>1
    <3>4. zip'.pos = q + n /\ need = n + 2
      BY <1>15, <3>2 DEF q, need, i
    <3>5. zip'.pos = h[i] + 2 + n /\ zip'.pos + 2 <= p + long
      BY <1>19, <1>20, <3>4
    <3>3. zip'.pos = h[i] + 2 + n /\ zip'.pos + 2 <= window.position + Len(window.buffer)
      BY <3>5 DEF p, long
    <3> QED BY <3>2, <3>3
  <2>4. ~(window.got <= 0)
    BY <1>1, <1>2
  <2> QED BY <1>7, <1>15, <2>1, <2>2, <2>3, <2>4 DEF Walking, h, total
<1> QED BY <1>1, <1>2, <1>4, <1>15, <1>16, <1>17 DEF ReaderInv

LEMMA MovesReader ==
    ASSUME ReaderInv, Z!Moves
    PROVE  ReaderInv'
<1> DEFINE i == zip.entry  h == Z!Headers(archive)  total == Len(archive.names)  size == Size(archive)  need == Needs(archive, zip.entry)
           shift == Z!BufferPos  p == window.position  long == Len(window.buffer)  pad == archive.pad
<1>1. archive \in Archives /\ window \in Windows /\ zip.pos \in Nat /\ p \in Nat
      /\ long \in Nat /\ size \in Nat /\ pad \in Nat /\ zip.chunk \in Nat
  BY ReaderFacts, HeadersAre
<1>2. zip.at = "entries" /\ zip.left > 0 /\ zip.entry # 0 /\ archive' = archive /\ zip' = zip /\ ~Z!Enough
  BY DEF Z!Moves, Z!Parsing
<1>3. Z!MoveRight(shift)
  BY DEF Z!Moves
<1>4. i = Len(zip.emitted) + 1 /\ zip.pos = h[i] + 2 /\ ~(zip.pos + need <= p + long)
  BY <1>2, AdvanceIs
<1>5. /\ Walking(archive, window, zip) /\ Shows(archive, window)
      /\ i \in 1..total /\ h[i] \in Nat /\ need \in Nat /\ h[i] + 2 + need <= size /\ pad <= h[i]
  BY <1>2, <1>4, WalkingFacts
<1>6. long = Z!Least(zip.chunk, size - pad) /\ pad <= p /\ p <= zip.pos /\ zip.pos <= p + long
  BY <1>5 DEF Walking
<1>7. shift = zip.pos - p
  BY DEF Z!BufferPos
<1> HIDE DEF i, h, total, size, need, shift, p, long, pad
<1>8. shift \in 0..long
  BY <1>1, <1>6, <1>7
<1>9. /\ window' \in Windows /\ window'.position = window.position + shift
      /\ Len(window'.buffer) = Len(window.buffer)
      /\ window'.got = Z!Least(shift, Size(archive) - (window.position + Len(window.buffer))) /\ Shows(archive, window')
  <2>1. shift \in 0..Len(window.buffer)
    BY <1>8 DEF long
  <2> QED BY <1>1, <1>3, <1>5, <2>1, MoveShows
<1>10. window'.position = zip.pos /\ Len(window'.buffer) = long /\ window'.got = Z!Least(shift, size - (p + long))
  <2>1. window'.position = p + shift
    BY <1>9 DEF p
  <2> QED BY <1>1, <1>7, <1>9, <2>1 DEF p, long, size
<1>11. ASSUME window'.got <= 0 PROVE need > zip.chunk
  <2>1. shift = 0 \/ size <= p + long
    BY <1>1, <1>8, <1>10, <1>11 DEF Z!Least
  <2>2. ~(size <= p + long)
    BY <1>1, <1>4, <1>5
  <2>3. zip.pos = p /\ need > long
    BY <1>1, <1>4, <1>5, <1>7, <2>1, <2>2
  <2>4. need <= size - pad
    BY <1>1, <1>5
  <2> QED BY <1>1, <1>5, <1>6, <2>3, <2>4 DEF Z!Least
<1>12. Walking(archive, window', zip)
  <2>1. Len(window'.buffer) = Z!Least(zip.chunk, Size(archive) - archive.pad)
    BY <1>6, <1>10 DEF size, pad
  <2>2. archive.pad <= window'.position /\ window'.position <= zip.pos /\ zip.pos <= window'.position + Len(window'.buffer)
    BY <1>1, <1>6, <1>10 DEF pad
  <2>3. window'.got <= 0 => \E k \in 1..Len(archive.names) : Needs(archive, k) > zip.chunk
    BY <1>5, <1>11 DEF need, total, i
  <2> QED BY <1>2, <1>5, <2>1, <2>2, <2>3 DEF Walking
<1> QED BY <1>1, <1>2, <1>9, <1>12 DEF ReaderInv

LEMMA EndsReader ==
    ASSUME ReaderInv, Z!Ready \/ Z!ReturnsNothing \/ Z!IoFails
    PROVE  ReaderInv'
<1>1. archive' = archive /\ window' = window
  BY DEF Z!Ready, Z!ReturnsNothing, Z!IoFails
<1>2. archive \in Archives /\ window \in Windows /\ zip \in Zips /\ Shows(archive, window) /\ Listed(archive, zip.emitted)
  BY DEF ReaderInv
<1>3. CASE Z!Ready
  <2>1. zip.at = "entries" /\ zip.left = 0 /\ zip' = [zip EXCEPT !.at = "ready"]
    BY <1>3 DEF Z!Ready
  <2>2. zip' \in Zips /\ zip'.at = "ready" /\ zip'.emitted = zip.emitted /\ zip'.io = zip.io
    BY <1>2, <2>1 DEF Zips
  <2>3. Len(zip.emitted) = Len(archive.names) /\ zip.io
    <3>1. zip.left + Len(zip.emitted) = Len(archive.names) /\ zip.io
      BY <2>1, WalkingFacts DEF Walking
    <3>2. Len(zip.emitted) \in Nat
      BY ReaderFacts
    <3> QED BY <2>1, <3>1, <3>2
  <2> QED BY <1>1, <1>2, <2>2, <2>3 DEF ReaderInv
<1>4. CASE Z!ReturnsNothing
  <2>1. zip.at \in {"searching", "entries"} /\ window.got <= 0 /\ zip' = [zip EXCEPT !.at = "failed", !.io = FALSE]
    BY <1>4 DEF Z!ReturnsNothing
  <2>2. zip.at # "searching"
    <3>1. zip.at = "searching" => window.got > 0
      BY DEF ReaderInv, Searching
    <3>2. window.got \in Int
      BY ReaderFacts
    <3> QED BY <2>1, <3>1, <3>2
  <2>3. \E i \in 1..Len(archive.names) : Needs(archive, i) > zip.chunk
    BY <2>1, <2>2, WalkingFacts DEF Walking
  <2>4. zip' \in Zips /\ zip'.at = "failed" /\ zip'.emitted = zip.emitted /\ zip'.chunk = zip.chunk
    BY <1>2, <2>1 DEF Zips
  <2> QED BY <1>1, <1>2, <2>3, <2>4 DEF ReaderInv
<1>5. CASE Z!IoFails
  <2>1. zip.at \in {"opening", "searching", "entries"} /\ zip' = [zip EXCEPT !.at = "failed"]
    BY <1>5 DEF Z!IoFails
  <2>2. zip' \in Zips /\ zip'.at = "failed" /\ zip'.emitted = zip.emitted /\ zip'.io = zip.io
    BY <1>2, <2>1 DEF Zips
  <2>3. zip.io
    BY <2>1 DEF ReaderInv
  <2> QED BY <1>1, <1>2, <2>2, <2>3 DEF ReaderInv
<1> QED BY <1>3, <1>4, <1>5

LEMMA ReaderStep ==
    ASSUME ReaderInv, Z!ZipNext
    PROVE  ReaderInv'
<1>1. CASE \E c \in WindowSizes : Z!Opens(c)
  BY <1>1, OpensReader
<1>2. CASE Z!Searched \/ Z!FindsDirectory \/ Z!ReadsHeader \/ Z!ReadsName \/ Z!Moves
  BY <1>2, SearchedReader, FindsReader, ReadsHeaderReader, ReadsNameReader, MovesReader
<1>3. CASE Z!Ready \/ Z!ReturnsNothing \/ Z!IoFails
  BY <1>3, EndsReader
<1> QED BY <1>1, <1>2, <1>3 DEF Z!ZipNext

\* The map goes with the entries that are emitted.
LEMMA MapInitInv ==
    ASSUME Z!ZipInit
    PROVE  MapInv
<1>1. zip.emitted = <<>> /\ zip.entryMap = <<>>
  BY DEF Z!ZipInit
<1> QED BY <1>1 DEF MapInv

LEMMA ReadsNameMap ==
    ASSUME ReaderInv, MapInv, Z!ReadsName
    PROVE  MapInv'
<1> DEFINE i == zip.entry  called == archive.called  old == zip.emitted  map == zip.entryMap  n == Len(zip.emitted)
           e == <<zip.entry, Z!Held(archive.names[zip.entry])>>  new == Append(zip.emitted, e)  after == Z!Put(map, called[i], e)
<1>1. zip \in Zips /\ old \in Seq(Nat \X Seq(Int)) /\ n \in Nat
  BY ReaderFacts
<1>2. zip.at = "entries" /\ zip.left > 0 /\ zip.entry # 0 /\ archive' = archive
      /\ zip' = [zip EXCEPT !.emitted = Append(@, e), !.entryMap = Z!Put(@, archive.called[zip.entry], e),
                            !.entry = 0, !.left = @ - 1, !.pos = @ + archive.names[zip.entry]]
  BY DEF Z!ReadsName, Z!Parsing
<1>3. i = n + 1
  BY <1>2, AdvanceIs
<1>4. zip'.emitted = new /\ zip'.entryMap = after
  <2>1. "emitted" \in DOMAIN zip /\ "entryMap" \in DOMAIN zip
    BY <1>1 DEF Zips
  <2> HIDE DEF e
  <2> QED BY <1>2, <2>1
<1>5. Len(new) = n + 1 /\ new[n + 1] = e /\ \A k \in 1..n : new[k] = old[k]
  BY <1>1
<1>6. DOMAIN after = DOMAIN map \cup {called[i]} /\ after[called[i]] = e
      /\ \A name \in DOMAIN map : name # called[i] => after[name] = map[name]
  BY DEF Z!Put
<1>7. DOMAIN map = {called[k] : k \in 1..n}
      /\ \A k \in 1..n : (\A j \in 1..n : called[j] = called[k] => j <= k) => map[called[k]] = old[k]
  BY DEF MapInv
<1> HIDE DEF called, old, map, e, new, after, i, n
<1>8. 1..(n + 1) = 1..n \cup {n + 1} /\ n + 1 \in 1..(n + 1) /\ \A k \in 1..n : ~(n + 1 <= k)
  BY <1>1
<1>9. DOMAIN after = {called[k] : k \in 1..(n + 1)}
  BY <1>3, <1>6, <1>7, <1>8
<1>10. ASSUME NEW k \in 1..(n + 1), \A j \in 1..(n + 1) : called[j] = called[k] => j <= k
       PROVE  after[called[k]] = new[k]
  <2>1. CASE k = n + 1
    BY <1>3, <1>5, <1>6, <2>1
  <2>2. CASE k # n + 1
    <3>1. k \in 1..n
      BY <1>8, <2>2
    <3>2. called[i] # called[k]
      BY <1>3, <1>8, <1>10, <3>1
    <3>3. map[called[k]] = old[k] /\ called[k] \in DOMAIN map
      BY <1>7, <1>8, <1>10, <3>1
    <3> QED BY <1>5, <1>6, <3>1, <3>2, <3>3
  <2> QED BY <2>1, <2>2
<1>11. archive'.called = called
  BY <1>2 DEF called
<1> QED BY <1>4, <1>5, <1>9, <1>10, <1>11 DEF MapInv

LEMMA MapStep ==
    ASSUME ReaderInv, MapInv, Z!ZipNext
    PROVE  MapInv'
<1>1. zip \in Zips
  BY DEF ReaderInv
<1>2. CASE Z!ReadsName
  BY <1>2, ReadsNameMap
<1>3. CASE ~Z!ReadsName
  <2>1. archive' = archive /\ zip'.emitted = zip.emitted /\ zip'.entryMap = zip.entryMap
    <3>1. ASSUME NEW c \in WindowSizes, Z!Opens(c) PROVE archive' = archive /\ zip'.emitted = zip.emitted /\ zip'.entryMap = zip.entryMap
      BY <1>1, <3>1 DEF Z!Opens, Zips
    <3>2. CASE Z!Searched
      BY <1>1, <3>2 DEF Z!Searched, Zips
    <3>3. CASE Z!FindsDirectory
      BY <1>1, <3>3 DEF Z!FindsDirectory, Zips
    <3>4. CASE Z!ReadsHeader
      BY <1>1, <3>4 DEF Z!ReadsHeader, Zips
    <3>5. CASE Z!Moves
      BY <1>1, <3>5 DEF Z!Moves, Zips
    <3>6. CASE Z!Ready \/ Z!ReturnsNothing \/ Z!IoFails
      BY <1>1, <3>6 DEF Z!Ready, Z!ReturnsNothing, Z!IoFails, Zips
    <3> QED BY <1>3, <3>1, <3>2, <3>3, <3>4, <3>5, <3>6 DEF Z!ZipNext
  <2> QED BY <2>1 DEF MapInv
<1> QED BY <1>2, <1>3

LEMMA MapSame ==
    ASSUME MapInv, UNCHANGED readerVars
    PROVE  MapInv'
BY DEF MapInv, readerVars

LEMMA ReaderSame ==
    ASSUME ReaderInv, UNCHANGED readerVars
    PROVE  ReaderInv'
BY DEF ReaderInv, readerVars

-----------------------------------------------------------------------------
(* MdnsBrowse: a sequence of records, one after the other.                            *)

Dns == [type : {"PTR"}, of : DnsInstances, val : {""}]
       \cup [type : {"SRV"}, of : DnsInstances, val : DnsHosts \X Nat]
       \cup [type : {"TXT"}, of : DnsInstances, val : STRING]
       \cup [type : {"A"}, of : DnsHosts, val : {"v4"} \X Nat]
       \cup [type : {"AAAA"}, of : DnsHosts, val : {"v6"} \X Nat]
Texts == {"none"} \cup STRING
Maps == [ptr : SUBSET DnsInstances, srv : [DnsInstances -> Seq(DnsHosts \X Nat)], txt : [DnsInstances -> Texts],
         addr : [DnsHosts -> Seq({"v4", "v6"} \X Nat)]]

NotedUpTo(f, m, rs, n) == [k \in 0..n |-> IF k = 0 THEN m ELSE B!Noted(f[k - 1], rs[k])]
HasNoted(m, rs, n) == \E f : f = NotedUpTo(f, m, rs, n)

LEMMA NotedThere ==
    ASSUME NEW m, NEW rs \in Seq(Dns)
    PROVE  \E f : f = NotedUpTo(f, m, rs, Len(rs)) /\ B!NotedAll(m, rs) = f[Len(rs)]
<1> DEFINE n == Len(rs)  S == {k \in 0..n : HasNoted(m, rs, k)}
<1>1. n \in Nat
  OBVIOUS
<1> HIDE DEF n
<1>2. 0 \in S
  <2> DEFINE g == [i \in 0..0 |-> m]
  <2>1. g = NotedUpTo(g, m, rs, 0)
    <3>1. \A i \in 0..0 : i = 0
      OBVIOUS
    <3> QED BY <3>1 DEF NotedUpTo
  <2>2. 0 \in 0..n
    BY <1>1
  <2> QED BY <2>1, <2>2 DEF HasNoted
<1>3. ASSUME NEW k \in 0..n, k \in S, k < n PROVE k + 1 \in S
  <2>1. PICK f : f = NotedUpTo(f, m, rs, k)
    BY <1>3 DEF HasNoted
  <2> DEFINE v == B!Noted(f[k], rs[k + 1])  g == [i \in 0..(k + 1) |-> IF i = k + 1 THEN v ELSE f[i]]
  <2>2. k + 1 \in 0..n /\ k \in Nat /\ 0..k = 0..(k + 1) \ {k + 1} /\ k \in 0..k
    BY <1>1, <1>3
  <2>3. \A i \in 0..k : f[i] = IF i = 0 THEN m ELSE B!Noted(f[i - 1], rs[i])
    BY <2>1 DEF NotedUpTo
  <2> HIDE DEF v
  <2>4. ASSUME NEW i \in 0..(k + 1)
        PROVE  g[i] = IF i = 0 THEN m ELSE B!Noted(g[i - 1], rs[i])
    <3>1. CASE i = k + 1
      <4>1. i # 0 /\ i - 1 = k /\ i - 1 \in 0..(k + 1) /\ i - 1 # k + 1
        BY <2>2, <3>1
      <4>2. g[i] = v /\ g[i - 1] = f[k]
        BY <3>1, <4>1
      <4> HIDE DEF g
      <4> QED BY <3>1, <4>1, <4>2 DEF v
    <3>2. CASE i # k + 1 /\ i = 0
      <4>1. i \in 0..k
        BY <2>2, <3>2
      <4> QED BY <2>3, <3>2, <4>1
    <3>3. CASE i # k + 1 /\ i # 0
      <4>1. i \in 0..k /\ i - 1 \in 0..(k + 1) /\ i - 1 # k + 1
        BY <2>2, <3>3
      <4>2. g[i] = f[i] /\ g[i - 1] = f[i - 1]
        BY <3>3, <4>1
      <4> HIDE DEF g
      <4> QED BY <2>3, <3>3, <4>1, <4>2
    <3> QED BY <3>1, <3>2, <3>3
  <2>5. g = [i \in 0..(k + 1) |-> g[i]]
    OBVIOUS
  <2> HIDE DEF g
  <2>6. g = NotedUpTo(g, m, rs, k + 1)
    BY <2>4, <2>5 DEF NotedUpTo
  <2> QED BY <2>2, <2>6 DEF HasNoted
<1>4. \A k \in 0..n : k \in S
  <2> HIDE DEF S
  <2> QED BY <1>1, <1>2, <1>3, AllUpTo
<1>5. \E f : f = NotedUpTo(f, m, rs, n)
  <2>1. n \in 0..n
    BY <1>1
  <2> QED BY <1>4, <2>1 DEF HasNoted
<1> DEFINE h == CHOOSE f : f = NotedUpTo(f, m, rs, n)
<1>6. h = NotedUpTo(h, m, rs, n)
  BY <1>5, Zenon
<1>7. B!NotedAll(m, rs) = h[n]
  BY Zenon DEF B!NotedAll, NotedUpTo, n
<1> HIDE DEF h
<1> QED BY <1>6, <1>7 DEF n

-----------------------------------------------------------------------------
(* MdnsBrowse: the maps are the records that were heard.                              *)

Contains(s, v) == \E k \in 1..Len(s) : s[k] = v

PtrKept(m, rs) == \A i \in DnsInstances : i \in m.ptr <=> \E r \in rs : r.type = "PTR" /\ r.of = i
SrvKept(m, rs) == \A i \in DnsInstances : \A v \in DnsHosts \X Nat :
                     Contains(m.srv[i], v) <=> \E r \in rs : r.type = "SRV" /\ r.of = i /\ r.val = v
AddrKept(m, rs) == \A h \in DnsHosts : \A v \in {"v4", "v6"} \X Nat :
                      Contains(m.addr[h], v) <=> \E r \in rs : r.type \in {"A", "AAAA"} /\ r.of = h /\ r.val = v
MapsKept(m, rs) == PtrKept(m, rs) /\ SrvKept(m, rs) /\ AddrKept(m, rs)

LEMMA AddedIs ==
    ASSUME NEW T, NEW s \in Seq(T), NEW x \in T
    PROVE  /\ B!Added(s, x) \in Seq(T)
           /\ \A v : Contains(B!Added(s, x), v) <=> Contains(s, v) \/ v = x
<1>1. CASE \E k \in 1..Len(s) : s[k] = x
  <2>1. B!Added(s, x) = s
    BY <1>1 DEF B!Added
  <2> QED BY <1>1, <2>1 DEF Contains
<1>2. CASE ~ \E k \in 1..Len(s) : s[k] = x
  <2> DEFINE t == Append(s, x)
  <2>1. B!Added(s, x) = t
    BY <1>2 DEF B!Added
  <2>2. t \in Seq(T) /\ Len(t) = Len(s) + 1 /\ t[Len(s) + 1] = x /\ \A k \in 1..Len(s) : t[k] = s[k]
    OBVIOUS
  <2>3. Len(s) \in Nat /\ 1..(Len(s) + 1) = 1..Len(s) \cup {Len(s) + 1}
    OBVIOUS
  <2> HIDE DEF t
  <2>4. ASSUME NEW v PROVE Contains(t, v) <=> Contains(s, v) \/ v = x
    BY <2>2, <2>3 DEF Contains
  <2> QED BY <2>1, <2>2, <2>4
<1> QED BY <1>1, <1>2

LEMMA NotedKeeps ==
    ASSUME NEW m \in Maps, NEW rs, NEW r \in Dns, MapsKept(m, rs)
    PROVE  B!Noted(m, r) \in Maps /\ MapsKept(B!Noted(m, r), rs \cup {r})
<1> DEFINE q == B!Noted(m, r)  all == rs \cup {r}
<1>1. m.ptr \subseteq DnsInstances /\ m.srv \in [DnsInstances -> Seq(DnsHosts \X Nat)]
      /\ m.txt \in [DnsInstances -> Texts] /\ m.addr \in [DnsHosts -> Seq({"v4", "v6"} \X Nat)]
  BY DEF Maps
<1>2. PtrKept(m, rs) /\ SrvKept(m, rs) /\ AddrKept(m, rs)
  BY DEF MapsKept
<1>3. \A x : x \in all <=> x \in rs \/ x = r
  OBVIOUS
<1> HIDE DEF all
<1>4. CASE r.type = "PTR"
  <2>1. r.of \in DnsInstances
    BY <1>4 DEF Dns
  <2>2. q = [m EXCEPT !.ptr = m.ptr \cup {r.of}]
    BY <1>4 DEF B!Noted, B!Entered
  <2> HIDE DEF q
  <2>3. q.ptr = m.ptr \cup {r.of} /\ q.srv = m.srv /\ q.addr = m.addr /\ q \in Maps
    <3>1. m.ptr \cup {r.of} \in SUBSET DnsInstances
      BY <1>1, <2>1
    <3> DEFINE ptr == m.ptr \cup {r.of}
    <3>2. q = [m EXCEPT !.ptr = ptr] /\ ptr \in SUBSET DnsInstances
      BY <2>2, <3>1
    <3> HIDE DEF ptr
    <3>3. q.ptr = ptr /\ q.srv = m.srv /\ q.addr = m.addr /\ q \in Maps
      BY <3>2 DEF Maps
    <3> QED BY <3>3 DEF ptr
  <2>4. PtrKept(q, all)
    BY <1>2, <1>3, <1>4, <2>3 DEF PtrKept
  <2>5. SrvKept(q, all)
    BY <1>2, <1>3, <1>4, <2>3 DEF SrvKept
  <2>6. AddrKept(q, all)
    BY <1>2, <1>3, <1>4, <2>3 DEF AddrKept
  <2> QED BY <2>3, <2>4, <2>5, <2>6 DEF MapsKept, q, all
<1>5. CASE r.type = "SRV"
  <2>1. r.of \in DnsInstances /\ r.val \in DnsHosts \X Nat
    BY <1>5 DEF Dns
  <2>2. q = [m EXCEPT !.srv[r.of] = B!Added(m.srv[r.of], r.val)]
    BY <1>5 DEF B!Noted, B!Entered
  <2> DEFINE s == m.srv[r.of]  t == B!Added(s, r.val)  srv == [m.srv EXCEPT ![r.of] = t]
  <2>3. s \in Seq(DnsHosts \X Nat)
    BY <1>1, <2>1
  <2>4. t \in Seq(DnsHosts \X Nat) /\ \A v : Contains(t, v) <=> Contains(s, v) \/ v = r.val
    <3> HIDE DEF s
    <3> DEFINE T == DnsHosts \X Nat
    <3>1. s \in Seq(T) /\ r.val \in T
      BY <2>1, <2>3
    <3> HIDE DEF T
    <3>2. B!Added(s, r.val) \in Seq(T) /\ \A v : Contains(B!Added(s, r.val), v) <=> Contains(s, v) \/ v = r.val
      BY <3>1, AddedIs
    <3> QED BY <3>2 DEF T
  <2>5. q = [m EXCEPT !.srv = srv]
    BY <2>2 DEF Maps
  <2> HIDE DEF q, t
  <2>6. srv \in [DnsInstances -> Seq(DnsHosts \X Nat)] /\ srv[r.of] = t
        /\ \A i \in DnsInstances : i # r.of => srv[i] = m.srv[i]
    BY <1>1, <2>1, <2>4
  <2> HIDE DEF srv
  <2>7. q.ptr = m.ptr /\ q.srv = srv /\ q.addr = m.addr /\ q \in Maps
    BY <2>5, <2>6 DEF Maps
  <2>8. PtrKept(q, all)
    BY <1>2, <1>3, <1>5, <2>7 DEF PtrKept
  <2>9. SrvKept(q, all)
    <3>1. ASSUME NEW i \in DnsInstances, NEW v \in DnsHosts \X Nat
          PROVE  Contains(q.srv[i], v) <=> \E x \in all : x.type = "SRV" /\ x.of = i /\ x.val = v
      <4>1. Contains(m.srv[i], v) <=> \E x \in rs : x.type = "SRV" /\ x.of = i /\ x.val = v
        BY <1>2 DEF SrvKept
      <4>2. CASE i = r.of
        BY <1>3, <1>5, <2>4, <2>6, <2>7, <4>1, <4>2
      <4>3. CASE i # r.of
        BY <1>3, <2>6, <2>7, <4>1, <4>3
      <4> QED BY <4>2, <4>3
    <3> QED BY <3>1 DEF SrvKept
  <2>10. AddrKept(q, all)
    BY <1>2, <1>3, <1>5, <2>7 DEF AddrKept
  <2> QED BY <2>7, <2>8, <2>9, <2>10 DEF MapsKept, q, all
<1>6. CASE r.type = "TXT"
  <2>1. r.of \in DnsInstances /\ r.val \in Texts
    BY <1>6 DEF Dns, Texts
  <2> DEFINE txt == [m.txt EXCEPT ![r.of] = r.val]
  <2>2. q = [m EXCEPT !.txt = txt]
    BY <1>6 DEF B!Noted, B!Entered, Maps
  <2> HIDE DEF q
  <2>3. txt \in [DnsInstances -> Texts]
    BY <1>1, <2>1
  <2> HIDE DEF txt
  <2>4. q.ptr = m.ptr /\ q.srv = m.srv /\ q.addr = m.addr /\ q \in Maps
    BY <2>2, <2>3 DEF Maps
  <2>5. PtrKept(q, all)
    BY <1>2, <1>3, <1>6, <2>4 DEF PtrKept
  <2>6. SrvKept(q, all)
    BY <1>2, <1>3, <1>6, <2>4 DEF SrvKept
  <2>7. AddrKept(q, all)
    BY <1>2, <1>3, <1>6, <2>4 DEF AddrKept
  <2> QED BY <2>4, <2>5, <2>6, <2>7 DEF MapsKept, q, all
<1>7. CASE r.type \in {"A", "AAAA"}
  <2>1. r.of \in DnsHosts /\ r.val \in {"v4", "v6"} \X Nat
    BY <1>7 DEF Dns
  <2>2. q = [m EXCEPT !.addr[r.of] = B!Added(m.addr[r.of], r.val)]
    BY <1>7 DEF B!Noted, B!Entered
  <2> DEFINE s == m.addr[r.of]  t == B!Added(s, r.val)  addr == [m.addr EXCEPT ![r.of] = t]
  <2>3. s \in Seq({"v4", "v6"} \X Nat)
    BY <1>1, <2>1
  <2>4. t \in Seq({"v4", "v6"} \X Nat) /\ \A v : Contains(t, v) <=> Contains(s, v) \/ v = r.val
    <3> HIDE DEF s
    <3> DEFINE T == {"v4", "v6"} \X Nat
    <3>1. s \in Seq(T) /\ r.val \in T
      BY <2>1, <2>3
    <3> HIDE DEF T
    <3>2. B!Added(s, r.val) \in Seq(T) /\ \A v : Contains(B!Added(s, r.val), v) <=> Contains(s, v) \/ v = r.val
      BY <3>1, AddedIs
    <3> QED BY <3>2 DEF T
  <2>5. q = [m EXCEPT !.addr = addr]
    BY <2>2 DEF Maps
  <2> HIDE DEF q, t
  <2>6. addr \in [DnsHosts -> Seq({"v4", "v6"} \X Nat)] /\ addr[r.of] = t
        /\ \A i \in DnsHosts : i # r.of => addr[i] = m.addr[i]
    BY <1>1, <2>1, <2>4
  <2> HIDE DEF addr
  <2>7. q.ptr = m.ptr /\ q.srv = m.srv /\ q.addr = addr /\ q \in Maps
    BY <2>5, <2>6 DEF Maps
  <2>8. PtrKept(q, all)
    BY <1>2, <1>3, <1>7, <2>7 DEF PtrKept
  <2>9. SrvKept(q, all)
    BY <1>2, <1>3, <1>7, <2>7 DEF SrvKept
  <2>10. AddrKept(q, all)
    <3>1. ASSUME NEW i \in DnsHosts, NEW v \in {"v4", "v6"} \X Nat
          PROVE  Contains(q.addr[i], v) <=> \E x \in all : x.type \in {"A", "AAAA"} /\ x.of = i /\ x.val = v
      <4>1. Contains(m.addr[i], v) <=> \E x \in rs : x.type \in {"A", "AAAA"} /\ x.of = i /\ x.val = v
        BY <1>2 DEF AddrKept
      <4>2. CASE i = r.of
        BY <1>3, <1>7, <2>4, <2>6, <2>7, <4>1, <4>2
      <4>3. CASE i # r.of
        BY <1>3, <2>6, <2>7, <4>1, <4>3
      <4> QED BY <4>2, <4>3
    <3> QED BY <3>1 DEF AddrKept
  <2> QED BY <2>7, <2>8, <2>9, <2>10 DEF MapsKept, q, all
<1>8. r.type \in {"PTR", "SRV", "TXT", "A", "AAAA"}
  BY DEF Dns
<1> QED BY <1>4, <1>5, <1>6, <1>7, <1>8

LEMMA NotedAllKeeps ==
    ASSUME NEW m \in Maps, NEW rs, NEW new \in Seq(Dns), MapsKept(m, rs)
    PROVE  B!NotedAll(m, new) \in Maps /\ MapsKept(B!NotedAll(m, new), rs \cup B!ToSet(new))
<1> DEFINE n == Len(new)  upto(k) == rs \cup {new[j] : j \in 1..k}
<1>1. n \in Nat /\ \A k \in 1..n : new[k] \in Dns
  OBVIOUS
<1>2. PICK f : f = NotedUpTo(f, m, new, n) /\ B!NotedAll(m, new) = f[n]
  BY NotedThere
<1> HIDE DEF n
<1>3. \A k \in 0..n : f[k] = IF k = 0 THEN m ELSE B!Noted(f[k - 1], new[k])
  BY <1>2 DEF NotedUpTo
<1>4. upto(0) = rs
  OBVIOUS
<1>5. \A k \in 0..n : k < n => upto(k + 1) = upto(k) \cup {new[k + 1]}
  <2>1. \A k \in Nat : 1..(k + 1) = 1..k \cup {k + 1}
    OBVIOUS
  <2> QED BY <1>1, <2>1
<1>6. upto(n) = rs \cup B!ToSet(new)
  BY DEF B!ToSet, n
<1> HIDE DEF upto
<1> DEFINE S == {k \in 0..n : f[k] \in Maps /\ MapsKept(f[k], upto(k))}
<1>7. 0 \in S
  BY <1>1, <1>3, <1>4
<1>8. ASSUME NEW k \in 0..n, k \in S, k < n PROVE k + 1 \in S
  <2>1. k + 1 \in 0..n /\ k + 1 \in 1..n /\ k + 1 # 0 /\ (k + 1) - 1 = k
    BY <1>1, <1>8
  <2> DEFINE g == f[k]  r == new[k + 1]  old == upto(k)
  <2>2. f[k + 1] = B!Noted(g, r) /\ r \in Dns /\ g \in Maps /\ MapsKept(g, old)
    BY <1>1, <1>3, <1>8, <2>1
  <2>3. upto(k + 1) = old \cup {r}
    BY <1>5, <1>8
  <2> HIDE DEF g, r, old
  <2>4. B!Noted(g, r) \in Maps /\ MapsKept(B!Noted(g, r), old \cup {r})
    BY <2>2, NotedKeeps
  <2> QED BY <2>1, <2>2, <2>3, <2>4
<1>9. \A k \in 0..n : k \in S
  <2> HIDE DEF S
  <2> QED BY <1>1, <1>7, <1>8, AllUpTo
<1>10. n \in 0..n
  BY <1>1
<1> QED BY <1>2, <1>6, <1>9, <1>10

Browsers == [at : {"idle", "opening", "listening"}, maps : Maps, sockets : SUBSET {"ipv4", "ipv6"}, count : Nat]

\* From a call on until it has its answer, the maps are the records that were heard since.
MdnsInv ==
    /\ browser \in Browsers /\ heard \subseteq Dns
    /\ browser.at # "idle" => MapsKept(browser.maps, heard)

LEMMA NothingKept ==
    B!Nothing \in Maps /\ MapsKept(B!Nothing, {})
<1>1. B!Nothing.ptr = {} /\ (\A i \in DnsInstances : B!Nothing.srv[i] = <<>>) /\ (\A h \in DnsHosts : B!Nothing.addr[h] = <<>>)
  BY DEF B!Nothing
<1>2. B!Nothing \in Maps
  <2> DEFINE srv == [i \in DnsInstances |-> <<>>]  txt == [i \in DnsInstances |-> "none"]  addr == [h \in DnsHosts |-> <<>>]
  <2>1. srv \in [DnsInstances -> Seq(DnsHosts \X Nat)] /\ txt \in [DnsInstances -> Texts]
        /\ addr \in [DnsHosts -> Seq({"v4", "v6"} \X Nat)]
    <3> DEFINE T == {"v4", "v6"} \X Nat  U == DnsHosts \X Nat
    <3> HIDE DEF T, U
    <3>1. <<>> \in Seq(T) /\ <<>> \in Seq(U)
      OBVIOUS
    <3>3. srv \in [DnsInstances -> Seq(U)]
      BY <3>1
    <3>4. addr \in [DnsHosts -> Seq(T)]
      BY <3>1
    <3>5. txt \in [DnsInstances -> Texts]
      BY DEF Texts
    <3>2. srv \in [DnsInstances -> Seq(U)] /\ txt \in [DnsInstances -> Texts] /\ addr \in [DnsHosts -> Seq(T)]
      BY <3>3, <3>4, <3>5
    <3> QED BY <3>2, Zenon DEF T, U
  <2>2. B!Nothing = [ptr |-> {}, srv |-> srv, txt |-> txt, addr |-> addr]
    BY DEF B!Nothing
  <2> HIDE DEF srv, txt, addr
  <2> QED BY <2>1, <2>2 DEF Maps
<1>3. \A v : ~Contains(<<>>, v)
  BY DEF Contains
<1>4. PtrKept(B!Nothing, {})
  BY <1>1 DEF PtrKept
<1>5. SrvKept(B!Nothing, {})
  BY <1>1, <1>3 DEF SrvKept
<1>6. AddrKept(B!Nothing, {})
  BY <1>1, <1>3 DEF AddrKept
<1> QED BY <1>2, <1>4, <1>5, <1>6 DEF MapsKept

LEMMA MdnsInitInv ==
    ASSUME B!MdnsInit
    PROVE  MdnsInv
<1>1. browser = [at |-> "idle", maps |-> B!Nothing, sockets |-> {}, count |-> 0] /\ heard = {}
  BY DEF B!MdnsInit
<1>2. B!Nothing \in Maps
  BY NothingKept
<1>3. browser \in Browsers /\ browser.at = "idle"
  BY <1>1, <1>2 DEF Browsers
<1> QED BY <1>1, <1>3 DEF MdnsInv

LEMMA MdnsStep ==
    ASSUME MdnsInv, B!MdnsNext
    PROVE  MdnsInv'
<1>1. browser \in Browsers /\ heard \subseteq Dns /\ (browser.at # "idle" => MapsKept(browser.maps, heard))
  BY DEF MdnsInv
<1>2. ASSUME NEW c \in B!Caller, B!Discovers(c) PROVE MdnsInv'
  <2>1. CASE discovery.waiting = {}
    <3>1. browser' = [browser EXCEPT !.at = "opening", !.maps = B!Nothing] /\ heard' = {}
      BY <1>2, <2>1 DEF B!Discovers
    <3>2. B!Nothing \in Maps /\ MapsKept(B!Nothing, {})
      BY NothingKept
    <3>3. browser' \in Browsers /\ browser'.maps = B!Nothing
      BY <1>1, <3>1, <3>2 DEF Browsers
    <3> QED BY <3>1, <3>2, <3>3 DEF MdnsInv
  <2>2. CASE discovery.waiting # {}
    <3>1. browser' = browser /\ heard' = heard
      BY <1>2, <2>2 DEF B!Discovers
    <3> QED BY <1>1, <3>1 DEF MdnsInv
  <2> QED BY <2>1, <2>2
<1>3. CASE B!Opens
  <2>1. browser.at = "opening" /\ heard' = heard
    BY <1>3 DEF B!Opens
  <2>2. browser' \in Browsers /\ browser'.maps = browser.maps
    <3>1. CASE \E s \in SUBSET {"ipv4", "ipv6"} \ {{}} : browser' = [browser EXCEPT !.at = "listening", !.sockets = s]
      <4>1. PICK s \in SUBSET {"ipv4", "ipv6"} : browser' = [browser EXCEPT !.at = "listening", !.sockets = s]
        BY <3>1
      <4> QED BY <1>1, <4>1 DEF Browsers
    <3>2. CASE browser' = [browser EXCEPT !.at = "idle"]
      BY <1>1, <3>2 DEF Browsers
    <3> QED BY <1>3, <3>1, <3>2 DEF B!Opens
  <2> QED BY <1>1, <2>1, <2>2 DEF MdnsInv
<1>4. CASE B!Hears
  <2>1. PICK p \in DnsPackets, cut \in BOOLEAN :
           /\ browser' = [browser EXCEPT !.count = @ + 1, !.maps = B!NotedAll(@, B!Records(p, cut))]
           /\ heard' = heard \cup B!ToSet(B!Records(p, cut))
    BY <1>4 DEF B!Hears
  <2>2. browser.at = "listening"
    BY <1>4 DEF B!Hears
  <2> DEFINE rs == B!Records(p, cut)  maps == B!NotedAll(browser.maps, rs)  old == browser.maps
  <2>3. rs \in Seq(Dns)
    <3>1. DnsPackets \subseteq Seq(Dns)
      BY RecordsAssumption, Zenon DEF Dns
    <3>2. p \in Seq(Dns) /\ <<>> \in Seq(Dns)
      BY <3>1
    <3> QED BY <3>2 DEF B!Records
  <2>4. browser' = [browser EXCEPT !.count = browser.count + 1, !.maps = maps] /\ heard' = heard \cup B!ToSet(rs)
    BY <2>1
  <2>5. old \in Maps /\ MapsKept(old, heard) /\ browser.count + 1 \in Nat
    BY <1>1, <2>2 DEF Browsers
  <2>6. maps = B!NotedAll(old, rs)
    OBVIOUS
  <2> HIDE DEF rs, maps, old
  <2>7. B!NotedAll(old, rs) \in Maps /\ MapsKept(B!NotedAll(old, rs), heard \cup B!ToSet(rs))
    BY <2>3, <2>5, NotedAllKeeps
  <2>8. maps \in Maps /\ MapsKept(maps, heard')
    BY <2>4, <2>6, <2>7
  <2>9. browser' \in Browsers /\ browser'.maps = maps
    BY <1>1, <2>4, <2>5, <2>8 DEF Browsers
  <2>10. heard' \subseteq Dns
    <3>1. B!ToSet(rs) \subseteq Dns
      BY <2>3 DEF B!ToSet
    <3> QED BY <1>1, <2>4, <3>1
  <2> QED BY <2>8, <2>9, <2>10 DEF MdnsInv
<1>5. CASE B!Ends
  <2>1. browser' = [browser EXCEPT !.at = "idle", !.sockets = {}] /\ heard' = heard
    BY <1>5 DEF B!Ends
  <2>2. browser' \in Browsers /\ browser'.at = "idle"
    BY <1>1, <2>1 DEF Browsers
  <2> QED BY <1>1, <2>1, <2>2 DEF MdnsInv
<1> QED BY <1>2, <1>3, <1>4, <1>5 DEF B!MdnsNext

LEMMA MdnsSame ==
    ASSUME MdnsInv, UNCHANGED mdnsVars
    PROVE  MdnsInv'
BY DEF MdnsInv, mdnsVars

-----------------------------------------------------------------------------
(* MdnsBrowse: what a discovery returns.                                              *)

\* An IPv4 address of those there are, or one of the others, or the resolver's.
LEMMA PreferredIs ==
    ASSUME NEW T, NEW addrs \in Seq(T)
    PROVE  IF \E k \in 1..Len(addrs) : addrs[k][1] = "v4"
           THEN \E k \in 1..Len(addrs) : addrs[k][1] = "v4" /\ B!Preferred(addrs) = addrs[k]
           ELSE (\E k \in 1..Len(addrs) : B!Preferred(addrs) = addrs[k]) \/ B!Preferred(addrs) = <<"lookup", "">>
<1> DEFINE four == B!OfKind(addrs, "v4")
<1>6. Len(addrs) \in Nat /\ DOMAIN addrs = 1..Len(addrs)
  OBVIOUS
<1>7. addrs # <<>> => Len(addrs) \in Nat \ {0}
  BY EmptySeq, Zenon
<1>8. Len(addrs) \in Nat \ {0} => 1 \in 1..Len(addrs)
  OBVIOUS
<1>1. four = {k \in 1..Len(addrs) : addrs[k][1] = "v4"}
  BY <1>6, Zenon DEF B!OfKind
<1>2. four \subseteq Nat
  <2>1. 1..Len(addrs) \subseteq Nat
    BY <1>6
  <2>2. four \subseteq 1..Len(addrs)
    BY <1>1
  <2> QED BY <2>1, <2>2
<1>3. B!Preferred(addrs) = IF four # {} THEN addrs[CHOOSE k \in four : \A l \in four : k <= l]
                        ELSE IF addrs = <<>> THEN <<"lookup", "">> ELSE addrs[1]
  BY DEF B!Preferred
<1> HIDE DEF four
<1>4. CASE four # {}
  <2>1. \E k \in four : \A l \in four : k <= l
    BY <1>2, <1>4, LeastOf
  <2> DEFINE m == CHOOSE k \in four : \A l \in four : k <= l
  <2>2. m \in four
    BY <2>1, Zenon
  <2>3. B!Preferred(addrs) = addrs[m]
    BY <1>3, <1>4
  <2> HIDE DEF m
  <2> QED BY <1>1, <2>2, <2>3
<1>5. CASE four = {}
  <2>1. ~ \E k \in 1..Len(addrs) : addrs[k][1] = "v4"
    BY <1>1, <1>5
  <2>2. addrs # <<>> => 1 \in 1..Len(addrs)
    BY <1>7, <1>8, Zenon
  <2> QED BY <1>3, <1>5, <2>1, <2>2
<1> QED BY <1>4, <1>5

LEMMA MdnsHolds ==
    ASSUME MdnsInv
    PROVE  B!DiscoveryExact
<1> SUFFICES ASSUME browser.at = "listening"
    PROVE  LET ds == B!Devices(browser.maps)
               known == {r \in heard : r.type = "SRV" /\ B!Usable(r.val) /\ B!Has("PTR", r.of, "")}
           IN /\ {<<d.host, d.port>> : d \in ds} = {r.val : r \in known}
              /\ \A d \in ds : d.ip \in IF \E r \in heard : r.type = "A" /\ r.of = d.host
                                        THEN {r.val : r \in {s \in heard : s.type = "A" /\ s.of = d.host}}
                                        ELSE {r.val : r \in {s \in heard : s.type = "AAAA" /\ s.of = d.host}} \cup {<<"lookup", "">>}
  BY DEF B!DiscoveryExact
<1> DEFINE m == browser.maps  ds == B!Devices(m)  known == {r \in heard : r.type = "SRV" /\ B!Usable(r.val) /\ B!Has("PTR", r.of, "")}
<1>1. m \in Maps /\ heard \subseteq Dns /\ PtrKept(m, heard) /\ SrvKept(m, heard) /\ AddrKept(m, heard)
  BY DEF MdnsInv, Browsers, MapsKept
<1>2. ds = UNION {{B!Device(m, i, m.srv[i][k]) : k \in {l \in DOMAIN m.srv[i] : B!Usable(m.srv[i][l])}} : i \in m.ptr}
  BY DEF B!Devices
<1> HIDE DEF m, ds
<1>3. m.ptr \subseteq DnsInstances /\ m.srv \in [DnsInstances -> Seq(DnsHosts \X Nat)]
      /\ m.addr \in [DnsHosts -> Seq({"v4", "v6"} \X Nat)]
  BY <1>1 DEF Maps
<1>4. \A i \in DnsInstances : m.srv[i] \in Seq(DnsHosts \X Nat) /\ DOMAIN m.srv[i] = 1..Len(m.srv[i])
  BY <1>3
\* A device is what an instance that was announced has in one of its usable service records.
<1>5. \A d : d \in ds <=> \E i \in m.ptr : \E k \in 1..Len(m.srv[i]) : B!Usable(m.srv[i][k]) /\ d = B!Device(m, i, m.srv[i][k])
  <2> DEFINE of(i) == {B!Device(m, i, m.srv[i][k]) : k \in {l \in DOMAIN m.srv[i] : B!Usable(m.srv[i][l])}}
  <2>1. ds = UNION {of(i) : i \in m.ptr}
    BY <1>2
  <2>2. \A i \in m.ptr : \A d : d \in of(i) <=> \E k \in 1..Len(m.srv[i]) : B!Usable(m.srv[i][k]) /\ d = B!Device(m, i, m.srv[i][k])
    BY <1>3, <1>4
  <2> HIDE DEF of
  <2>3. \A d : d \in ds <=> \E i \in m.ptr : d \in of(i)
    BY <2>1
  <2> QED BY <2>2, <2>3
<1>6. \A i \in DnsInstances : \A v \in DnsHosts \X Nat :
         /\ B!Device(m, i, v).host = v[1] /\ B!Device(m, i, v).port = v[2] /\ B!Device(m, i, v).ip = B!Preferred(m.addr[v[1]])
         /\ v[1] \in DnsHosts /\ <<v[1], v[2]>> = v
  BY DEF B!Device
<1>7. \A i \in DnsInstances : i \in m.ptr <=> B!Has("PTR", i, "")
  <2>1. ASSUME NEW i \in DnsInstances PROVE i \in m.ptr <=> B!Has("PTR", i, "")
    <3>1. ASSUME NEW r \in heard, r.type = "PTR", r.of = i PROVE r = [type |-> "PTR", of |-> i, val |-> ""]
      <4>1. r \in [type : {"PTR"}, of : DnsInstances, val : {""}]
        BY <1>1, <3>1 DEF Dns
      <4> QED BY <3>1, <4>1
    <3>2. [type |-> "PTR", of |-> i, val |-> ""].type = "PTR" /\ [type |-> "PTR", of |-> i, val |-> ""].of = i
      OBVIOUS
    <3> QED BY <1>1, <3>1, <3>2 DEF PtrKept, B!Has
  <2> QED BY <2>1
<1>8. \A r \in heard : r.type = "SRV" => r.of \in DnsInstances /\ r.val \in DnsHosts \X Nat
  BY <1>1 DEF Dns
<1>9. {<<d.host, d.port>> : d \in ds} = {r.val : r \in known}
  <2>1. ASSUME NEW d \in ds PROVE \E r \in known : <<d.host, d.port>> = r.val
    <3>7. PICK i \in m.ptr : \E k \in 1..Len(m.srv[i]) : B!Usable(m.srv[i][k]) /\ d = B!Device(m, i, m.srv[i][k])
      BY <1>5
    <3>1. PICK k \in 1..Len(m.srv[i]) : B!Usable(m.srv[i][k]) /\ d = B!Device(m, i, m.srv[i][k])
      BY <3>7
    <3> DEFINE v == m.srv[i][k]
    <3>2. i \in DnsInstances /\ v \in DnsHosts \X Nat /\ Contains(m.srv[i], v) /\ B!Usable(v)
      BY <1>3, <1>4, <3>1 DEF Contains
    <3>3. d = B!Device(m, i, v)
      BY <3>1
    <3> HIDE DEF v
    <3>4. PICK r \in heard : r.type = "SRV" /\ r.of = i /\ r.val = v
      BY <1>1, <3>2 DEF SrvKept
    <3>5. r \in known
      BY <1>7, <3>2, <3>4
    <3>6. <<d.host, d.port>> = v
      BY <1>6, <3>2, <3>3
    <3> QED BY <3>4, <3>5, <3>6
  <2>2. ASSUME NEW r \in known PROVE \E d \in ds : r.val = <<d.host, d.port>>
    <3> DEFINE i == r.of  v == r.val
    <3>1. i \in DnsInstances /\ v \in DnsHosts \X Nat /\ i \in m.ptr /\ B!Usable(v)
      BY <1>7, <1>8
    <3>2. Contains(m.srv[i], v)
      BY <1>1, <3>1 DEF SrvKept
    <3>3. PICK k \in 1..Len(m.srv[i]) : m.srv[i][k] = v
      BY <3>2 DEF Contains
    <3> HIDE DEF i, v
    <3> DEFINE d == B!Device(m, i, v)
    <3>4. d \in ds
      BY <1>5, <3>1, <3>3
    <3>5. v = <<d.host, d.port>>
      BY <1>6, <3>1
    <3> QED BY <3>4, <3>5 DEF v
  <2> HIDE DEF known
  <2> QED BY <2>1, <2>2
<1>10. ASSUME NEW d \in ds
       PROVE  d.ip \in IF \E r \in heard : r.type = "A" /\ r.of = d.host
                       THEN {r.val : r \in {s \in heard : s.type = "A" /\ s.of = d.host}}
                       ELSE {r.val : r \in {s \in heard : s.type = "AAAA" /\ s.of = d.host}} \cup {<<"lookup", "">>}
  <2>12. PICK i \in m.ptr : \E k \in 1..Len(m.srv[i]) : B!Usable(m.srv[i][k]) /\ d = B!Device(m, i, m.srv[i][k])
    BY <1>5
  <2>1. PICK k \in 1..Len(m.srv[i]) : B!Usable(m.srv[i][k]) /\ d = B!Device(m, i, m.srv[i][k])
    BY <2>12
  <2>2. i \in DnsInstances /\ m.srv[i][k] \in DnsHosts \X Nat
    BY <1>3, <1>4
  <2> DEFINE h == d.host  addrs == m.addr[h]
  <2>3. h \in DnsHosts /\ d.ip = B!Preferred(addrs)
    BY <1>6, <2>1, <2>2
  <2>4. addrs \in Seq({"v4", "v6"} \X Nat)
    BY <1>3, <2>3
  <2>5. \A v \in {"v4", "v6"} \X Nat : Contains(addrs, v) <=> \E r \in heard : r.type \in {"A", "AAAA"} /\ r.of = h /\ r.val = v
    BY <1>1, <2>3 DEF AddrKept
  <2>6. \A r \in heard : /\ r.type = "A" => r.val \in {"v4", "v6"} \X Nat /\ r.val[1] = "v4"
                         /\ r.type = "AAAA" => r.val \in {"v4", "v6"} \X Nat /\ r.val[1] = "v6"
    BY <1>1 DEF Dns
  <2>7. \A j \in 1..Len(addrs) : addrs[j] \in {"v4", "v6"} \X Nat /\ Contains(addrs, addrs[j])
    BY <2>4 DEF Contains
  <2> HIDE DEF h, addrs
  <2>8. \A j \in 1..Len(addrs) : \E r \in heard : r.type \in {"A", "AAAA"} /\ r.of = h /\ r.val = addrs[j]
    BY <2>5, <2>7
  <2>9. (\E j \in 1..Len(addrs) : addrs[j][1] = "v4") <=> \E r \in heard : r.type = "A" /\ r.of = h
    <3>1. ASSUME NEW j \in 1..Len(addrs), addrs[j][1] = "v4" PROVE \E r \in heard : r.type = "A" /\ r.of = h
      <4>1. PICK r \in heard : r.type \in {"A", "AAAA"} /\ r.of = h /\ r.val = addrs[j]
        BY <2>8
      <4> QED BY <2>6, <3>1, <4>1
    <3>2. ASSUME NEW r \in heard, r.type = "A", r.of = h PROVE \E j \in 1..Len(addrs) : addrs[j][1] = "v4"
      <4>1. r.val \in {"v4", "v6"} \X Nat /\ r.val[1] = "v4"
        BY <2>6, <3>2
      <4>2. Contains(addrs, r.val)
        BY <2>5, <3>2, <4>1
      <4> QED BY <4>1, <4>2 DEF Contains
    <3> QED BY <3>1, <3>2
  <2>10. CASE \E r \in heard : r.type = "A" /\ r.of = h
    <3>1. PICK j \in 1..Len(addrs) : addrs[j][1] = "v4" /\ B!Preferred(addrs) = addrs[j]
      BY <2>4, <2>9, <2>10, PreferredIs, Zenon
    <3>2. PICK r \in heard : r.type \in {"A", "AAAA"} /\ r.of = h /\ r.val = addrs[j]
      BY <2>8
    <3>3. r.type = "A"
      BY <2>6, <3>1, <3>2
    <3> QED BY <2>3, <2>10, <3>1, <3>2, <3>3 DEF h
  <2>11. CASE ~ \E r \in heard : r.type = "A" /\ r.of = h
    <3>1. (\E j \in 1..Len(addrs) : B!Preferred(addrs) = addrs[j]) \/ B!Preferred(addrs) = <<"lookup", "">>
      BY <2>4, <2>9, <2>11, PreferredIs
    <3>2. ASSUME NEW j \in 1..Len(addrs), B!Preferred(addrs) = addrs[j]
          PROVE  \E r \in heard : r.type = "AAAA" /\ r.of = h /\ d.ip = r.val
      <4>1. PICK r \in heard : r.type \in {"A", "AAAA"} /\ r.of = h /\ r.val = addrs[j]
        BY <2>8
      <4> QED BY <2>3, <2>11, <3>2, <4>1
    <3> QED BY <2>3, <2>11, <3>1, <3>2 DEF h
  <2> QED BY <2>10, <2>11 DEF h
<1> QED BY <1>9, <1>10 DEF ds, known, m

-----------------------------------------------------------------------------
(* The theorems.                                                               *)

\* Whichever flow runs.
FlowsInv ==
    /\ component = "xctest" => XcInv
    /\ component = "recording" => RecInv
    /\ component = "appletv" => TvInv /\ SocketsGone
    /\ component = "media" => ReceiverInv /\ PicturesInv
    /\ component = "conduit" => UploadInv
    /\ component = "reader" => ReaderInv /\ MapInv
    /\ component = "mdns" => MdnsInv

\* What each invariant says of a flow that has ended, and of what it reports.
LEMMA FlowsInvImplies == FlowsInv => NothingLeftBehind /\ OutcomeTrue /\ PiecesExact
  <1> SUFFICES ASSUME FlowsInv PROVE NothingLeftBehind /\ OutcomeTrue /\ PiecesExact
    OBVIOUS
  <1>1. ASSUME component = "xctest" PROVE X!RunLeavesNothing /\ X!VerdictMatches
    <2>1. XcInv
      BY <1>1 DEF FlowsInv
    <2>2. X!VerdictMatches
      BY <2>1 DEF XcInv, ReportsTrue, Passed, X!VerdictMatches
    <2>3. ASSUME X!At("ended"), X!Undisturbed
          PROVE  open \subseteq (IF runner.failedAt = "lookup" THEN {"exec", "control"} ELSE {})
                                 \cup (IF X!ProcessLost THEN {"process"} ELSE {})
      <3>1. closers["run"] = "done" /\ ToClose
        BY <2>1, <2>3 DEF XcInv, ClosesAtEnd
      <3>2. ("process" \in open => X!ProcessLost) /\ "dvt" \notin open
        BY <2>3, <3>1 DEF ToClose
      <3>3. open \cap {"exec", "control"} \subseteq IF runner.failedAt = "lookup" THEN {"exec", "control"} ELSE {}
        BY <2>3, <3>1 DEF ToClose
      <3> QED BY <2>1, <3>2, <3>3 DEF XcInv, XcTyped
    <2> QED BY <2>2, <2>3 DEF X!RunLeavesNothing
  <1>2. ASSUME component = "recording" PROVE R!NothingLeft /\ R!NoWriteAfterClose
    <2>1. RecInv
      BY <1>2 DEF FlowsInv
    <2>2. R!NothingLeft
      BY <2>1 DEF RecInv, R!NothingLeft, TornDownLetsGo, ReturnedReleased, R!AllStopped, R!Stage
    <2>3. R!NoWriteAfterClose
      BY <2>1 DEF RecInv, R!NoWriteAfterClose, InTheirStages
    <2> QED BY <2>2, <2>3
  <1>3. ASSUME component = "appletv" PROVE A!RemotedResumed /\ A!SocketsClosed /\ A!ErrorStops /\ A!Numbered
    BY <1>3 DEF FlowsInv, TvInv, SuspendedHeld, ProvedBefore, CountedAlike, SocketsGone,
                A!RemotedResumed, A!SocketsClosed, A!Numbered, A!Stage
  <1>4. ASSUME component = "media" PROVE M!UnitsWhole /\ M!NothingSkipped
    BY <1>4, PicturesHold, ReceiverHolds DEF FlowsInv
  <1>5. ASSUME component = "conduit" PROVE Q!StreamExact
    BY <1>5, UploadHolds DEF FlowsInv
  <1>6. ASSUME component = "reader" PROVE Z!EntriesExact /\ Z!RefusedForCause
    BY <1>6, ReaderHolds DEF FlowsInv
  <1>7. ASSUME component = "mdns" PROVE B!DiscoveryExact
    BY <1>7, MdnsHolds DEF FlowsInv
  <1> QED BY <1>1, <1>2, <1>3, <1>4, <1>5, <1>6, <1>7 DEF NothingLeftBehind, OutcomeTrue, PiecesExact

\* The invariant holds of every behaviour.
LEMMA FlowsStayExact == Spec => []FlowsInv
  <1>1. Init => FlowsInv
    BY XcInitial, RecInitial, TvInitial, SocketsInitial, ReceiverInitInv, PicturesInitInv, UploadInitInv, ReaderInitInv, MapInitInv, MdnsInitInv DEF Init, FlowsInv
  <1>2. FlowsInv /\ [Next]_vars => FlowsInv'
    <2> SUFFICES ASSUME FlowsInv, [Next]_vars PROVE FlowsInv'
      OBVIOUS
    <2>1. CASE Xctest
      BY <2>1, XcStep DEF Xctest, OthersRest, FlowsInv
    <2>2. CASE Appletv
      BY <2>2, TvStep, SocketsStep DEF Appletv, OthersRest, FlowsInv
    <2>3. CASE Recording
      BY <2>3, RecStep DEF Recording, OthersRest, FlowsInv
    <2>4. CASE Lockdown
      BY <2>4 DEF Lockdown, OthersRest, FlowsInv
    <2>5. CASE Media
      BY <2>5, MediaStep DEF Media, OthersRest, FlowsInv
    <2>6. CASE Conduit
      BY <2>6, UploadStep DEF Conduit, OthersRest, FlowsInv
    <2>7. CASE Reader
      BY <2>7, ReaderStep, MapStep DEF Reader, OthersRest, FlowsInv
    <2>8. CASE Mdns
      BY <2>8, MdnsStep DEF Mdns, OthersRest, FlowsInv
    <2>9. CASE UNCHANGED vars
      <3>1. component' = component /\ UNCHANGED <<xctestVars, appletvVars, recordingVars, mediaVars, conduitVars, readerVars, mdnsVars>>
        BY <2>9 DEF vars
      <3>2. XcInv => XcInv'
        BY <3>1 DEF xctestVars, XcInv, XcTyped, PlanAsked, ReportsTrue, ClosesAtEnd,
                    X!Undisturbed, Held, ToClose, X!ProcessLost, X!At, Passed
      <3>3. RecInv => RecInv'
        BY <3>1 DEF recordingVars, RecInv, RecTyped, OneByOne, TornDownLetsGo, InTheirStages,
                    ReturnedReleased, Starting, R!Stage, R!Hears, R!Mine, R!NextTrack,
                    R!AllStopped
      <3>4. TvInv /\ SocketsGone => (TvInv /\ SocketsGone)'
        BY <3>1 DEF appletvVars, SocketsGone, TvInv, TvTyped, SuspendedHeld, CountedAlike, AskedOnce,
                    ProvedBefore, A!ErrorStops, A!Stage, A!StepName
      <3>5. (ReceiverInv => ReceiverInv') /\ (PicturesInv => PicturesInv')
        BY <3>1, PicturesSame DEF mediaVars, ReceiverInv
      <3>6. UploadInv => UploadInv'
        BY <3>1, UploadSame DEF conduitVars
      <3>7. (ReaderInv => ReaderInv') /\ (MapInv => MapInv') /\ (MdnsInv => MdnsInv')
        BY <3>1, ReaderSame, MapSame, MdnsSame
      <3> QED BY <3>1, <3>2, <3>3, <3>4, <3>5, <3>6, <3>7 DEF FlowsInv
    <2> QED BY <2>1, <2>2, <2>3, <2>4, <2>5, <2>6, <2>7, <2>8, <2>9 DEF Next
  <1> QED BY <1>1, <1>2, PTL DEF Spec

\* A flow that has ended leaves nothing behind but what NothingLeftBehind names, for any bounds
\* on polls, suites, attempts and calls.
THEOREM FlowsLeaveNothing == Spec => []NothingLeftBehind
  BY FlowsStayExact, FlowsInvImplies, PTL

\* A flow reports only what came about, for the same.
THEOREM OutcomesAreTrue == Spec => []OutcomeTrue
  BY FlowsStayExact, FlowsInvImplies, PTL

\* What is put together is what came in pieces: for every sequence of pictures in packets, however
\* the network loses, doubles and reorders them and whoever waits for them or stops; for every
\* archive that is sent, whatever the chunks it is read in and whenever the kernel takes what is
\* written; for every archive that is listed, whatever its names and the size of its windows, each
\* name once and as its last entry; and for all service records of a browse that name a host and a
\* port, in whatever datagrams and order they come.
THEOREM PiecesAreExact == Spec => []PiecesExact
  BY FlowsStayExact, FlowsInvImplies, PTL
=============================================================================
