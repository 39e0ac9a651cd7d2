------------------------------- MODULE MCDtx --------------------------------
(* The components that speak DTX, checked one at a time: a behaviour is one of the *)
(* component Init chose, the others rest in their initial state.                   *)
EXTENDS Naturals, FiniteSets, TLC

CONSTANTS Caller, MaxConnections, MaxMessages, ChunkSize,    \* DvtConnection
          MaxRuns, MaxStops,                                 \* DvtTap
          User, MaxSends, MaxAudits, MaxPlists               \* AxAudit

ASSUME DtxBounds ==
    /\ {MaxConnections, MaxMessages, MaxRuns, MaxStops, MaxSends, MaxAudits, MaxPlists} \subseteq Nat
    /\ ChunkSize \subseteq Nat \ {0}

\* The callers of a connection are finitely many: a 'data' event goes to each one that waits.
ASSUME CallerAssumption == IsFiniteSet(Caller)

\* The callers of the audit service are finitely many: it counts its observers.
ASSUME UserAssumption == IsFiniteSet(User)

VARIABLES component,
          svc, sock, wire, device, calls, stray, causes,
          tap, peer, iter, stops,
          link, table, audit, daemon, users

dvtVars == <<svc, sock, wire, device, calls, stray, causes>>
tapVars == <<tap, peer, iter, stops>>
axVars == <<link, table, audit, daemon, users>>

D == INSTANCE DvtConnection
T == INSTANCE DvtTap
A == INSTANCE AxAudit

vars == <<component, dvtVars, tapVars, axVars>>

Init ==
    /\ component \in {"connection", "tap", "audit"}
    /\ D!DvtInit /\ T!TapInit /\ A!AxInit
    /\ component # "tap" => tap.variant = "trace"

Connection == /\ component = "connection" /\ D!DvtNext
              /\ UNCHANGED <<component, tapVars, axVars>>
Tap == /\ component = "tap" /\ T!TapNext
       /\ UNCHANGED <<component, dvtVars, axVars>>
Audit == /\ component = "audit" /\ A!AxNext
         /\ UNCHANGED <<component, dvtVars, tapVars>>

Next == Connection \/ Tap \/ Audit

Spec == Init /\ [][Next]_vars

\* DvtConnection.FramesKept: what is taken for a frame is one, however reads are cut, aborted
\* and taken in turns.
FramesKept == D!FramesKept

\* DvtConnection.RepliesMatch and ChannelsNeverAlias: replies reach the calls they answer, old
\* channels never read a new connection's.
RepliesMatch == D!RepliesMatch /\ D!ChannelsNeverAlias

\* DvtTap.StopHonoured and EndedMeansStopped: after a stop() that was heard no message is waited
\* for, and at most one is handed out; an iteration that ended leaves no device sampling.
SamplingStops == T!StopHonoured /\ T!EndedMeansStopped

\* AxAudit.NoWaitOnClosed, MonitoringMatches and AuditsNotMixed: nobody waits on a closed
\* connection, the device monitors for whoever observes, audits keep their own results.
AuditsExact == A!NoWaitOnClosed /\ A!MonitoringMatches /\ A!AuditsNotMixed

Symmetry == Permutations(Caller) \cup Permutations(User)
=============================================================================
