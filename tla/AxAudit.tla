------------------------------- MODULE AxAudit --------------------------------
(* AccessibilityAuditService and the DTX transport it owns                        *)
(* (services/ios/accessibility-audit/): a checkin of framed plists, then one read  *)
(* loop that routes replies by number and inbound calls by selector to waiters,    *)
(* which it wakes once, and to listeners.  A promise's continuation runs before    *)
(* the next event, so it is part of the step that settles the promise.             *)
EXTENDS Naturals, Sequences, FiniteSets, SequencesExt

CONSTANTS
    User,       \* who calls the service
    MaxSends,   \* bound: messages the device sends, one by one
    MaxAudits,  \* bound: audits begun
    MaxPlists   \* MAX_CHECKIN_PLISTS

VARIABLES
    link,   \* the transport: phase, plists consumed, nextMessageId, and what nobody handles
    table,  \* pendingReplies, inboundWaiters and inboundListeners
    audit,  \* the service's observerCount and auditInFlight, and the audits begun
    daemon, \* what the device monitors, owes and has sent
    users   \* the call each user has made: what it waits for, what it got

axVars == <<link, table, audit, daemon, users>>

Completed == "hostDeviceDidCompleteAuditCategoriesWithAuditIssues:"
Found == "hostFoundAuditIssue:"
Focused == "hostInspectorCurrentElementChanged:"

AtRest == [op |-> "idle", id |-> 0, issues |-> {}, ended |-> FALSE]

Device0 == [armed |-> FALSE, owed |-> {}, running |-> {}, inbox |-> <<>>, sent |-> 0]

AxInit ==
    /\ link = [phase |-> "checkin", plists |-> 0, nextMessageId |-> 1, unhandled |-> "no"]
    /\ table = [replies |-> {}, waiters |-> [s \in {Completed, Focused} |-> {}], listeners |-> {}]
    /\ audit = [observerCount |-> 0, inFlight |-> FALSE, begun |-> 0, timedOut |-> {}]
    /\ daemon = Device0
    /\ users = [u \in User |-> AtRest]

Closed == link.phase = "closed"
Open == link.phase = "open"

-----------------------------------------------------------------------------
(* Opening and closing the transport.                                          *)

\* Mutant: only the replies are failed when the connection ends.
RejectReplies == {u \in User : users[u].op = "invoke"}

\* onClose: everyone who waits is rejected, and no listener is left.
Rejected == {u \in User : users[u].op \in {"invoke", "audit", "focus"}}

\* onClose; the finally blocks of runAudit and getFocusedElement run (their writes throw).
\* What the loop still reads is for nobody.
OnClose ==
    /\ link' = [link EXCEPT !.phase = "closed"]
    /\ table' = [replies |-> {}, waiters |-> [s \in {Completed, Focused} |-> {}], listeners |-> {}]
    /\ daemon' = Device0
    /\ users' = [u \in User |-> IF u \in Rejected THEN AtRest ELSE users[u]]
    /\ audit' = [audit EXCEPT !.inFlight = @ /\ \E u \in User \ Rejected : users[u].op = "audit"]

\* performCheckin: a framed plist is consumed, unless too many came before the stream.
CheckinPlist ==
    /\ link.phase = "checkin"
    /\ link' = IF link.plists = MaxPlists THEN [link EXCEPT !.phase = "closed"]
               ELSE [link EXCEPT !.plists = @ + 1]
    /\ UNCHANGED <<table, audit, daemon, users>>

\* The magic of a DTX frame ends the checkin: publishCapabilities, and the read loop starts.
CheckinDone ==
    /\ link.phase = "checkin"
    /\ link' = [link EXCEPT !.phase = "open", !.nextMessageId = @ + 1]
    /\ UNCHANGED <<table, audit, daemon, users>>

\* withDeadline expires; the checkin that is still reading fails on the closed transport.
CheckinTimeout ==
    /\ link.phase = "checkin" /\ link' = [link EXCEPT !.phase = "closed"]
    /\ UNCHANGED <<table, audit, daemon, users>>

\* close(), the socket's close or error event, or a frame the read loop cannot read.
Close == link.phase \in {"checkin", "open"} /\ OnClose

-----------------------------------------------------------------------------
(* Calls.                                                                      *)

Wait(u, selector) == table' = [table EXCEPT !.waiters[selector] = @ \cup {u}]
MayCall(u) == users[u].op = "idle" /\ link.phase # "checkin"

\* invoke(): on a closed transport it is rejected.
Invoke(u) ==
    /\ MayCall(u)
    /\ IF Closed
       THEN /\ users' = [users EXCEPT ![u] = AtRest]
            /\ UNCHANGED <<link, table, daemon>>
       ELSE /\ daemon.sent + Cardinality(daemon.owed) < MaxSends
            /\ link' = [link EXCEPT !.nextMessageId = @ + 1]
            /\ table' = [table EXCEPT !.replies = @ \cup {<<link.nextMessageId, u>>}]
            /\ users' = [users EXCEPT ![u] = [AtRest EXCEPT !.op = "invoke",
                                                            !.id = link.nextMessageId]]
            /\ daemon' = [daemon EXCEPT !.owed = @ \cup {link.nextMessageId}]
    /\ UNCHANGED audit

\* A call that sends after it has started to wait: on a closed transport the write throws
\* and the rejected waiter is left with no handler.
ThrowsUnhandled(u) ==
    /\ users' = [users EXCEPT ![u] = AtRest]
    /\ link' = [link EXCEPT !.unhandled = "closed"]
    /\ UNCHANGED <<table, daemon>>

\* Mutant: audits may overlap.
AnyAudit == FALSE

\* runAudit refuses to run beside another audit of the same service.
AuditRefused == audit.inFlight

\* runAudit(); with a targetPid the first write throws before there is a waiter.
RunAudit(u, targetPid) ==
    /\ MayCall(u) /\ ~AuditRefused
    /\ IF Closed
       THEN IF targetPid THEN /\ users' = [users EXCEPT ![u] = AtRest]
                              /\ UNCHANGED <<link, table, daemon, audit>>
            ELSE ThrowsUnhandled(u) /\ UNCHANGED audit
       ELSE /\ audit.begun < MaxAudits
            /\ audit' = [audit EXCEPT !.inFlight = TRUE, !.begun = @ + 1]
            /\ link' = [link EXCEPT !.nextMessageId = @ + 1]
            /\ table' = [table EXCEPT !.listeners = @ \cup {<<Found, u>>},
                                      !.waiters[Completed] = @ \cup {u}]
            /\ users' = [users EXCEPT ![u] = [AtRest EXCEPT !.op = "audit", !.id = audit'.begun]]
            /\ daemon' = [daemon EXCEPT !.running = @ \cup {audit'.begun}]

\* The device is told what to monitor.
SetMonitored(on) == daemon' = [daemon EXCEPT !.armed = on]

\* getFocusedElement()
GetFocused(u) ==
    /\ MayCall(u)
    /\ IF Closed THEN ThrowsUnhandled(u)
       ELSE /\ Wait(u, Focused) /\ SetMonitored(TRUE)
            /\ users' = [users EXCEPT ![u] = [AtRest EXCEPT !.op = "focus"]]
            /\ UNCHANGED link
    /\ UNCHANGED audit

\* observeFocusedElement(): counted before the write, which may throw.
Observe(u) ==
    /\ MayCall(u)
    /\ audit' = [audit EXCEPT !.observerCount = @ + 1]
    /\ IF Closed
       THEN UNCHANGED <<daemon, users, table>>
       ELSE /\ SetMonitored(TRUE)
            /\ table' = [table EXCEPT !.listeners = @ \cup {<<Focused, u>>}]
            /\ users' = [users EXCEPT ![u] = [AtRest EXCEPT !.op = "observe"]]
    /\ Closed => audit.observerCount < Cardinality(User)
    /\ UNCHANGED link

\* Mutant: every observer that leaves disarms the device.
AlwaysDisarm(observers) == TRUE

\* Only the last observer disarms, and a query leaves it armed for the observers.
Disarms(observers) == observers = 0

\* What observeFocusedElement returned; the write throws on a closed transport.
Unobserve(u) ==
    /\ users[u].op = "observe"
    /\ users' = [users EXCEPT ![u] = AtRest]
    /\ table' = [table EXCEPT !.listeners = @ \ {<<Focused, u>>}]
    /\ audit' = [audit EXCEPT !.observerCount = @ - 1]
    /\ IF Open /\ Disarms(audit'.observerCount) THEN SetMonitored(FALSE) ELSE UNCHANGED daemon
    /\ UNCHANGED link

\* The finally block of getFocusedElement.
AfterFocus(d) == IF Disarms(audit.observerCount) THEN [d EXCEPT !.armed = FALSE] ELSE d

\* The finally block of runAudit.
WithoutAudit(t, u) == [t EXCEPT !.listeners = @ \ {<<Found, u>>}, !.waiters[Completed] = @ \ {u}]

\* A call's own timer: it leaves its table, and its finally block runs.
Timeout(u) ==
    /\ Open
    /\ \/ /\ users[u].op = "invoke"
          /\ table' = [table EXCEPT !.replies = @ \ {<<users[u].id, u>>}]
          /\ UNCHANGED <<audit, daemon>>
       \/ /\ users[u].op = "audit"
          /\ table' = WithoutAudit(table, u)
          /\ audit' = [audit EXCEPT !.inFlight = FALSE, !.timedOut = @ \cup {users[u].id}]
          /\ UNCHANGED daemon
       \/ /\ users[u].op = "focus"
          /\ table' = [table EXCEPT !.waiters[Focused] = @ \ {u}]
          /\ daemon' = AfterFocus(daemon)
          /\ UNCHANGED audit
    /\ users' = [users EXCEPT ![u] = AtRest]
    /\ UNCHANGED link

-----------------------------------------------------------------------------
(* The device and the read loop.                                               *)

DeviceSends(m, d) == daemon' = [d EXCEPT !.inbox = Append(@, m), !.sent = @ + 1]

Device ==
    /\ Open /\ daemon.sent < MaxSends
    /\ \/ \E id \in daemon.owed :
             DeviceSends([kind |-> "reply", id |-> id], [daemon EXCEPT !.owed = @ \ {id}])
       \/ \E a \in daemon.running : DeviceSends([kind |-> Found, id |-> a], daemon)
       \/ \E a \in daemon.running :
             DeviceSends([kind |-> Completed, id |-> a], [daemon EXCEPT !.running = @ \ {a}])
       \/ daemon.armed /\ DeviceSends([kind |-> Focused, id |-> 0], daemon)
    /\ UNCHANGED <<link, table, audit, users>>

Answered(us, set) == [u \in User |-> IF u \in set THEN AtRest ELSE us[u]]

\* dispatch: a reply settles the call of its number, if it still waits.
DispatchReply(m) ==
    LET waiting == {u \in User : <<m.id, u>> \in table.replies}
    IN /\ table' = [table EXCEPT !.replies = {p \in @ : p[1] # m.id}]
       /\ users' = Answered(users, waiting)
       /\ UNCHANGED audit /\ daemon' = [daemon EXCEPT !.inbox = Tail(@)]

\* An issue goes to the listeners.
DispatchIssue(m) ==
    /\ users' = [u \in User |-> IF <<Found, u>> \in table.listeners
                                THEN [users[u] EXCEPT !.issues = @ \cup {m.id}] ELSE users[u]]
    /\ daemon' = [daemon EXCEPT !.inbox = Tail(@)] /\ UNCHANGED <<table, audit>>

\* The end of an audit wakes whoever waits for one, and its finally block runs.
DispatchCompleted(m) ==
    LET woken == table.waiters[Completed]
    IN /\ users' = [u \in User |-> IF u \in woken
                                   THEN [users[u] EXCEPT !.op = "idle", !.ended = TRUE,
                                                         !.issues = @ \cup {m.id}]
                                   ELSE users[u]]
       /\ table' = [table EXCEPT !.waiters[Completed] = {},
                                 !.listeners = {l \in @ : ~(l[1] = Found /\ l[2] \in woken)}]
       /\ audit' = IF woken = {} THEN audit ELSE [audit EXCEPT !.inFlight = FALSE]
       /\ daemon' = [daemon EXCEPT !.inbox = Tail(@)]

\* A pushed element wakes every query, each of which disarms the device if it may.
DispatchFocus ==
    LET woken == table.waiters[Focused]
        taken == [daemon EXCEPT !.inbox = Tail(@)]
    IN /\ users' = Answered(users, woken)
       /\ table' = [table EXCEPT !.waiters[Focused] = {}]
       /\ daemon' = IF woken = {} THEN taken ELSE AfterFocus(taken)
       /\ UNCHANGED audit

\* One message read by the loop.  What cannot be decoded is dropped, and the loop goes on.
Dispatch ==
    /\ Open /\ daemon.inbox # <<>> /\ UNCHANGED link
    /\ LET m == Head(daemon.inbox)
       IN \/ m.kind = "reply" /\ DispatchReply(m)
          \/ m.kind = Found /\ DispatchIssue(m)
          \/ m.kind = Completed /\ DispatchCompleted(m)
          \/ m.kind = Focused /\ DispatchFocus

AxNext ==
    \/ CheckinPlist \/ CheckinDone \/ CheckinTimeout \/ Close \/ Device \/ Dispatch
    \/ \E u \in User : Invoke(u) \/ GetFocused(u) \/ Observe(u) \/ Unobserve(u) \/ Timeout(u)
    \/ \E u \in User, targetPid \in BOOLEAN : RunAudit(u, targetPid)

AxSpec == AxInit /\ [][AxNext]_axVars

-----------------------------------------------------------------------------
\* Nobody waits on a connection that has ended: no call hangs until its own timer when
\* nothing can arrive any more.
NoWaitOnClosed ==
    Closed => /\ \A u \in User : users[u].op \notin {"invoke", "audit", "focus"}
              /\ ~audit.inFlight

\* The device reports focus changes while anybody observes or queries them, however
\* observers and queries come and go, unless an observer's end disarmed it under a query;
\* and it reports none when nobody does.
MonitoringMatches ==
    Open => /\ (\E u \in User : users[u].op = "observe") => daemon.armed
            /\ daemon.armed => \E u \in User : users[u].op \in {"observe", "focus"}

\* Audit a, or one before it, was given up while the device went on with it.
Disturbed(a) == \E t \in audit.timedOut : t <= a

\* An audit collects and ends on its own results.  Once one was given up while the device
\* went on with it, its end may be taken for that of the next, which then goes on under the
\* one after it, and so on: only these later audits may see results of earlier ones, and
\* none sees those of an audit that was over before the first was given up.
AuditsNotMixed ==
    \A u \in User : users[u].op = "audit" \/ users[u].ended
        => \A i \in users[u].issues : i = users[u].id \/ (i < users[u].id /\ Disturbed(i))
=============================================================================
