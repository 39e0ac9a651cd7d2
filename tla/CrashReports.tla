------------------------------ MODULE CrashReports ------------------------------
(* CrashReportsService (services/ios/crash-reports): watch(), which reads the reports that *)
(* the syslog announces and yields them, and getNewSysdiagnose(), which follows an archive *)
(* in the making by its name, by a notification (notification-proxy) and by name again.    *)
(* Both read over one AFC connection, which the device may drop while it is idle.          *)
EXTENDS Naturals, Sequences, FiniteSets

CONSTANTS
    Announced,      \* bound: the announcements, as [name, process, saved]
    Process         \* options.processName, or "any"

VARIABLES
    watcher,    \* the generator and what it yielded, or sysdiagnose and where it is
    pending,    \* syslog: what was announced, what the listener has buffered
    reports,    \* the device: the files of reports, until there is a header in them
    diagnosis,  \* the device: archive in the making, leftover, notification
    idle        \* the AFC connection: "live" or "dropped"

crashVars == <<watcher, pending, reports, diagnosis, idle>>
Report == 1..Len(Announced)

\* getDeviceClockOffsetMs: the clock of the device was read; or it was not, and agrees with
\* that of the host, or does not.
Clock == {"read", "synced", "skewed"}

CrashInit ==
    /\ watcher \in [job : {"watch"}, at : {"attach"}, wanted : Process, report : {0}, raw : {FALSE}, yielded : {<<>>}]
                  \cup [job : {"sysdiagnose"}, at : {"find"}, wanted : {"any"}, report : {0}, raw : {FALSE}, yielded : {<<>>}]
    /\ pending = [made |-> 0, attached |-> FALSE, started |-> 0, queue |-> <<>>, gone |-> {}]
    /\ reports = [r \in Report |-> "absent"]
    /\ diagnosis \in [archive : {"none"}, leftover : BOOLEAN, excluded : {{}}, offset : Clock,
                      observing : {FALSE}, posted : {FALSE}, chosen : {"none"}]
    /\ idle = "live"

Goto(p) == watcher' = [watcher EXCEPT !.at = p]
Watching == watcher.job = "watch"

-----------------------------------------------------------------------------
(* watch.                                                                        *)

\* extractSavedReportFileName: entries of other processes and messages are passed over.
Names(r) == Announced[r].saved

\* Mutant: the listener is attached once the capture runs.
AttachesLate == watcher.at = "loop"
Attaches == watcher.at = "attach"

Attach == /\ Watching /\ Attaches /\ ~pending.attached
          /\ pending' = [pending EXCEPT !.attached = TRUE]
          /\ UNCHANGED <<watcher, reports, diagnosis, idle>>
Starts == /\ Watching /\ watcher.at = "attach" /\ (Attaches => pending.attached)
          /\ Goto("loop") /\ pending' = [pending EXCEPT !.started = pending.made]
          /\ UNCHANGED <<reports, diagnosis, idle>>

\* An entry of the syslog; the listener buffers it.
Announces ==
    /\ Watching /\ pending.made < Len(Announced)
    /\ LET r == pending.made + 1
       IN pending' = [pending EXCEPT !.made = r,
              !.queue = IF pending.attached /\ watcher.at \notin {"attach", "ended"} THEN Append(@, r) ELSE @]
    /\ UNCHANGED <<watcher, reports, diagnosis, idle>>

\* The next entry; the connection is renewed before its report is read.
Renewed == "live"
Takes ==
    /\ Watching /\ watcher.at = "loop" /\ pending.queue # <<>>
    /\ pending' = [pending EXCEPT !.queue = Tail(@)]
    /\ LET r == Head(pending.queue)
       IN \/ ~Names(r) /\ UNCHANGED <<watcher, idle>>
          \/ /\ Names(r)
             /\ watcher' = [watcher EXCEPT !.at = "read", !.report = r, !.raw = FALSE]
             /\ idle' = Renewed
          \/ Names(r) /\ Goto("ended") /\ UNCHANGED idle    \* reconnect() failed: it is thrown
    /\ UNCHANGED <<reports, diagnosis>>

\* Only a report with a header has the name of a process.
Yields(r, header) ==
    watcher' = [watcher EXCEPT !.at = "loop", !.yielded =
        IF watcher.wanted = "any" \/ (header /\ Announced[r].process = watcher.wanted) THEN Append(@, r) ELSE @]

\* parseCrashReportMetadata: its first line is complete.
Headed(r) == reports[r] = "headed"

\* readReportWhenAvailable: until a header can be read, or time is up; then what was read.
Reads == /\ Watching /\ watcher.at = "read" /\ idle = "live"
         /\ LET r == watcher.report
            IN \/ Headed(r) /\ Yields(r, TRUE)
               \/ reports[r] = "partial" /\ ~watcher.raw /\ watcher' = [watcher EXCEPT !.raw = TRUE]
         /\ UNCHANGED <<pending, reports, diagnosis, idle>>
GivesUp == /\ Watching /\ watcher.at = "read"
           /\ \/ watcher.raw /\ Yields(watcher.report, FALSE)
              \/ ~watcher.raw /\ Goto("loop")
           /\ pending' = [pending EXCEPT !.gone = IF watcher.raw /\ watcher.wanted = "any" THEN @ ELSE @ \cup {watcher.report}]
           /\ UNCHANGED <<reports, diagnosis, idle>>

Consumes == /\ Watching /\ watcher.at = "loop" /\ Goto("ended") /\ UNCHANGED <<pending, reports, diagnosis, idle>>

Writes == \E r \in Report :
            /\ r <= pending.made \/ r = 1
            /\ reports[r] # "headed"
            /\ reports' = [reports EXCEPT ![r] = IF @ = "absent" THEN "partial" ELSE "headed"]
            /\ Watching /\ UNCHANGED <<watcher, pending, diagnosis, idle>>

-----------------------------------------------------------------------------
(* getNewSysdiagnose. The notification proxy is connected, and its greeting read, before   *)
(* the observation is asked for.                                                           *)

\* What a listing of the directory has that is in progress.
InProgress == ((IF diagnosis.archive = "making" THEN {"current"} ELSE {})
              \cup (IF diagnosis.leftover THEN {"leftover"} ELSE {})) \ diagnosis.excluded

\* By the clock of the device; or by that of the host, if it cannot be read: then, where the
\* clocks differ, anything may be old or not.
Stale(f) == IF diagnosis.offset = "skewed" THEN BOOLEAN ELSE {f = "leftover"}

Finds ==
    /\ watcher.job = "sysdiagnose" /\ watcher.at = "find" /\ InProgress # {}
    /\ \E f \in InProgress : \E stale \in Stale(f) :
          IF stale THEN diagnosis' = [diagnosis EXCEPT !.excluded = @ \cup {f}] /\ UNCHANGED watcher
          ELSE diagnosis' = [diagnosis EXCEPT !.chosen = f] /\ Goto("observe")
    /\ UNCHANGED <<pending, reports, idle>>

\* observe, expectNotification and close of the proxy; observe is not acknowledged.
Observing == [diagnosis EXCEPT !.observing = TRUE]
Expected == diagnosis.posted
ProxyClosed == [diagnosis EXCEPT !.observing = FALSE]

Observes == /\ watcher.at = "observe" /\ diagnosis' = Observing /\ Goto("notified")
            /\ UNCHANGED <<pending, reports, idle>>
\* Other notifications are passed over; the connection to the proxy is closed afterwards.
Notified == /\ watcher.at = "notified" /\ Expected /\ Goto("settled") /\ idle' = Renewed
            /\ diagnosis' = ProxyClosed
            /\ UNCHANGED <<pending, reports>>

\* The notification may come before the archive has its name.
\* Mutant: it is taken for the archive.
NoWait == TRUE
ArchiveExists == diagnosis.chosen = "current" /\ diagnosis.archive \in {"made", "gone"}
Appears == /\ watcher.at = "settled" /\ ArchiveExists /\ idle = "live" /\ Goto("pull")
           /\ UNCHANGED <<pending, reports, diagnosis, idle>>
\* pull, and with options.erase the archive is removed from the device.
Pulls == /\ watcher.at = "pull"
         /\ \/ diagnosis.archive = "made" /\ idle = "live" /\ Goto("done")
               /\ \E erase \in BOOLEAN : diagnosis' = [diagnosis EXCEPT !.archive = IF erase THEN "gone" ELSE @]
            \/ Goto("failed") /\ UNCHANGED diagnosis
         /\ UNCHANGED <<pending, reports, idle>>
\* The deadline is looked at between all of these.
TimesOut == /\ watcher.at \in {"find", "notified", "settled"} /\ Goto("failed")
            /\ diagnosis' = ProxyClosed
            /\ UNCHANGED <<pending, reports, idle>>

\* The device makes an archive, says that it is done, and gives it its name.
Makes == /\ watcher.job = "sysdiagnose"
         /\ \/ diagnosis.archive = "none" /\ diagnosis' = [diagnosis EXCEPT !.archive = "making"]
            \/ diagnosis.archive = "making" /\ diagnosis' = [diagnosis EXCEPT !.archive = "stopped", !.posted = diagnosis.observing]
            \/ diagnosis.archive = "stopped" /\ diagnosis' = [diagnosis EXCEPT !.archive = "made"]
         /\ UNCHANGED <<watcher, pending, reports, idle>>

\* The connection is idle while the service waits for the device.
Drops == /\ watcher.at \in {"loop", "notified"} /\ idle' = "dropped" /\ UNCHANGED <<watcher, pending, reports, diagnosis>>

CrashNext == \/ Attach \/ Starts \/ Announces \/ Takes \/ Reads \/ GivesUp \/ Consumes \/ Writes
             \/ Finds \/ Observes \/ Notified \/ Appears \/ Pulls \/ TimesOut \/ Makes \/ Drops
CrashSpec == CrashInit /\ [][CrashNext]_crashVars

-----------------------------------------------------------------------------
Due(n) == {r \in 1..n : r > pending.started /\ Names(r) /\ watcher.wanted \in {"any", Announced[r].process}}
Reached == IF pending.queue = <<>> THEN pending.made ELSE Head(pending.queue) - 1

\* What was announced while the capture runs is yielded, in order and once, however long the
\* one before took; but for what did not become readable in time.
ReportsExact ==
    Watching /\ watcher.at = "loop" /\ pending.attached =>
        LET yielded == watcher.yielded
        IN /\ \A i, j \in DOMAIN yielded : i < j => yielded[i] < yielded[j]
           /\ {yielded[i] : i \in DOMAIN yielded} = Due(Reached) \ pending.gone

\* A report is looked for on a connection that was not dropped while nothing was announced;
\* an archive is pulled once it has its name, and is not what an earlier run has left, if
\* the clock of the device could be read.
ReadsWhatIsThere ==
    /\ watcher.at = "read" => idle = "live"
    /\ watcher.at = "pull" => idle = "live" /\ diagnosis.archive = "made" /\ (diagnosis.offset # "skewed" => diagnosis.chosen = "current")
=============================================================================
