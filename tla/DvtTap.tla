-------------------------------- MODULE DvtTap --------------------------------
(* The instruments that sample (services/ios/dvt/instruments/): ActivityTraceTap   *)
(* ("trace"), Sysmontap, EnergyMonitor, NetworkMonitor, Graphics, Notifications.   *)
(* A consumer iterates, somebody else calls stop(), the connection may be closed.  *)
(* What start() does is a script of elements; it gives way to others only where    *)
(* the code awaits.  A read waits for a header under the signal of the iteration,   *)
(* for what follows the header without it.                                          *)
EXTENDS Naturals, Sequences

CONSTANTS
    MaxRuns,   \* bound: iterations, one after the other
    MaxStops   \* bound: calls of stop() from outside

VARIABLES
    tap,    \* the instrument: which one, its flags and whether it has a channel
    peer,   \* whether the device is sampling and the connection is up
    iter,   \* the generator: its position, what became of a stop() during it, and how many
            \* messages it has received since one that it could hear
    stops   \* calls of stop() from outside

tapVars == <<tap, peer, iter, stops>>

Variants == {"trace", "sysmon", "energy", "network", "graphics", "notifications"}

\* start(): "init" awaits the channel, "config" and "start" a write, "ack" a reply; "on" sets
\* started (or sampling), "reset" clears stopRequested.
Script(v) == CASE v = "trace" -> <<"init", "config", "ack", "start", "ack", "on", "reset">>
               [] v = "sysmon" -> <<"init", "config", "reset", "start", "on">>
               [] v = "energy" -> <<"init", "reset", "start", "on">>
               [] v = "network" -> <<"reset", "init", "start">>
               [] v = "graphics" -> <<"init", "start", "ack">>
               [] OTHER -> <<"init", "start">>

HasFlag == tap.variant \in {"trace", "sysmon", "energy"}      \* started or sampling
Abortable == tap.variant \in {"trace", "sysmon", "energy", "network"}

TapInit ==
    /\ \E v \in Variants : tap = [variant |-> v, started |-> FALSE, stopRequested |-> FALSE,
                                  channel |-> FALSE]
    /\ peer = [sampling |-> FALSE, up |-> TRUE]
    /\ iter = [at |-> "ended", k |-> 0, stopped |-> "no", after |-> 0, runs |-> 0]
    /\ stops = 0

\* Elements and checks that run without giving way.
Prompt == \/ iter.at = "start" /\ iter.k \in {k \in DOMAIN Script(tap.variant) :
                                                Script(tap.variant)[k] \in {"on", "reset"}}
          \/ iter.at = "check"
          \/ iter.at = "start" /\ iter.k > Len(Script(tap.variant))

Settled == ~Prompt

\* messages(), events(), monitor(): monitor() first stops what was going on.
Iterate ==
    /\ Settled /\ iter.at = "ended" /\ iter.runs < MaxRuns /\ peer.up
    /\ iter' = [at |-> "start", k |-> IF tap.started /\ tap.variant # "energy"
                                      THEN Len(Script(tap.variant)) + 1 ELSE 1,
                stopped |-> "no", after |-> 0, runs |-> iter.runs + 1]
    /\ tap' = IF tap.variant = "energy" THEN [tap EXCEPT !.stopRequested = TRUE, !.started = FALSE]
              ELSE tap
    /\ peer' = IF tap.variant = "energy" /\ tap.started THEN [peer EXCEPT !.sampling = FALSE]
               ELSE peer
    /\ UNCHANGED stops

\* The next element of start(); the awaited write or reply fails with the connection.
Start ==
    /\ iter.at = "start" /\ iter.k \in DOMAIN Script(tap.variant)
    /\ LET e == Script(tap.variant)[iter.k]
       IN IF e \in {"init", "config", "start", "ack"} /\ ~peer.up
          THEN iter' = [iter EXCEPT !.at = "ended"] /\ UNCHANGED <<tap, peer>>
          ELSE /\ iter' = [iter EXCEPT !.k = @ + 1]
               /\ tap' = CASE e = "init" -> [tap EXCEPT !.channel = TRUE]
                           [] e = "on" -> [tap EXCEPT !.started = TRUE]
                           [] e = "reset" -> [tap EXCEPT !.stopRequested = FALSE]
                           [] OTHER -> tap
               /\ peer' = IF e = "start" THEN [peer EXCEPT !.sampling = TRUE] ELSE peer
    /\ UNCHANGED stops

Started ==
    /\ iter.at = "start" /\ iter.k > Len(Script(tap.variant))
    /\ iter' = [iter EXCEPT !.at = "check"]
    /\ UNCHANGED <<tap, peer, stops>>

\* Mutant: stop() relies on the abort of the read alone.
AbortOnly(t) == [t EXCEPT !.started = FALSE]

\* stop(): the flags.
StopFlags(t) == [t EXCEPT !.stopRequested = IF Abortable THEN TRUE ELSE @, !.started = FALSE]

\* Mutant: the flag is looked at after it was cleared.
NeverTells(t) == FALSE

\* stop() writes to the device: always, or only if sampling was started.
TellsDevice(t) == IF HasFlag THEN t.started ELSE t.channel

\* stop(): the write fails, unnoticed, when the connection is gone.
StopPeer(t) == IF TellsDevice(t) /\ peer.up THEN [peer EXCEPT !.sampling = FALSE] ELSE peer

\* The finally block of the generator calls stop().
Finish ==
    /\ tap' = StopFlags(tap) /\ peer' = StopPeer(tap)
    /\ iter' = [iter EXCEPT !.at = "ended"]

\* Whether the signal of the read under way was aborted.
Aborted == Abortable /\ iter.stopped = "heard"

\* recvPacketFragments, readExact: the next header is taken if it is in the buffer (or the whole
\* message in the queue of the channel), and the signal is looked at only if it is not.
ReadOn ==
    \/ iter' = [iter EXCEPT !.at = "payload"] /\ UNCHANGED <<tap, peer>>
    \/ ~Aborted /\ iter' = [iter EXCEPT !.at = "reading"] /\ UNCHANGED <<tap, peer>>
    \/ Aborted /\ Finish

\* The loop's condition.  Graphics and Notifications have none.  An energy sample is asked for.
Check ==
    /\ iter.at = "check"
    /\ IF tap.stopRequested /\ Abortable THEN Finish
       ELSE IF tap.variant = "energy" THEN iter' = [iter EXCEPT !.at = "asking"] /\ UNCHANGED <<tap, peer>>
       ELSE ReadOn
    /\ UNCHANGED stops

Asked ==
    /\ iter.at = "asking" /\ peer.up /\ ReadOn
    /\ UNCHANGED stops

\* A header comes, of whatever channel; what follows it is read without a signal.
Header ==
    /\ Settled /\ iter.at = "reading" /\ peer.up
    /\ iter' = [iter EXCEPT !.at = "payload"]
    /\ UNCHANGED <<tap, peer, stops>>

\* The message is complete: it is handed to the consumer, or skipped when it is no sample.
Receive(yielded) ==
    /\ Settled /\ iter.at = "payload" /\ peer.up
    /\ iter' = [iter EXCEPT !.at = IF yielded THEN "yielded" ELSE "check",
                            !.after = IF iter.stopped = "heard" THEN @ + 1 ELSE @]
    /\ UNCHANGED <<tap, peer, stops>>

\* Or it is not, or is not of this channel.
Continue ==
    /\ Settled /\ iter.at = "payload" /\ peer.up /\ ReadOn
    /\ UNCHANGED stops

\* The consumer has had the samples of the message and asks for the next, or leaves the loop.
Resume ==
    /\ Settled /\ iter.at = "yielded"
    /\ iter' = [iter EXCEPT !.at = "check"]
    /\ UNCHANGED <<tap, peer, stops>>

Leave ==
    /\ Settled /\ iter.at = "yielded" /\ Finish
    /\ UNCHANGED stops

\* Where a stop() during start() falls with respect to the reset of stopRequested.
Heard == \/ iter.at # "start"
         \/ \A k \in iter.k..Len(Script(tap.variant)) : Script(tap.variant)[k] # "reset"

\* stop() from outside: a read that waits for a header is aborted, and the generator ends.
Stop ==
    /\ Settled /\ stops < MaxStops /\ stops' = stops + 1
    /\ IF iter.at = "reading" /\ Abortable
       THEN Finish
       ELSE /\ tap' = StopFlags(tap) /\ peer' = StopPeer(tap)
            /\ iter' = [iter EXCEPT !.stopped = IF iter.at = "ended" \/ ~Abortable THEN @
                                                ELSE IF Heard THEN "heard" ELSE "early"]

\* close() of the DVT service, or the connection breaks: a read in progress fails.
ConnectionEnds ==
    /\ Settled /\ peer.up
    /\ IF iter.at \in {"asking", "reading", "payload"}
       THEN /\ iter' = [iter EXCEPT !.at = "ended"] /\ tap' = StopFlags(tap)
       ELSE UNCHANGED <<iter, tap>>
    /\ peer' = [sampling |-> FALSE, up |-> FALSE]
    /\ UNCHANGED stops

TapNext == \/ Iterate \/ Start \/ Started \/ Check \/ Asked \/ Header \/ Continue
           \/ Resume \/ Leave \/ Stop \/ ConnectionEnds
           \/ \E yielded \in BOOLEAN : Receive(yielded)

TapSpec == TapInit /\ [][TapNext]_tapVars

-----------------------------------------------------------------------------
\* Once a stop() was heard, the generator waits for no further message, and hands out at most
\* the one whose header it had taken: the flag of the loop, the abort of the read and the reset
\* in start() leave no gap between them.
StopHonoured == /\ iter.at = "reading" => iter.stopped # "heard"
                /\ iter.after <= 1

\* What the comments of messages() say: it "stops when the generator is returned or stop is
\* called", also when the call comes while start() is under way.
StopEndsIteration == iter.at = "reading" => iter.stopped = "no"

\* A generator that has ended left no device sampling behind, whoever stopped it, and the
\* flag that start() looks at is down, so that the next one starts.
EndedMeansStopped ==
    iter.at = "ended" /\ peer.up => ~peer.sampling /\ ~tap.started
=============================================================================
