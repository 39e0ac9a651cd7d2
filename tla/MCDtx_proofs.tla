----------------------------- MODULE MCDtx_proofs -----------------------------
(* Proofs about the components that speak DTX, for every value of the constants.  *)
EXTENDS MCDtx, Sequences, FiniteSetTheorems, SequenceTheorems, TLAPS

-----------------------------------------------------------------------------
(* DvtTap: the inductive invariant.                                            *)

Taps == [variant : T!Variants, started : BOOLEAN, stopRequested : BOOLEAN, channel : BOOLEAN]
Peers == [sampling : BOOLEAN, up : BOOLEAN]
Iterations == [at : {"ended", "start", "check", "asking", "reading", "payload", "yielded"},
               k : Nat, stopped : {"no", "heard", "early"}, after : Nat, runs : Nat]

TapTyped ==
    /\ tap \in Taps
    /\ peer \in Peers
    /\ iter \in Iterations
    /\ iter.at = "start" => iter.k \in 1..(Len(T!Script(tap.variant)) + 1)
    /\ ~T!HasFlag => ~tap.started

\* Where start() makes the channel, tells the device to sample, and sets the flag, if any.
InitAt(v) == IF v = "network" THEN 2 ELSE 1
StartAt(v) == CASE v \in {"trace", "sysmon"} -> 4
                [] v \in {"energy", "network"} -> 3
                [] OTHER -> 2
OnAt(v) == CASE v = "trace" -> 6 [] v = "sysmon" -> 5 [] v = "energy" -> 4 [] OTHER -> 0
Ahead(place) == iter.at = "start" /\ iter.k <= place

\* stop() will tell a device that samples to stop: from when start() is through, and while
\* it is under way, unless it has yet to set the flag.
StopReaches ==
    peer.up /\ peer.sampling
        => T!TellsDevice(tap) \/ (T!HasFlag /\ Ahead(OnAt(tap.variant)))

\* start() makes the channel before it uses it.
ChannelFirst == iter.at # "ended" => tap.channel \/ Ahead(InitAt(tap.variant))

\* A stop() that was heard is remembered until the loop looks at the flag.
HeardKept ==
    iter.stopped = "heard" /\ iter.at # "ended"
        => T!Abortable /\ tap.stopRequested /\ iter.at # "reading" /\ T!Heard

\* The message received after a stop() that was heard is followed by that look.
AfterKept ==
    iter.after = 1 => iter.stopped = "heard" /\ iter.at \in {"yielded", "check", "ended"}

TapInv ==
    /\ TapTyped /\ StopReaches /\ ChannelFirst /\ HeardKept /\ AfterKept
    /\ T!StopHonoured /\ T!EndedMeansStopped

\* start() of each instrument, element by element.
LEMMA Scripts ==
    /\ T!Script("trace") = <<"init", "config", "ack", "start", "ack", "on", "reset">>
    /\ T!Script("sysmon") = <<"init", "config", "reset", "start", "on">>
    /\ T!Script("energy") = <<"init", "reset", "start", "on">>
    /\ T!Script("network") = <<"reset", "init", "start">>
    /\ T!Script("graphics") = <<"init", "start", "ack">>
    /\ T!Script("notifications") = <<"init", "start">>
  BY DEF T!Script

\* A script is a sequence of elements.
LEMMA ScriptFacts ==
    ASSUME NEW v \in T!Variants
    PROVE  /\ Len(T!Script(v)) \in Nat
           /\ DOMAIN T!Script(v) = 1..Len(T!Script(v))
           /\ \A k \in 1..Len(T!Script(v)) :
                 T!Script(v)[k] \in {"init", "config", "ack", "start", "on", "reset"}
  <1>1. CASE v = "trace" BY <1>1, Scripts
  <1>2. CASE v = "sysmon" BY <1>2, Scripts
  <1>3. CASE v = "energy" BY <1>3, Scripts
  <1>4. CASE v = "network" BY <1>4, Scripts
  <1>5. CASE v = "graphics" BY <1>5, Scripts
  <1>6. CASE v = "notifications" BY <1>6, Scripts
  <1> QED BY <1>1, <1>2, <1>3, <1>4, <1>5, <1>6 DEF T!Variants

\* The channel is made before sampling starts, and the flag is set after.
LEMMA ScriptOrder ==
    ASSUME NEW v \in T!Variants
    PROVE  /\ InitAt(v) \in 1..(StartAt(v) - 1) /\ StartAt(v) \in 1..Len(T!Script(v))
           /\ v \in {"trace", "sysmon", "energy"}
                => OnAt(v) \in (StartAt(v) + 1)..Len(T!Script(v))
           /\ \A k \in 1..Len(T!Script(v)) :
                 /\ T!Script(v)[k] = "init" <=> k = InitAt(v)
                 /\ T!Script(v)[k] = "start" <=> k = StartAt(v)
                 /\ T!Script(v)[k] = "on" <=> k = OnAt(v)
  <1>1. CASE v = "trace"
    <2>1. Len(T!Script(v)) = 7 BY <1>1, Scripts
    <2>2. InitAt(v) = 1 /\ StartAt(v) = 4 /\ OnAt(v) = 6 BY <1>1 DEF InitAt, StartAt, OnAt
    <2>3. ASSUME NEW k \in 1..7
          PROVE  /\ T!Script(v)[k] = "init" <=> k = 1
                 /\ T!Script(v)[k] = "start" <=> k = 4
                 /\ T!Script(v)[k] = "on" <=> k = 6
      BY <1>1, <2>3, Scripts
    <2> QED BY <1>1, <2>1, <2>2, <2>3
  <1>2. CASE v = "sysmon"
    <2>1. Len(T!Script(v)) = 5 BY <1>2, Scripts
    <2>2. InitAt(v) = 1 /\ StartAt(v) = 4 /\ OnAt(v) = 5 BY <1>2 DEF InitAt, StartAt, OnAt
    <2>3. ASSUME NEW k \in 1..5
          PROVE  /\ T!Script(v)[k] = "init" <=> k = 1
                 /\ T!Script(v)[k] = "start" <=> k = 4
                 /\ T!Script(v)[k] = "on" <=> k = 5
      BY <1>2, <2>3, Scripts
    <2> QED BY <1>2, <2>1, <2>2, <2>3
  <1>3. CASE v = "energy"
    <2>1. Len(T!Script(v)) = 4 BY <1>3, Scripts
    <2>2. InitAt(v) = 1 /\ StartAt(v) = 3 /\ OnAt(v) = 4 BY <1>3 DEF InitAt, StartAt, OnAt
    <2>3. ASSUME NEW k \in 1..4
          PROVE  /\ T!Script(v)[k] = "init" <=> k = 1
                 /\ T!Script(v)[k] = "start" <=> k = 3
                 /\ T!Script(v)[k] = "on" <=> k = 4
      BY <1>3, <2>3, Scripts
    <2> QED BY <1>3, <2>1, <2>2, <2>3
  <1>4. CASE v = "network"
    <2>1. Len(T!Script(v)) = 3 BY <1>4, Scripts
    <2>2. InitAt(v) = 2 /\ StartAt(v) = 3 /\ OnAt(v) = 0 BY <1>4 DEF InitAt, StartAt, OnAt
    <2>3. ASSUME NEW k \in 1..3
          PROVE  /\ T!Script(v)[k] = "init" <=> k = 2
                 /\ T!Script(v)[k] = "start" <=> k = 3
                 /\ T!Script(v)[k] = "on" <=> k = 0
      BY <1>4, <2>3, Scripts
    <2> QED BY <1>4, <2>1, <2>2, <2>3
  <1>5. CASE v = "graphics"
    <2>1. Len(T!Script(v)) = 3 BY <1>5, Scripts
    <2>2. InitAt(v) = 1 /\ StartAt(v) = 2 /\ OnAt(v) = 0 BY <1>5 DEF InitAt, StartAt, OnAt
    <2>3. ASSUME NEW k \in 1..3
          PROVE  /\ T!Script(v)[k] = "init" <=> k = 1
                 /\ T!Script(v)[k] = "start" <=> k = 2
                 /\ T!Script(v)[k] = "on" <=> k = 0
      BY <1>5, <2>3, Scripts
    <2> QED BY <1>5, <2>1, <2>2, <2>3
  <1>6. CASE v = "notifications"
    <2>1. Len(T!Script(v)) = 2 BY <1>6, Scripts
    <2>2. InitAt(v) = 1 /\ StartAt(v) = 2 /\ OnAt(v) = 0 BY <1>6 DEF InitAt, StartAt, OnAt
    <2>3. ASSUME NEW k \in 1..2
          PROVE  /\ T!Script(v)[k] = "init" <=> k = 1
                 /\ T!Script(v)[k] = "start" <=> k = 2
                 /\ T!Script(v)[k] = "on" <=> k = 0
      BY <1>6, <2>3, Scripts
    <2> QED BY <1>6, <2>1, <2>2, <2>3
  <1> QED BY <1>1, <1>2, <1>3, <1>4, <1>5, <1>6 DEF T!Variants

\* What stop() is made of, in the terms of the invariant.
LEMMA StopParts ==
    ASSUME TapInv
    PROVE  /\ T!StopFlags(tap) = [tap EXCEPT !.stopRequested = IF T!Abortable THEN TRUE ELSE @,
                                             !.started = FALSE]
           /\ T!StopPeer(tap) \in Peers
           /\ T!StopPeer(tap).up = peer.up
           /\ T!StopPeer(tap).sampling => peer.sampling
           /\ peer.up /\ T!TellsDevice(tap) => ~T!StopPeer(tap).sampling
           /\ T!TellsDevice(tap) <=> IF T!HasFlag THEN tap.started ELSE tap.channel
           /\ T!HasFlag => T!Abortable
           /\ T!HasFlag <=> tap.variant \in {"trace", "sysmon", "energy"}
  BY DEF Taps, Peers, TapInv, TapTyped, T!StopFlags, T!StopPeer, T!TellsDevice, T!HasFlag,
         T!Abortable

\* The end of the generator, from wherever its loop is.
LEMMA TapFinish ==
    ASSUME TapInv, T!Finish, iter.at \notin {"ended", "start"}
    PROVE  TapInv'
  <1> USE DEF Taps, Peers, Iterations
  <1>1. /\ tap \in Taps
        /\ iter \in Iterations
    BY DEF TapInv, TapTyped
  <1>2. /\ tap' = T!StopFlags(tap) /\ peer' = T!StopPeer(tap)
        /\ iter' = [iter EXCEPT !.at = "ended"]
    BY DEF T!Finish
  <1>3. /\ tap'.variant = tap.variant /\ ~tap'.started /\ tap'.channel = tap.channel
        /\ tap' \in Taps
    BY <1>1, <1>2, StopParts
  <1>4. /\ iter'.at = "ended" /\ iter' \in Iterations
        /\ iter'.stopped = iter.stopped /\ iter'.after = iter.after
    BY <1>1, <1>2
  <1>5. peer.up /\ peer.sampling => T!TellsDevice(tap)
    BY DEF TapInv, StopReaches, Ahead
  <1>6. ~(peer'.up /\ peer'.sampling)
    BY <1>2, <1>5, StopParts
  <1>7. TapTyped'
    BY <1>2, <1>3, <1>4, StopParts DEF TapTyped
  <1> QED
    BY <1>3, <1>4, <1>6, <1>7
       DEF TapInv, StopReaches, ChannelFirst, HeardKept, AfterKept, T!StopHonoured, T!EndedMeansStopped

\* The generator moves on in its loop, with no message received since a stop() was heard.
LEMMA TapMoves ==
    ASSUME TapInv, iter.at \in {"check", "asking", "reading", "payload"}, iter.after # 1,
           NEW to \in {"asking", "reading", "payload"}, to = "reading" => iter.stopped # "heard",
           iter' = [iter EXCEPT !.at = to], tap' = tap, peer' = peer
    PROVE  TapInv'
  <1>1. /\ iter' \in Iterations /\ iter'.at = to /\ iter'.k = iter.k
        /\ iter'.stopped = iter.stopped /\ iter'.after = iter.after
    BY DEF TapInv, TapTyped, Iterations
  <1> QED
    BY <1>1 DEF TapInv, TapTyped, StopReaches, ChannelFirst, HeardKept, AfterKept,
                T!StopHonoured, T!EndedMeansStopped, T!TellsDevice, T!HasFlag, T!Abortable,
                T!Heard, Ahead

\* The next sample is asked for.
LEMMA TapAsks ==
    ASSUME TapInv, iter.at = "check", iter.after # 1,
           iter' = [iter EXCEPT !.at = "asking"], tap' = tap, peer' = peer
    PROVE  TapInv'
  BY TapMoves

\* The next header is taken or waited for, or the signal of the read ends the generator.
LEMMA TapReads ==
    ASSUME TapInv, T!ReadOn, iter.at \in {"check", "asking", "payload"}, iter.after # 1
    PROVE  TapInv'
  <1>1. CASE iter' = [iter EXCEPT !.at = "payload"] /\ tap' = tap /\ peer' = peer
    BY <1>1, TapMoves
  <1>2. CASE ~T!Aborted /\ iter' = [iter EXCEPT !.at = "reading"] /\ tap' = tap /\ peer' = peer
    <2>1. iter.stopped # "heard"
      BY <1>2 DEF T!Aborted, TapInv, HeardKept
    <2> QED
      BY <1>2, <2>1, TapMoves
  <1>3. CASE T!Finish
    BY <1>3, TapFinish
  <1> QED
    BY <1>1, <1>2, <1>3 DEF T!ReadOn

\* Every step of an instrument, its consumer, a caller of stop() or the connection keeps it.
LEMMA TapStep ==
    ASSUME TapInv, T!TapNext
    PROVE  TapInv'
  <1> USE DEF Taps, Peers, Iterations
  <1> DEFINE script == T!Script(tap.variant)
  <1>1. /\ tap \in Taps
        /\ peer \in Peers
        /\ iter \in Iterations
        /\ iter.at = "start" => iter.k \in 1..(Len(script) + 1)
        /\ ~T!HasFlag => ~tap.started
    BY DEF TapInv, TapTyped
  <1>2. /\ Len(script) \in Nat
        /\ DOMAIN script = 1..Len(script)
        /\ \A k \in 1..Len(script) : script[k] \in {"init", "config", "ack", "start", "on", "reset"}
    BY <1>1, ScriptFacts
  <1>3. /\ InitAt(tap.variant) \in 1..(StartAt(tap.variant) - 1)
        /\ StartAt(tap.variant) \in 1..Len(script)
        /\ T!HasFlag => OnAt(tap.variant) \in (StartAt(tap.variant) + 1)..Len(script)
        /\ \A k \in 1..Len(script) : /\ script[k] = "init" <=> k = InitAt(tap.variant)
                                     /\ script[k] = "start" <=> k = StartAt(tap.variant)
                                     /\ script[k] = "on" <=> k = OnAt(tap.variant)
    BY <1>1, ScriptOrder DEF T!HasFlag
  <1>4. StopReaches /\ ChannelFirst /\ HeardKept /\ AfterKept /\ T!StopHonoured /\ T!EndedMeansStopped
    BY DEF TapInv
  <1> HIDE DEF script
  <1>5. CASE T!Iterate
    <2>1. /\ iter.at = "ended" /\ peer.up
          /\ iter' = [at |-> "start", k |-> IF tap.started /\ tap.variant # "energy"
                                            THEN Len(script) + 1 ELSE 1,
                      stopped |-> "no", after |-> 0, runs |-> iter.runs + 1]
          /\ tap' = IF tap.variant = "energy"
                    THEN [tap EXCEPT !.stopRequested = TRUE, !.started = FALSE] ELSE tap
          /\ peer' = IF tap.variant = "energy" /\ tap.started
                     THEN [peer EXCEPT !.sampling = FALSE] ELSE peer
      BY <1>5 DEF T!Iterate, script
    <2>2. ~peer.sampling /\ ~tap.started
      BY <2>1, <1>4 DEF T!EndedMeansStopped
    <2>3. /\ peer' = peer /\ ~tap'.started /\ tap'.variant = tap.variant
          /\ tap' \in Taps
      BY <2>1, <2>2, <1>1
    <2>4. /\ iter'.at = "start" /\ iter'.k = 1 /\ iter'.stopped = "no" /\ iter'.after = 0
          /\ iter' \in Iterations
      BY <2>1, <2>2, <1>1
    <2>5. iter'.k \in 1..(Len(T!Script(tap.variant)) + 1) /\ iter'.k <= InitAt(tap.variant)
      BY <2>4, <1>2, <1>3 DEF script
    <2>6. TapTyped'
      BY <2>3, <2>4, <2>5, <1>1 DEF TapTyped
    <2> QED
      BY <2>2, <2>3, <2>4, <2>5, <2>6
         DEF TapInv, StopReaches, ChannelFirst, HeardKept, AfterKept, T!StopHonoured, T!EndedMeansStopped,
             Ahead
  <1>6. CASE T!Start
    <2> DEFINE e == script[iter.k]
    <2>1. iter.at = "start" /\ iter.k \in 1..Len(script) /\ iter.k \in Nat
      BY <1>6, <1>1, <1>2 DEF T!Start, script
    <2>2. e \in {"init", "config", "ack", "start", "on", "reset"}
      BY <2>1, <1>2
    <2>3. CASE e \in {"init", "config", "start", "ack"} /\ ~peer.up
      <3>1. iter' = [iter EXCEPT !.at = "ended"] /\ tap' = tap /\ peer' = peer
        BY <1>6, <2>3 DEF T!Start, script
      <3> QED
        BY <3>1, <2>3, <1>1, <1>4
           DEF TapInv, TapTyped, StopReaches, ChannelFirst, HeardKept, AfterKept, T!StopHonoured,
             T!EndedMeansStopped,
             T!TellsDevice, T!HasFlag, T!Abortable, T!Heard, Ahead
    <2>4. CASE ~(e \in {"init", "config", "start", "ack"} /\ ~peer.up)
      <3>1. /\ iter' = [iter EXCEPT !.k = @ + 1]
            /\ tap' = CASE e = "init" -> [tap EXCEPT !.channel = TRUE]
                        [] e = "on" -> [tap EXCEPT !.started = TRUE]
                        [] e = "reset" -> [tap EXCEPT !.stopRequested = FALSE]
                        [] OTHER -> tap
            /\ peer' = IF e = "start" THEN [peer EXCEPT !.sampling = TRUE] ELSE peer
        BY <1>6, <2>4 DEF T!Start, script
      <3>2. /\ iter'.at = "start" /\ iter'.k = iter.k + 1 /\ iter'.stopped = iter.stopped
            /\ iter'.after = iter.after
            /\ iter' \in Iterations
        BY <3>1, <2>1, <1>1
      <3>3. /\ tap'.variant = tap.variant
            /\ tap'.channel = (e = "init" \/ tap.channel)
            /\ tap'.started = (e = "on" \/ tap.started)
            /\ tap'.stopRequested = (e # "reset" /\ tap.stopRequested)
            /\ tap' \in Taps
        BY <3>1, <2>2, <1>1
      <3>4. /\ peer' \in Peers /\ peer'.up = peer.up
            /\ peer'.sampling = (e = "start" \/ peer.sampling)
        BY <3>1, <1>1
      <3>5. e = "on" => T!HasFlag
        BY <2>1, <1>1, <1>3 DEF OnAt, T!HasFlag
      <3>6. TapTyped'
        BY <3>2, <3>3, <3>4, <3>5, <2>1, <1>1, <1>2 DEF TapTyped, T!HasFlag, script
      <3>7. ChannelFirst'
        BY <3>2, <3>3, <2>1, <1>1, <1>3, <1>4 DEF ChannelFirst, Ahead
      <3>8. e = "start" => tap.channel
        BY <2>1, <1>1, <1>3, <1>4 DEF ChannelFirst, Ahead
      <3>9. StopReaches'
        <4>1. SUFFICES ASSUME peer'.up, peer'.sampling
                       PROVE  (T!TellsDevice(tap) \/ (T!HasFlag /\ Ahead(OnAt(tap.variant))))'
          BY DEF StopReaches
        <4>2. CASE ~T!HasFlag
          <5>1. tap.channel
            BY <4>1, <4>2, <3>4, <3>8, <1>4 DEF StopReaches, T!TellsDevice
          <5> QED BY <5>1, <4>2, <3>3 DEF T!TellsDevice, T!HasFlag
        <4>3. CASE T!HasFlag
          <5>1. tap.started \/ iter.k <= OnAt(tap.variant)
            BY <4>1, <4>3, <3>4, <2>1, <1>3, <1>4 DEF StopReaches, T!TellsDevice, Ahead
          <5>2. tap'.started \/ iter.k + 1 <= OnAt(tap.variant)
            BY <5>1, <4>3, <3>3, <2>1, <1>3
          <5> QED BY <5>2, <4>3, <3>2, <3>3 DEF T!TellsDevice, T!HasFlag, Ahead
        <4> QED BY <4>2, <4>3
      <3>10. HeardKept'
        <4>1. SUFFICES ASSUME iter.stopped = "heard"
                       PROVE  (T!Abortable /\ tap.stopRequested /\ iter.at # "reading" /\ T!Heard)'
          BY <3>2 DEF HeardKept
        <4>2. T!Abortable /\ tap.stopRequested /\ \A k \in iter.k..Len(script) : script[k] # "reset"
          BY <4>1, <2>1, <1>4 DEF HeardKept, T!Heard, script
        <4>3. e # "reset" /\ \A k \in (iter.k + 1)..Len(script) : script[k] # "reset"
          BY <4>2, <2>1, <1>2
        <4> QED BY <4>2, <4>3, <3>2, <3>3 DEF T!Abortable, T!Heard, script
      <3> QED
        BY <3>2, <3>6, <3>7, <3>9, <3>10, <2>1, <1>4
           DEF TapInv, AfterKept, T!StopHonoured, T!EndedMeansStopped
    <2> QED BY <2>3, <2>4
  <1>7. CASE T!Started
    <2>1. /\ tap' = tap /\ peer' = peer /\ iter.at = "start" /\ iter.k > Len(script)
          /\ iter' = [iter EXCEPT !.at = "check"]
      BY <1>7 DEF T!Started, script
    <2>2. tap.channel
      BY <2>1, <1>3, <1>4, <1>1 DEF ChannelFirst, Ahead
    <2>3. peer.up /\ peer.sampling => T!TellsDevice(tap)
      BY <2>1, <1>3, <1>4, <1>1 DEF StopReaches, Ahead
    <2> QED
      BY <2>1, <2>2, <2>3, <1>1, <1>4
         DEF TapInv, TapTyped, StopReaches, ChannelFirst, HeardKept, AfterKept, T!StopHonoured,
             T!EndedMeansStopped,
           T!TellsDevice, T!HasFlag, T!Abortable, T!Heard, Ahead
  <1>8. CASE T!Check
    <2>1. iter.at = "check"
      BY <1>8 DEF T!Check
    <2>2. CASE tap.stopRequested /\ T!Abortable
      BY <1>8, <2>1, <2>2, TapFinish DEF T!Check
    <2>3. CASE ~(tap.stopRequested /\ T!Abortable)
      <3>1. iter.stopped # "heard"
        BY <2>1, <2>3, <1>4 DEF HeardKept
      <3>2. iter.after # 1
        BY <3>1, <1>4 DEF AfterKept
      <3>3. \/ iter' = [iter EXCEPT !.at = "asking"] /\ UNCHANGED <<tap, peer>>
            \/ T!ReadOn
        BY <1>8, <2>3 DEF T!Check
      <3> QED
        BY <3>1, <3>2, <3>3, <2>1, TapAsks, TapReads
    <2> QED BY <2>2, <2>3
  <1>9. CASE T!Resume
    <2>1. /\ tap' = tap /\ peer' = peer /\ iter.at = "yielded"
          /\ iter' = [iter EXCEPT !.at = "check"]
      BY <1>9 DEF T!Resume
    <2> QED
      BY <2>1, <1>1, <1>4
         DEF TapInv, TapTyped, StopReaches, ChannelFirst, HeardKept, AfterKept, T!StopHonoured,
             T!EndedMeansStopped,
           T!TellsDevice, T!HasFlag, T!Abortable, T!Heard, Ahead
  <1>10. CASE T!Leave
    BY <1>10, TapFinish DEF T!Leave
  <1>11. CASE T!Stop
    <2>1. CASE iter.at = "reading" /\ T!Abortable
      BY <1>11, <2>1, TapFinish DEF T!Stop
    <2>2. CASE ~(iter.at = "reading" /\ T!Abortable)
      <3>1. /\ tap' = T!StopFlags(tap) /\ peer' = T!StopPeer(tap)
            /\ iter' = [iter EXCEPT !.stopped = IF iter.at = "ended" \/ ~T!Abortable THEN @
                                                ELSE IF T!Heard THEN "heard" ELSE "early"]
        BY <1>11, <2>2 DEF T!Stop
      <3>2. /\ iter'.at = iter.at /\ iter'.k = iter.k
            /\ iter'.stopped = "heard" /\ iter.at # "ended"
                  => T!Abortable /\ T!Heard /\ iter.at # "reading"
            /\ iter'.after = iter.after
            /\ iter.stopped = "heard" => iter'.stopped = "heard"
            /\ iter' \in Iterations
        BY <3>1, <2>2, <1>1, <1>4 DEF HeardKept
      <3>3. /\ tap'.variant = tap.variant /\ tap'.channel = tap.channel /\ ~tap'.started
            /\ T!Abortable => tap'.stopRequested
            /\ tap' \in Taps
        BY <3>1, <1>1, StopParts
      <3>4. /\ peer' \in Peers /\ peer'.up = peer.up
            /\ peer'.sampling => peer.sampling
            /\ peer'.up /\ peer'.sampling => ~T!TellsDevice(tap)
        BY <3>1, StopParts
      <3>5. TapTyped'
        BY <3>2, <3>3, <3>4, <1>1 DEF TapTyped, script
      <3>6. StopReaches'
        BY <3>2, <3>3, <3>4, <1>4 DEF StopReaches, T!HasFlag, Ahead
      <3>7. HeardKept'
        BY <3>2, <3>3 DEF HeardKept, T!Abortable, T!Heard
      <3> QED
        BY <3>2, <3>3, <3>4, <3>5, <3>6, <3>7, <1>4
           DEF TapInv, ChannelFirst, T!StopHonoured, T!EndedMeansStopped, HeardKept, AfterKept,
               Ahead
    <2> QED BY <2>1, <2>2
  <1>12. CASE T!ConnectionEnds
    <2>1. ~peer'.up /\ peer' \in Peers
      BY <1>12 DEF T!ConnectionEnds
    <2>2. CASE iter.at \in {"asking", "reading", "payload"}
      <3>1. iter' = [iter EXCEPT !.at = "ended"] /\ tap' = T!StopFlags(tap)
        BY <1>12, <2>2 DEF T!ConnectionEnds
      <3>2. /\ tap'.variant = tap.variant /\ ~tap'.started
            /\ tap' \in Taps
        BY <3>1, <1>1, StopParts
      <3> QED
        BY <3>1, <3>2, <2>1, <1>1
           DEF TapInv, TapTyped, StopReaches, ChannelFirst, HeardKept, AfterKept, T!StopHonoured,
               T!EndedMeansStopped
    <2>3. CASE iter.at \notin {"asking", "reading", "payload"}
      <3>1. iter' = iter /\ tap' = tap
        BY <1>12, <2>3 DEF T!ConnectionEnds
      <3> QED
        BY <3>1, <2>1, <1>1, <1>4
           DEF TapInv, TapTyped, StopReaches, ChannelFirst, HeardKept, AfterKept, T!StopHonoured,
             T!EndedMeansStopped,
             T!TellsDevice, T!HasFlag, T!Abortable, T!Heard, Ahead
    <2> QED BY <2>2, <2>3
  <1>13. ASSUME NEW yielded \in BOOLEAN, T!Receive(yielded)
         PROVE  TapInv'
    <2>1. /\ tap' = tap /\ peer' = peer /\ iter.at = "payload"
          /\ iter' = [iter EXCEPT !.at = IF yielded THEN "yielded" ELSE "check",
                                  !.after = IF iter.stopped = "heard" THEN @ + 1 ELSE @]
      BY <1>13 DEF T!Receive
    <2>2. iter.after = 0
      BY <2>1, <1>1, <1>4 DEF AfterKept, T!StopHonoured
    <2>3. /\ iter'.at \in {"yielded", "check"} /\ iter' \in Iterations
          /\ iter'.stopped = iter.stopped /\ iter'.k = iter.k
          /\ iter'.after = IF iter.stopped = "heard" THEN 1 ELSE 0
      <3>1. CASE iter.stopped = "heard"
        <4>1. iter' = [iter EXCEPT !.at = IF yielded THEN "yielded" ELSE "check", !.after = 1]
          BY <2>1, <2>2, <3>1
        <4> QED BY <4>1, <3>1, <1>1
      <3>2. CASE iter.stopped # "heard"
        <4>1. iter' = [iter EXCEPT !.at = IF yielded THEN "yielded" ELSE "check", !.after = 0]
          BY <2>1, <2>2, <3>2
        <4> QED BY <4>1, <3>2, <1>1
      <3> QED BY <3>1, <3>2
    <2> QED
      BY <2>1, <2>3, <1>1, <1>4
         DEF TapInv, TapTyped, StopReaches, ChannelFirst, HeardKept, AfterKept, T!StopHonoured,
             T!EndedMeansStopped,
           T!TellsDevice, T!HasFlag, T!Abortable, T!Heard, Ahead
  <1>14. CASE T!Asked
    BY <1>14, <1>4, TapReads DEF T!Asked, AfterKept
  <1>15. CASE T!Continue
    BY <1>15, <1>4, TapReads DEF T!Continue, AfterKept
  <1>16. CASE T!Header
    <2>1. /\ tap' = tap /\ peer' = peer /\ iter.at = "reading"
          /\ iter' = [iter EXCEPT !.at = "payload"]
      BY <1>16 DEF T!Header
    <2>2. iter.stopped # "heard" /\ iter.after # 1
      BY <2>1, <1>4 DEF T!StopHonoured, AfterKept
    <2> QED
      BY <2>1, <2>2, TapMoves
  <1> QED
    BY <1>5, <1>6, <1>7, <1>8, <1>9, <1>10, <1>11, <1>12, <1>13, <1>14, <1>15, <1>16
       DEF T!TapNext

\* An instrument that was never used.
LEMMA TapInitial ==
    ASSUME T!TapInit
    PROVE  TapInv
  <1>1. PICK v \in T!Variants : tap = [variant |-> v, started |-> FALSE, stopRequested |-> FALSE,
                                       channel |-> FALSE]
    BY DEF T!TapInit
  <1>2. /\ peer = [sampling |-> FALSE, up |-> TRUE]
        /\ iter = [at |-> "ended", k |-> 0, stopped |-> "no", after |-> 0, runs |-> 0]
    BY DEF T!TapInit
  <1> QED
    BY <1>1, <1>2 DEF TapInv, TapTyped, Taps, Peers, Iterations, StopReaches, ChannelFirst,
                      HeardKept, AfterKept, T!StopHonoured, T!EndedMeansStopped

\* After a stop() that was heard no further message is waited for and at most one is handed out,
\* and an iteration that has ended left no device sampling: for every instrument, however many
\* runs and calls of stop() there are.
THEOREM SamplingIsStopped == Spec => []SamplingStops
  <1>1. Init => TapInv
    BY TapInitial DEF Init
  <1>2. TapInv /\ [Next]_vars => TapInv'
    <2> SUFFICES ASSUME TapInv, [Next]_vars PROVE TapInv'
      OBVIOUS
    <2>1. CASE UNCHANGED tapVars
      BY <2>1 DEF tapVars, TapInv, TapTyped, StopReaches, ChannelFirst, HeardKept, AfterKept, Ahead,
                  T!StopHonoured, T!EndedMeansStopped, T!HasFlag, T!Abortable, T!Heard,
                  T!TellsDevice
    <2>2. CASE T!TapNext
      BY <2>2, TapStep
    <2> QED
      BY <2>1, <2>2 DEF Next, Connection, Tap, Audit, vars
  <1>3. TapInv => SamplingStops
    BY DEF TapInv, SamplingStops
  <1> QED
    BY <1>1, <1>2, <1>3, PTL DEF Spec

-----------------------------------------------------------------------------
(* AxAudit: the inductive invariant.                                           *)

AxOps == {"idle", "invoke", "audit", "focus", "observe"}
AxKinds == {"reply", A!Found, A!Completed, A!Focused}

AxLink == [phase : {"checkin", "open", "closed"}, plists : Nat, nextMessageId : Nat,
           unhandled : {"no", "closed"}]
AxTable == [replies : SUBSET (Nat \X User),
            waiters : [{A!Completed, A!Focused} -> SUBSET User],
            listeners : SUBSET ({A!Found, A!Focused} \X User)]
AxCount == [observerCount : Nat, inFlight : BOOLEAN, begun : Nat, timedOut : SUBSET Nat]
AxMessage == [kind : AxKinds, id : Nat]
AxDevice == [armed : BOOLEAN, owed : SUBSET Nat, running : SUBSET Nat, inbox : Seq(AxMessage),
             sent : Nat]
AxCall == [op : AxOps, id : Nat, issues : SUBSET Nat, ended : BOOLEAN]

AxTyped ==
    /\ link \in AxLink /\ table \in AxTable /\ audit \in AxCount /\ daemon \in AxDevice
    /\ users \in [User -> AxCall]

\* Who waits in a table is making the call the table is for.
TableExact ==
    /\ \A p \in table.replies : users[p[2]].op = "invoke" /\ users[p[2]].id = p[1]
    /\ \A u \in User : /\ u \in table.waiters[A!Completed] <=> users[u].op = "audit"
                       /\ <<A!Found, u>> \in table.listeners <=> users[u].op = "audit"
                       /\ u \in table.waiters[A!Focused] => users[u].op = "focus"

\* The count of observers is exact until an observe() throws on a closed transport.
Observers(us) == {u \in User : us[u].op = "observe"}
ObserversCounted ==
    /\ Cardinality(Observers(users)) <= audit.observerCount
    /\ ~A!Closed => Cardinality(Observers(users)) = audit.observerCount

\* One audit at most is in flight: the last one begun.
OneAudit ==
    /\ audit.inFlight <=> \E u \in User : users[u].op = "audit"
    /\ \A u, v \in User : users[u].op = "audit" /\ users[v].op = "audit" => u = v
    /\ \A u \in User : users[u].op = "audit" => users[u].id = audit.begun
    /\ \A u \in User : users[u].ended => users[u].op = "idle" /\ users[u].id <= audit.begun

\* What the device runs, or has sent of an audit, belongs to the audit in flight or to one
\* that came with or after an audit given up; and it sends nothing after an audit's end.
Live(au, a) == /\ a \in 1..au.begun
               /\ (au.inFlight /\ a = au.begun) \/ \E t \in au.timedOut : t <= a
OfAudit(m) == m.kind \in {A!Found, A!Completed}
DeviceExact ==
    /\ \A a \in daemon.running : Live(audit, a)
    /\ \A i \in DOMAIN daemon.inbox : OfAudit(daemon.inbox[i]) => Live(audit, daemon.inbox[i].id)
    /\ \A i \in DOMAIN daemon.inbox :
          daemon.inbox[i].kind = A!Completed
              => /\ daemon.inbox[i].id \notin daemon.running
                 /\ \A j \in DOMAIN daemon.inbox :
                       i < j /\ OfAudit(daemon.inbox[j]) => daemon.inbox[j].id # daemon.inbox[i].id

\* Nobody calls before the checkin is through.
CheckinQuiet ==
    link.phase = "checkin" => /\ \A u \in User : users[u].op = "idle"
                              /\ ~daemon.armed

AxInv ==
    /\ AxTyped /\ TableExact /\ ObserversCounted /\ OneAudit /\ DeviceExact /\ CheckinQuiet
    /\ A!NoWaitOnClosed /\ A!MonitoringMatches /\ A!AuditsNotMixed

-----------------------------------------------------------------------------
(* AxAudit: observers and the count of them.                                   *)

\* Calls that come and go leave the observers as they are.
LEMMA ObserversSame ==
    ASSUME NEW us, NEW ws, \A u \in User : ws[u].op = "observe" <=> us[u].op = "observe"
    PROVE  Observers(ws) = Observers(us)
  BY DEF Observers

\* The observers can be counted, and the count is zero when there are none.
LEMMA ObserversFinite ==
    ASSUME NEW us
    PROVE  /\ IsFiniteSet(Observers(us)) /\ Cardinality(Observers(us)) \in Nat
           /\ Cardinality(Observers(us)) = 0 <=> \A u \in User : us[u].op # "observe"
  <1>1. IsFiniteSet(Observers(us))
    BY UserAssumption, FS_Subset DEF Observers
  <1>2. Cardinality(Observers(us)) = 0 <=> Observers(us) = {}
    BY <1>1, FS_EmptySet
  <1> QED
    BY <1>1, <1>2, FS_CardinalityType DEF Observers

\* One more observer, one fewer.
LEMMA ObserverComes ==
    ASSUME NEW us, NEW ws, NEW u \in User, us[u].op # "observe", ws[u].op = "observe",
           \A v \in User \ {u} : ws[v] = us[v]
    PROVE  Cardinality(Observers(ws)) = Cardinality(Observers(us)) + 1
  <1>1. Observers(ws) = Observers(us) \cup {u} /\ u \notin Observers(us)
    BY DEF Observers
  <1> QED
    BY <1>1, ObserversFinite, FS_AddElement

LEMMA ObserverLeaves ==
    ASSUME NEW us, NEW ws, NEW u \in User, us[u].op = "observe", ws[u].op # "observe",
           \A v \in User \ {u} : ws[v] = us[v]
    PROVE  /\ Cardinality(Observers(ws)) = Cardinality(Observers(us)) - 1
           /\ Cardinality(Observers(us)) \in Nat \ {0}
  <1>1. Cardinality(Observers(us)) = Cardinality(Observers(ws)) + 1
    BY ObserverComes
  <1>2. Cardinality(Observers(ws)) \in Nat
    BY ObserversFinite
  <1> QED
    BY <1>1, <1>2

-----------------------------------------------------------------------------
(* AxAudit: what the device runs and has sent.                                 *)

\* The device sends a message: one of an audit it runs, or none of an audit.
LEMMA DeviceSent ==
    ASSUME DeviceExact, daemon.inbox \in Seq(AxMessage), NEW m \in AxMessage,
           daemon'.inbox = Append(daemon.inbox, m), daemon'.running \subseteq daemon.running,
           OfAudit(m) => m.id \in daemon.running,
           m.kind = A!Completed => m.id \notin daemon'.running,
           audit' = audit
    PROVE  DeviceExact'
  <1>1. /\ DOMAIN daemon'.inbox = 1..(Len(daemon.inbox) + 1)
        /\ DOMAIN daemon.inbox = 1..Len(daemon.inbox)
        /\ Len(daemon.inbox) \in Nat
        /\ \A i \in DOMAIN daemon.inbox : daemon'.inbox[i] = daemon.inbox[i]
        /\ daemon'.inbox[Len(daemon.inbox) + 1] = m
    OBVIOUS
  <1>2. \A a : Live(audit', a) <=> Live(audit, a)
    BY DEF Live
  <1>3. \A a \in daemon'.running : Live(audit', a)
    BY <1>2 DEF DeviceExact
  <1>4. ASSUME NEW i \in DOMAIN daemon'.inbox, OfAudit(daemon'.inbox[i])
        PROVE  Live(audit', daemon'.inbox[i].id)
    BY <1>1, <1>2, <1>4 DEF DeviceExact
  <1>5. ASSUME NEW i \in DOMAIN daemon'.inbox, daemon'.inbox[i].kind = A!Completed
        PROVE  /\ daemon'.inbox[i].id \notin daemon'.running
               /\ \A j \in DOMAIN daemon'.inbox :
                     i < j /\ OfAudit(daemon'.inbox[j]) => daemon'.inbox[j].id # daemon'.inbox[i].id
    <2>1. CASE i = Len(daemon.inbox) + 1
      BY <2>1, <1>1, <1>5
    <2>2. CASE i \in DOMAIN daemon.inbox
      <3>1. daemon.inbox[i].kind = A!Completed
        BY <2>2, <1>1, <1>5
      <3>2. /\ daemon.inbox[i].id \notin daemon.running
            /\ \A j \in DOMAIN daemon.inbox :
                  i < j /\ OfAudit(daemon.inbox[j]) => daemon.inbox[j].id # daemon.inbox[i].id
        BY <2>2, <3>1 DEF DeviceExact
      <3> QED BY <2>2, <3>2, <1>1
    <2> QED BY <2>1, <2>2, <1>1
  <1> QED
    BY <1>3, <1>4, <1>5 DEF DeviceExact

\* A message is taken: the ids still to be heard of stay live.
LEMMA DeviceTaken ==
    ASSUME DeviceExact, daemon.inbox \in Seq(AxMessage), daemon.inbox # <<>>,
           daemon'.inbox = Tail(daemon.inbox), daemon'.running = daemon.running,
           \A a \in Nat : Live(audit, a) /\ (Head(daemon.inbox).kind = A!Completed
                                        => a # Head(daemon.inbox).id) => Live(audit', a)
    PROVE  DeviceExact'
  <1>1. /\ DOMAIN daemon'.inbox = 1..(Len(daemon.inbox) - 1)
        /\ DOMAIN daemon.inbox = 1..Len(daemon.inbox)
        /\ Len(daemon.inbox) \in Nat \ {0}
        /\ \A i \in DOMAIN daemon'.inbox : daemon'.inbox[i] = daemon.inbox[i + 1]
        /\ Head(daemon.inbox) = daemon.inbox[1]
    OBVIOUS
  <1>2. Head(daemon.inbox).kind = A!Completed
           => /\ Head(daemon.inbox).id \notin daemon.running
              /\ \A j \in DOMAIN daemon.inbox :
                    1 < j /\ OfAudit(daemon.inbox[j]) => daemon.inbox[j].id # Head(daemon.inbox).id
    BY <1>1 DEF DeviceExact
  <1>3. ASSUME NEW a \in daemon'.running
        PROVE  Live(audit', a)
    BY <1>2 DEF DeviceExact, Live
  <1>4. ASSUME NEW i \in DOMAIN daemon'.inbox, OfAudit(daemon'.inbox[i])
        PROVE  Live(audit', daemon'.inbox[i].id)
    <2>1. i + 1 \in DOMAIN daemon.inbox /\ 1 < i + 1 /\ daemon'.inbox[i] = daemon.inbox[i + 1]
      BY <1>1
    <2>2. daemon.inbox[i + 1] \in AxMessage /\ daemon.inbox[i + 1].id \in Nat
      <3>1. daemon.inbox[i + 1] \in AxMessage
        BY <2>1
      <3> QED BY <3>1 DEF AxMessage
    <2>3. Live(audit, daemon.inbox[i + 1].id)
      BY <2>1, <1>4 DEF DeviceExact
    <2> QED BY <2>1, <2>2, <2>3, <1>2, <1>4
  <1>5. ASSUME NEW i \in DOMAIN daemon'.inbox, daemon'.inbox[i].kind = A!Completed
        PROVE  /\ daemon'.inbox[i].id \notin daemon'.running
               /\ \A j \in DOMAIN daemon'.inbox :
                     i < j /\ OfAudit(daemon'.inbox[j]) => daemon'.inbox[j].id # daemon'.inbox[i].id
    <2>1. i + 1 \in DOMAIN daemon.inbox /\ daemon'.inbox[i] = daemon.inbox[i + 1]
      BY <1>1
    <2>2. /\ daemon.inbox[i + 1].id \notin daemon.running
          /\ \A j \in DOMAIN daemon.inbox :
                i + 1 < j /\ OfAudit(daemon.inbox[j]) => daemon.inbox[j].id # daemon.inbox[i + 1].id
      BY <2>1, <1>5 DEF DeviceExact
    <2>3. ASSUME NEW j \in DOMAIN daemon'.inbox, i < j, OfAudit(daemon'.inbox[j])
          PROVE  daemon'.inbox[j].id # daemon'.inbox[i].id
      <3>1. j + 1 \in DOMAIN daemon.inbox /\ daemon'.inbox[j] = daemon.inbox[j + 1] /\ i + 1 < j + 1
        BY <1>1, <2>3
      <3> QED BY <3>1, <2>1, <2>2, <2>3
    <2> QED BY <2>1, <2>2, <2>3
  <1> QED
    BY <1>3, <1>4, <1>5 DEF DeviceExact

\* An audit is begun, or nothing the device runs changes.
LEMMA DeviceKept ==
    ASSUME DeviceExact, daemon.inbox \in Seq(AxMessage), audit.begun \in Nat,
           daemon.running \subseteq Nat,
           daemon'.inbox = daemon.inbox,
           \A a \in daemon'.running \ daemon.running : a = audit.begun + 1 /\ Live(audit', a),
           \A a \in Nat : Live(audit, a) => Live(audit', a)
    PROVE  DeviceExact'
  <1>1. \A i \in DOMAIN daemon.inbox : daemon.inbox[i].id \in Nat
    <2>1. \A i \in DOMAIN daemon.inbox : daemon.inbox[i] \in AxMessage
      OBVIOUS
    <2> QED BY <2>1 DEF AxMessage
  <1>2. \A a \in daemon'.running : Live(audit', a)
    BY DEF DeviceExact
  <1>3. \A i \in DOMAIN daemon.inbox : OfAudit(daemon.inbox[i]) => Live(audit', daemon.inbox[i].id)
    BY <1>1 DEF DeviceExact
  <1>4. ASSUME NEW i \in DOMAIN daemon.inbox, daemon.inbox[i].kind = A!Completed
        PROVE  daemon.inbox[i].id \notin daemon'.running
    <2>1. Live(audit, daemon.inbox[i].id) /\ daemon.inbox[i].id \notin daemon.running
      BY <1>4 DEF DeviceExact, OfAudit
    <2>2. daemon.inbox[i].id # audit.begun + 1
      BY <2>1 DEF Live
    <2> QED BY <2>1, <2>2
  <1> QED
    BY <1>2, <1>3, <1>4 DEF DeviceExact

-----------------------------------------------------------------------------
(* AxAudit: the transport.                                                     *)

\* The fields of the state, one by one.
LEMMA AxFields ==
    ASSUME AxTyped
    PROVE  /\ link.phase \in {"checkin", "open", "closed"} /\ link.nextMessageId \in Nat
           /\ link.plists \in Nat
           /\ table.replies \subseteq Nat \X User
           /\ table.waiters[A!Completed] \subseteq User /\ table.waiters[A!Focused] \subseteq User
           /\ table.listeners \subseteq {A!Found, A!Focused} \X User
           /\ audit.observerCount \in Nat /\ audit.inFlight \in BOOLEAN /\ audit.begun \in Nat
           /\ audit.timedOut \subseteq Nat
           /\ daemon.armed \in BOOLEAN /\ daemon.owed \subseteq Nat /\ daemon.running \subseteq Nat
           /\ daemon.inbox \in Seq(AxMessage) /\ daemon.sent \in Nat
           /\ \A u \in User : /\ users[u].op \in AxOps /\ users[u].id \in Nat
                              /\ users[u].issues \subseteq Nat /\ users[u].ended \in BOOLEAN
  BY DEF AxTyped, AxLink, AxTable, AxCount, AxDevice, AxCall

\* The service starts in the invariant.
LEMMA AxInitial ==
    ASSUME A!AxInit
    PROVE  AxInv
  <1>1. /\ link = [phase |-> "checkin", plists |-> 0, nextMessageId |-> 1, unhandled |-> "no"]
        /\ table = [replies |-> {}, waiters |-> [s \in {A!Completed, A!Focused} |-> {}],
                    listeners |-> {}]
        /\ audit = [observerCount |-> 0, inFlight |-> FALSE, begun |-> 0, timedOut |-> {}]
        /\ daemon = [armed |-> FALSE, owed |-> {}, running |-> {}, inbox |-> <<>>, sent |-> 0]
        /\ users = [u \in User |-> [op |-> "idle", id |-> 0, issues |-> {}, ended |-> FALSE]]
    BY DEF A!AxInit, A!Device0, A!AtRest
  <1>2. AxTyped
    BY <1>1 DEF AxTyped, AxLink, AxTable, AxCount, AxDevice, AxCall, AxOps
  <1>3. \A u \in User : users[u].op = "idle" /\ ~users[u].ended
    BY <1>1
  <1>4. Cardinality(Observers(users)) = 0
    BY <1>3, ObserversFinite
  <1>5. TableExact /\ ObserversCounted /\ OneAudit /\ DeviceExact /\ CheckinQuiet
    BY <1>1, <1>3, <1>4
       DEF TableExact, ObserversCounted, OneAudit, DeviceExact, CheckinQuiet, A!Closed
  <1> QED
    BY <1>1, <1>2, <1>3, <1>5
       DEF AxInv, A!NoWaitOnClosed, A!MonitoringMatches, A!AuditsNotMixed, A!Closed, A!Open

\* The checkin: it goes on, is through, or fails.
LEMMA AxCheckin ==
    ASSUME AxInv, A!CheckinPlist \/ A!CheckinDone \/ A!CheckinTimeout
    PROVE  AxInv'
  <1>1. /\ link.phase = "checkin" /\ link' \in AxLink
        /\ table' = table /\ audit' = audit /\ daemon' = daemon /\ users' = users
    <2>1. link \in AxLink
      BY DEF AxInv, AxTyped
    <2>2. link.nextMessageId + 1 \in Nat /\ link.plists + 1 \in Nat
      BY <2>1 DEF AxLink
    <2>3. CASE A!CheckinPlist
      BY <2>1, <2>2, <2>3 DEF A!CheckinPlist, AxLink
    <2>4. CASE A!CheckinDone
      <3>1. link' = [link EXCEPT !.phase = "open", !.nextMessageId = link.nextMessageId + 1]
        BY <2>4 DEF A!CheckinDone
      <3>2. link' \in AxLink
        BY <3>1, <2>1, <2>2 DEF AxLink
      <3> QED BY <2>4, <3>2 DEF A!CheckinDone
    <2>5. CASE A!CheckinTimeout
      BY <2>1, <2>5 DEF A!CheckinTimeout, AxLink
    <2> QED BY <2>3, <2>4, <2>5
  <1>2. (\A u \in User : users[u].op = "idle") /\ ~daemon.armed /\ ~audit.inFlight
    BY <1>1 DEF AxInv, CheckinQuiet, OneAudit
  <1>3. AxTyped' /\ TableExact' /\ OneAudit' /\ DeviceExact' /\ CheckinQuiet'
    BY <1>1, <1>2 DEF AxInv, AxTyped, TableExact, OneAudit, DeviceExact, CheckinQuiet
  <1>4. ObserversCounted'
    BY <1>1 DEF AxInv, ObserversCounted, A!Closed
  <1> QED
    BY <1>1, <1>2, <1>3, <1>4
       DEF AxInv, A!NoWaitOnClosed, A!MonitoringMatches, A!AuditsNotMixed, A!Closed, A!Open,
           A!Disturbed

\* The end of the transport.
LEMMA AxClose ==
    ASSUME AxInv, A!Close
    PROVE  AxInv'
  <1>1. /\ link' = [link EXCEPT !.phase = "closed"]
        /\ table' = [replies |-> {}, waiters |-> [s \in {A!Completed, A!Focused} |-> {}],
                     listeners |-> {}]
        /\ daemon' = [armed |-> FALSE, owed |-> {}, running |-> {}, inbox |-> <<>>, sent |-> 0]
        /\ users' = [u \in User |-> IF users[u].op \in {"invoke", "audit", "focus"}
                                    THEN A!AtRest ELSE users[u]]
        /\ audit' = [audit EXCEPT !.inFlight = FALSE]
    BY DEF A!Close, A!OnClose, A!Device0, A!Rejected
  <1>2. AxTyped
    BY DEF AxInv
  <1>3. AxTyped'
    <2>1. link' \in AxLink
      BY <1>1, <1>2 DEF AxTyped, AxLink
    <2>2. table' \in AxTable
      BY <1>1 DEF AxTable
    <2>3. audit' \in AxCount
      BY <1>1, <1>2 DEF AxTyped, AxCount
    <2>4. daemon' \in AxDevice
      BY <1>1 DEF AxDevice
    <2>5. users' \in [User -> AxCall]
      <3>1. A!AtRest \in AxCall
        BY DEF A!AtRest, AxCall, AxOps
      <3> QED BY <3>1, <1>1, <1>2 DEF AxTyped
    <2> QED BY <2>1, <2>2, <2>3, <2>4, <2>5 DEF AxTyped
  <1>4. /\ link'.phase = "closed" /\ ~audit'.inFlight /\ audit'.begun = audit.begun
        /\ audit'.observerCount = audit.observerCount /\ audit'.timedOut = audit.timedOut
    BY <1>1, <1>2 DEF AxTyped, AxLink, AxCount
  <1>5. \A u \in User : /\ users'[u].op \notin {"invoke", "audit", "focus"}
                        /\ users'[u].op = "observe" <=> users[u].op = "observe"
                        /\ users'[u].ended => users'[u] = users[u]
    BY <1>1 DEF A!AtRest
  <1>6. TableExact' /\ OneAudit' /\ DeviceExact' /\ CheckinQuiet'
    BY <1>1, <1>4, <1>5
       DEF AxInv, TableExact, OneAudit, DeviceExact, CheckinQuiet, A!Completed, A!Focused
  <1>7. ObserversCounted'
    <2>1. Observers(users') = Observers(users)
      BY <1>5, ObserversSame
    <2> QED BY <2>1, <1>4 DEF AxInv, ObserversCounted, A!Closed
  <1>8. A!NoWaitOnClosed' /\ A!MonitoringMatches' /\ A!AuditsNotMixed'
    BY <1>4, <1>5 DEF AxInv, A!NoWaitOnClosed, A!MonitoringMatches, A!AuditsNotMixed, A!Closed,
                      A!Open, A!Disturbed
  <1> QED
    BY <1>3, <1>6, <1>7, <1>8 DEF AxInv

-----------------------------------------------------------------------------
(* AxAudit: calls.                                                             *)

\* Calls that begin have no results yet, and what others have got stays explained.
LEMMA NotMixedKept ==
    ASSUME A!AuditsNotMixed, audit.timedOut \subseteq audit'.timedOut,
           \A v \in User : users'[v].op = "audit" \/ users'[v].ended
                               => users'[v] = users[v] \/ users'[v].issues = {}
    PROVE  A!AuditsNotMixed'
  <1>1. SUFFICES ASSUME NEW v \in User, users'[v].op = "audit" \/ users'[v].ended,
                        NEW i \in users'[v].issues
                 PROVE  i = users'[v].id
                        \/ (i < users'[v].id /\ \E t \in audit'.timedOut : t <= i)
    BY DEF A!AuditsNotMixed, A!Disturbed
  <1>2. users'[v] = users[v]
    BY <1>1
  <1> QED
    BY <1>1, <1>2 DEF A!AuditsNotMixed, A!Disturbed

\* A call that fails before anything else has changed.
LEMMA AxThrows ==
    ASSUME AxInv, NEW u \in User, users[u].op = "idle",
           users' = [users EXCEPT ![u] = A!AtRest],
           link' \in AxLink, link'.phase = link.phase, UNCHANGED <<table, audit, daemon>>
    PROVE  AxInv'
  <1>1. users \in [User -> AxCall] /\ AxTyped
    BY DEF AxInv, AxTyped
  <1>2. A!AtRest \in AxCall /\ A!AtRest.op = "idle" /\ ~A!AtRest.ended
    BY DEF A!AtRest, AxCall, AxOps
  <1>3. \A v \in User : /\ users'[v].op = users[v].op
                        /\ users'[v].op # "idle" \/ users'[v].ended => users'[v] = users[v]
    BY <1>1, <1>2
  <1>4. AxTyped'
    BY <1>1, <1>2 DEF AxTyped
  <1>5. TableExact' /\ DeviceExact' /\ CheckinQuiet'
    BY <1>3, <1>1, AxFields DEF AxInv, TableExact, DeviceExact, CheckinQuiet
  <1>6. OneAudit'
    BY <1>3 DEF AxInv, OneAudit
  <1>7. ObserversCounted'
    <2>1. Observers(users') = Observers(users)
      BY <1>3, ObserversSame
    <2> QED BY <2>1 DEF AxInv, ObserversCounted, A!Closed
  <1>8. A!AuditsNotMixed'
    BY <1>3, NotMixedKept DEF AxInv
  <1>9. A!NoWaitOnClosed' /\ A!MonitoringMatches'
    BY <1>3 DEF AxInv, A!NoWaitOnClosed, A!MonitoringMatches, A!Closed, A!Open
  <1> QED
    BY <1>4, <1>5, <1>6, <1>7, <1>8, <1>9 DEF AxInv

\* invoke(): a reply is waited for by its number.
LEMMA AxInvoke ==
    ASSUME AxInv, NEW u \in User, A!Invoke(u)
    PROVE  AxInv'
  <1>1. users \in [User -> AxCall] /\ AxTyped /\ link \in AxLink /\ link.nextMessageId \in Nat
    BY AxFields DEF AxInv, AxTyped
  <1>2. users[u].op = "idle" /\ link.phase # "checkin" /\ audit' = audit
    BY DEF A!Invoke, A!MayCall
  <1>3. CASE A!Closed
    BY <1>1, <1>2, <1>3, AxThrows DEF A!Invoke
  <1>4. CASE ~A!Closed
    <2> DEFINE n == link.nextMessageId
               call == [A!AtRest EXCEPT !.op = "invoke", !.id = n]
    <2>1. /\ link' = [link EXCEPT !.nextMessageId = @ + 1]
          /\ table' = [table EXCEPT !.replies = @ \cup {<<n, u>>}]
          /\ users' = [users EXCEPT ![u] = call]
          /\ daemon' = [daemon EXCEPT !.owed = @ \cup {n}]
      BY <1>4 DEF A!Invoke
    <2>2. call \in AxCall /\ call.op = "invoke" /\ call.id = n /\ ~call.ended
      BY <1>1 DEF A!AtRest, AxCall, AxOps
    <2> HIDE DEF call
    <2>3. /\ users' \in [User -> AxCall] /\ users'[u] = call
          /\ \A v \in User \ {u} : users'[v] = users[v]
      BY <2>1, <2>2, <1>1
    <2>4. link' \in AxLink /\ link'.phase = link.phase
      BY <2>1, <1>1 DEF AxLink
    <2>5. /\ table' \in AxTable /\ table'.replies = table.replies \cup {<<n, u>>}
          /\ table'.waiters = table.waiters /\ table'.listeners = table.listeners
      BY <2>1, <1>1 DEF AxTyped, AxTable
    <2>6. /\ daemon' \in AxDevice /\ daemon'.armed = daemon.armed
          /\ daemon'.running = daemon.running /\ daemon'.inbox = daemon.inbox
      BY <2>1, <1>1 DEF AxTyped, AxDevice
    <2>7. AxTyped'
      BY <2>3, <2>4, <2>5, <2>6, <1>1, <1>2 DEF AxTyped
    <2>8. TableExact'
      <3>1. \A p \in table'.replies : users'[p[2]].op = "invoke" /\ users'[p[2]].id = p[1]
        BY <2>2, <2>3, <2>5, <1>1, <1>2, AxFields DEF AxInv, TableExact
      <3>2. \A v \in User : /\ v \in table'.waiters[A!Completed] <=> users'[v].op = "audit"
                            /\ <<A!Found, v>> \in table'.listeners <=> users'[v].op = "audit"
                            /\ v \in table'.waiters[A!Focused] => users'[v].op = "focus"
        BY <2>2, <2>3, <2>5, <1>2 DEF AxInv, TableExact
      <3> QED BY <3>1, <3>2 DEF TableExact
    <2>9. ObserversCounted'
      <3>1. Observers(users') = Observers(users)
        BY <2>2, <2>3, <1>2, ObserversSame
      <3> QED BY <3>1, <2>4, <1>2 DEF AxInv, ObserversCounted, A!Closed
    <2>10. OneAudit'
      BY <2>2, <2>3, <1>2 DEF AxInv, OneAudit
    <2>11. DeviceExact' /\ CheckinQuiet'
      BY <2>4, <2>6, <1>2 DEF AxInv, DeviceExact, CheckinQuiet
    <2>12. A!NoWaitOnClosed' /\ A!MonitoringMatches'
      BY <2>2, <2>3, <2>4, <2>6, <1>2, <1>4
         DEF AxInv, A!NoWaitOnClosed, A!MonitoringMatches, A!Closed, A!Open
    <2>13. A!AuditsNotMixed'
      BY <2>2, <2>3, <1>2, NotMixedKept DEF AxInv
    <2> QED
      BY <2>7, <2>8, <2>9, <2>10, <2>11, <2>12, <2>13 DEF AxInv
  <1> QED
    BY <1>3, <1>4

\* runAudit(): one more audit, while none is in flight.
LEMMA AxRunAudit ==
    ASSUME AxInv, NEW u \in User, NEW targetPid \in BOOLEAN, A!RunAudit(u, targetPid)
    PROVE  AxInv'
  <1>1. users \in [User -> AxCall] /\ AxTyped /\ link \in AxLink /\ link.nextMessageId \in Nat
    BY AxFields DEF AxInv, AxTyped
  <1>2. users[u].op = "idle" /\ link.phase # "checkin" /\ ~audit.inFlight
    BY DEF A!RunAudit, A!MayCall, A!AuditRefused
  <1>3. CASE A!Closed
    <2>1. users' = [users EXCEPT ![u] = A!AtRest] /\ UNCHANGED <<table, audit, daemon>>
      BY <1>3 DEF A!RunAudit, A!ThrowsUnhandled
    <2>2. link' = link \/ link' = [link EXCEPT !.unhandled = "closed"]
      BY <1>3 DEF A!RunAudit, A!ThrowsUnhandled
    <2>3. link' \in AxLink /\ link'.phase = link.phase
      BY <2>2, <1>1 DEF AxLink
    <2> QED BY <2>1, <2>3, <1>2, AxThrows
  <1>4. CASE ~A!Closed
    <2> DEFINE a == audit.begun + 1
               call == [A!AtRest EXCEPT !.op = "audit", !.id = a]
    <2>1. /\ audit' = [audit EXCEPT !.inFlight = TRUE, !.begun = @ + 1]
          /\ link' = [link EXCEPT !.nextMessageId = @ + 1]
          /\ table' = [table EXCEPT !.listeners = @ \cup {<<A!Found, u>>},
                                    !.waiters[A!Completed] = @ \cup {u}]
          /\ users' = [users EXCEPT ![u] = [A!AtRest EXCEPT !.op = "audit", !.id = audit'.begun]]
          /\ daemon' = [daemon EXCEPT !.running = @ \cup {audit'.begun}]
      BY <1>4 DEF A!RunAudit
    <2>2. /\ a \in Nat /\ audit' \in AxCount /\ audit'.begun = a /\ audit'.inFlight
          /\ audit'.timedOut = audit.timedOut /\ audit'.observerCount = audit.observerCount
      <3>1. audit \in AxCount /\ a \in Nat
        BY <1>1, AxFields DEF AxTyped
      <3>2. audit' = [audit EXCEPT !.inFlight = TRUE, !.begun = a]
        BY <2>1
      <3> QED BY <3>1, <3>2 DEF AxCount
    <2>3. /\ call \in AxCall /\ call.op = "audit" /\ call.id = a /\ ~call.ended
          /\ call.issues = {}
      BY <2>2 DEF A!AtRest, AxCall, AxOps
    <2>4. users' = [users EXCEPT ![u] = call]
      BY <2>1, <2>2
    <2> HIDE DEF call
    <2>5. /\ users' \in [User -> AxCall] /\ users'[u] = call
          /\ \A v \in User \ {u} : users'[v] = users[v]
      BY <2>3, <2>4, <1>1
    <2>6. link' \in AxLink /\ link'.phase = link.phase
      BY <2>1, <1>1 DEF AxLink
    <2>7. /\ table' \in AxTable /\ table'.replies = table.replies
          /\ table'.waiters[A!Completed] = table.waiters[A!Completed] \cup {u}
          /\ table'.waiters[A!Focused] = table.waiters[A!Focused]
          /\ table'.listeners = table.listeners \cup {<<A!Found, u>>}
      <3> DEFINE w == [table.waiters EXCEPT ![A!Completed] = @ \cup {u}]
                 l == table.listeners \cup {<<A!Found, u>>}
      <3>1. table \in AxTable /\ table' = [table EXCEPT !.listeners = l, !.waiters = w]
        BY <2>1, <1>1 DEF AxTyped
      <3>2. l \in SUBSET ({A!Found, A!Focused} \X User)
        BY <3>1 DEF AxTable
      <3>3. /\ w \in [{A!Completed, A!Focused} -> SUBSET User]
            /\ w[A!Completed] = table.waiters[A!Completed] \cup {u}
            /\ w[A!Focused] = table.waiters[A!Focused]
        BY <3>1 DEF AxTable, A!Completed, A!Focused
      <3> HIDE DEF w, l
      <3>4. /\ table' \in AxTable /\ table'.replies = table.replies /\ table'.waiters = w
            /\ table'.listeners = l
        BY <3>1, <3>2, <3>3 DEF AxTable
      <3> QED BY <3>3, <3>4 DEF l
    <2>8. /\ daemon' \in AxDevice /\ daemon'.armed = daemon.armed
          /\ daemon'.running = daemon.running \cup {a} /\ daemon'.inbox = daemon.inbox
      BY <2>1, <2>2, <1>1 DEF AxTyped, AxDevice
    <2>9. AxTyped'
      BY <2>2, <2>5, <2>6, <2>7, <2>8 DEF AxTyped
    <2>10. \A v \in User : users[v].op # "audit"
      BY <1>2 DEF AxInv, OneAudit
    <2>11. TableExact'
      <3>1. \A p \in table'.replies : users'[p[2]].op = "invoke" /\ users'[p[2]].id = p[1]
        <4>1. SUFFICES ASSUME NEW p \in table.replies
                       PROVE  users'[p[2]].op = "invoke" /\ users'[p[2]].id = p[1]
          BY <2>7
        <4>2. p[2] \in User /\ users[p[2]].op = "invoke" /\ users[p[2]].id = p[1]
          BY <1>1, AxFields DEF AxInv, TableExact
        <4> QED BY <4>2, <2>5, <1>2
      <3>2. \A v \in User : /\ v \in table'.waiters[A!Completed] <=> users'[v].op = "audit"
                            /\ <<A!Found, v>> \in table'.listeners <=> users'[v].op = "audit"
                            /\ v \in table'.waiters[A!Focused] => users'[v].op = "focus"
        BY <2>3, <2>5, <2>7, <1>2 DEF AxInv, TableExact
      <3> QED BY <3>1, <3>2 DEF TableExact
    <2>12. ObserversCounted'
      <3>1. Observers(users') = Observers(users)
        BY <2>3, <2>5, <1>2, ObserversSame
      <3> QED BY <3>1, <2>2, <2>6 DEF AxInv, ObserversCounted, A!Closed
    <2>13. OneAudit'
      BY <2>2, <2>3, <2>5, <2>10, <1>1, AxFields DEF AxInv, OneAudit
    <2>14. DeviceExact'
      <3>1. \A b \in Nat : Live(audit, b) => Live(audit', b)
        BY <2>2, <1>2, <1>1, AxFields DEF Live
      <3>2. Live(audit', a)
        BY <2>2, <1>1, AxFields DEF Live
      <3> QED BY <3>1, <3>2, <2>8, <1>1, AxFields, DeviceKept DEF AxInv
    <2>15. CheckinQuiet'
      BY <2>6, <1>2 DEF CheckinQuiet
    <2>16. A!NoWaitOnClosed' /\ A!MonitoringMatches'
      BY <2>3, <2>5, <2>6, <2>8, <1>2, <1>4
         DEF AxInv, A!NoWaitOnClosed, A!MonitoringMatches, A!Closed, A!Open
    <2>17. A!AuditsNotMixed'
      BY <2>2, <2>3, <2>5, NotMixedKept DEF AxInv
    <2> QED
      BY <2>9, <2>11, <2>12, <2>13, <2>14, <2>15, <2>16, <2>17 DEF AxInv
  <1> QED
    BY <1>3, <1>4

\* getFocusedElement(): the device is armed for the query.
LEMMA AxGetFocused ==
    ASSUME AxInv, NEW u \in User, A!GetFocused(u)
    PROVE  AxInv'
  <1>1. users \in [User -> AxCall] /\ AxTyped /\ link \in AxLink
    BY DEF AxInv, AxTyped
  <1>2. users[u].op = "idle" /\ link.phase # "checkin" /\ audit' = audit
    BY DEF A!GetFocused, A!MayCall
  <1>3. CASE A!Closed
    <2>1. /\ users' = [users EXCEPT ![u] = A!AtRest] /\ UNCHANGED <<table, audit, daemon>>
          /\ link' = [link EXCEPT !.unhandled = "closed"]
      BY <1>2, <1>3 DEF A!GetFocused, A!ThrowsUnhandled
    <2>2. link' \in AxLink /\ link'.phase = link.phase
      BY <2>1, <1>1 DEF AxLink
    <2> QED BY <2>1, <2>2, <1>2, AxThrows
  <1>4. CASE ~A!Closed
    <2> DEFINE call == [A!AtRest EXCEPT !.op = "focus"]
    <2>1. /\ link' = link
          /\ table' = [table EXCEPT !.waiters[A!Focused] = @ \cup {u}]
          /\ users' = [users EXCEPT ![u] = call]
          /\ daemon' = [daemon EXCEPT !.armed = TRUE]
      BY <1>4 DEF A!GetFocused, A!Wait, A!SetMonitored
    <2>2. call \in AxCall /\ call.op = "focus" /\ ~call.ended
      BY DEF A!AtRest, AxCall, AxOps
    <2> HIDE DEF call
    <2>3. /\ users' \in [User -> AxCall] /\ users'[u] = call
          /\ \A v \in User \ {u} : users'[v] = users[v]
      BY <2>1, <2>2, <1>1
    <2>4. /\ table' \in AxTable /\ table'.replies = table.replies
          /\ table'.waiters[A!Completed] = table.waiters[A!Completed]
          /\ table'.waiters[A!Focused] = table.waiters[A!Focused] \cup {u}
          /\ table'.listeners = table.listeners
      BY <2>1, <1>1 DEF AxTyped, AxTable, A!Completed, A!Focused
    <2>5. /\ daemon' \in AxDevice /\ daemon'.armed
          /\ daemon'.running = daemon.running /\ daemon'.inbox = daemon.inbox
      BY <2>1, <1>1 DEF AxTyped, AxDevice
    <2>6. AxTyped'
      BY <2>1, <2>3, <2>4, <2>5, <1>1, <1>2 DEF AxTyped
    <2>7. TableExact'
      <3>1. \A p \in table'.replies : users'[p[2]].op = "invoke" /\ users'[p[2]].id = p[1]
        <4>1. SUFFICES ASSUME NEW p \in table.replies
                       PROVE  users'[p[2]].op = "invoke" /\ users'[p[2]].id = p[1]
          BY <2>4
        <4>2. p[2] \in User /\ users[p[2]].op = "invoke" /\ users[p[2]].id = p[1]
          BY <1>1, AxFields DEF AxInv, TableExact
        <4> QED BY <4>2, <2>3, <1>2
      <3>2. \A v \in User : /\ v \in table'.waiters[A!Completed] <=> users'[v].op = "audit"
                            /\ <<A!Found, v>> \in table'.listeners <=> users'[v].op = "audit"
                            /\ v \in table'.waiters[A!Focused] => users'[v].op = "focus"
        BY <2>2, <2>3, <2>4, <1>2 DEF AxInv, TableExact
      <3> QED BY <3>1, <3>2 DEF TableExact
    <2>8. ObserversCounted'
      <3>1. Observers(users') = Observers(users)
        BY <2>2, <2>3, <1>2, ObserversSame
      <3> QED BY <3>1, <2>1, <1>2 DEF AxInv, ObserversCounted, A!Closed
    <2>9. OneAudit'
      BY <2>2, <2>3, <1>2 DEF AxInv, OneAudit
    <2>10. DeviceExact' /\ CheckinQuiet'
      BY <2>1, <2>5, <1>2 DEF AxInv, DeviceExact, CheckinQuiet
    <2>11. A!NoWaitOnClosed' /\ A!MonitoringMatches'
      BY <2>1, <2>2, <2>3, <2>5, <1>4
         DEF AxInv, A!NoWaitOnClosed, A!MonitoringMatches, A!Closed, A!Open
    <2>12. A!AuditsNotMixed'
      BY <2>2, <2>3, <1>2, NotMixedKept DEF AxInv
    <2> QED
      BY <2>6, <2>7, <2>8, <2>9, <2>10, <2>11, <2>12 DEF AxInv
  <1> QED
    BY <1>3, <1>4

\* observeFocusedElement(): counted, and the device is armed.
LEMMA AxObserve ==
    ASSUME AxInv, NEW u \in User, A!Observe(u)
    PROVE  AxInv'
  <1>1. users \in [User -> AxCall] /\ AxTyped /\ audit \in AxCount /\ audit.observerCount \in Nat
    BY AxFields DEF AxInv, AxTyped
  <1>2. /\ users[u].op = "idle" /\ link.phase # "checkin" /\ link' = link
        /\ audit' = [audit EXCEPT !.observerCount = @ + 1]
    BY DEF A!Observe, A!MayCall
  <1>3. /\ audit' \in AxCount /\ audit'.observerCount = audit.observerCount + 1
        /\ audit'.inFlight = audit.inFlight /\ audit'.begun = audit.begun
        /\ audit'.timedOut = audit.timedOut
    BY <1>1, <1>2 DEF AxCount
  <1>4. \A b \in Nat : Live(audit, b) => Live(audit', b)
    BY <1>3 DEF Live
  <1>5. CASE A!Closed
    <2>1. daemon' = daemon /\ users' = users /\ table' = table
      BY <1>5 DEF A!Observe
    <2>2. AxTyped' /\ TableExact' /\ OneAudit' /\ CheckinQuiet'
      BY <2>1, <1>1, <1>2, <1>3 DEF AxInv, AxTyped, TableExact, OneAudit, CheckinQuiet
    <2>3. DeviceExact'
      BY <2>1, <1>1, <1>4, AxFields, DeviceKept DEF AxInv
    <2>4. ObserversCounted'
      BY <2>1, <1>1, <1>2, <1>3, <1>5, ObserversFinite DEF AxInv, ObserversCounted, A!Closed
    <2>5. A!NoWaitOnClosed' /\ A!MonitoringMatches'
      BY <2>1, <1>2, <1>3 DEF AxInv, A!NoWaitOnClosed, A!MonitoringMatches, A!Closed, A!Open
    <2>6. A!AuditsNotMixed'
      BY <2>1, <1>3, NotMixedKept DEF AxInv
    <2> QED BY <2>2, <2>3, <2>4, <2>5, <2>6 DEF AxInv
  <1>6. CASE ~A!Closed
    <2> DEFINE call == [A!AtRest EXCEPT !.op = "observe"]
    <2>1. /\ table' = [table EXCEPT !.listeners = @ \cup {<<A!Focused, u>>}]
          /\ users' = [users EXCEPT ![u] = call]
          /\ daemon' = [daemon EXCEPT !.armed = TRUE]
      BY <1>6 DEF A!Observe, A!SetMonitored
    <2>2. call \in AxCall /\ call.op = "observe" /\ ~call.ended
      BY DEF A!AtRest, AxCall, AxOps
    <2> HIDE DEF call
    <2>3. /\ users' \in [User -> AxCall] /\ users'[u] = call
          /\ \A v \in User \ {u} : users'[v] = users[v]
      BY <2>1, <2>2, <1>1
    <2>4. /\ table' \in AxTable /\ table'.replies = table.replies
          /\ table'.waiters = table.waiters
          /\ table'.listeners = table.listeners \cup {<<A!Focused, u>>}
      BY <2>1, <1>1 DEF AxTyped, AxTable
    <2>5. /\ daemon' \in AxDevice /\ daemon'.armed
          /\ daemon'.running = daemon.running /\ daemon'.inbox = daemon.inbox
      BY <2>1, <1>1 DEF AxTyped, AxDevice
    <2>6. AxTyped'
      BY <2>3, <2>4, <2>5, <1>1, <1>2, <1>3 DEF AxTyped
    <2>7. TableExact'
      <3>1. \A p \in table'.replies : users'[p[2]].op = "invoke" /\ users'[p[2]].id = p[1]
        <4>1. SUFFICES ASSUME NEW p \in table.replies
                       PROVE  users'[p[2]].op = "invoke" /\ users'[p[2]].id = p[1]
          BY <2>4
        <4>2. p[2] \in User /\ users[p[2]].op = "invoke" /\ users[p[2]].id = p[1]
          BY <1>1, AxFields DEF AxInv, TableExact
        <4> QED BY <4>2, <2>3, <1>2
      <3>2. \A v \in User : /\ v \in table'.waiters[A!Completed] <=> users'[v].op = "audit"
                            /\ <<A!Found, v>> \in table'.listeners <=> users'[v].op = "audit"
                            /\ v \in table'.waiters[A!Focused] => users'[v].op = "focus"
        BY <2>2, <2>3, <2>4, <1>2 DEF AxInv, TableExact, A!Found, A!Focused
      <3> QED BY <3>1, <3>2 DEF TableExact
    <2>8. ObserversCounted'
      <3>1. Cardinality(Observers(users')) = Cardinality(Observers(users)) + 1
        BY <2>2, <2>3, <1>2, ObserverComes
      <3>2. Cardinality(Observers(users)) = audit.observerCount
        BY <1>6 DEF AxInv, ObserversCounted
      <3> QED BY <3>1, <3>2, <1>1, <1>2, <1>3 DEF ObserversCounted, A!Closed
    <2>9. OneAudit'
      BY <2>2, <2>3, <1>2, <1>3 DEF AxInv, OneAudit
    <2>10. DeviceExact'
      BY <2>5, <1>1, <1>4, AxFields, DeviceKept DEF AxInv
    <2>11. CheckinQuiet'
      BY <1>2 DEF CheckinQuiet
    <2>12. A!NoWaitOnClosed' /\ A!MonitoringMatches'
      BY <2>2, <2>3, <2>5, <1>2, <1>6
         DEF AxInv, A!NoWaitOnClosed, A!MonitoringMatches, A!Closed, A!Open
    <2>13. A!AuditsNotMixed'
      BY <2>2, <2>3, <1>3, NotMixedKept DEF AxInv
    <2> QED
      BY <2>6, <2>7, <2>8, <2>9, <2>10, <2>11, <2>12, <2>13 DEF AxInv
  <1> QED
    BY <1>5, <1>6

\* The end of an observer: the last one disarms the device.
LEMMA AxUnobserve ==
    ASSUME AxInv, NEW u \in User, A!Unobserve(u)
    PROVE  AxInv'
  <1>1. users \in [User -> AxCall] /\ AxTyped /\ audit \in AxCount /\ audit.observerCount \in Nat
        /\ daemon \in AxDevice
    BY AxFields DEF AxInv, AxTyped
  <1>2. /\ users[u].op = "observe" /\ link' = link
        /\ users' = [users EXCEPT ![u] = A!AtRest]
        /\ table' = [table EXCEPT !.listeners = @ \ {<<A!Focused, u>>}]
        /\ audit' = [audit EXCEPT !.observerCount = @ - 1]
        /\ IF A!Open /\ audit'.observerCount = 0 THEN daemon' = [daemon EXCEPT !.armed = FALSE]
                                                 ELSE daemon' = daemon
    BY DEF A!Unobserve, A!Disarms, A!SetMonitored
  <1>3. A!AtRest \in AxCall /\ A!AtRest.op = "idle" /\ ~A!AtRest.ended
    BY DEF A!AtRest, AxCall, AxOps
  <1>4. /\ users' \in [User -> AxCall] /\ users'[u] = A!AtRest
        /\ \A v \in User \ {u} : users'[v] = users[v]
    BY <1>1, <1>2, <1>3
  <1>5. /\ Cardinality(Observers(users')) = Cardinality(Observers(users)) - 1
        /\ Cardinality(Observers(users)) \in Nat \ {0}
    BY <1>2, <1>3, <1>4, ObserverLeaves
  <1>6. /\ Cardinality(Observers(users)) <= audit.observerCount
        /\ ~A!Closed => Cardinality(Observers(users)) = audit.observerCount
    BY DEF AxInv, ObserversCounted
  <1>7. /\ audit' \in AxCount /\ audit'.observerCount = audit.observerCount - 1
        /\ audit'.inFlight = audit.inFlight /\ audit'.begun = audit.begun
        /\ audit'.timedOut = audit.timedOut
    <2>1. audit.observerCount - 1 \in Nat
      BY <1>1, <1>5, <1>6
    <2> QED BY <2>1, <1>1, <1>2 DEF AxCount
  <1>8. \A b \in Nat : Live(audit, b) => Live(audit', b)
    BY <1>7 DEF Live
  <1>9. /\ table' \in AxTable /\ table'.replies = table.replies
        /\ table'.waiters = table.waiters
        /\ table'.listeners = table.listeners \ {<<A!Focused, u>>}
    BY <1>1, <1>2 DEF AxTyped, AxTable
  <1>10. /\ daemon' \in AxDevice
         /\ daemon'.armed = (daemon.armed /\ ~(A!Open /\ audit'.observerCount = 0))
         /\ daemon'.running = daemon.running /\ daemon'.inbox = daemon.inbox
    BY <1>1, <1>2 DEF AxDevice
  <1>11. AxTyped'
    BY <1>1, <1>2, <1>4, <1>7, <1>9, <1>10 DEF AxTyped
  <1>12. TableExact'
    <2>1. \A p \in table'.replies : users'[p[2]].op = "invoke" /\ users'[p[2]].id = p[1]
      <3>1. SUFFICES ASSUME NEW p \in table.replies
                     PROVE  users'[p[2]].op = "invoke" /\ users'[p[2]].id = p[1]
        BY <1>9
      <3>2. p[2] \in User /\ users[p[2]].op = "invoke" /\ users[p[2]].id = p[1]
        BY <1>1, AxFields DEF AxInv, TableExact
      <3> QED BY <3>2, <1>2, <1>4
    <2>2. \A v \in User : /\ v \in table'.waiters[A!Completed] <=> users'[v].op = "audit"
                          /\ <<A!Found, v>> \in table'.listeners <=> users'[v].op = "audit"
                          /\ v \in table'.waiters[A!Focused] => users'[v].op = "focus"
      BY <1>2, <1>3, <1>4, <1>9 DEF AxInv, TableExact, A!Found, A!Focused
    <2> QED BY <2>1, <2>2 DEF TableExact
  <1>13. ObserversCounted'
    BY <1>1, <1>2, <1>5, <1>6, <1>7 DEF ObserversCounted, A!Closed
  <1>14. OneAudit'
    BY <1>2, <1>3, <1>4, <1>7 DEF AxInv, OneAudit
  <1>15. DeviceExact'
    BY <1>1, <1>8, <1>10, AxFields, DeviceKept DEF AxInv
  <1>16. CheckinQuiet'
    BY <1>2 DEF AxInv, CheckinQuiet
  <1>17. A!MonitoringMatches'
    <2>1. SUFFICES ASSUME A!Open
                   PROVE  /\ (\E v \in User : users'[v].op = "observe") => daemon'.armed
                          /\ daemon'.armed => \E v \in User : users'[v].op \in {"observe", "focus"}
      BY <1>2 DEF A!MonitoringMatches, A!Open
    <2>2. Cardinality(Observers(users')) = audit'.observerCount
      BY <2>1, <1>5, <1>6, <1>7 DEF A!Open, A!Closed
    <2>3. audit'.observerCount = 0 <=> \A v \in User : users'[v].op # "observe"
      BY <2>2, ObserversFinite
    <2>4. daemon.armed
      BY <2>1, <1>2 DEF AxInv, A!MonitoringMatches
    <2> QED BY <2>1, <2>3, <2>4, <1>10
  <1>18. A!NoWaitOnClosed'
    BY <1>2, <1>3, <1>4, <1>7 DEF AxInv, A!NoWaitOnClosed, A!Closed
  <1>19. A!AuditsNotMixed'
    BY <1>3, <1>4, <1>7, NotMixedKept DEF AxInv
  <1> QED
    BY <1>11, <1>12, <1>13, <1>14, <1>15, <1>16, <1>17, <1>18, <1>19 DEF AxInv

\* Waiting calls end, alone or woken together, and the finally block of a query disarms the
\* device if nobody observes.
LEMMA AxCallsEnd ==
    ASSUME AxInv, A!Open, link' = link,
           NEW W \in SUBSET User, \A v \in W : users[v].op \in {"invoke", "audit", "focus"},
           users' \in [User -> AxCall], \A v \in User \ W : users'[v] = users[v],
           \A v \in W : users'[v].op = "idle" /\ (users'[v].ended => users'[v].id <= audit.begun),
           table' \in AxTable, TableExact',
           audit' \in AxCount, audit'.observerCount = audit.observerCount,
           audit'.begun = audit.begun,
           audit'.inFlight <=> audit.inFlight /\ \A v \in W : users[v].op # "audit",
           daemon' \in AxDevice, DeviceExact',
           \/ daemon'.armed = daemon.armed /\ \A v \in W : users[v].op # "focus"
           \/ daemon'.armed <=> daemon.armed /\ audit.observerCount # 0,
           A!AuditsNotMixed'
    PROVE  AxInv'
  <1>1. /\ AxTyped /\ link.phase = "open"
        /\ \A v \in User : users'[v].op = "observe" <=> users[v].op = "observe"
    BY DEF AxInv, A!Open
  <1>2. AxTyped'
    BY <1>1 DEF AxTyped
  <1>3. Observers(users') = Observers(users)
    BY <1>1, ObserversSame
  <1>4. Cardinality(Observers(users)) = audit.observerCount
    BY <1>1 DEF AxInv, ObserversCounted, A!Closed
  <1>5. ObserversCounted'
    BY <1>1, <1>3, <1>4 DEF AxInv, ObserversCounted, A!Closed
  <1>6. OneAudit'
    <2>1. /\ audit.inFlight <=> \E u \in User : users[u].op = "audit"
          /\ \A u, v \in User : users[u].op = "audit" /\ users[v].op = "audit" => u = v
          /\ \A u \in User : users[u].op = "audit" => users[u].id = audit.begun
          /\ \A u \in User : users[u].ended => users[u].op = "idle" /\ users[u].id <= audit.begun
      BY DEF AxInv, OneAudit
    <2>2. \A v \in User : users'[v].op = "audit" <=> users[v].op = "audit" /\ v \notin W
      OBVIOUS
    <2>3. audit'.inFlight <=> \E u \in User : users'[u].op = "audit"
      BY <2>1, <2>2
    <2>4. \A u, v \in User : users'[u].op = "audit" /\ users'[v].op = "audit" => u = v
      BY <2>1, <2>2
    <2>5. \A u \in User : users'[u].op = "audit" => users'[u].id = audit'.begun
      BY <2>1, <2>2
    <2>6. \A u \in User : users'[u].ended => users'[u].op = "idle" /\ users'[u].id <= audit'.begun
      BY <2>1
    <2> QED BY <2>3, <2>4, <2>5, <2>6 DEF OneAudit
  <1>7. CheckinQuiet' /\ A!NoWaitOnClosed'
    BY <1>1 DEF CheckinQuiet, A!NoWaitOnClosed, A!Closed
  <1>8. A!MonitoringMatches'
    <2>1. audit.observerCount = 0 <=> \A v \in User : users[v].op # "observe"
      BY <1>4, ObserversFinite
    <2>2. /\ (\E v \in User : users[v].op = "observe") => daemon.armed
          /\ daemon.armed => \E v \in User : users[v].op \in {"observe", "focus"}
      BY DEF AxInv, A!MonitoringMatches
    <2>3. CASE daemon'.armed = daemon.armed /\ \A v \in W : users[v].op # "focus"
      BY <2>2, <2>3, <1>1 DEF A!MonitoringMatches
    <2>4. CASE daemon'.armed <=> daemon.armed /\ audit.observerCount # 0
      BY <2>1, <2>2, <2>4, <1>1 DEF A!MonitoringMatches
    <2> QED BY <2>3, <2>4
  <1> QED
    BY <1>2, <1>5, <1>6, <1>7, <1>8 DEF AxInv

\* A call's own timer.
LEMMA AxTimeout ==
    ASSUME AxInv, NEW u \in User, A!Timeout(u)
    PROVE  AxInv'
  <1>1. /\ users \in [User -> AxCall] /\ AxTyped /\ table \in AxTable /\ audit \in AxCount
        /\ daemon \in AxDevice /\ audit.begun \in Nat
    BY AxFields DEF AxInv, AxTyped
  <1>2. /\ A!Open /\ link' = link /\ users' = [users EXCEPT ![u] = A!AtRest]
        /\ users[u].op \in {"invoke", "audit", "focus"}
    BY DEF A!Timeout
  <1>3. A!AtRest \in AxCall /\ A!AtRest.op = "idle" /\ ~A!AtRest.ended
    BY DEF A!AtRest, AxCall, AxOps
  <1>4. /\ users' \in [User -> AxCall] /\ users'[u] = A!AtRest
        /\ \A v \in User \ {u} : users'[v] = users[v]
    BY <1>1, <1>2, <1>3
  <1>5. ASSUME audit.timedOut \subseteq audit'.timedOut
        PROVE  A!AuditsNotMixed'
    BY <1>3, <1>4, <1>5, NotMixedKept DEF AxInv
  <1> DEFINE W == {u}
  <1>9. /\ W \in SUBSET User
        /\ \A v \in W : users[v].op \in {"invoke", "audit", "focus"}
        /\ \A v \in User \ W : users'[v] = users[v]
        /\ \A v \in W : users'[v].op = "idle" /\ (users'[v].ended => users'[v].id <= audit.begun)
    BY <1>2, <1>3, <1>4
  <1>10. \A op : (\A v \in W : users[v].op # op) <=> users[u].op # op
    OBVIOUS
  <1> HIDE DEF W
  <1>6. CASE users[u].op = "invoke"
    <2>1. /\ table' = [table EXCEPT !.replies = @ \ {<<users[u].id, u>>}]
          /\ audit' = audit /\ daemon' = daemon
      BY <1>6 DEF A!Timeout
    <2>2. /\ table' \in AxTable /\ table'.replies = table.replies \ {<<users[u].id, u>>}
          /\ table'.waiters = table.waiters /\ table'.listeners = table.listeners
      BY <2>1, <1>1 DEF AxTable
    <2>3. \A p \in table'.replies : users'[p[2]].op = "invoke" /\ users'[p[2]].id = p[1]
      <3>1. SUFFICES ASSUME NEW p \in table'.replies
                     PROVE  users'[p[2]].op = "invoke" /\ users'[p[2]].id = p[1]
        OBVIOUS
      <3>2. /\ p \in Nat \X User /\ p # <<users[u].id, u>>
            /\ users[p[2]].op = "invoke" /\ users[p[2]].id = p[1]
        BY <2>2, <1>1, AxFields DEF AxInv, TableExact
      <3> QED BY <3>2, <1>4
    <2>4. TableExact'
      BY <2>2, <2>3, <1>3, <1>4, <1>6 DEF AxInv, TableExact
    <2>5. DeviceExact'
      BY <2>1 DEF AxInv, DeviceExact
    <2> QED
      BY <2>1, <2>2, <2>4, <2>5, <1>1, <1>2, <1>4, <1>5, <1>6, <1>9, <1>10, AxCallsEnd
  <1>7. CASE users[u].op = "audit"
    <2> DEFINE w == [table.waiters EXCEPT ![A!Completed] = @ \ {u}]
               l == table.listeners \ {<<A!Found, u>>}
    <2>1. /\ table' = [table EXCEPT !.listeners = l, !.waiters = w]
          /\ audit' = [audit EXCEPT !.inFlight = FALSE, !.timedOut = @ \cup {users[u].id}]
          /\ daemon' = daemon
      BY <1>7 DEF A!Timeout, A!WithoutAudit
    <2>2. /\ w \in [{A!Completed, A!Focused} -> SUBSET User]
          /\ w[A!Completed] = table.waiters[A!Completed] \ {u}
          /\ w[A!Focused] = table.waiters[A!Focused]
          /\ l \in SUBSET ({A!Found, A!Focused} \X User)
      BY <1>1 DEF AxTable, A!Completed, A!Focused
    <2>3. l = table.listeners \ {<<A!Found, u>>}
      OBVIOUS
    <2> HIDE DEF w, l
    <2>4. /\ table' \in AxTable /\ table'.replies = table.replies /\ table'.waiters = w
          /\ table'.listeners = l
      BY <2>1, <2>2, <1>1 DEF AxTable
    <2>5. users[u].id = audit.begun /\ audit.inFlight
      BY <1>7 DEF AxInv, OneAudit
    <2>6. /\ audit' \in AxCount /\ ~audit'.inFlight /\ audit'.begun = audit.begun
          /\ audit'.timedOut = audit.timedOut \cup {audit.begun}
          /\ audit'.observerCount = audit.observerCount
      BY <2>1, <2>5, <1>1 DEF AxCount
    <2>7. TableExact'
      <3>1. \A p \in table'.replies : users'[p[2]].op = "invoke" /\ users'[p[2]].id = p[1]
        BY <2>4, <1>1, <1>4, <1>7, AxFields DEF AxInv, TableExact
      <3> QED BY <3>1, <2>2, <2>3, <2>4, <1>3, <1>4, <1>7 DEF AxInv, TableExact
    <2>8. DeviceExact'
      <3>1. \A b \in Nat : Live(audit, b) => Live(audit', b)
        BY <2>6, <1>1 DEF Live
      <3> QED BY <3>1, <2>1, <1>1, AxFields, DeviceKept DEF AxInv
    <2> QED
      BY <2>1, <2>4, <2>6, <2>7, <2>8, <1>1, <1>2, <1>4, <1>5, <1>7, <1>9, <1>10, AxCallsEnd
  <1>8. CASE users[u].op = "focus"
    <2>1. /\ table' = [table EXCEPT !.waiters[A!Focused] = @ \ {u}] /\ audit' = audit
          /\ daemon' = IF audit.observerCount = 0 THEN [daemon EXCEPT !.armed = FALSE]
                                                  ELSE daemon
      BY <1>8 DEF A!Timeout, A!AfterFocus, A!Disarms
    <2>2. /\ table' \in AxTable /\ table'.replies = table.replies
          /\ table'.waiters[A!Completed] = table.waiters[A!Completed]
          /\ table'.waiters[A!Focused] = table.waiters[A!Focused] \ {u}
          /\ table'.listeners = table.listeners
      BY <2>1, <1>1 DEF AxTable, A!Completed, A!Focused
    <2>3. /\ daemon' \in AxDevice
          /\ daemon'.armed <=> daemon.armed /\ audit.observerCount # 0
          /\ daemon'.running = daemon.running /\ daemon'.inbox = daemon.inbox
      BY <2>1, <1>1 DEF AxDevice
    <2>4. TableExact'
      <3>1. \A p \in table'.replies : users'[p[2]].op = "invoke" /\ users'[p[2]].id = p[1]
        BY <2>2, <1>1, <1>4, <1>8, AxFields DEF AxInv, TableExact
      <3> QED BY <3>1, <2>2, <1>3, <1>4, <1>8 DEF AxInv, TableExact
    <2>5. DeviceExact'
      BY <2>1, <2>3 DEF AxInv, DeviceExact
    <2>6. A!AuditsNotMixed'
      BY <2>1, <1>5
    <2>7. /\ audit' \in AxCount /\ audit'.observerCount = audit.observerCount
          /\ audit'.begun = audit.begun
      BY <2>1, <1>1
    <2>8. audit'.inFlight <=> audit.inFlight /\ \A v \in W : users[v].op # "audit"
      BY <2>1, <1>8, <1>10
    <2> QED
      BY <2>2, <2>3, <2>4, <2>5, <2>6, <2>7, <2>8, <1>2, <1>4, <1>9, AxCallsEnd
  <1> QED
    BY <1>2, <1>6, <1>7, <1>8

-----------------------------------------------------------------------------
(* AxAudit: the device and the read loop.                                      *)

\* What the device sends joins the inbox.
LEMMA AxDeviceSends ==
    ASSUME AxInv, A!Device
    PROVE  AxInv'
  <1>1. /\ AxTyped /\ daemon \in AxDevice /\ daemon.inbox \in Seq(AxMessage)
        /\ daemon.owed \subseteq Nat /\ daemon.running \subseteq Nat /\ daemon.sent + 1 \in Nat
    BY AxFields DEF AxInv, AxTyped
  <1>2. link' = link /\ table' = table /\ audit' = audit /\ users' = users
    BY DEF A!Device
  <1>3. /\ daemon' \in AxDevice /\ daemon'.armed = daemon.armed
        /\ DeviceExact'
    <2>1. ASSUME NEW m \in AxMessage, NEW d \in AxDevice, A!DeviceSends(m, d),
                 d.armed = daemon.armed, d.inbox = daemon.inbox,
                 d.running \subseteq daemon.running, d.sent = daemon.sent,
                 OfAudit(m) => m.id \in daemon.running,
                 m.kind = A!Completed => m.id \notin d.running
          PROVE  daemon' \in AxDevice /\ daemon'.armed = daemon.armed /\ DeviceExact'
      <3>1. Append(daemon.inbox, m) \in Seq(AxMessage)
        BY <1>1
      <3>2. daemon' = [d EXCEPT !.inbox = Append(daemon.inbox, m), !.sent = daemon.sent + 1]
        BY <2>1 DEF A!DeviceSends
      <3>3. /\ daemon' \in AxDevice /\ daemon'.armed = daemon.armed
            /\ daemon'.inbox = Append(daemon.inbox, m) /\ daemon'.running = d.running
        BY <3>1, <3>2, <2>1, <1>1 DEF AxDevice
      <3> QED
        BY <3>3, <2>1, <1>1, <1>2, DeviceSent DEF AxInv
    <2>2. ASSUME NEW id \in daemon.owed,
                 A!DeviceSends([kind |-> "reply", id |-> id], [daemon EXCEPT !.owed = @ \ {id}])
          PROVE  daemon' \in AxDevice /\ daemon'.armed = daemon.armed /\ DeviceExact'
      <3> DEFINE m == [kind |-> "reply", id |-> id]
                 d == [daemon EXCEPT !.owed = @ \ {id}]
      <3>1. m \in AxMessage /\ ~OfAudit(m) /\ m.kind # A!Completed
        BY <1>1 DEF AxMessage, AxKinds, OfAudit, A!Found, A!Completed
      <3>2. /\ d \in AxDevice /\ d.armed = daemon.armed /\ d.inbox = daemon.inbox
            /\ d.running = daemon.running /\ d.sent = daemon.sent
        BY <1>1 DEF AxDevice
      <3>3. A!DeviceSends(m, d)
        BY <2>2
      <3> HIDE DEF m, d
      <3> QED BY <3>1, <3>2, <3>3, <2>1
    <2>3. ASSUME NEW a \in daemon.running, A!DeviceSends([kind |-> A!Found, id |-> a], daemon)
          PROVE  daemon' \in AxDevice /\ daemon'.armed = daemon.armed /\ DeviceExact'
      <3> DEFINE m == [kind |-> A!Found, id |-> a]
      <3>1. m \in AxMessage /\ m.id \in daemon.running /\ m.kind # A!Completed
        BY <1>1 DEF AxMessage, AxKinds, A!Found, A!Completed
      <3>2. A!DeviceSends(m, daemon)
        BY <2>3
      <3> HIDE DEF m
      <3> QED BY <3>1, <3>2, <2>1, <1>1
    <2>4. ASSUME NEW a \in daemon.running,
                 A!DeviceSends([kind |-> A!Completed, id |-> a],
                               [daemon EXCEPT !.running = @ \ {a}])
          PROVE  daemon' \in AxDevice /\ daemon'.armed = daemon.armed /\ DeviceExact'
      <3> DEFINE m == [kind |-> A!Completed, id |-> a]
                 d == [daemon EXCEPT !.running = @ \ {a}]
      <3>1. m \in AxMessage /\ m.id = a
        BY <1>1 DEF AxMessage, AxKinds
      <3>2. /\ d \in AxDevice /\ d.armed = daemon.armed /\ d.inbox = daemon.inbox
            /\ d.running = daemon.running \ {a} /\ d.sent = daemon.sent
        BY <1>1 DEF AxDevice
      <3>3. A!DeviceSends(m, d)
        BY <2>4
      <3> HIDE DEF m, d
      <3> QED BY <3>1, <3>2, <3>3, <2>1
    <2>5. ASSUME A!DeviceSends([kind |-> A!Focused, id |-> 0], daemon)
          PROVE  daemon' \in AxDevice /\ daemon'.armed = daemon.armed /\ DeviceExact'
      <3> DEFINE m == [kind |-> A!Focused, id |-> 0]
      <3>1. m \in AxMessage /\ ~OfAudit(m) /\ m.kind # A!Completed
        BY DEF AxMessage, AxKinds, OfAudit, A!Found, A!Completed, A!Focused
      <3>2. A!DeviceSends(m, daemon)
        BY <2>5
      <3> HIDE DEF m
      <3> QED BY <3>1, <3>2, <2>1, <1>1
    <2> QED
      BY <2>2, <2>3, <2>4, <2>5 DEF A!Device
  <1>4. AxTyped' /\ TableExact' /\ OneAudit' /\ CheckinQuiet'
    BY <1>1, <1>2, <1>3 DEF AxInv, AxTyped, TableExact, OneAudit, CheckinQuiet
  <1>5. ObserversCounted'
    BY <1>2 DEF AxInv, ObserversCounted, A!Closed
  <1>6. A!NoWaitOnClosed' /\ A!MonitoringMatches' /\ A!AuditsNotMixed'
    BY <1>2, <1>3 DEF AxInv, A!NoWaitOnClosed, A!MonitoringMatches, A!AuditsNotMixed, A!Closed,
                      A!Open, A!Disturbed
  <1> QED
    BY <1>3, <1>4, <1>5, <1>6 DEF AxInv

\* A message is taken off the inbox, and nothing else of the device changes.
LEMMA AxTaken ==
    ASSUME AxInv, daemon.inbox # <<>>,
           NEW d, d = [daemon EXCEPT !.inbox = Tail(@)]
    PROVE  /\ Head(daemon.inbox) \in AxMessage
           /\ d \in AxDevice /\ d.armed = daemon.armed /\ d.running = daemon.running
           /\ d.inbox = Tail(daemon.inbox)
  <1>1. daemon \in AxDevice /\ daemon.inbox \in Seq(AxMessage)
    BY AxFields DEF AxInv, AxTyped
  <1>2. Head(daemon.inbox) \in AxMessage /\ Tail(daemon.inbox) \in Seq(AxMessage)
    BY <1>1
  <1> QED
    BY <1>1, <1>2 DEF AxDevice

\* A reply ends the calls of its number.
LEMMA AxDispatchReply ==
    ASSUME AxInv, A!Open, link' = link, daemon.inbox # <<>>, Head(daemon.inbox).kind = "reply",
           A!DispatchReply(Head(daemon.inbox))
    PROVE  AxInv'
  <1> DEFINE m == Head(daemon.inbox)
             W == {u \in User : <<m.id, u>> \in table.replies}
  <1>1. /\ users \in [User -> AxCall] /\ AxTyped /\ table \in AxTable /\ audit \in AxCount
        /\ audit.begun \in Nat
    BY AxFields DEF AxInv, AxTyped
  <1>2. /\ table' = [table EXCEPT !.replies = {p \in @ : p[1] # m.id}]
        /\ users' = [u \in User |-> IF u \in W THEN A!AtRest ELSE users[u]]
        /\ audit' = audit /\ daemon' = [daemon EXCEPT !.inbox = Tail(@)]
    BY DEF A!DispatchReply, A!Answered
  <1>3. \A u \in W : users[u].op = "invoke" /\ users[u].id = m.id
    BY DEF AxInv, TableExact
  <1>4. W \in SUBSET User
    OBVIOUS
  <1> HIDE DEF W
  <1>5. A!AtRest \in AxCall /\ A!AtRest.op = "idle" /\ ~A!AtRest.ended
    BY DEF A!AtRest, AxCall, AxOps
  <1>6. /\ users' \in [User -> AxCall] /\ \A v \in User \ W : users'[v] = users[v]
        /\ \A v \in W : users'[v] = A!AtRest
    BY <1>1, <1>2, <1>4, <1>5
  <1>7. /\ table' \in AxTable /\ table'.replies = {p \in table.replies : p[1] # m.id}
        /\ table'.waiters = table.waiters /\ table'.listeners = table.listeners
    BY <1>1, <1>2 DEF AxTable
  <1>8. TableExact'
    <2>1. \A p \in table'.replies : users'[p[2]].op = "invoke" /\ users'[p[2]].id = p[1]
      <3>1. SUFFICES ASSUME NEW p \in table'.replies
                     PROVE  users'[p[2]].op = "invoke" /\ users'[p[2]].id = p[1]
        OBVIOUS
      <3>2. /\ p[2] \in User /\ p[1] # m.id
            /\ users[p[2]].op = "invoke" /\ users[p[2]].id = p[1]
        BY <1>1, <1>7, AxFields DEF AxInv, TableExact
      <3> QED BY <3>2, <1>3, <1>6
    <2> QED BY <2>1, <1>3, <1>5, <1>6, <1>7 DEF AxInv, TableExact
  <1>9. /\ m \in AxMessage /\ daemon' \in AxDevice /\ daemon'.armed = daemon.armed
        /\ daemon'.running = daemon.running /\ daemon'.inbox = Tail(daemon.inbox)
    BY <1>2, AxTaken
  <1>10. DeviceExact'
    BY <1>1, <1>2, <1>9, AxFields, DeviceTaken DEF AxInv
  <1>11. A!AuditsNotMixed'
    BY <1>2, <1>5, <1>6, NotMixedKept DEF AxInv
  <1>12. audit'.inFlight <=> audit.inFlight /\ \A v \in W : users[v].op # "audit"
    BY <1>2, <1>3
  <1> QED
    BY <1>1, <1>2, <1>3, <1>4, <1>5, <1>6, <1>7, <1>8, <1>9, <1>10, <1>11, <1>12, AxCallsEnd

\* An issue is one of the audit in flight, or of one that may disturb it.
LEMMA AxDispatchIssue ==
    ASSUME AxInv, A!Open, link' = link, daemon.inbox # <<>>, Head(daemon.inbox).kind = A!Found,
           A!DispatchIssue(Head(daemon.inbox))
    PROVE  AxInv'
  <1> DEFINE m == Head(daemon.inbox)
  <1>1. users \in [User -> AxCall] /\ AxTyped
    BY DEF AxInv, AxTyped
  <1>2. /\ users' = [u \in User |-> IF <<A!Found, u>> \in table.listeners
                                    THEN [users[u] EXCEPT !.issues = @ \cup {m.id}] ELSE users[u]]
        /\ daemon' = [daemon EXCEPT !.inbox = Tail(@)] /\ table' = table /\ audit' = audit
    BY DEF A!DispatchIssue
  <1>3. /\ m \in AxMessage /\ daemon' \in AxDevice /\ daemon'.armed = daemon.armed
        /\ daemon'.running = daemon.running /\ daemon'.inbox = Tail(daemon.inbox)
    BY <1>2, AxTaken
  <1>4. m.id \in Nat
    BY <1>3 DEF AxMessage
  <1>5. Live(audit, m.id)
    <2>1. 1 \in DOMAIN daemon.inbox /\ daemon.inbox[1] = m
      BY <1>1, AxFields
    <2> QED BY <2>1 DEF AxInv, DeviceExact, OfAudit
  <1> HIDE DEF m
  <1>6. \A u \in User : <<A!Found, u>> \in table.listeners <=> users[u].op = "audit"
    BY DEF AxInv, TableExact
  <1>7. \A u \in User : /\ users'[u] \in AxCall
                        /\ users'[u].op = users[u].op /\ users'[u].id = users[u].id
                        /\ users'[u].ended = users[u].ended
                        /\ users'[u].issues = IF users[u].op = "audit"
                                              THEN users[u].issues \cup {m.id} ELSE users[u].issues
    BY <1>1, <1>2, <1>4, <1>6 DEF AxCall
  <1>8. AxTyped' /\ TableExact' /\ CheckinQuiet'
    <2>1. users' \in [User -> AxCall]
      BY <1>2, <1>7
    <2>2. \A p \in table.replies : p[2] \in User
      BY <1>1, AxFields
    <2>3. AxTyped'
      BY <2>1, <1>1, <1>2, <1>3 DEF AxTyped
    <2>4. TableExact'
      BY <2>2, <1>2, <1>7 DEF AxInv, TableExact
    <2> QED BY <2>3, <2>4, <1>3, <1>7 DEF AxInv, CheckinQuiet
  <1>9. OneAudit'
    BY <1>2, <1>7 DEF AxInv, OneAudit
  <1>10. ObserversCounted'
    <2>1. Observers(users') = Observers(users)
      BY <1>7, ObserversSame
    <2> QED BY <2>1, <1>2 DEF AxInv, ObserversCounted, A!Closed
  <1>11. DeviceExact'
    BY <1>1, <1>2, <1>3, AxFields, DeviceTaken DEF AxInv
  <1>12. A!NoWaitOnClosed' /\ A!MonitoringMatches'
    BY <1>2, <1>3, <1>7 DEF AxInv, A!NoWaitOnClosed, A!MonitoringMatches, A!Closed, A!Open
  <1>13. A!AuditsNotMixed'
    <2>1. SUFFICES ASSUME NEW u \in User, users'[u].op = "audit" \/ users'[u].ended,
                          NEW i \in users'[u].issues
                   PROVE  i = users'[u].id
                          \/ (i < users'[u].id /\ \E t \in audit'.timedOut : t <= i)
      BY DEF A!AuditsNotMixed, A!Disturbed
    <2>2. CASE i \in users[u].issues
      BY <2>1, <2>2, <1>2, <1>7 DEF AxInv, A!AuditsNotMixed, A!Disturbed
    <2>3. CASE users[u].op = "audit" /\ i = m.id
      <3>1. users[u].id = audit.begun /\ audit.begun \in Nat
        BY <2>3, <1>1, AxFields DEF AxInv, OneAudit
      <3> QED BY <3>1, <2>3, <1>2, <1>5, <1>7 DEF Live
    <2> QED BY <2>1, <2>2, <2>3, <1>7
  <1> QED
    BY <1>8, <1>9, <1>10, <1>11, <1>12, <1>13 DEF AxInv

\* The end of an audit ends the one in flight: its own, or one that it may disturb.
LEMMA AxDispatchCompleted ==
    ASSUME AxInv, A!Open, link' = link, daemon.inbox # <<>>,
           Head(daemon.inbox).kind = A!Completed, A!DispatchCompleted(Head(daemon.inbox))
    PROVE  AxInv'
  <1> DEFINE m == Head(daemon.inbox)
             W == table.waiters[A!Completed]
             w == [table.waiters EXCEPT ![A!Completed] = {}]
             l == {p \in table.listeners : ~(p[1] = A!Found /\ p[2] \in W)}
  <1>1. /\ users \in [User -> AxCall] /\ AxTyped /\ table \in AxTable /\ audit \in AxCount
        /\ audit.begun \in Nat /\ audit.timedOut \subseteq Nat
    BY AxFields DEF AxInv, AxTyped
  <1>2. /\ users' = [u \in User |-> IF u \in W
                                    THEN [users[u] EXCEPT !.op = "idle", !.ended = TRUE,
                                                          !.issues = @ \cup {m.id}]
                                    ELSE users[u]]
        /\ table' = [table EXCEPT !.waiters = w, !.listeners = l]
        /\ audit' = IF W = {} THEN audit ELSE [audit EXCEPT !.inFlight = FALSE]
        /\ daemon' = [daemon EXCEPT !.inbox = Tail(@)]
    BY DEF A!DispatchCompleted
  <1>3. /\ m \in AxMessage /\ daemon' \in AxDevice /\ daemon'.armed = daemon.armed
        /\ daemon'.running = daemon.running /\ daemon'.inbox = Tail(daemon.inbox)
    BY <1>2, AxTaken
  <1>4. m.id \in Nat
    BY <1>3 DEF AxMessage
  <1>5. Live(audit, m.id)
    <2>1. 1 \in DOMAIN daemon.inbox /\ daemon.inbox[1] = m
      BY <1>1, AxFields
    <2> QED BY <2>1 DEF AxInv, DeviceExact, OfAudit
  <1>6. /\ W \in SUBSET User
        /\ \A u \in User : u \in W <=> users[u].op = "audit"
        /\ \A u \in W : users[u].id = audit.begun
    BY <1>1, AxFields DEF AxInv, TableExact, OneAudit
  <1>7. /\ w \in [{A!Completed, A!Focused} -> SUBSET User] /\ w[A!Completed] = {}
        /\ w[A!Focused] = table.waiters[A!Focused]
    BY <1>1 DEF AxTable, A!Completed, A!Focused
  <1>8. /\ l \in SUBSET ({A!Found, A!Focused} \X User)
        /\ \A u \in User : <<A!Found, u>> \in l <=> <<A!Found, u>> \in table.listeners /\ u \notin W
    BY <1>1 DEF AxTable
  <1> HIDE DEF m, W, w, l
  <1>9. \A u \in W : /\ users'[u] \in AxCall /\ users'[u].op = "idle" /\ users'[u].ended
                     /\ users'[u].id = users[u].id
                     /\ users'[u].issues = users[u].issues \cup {m.id}
    BY <1>1, <1>2, <1>4, <1>6 DEF AxCall, AxOps
  <1>10. users' \in [User -> AxCall] /\ \A v \in User \ W : users'[v] = users[v]
    BY <1>1, <1>2, <1>9
  <1>11. /\ table' \in AxTable /\ table'.replies = table.replies /\ table'.waiters = w
         /\ table'.listeners = l
    BY <1>1, <1>2, <1>7, <1>8 DEF AxTable
  <1>12. TableExact'
    <2>1. \A p \in table'.replies : users'[p[2]].op = "invoke" /\ users'[p[2]].id = p[1]
      <3>1. SUFFICES ASSUME NEW p \in table.replies
                     PROVE  users'[p[2]].op = "invoke" /\ users'[p[2]].id = p[1]
        BY <1>11
      <3>2. p[2] \in User /\ users[p[2]].op = "invoke" /\ users[p[2]].id = p[1]
        BY <1>1, AxFields DEF AxInv, TableExact
      <3> QED BY <3>2, <1>6, <1>10
    <2>2. \A u \in User : /\ u \in w[A!Completed] <=> users'[u].op = "audit"
                          /\ <<A!Found, u>> \in l <=> users'[u].op = "audit"
                          /\ u \in w[A!Focused] => users'[u].op = "focus"
      BY <1>6, <1>7, <1>8, <1>9, <1>10 DEF AxInv, TableExact
    <2> QED BY <2>1, <2>2, <1>11 DEF TableExact
  <1>13. /\ audit' \in AxCount /\ audit'.observerCount = audit.observerCount
         /\ audit'.begun = audit.begun /\ audit'.timedOut = audit.timedOut
         /\ audit'.inFlight = (audit.inFlight /\ W = {})
    BY <1>1, <1>2 DEF AxCount
  <1>14. audit'.inFlight <=> audit.inFlight /\ \A v \in W : users[v].op # "audit"
    BY <1>6, <1>13
  <1>15. DeviceExact'
    <2>1. ASSUME NEW b \in Nat, Live(audit, b), b # m.id
          PROVE  Live(audit', b)
      BY <2>1, <1>1, <1>4, <1>5, <1>13 DEF Live
    <2> QED BY <2>1, <1>1, <1>3, AxFields, DeviceTaken DEF AxInv, m
  <1>16. A!AuditsNotMixed'
    <2>1. SUFFICES ASSUME NEW u \in User, users'[u].op = "audit" \/ users'[u].ended,
                          NEW i \in users'[u].issues
                   PROVE  i = users'[u].id
                          \/ (i < users'[u].id /\ \E t \in audit'.timedOut : t <= i)
      BY DEF A!AuditsNotMixed, A!Disturbed
    <2>2. CASE u \notin W
      BY <2>1, <2>2, <1>10, <1>13 DEF AxInv, A!AuditsNotMixed, A!Disturbed
    <2>3. CASE u \in W /\ i \in users[u].issues
      BY <2>3, <1>6, <1>9, <1>13 DEF AxInv, A!AuditsNotMixed, A!Disturbed
    <2>4. CASE u \in W /\ i = m.id
      BY <2>4, <1>1, <1>4, <1>5, <1>6, <1>9, <1>13 DEF Live
    <2> QED BY <2>1, <2>2, <2>3, <2>4, <1>9
  <1>17. \A v \in W : /\ users[v].op \in {"invoke", "audit", "focus"} /\ users[v].op # "focus"
                      /\ users'[v].op = "idle" /\ users'[v].id <= audit.begun
    BY <1>1, <1>6, <1>9
  <1> QED
    BY <1>3, <1>6, <1>10, <1>11, <1>12, <1>13, <1>14, <1>15, <1>16, <1>17, AxCallsEnd

\* A pushed element ends every query.
LEMMA AxDispatchFocus ==
    ASSUME AxInv, A!Open, link' = link, daemon.inbox # <<>>, Head(daemon.inbox).kind = A!Focused,
           A!DispatchFocus
    PROVE  AxInv'
  <1> DEFINE W == table.waiters[A!Focused]
             taken == [daemon EXCEPT !.inbox = Tail(@)]
  <1>1. /\ users \in [User -> AxCall] /\ AxTyped /\ table \in AxTable /\ audit \in AxCount
        /\ audit.begun \in Nat /\ W \in SUBSET User
    BY AxFields DEF AxInv, AxTyped
  <1>2. /\ table' = [table EXCEPT !.waiters[A!Focused] = {}]
        /\ users' = [u \in User |-> IF u \in W THEN A!AtRest ELSE users[u]]
        /\ audit' = audit
        /\ daemon' = IF W = {} \/ audit.observerCount # 0 THEN taken
                     ELSE [taken EXCEPT !.armed = FALSE]
    BY DEF A!DispatchFocus, A!Answered, A!AfterFocus, A!Disarms
  <1>3. \A u \in W : users[u].op = "focus"
    BY <1>1 DEF AxInv, TableExact
  <1>4. /\ Head(daemon.inbox) \in AxMessage
        /\ taken \in AxDevice /\ taken.armed = daemon.armed
        /\ taken.running = daemon.running /\ taken.inbox = Tail(daemon.inbox)
    BY AxTaken
  <1> HIDE DEF W, taken
  <1>5. /\ daemon' \in AxDevice /\ daemon'.running = daemon.running
        /\ daemon'.inbox = Tail(daemon.inbox)
        /\ daemon'.armed = (daemon.armed /\ (W = {} \/ audit.observerCount # 0))
    BY <1>2, <1>4 DEF AxDevice
  <1>6. A!AtRest \in AxCall /\ A!AtRest.op = "idle" /\ ~A!AtRest.ended
    BY DEF A!AtRest, AxCall, AxOps
  <1>7. /\ users' \in [User -> AxCall] /\ \A v \in User \ W : users'[v] = users[v]
        /\ \A v \in W : users'[v] = A!AtRest
    BY <1>1, <1>2, <1>6
  <1>8. /\ table' \in AxTable /\ table'.replies = table.replies
        /\ table'.waiters[A!Completed] = table.waiters[A!Completed]
        /\ table'.waiters[A!Focused] = {}
        /\ table'.listeners = table.listeners
    BY <1>1, <1>2 DEF AxTable, A!Completed, A!Focused
  <1>9. TableExact'
    <2>1. \A p \in table'.replies : users'[p[2]].op = "invoke" /\ users'[p[2]].id = p[1]
      <3>1. SUFFICES ASSUME NEW p \in table.replies
                     PROVE  users'[p[2]].op = "invoke" /\ users'[p[2]].id = p[1]
        BY <1>8
      <3>2. p[2] \in User /\ users[p[2]].op = "invoke" /\ users[p[2]].id = p[1]
        BY <1>1, AxFields DEF AxInv, TableExact
      <3> QED BY <3>2, <1>3, <1>7
    <2> QED BY <2>1, <1>3, <1>6, <1>7, <1>8 DEF AxInv, TableExact
  <1>10. DeviceExact'
    BY <1>1, <1>2, <1>5, AxFields, DeviceTaken DEF AxInv
  <1>11. A!AuditsNotMixed'
    BY <1>2, <1>6, <1>7, NotMixedKept DEF AxInv
  <1>12. audit'.inFlight <=> audit.inFlight /\ \A v \in W : users[v].op # "audit"
    BY <1>2, <1>3
  <1>13. \/ daemon'.armed = daemon.armed /\ \A v \in W : users[v].op # "focus"
         \/ daemon'.armed <=> daemon.armed /\ audit.observerCount # 0
    BY <1>5
  <1> QED
    BY <1>1, <1>2, <1>3, <1>5, <1>6, <1>7, <1>8, <1>9, <1>10, <1>11, <1>12, <1>13, AxCallsEnd

\* One message read by the loop.
LEMMA AxDispatch ==
    ASSUME AxInv, A!Dispatch
    PROVE  AxInv'
  BY AxDispatchReply, AxDispatchIssue, AxDispatchCompleted, AxDispatchFocus DEF A!Dispatch

\* Every step of the audit service keeps the invariant.
LEMMA AxStep ==
    ASSUME AxInv, A!AxNext
    PROVE  AxInv'
  BY AxCheckin, AxClose, AxInvoke, AxRunAudit, AxGetFocused, AxObserve, AxUnobserve, AxTimeout,
     AxDeviceSends, AxDispatch DEF A!AxNext

\* Nobody waits on a connection that has ended, the device monitors for whoever observes, and
\* audits collect their own results: for any users, audits and messages.
THEOREM AuditsStayExact == Spec => []AuditsExact
  <1>1. Init => AxInv
    BY AxInitial DEF Init
  <1>2. AxInv /\ [Next]_vars => AxInv'
    <2> SUFFICES ASSUME AxInv, [Next]_vars PROVE AxInv'
      OBVIOUS
    <2>1. CASE UNCHANGED axVars
      <3>1. AxTyped' /\ TableExact' /\ OneAudit' /\ DeviceExact' /\ CheckinQuiet'
        BY <2>1 DEF axVars, AxInv, AxTyped, TableExact, OneAudit, DeviceExact, CheckinQuiet
      <3>2. ObserversCounted'
        BY <2>1 DEF axVars, AxInv, ObserversCounted, A!Closed
      <3>3. A!NoWaitOnClosed' /\ A!MonitoringMatches' /\ A!AuditsNotMixed'
        BY <2>1 DEF axVars, AxInv, A!NoWaitOnClosed, A!MonitoringMatches, A!AuditsNotMixed,
                    A!Closed, A!Open, A!Disturbed
      <3> QED BY <3>1, <3>2, <3>3 DEF AxInv
    <2>2. CASE A!AxNext
      BY <2>2, AxStep
    <2> QED
      BY <2>1, <2>2 DEF Next, Connection, Tap, Audit, vars
  <1>3. AxInv => AuditsExact
    BY DEF AxInv, AuditsExact
  <1> QED
    BY <1>1, <1>2, <1>3, PTL DEF Spec

-----------------------------------------------------------------------------
(* DvtConnection: the inductive invariant.                                     *)

DvMessage == [id : Nat, channel : Nat, stream : BOOLEAN]
DvByte == {b \in [msg : DvMessage, f : Nat, n : {1, 3}, part : 1..3] : b.f < b.n}
DvPiece == [msg : DvMessage, f : 1..2, n : {3}]
DvFragmenter == [messages : Seq(Seq(DvByte)), partial : [BOOLEAN -> Seq(DvByte)]]
DvCall == [at : {"idle", "dial", "hello", "make", "request", "listen", "closing"}, phase : {"header", "payload"},
           header : DvByte \cup {D!NoHeader}, channel : Nat, held : [code : Nat, on : Nat], want : Nat, got : DvMessage]
DvFragmenters(cm) ==
    /\ cm = [ch \in DOMAIN cm |-> cm[ch]] /\ DOMAIN cm \subseteq Nat /\ 0 \in DOMAIN cm
    /\ \A ch \in DOMAIN cm : cm[ch] \in DvFragmenter
DvService(s) ==
    /\ s = [connection |-> s.connection, dialled |-> s.dialled, lastChannelCode |-> s.lastChannelCode,
            channelCache |-> s.channelCache, channelMessages |-> s.channelMessages,
            isHandshakeComplete |-> s.isHandshakeComplete, readBuffer |-> s.readBuffer]
    /\ {s.connection, s.dialled, s.lastChannelCode, s.channelCache} \subseteq Nat
    /\ DvFragmenters(s.channelMessages) /\ s.isHandshakeComplete \in BOOLEAN /\ s.readBuffer \in Seq(DvByte)
DvDevice == [owed : Seq(DvMessage), rest : Seq(DvPiece), count : Nat]
DvTyped ==
    /\ DvService(svc) /\ sock \in {"none", "open", "destroyed"} /\ wire \in Seq(DvByte)
    /\ device \in DvDevice /\ calls \in [Caller -> DvCall]

\* What has been read and what is on the way are one stream of frames.
DvStream == svc.readBuffer \o wire
Ends(x) == x.part = 3 \/ (x.part = 2 /\ x.n = 3 /\ x.f = 0)
Follows(x, y) == IF Ends(x) THEN y.part = 1 ELSE y = [x EXCEPT !.part = x.part + 1]
Aligned(s) == \A i \in 1..Len(s) - 1 : Follows(s[i], s[i + 1])
Ordered(s) ==
    \A i, j \in 1..Len(s) : i < j /\ s[i].msg = s[j].msg
        => s[i].n = s[j].n /\ (s[i].f < s[j].f \/ (s[i].f = s[j].f /\ s[i].part < s[j].part))
OneKey(m, o) == m.channel = o.channel /\ m.stream = o.stream
Pays(b, m, f) == b.part = 3 /\ b.msg = m /\ b.f = f
InTurn(s) ==
    \A i, j \in 1..Len(s) : i < j /\ s[i].part = 3 /\ s[i].f = 1 /\ s[j].part = 3
                            /\ OneKey(s[i].msg, s[j].msg) /\ s[i].msg # s[j].msg
        => \E k \in 1..Len(s) : i < k /\ k < j /\ Pays(s[k], s[i].msg, 2)

PartialFor(cm, m) == cm[m.channel].partial[m.stream]
IsPartial(cm, m) == m.channel \in DOMAIN cm /\ PartialFor(cm, m) # <<>> /\ PartialFor(cm, m)[1].msg = m
Partials(cm) ==
    \A ch \in DOMAIN cm, st \in BOOLEAN : cm[ch].partial[st] # <<>> =>
        /\ Len(cm[ch].partial[st]) = 1 /\ cm[ch].partial[st][1].f = 1
        /\ cm[ch].partial[st][1].msg.channel = ch /\ cm[ch].partial[st][1].msg.stream = st
Queues(cm) ==
    \A ch \in DOMAIN cm : \A k \in 1..Len(cm[ch].messages) :
        /\ Len(cm[ch].messages[k]) >= 1 /\ D!Whole(cm[ch].messages[k])
        /\ cm[ch].messages[k][1].msg.channel = ch
Begun(s, cm) ==
    \A j \in 1..Len(s) : s[j].part = 3 /\ s[j].f = 2
        => IsPartial(cm, s[j].msg) \/ \E i \in 1..Len(s) : i < j /\ Pays(s[i], s[j].msg, 1)
GoesOn(s, cm) ==
    \A j \in 1..Len(s) :
        /\ s[j].msg.channel \in DOMAIN cm
        /\ PartialFor(cm, s[j].msg) # <<>> =>
             IF IsPartial(cm, s[j].msg) THEN s[j].f = 2
             ELSE s[j].part = 3 => \E k \in 1..Len(s) : k < j /\ Pays(s[k], PartialFor(cm, s[j].msg)[1].msg, 2)

Reads(cs, c) == cs[c].at \in {"hello", "make", "request", "listen"}
InPayload(cs, c) == Reads(cs, c) /\ cs[c].phase = "payload"
Starts(s, cs) ==
    s # <<>> => IF \E c \in Caller : InPayload(cs, c)
                THEN \A c \in Caller : InPayload(cs, c) => s[1] = [cs[c].header EXCEPT !.part = 3]
                ELSE s[1].part = 1
Framed(s, cm, cs) == Aligned(s) /\ Ordered(s) /\ InTurn(s) /\ Partials(cm) /\ Queues(cm) /\ Begun(s, cm) /\ GoesOn(s, cm)
                     /\ Starts(s, cs)

\* Callers take turns.
Turns(buf, cm, cs) ==
    /\ \A c, d \in Caller : Reads(cs, c) /\ Reads(cs, d) /\ c # d =>
          /\ Len(buf) < 2
          /\ InPayload(cs, c) => buf = <<>> /\ ~InPayload(cs, d)
          /\ cs[c].channel = cs[d].channel /\ cs[c].channel \in DOMAIN cm => cm[cs[c].channel].messages = <<>>
    /\ \A c \in Caller : InPayload(cs, c) =>
          /\ cs[c].header \in DvByte /\ cs[c].header.part = 1 /\ (cs[c].header.f = 0 => cs[c].header.n = 1)
          /\ cs[c].channel \in DOMAIN cm /\ cm[cs[c].channel].messages = <<>>

Codes(v, cs) ==
    /\ \A ch \in DOMAIN v.channelMessages : ch <= v.lastChannelCode
    /\ v.connection <= v.dialled
    /\ v.channelCache # 0 => v.channelCache \in DOMAIN v.channelMessages /\ v.isHandshakeComplete
    /\ v.connection = 0 => v.channelMessages = D!Broadcast /\ ~v.isHandshakeComplete
    /\ \A c \in Caller :
         /\ cs[c].held.code <= v.lastChannelCode /\ cs[c].held.on <= v.dialled
         /\ cs[c].held.on # 0 =>
              /\ cs[c].held.code # 0
              /\ cs[c].held.on = v.connection <=> cs[c].held.code \in DOMAIN v.channelMessages
              /\ cs[c].held.on = v.connection => v.isHandshakeComplete
         /\ cs[c].at = "make" =>
              /\ v.isHandshakeComplete /\ cs[c].held.code # 0 /\ cs[c].held.code \notin DOMAIN v.channelMessages
              /\ \A d \in Caller \ {c} : cs[d].held.code # cs[c].held.code
         /\ cs[c].at \in {"request", "listen"} => cs[c].held.on # 0 /\ cs[c].channel = cs[c].held.code
         /\ cs[c].at \in {"hello", "make"} => cs[c].channel = 0
         /\ cs[c].at = "hello" => ~v.isHandshakeComplete /\ v.connection # 0 /\ \A d \in Caller \ {c} : cs[d].at # "hello"
         /\ cs[c].at = "dial" => v.connection = 0 /\ \A d \in Caller \ {c} : cs[d].at # "dial"
         /\ InPayload(cs, c) => v.connection # 0

Wants(sk, v, cs) ==
    /\ sk # "open" => wire = <<>> /\ \A c \in Caller : Reads(cs, c) => cs[c].want = 0
    /\ sk = "open" => v.connection # 0
    /\ \A c \in Caller : (cs[c].at \in {"hello", "make", "request"} => cs[c].want # 0)
                          /\ (cs[c].at = "listen" => cs[c].want = 0)

\* The messages of a stream, of what is partly read, of what waits to be delivered.
MsgsOf(s) == {s[i].msg : i \in 1..Len(s)}
PartialMsgs(cm) == {cm[k[1]].partial[k[2]][1].msg : k \in {k \in (DOMAIN cm) \X BOOLEAN : cm[k[1]].partial[k[2]] # <<>>}}
QueueMsgs(cm) == UNION {{cm[ch].messages[k][1].msg : k \in 1..Len(cm[ch].messages)} : ch \in DOMAIN cm}
ItemsOf(q) == {q[i] : i \in 1..Len(q)}

Paid(s, m, f) == \E j \in 1..Len(s) : Pays(s[j], m, f)
Due(R, m, f) == \E r \in R : r.msg = m /\ r.f = f
ToCome(s, R, m) == Paid(s, m, 2) \/ Due(R, m, 2)
Pipeline(s, cm, R) ==
    /\ s # <<>> => Ends(s[Len(s)])
    /\ \A i \in 1..Len(s) : s[i].n = 3 /\ s[i].f < 2 => ToCome(s, R, s[i].msg)
    /\ \A m \in PartialMsgs(cm) : ToCome(s, R, m)
    /\ \A r, q \in R : OneKey(r.msg, q.msg) => r.msg = q.msg
    /\ \A r \in R :
         /\ r.f = 1 => Due(R, r.msg, 2)
         /\ r.f = 2 => Due(R, r.msg, 1) \/ Paid(s, r.msg, 1) \/ IsPartial(cm, r.msg)
         /\ \A j \in 1..Len(s) : s[j].msg = r.msg => s[j].n = 3 /\ s[j].f < r.f
         /\ r.msg \in PartialMsgs(cm) => r.f = 2
InOrder(rest) == \A i, j \in 1..Len(rest) : i < j /\ rest[i].msg = rest[j].msg => rest[i].f < rest[j].f

\* S on the stream, P partly read, Q to be delivered, R partly sent, O owed.
Apart(S, P, Q, R, O, count, chans) ==
    /\ \A m \in S \cup P \cup Q \cup R \cup O : m \in DvMessage /\ m.id \in 1..count /\ m.channel \in chans
    /\ \A m, o \in S \cup P \cup Q \cup R \cup O : m.id = o.id => m = o
    /\ O \cap (S \cup P \cup Q \cup R) = {}
    /\ Q \cap (S \cup P \cup R) = {}
Distinct(q) == \A i, j \in 1..Len(q) : q[i] = q[j] => i = j
OnceQueued(cm) ==
    \A ch \in DOMAIN cm : \A k, l \in 1..Len(cm[ch].messages) :
        cm[ch].messages[k][1].msg = cm[ch].messages[l][1].msg => k = l
WantedBy(cs, st, m) ==
    (\E s \in st : s[2] = m.channel) \/ \E c \in Caller : Reads(cs, c) /\ cs[c].channel = m.channel /\ cs[c].want = m.id
Wanted(all, cs, st, complete) ==
    \A m \in all : /\ WantedBy(cs, st, m)
                   /\ ~complete => \E c \in Caller : cs[c].at = "hello" /\ cs[c].want = m.id

AllMsgs(s, cm, d) == MsgsOf(s) \cup PartialMsgs(cm) \cup QueueMsgs(cm) \cup MsgsOf(d.rest) \cup ItemsOf(d.owed)
Located(s, cm, d) ==
    /\ Apart(MsgsOf(s), PartialMsgs(cm), QueueMsgs(cm), MsgsOf(d.rest), ItemsOf(d.owed), d.count, DOMAIN cm)
    /\ Distinct(d.owed) /\ OnceQueued(cm) /\ InOrder(d.rest)
Flows(s, cm, d, cs, st, complete) ==
    /\ Pipeline(s, cm, ItemsOf(d.rest)) /\ Located(s, cm, d)
    /\ Wanted(AllMsgs(s, cm, d), cs, st, complete)
    /\ \A c \in Caller : InPayload(cs, c) => s # <<>>
DvGood ==
    /\ DvTyped /\ Turns(svc.readBuffer, svc.channelMessages, calls) /\ Codes(svc, calls) /\ Wants(sock, svc, calls)
    /\ svc.connection # 0 => Framed(DvStream, svc.channelMessages, calls)
    /\ sock = "open" => Flows(DvStream, svc.channelMessages, device, calls, stray, svc.isHandshakeComplete)
DvInv == causes \cap D!Broken = {} => DvGood

-----------------------------------------------------------------------------
(* Streams and fragments.                                                      *)

\* A byte's fields.
LEMMA ByteIs ==
    \A b \in DvByte : /\ b.msg \in DvMessage /\ b.f \in {0, 1, 2} /\ b.n \in {1, 3} /\ b.f < b.n
                      /\ b.part \in 1..3
  BY DEF DvByte

Flattens(q, f) == [i \in 1..Len(q) |-> IF i = 1 THEN q[i] ELSE f[i - 1] \o q[i]]

\* One chunk, flattened.
LEMMA Flat1 ==
    ASSUME NEW s, NEW q, q = [i \in 1..1 |-> s]
    PROVE D!FlattenSeq(q) = s
<1> DEFINE h == CHOOSE f : f = Flattens(q, f)
<1>1. Len(q) = 1 /\ q[1] = s
  OBVIOUS
<1>2. D!FlattenSeq(q) = h[Len(q)]
  <2>1. Len(q) # 0
    BY <1>1
  <2>2. h = CHOOSE f : f = [i \in 1..Len(q) |-> IF i = 1 THEN q[i] ELSE f[i - 1] \o q[i]]
    BY DEF Flattens
  <2> HIDE DEF h
  <2> QED BY <2>1, <2>2, Zenon DEF D!FlattenSeq
<1>3. [i \in 1..1 |-> s] = Flattens(q, [i \in 1..1 |-> s])
  <2>1. 1..Len(q) = 1..1
    BY <1>1
  <2>2. \A i \in 1..1 : i = 1
    OBVIOUS
  <2> QED BY <1>1, <2>1, <2>2 DEF Flattens
<1>4. h = Flattens(q, h)
  BY <1>3, Zenon
<1> HIDE DEF h
<1>5. h[1] = q[1]
  BY <1>1, <1>4 DEF Flattens
<1> QED BY <1>1, <1>2, <1>5

\* t is a stretch of s, after its first k items.
Window(s, t, k) == k + Len(t) <= Len(s) /\ \A i \in 1..Len(t) : t[i] = s[i + k]

\* What remains of a stream keeps its order.
LEMMA WindowKeeps ==
    ASSUME NEW s \in Seq(DvByte), NEW t \in Seq(DvByte), NEW k \in Nat, Window(s, t, k),
           Aligned(s), Ordered(s), InTurn(s)
    PROVE  Aligned(t) /\ Ordered(t) /\ InTurn(t)
<1>1. Len(s) \in Nat /\ Len(t) \in Nat /\ \A i \in 1..Len(t) : t[i] = s[i + k] /\ i + k \in 1..Len(s)
  BY DEF Window
<1>2. Aligned(t)
  <2>1. ASSUME NEW i \in 1..Len(t) - 1  PROVE Follows(t[i], t[i + 1])
    <3>1. i \in 1..Len(t) /\ i + 1 \in 1..Len(t) /\ i + k \in 1..Len(s) - 1 /\ (i + 1) + k = (i + k) + 1
      BY <1>1 DEF Window
    <3> QED BY <1>1, <3>1 DEF Aligned
  <2> QED BY <2>1 DEF Aligned
<1>3. Ordered(t)
  <2>1. ASSUME NEW i \in 1..Len(t), NEW j \in 1..Len(t), i < j, t[i].msg = t[j].msg
        PROVE  t[i].n = t[j].n /\ (t[i].f < t[j].f \/ (t[i].f = t[j].f /\ t[i].part < t[j].part))
    <3>1. i + k < j + k /\ i + k \in 1..Len(s) /\ j + k \in 1..Len(s) /\ t[i] = s[i + k] /\ t[j] = s[j + k]
      BY <1>1, <2>1
    <3> HIDE DEF Window
    <3> QED BY <2>1, <3>1 DEF Ordered
  <2> QED BY <2>1 DEF Ordered
<1>4. InTurn(t)
  <2>1. ASSUME NEW i \in 1..Len(t), NEW j \in 1..Len(t), i < j, t[i].part = 3, t[i].f = 1, t[j].part = 3,
               OneKey(t[i].msg, t[j].msg), t[i].msg # t[j].msg
        PROVE  \E l \in 1..Len(t) : i < l /\ l < j /\ Pays(t[l], t[i].msg, 2)
    <3>1. i + k < j + k /\ i + k \in 1..Len(s) /\ j + k \in 1..Len(s)
      BY <1>1, <2>1
    <3>2. PICK x \in 1..Len(s) : i + k < x /\ x < j + k /\ Pays(s[x], s[i + k].msg, 2)
      BY <1>1, <2>1, <3>1 DEF InTurn
    <3>3. x - k \in 1..Len(t) /\ (x - k) + k = x /\ i < x - k /\ x - k < j
      BY <1>1, <3>2
    <3>4. t[x - k] = s[x]
      BY <1>1, <3>3
    <3> QED BY <1>1, <3>2, <3>3, <3>4
  <2> QED BY <2>1 DEF InTurn
<1> QED BY <1>2, <1>3, <1>4

\* What has no payload is taken off the front.
LEMMA HeaderTaken ==
    ASSUME NEW s \in Seq(DvByte), NEW t \in Seq(DvByte), NEW k \in Nat, Window(s, t, k), k + Len(t) = Len(s) \/ k = 0,
           \A i \in 1..k : i \in 1..Len(s) => s[i].part # 3, NEW cm, Begun(s, cm), GoesOn(s, cm)
    PROVE  Begun(t, cm) /\ GoesOn(t, cm)
<1>1. Len(s) \in Nat /\ Len(t) \in Nat /\ \A i \in 1..Len(t) : t[i] = s[i + k] /\ i + k \in 1..Len(s)
  BY DEF Window
<1>2. ASSUME NEW j \in 1..Len(t), NEW m, NEW f, NEW x \in 1..Len(s), x < j + k, Pays(s[x], m, f)
      PROVE  \E i \in 1..Len(t) : i < j /\ Pays(t[i], m, f)
  <2>1. x > k
    BY <1>2, <1>1 DEF Pays
  <2>2. x - k \in 1..Len(t) /\ (x - k) + k = x /\ x - k < j
    BY <1>1, <1>2, <2>1
  <2>3. t[x - k] = s[x]
    BY <1>1, <2>2
  <2> QED BY <1>2, <2>2, <2>3
<1>3. Begun(t, cm)
  <2>1. ASSUME NEW j \in 1..Len(t), t[j].part = 3, t[j].f = 2
        PROVE  IsPartial(cm, t[j].msg) \/ \E i \in 1..Len(t) : i < j /\ Pays(t[i], t[j].msg, 1)
    <3>1. IsPartial(cm, s[j + k].msg) \/ \E i \in 1..Len(s) : i < j + k /\ Pays(s[i], s[j + k].msg, 1)
      BY <1>1, <2>1 DEF Begun
    <3> QED BY <1>1, <1>2, <3>1
  <2> QED BY <2>1 DEF Begun
<1>4. GoesOn(t, cm)
  <2>1. ASSUME NEW j \in 1..Len(t), PartialFor(cm, t[j].msg) # <<>>, ~IsPartial(cm, t[j].msg), t[j].part = 3
        PROVE  \E l \in 1..Len(t) : l < j /\ Pays(t[l], PartialFor(cm, t[j].msg)[1].msg, 2)
    <3>1. \E l \in 1..Len(s) : l < j + k /\ Pays(s[l], PartialFor(cm, s[j + k].msg)[1].msg, 2)
      BY <1>1, <2>1 DEF GoesOn
    <3> QED BY <1>1, <1>2, <3>1
  <2> QED BY <1>1, <2>1 DEF GoesOn
<1> QED BY <1>3, <1>4

\* What addFragment() does to the fragmenters, where h is one that is due.
FragmentIn(cm, c2, h) ==
    LET ch == h.msg.channel
        st == h.msg.stream
    IN /\ DOMAIN c2 = DOMAIN cm /\ ch \in DOMAIN cm /\ \A x \in DOMAIN cm : x # ch => c2[x] = cm[x]
       /\ c2[ch].partial[st] = IF h.f = 1 THEN <<h>> ELSE <<>>
       /\ \A y \in BOOLEAN : y # st => c2[ch].partial[y] = cm[ch].partial[y]
       /\ h.f = 1 => cm[ch].partial[st] = <<>> /\ c2[ch].messages = cm[ch].messages
       /\ h.f = 0 => cm[ch].partial[st] = <<>>
       /\ h.f = 2 => IsPartial(cm, h.msg)
       /\ h.f # 1 => \E w \in Seq(DvByte) : /\ Len(w) >= 1 /\ D!Whole(w) /\ w[1].msg = h.msg
                                            /\ c2[ch].messages = Append(cm[ch].messages, w)

\* addFragment(): the fragment joins the others of its message, which may complete it.
LEMMA FragmentAdded ==
    ASSUME NEW cm, DvFragmenters(cm), Partials(cm), NEW h \in DvByte, h.f = 0 => h.n = 1,
           h.msg.channel \in DOMAIN cm,
           PartialFor(cm, h.msg) # <<>> => IsPartial(cm, h.msg) /\ h.f = 2,
           h.f = 2 => IsPartial(cm, h.msg),
           NEW c2, c2 = [cm EXCEPT ![h.msg.channel] = D!AddFragment(@, h)]
    PROVE  DvFragmenters(c2) /\ FragmentIn(cm, c2, h)
<1> DEFINE ch == h.msg.channel
           st == h.msg.stream
           fr == cm[ch]
           p == fr.partial[st]
           g == D!AddFragment(fr, h)
<1>1. /\ fr \in DvFragmenter /\ st \in BOOLEAN /\ fr.partial \in [BOOLEAN -> Seq(DvByte)] /\ fr.messages \in Seq(Seq(DvByte))
      /\ p \in Seq(DvByte) /\ PartialFor(cm, h.msg) = p
      /\ fr = [messages |-> fr.messages, partial |-> fr.partial]
  BY DEF DvFragmenters, DvFragmenter, DvByte, DvMessage, PartialFor
<1>2. /\ h.f \in {0, 1, 2} /\ h.n \in {1, 3} /\ (h.f = 0 => h.f = h.n - 1) /\ (h.f = 1 => h.f # h.n - 1 /\ h.n = 3)
      /\ (h.f = 2 => h.f = h.n - 1 /\ h.n = 3)
  BY DEF DvByte
<1>3. p # <<>> => h.f = 2 /\ Len(p) = 1 /\ p[1].msg = h.msg /\ p[1].f = 1
  <2>1. p # <<>> => h.f = 2 /\ p[1].msg = h.msg
    BY <1>1 DEF IsPartial
  <2>2. p # <<>> => Len(p) = 1 /\ p[1].f = 1
    BY <1>1 DEF Partials
  <2> QED BY <2>1, <2>2
<1>4. h.f = 2 => p # <<>>
  BY <1>1 DEF IsPartial
<1> DEFINE w == Append(p, h)
<1>5. w \in Seq(DvByte)
  BY <1>1
<1>6. g = IF h.f = h.n - 1 THEN [messages |-> Append(fr.messages, w), partial |-> [fr.partial EXCEPT ![st] = <<>>]]
          ELSE [fr EXCEPT !.partial[st] = w]
  BY DEF D!AddFragment, D!PartialOf
<1>7. Len(w) >= 1 /\ (h.f # 1 => D!Whole(w) /\ w[1].msg = h.msg) /\ (h.f = 1 => w = <<h>>)
  <2>1. CASE h.f = 2
    <3>1. Len(p) = 1 /\ p[1].msg = h.msg /\ p[1].f = 1
      BY <1>3, <1>4, <2>1
    <3>2. Len(w) = 2 /\ DOMAIN w = {1, 2} /\ w[1] = p[1] /\ w[2] = h
      <4> HIDE DEF p
      <4>1. p \in Seq(DvByte)
        BY <1>1
      <4>3. Len(w) = Len(p) + 1 /\ w[Len(p) + 1] = h /\ \A i \in 1..Len(p) : w[i] = p[i]
        BY <4>1, AppendProperties
      <4>2. Len(w) = 2 /\ 1..2 = {1, 2} /\ DOMAIN w = 1..Len(w)
        BY <1>5, <3>1, <4>3
      <4> QED BY <3>1, <4>2, <4>3
    <3>3. p[1].n = 3
      <4>1. p[1] \in DvByte
        BY <1>1, <3>1
      <4> QED BY <3>1, <4>1 DEF DvByte
    <3> HIDE DEF w, p
    <3> QED BY <2>1, <3>1, <3>2, <3>3 DEF D!Whole
  <2>2. CASE h.f # 2
    <3>1. p = <<>>
      BY <1>3, <2>2
    <3>2. w = <<h>> /\ Len(w) = 1 /\ DOMAIN w = {1} /\ w[1] = h
      BY <3>1
    <3> HIDE DEF w, p
    <3> QED BY <1>2, <2>2, <3>2 DEF D!Whole
  <2> QED BY <2>1, <2>2
<1> HIDE DEF w
<1>8. /\ g \in DvFragmenter /\ g.partial[st] = (IF h.f = 1 THEN <<h>> ELSE <<>>)
      /\ \A y \in BOOLEAN : y # st => g.partial[y] = fr.partial[y]
      /\ (h.f = 1 => g.messages = fr.messages)
      /\ (h.f # 1 => g.messages = Append(fr.messages, w))
  <2>1. CASE h.f = 1
    <3>1. g = [fr EXCEPT !.partial[st] = w]
      BY <1>2, <1>6, <2>1
    <3>2. g = [messages |-> fr.messages, partial |-> [fr.partial EXCEPT ![st] = w]]
      BY <1>1, <3>1
    <3> HIDE DEF g
    <3> QED BY <1>1, <1>5, <1>7, <2>1, <3>2 DEF DvFragmenter
  <2>2. CASE h.f # 1
    <3>1. g = [messages |-> Append(fr.messages, w), partial |-> [fr.partial EXCEPT ![st] = <<>>]]
      BY <1>2, <1>6, <2>2
    <3>2. Append(fr.messages, w) \in Seq(Seq(DvByte)) /\ <<>> \in Seq(DvByte)
      BY <1>1, <1>5
    <3> HIDE DEF g
    <3> QED BY <1>1, <2>2, <3>1, <3>2 DEF DvFragmenter
  <2> QED BY <2>1, <2>2
<1>9. c2 = [cm EXCEPT ![ch] = g]
  OBVIOUS
<1> HIDE DEF g
<1>10. /\ DOMAIN c2 = DOMAIN cm /\ ch \in DOMAIN cm /\ c2[ch] = g /\ \A x \in DOMAIN cm : x # ch => c2[x] = cm[x]
       /\ c2 = [x \in DOMAIN c2 |-> c2[x]]
  BY <1>9 DEF DvFragmenters
<1> HIDE DEF fr
<1>11. DvFragmenters(c2)
  BY <1>8, <1>10 DEF DvFragmenters
<1>12. FragmentIn(cm, c2, h)
  <2>1. h.f # 2 => p = <<>>
    BY <1>3
  <2>2. h.f # 1 => \E v \in Seq(DvByte) : /\ Len(v) >= 1 /\ D!Whole(v) /\ v[1].msg = h.msg
                                          /\ c2[ch].messages = Append(cm[ch].messages, v)
    BY <1>5, <1>7, <1>8, <1>10 DEF fr
  <2> QED BY <1>8, <1>10, <2>1, <2>2 DEF FragmentIn, fr
<1> QED BY <1>11, <1>12


\* The partials of other channels and streams are as they were.
LEMMA OtherPartials ==
    ASSUME NEW cm, NEW c2, NEW h \in DvByte, FragmentIn(cm, c2, h), NEW m \in DvMessage, m.channel \in DOMAIN cm
    PROVE  /\ ~OneKey(m, h.msg) => PartialFor(c2, m) = PartialFor(cm, m) /\ (IsPartial(c2, m) <=> IsPartial(cm, m))
           /\ OneKey(m, h.msg) => /\ PartialFor(c2, m) = IF h.f = 1 THEN <<h>> ELSE <<>>
                                  /\ PartialFor(cm, m) # <<>> => h.f = 2
<1>1. /\ DOMAIN c2 = DOMAIN cm /\ \A x \in DOMAIN cm : x # h.msg.channel => c2[x] = cm[x]
      /\ c2[h.msg.channel].partial[h.msg.stream] = IF h.f = 1 THEN <<h>> ELSE <<>>
      /\ \A y \in BOOLEAN : y # h.msg.stream => c2[h.msg.channel].partial[y] = cm[h.msg.channel].partial[y]
      /\ h.f = 1 => cm[h.msg.channel].partial[h.msg.stream] = <<>>
      /\ h.f = 0 => cm[h.msg.channel].partial[h.msg.stream] = <<>>
  BY DEF FragmentIn
<1>2. m.stream \in BOOLEAN /\ h.f \in {0, 1, 2}
  BY DEF DvMessage, DvByte
<1>3. ASSUME ~OneKey(m, h.msg)  PROVE PartialFor(c2, m) = PartialFor(cm, m)
  <2>1. CASE m.channel # h.msg.channel
    BY <1>1, <2>1 DEF PartialFor
  <2>2. CASE m.channel = h.msg.channel
    BY <1>1, <1>2, <1>3, <2>2 DEF PartialFor, OneKey
  <2> QED BY <2>1, <2>2
<1>4. ASSUME OneKey(m, h.msg)  PROVE PartialFor(c2, m) = (IF h.f = 1 THEN <<h>> ELSE <<>>) /\ (PartialFor(cm, m) # <<>> => h.f = 2)
  BY <1>1, <1>2, <1>4 DEF PartialFor, OneKey
<1> QED BY <1>1, <1>3, <1>4 DEF IsPartial

\* A payload leaves the stream for the fragmenter of its channel.
LEMMA PayloadTaken ==
    ASSUME NEW s \in Seq(DvByte), s # <<>>, NEW t \in Seq(DvByte), Window(s, t, 1), Len(s) = 1 + Len(t),
           Ordered(s), InTurn(s), NEW h \in DvByte, s[1] = [h EXCEPT !.part = 3],
           NEW cm, DvFragmenters(cm), Partials(cm), Queues(cm), Begun(s, cm), GoesOn(s, cm),
           NEW c2, FragmentIn(cm, c2, h)
    PROVE  Partials(c2) /\ Queues(c2) /\ Begun(t, c2) /\ GoesOn(t, c2)
<1>1. Len(s) \in Nat /\ Len(t) \in Nat /\ \A j \in 1..Len(t) : t[j] = s[j + 1] /\ j + 1 \in 1..Len(s) /\ 1 < j + 1
  BY DEF Window
<1>2. 1 \in 1..Len(s) /\ s[1].msg = h.msg /\ s[1].f = h.f /\ s[1].n = h.n /\ s[1].part = 3 /\ h.msg \in DvMessage
      /\ h.f \in {0, 1, 2}
  BY <1>1 DEF DvByte
<1>3. \A i \in 1..Len(s) : s[i] \in DvByte /\ s[i].msg \in DvMessage /\ s[i].f \in {0, 1, 2} /\ s[i].part \in 1..3
  <2>1. \A i \in 1..Len(s) : s[i] \in DvByte
    OBVIOUS
  <2> QED
    BY <2>1, ByteIs
<1>4. ASSUME NEW j \in 1..Len(t), NEW m, NEW f, NEW x \in 1..Len(s), x < j + 1, Pays(s[x], m, f)
      PROVE  (x = 1 /\ m = h.msg /\ f = h.f) \/ \E i \in 1..Len(t) : i < j /\ Pays(t[i], m, f)
  <2>1. CASE x = 1
    BY <1>2, <1>4, <2>1 DEF Pays
  <2>2. CASE x > 1
    <3>1. x - 1 \in 1..Len(t) /\ (x - 1) + 1 = x /\ x - 1 < j
      BY <1>1, <1>4, <2>2
    <3>2. t[x - 1] = s[x]
      BY <1>1, <3>1
    <3> QED BY <1>4, <3>1, <3>2
  <2> QED BY <2>1, <2>2
<1>5. \A j \in 1..Len(t) : s[j + 1].msg = h.msg => h.f < s[j + 1].f
  <2>1. ASSUME NEW j \in 1..Len(t), s[j + 1].msg = h.msg  PROVE h.f < s[j + 1].f
    <3>1. s[1].f < s[j + 1].f \/ (s[1].f = s[j + 1].f /\ s[1].part < s[j + 1].part)
      BY <1>1, <1>2, <2>1 DEF Ordered
    <3>2. s[j + 1].part \in 1..3
      BY <1>1, <1>3
    <3> QED BY <1>2, <3>1, <3>2
  <2> QED BY <2>1
<1>6. Partials(c2)
  <2>1. ASSUME NEW ch \in DOMAIN c2, NEW st \in BOOLEAN, c2[ch].partial[st] # <<>>
        PROVE  /\ Len(c2[ch].partial[st]) = 1 /\ c2[ch].partial[st][1].f = 1
               /\ c2[ch].partial[st][1].msg.channel = ch /\ c2[ch].partial[st][1].msg.stream = st
    <3>1. CASE ch = h.msg.channel /\ st = h.msg.stream
      <4>1. c2[ch].partial[st] = <<h>> /\ h.f = 1
        BY <2>1, <3>1 DEF FragmentIn
      <4> QED BY <3>1, <4>1
    <3>2. CASE ~(ch = h.msg.channel /\ st = h.msg.stream)
      <4>1. c2[ch].partial[st] = cm[ch].partial[st] /\ ch \in DOMAIN cm
        <5>1. CASE ch # h.msg.channel
          BY <5>1 DEF FragmentIn
        <5>2. CASE ch = h.msg.channel
          BY <3>2, <5>2 DEF FragmentIn
        <5> QED BY <5>1, <5>2
      <4> QED BY <2>1, <4>1 DEF Partials
    <3> QED BY <3>1, <3>2
  <2> QED BY <2>1 DEF Partials
<1>7. Queues(c2)
  <2> DEFINE Good(q, ch) == Len(q) >= 1 /\ D!Whole(q) /\ q[1].msg.channel = ch
  <2>1. \A ch \in DOMAIN cm : \A k \in 1..Len(cm[ch].messages) : Good(cm[ch].messages[k], ch)
    BY DEF Queues
  <2>2. ASSUME NEW ch \in DOMAIN c2, NEW k \in 1..Len(c2[ch].messages)
        PROVE  Good(c2[ch].messages[k], ch)
    <3>1. CASE c2[ch].messages = cm[ch].messages
      BY <2>1, <2>2, <3>1 DEF FragmentIn
    <3>2. CASE c2[ch].messages # cm[ch].messages
      <4>1. ch = h.msg.channel /\ h.f # 1 /\ ch \in DOMAIN cm
        BY <3>2 DEF FragmentIn
      <4>2. PICK w \in Seq(DvByte) : /\ Len(w) >= 1 /\ D!Whole(w) /\ w[1].msg = h.msg
                                     /\ c2[ch].messages = Append(cm[ch].messages, w)
        BY <4>1 DEF FragmentIn
      <4>3. cm[ch].messages \in Seq(Seq(DvByte))
        BY <4>1 DEF DvFragmenters, DvFragmenter
      <4>4. Good(w, ch)
        BY <4>1, <4>2
      <4> HIDE DEF Good
      <4>5. /\ Len(c2[ch].messages) = Len(cm[ch].messages) + 1 /\ c2[ch].messages[Len(cm[ch].messages) + 1] = w
            /\ \A i \in 1..Len(cm[ch].messages) : c2[ch].messages[i] = cm[ch].messages[i]
            /\ Len(cm[ch].messages) \in Nat
        <5> DEFINE X == Seq(DvByte)
        <5>1. cm[ch].messages \in Seq(X) /\ w \in X /\ c2[ch].messages = Append(cm[ch].messages, w)
          BY <4>2, <4>3
        <5> HIDE DEF X
        <5> QED BY <5>1, AppendProperties
      <4>6. CASE k \in 1..Len(cm[ch].messages)
        BY <2>1, <4>1, <4>5, <4>6
      <4>7. CASE k = Len(cm[ch].messages) + 1
        BY <4>4, <4>5, <4>7
      <4>8. k \in 1..Len(cm[ch].messages) \/ k = Len(cm[ch].messages) + 1
        <5>1. k \in 1..(Len(cm[ch].messages) + 1) /\ Len(cm[ch].messages) \in Nat
          BY <4>5
        <5> QED BY <5>1
      <4> QED BY <4>6, <4>7, <4>8
    <3> QED BY <3>1, <3>2
  <2> QED BY <2>2 DEF Queues
<1>8. Begun(t, c2)
  <2>1. ASSUME NEW j \in 1..Len(t), t[j].part = 3, t[j].f = 2
        PROVE  IsPartial(c2, t[j].msg) \/ \E i \in 1..Len(t) : i < j /\ Pays(t[i], t[j].msg, 1)
    <3> DEFINE m == t[j].msg
    <3>1. m = s[j + 1].msg /\ s[j + 1].part = 3 /\ s[j + 1].f = 2 /\ j + 1 \in 1..Len(s) /\ m \in DvMessage
          /\ m.channel \in DOMAIN cm
      BY <1>1, <1>3, <2>1 DEF GoesOn
    <3> HIDE DEF m
    <3>2. CASE \E i \in 1..Len(s) : i < j + 1 /\ Pays(s[i], m, 1)
      <4>1. (m = h.msg /\ h.f = 1) \/ \E i \in 1..Len(t) : i < j /\ Pays(t[i], m, 1)
        BY <1>4, <3>2
      <4>2. m = h.msg /\ h.f = 1 => IsPartial(c2, m)
        <5>1. ASSUME m = h.msg, h.f = 1  PROVE IsPartial(c2, m)
          <6>1. PartialFor(c2, m) = <<h>> /\ m.channel \in DOMAIN c2
            BY <5>1 DEF FragmentIn, PartialFor
          <6> QED BY <5>1, <6>1 DEF IsPartial
        <5> QED BY <5>1
      <4> QED BY <4>1, <4>2 DEF m
    <3>3. CASE IsPartial(cm, m)
      <4>1. CASE OneKey(m, h.msg)
        <5>1. h.f = 2
          BY <3>1, <3>3, <4>1, OtherPartials DEF IsPartial
        <5>2. IsPartial(cm, h.msg)
          BY <5>1 DEF FragmentIn
        <5>3. m = h.msg
          BY <3>3, <4>1, <5>2 DEF IsPartial, PartialFor, OneKey
        <5>4. h.f < 2
          BY <1>5, <3>1, <5>3
        <5> QED BY <5>1, <5>4
      <4>2. CASE ~OneKey(m, h.msg)
        BY <3>1, <3>3, <4>2, OtherPartials DEF m
      <4> QED BY <4>1, <4>2
    <3> QED BY <3>1, <3>2, <3>3 DEF Begun
  <2> QED BY <2>1 DEF Begun
<1>9. GoesOn(t, c2)
  <2>1. ASSUME NEW j \in 1..Len(t)
        PROVE  /\ t[j].msg.channel \in DOMAIN c2
               /\ PartialFor(c2, t[j].msg) # <<>> =>
                    IF IsPartial(c2, t[j].msg) THEN t[j].f = 2
                    ELSE t[j].part = 3 => \E k \in 1..Len(t) : k < j /\ Pays(t[k], PartialFor(c2, t[j].msg)[1].msg, 2)
    <3> DEFINE m == t[j].msg
    <3>1. m = s[j + 1].msg /\ t[j] = s[j + 1] /\ j + 1 \in 1..Len(s) /\ 1 < j + 1 /\ m \in DvMessage
          /\ m.channel \in DOMAIN cm /\ DOMAIN c2 = DOMAIN cm /\ t[j].f \in {0, 1, 2}
      BY <1>1, <1>3 DEF GoesOn, FragmentIn
    <3> HIDE DEF m
    <3>2. ASSUME PartialFor(c2, m) # <<>>, IsPartial(c2, m)  PROVE t[j].f = 2
      <4>1. CASE OneKey(m, h.msg)
        <5>1. h.f = 1 /\ PartialFor(c2, m) = <<h>>
          BY <3>1, <3>2, <4>1, OtherPartials
        <5>2. m = h.msg
          BY <3>2, <5>1 DEF IsPartial
        <5>3. h.f < s[j + 1].f
          BY <1>5, <3>1, <5>2
        <5> QED BY <3>1, <5>1, <5>3
      <4>2. CASE ~OneKey(m, h.msg)
        <5>1. PartialFor(cm, m) # <<>> /\ IsPartial(cm, m)
          BY <3>1, <3>2, <4>2, OtherPartials
        <5> QED BY <3>1, <5>1 DEF GoesOn
      <4> QED BY <4>1, <4>2
    <3>3. ASSUME PartialFor(c2, m) # <<>>, ~IsPartial(c2, m), t[j].part = 3
          PROVE  \E k \in 1..Len(t) : k < j /\ Pays(t[k], PartialFor(c2, m)[1].msg, 2)
      <4>1. CASE OneKey(m, h.msg)
        <5>1. h.f = 1 /\ PartialFor(c2, m) = <<h>> /\ PartialFor(c2, m)[1].msg = h.msg
          BY <3>1, <3>3, <4>1, OtherPartials
        <5>2. m # h.msg
          BY <3>1, <3>3, <5>1 DEF IsPartial
        <5>3. OneKey(h.msg, m)
          BY <4>1 DEF OneKey
        <5>4. \E k \in 1..Len(s) : 1 < k /\ k < j + 1 /\ Pays(s[k], h.msg, 2)
          BY <1>2, <3>1, <3>3, <5>1, <5>2, <5>3 DEF InTurn
        <5> QED BY <1>4, <5>1, <5>4
      <4>2. CASE ~OneKey(m, h.msg)
        <5>1. PartialFor(c2, m) = PartialFor(cm, m) /\ PartialFor(cm, m) # <<>> /\ ~IsPartial(cm, m)
          BY <3>1, <3>3, <4>2, OtherPartials
        <5>2. PICK k \in 1..Len(s) : k < j + 1 /\ Pays(s[k], PartialFor(cm, m)[1].msg, 2)
          <6>1. PartialFor(cm, s[j + 1].msg) # <<>> /\ ~IsPartial(cm, s[j + 1].msg) /\ s[j + 1].part = 3
            BY <3>1, <3>3, <5>1
          <6> QED BY <3>1, <6>1 DEF GoesOn
        <5>3. OneKey(m, PartialFor(cm, m)[1].msg)
          <6>1. m.channel \in DOMAIN cm /\ m.stream \in BOOLEAN
            BY <3>1 DEF DvMessage
          <6> QED BY <5>1, <6>1 DEF Partials, PartialFor, OneKey
        <5>4. PartialFor(cm, m)[1].msg # h.msg
          BY <4>2, <5>3 DEF OneKey
        <5> QED BY <1>4, <5>1, <5>2, <5>4
      <4> QED BY <4>1, <4>2
    <3> QED BY <3>1, <3>2, <3>3 DEF m
  <2> QED BY <2>1 DEF GoesOn
<1> QED BY <1>6, <1>7, <1>8, <1>9

-----------------------------------------------------------------------------
(* Frames that are sent.                                                       *)

\* A frame sent: t is s and the bytes of fragment f of message m.
FrameByte(m, f, n, k) == [msg |-> m, f |-> f, n |-> n, part |-> k]
FrameLen(f, n) == IF n > 1 /\ f = 0 THEN 2 ELSE 3
FrameSent(s, t, m, f, n) ==
    /\ Len(t) = Len(s) + FrameLen(f, n)
    /\ \A i \in 1..Len(s) : t[i] = s[i]
    /\ \A k \in 1..FrameLen(f, n) : t[Len(s) + k] = FrameByte(m, f, n, k)

\* The bytes of a frame, put behind the stream.
LEMMA FrameIsSent ==
    ASSUME NEW s \in Seq(DvByte), NEW m \in DvMessage, NEW n \in {1, 3}, NEW f \in 0..2, f < n
    PROVE  /\ D!Bytes(m, f, n) \in Seq(DvByte) /\ s \o D!Bytes(m, f, n) \in Seq(DvByte)
           /\ FrameSent(s, s \o D!Bytes(m, f, n), m, f, n)
<1> DEFINE b == D!Bytes(m, f, n)
           L == FrameLen(f, n)
<1>1. b = [i \in 1..L |-> FrameByte(m, f, n, i)] /\ L \in {2, 3}
  BY DEF D!Bytes, FrameByte, FrameLen
<1>2. \A i \in 1..L : FrameByte(m, f, n, i) \in DvByte
  BY <1>1 DEF FrameByte, DvByte
<1> HIDE DEF L
<1>3. b \in Seq(DvByte) /\ Len(b) = L /\ \A i \in 1..L : b[i] = FrameByte(m, f, n, i)
  <2> HIDE DEF b
  <2>1. b \in [1..L -> DvByte] /\ L \in Nat
    BY <1>1, <1>2
  <2> QED BY <1>1, <2>1
<1> HIDE DEF b
<1>4. s \o b \in Seq(DvByte) /\ Len(s \o b) = Len(s) + Len(b) /\ \A i \in 1..Len(s) : (s \o b)[i] = s[i]
  <2> DEFINE X == DvByte
  <2> HIDE DEF X
  <2>1. s \in Seq(X) /\ b \in Seq(X)
    BY <1>3 DEF X
  <2>2. s \o b \in Seq(X) /\ Len(s \o b) = Len(s) + Len(b) /\ \A i \in 1..Len(s) : (s \o b)[i] = s[i]
    BY <2>1
  <2> QED BY <2>2 DEF X
<1>5. \A k \in 1..L : (s \o b)[Len(s) + k] = b[k]
  <2> DEFINE X == DvByte
  <2> HIDE DEF X
  <2>1. s \in Seq(X) /\ b \in Seq(X) /\ Len(b) = L
    BY <1>3 DEF X
  <2> QED BY <2>1
<1> QED BY <1>3, <1>4, <1>5 DEF FrameSent, L, b

\* Nothing else of m's key is partly sent, and what is on the stream of m comes before f.
SendsInTurn(s, cm, R, m, f, n) ==
    /\ m.channel \in DOMAIN cm
    /\ \A r \in R : OneKey(r.msg, m) => r.msg = m
    /\ \A i \in 1..Len(s) : s[i].msg = m => s[i].n = n /\ s[i].f < f
    /\ f = 2 => Paid(s, m, 1) \/ IsPartial(cm, m)
    /\ m \in PartialMsgs(cm) => f = 2

\* The messages partly read are the partials of their keys.
LEMMA PartialMsgsAre ==
    ASSUME NEW cm, DvFragmenters(cm), Partials(cm)
    PROVE  \A m : m \in PartialMsgs(cm) <=> m \in DvMessage /\ IsPartial(cm, m)
<1>1. ASSUME NEW m \in PartialMsgs(cm)  PROVE m \in DvMessage /\ IsPartial(cm, m)
  <2>1. PICK k \in (DOMAIN cm) \X BOOLEAN : cm[k[1]].partial[k[2]] # <<>> /\ m = cm[k[1]].partial[k[2]][1].msg
    BY DEF PartialMsgs
  <2>2. k[1] \in DOMAIN cm /\ k[2] \in BOOLEAN
    BY <2>1
  <2>3. m.channel = k[1] /\ m.stream = k[2] /\ Len(cm[k[1]].partial[k[2]]) = 1
    BY <2>1, <2>2 DEF Partials
  <2>4. cm[k[1]].partial[k[2]] \in Seq(DvByte)
    BY <2>2 DEF DvFragmenters, DvFragmenter
  <2>5. cm[k[1]].partial[k[2]][1] \in DvByte
    BY <2>3, <2>4
  <2>6. m \in DvMessage
    BY <2>1, <2>5 DEF DvByte
  <2> QED BY <2>1, <2>2, <2>3, <2>6 DEF IsPartial, PartialFor
<1>2. ASSUME NEW m \in DvMessage, IsPartial(cm, m)  PROVE m \in PartialMsgs(cm)
  <2>1. m.stream \in BOOLEAN /\ m.channel \in DOMAIN cm
    BY <1>2 DEF DvMessage, IsPartial
  <2>2. <<m.channel, m.stream>> \in (DOMAIN cm) \X BOOLEAN
    BY <2>1
  <2>3. cm[m.channel].partial[m.stream] # <<>> /\ cm[m.channel].partial[m.stream][1].msg = m
    BY <1>2 DEF IsPartial, PartialFor
  <2> QED BY <2>2, <2>3 DEF PartialMsgs
<1> QED BY <1>1, <1>2

\* A frame that is sent in its turn keeps the stream readable.
LEMMA StreamSent ==
    ASSUME NEW s \in Seq(DvByte), NEW t \in Seq(DvByte), NEW m \in DvMessage, NEW n \in {1, 3}, NEW f \in 0..2, f < n,
           FrameSent(s, t, m, f, n), NEW cm, NEW R, NEW cs, DvFragmenters(cm),
           Framed(s, cm, cs), Pipeline(s, cm, R), SendsInTurn(s, cm, R, m, f, n),
           \A c \in Caller : InPayload(cs, c) => s # <<>>
    PROVE  Framed(t, cm, cs)
<1> DEFINE L == FrameLen(f, n)
           N == Len(s)
<1>1. N \in Nat /\ L \in {2, 3} /\ Len(t) = N + L /\ (L = 2 => f = 0 /\ n = 3) /\ (L = 3 => f # 0 \/ n = 1)
  BY DEF FrameSent, FrameLen
<1> DEFINE F(k) == FrameByte(m, f, n, k)
<1>2. \A k \in 1..L : t[N + k] = F(k) /\ F(k).msg = m /\ F(k).f = f /\ F(k).n = n /\ F(k).part = k
  BY DEF FrameSent, FrameByte
<1>3. \A i \in 1..N : t[i] = s[i] /\ s[i] \in DvByte
  BY DEF FrameSent
<1>4. \A i \in 1..Len(t) : (i <= N /\ i \in 1..N /\ t[i] = s[i])
                           \/ (i > N /\ i - N \in 1..L /\ t[i] = F(i - N) /\ i = N + (i - N))
  <2>1. ASSUME NEW i \in 1..Len(t), i > N  PROVE i - N \in 1..L /\ t[i] = F(i - N) /\ i = N + (i - N)
    <3>1. i - N \in 1..L /\ i = N + (i - N)
      BY <1>1, <2>1
    <3> QED BY <1>2, <3>1
  <2>2. ASSUME NEW i \in 1..Len(t), i <= N  PROVE i \in 1..N /\ t[i] = s[i]
    BY <1>1, <1>3, <2>2
  <2> QED BY <1>1, <2>1, <2>2
<1> HIDE DEF F, L, N
<1>5. Aligned(t)
  <2>1. SUFFICES ASSUME NEW i \in 1..Len(t) - 1 PROVE Follows(t[i], t[i + 1])
    BY DEF Aligned
  <2>2. i \in 1..Len(t) /\ i + 1 \in 1..Len(t)
    BY <1>1
  <2>3. CASE i < N
    <3>1. i \in 1..N - 1 /\ i + 1 \in 1..N
      BY <1>1, <2>2, <2>3
    <3>2. Follows(s[i], s[i + 1])
      BY <3>1 DEF Framed, Aligned, N
    <3> QED BY <1>1, <1>3, <3>1, <3>2
  <2>4. CASE i = N
    <3>1. s # <<>> /\ N \in 1..N
      BY <1>1, <2>4 DEF N
    <3>2. Ends(s[N]) /\ t[i] = s[N]
      BY <1>3, <2>4, <3>1 DEF Pipeline, N
    <3>3. 1 \in 1..L /\ t[i + 1] = F(1) /\ F(1).part = 1
      BY <1>1, <1>2, <2>4
    <3> QED BY <3>2, <3>3 DEF Follows
  <2>5. CASE i > N
    <3>1. i - N \in 1..L /\ (i + 1) - N \in 1..L /\ (i + 1) - N = (i - N) + 1 /\ i + 1 > N
      BY <1>1, <2>2, <2>5
    <3>2. t[i] = F(i - N) /\ t[i + 1] = F((i - N) + 1)
      <4>1. t[i] = F(i - N)
        BY <1>4, <2>2, <2>5, <1>1
      <4>2. t[i + 1] = F((i + 1) - N)
        BY <1>4, <2>2, <3>1, <1>1
      <4> QED BY <3>1, <4>1, <4>2
    <3>3. i - N \in {1, 2} /\ (i - N = 2 => L = 3)
      BY <1>1, <3>1
    <3>4. ~Ends(F(i - N))
      <4>1. F(i - N).part = i - N /\ F(i - N).n = n /\ F(i - N).f = f
        BY <1>2, <3>1
      <4>2. CASE i - N = 1
        BY <4>1, <4>2 DEF Ends
      <4>3. CASE i - N = 2
        BY <1>1, <3>3, <4>1, <4>3 DEF Ends
      <4> QED BY <3>3, <4>2, <4>3
    <3>5. F((i - N) + 1) = [F(i - N) EXCEPT !.part = F(i - N).part + 1]
      BY DEF F, FrameByte
    <3> QED BY <3>2, <3>4, <3>5 DEF Follows
  <2> QED BY <1>1, <2>3, <2>4, <2>5
<1>6. Ordered(t)
  <2>1. SUFFICES ASSUME NEW i \in 1..Len(t), NEW j \in 1..Len(t), i < j, t[i].msg = t[j].msg
                 PROVE  t[i].n = t[j].n /\ (t[i].f < t[j].f \/ (t[i].f = t[j].f /\ t[i].part < t[j].part))
    BY DEF Ordered
  <2>2. CASE j <= N
    <3>1. i \in 1..N /\ j \in 1..N /\ t[i] = s[i] /\ t[j] = s[j]
      BY <1>1, <1>3, <2>1, <2>2
    <3> QED BY <2>1, <3>1 DEF Framed, Ordered, N
  <2>3. CASE i <= N /\ j > N
    <3>1. i \in 1..N /\ t[i] = s[i] /\ j - N \in 1..L /\ t[j] = F(j - N)
      BY <1>1, <1>4, <2>1, <2>3
    <3>2. t[j].msg = m /\ t[j].f = f /\ t[j].n = n
      BY <1>2, <3>1
    <3>3. s[i].n = n /\ s[i].f < f
      BY <2>1, <3>1, <3>2 DEF SendsInTurn, N
    <3> QED BY <3>1, <3>2, <3>3
  <2>4. CASE i > N
    <3>1. i - N \in 1..L /\ t[i] = F(i - N) /\ j - N \in 1..L /\ t[j] = F(j - N) /\ i - N < j - N
      BY <1>1, <1>4, <2>1, <2>4
    <3> QED BY <1>2, <3>1
  <2> QED BY <1>1, <2>2, <2>3, <2>4
<1>7. \A p : OneKey(p, m) /\ p # m /\ ToCome(s, R, p) => Paid(s, p, 2)
  BY DEF SendsInTurn, ToCome, Due
<1>8. \A p, g : Paid(s, p, g) => \E k \in 1..N : Pays(t[k], p, g)
  BY <1>3 DEF Paid, N
<1>9. InTurn(t)
  <2>1. SUFFICES ASSUME NEW i \in 1..Len(t), NEW j \in 1..Len(t), i < j, t[i].part = 3, t[i].f = 1, t[j].part = 3,
                        OneKey(t[i].msg, t[j].msg), t[i].msg # t[j].msg
                 PROVE  \E k \in 1..Len(t) : i < k /\ k < j /\ Pays(t[k], t[i].msg, 2)
    BY DEF InTurn
  <2>2. CASE j <= N
    <3>1. i \in 1..N /\ j \in 1..N /\ t[i] = s[i] /\ t[j] = s[j]
      BY <1>1, <1>3, <2>1, <2>2
    <3>2. PICK k \in 1..N : i < k /\ k < j /\ Pays(s[k], s[i].msg, 2)
      BY <2>1, <3>1 DEF Framed, InTurn, N
    <3> QED BY <1>1, <1>3, <3>1, <3>2
  <2>3. CASE i <= N /\ j > N
    <3>1. i \in 1..N /\ t[i] = s[i] /\ j - N \in 1..L /\ t[j] = F(j - N)
      BY <1>1, <1>4, <2>1, <2>3
    <3>2. t[j].msg = m /\ s[i] \in DvByte
      BY <1>2, <1>3, <3>1
    <3>3. s[i].n = 3 /\ s[i].f < 2
      BY <2>1, <3>1, <3>2 DEF DvByte
    <3>4. Paid(s, s[i].msg, 2)
      BY <1>7, <2>1, <3>1, <3>2, <3>3 DEF Pipeline, N
    <3>5. PICK k \in 1..N : Pays(s[k], s[i].msg, 2)
      BY <3>4 DEF Paid, N
    <3>6. i < k
      <4>1. k = i => FALSE
        BY <2>1, <3>1, <3>5 DEF Pays
      <4>2. k < i => FALSE
        <5>1. ASSUME k < i PROVE FALSE
          <6>1. s[k].f < s[i].f \/ (s[k].f = s[i].f /\ s[k].part < s[i].part)
            BY <3>1, <3>5, <5>1 DEF Framed, Ordered, Pays, N
          <6> QED BY <2>1, <3>1, <3>5, <6>1 DEF Pays
        <5> QED BY <5>1
      <4> QED BY <1>1, <3>1, <4>1, <4>2
    <3> QED BY <1>1, <1>3, <2>3, <3>1, <3>5, <3>6
  <2>4. CASE i > N
    <3>1. i - N \in 1..L /\ t[i] = F(i - N) /\ j - N \in 1..L /\ t[j] = F(j - N)
      BY <1>1, <1>4, <2>1, <2>4
    <3> QED BY <1>2, <2>1, <3>1
  <2> QED BY <1>1, <2>2, <2>3, <2>4
<1>10. Begun(t, cm)
  <2>1. SUFFICES ASSUME NEW j \in 1..Len(t), t[j].part = 3, t[j].f = 2
                 PROVE  IsPartial(cm, t[j].msg) \/ \E i \in 1..Len(t) : i < j /\ Pays(t[i], t[j].msg, 1)
    BY DEF Begun
  <2>2. CASE j <= N
    <3>1. j \in 1..N /\ t[j] = s[j]
      BY <1>3, <1>1, <2>2
    <3>2. IsPartial(cm, s[j].msg) \/ \E i \in 1..N : i < j /\ Pays(s[i], s[j].msg, 1)
      BY <2>1, <3>1 DEF Framed, Begun, N
    <3> QED BY <1>1, <1>3, <3>1, <3>2
  <2>3. CASE j > N
    <3>1. j - N \in 1..L /\ t[j] = F(j - N)
      BY <1>1, <1>4, <2>1, <2>3
    <3>2. t[j].msg = m /\ f = 2
      BY <1>2, <2>1, <3>1
    <3>3. (\E k \in 1..N : Pays(t[k], m, 1)) \/ IsPartial(cm, m)
      BY <1>8, <3>2 DEF SendsInTurn
    <3> QED BY <1>1, <2>3, <3>2, <3>3
  <2> QED BY <1>1, <2>2, <2>3
<1>11. GoesOn(t, cm)
  <2>1. SUFFICES ASSUME NEW j \in 1..Len(t)
                 PROVE  /\ t[j].msg.channel \in DOMAIN cm
                        /\ PartialFor(cm, t[j].msg) # <<>> =>
                             IF IsPartial(cm, t[j].msg) THEN t[j].f = 2
                             ELSE t[j].part = 3 => \E k \in 1..Len(t) : k < j /\ Pays(t[k], PartialFor(cm, t[j].msg)[1].msg, 2)
    BY DEF GoesOn
  <2>2. CASE j <= N
    <3>1. j \in 1..N /\ t[j] = s[j]
      BY <1>3, <1>1, <2>2
    <3>2. /\ s[j].msg.channel \in DOMAIN cm
          /\ PartialFor(cm, s[j].msg) # <<>> =>
               IF IsPartial(cm, s[j].msg) THEN s[j].f = 2
               ELSE s[j].part = 3 => \E k \in 1..N : k < j /\ Pays(s[k], PartialFor(cm, s[j].msg)[1].msg, 2)
      BY <3>1 DEF Framed, GoesOn, N
    <3>3. \A k \in 1..N : k \in 1..Len(t) /\ t[k] = s[k]
      BY <1>1, <1>3
    <3> QED BY <3>1, <3>2, <3>3
  <2>3. CASE j > N
    <3>1. j - N \in 1..L /\ t[j] = F(j - N)
      BY <1>1, <1>4, <2>1, <2>3
    <3>2. t[j].msg = m /\ t[j].f = f /\ m.channel \in DOMAIN cm
      BY <1>2, <3>1 DEF SendsInTurn
    <3>3. IsPartial(cm, m) => f = 2
      BY PartialMsgsAre DEF SendsInTurn, Framed
    <3>4. ASSUME PartialFor(cm, m) # <<>>, ~IsPartial(cm, m)
          PROVE  \E k \in 1..Len(t) : k < j /\ Pays(t[k], PartialFor(cm, m)[1].msg, 2)
      <4> DEFINE p == PartialFor(cm, m)[1].msg
      <4>1. p.channel = m.channel /\ p.stream = m.stream /\ p # m /\ m.stream \in BOOLEAN
        BY <3>2, <3>4, SMTT(30) DEF Framed, Partials, PartialFor, DvMessage, IsPartial
      <4>2. p \in PartialMsgs(cm)
        <5>1. <<m.channel, m.stream>> \in (DOMAIN cm) \X BOOLEAN
          BY <3>2, <4>1
        <5> QED BY <5>1, <3>4 DEF PartialMsgs, PartialFor
      <4>3. ToCome(s, R, p)
        BY <4>2 DEF Pipeline
      <4>4. PICK k \in 1..N : Pays(t[k], p, 2)
        BY <1>7, <1>8, <4>1, <4>3 DEF OneKey
      <4> QED BY <1>1, <2>3, <4>4
    <3> QED BY <3>2, <3>3, <3>4
  <2> QED BY <1>1, <2>2, <2>3
<1>12. Starts(t, cs)
  <2>1. CASE s # <<>>
    <3>1. 1 \in 1..N /\ t[1] = s[1]
      BY <1>1, <1>3, <2>1 DEF N
    <3> QED BY <2>1, <3>1 DEF Framed, Starts
  <2>2. CASE s = <<>>
    <3>1. N = 0 /\ 1 \in 1..L /\ N + 1 = 1
      BY <1>1, <2>2 DEF N
    <3>2. t[1].part = 1
      BY <1>2, <3>1
    <3> QED BY <2>2, <3>2 DEF Starts
  <2> QED BY <2>1, <2>2
<1> QED BY <1>5, <1>6, <1>9, <1>10, <1>11, <1>12 DEF Framed

-----------------------------------------------------------------------------
(* What is yet to come.                                                        *)

\* What a frame adds to the stream.
LEMMA SentItems ==
    ASSUME NEW s \in Seq(DvByte), NEW t \in Seq(DvByte), NEW m \in DvMessage, NEW n \in {1, 3}, NEW f \in 0..2, f < n,
           FrameSent(s, t, m, f, n)
    PROVE  /\ t # <<>> /\ Ends(t[Len(t)]) /\ MsgsOf(t) = MsgsOf(s) \cup {m}
           /\ \A p, g : Paid(s, p, g) => Paid(t, p, g)
           /\ FrameLen(f, n) = 3 => Paid(t, m, f)
           /\ \A j \in 1..Len(t) : (j \in 1..Len(s) /\ t[j] = s[j]) \/ (t[j].msg = m /\ t[j].f = f /\ t[j].n = n)
<1> DEFINE L == FrameLen(f, n)
           N == Len(s)
<1>1. N \in Nat /\ L \in {2, 3} /\ Len(t) = N + L /\ (L = 2 => f = 0 /\ n = 3) /\ (L = 3 => f # 0 \/ n = 1)
  BY DEF FrameSent, FrameLen
<1>2. \A k \in 1..L : t[N + k].msg = m /\ t[N + k].f = f /\ t[N + k].n = n /\ t[N + k].part = k
  <2>1. \A k \in 1..L : t[N + k] = FrameByte(m, f, n, k)
    BY DEF FrameSent
  <2>2. \A k : FrameByte(m, f, n, k).msg = m /\ FrameByte(m, f, n, k).f = f /\ FrameByte(m, f, n, k).n = n
              /\ FrameByte(m, f, n, k).part = k
    BY DEF FrameByte
  <2> QED BY <2>1, <2>2
<1>3. \A i \in 1..N : t[i] = s[i]
  BY DEF FrameSent
<1>4. FrameLen(f, n) = L
  OBVIOUS
<1> HIDE DEF L, N
<1>5. t # <<>> /\ L \in 1..L /\ N + L = Len(t) /\ Len(t) \in 1..Len(t)
  BY <1>1
<1>6. Ends(t[Len(t)])
  <2>1. t[Len(t)].part = L /\ t[Len(t)].f = f /\ t[Len(t)].n = n
    BY <1>2, <1>5
  <2> QED BY <1>1, <2>1 DEF Ends
<1>7. \A j \in 1..Len(t) : (j \in 1..N /\ t[j] = s[j]) \/ (t[j].msg = m /\ t[j].f = f /\ t[j].n = n)
  <2>1. ASSUME NEW j \in 1..Len(t), j > N  PROVE t[j].msg = m /\ t[j].f = f /\ t[j].n = n
    <3>1. j - N \in 1..L /\ N + (j - N) = j
      BY <1>1, <2>1
    <3> QED BY <1>2, <3>1
  <2>2. ASSUME NEW j \in 1..Len(t), j <= N  PROVE j \in 1..N /\ t[j] = s[j]
    BY <1>1, <1>3, <2>2
  <2> QED BY <1>1, <2>1, <2>2
<1>8. \A j \in 1..N : j \in 1..Len(t)
  BY <1>1
<1>9. MsgsOf(t) = MsgsOf(s) \cup {m}
  <2>1. MsgsOf(t) \subseteq MsgsOf(s) \cup {m}
    BY <1>7 DEF MsgsOf, N
  <2>2. MsgsOf(s) \subseteq MsgsOf(t)
    BY <1>3, <1>8 DEF MsgsOf, N
  <2>3. m \in MsgsOf(t)
    <3>1. t[Len(t)].msg = m
      BY <1>2, <1>5
    <3> QED BY <1>5, <3>1 DEF MsgsOf
  <2> QED BY <2>1, <2>2, <2>3
<1>10. \A p, g : Paid(s, p, g) => Paid(t, p, g)
  BY <1>3, <1>8 DEF Paid, N
<1>11. L = 3 => Paid(t, m, f)
  <2>1. ASSUME L = 3  PROVE Pays(t[Len(t)], m, f)
    BY <1>2, <1>5, <2>1 DEF Pays
  <2> QED BY <1>5, <2>1 DEF Paid
<1> QED BY <1>4, <1>5, <1>6, <1>7, <1>9, <1>10, <1>11 DEF N

Piece(m, f) == [msg |-> m, f |-> f, n |-> 3]
PiecesOf(m, n) == IF n = 3 THEN {Piece(m, 1), Piece(m, 2)} ELSE {}

\* A message's first frame is sent, its others to follow.
LEMMA PipelineBegins ==
    ASSUME NEW s \in Seq(DvByte), NEW t \in Seq(DvByte), NEW m \in DvMessage, NEW n \in {1, 3},
           FrameSent(s, t, m, 0, n), NEW cm, NEW R \in SUBSET DvPiece, Pipeline(s, cm, R),
           m \notin MsgsOf(s), m \notin PartialMsgs(cm), \A r \in R : ~OneKey(r.msg, m)
    PROVE  Pipeline(t, cm, R \cup PiecesOf(m, n))
<1> DEFINE R2 == R \cup PiecesOf(m, n)
<1>1. /\ t # <<>> /\ Ends(t[Len(t)])
      /\ \A p, g : Paid(s, p, g) => Paid(t, p, g)
      /\ \A j \in 1..Len(t) : (j \in 1..Len(s) /\ t[j] = s[j]) \/ (t[j].msg = m /\ t[j].f = 0 /\ t[j].n = n)
  BY SentItems
<1>2. \A r \in R2 : r \in R \/ (r.msg = m /\ n = 3 /\ r.f \in {1, 2})
  BY DEF PiecesOf, Piece
<1>3. n = 3 => Due(R2, m, 1) /\ Due(R2, m, 2)
  <2>1. ASSUME n = 3  PROVE Piece(m, 1) \in R2 /\ Piece(m, 2) \in R2
    BY <2>1 DEF PiecesOf
  <2>2. \A g : Piece(m, g).msg = m /\ Piece(m, g).f = g
    BY DEF Piece
  <2> QED BY <2>1, <2>2 DEF Due
<1>4. \A p, g : Due(R, p, g) => Due(R2, p, g)
  BY DEF Due
<1>5. \A p : ToCome(s, R, p) => ToCome(t, R2, p)
  BY <1>1, <1>4 DEF ToCome
<1>6. \A r \in R : r.msg # m
  BY DEF OneKey
<1> HIDE DEF R2
<1>7. \A i \in 1..Len(t) : t[i].n = 3 /\ t[i].f < 2 => ToCome(t, R2, t[i].msg)
  <2>1. SUFFICES ASSUME NEW i \in 1..Len(t), t[i].n = 3, t[i].f < 2  PROVE ToCome(t, R2, t[i].msg)
    OBVIOUS
  <2>2. CASE i \in 1..Len(s) /\ t[i] = s[i]
    BY <1>5, <2>1, <2>2 DEF Pipeline
  <2>3. CASE t[i].msg = m /\ t[i].n = n
    BY <1>3, <2>1, <2>3 DEF ToCome
  <2> QED BY <1>1, <2>2, <2>3
<1>8. \A p \in PartialMsgs(cm) : ToCome(t, R2, p)
  BY <1>5 DEF Pipeline
<1>9. \A r, q \in R2 : OneKey(r.msg, q.msg) => r.msg = q.msg
  BY <1>2 DEF Pipeline, OneKey
<1>10. ASSUME NEW r \in R2
       PROVE  /\ r.f = 1 => Due(R2, r.msg, 2)
              /\ r.f = 2 => Due(R2, r.msg, 1) \/ Paid(t, r.msg, 1) \/ IsPartial(cm, r.msg)
              /\ \A j \in 1..Len(t) : t[j].msg = r.msg => t[j].n = 3 /\ t[j].f < r.f
              /\ r.msg \in PartialMsgs(cm) => r.f = 2
  <2>1. CASE r \in R
    <3>1. /\ r.f = 1 => Due(R, r.msg, 2)
          /\ r.f = 2 => Due(R, r.msg, 1) \/ Paid(s, r.msg, 1) \/ IsPartial(cm, r.msg)
          /\ \A j \in 1..Len(s) : s[j].msg = r.msg => s[j].n = 3 /\ s[j].f < r.f
          /\ r.msg \in PartialMsgs(cm) => r.f = 2
      BY <2>1 DEF Pipeline
    <3>2. \A j \in 1..Len(t) : t[j].msg = r.msg => t[j].n = 3 /\ t[j].f < r.f
      BY <1>1, <1>6, <2>1, <3>1
    <3> QED BY <1>1, <1>4, <3>1, <3>2
  <2>2. CASE r.msg = m /\ n = 3 /\ r.f \in {1, 2}
    <3>1. \A j \in 1..Len(t) : t[j].msg = m => t[j].n = 3 /\ t[j].f < r.f
      <4>1. SUFFICES ASSUME NEW j \in 1..Len(t), t[j].msg = m  PROVE t[j].n = 3 /\ t[j].f < r.f
        OBVIOUS
      <4>2. ~(j \in 1..Len(s) /\ t[j] = s[j])
        BY <4>1 DEF MsgsOf
      <4>3. t[j].f = 0 /\ t[j].n = n
        BY <1>1, <4>2
      <4> QED BY <2>2, <4>3
    <3> QED BY <1>3, <2>2, <3>1
  <2> QED BY <1>2, <2>1, <2>2
<1> QED BY <1>1, <1>7, <1>8, <1>9, <1>10 DEF Pipeline, R2

\* The next frame of a message is sent.
LEMMA PipelineGoesOn ==
    ASSUME NEW s \in Seq(DvByte), NEW t \in Seq(DvByte), NEW r \in DvPiece,
           FrameSent(s, t, r.msg, r.f, 3), NEW cm, NEW R \in SUBSET DvPiece, Pipeline(s, cm, R),
           r \in R, r.f = 2 => ~Due(R, r.msg, 1)
    PROVE  Pipeline(t, cm, R \ {r})
<1> DEFINE R2 == R \ {r}
           m == r.msg
           f == r.f
<1>1. m \in DvMessage /\ f \in {1, 2} /\ f \in 0..2 /\ f < 3 /\ FrameLen(f, 3) = 3
  BY DEF DvPiece, FrameLen
<1>2. /\ t # <<>> /\ Ends(t[Len(t)]) /\ Paid(t, m, f)
      /\ \A p, g : Paid(s, p, g) => Paid(t, p, g)
      /\ \A j \in 1..Len(t) : (j \in 1..Len(s) /\ t[j] = s[j]) \/ (t[j].msg = m /\ t[j].f = f /\ t[j].n = 3)
  BY <1>1, SentItems
<1>3. \A p, g : Due(R, p, g) => Due(R2, p, g) \/ (p = m /\ g = f)
  BY DEF Due
<1>4. \A q \in R2 : q \in R /\ (q.msg = m => f = 1 /\ q.f = 2)
  <2>1. SUFFICES ASSUME NEW q \in R2, q.msg = m  PROVE f = 1 /\ q.f = 2
    OBVIOUS
  <2>2. q.f \in {1, 2} /\ (q.f = f => q = r)
    BY <2>1 DEF DvPiece
  <2>3. f = 2 => q.f # 1
    BY <2>1 DEF Due
  <2> QED BY <1>1, <2>1, <2>2, <2>3
<1>5. \A p : ToCome(s, R, p) => ToCome(t, R2, p)
  BY <1>2, <1>3 DEF ToCome
<1>6. r \in R
  OBVIOUS
<1>7. f = 1 => Due(R2, m, 2)
  BY <1>3, <1>6 DEF Pipeline
<1> HIDE DEF R2, m, f
<1>8. \A i \in 1..Len(t) : t[i].n = 3 /\ t[i].f < 2 => ToCome(t, R2, t[i].msg)
  <2>1. SUFFICES ASSUME NEW i \in 1..Len(t), t[i].n = 3, t[i].f < 2  PROVE ToCome(t, R2, t[i].msg)
    OBVIOUS
  <2>2. CASE i \in 1..Len(s) /\ t[i] = s[i]
    BY <1>5, <2>1, <2>2 DEF Pipeline
  <2>3. CASE t[i].msg = m /\ t[i].f = f
    BY <1>1, <1>7, <2>1, <2>3 DEF ToCome
  <2> QED BY <1>2, <2>2, <2>3
<1>9. \A p \in PartialMsgs(cm) : ToCome(t, R2, p)
  BY <1>5 DEF Pipeline
<1>10. \A q, p \in R2 : OneKey(q.msg, p.msg) => q.msg = p.msg
  BY <1>4 DEF Pipeline
<1>11. ASSUME NEW q \in R2
       PROVE  /\ q.f = 1 => Due(R2, q.msg, 2)
              /\ q.f = 2 => Due(R2, q.msg, 1) \/ Paid(t, q.msg, 1) \/ IsPartial(cm, q.msg)
              /\ \A j \in 1..Len(t) : t[j].msg = q.msg => t[j].n = 3 /\ t[j].f < q.f
              /\ q.msg \in PartialMsgs(cm) => q.f = 2
  <2>1. /\ q.f = 1 => Due(R, q.msg, 2)
        /\ q.f = 2 => Due(R, q.msg, 1) \/ Paid(s, q.msg, 1) \/ IsPartial(cm, q.msg)
        /\ \A j \in 1..Len(s) : s[j].msg = q.msg => s[j].n = 3 /\ s[j].f < q.f
        /\ q.msg \in PartialMsgs(cm) => q.f = 2
    BY <1>4 DEF Pipeline
  <2>2. q.f = 1 => Due(R2, q.msg, 2)
    BY <1>3, <1>4, <2>1
  <2>3. q.f = 2 => Due(R2, q.msg, 1) \/ Paid(t, q.msg, 1) \/ IsPartial(cm, q.msg)
    BY <1>2, <1>3, <2>1
  <2>4. ASSUME NEW j \in 1..Len(t), t[j].msg = q.msg  PROVE t[j].n = 3 /\ t[j].f < q.f
    <3>1. CASE j \in 1..Len(s) /\ t[j] = s[j]
      BY <2>1, <2>4, <3>1
    <3>2. CASE t[j].msg = m /\ t[j].f = f /\ t[j].n = 3
      <4>1. q.msg = m
        BY <2>4, <3>2
      <4>2. f = 1 /\ q.f = 2
        BY <1>4, <4>1
      <4> QED BY <3>2, <4>2
    <3> QED BY <1>2, <3>1, <3>2
  <2> QED BY <2>1, <2>2, <2>3, <2>4
<1> QED BY <1>2, <1>8, <1>9, <1>10, <1>11 DEF Pipeline, R2

-----------------------------------------------------------------------------
(* Queues and who holds which message.                                         *)

\* RemoveAt takes one item out.
LEMMA RemovedAt ==
    ASSUME NEW X, NEW q \in Seq(X), NEW i \in 1..Len(q), NEW r, r = D!RemoveAt(q, i)
    PROVE  /\ r \in Seq(X) /\ Len(r) = Len(q) - 1
           /\ \A k \in 1..Len(r) : r[k] = q[IF k < i THEN k ELSE k + 1]
<1>1. Len(q) \in Nat /\ i \in Nat /\ i >= 1 /\ i <= Len(q)
  OBVIOUS
<1> DEFINE a == SubSeq(q, 1, i - 1)
           b == SubSeq(q, i + 1, Len(q))
<1>2. a \in Seq(X) /\ Len(a) = i - 1 /\ \A k \in 1..(i - 1) : a[k] = q[k]
  BY <1>1
<1>3. b \in Seq(X) /\ Len(b) = Len(q) - i /\ \A k \in 1..(Len(q) - i) : b[k] = q[i + k]
  <2>1. CASE i = Len(q)
    <3>1. b = <<>>
      BY <1>1, <2>1
    <3> QED BY <1>1, <2>1, <3>1
  <2>2. CASE i < Len(q)
    <3>1. b \in Seq(X) /\ Len(b) = Len(q) - (i + 1) + 1 /\ \A k \in 1..(Len(q) - (i + 1) + 1) : b[k] = q[(i + 1) + k - 1]
      BY <1>1, <2>2
    <3>2. Len(q) - (i + 1) + 1 = Len(q) - i /\ \A k \in Nat : (i + 1) + k - 1 = i + k
      BY <1>1
    <3> HIDE DEF b
    <3> QED BY <3>1, <3>2
  <2> QED BY <1>1, <2>1, <2>2
<1>4. r = a \o b
  BY DEF D!RemoveAt
<1> HIDE DEF a, b
<1>5. r \in Seq(X) /\ Len(r) = Len(a) + Len(b) /\ \A k \in 1..Len(r) : r[k] = IF k <= Len(a) THEN a[k] ELSE b[k - Len(a)]
  <2>1. (a \o b) \in Seq(X) /\ Len(a \o b) = Len(a) + Len(b)
    BY <1>2, <1>3, ConcatProperties
  <2>2. \A k \in 1..(Len(a) + Len(b)) : (a \o b)[k] = IF k <= Len(a) THEN a[k] ELSE b[k - Len(a)]
    BY <1>2, <1>3, ConcatProperties
  <2> QED BY <1>4, <2>1, <2>2, Zenon
<1>6. ASSUME NEW k \in 1..Len(r)  PROVE r[k] = q[IF k < i THEN k ELSE k + 1]
  <2>1. CASE k < i
    BY <1>1, <1>2, <1>5, <1>6, <2>1
  <2>2. CASE ~(k < i)
    <3>1. k - (i - 1) \in 1..(Len(q) - i) /\ i + (k - (i - 1)) = k + 1
      BY <1>1, <1>2, <1>3, <1>5, <1>6, <2>2
    <3>2. r[k] = b[k - (i - 1)]
      BY <1>1, <1>2, <1>5, <1>6, <2>2
    <3> QED BY <1>3, <2>2, <3>1, <3>2
  <2> QED BY <2>1, <2>2
<1> QED BY <1>1, <1>2, <1>3, <1>5, <1>6

\* What is left of a queue of distinct items when one is removed.
LEMMA RemovedItems ==
    ASSUME NEW X, NEW q \in Seq(X), NEW i \in 1..Len(q), NEW r, r = D!RemoveAt(q, i), Distinct(q)
    PROVE  ItemsOf(r) = ItemsOf(q) \ {q[i]} /\ Distinct(r)
<1>1. Len(r) = Len(q) - 1 /\ Len(q) \in Nat /\ \A k \in 1..Len(r) : r[k] = q[IF k < i THEN k ELSE k + 1]
  BY RemovedAt
<1> DEFINE g(k) == IF k < i THEN k ELSE k + 1
<1>2. \A k \in 1..Len(r) : g(k) \in 1..Len(q) /\ g(k) # i /\ r[k] = q[g(k)]
  BY <1>1
<1>3. \A k, l \in 1..Len(r) : g(k) = g(l) => k = l
  OBVIOUS
<1>4. \A j \in 1..Len(q) : j # i => \E k \in 1..Len(r) : r[k] = q[j]
  <2>1. SUFFICES ASSUME NEW j \in 1..Len(q), j # i  PROVE \E k \in 1..Len(r) : r[k] = q[j]
    OBVIOUS
  <2>2. CASE j < i
    <3>1. j \in 1..Len(r) /\ g(j) = j
      BY <1>1, <2>1, <2>2
    <3> QED BY <1>2, <3>1
  <2>3. CASE j > i
    <3>1. j - 1 \in 1..Len(r) /\ g(j - 1) = j
      BY <1>1, <2>1, <2>3
    <3> HIDE DEF g
    <3>2. r[j - 1] = q[j]
      BY <1>2, <3>1
    <3> QED BY <3>1, <3>2
  <2> QED BY <1>1, <2>1, <2>2, <2>3
<1> HIDE DEF g
<1>5. \A j \in 1..Len(q) : q[j] = q[i] => j = i
  BY DEF Distinct
<1>6. ItemsOf(r) \subseteq ItemsOf(q) \ {q[i]}
  BY <1>2, <1>5 DEF ItemsOf
<1>7. ItemsOf(q) \ {q[i]} \subseteq ItemsOf(r)
  BY <1>4 DEF ItemsOf
<1>8. Distinct(r)
  BY <1>2, <1>3 DEF Distinct
<1> QED BY <1>6, <1>7, <1>8

\* Frames that are yet to be sent stay in order when one is removed.
LEMMA RemovedOrder ==
    ASSUME NEW q \in Seq(DvPiece), NEW i \in 1..Len(q), NEW r, r = D!RemoveAt(q, i), InOrder(q)
    PROVE  InOrder(r) /\ MsgsOf(r) \subseteq MsgsOf(q)
<1>1. Len(r) = Len(q) - 1 /\ Len(q) \in Nat /\ \A k \in 1..Len(r) : r[k] = q[IF k < i THEN k ELSE k + 1]
  BY RemovedAt
<1> DEFINE g(k) == IF k < i THEN k ELSE k + 1
<1>2. \A k \in 1..Len(r) : g(k) \in 1..Len(q) /\ r[k] = q[g(k)]
  BY <1>1
<1>3. \A k, l \in 1..Len(r) : k < l => g(k) < g(l)
  OBVIOUS
<1> HIDE DEF g
<1>4. InOrder(r)
  BY <1>2, <1>3 DEF InOrder
<1> QED BY <1>2, <1>4 DEF MsgsOf

\* Frames in order are distinct.
LEMMA OrderDistinct ==
    ASSUME NEW q \in Seq(DvPiece), InOrder(q)
    PROVE  Distinct(q)
<1> SUFFICES ASSUME NEW i \in 1..Len(q), NEW j \in 1..Len(q), q[i] = q[j], i < j PROVE FALSE
  <2>1. ASSUME NEW i \in 1..Len(q), NEW j \in 1..Len(q), q[i] = q[j]  PROVE i = j
    <3>1. i < j \/ j < i \/ i = j
      OBVIOUS
    <3> QED BY <2>1, <3>1
  <2> QED BY <2>1 DEF Distinct
<1>1. q[i].f < q[j].f /\ q[i] \in DvPiece
  BY DEF InOrder
<1> QED BY <1>1 DEF DvPiece

\* A sequence, with what came after it.
Joined(a, b) == a \o b

\* The later frames of a message join those that are yet to be sent.
LEMMA RestAdded ==
    ASSUME NEW q \in Seq(DvPiece), NEW m \in DvMessage, NEW n \in {1, 3}, m \notin MsgsOf(q), InOrder(q),
           NEW r, r = Joined(q, D!RestOf(m, n))
    PROVE  /\ r \in Seq(DvPiece) /\ InOrder(r) /\ ItemsOf(r) = ItemsOf(q) \cup PiecesOf(m, n)
           /\ MsgsOf(q) \subseteq MsgsOf(r) /\ MsgsOf(r) \subseteq MsgsOf(q) \cup {m}
<1> DEFINE N == Len(q)
           L == n - 1
           b == D!RestOf(m, n)
<1>1. N \in Nat /\ L \in {0, 2} /\ (L = 2 <=> n = 3) /\ b = [i \in 1..L |-> [msg |-> m, f |-> i, n |-> n]]
  BY DEF D!RestOf
<1>2. \A i \in 1..L : [msg |-> m, f |-> i, n |-> n] = Piece(m, i) /\ Piece(m, i) \in DvPiece
  BY <1>1 DEF Piece, DvPiece
<1> HIDE DEF L
<1>3. b \in Seq(DvPiece) /\ Len(b) = L /\ \A i \in 1..L : b[i] = Piece(m, i)
  <2> HIDE DEF b
  <2>1. b \in [1..L -> DvPiece] /\ L \in Nat
    BY <1>1, <1>2
  <2> QED BY <1>1, <1>2, <2>1
<1> HIDE DEF b
<1>4. r \in Seq(DvPiece) /\ Len(r) = N + L /\ (\A i \in 1..N : r[i] = q[i]) /\ \A k \in 1..L : r[N + k] = b[k]
  <2> DEFINE X == DvPiece
  <2> HIDE DEF X
  <2>1. q \in Seq(X) /\ b \in Seq(X) /\ Len(b) = L /\ r = Joined(q, b)
    BY <1>3 DEF X, b
  <2>2. (q \o b) \in Seq(X) /\ Len(q \o b) = N + L
    <3>1. q \o b \in Seq(X) /\ Len(q \o b) = Len(q) + Len(b)
      BY <2>1, ConcatProperties
    <3> QED BY <2>1, <3>1
  <2>3. \A i \in 1..N : (q \o b)[i] = q[i]
    BY <2>1
  <2>4. \A k \in 1..L : (q \o b)[N + k] = b[k]
    BY <2>1
  <2>5. r = q \o b
    BY <2>1 DEF Joined
  <2> QED BY <2>2, <2>3, <2>4, <2>5, Zenon DEF X
<1>5. N = Len(q)
  OBVIOUS
<1> HIDE DEF N
<1>6. \A j \in 1..Len(r) : (j \in 1..N /\ r[j] = q[j]) \/ (j > N /\ j - N \in 1..L /\ r[j] = Piece(m, j - N))
  <2>1. ASSUME NEW j \in 1..Len(r), j > N  PROVE j - N \in 1..L /\ r[j] = Piece(m, j - N)
    <3>1. j - N \in 1..L /\ N + (j - N) = j
      BY <1>1, <1>4, <2>1
    <3> QED BY <1>3, <1>4, <3>1
  <2>2. ASSUME NEW j \in 1..Len(r), j <= N  PROVE j \in 1..N /\ r[j] = q[j]
    BY <1>1, <1>4, <2>2
  <2> QED BY <1>1, <1>4, <2>1, <2>2
<1>7. \A k : Piece(m, k).msg = m /\ Piece(m, k).f = k
  BY DEF Piece
<1>8. \A j \in 1..N : q[j].msg # m
  BY <1>5 DEF MsgsOf
<1>9. InOrder(r)
  <2>1. SUFFICES ASSUME NEW i \in 1..Len(r), NEW j \in 1..Len(r), i < j, r[i].msg = r[j].msg
                 PROVE  r[i].f < r[j].f
    BY DEF InOrder
  <2>2. CASE j \in 1..N
    <3>1. i \in 1..N /\ r[i] = q[i] /\ r[j] = q[j]
      BY <1>1, <1>4, <2>1, <2>2
    <3> QED BY <1>5, <2>1, <2>2, <3>1 DEF InOrder
  <2>3. CASE j > N
    <3>1. r[j] = Piece(m, j - N)
      BY <1>1, <1>6, <2>3
    <3>2. i > N /\ r[i] = Piece(m, i - N)
      BY <1>1, <1>6, <1>7, <1>8, <2>1, <3>1
    <3>3. i - N < j - N
      BY <1>1, <2>1
    <3> QED BY <1>7, <3>1, <3>2, <3>3
  <2> QED BY <1>1, <1>4, <2>2, <2>3
<1>10. \A j \in 1..N : j \in 1..Len(r) /\ q[j] = r[j]
  BY <1>1, <1>4
<1>11. ItemsOf(r) = ItemsOf(q) \cup {Piece(m, k) : k \in 1..L}
  <2>1. \A k \in 1..L : N + k \in 1..Len(r) /\ r[N + k] = Piece(m, k)
    BY <1>1, <1>3, <1>4
  <2>2. ItemsOf(r) \subseteq ItemsOf(q) \cup {Piece(m, k) : k \in 1..L}
    BY <1>5, <1>6 DEF ItemsOf
  <2>3. ItemsOf(q) \subseteq ItemsOf(r)
    BY <1>5, <1>10 DEF ItemsOf
  <2>4. {Piece(m, k) : k \in 1..L} \subseteq ItemsOf(r)
    BY <2>1 DEF ItemsOf
  <2> QED BY <2>2, <2>3, <2>4
<1>12. {Piece(m, k) : k \in 1..L} = PiecesOf(m, n)
  <2>1. CASE n = 3
    <3>1. 1..L = {1, 2}
      BY <1>1, <2>1
    <3> QED BY <2>1, <3>1 DEF PiecesOf
  <2>2. CASE n = 1
    <3>1. 1..L = {}
      BY <1>1, <2>2
    <3> QED BY <2>2, <3>1 DEF PiecesOf
  <2> QED BY <2>1, <2>2
<1>13. MsgsOf(q) \subseteq MsgsOf(r)
  BY <1>5, <1>10 DEF MsgsOf
<1>14. MsgsOf(r) \subseteq MsgsOf(q) \cup {m}
  BY <1>5, <1>6, <1>7 DEF MsgsOf
<1> QED BY <1>4, <1>9, <1>11, <1>12, <1>13, <1>14

\* Where messages are, after a step.
LEMMA ApartShrinks ==
    ASSUME NEW S, NEW P, NEW Q, NEW R, NEW O, NEW count \in Nat, NEW chans, Apart(S, P, Q, R, O, count, chans),
           NEW S2 \in SUBSET S, NEW P2 \in SUBSET P, NEW Q2 \in SUBSET Q, NEW R2 \in SUBSET R, NEW O2 \in SUBSET O,
           NEW c2 \in Nat, count <= c2, NEW chans2, chans \subseteq chans2
    PROVE  Apart(S2, P2, Q2, R2, O2, c2, chans2)
<1>1. \A x \in 1..count : x \in 1..c2
  OBVIOUS
<1> QED BY <1>1 DEF Apart

\* A reply that was owed is sent.
LEMMA ApartSends ==
    ASSUME NEW S, NEW P, NEW Q, NEW R, NEW O, NEW count, NEW chans, Apart(S, P, Q, R, O, count, chans),
           NEW m \in O, NEW R2, R2 \subseteq R \cup {m}
    PROVE  Apart(S \cup {m}, P, Q, R2, O \ {m}, count, chans)
  BY DEF Apart

\* The next message is none of those there are.
LEMMA ApartFresh ==
    ASSUME NEW S, NEW P, NEW Q, NEW R, NEW O, NEW count \in Nat, NEW chans, Apart(S, P, Q, R, O, count, chans),
           NEW m, m.id = count + 1
    PROVE  m \notin S /\ m \notin P /\ m \notin Q /\ m \notin R /\ m \notin O
  BY DEF Apart

\* A new message is sent.
LEMMA ApartNewSent ==
    ASSUME NEW S, NEW P, NEW Q, NEW R, NEW O, NEW count \in Nat, NEW chans, Apart(S, P, Q, R, O, count, chans),
           NEW m \in DvMessage, NEW c2, c2 = count + 1, m.id = c2, m.channel \in chans, NEW R2, R2 \subseteq R \cup {m}
    PROVE  Apart(S \cup {m}, P, Q, R2, O, c2, chans)
<1>1. \A o \in S \cup P \cup Q \cup R \cup O : o.id \in 1..count /\ o.id # m.id /\ o # m
  BY DEF Apart
<1>2. (\A x \in 1..count : x \in 1..c2) /\ c2 \in 1..c2
  OBVIOUS
<1>3. \A o \in S \cup P \cup Q \cup R \cup O \cup {m} : o \in DvMessage /\ o.id \in 1..c2 /\ o.channel \in chans
  BY <1>1, <1>2 DEF Apart
<1>4. \A p, o \in S \cup P \cup Q \cup R \cup O \cup {m} : p.id = o.id => p = o
  BY <1>1 DEF Apart
<1>5. /\ O \cap (S \cup P \cup Q \cup R) = {} /\ Q \cap (S \cup P \cup R) = {}
  BY DEF Apart
<1>6. S \cup {m} \cup P \cup Q \cup R2 \cup O \subseteq S \cup P \cup Q \cup R \cup O \cup {m}
  OBVIOUS
<1>7. /\ O \cap (S \cup {m} \cup P \cup Q \cup R2) = {} /\ Q \cap (S \cup {m} \cup P \cup R2) = {}
  BY <1>1, <1>5
<1>8. \A o \in S \cup {m} \cup P \cup Q \cup R2 \cup O : o \in DvMessage /\ o.id \in 1..c2 /\ o.channel \in chans
  BY <1>3, <1>6
<1>9. \A p, o \in S \cup {m} \cup P \cup Q \cup R2 \cup O : p.id = o.id => p = o
  BY <1>4, <1>6
<1> QED BY <1>7, <1>8, <1>9 DEF Apart

\* A new message is owed.
LEMMA ApartNewOwed ==
    ASSUME NEW S, NEW P, NEW Q, NEW R, NEW O, NEW count \in Nat, NEW chans, Apart(S, P, Q, R, O, count, chans),
           NEW m \in DvMessage, NEW c2, c2 = count + 1, m.id = c2, m.channel \in chans
    PROVE  Apart(S, P, Q, R, O \cup {m}, c2, chans)
<1>1. \A o \in S \cup P \cup Q \cup R \cup O : o.id \in 1..count /\ o.id # m.id /\ o # m
  BY DEF Apart
<1>2. (\A x \in 1..count : x \in 1..c2) /\ c2 \in 1..c2
  OBVIOUS
<1>3. \A o \in S \cup P \cup Q \cup R \cup (O \cup {m}) : o \in DvMessage /\ o.id \in 1..c2 /\ o.channel \in chans
  BY <1>1, <1>2 DEF Apart
<1>4. \A p, o \in S \cup P \cup Q \cup R \cup (O \cup {m}) : p.id = o.id => p = o
  BY <1>1 DEF Apart
<1>5. /\ (O \cup {m}) \cap (S \cup P \cup Q \cup R) = {} /\ Q \cap (S \cup P \cup R) = {}
  BY <1>1 DEF Apart
<1> QED BY <1>3, <1>4, <1>5 DEF Apart

-----------------------------------------------------------------------------
(* The device sends.                                                           *)

\* What the invariant says of each field.
LEMMA DvFields ==
    ASSUME DvGood
    PROVE  /\ svc.readBuffer \in Seq(DvByte) /\ wire \in Seq(DvByte) /\ DvStream \in Seq(DvByte)
           /\ DvFragmenters(svc.channelMessages) /\ calls \in [Caller -> DvCall]
           /\ svc.connection \in Nat /\ svc.dialled \in Nat /\ svc.lastChannelCode \in Nat /\ svc.channelCache \in Nat
           /\ svc.isHandshakeComplete \in BOOLEAN
           /\ device = [owed |-> device.owed, rest |-> device.rest, count |-> device.count]
           /\ device.owed \in Seq(DvMessage) /\ device.rest \in Seq(DvPiece) /\ device.count \in Nat
           /\ sock \in {"none", "open", "destroyed"}
  <1>1. svc.readBuffer \in Seq(DvByte) /\ wire \in Seq(DvByte)
    BY DEF DvGood, DvTyped, DvService
  <1>2. DvStream \in Seq(DvByte)
    <2> DEFINE X == DvByte
    <2> HIDE DEF X
    <2>1. svc.readBuffer \in Seq(X) /\ wire \in Seq(X)
      BY <1>1 DEF X
    <2>2. svc.readBuffer \o wire \in Seq(X)
      BY <2>1
    <2> QED BY <2>2 DEF X, DvStream
  <1> QED BY <1>1, <1>2 DEF DvGood, DvTyped, DvService, DvDevice

\* Streams are put behind one another in any order.
LEMMA StreamsJoin ==
    ASSUME NEW a \in Seq(DvByte), NEW b \in Seq(DvByte), NEW c \in Seq(DvByte)
    PROVE  a \o b \in Seq(DvByte) /\ (a \o b) \o c = a \o (b \o c)
<1> DEFINE X == DvByte
<1> HIDE DEF X
<1>1. a \in Seq(X) /\ b \in Seq(X) /\ c \in Seq(X)
  BY DEF X
<1>2. a \o b \in Seq(X)
  BY <1>1, ConcatProperties
<1>3. (a \o b) \o c = a \o (b \o c)
  BY <1>1, ConcatAssociative
<1> QED BY <1>2, <1>3 DEF X

\* The same, of the name used where a hypothesis mentions it.
LEMMA JoinedTwice ==
    \A a, b, c \in Seq(DvByte) :
        Joined(a, b) \in Seq(DvByte) /\ Joined(Joined(a, b), c) = Joined(a, Joined(b, c))
  BY StreamsJoin DEF Joined

\* The device sent the frame f of m.
LEMMA DvSends ==
    ASSUME DvGood, sock = "open", UNCHANGED <<svc, sock, calls>>,
           NEW m \in DvMessage, NEW n \in {1, 3}, NEW f \in 0..2, f < n,
           wire' = Joined(wire, D!Bytes(m, f, n)), device' \in DvDevice,
           SendsInTurn(DvStream, svc.channelMessages, ItemsOf(device.rest), m, f, n),
           \A t \in Seq(DvByte) : FrameSent(DvStream, t, m, f, n) =>
               Flows(t, svc.channelMessages, device', calls, stray', svc.isHandshakeComplete)
    PROVE  DvGood'
<1> DEFINE s == DvStream
           cm == svc.channelMessages
           b == D!Bytes(m, f, n)
<1>1. svc.readBuffer \in Seq(DvByte) /\ wire \in Seq(DvByte) /\ s \in Seq(DvByte) /\ DvFragmenters(cm)
  BY DvFields
<1>2. b \in Seq(DvByte) /\ s \o b \in Seq(DvByte) /\ FrameSent(s, s \o b, m, f, n)
  BY <1>1, FrameIsSent
<1> HIDE DEF b
<1>3. DvStream' = s \o b
  <2>1. Joined(Joined(svc.readBuffer, wire), b) = Joined(svc.readBuffer, Joined(wire, b))
    <3>1. svc.readBuffer \in Seq(DvByte) /\ wire \in Seq(DvByte) /\ b \in Seq(DvByte)
      BY <1>1, <1>2
    <3> QED BY <3>1, JoinedTwice
  <2>2. (svc.readBuffer \o wire) \o b = svc.readBuffer \o (wire \o b)
    BY <2>1, Zenon DEF Joined
  <2>3. DvStream' = svc.readBuffer \o (wire \o b)
    BY DEF DvStream, b, Joined
  <2> QED BY <2>2, <2>3 DEF DvStream
<1>4. wire' \in Seq(DvByte)
  <2>1. Joined(wire, b) \in Seq(DvByte)
    BY <1>1, <1>2, JoinedTwice
  <2> QED BY <2>1, Zenon DEF Joined, b
<1>5. svc.connection # 0
  BY DEF DvGood, Wants
<1>6. Framed(s \o b, cm, calls)
  <2>1. Framed(s, cm, calls) /\ Pipeline(s, cm, ItemsOf(device.rest)) /\ \A c \in Caller : InPayload(calls, c) => s # <<>>
    BY <1>5 DEF DvGood, Flows
  <2> DEFINE t == s \o b
             R == ItemsOf(device.rest)
  <2>2. t \in Seq(DvByte) /\ FrameSent(s, t, m, f, n) /\ SendsInTurn(s, cm, R, m, f, n)
    BY <1>2
  <2> HIDE DEF s, cm, t, R
  <2> QED BY <1>1, <2>1, <2>2, StreamSent DEF t, R
<1>7. DvTyped'
  BY <1>4 DEF DvGood, DvTyped, DvService
<1>8. Flows(DvStream', cm', device', calls', stray', svc'.isHandshakeComplete)
  BY <1>2, <1>3
<1>9. Wants(sock', svc', calls') /\ Wants(sock, svc, calls)'
  BY DEF DvGood, Wants
<1> QED BY <1>3, <1>6, <1>7, <1>8, <1>9 DEF DvGood

\* The messages of the frames that are yet to be sent.
LEMMA ItemsMsgs ==
    ASSUME NEW q \in Seq(DvPiece)
    PROVE  \A r \in ItemsOf(q) : r \in DvPiece /\ r.msg \in MsgsOf(q)
  BY DEF ItemsOf, MsgsOf

\* The device sends a reply, or its first frame.
LEMMA DvReplies ==
    ASSUME DvGood, NEW n \in {1, 3}, D!DeviceReplies(n)
    PROVE  DvGood'
<1> DEFINE s == DvStream
           cm == svc.channelMessages
           R == ItemsOf(device.rest)
<1>1. /\ s \in Seq(DvByte) /\ DvFragmenters(cm) /\ device = [owed |-> device.owed, rest |-> device.rest, count |-> device.count]
      /\ device.owed \in Seq(DvMessage) /\ device.rest \in Seq(DvPiece) /\ device.count \in Nat
  BY DvFields
<1>2. sock = "open" /\ UNCHANGED <<svc, sock, calls>> /\ stray' = stray
  BY DEF D!DeviceReplies
<1>3. PICK i \in DOMAIN device.owed :
         /\ D!Emit(device.owed[i], n)
         /\ device' = [device EXCEPT !.owed = D!RemoveAt(@, i), !.rest = @ \o D!RestOf(device.owed[i], n)]
  BY Zenon DEF D!DeviceReplies
<1> DEFINE m == device.owed[i]
<1>4. i \in 1..Len(device.owed) /\ m \in DvMessage /\ m \in ItemsOf(device.owed)
  BY <1>1 DEF ItemsOf
<1>5. /\ device'.owed = D!RemoveAt(device.owed, i) /\ device'.rest = device.rest \o D!RestOf(m, n)
      /\ device'.count = device.count
      /\ device' = [owed |-> device'.owed, rest |-> device'.rest, count |-> device'.count]
  BY <1>1, <1>3
<1>6. Flows(s, cm, device, calls, stray, svc.isHandshakeComplete)
  BY <1>2 DEF DvGood
<1>7. Apart(MsgsOf(s), PartialMsgs(cm), QueueMsgs(cm), MsgsOf(device.rest), ItemsOf(device.owed), device.count, DOMAIN cm)
      /\ Distinct(device.owed) /\ OnceQueued(cm) /\ InOrder(device.rest) /\ Pipeline(s, cm, R)
  BY <1>6 DEF Flows, Located
<1>8. wire' = Joined(wire, D!Bytes(m, 0, n)) /\ \A r \in R : ~OneKey(r.msg, m)
  BY <1>1, <1>3 DEF D!Emit, D!Range, ItemsOf, OneKey, Joined
<1> HIDE DEF m
<1>9. m \notin MsgsOf(s) /\ m \notin PartialMsgs(cm) /\ m \notin MsgsOf(device.rest) /\ m.channel \in DOMAIN cm
  BY <1>4, <1>7 DEF Apart
<1>10. /\ device'.owed \in Seq(DvMessage) /\ ItemsOf(device'.owed) = ItemsOf(device.owed) \ {m} /\ Distinct(device'.owed)
  BY <1>1, <1>4, <1>5, <1>7, RemovedAt, RemovedItems DEF m
<1>11. /\ device'.rest \in Seq(DvPiece) /\ InOrder(device'.rest) /\ ItemsOf(device'.rest) = R \cup PiecesOf(m, n)
       /\ MsgsOf(device.rest) \subseteq MsgsOf(device'.rest) /\ MsgsOf(device'.rest) \subseteq MsgsOf(device.rest) \cup {m}
  <2>1. device.rest \in Seq(DvPiece) /\ m \in DvMessage /\ m \notin MsgsOf(device.rest) /\ InOrder(device.rest)
    BY <1>1, <1>4, <1>7, <1>9
  <2>2. device'.rest = Joined(device.rest, D!RestOf(m, n))
    BY <1>5 DEF Joined
  <2> QED BY <2>1, <2>2, RestAdded
<1>12. device' \in DvDevice
  BY <1>1, <1>5, <1>10, <1>11 DEF DvDevice
<1>13. R \in SUBSET DvPiece
  BY <1>1, ItemsMsgs
<1>14. SendsInTurn(s, cm, R, m, 0, n)
  BY <1>8, <1>9 DEF SendsInTurn, MsgsOf
<1> HIDE DEF R, s, cm
<1>15. ASSUME NEW t \in Seq(DvByte), FrameSent(s, t, m, 0, n)
       PROVE  Flows(t, cm, device', calls, stray', svc.isHandshakeComplete)
  <2>1. Pipeline(t, cm, R \cup PiecesOf(m, n))
    BY <1>1, <1>4, <1>7, <1>8, <1>9, <1>13, <1>15, PipelineBegins
  <2>2. MsgsOf(t) = MsgsOf(s) \cup {m} /\ t # <<>>
    <3>1. 0 \in 0..2 /\ 0 < n
      OBVIOUS
    <3> QED BY <1>1, <1>4, <1>15, <3>1, SentItems
  <2>3. Apart(MsgsOf(t), PartialMsgs(cm), QueueMsgs(cm), MsgsOf(device'.rest), ItemsOf(device'.owed), device'.count, DOMAIN cm)
    <3>1. Apart(MsgsOf(s) \cup {m}, PartialMsgs(cm), QueueMsgs(cm), MsgsOf(device'.rest), ItemsOf(device.owed) \ {m},
                device.count, DOMAIN cm)
      BY <1>4, <1>7, <1>11, ApartSends, Zenon
    <3> QED BY <1>5, <1>10, <2>2, <3>1, Zenon
  <2>4. AllMsgs(t, cm, device') \subseteq AllMsgs(s, cm, device)
    BY <1>4, <1>10, <1>11, <2>2 DEF AllMsgs
  <2>5. Wanted(AllMsgs(t, cm, device'), calls, stray', svc.isHandshakeComplete)
    BY <1>2, <1>6, <2>4 DEF Flows, Wanted
  <2> QED BY <1>7, <1>10, <1>11, <2>1, <2>2, <2>3, <2>5 DEF Flows, Located
<1>17. 0 \in 0..2 /\ 0 < n
  OBVIOUS
<1> QED BY <1>2, <1>4, <1>8, <1>12, <1>14, <1>15, <1>17, DvSends DEF R, s, cm

\* With more strays, or fewer messages, each message is still wanted.
LEMMA WantedMore ==
    ASSUME NEW all, NEW all2 \in SUBSET all, NEW cs, NEW st, NEW st2, st \subseteq st2, NEW complete, Wanted(all, cs, st, complete)
    PROVE  Wanted(all2, cs, st2, complete)
  BY DEF Wanted, WantedBy

\* The device sends a message nobody asked for.
LEMMA DvEvents ==
    ASSUME DvGood, NEW n \in {1, 3}, NEW ch \in DOMAIN svc.channelMessages, D!DeviceEvents(ch, n)
    PROVE  DvGood'
<1> DEFINE s == DvStream
           cm == svc.channelMessages
           R == ItemsOf(device.rest)
           m == [id |-> device.count + 1, channel |-> ch, stream |-> TRUE]
<1>1. /\ s \in Seq(DvByte) /\ DvFragmenters(cm) /\ device = [owed |-> device.owed, rest |-> device.rest, count |-> device.count]
      /\ device.owed \in Seq(DvMessage) /\ device.rest \in Seq(DvPiece) /\ device.count \in Nat
  BY DvFields
<1>2. /\ sock = "open" /\ UNCHANGED <<svc, sock, calls>> /\ stray' = stray \cup {<<svc.connection, ch>>}
      /\ svc.isHandshakeComplete /\ D!Emit(m, n)
      /\ device' = [device EXCEPT !.count = @ + 1, !.rest = @ \o D!RestOf(m, n)]
  BY DEF D!DeviceEvents
<1>3. m \in DvMessage /\ m.id = device.count + 1 /\ m.channel = ch /\ ch \in DOMAIN cm
  <2>1. ch \in Nat
    BY <1>1 DEF DvFragmenters
  <2> QED BY <1>1, <2>1 DEF DvMessage
<1>4. <<svc.connection, ch>>[2] = ch /\ <<svc.connection, ch>> \in stray'
  BY <1>2
<1> HIDE DEF m
<1>5. /\ device'.owed = device.owed /\ device'.rest = Joined(device.rest, D!RestOf(m, n))
      /\ device'.count = device.count + 1
      /\ device' = [owed |-> device'.owed, rest |-> device'.rest, count |-> device'.count]
  BY <1>1, <1>2 DEF Joined
<1>6. Flows(s, cm, device, calls, stray, svc.isHandshakeComplete)
  BY <1>2 DEF DvGood
<1>7. Apart(MsgsOf(s), PartialMsgs(cm), QueueMsgs(cm), MsgsOf(device.rest), ItemsOf(device.owed), device.count, DOMAIN cm)
      /\ Distinct(device.owed) /\ OnceQueued(cm) /\ InOrder(device.rest) /\ Pipeline(s, cm, R)
  BY <1>6 DEF Flows, Located
<1>8. wire' = Joined(wire, D!Bytes(m, 0, n)) /\ \A r \in R : ~OneKey(r.msg, m)
  BY <1>1, <1>2 DEF D!Emit, D!Range, ItemsOf, OneKey, Joined
<1>9. m \notin MsgsOf(s) /\ m \notin PartialMsgs(cm) /\ m \notin MsgsOf(device.rest)
  BY <1>1, <1>3, <1>7, ApartFresh
<1>11. /\ device'.rest \in Seq(DvPiece) /\ InOrder(device'.rest) /\ ItemsOf(device'.rest) = R \cup PiecesOf(m, n)
       /\ MsgsOf(device.rest) \subseteq MsgsOf(device'.rest) /\ MsgsOf(device'.rest) \subseteq MsgsOf(device.rest) \cup {m}
  <2>1. device.rest \in Seq(DvPiece) /\ m \in DvMessage /\ m \notin MsgsOf(device.rest) /\ InOrder(device.rest)
    BY <1>1, <1>3, <1>7, <1>9
  <2> QED BY <1>5, <2>1, RestAdded
<1>12. device' \in DvDevice
  BY <1>1, <1>5, <1>11 DEF DvDevice
<1>13. R \in SUBSET DvPiece
  BY <1>1, ItemsMsgs
<1>14. SendsInTurn(s, cm, R, m, 0, n)
  BY <1>3, <1>8, <1>9 DEF SendsInTurn, MsgsOf
<1> HIDE DEF R, s, cm
<1>15. ASSUME NEW t \in Seq(DvByte), FrameSent(s, t, m, 0, n)
       PROVE  Flows(t, cm, device', calls, stray', svc.isHandshakeComplete)
  <2>1. Pipeline(t, cm, R \cup PiecesOf(m, n))
    BY <1>1, <1>3, <1>7, <1>8, <1>9, <1>13, <1>15, PipelineBegins
  <2>2. MsgsOf(t) = MsgsOf(s) \cup {m} /\ t # <<>>
    <3>1. 0 \in 0..2 /\ 0 < n
      OBVIOUS
    <3> QED BY <1>1, <1>3, <1>15, <3>1, SentItems
  <2>3. Apart(MsgsOf(t), PartialMsgs(cm), QueueMsgs(cm), MsgsOf(device'.rest), ItemsOf(device'.owed), device'.count, DOMAIN cm)
    <3>1. Apart(MsgsOf(s) \cup {m}, PartialMsgs(cm), QueueMsgs(cm), MsgsOf(device'.rest), ItemsOf(device.owed),
                device'.count, DOMAIN cm)
      <4>1. device'.count = device.count + 1 /\ m.id = device'.count /\ m.channel \in DOMAIN cm
        BY <1>3, <1>5
      <4> QED BY <1>1, <1>3, <1>7, <1>11, <4>1, ApartNewSent
    <3> QED BY <1>5, <2>2, <3>1, Zenon
  <2>4. AllMsgs(t, cm, device') \subseteq AllMsgs(s, cm, device) \cup {m}
    BY <1>5, <1>11, <2>2 DEF AllMsgs
  <2>5. Wanted(AllMsgs(t, cm, device'), calls, stray', svc.isHandshakeComplete)
    <3>1. Wanted(AllMsgs(s, cm, device), calls, stray', svc.isHandshakeComplete)
      <4>1. stray \subseteq stray' /\ AllMsgs(s, cm, device) \in SUBSET AllMsgs(s, cm, device)
        BY <1>2
      <4>2. Wanted(AllMsgs(s, cm, device), calls, stray, svc.isHandshakeComplete)
        BY <1>6 DEF Flows
      <4> QED BY <4>1, <4>2, WantedMore
    <3>2. WantedBy(calls, stray', m)
      BY <1>3, <1>4 DEF WantedBy
    <3> QED BY <1>2, <2>4, <3>1, <3>2 DEF Wanted
  <2> QED BY <1>5, <1>7, <1>11, <2>1, <2>2, <2>3, <2>5 DEF Flows, Located
<1>17. 0 \in 0..2 /\ 0 < n
  OBVIOUS
<1> QED BY <1>2, <1>3, <1>8, <1>12, <1>14, <1>15, <1>17, DvSends DEF R, s, cm

\* The device sends the next frame of a message.
LEMMA DvContinues ==
    ASSUME DvGood, D!DeviceContinues
    PROVE  DvGood'
<1> DEFINE s == DvStream
           cm == svc.channelMessages
           R == ItemsOf(device.rest)
<1>1. /\ s \in Seq(DvByte) /\ DvFragmenters(cm) /\ device = [owed |-> device.owed, rest |-> device.rest, count |-> device.count]
      /\ device.owed \in Seq(DvMessage) /\ device.rest \in Seq(DvPiece) /\ device.count \in Nat
  BY DvFields
<1>2. /\ sock = "open" /\ UNCHANGED <<svc, sock, calls>> /\ stray' = stray
  BY DEF D!DeviceContinues
<1>3. PICK i \in DOMAIN device.rest :
         /\ \A j \in 1..(i - 1) : device.rest[j].msg # device.rest[i].msg
         /\ wire' = Joined(wire, D!Bytes(device.rest[i].msg, device.rest[i].f, device.rest[i].n))
         /\ device' = [device EXCEPT !.rest = D!RemoveAt(@, i)]
  BY Zenon DEF D!DeviceContinues, Joined
<1> DEFINE r == device.rest[i]
           m == r.msg
<1>4. /\ i \in 1..Len(device.rest) /\ r \in DvPiece /\ m \in DvMessage /\ r.f \in 1..2 /\ r.n = 3 /\ r \in R
      /\ m \in MsgsOf(device.rest)
  <2>1. i \in 1..Len(device.rest)
    BY <1>1
  <2>2. r \in DvPiece
    BY <1>1, <2>1
  <2>3. r \in R /\ m \in MsgsOf(device.rest)
    BY <2>1 DEF ItemsOf, MsgsOf
  <2> QED BY <2>1, <2>2, <2>3 DEF DvPiece
<1>5. /\ device'.owed = device.owed /\ device'.rest = D!RemoveAt(device.rest, i) /\ device'.count = device.count
      /\ device' = [owed |-> device'.owed, rest |-> device'.rest, count |-> device'.count]
  BY <1>1, <1>3
<1>6. Flows(s, cm, device, calls, stray, svc.isHandshakeComplete)
  BY <1>2 DEF DvGood
<1>7. Apart(MsgsOf(s), PartialMsgs(cm), QueueMsgs(cm), MsgsOf(device.rest), ItemsOf(device.owed), device.count, DOMAIN cm)
      /\ Distinct(device.owed) /\ OnceQueued(cm) /\ InOrder(device.rest) /\ Pipeline(s, cm, R)
  BY <1>6 DEF Flows, Located
<1>8. r.f = 2 => ~Due(R, m, 1)
  <2>1. SUFFICES ASSUME r.f = 2, NEW q \in R, q.msg = m, q.f = 1  PROVE FALSE
    BY DEF Due
  <2>2. PICK j \in 1..Len(device.rest) : q = device.rest[j]
    BY DEF ItemsOf
  <2>3. j # i /\ (j < i => j \in 1..(i - 1))
    BY <1>4, <2>1, <2>2
  <2>4. j > i
    BY <1>3, <1>4, <2>1, <2>2, <2>3
  <2>5. r.f < q.f
    BY <1>4, <1>7, <2>1, <2>2, <2>4 DEF InOrder
  <2> QED BY <2>1, <2>5
<1> HIDE DEF r, R
<1>9. /\ device'.rest \in Seq(DvPiece) /\ InOrder(device'.rest) /\ MsgsOf(device'.rest) \subseteq MsgsOf(device.rest)
      /\ ItemsOf(device'.rest) = R \ {r}
  BY <1>1, <1>4, <1>5, <1>7, RemovedAt, RemovedItems, RemovedOrder, OrderDistinct DEF r, R
<1>10. device' \in DvDevice
  BY <1>1, <1>5, <1>9 DEF DvDevice
<1>11. R \in SUBSET DvPiece
  BY <1>1, ItemsMsgs DEF R
<1>12. SendsInTurn(s, cm, R, m, r.f, 3)
  <2>1. m.channel \in DOMAIN cm
    BY <1>4, <1>7 DEF Apart
  <2>2. \A q \in R : OneKey(q.msg, m) => q.msg = m
    BY <1>4, <1>7 DEF Pipeline
  <2>3. /\ r.f = 2 => Due(R, r.msg, 1) \/ Paid(s, r.msg, 1) \/ IsPartial(cm, r.msg)
        /\ \A j \in 1..Len(s) : s[j].msg = r.msg => s[j].n = 3 /\ s[j].f < r.f
        /\ r.msg \in PartialMsgs(cm) => r.f = 2
    BY <1>4, <1>7 DEF Pipeline
  <2> QED BY <1>8, <2>1, <2>2, <2>3 DEF SendsInTurn
<1> HIDE DEF s, cm
<1>13. r.f \in 0..2 /\ r.f < 3 /\ 3 \in {1, 3}
  BY <1>4
<1>14. ASSUME NEW t \in Seq(DvByte), FrameSent(s, t, m, r.f, 3)
       PROVE  Flows(t, cm, device', calls, stray', svc.isHandshakeComplete)
  <2>1. Pipeline(t, cm, R \ {r})
    BY <1>1, <1>4, <1>7, <1>8, <1>11, <1>14, PipelineGoesOn
  <2>2. MsgsOf(t) = MsgsOf(s) \cup {m} /\ t # <<>>
    BY <1>1, <1>4, <1>13, <1>14, SentItems
  <2>3. Apart(MsgsOf(t), PartialMsgs(cm), QueueMsgs(cm), MsgsOf(device'.rest), ItemsOf(device'.owed), device'.count, DOMAIN cm)
    BY <1>4, <1>5, <1>7, <1>9, <2>2 DEF Apart
  <2>4. AllMsgs(t, cm, device') \subseteq AllMsgs(s, cm, device)
    BY <1>4, <1>5, <1>9, <2>2 DEF AllMsgs
  <2>5. Wanted(AllMsgs(t, cm, device'), calls, stray', svc.isHandshakeComplete)
    BY <1>2, <1>6, <2>4, WantedMore DEF Flows
  <2> QED BY <1>5, <1>7, <1>9, <2>1, <2>2, <2>3, <2>5 DEF Flows, Located
<1>15. wire' = Joined(wire, D!Bytes(m, r.f, 3))
  BY <1>3, <1>4 DEF r
<1> QED BY <1>2, <1>4, <1>10, <1>12, <1>13, <1>14, <1>15, DvSends DEF R, s, cm

-----------------------------------------------------------------------------
(* A header or a payload is read.                                              *)

\* The items of a concatenation.
LEMMA JoinedItems ==
    ASSUME NEW X, NEW a \in Seq(X), NEW w \in Seq(X)
    PROVE  /\ Joined(a, w) \in Seq(X) /\ Len(Joined(a, w)) = Len(a) + Len(w)
           /\ \A i \in 1..(Len(a) + Len(w)) : Joined(a, w)[i] = IF i <= Len(a) THEN a[i] ELSE w[i - Len(a)]
  BY ConcatProperties DEF Joined

\* Items are read off the front of the buffer.
FrontOff(a, k) == SubSeq(a, k + 1, Len(a))

\* What is taken off the buffer is taken off the stream.
LEMMA FrontTaken ==
    ASSUME NEW a \in Seq(DvByte), NEW w \in Seq(DvByte), NEW k \in {1, 2}, k <= Len(a),
           NEW a2, a2 = FrontOff(a, k), NEW s, s = Joined(a, w), NEW t, t = Joined(a2, w)
    PROVE  /\ a2 \in Seq(DvByte) /\ t \in Seq(DvByte) /\ s \in Seq(DvByte)
           /\ Window(s, t, k) /\ k + Len(t) = Len(s) /\ Len(a2) = Len(a) - k
           /\ \A i \in 1..k : i \in 1..Len(a) /\ i \in 1..Len(s) /\ s[i] = a[i]
<1> DEFINE X == DvByte
<1> HIDE DEF X
<1>1. a \in Seq(X) /\ w \in Seq(X) /\ Len(a) \in Nat /\ Len(w) \in Nat
  BY DEF X
<1> DEFINE b == SubSeq(a, k + 1, Len(a))
<1>0. b \in Seq(X) /\ Len(b) = Len(a) - k /\ \A i \in 1..(Len(a) - k) : b[i] = a[i + k]
  <2>1. CASE k = Len(a)
    <3>1. b = <<>>
      BY <1>1, <2>1
    <3> QED BY <1>1, <2>1, <3>1
  <2>2. CASE k < Len(a)
    <3>1. k + 1 \in 1..Len(a) /\ Len(a) \in 1..Len(a)
      BY <1>1, <2>2
    <3>2. b \in Seq(X) /\ Len(b) = Len(a) - (k + 1) + 1
      BY <1>1, <3>1
    <3>3. \A i \in 1..(Len(a) - (k + 1) + 1) : b[i] = a[(k + 1) + i - 1]
      BY <1>1, <3>1
    <3>4. Len(a) - (k + 1) + 1 = Len(a) - k /\ \A i \in Nat : (k + 1) + i - 1 = i + k
      BY <1>1
    <3> HIDE DEF b
    <3> QED BY <3>2, <3>3, <3>4
  <2> QED BY <1>1, <2>1, <2>2
<1>2. a2 = b
  BY DEF FrontOff
<1> HIDE DEF b
<1>3. a2 \in Seq(X) /\ Len(a2) = Len(a) - k /\ \A i \in 1..(Len(a) - k) : a2[i] = a[i + k]
  BY <1>0, <1>2
<1>9. Len(a) \in Nat /\ Len(w) \in Nat /\ Len(a2) \in Nat /\ Len(a2) = Len(a) - k
  BY <1>1, <1>3
<1>4. /\ s \in Seq(X) /\ Len(s) = Len(a) + Len(w)
      /\ \A i \in 1..(Len(a) + Len(w)) : s[i] = IF i <= Len(a) THEN a[i] ELSE w[i - Len(a)]
  BY <1>1, JoinedItems
<1>7. /\ t \in Seq(X) /\ Len(t) = Len(a2) + Len(w)
      /\ \A i \in 1..(Len(a2) + Len(w)) : t[i] = IF i <= Len(a2) THEN a2[i] ELSE w[i - Len(a2)]
  <2>1. a2 \in Seq(X) /\ w \in Seq(X)
    BY <1>1, <1>3
  <2> QED BY <2>1, JoinedItems
<1>10. Len(s) = Len(a) + Len(w) /\ Len(t) = Len(a2) + Len(w)
  BY <1>4, <1>7
<1>5. k + Len(t) = Len(s) /\ Len(s) \in Nat /\ Len(t) \in Nat
  BY <1>9, <1>10
<1>6. ASSUME NEW i \in 1..Len(t)  PROVE t[i] = s[i + k]
  <2>1. i \in 1..(Len(a2) + Len(w)) /\ i + k \in 1..(Len(a) + Len(w))
    BY <1>5, <1>6, <1>9, <1>10
  <2>2. CASE i <= Len(a2)
    <3>0. i \in 1..(Len(a) - k) /\ i + k <= Len(a)
      BY <1>9, <2>1, <2>2
    <3>1. t[i] = a2[i] /\ a2[i] = a[i + k] /\ i + k <= Len(a)
      BY <1>3, <1>7, <1>9, <2>1, <2>2, <3>0
    <3>2. s[i + k] = a[i + k]
      BY <1>4, <2>1, <3>1
    <3> QED BY <3>1, <3>2
  <2>3. CASE ~(i <= Len(a2))
    <3>0. i - Len(a2) = (i + k) - Len(a) /\ ~(i + k <= Len(a))
      BY <1>9, <2>1, <2>3
    <3>1. t[i] = w[i - Len(a2)] /\ i - Len(a2) = (i + k) - Len(a) /\ ~(i + k <= Len(a))
      BY <1>7, <2>1, <2>3, <3>0
    <3>2. s[i + k] = w[(i + k) - Len(a)]
      BY <1>4, <2>1, <3>1
    <3> QED BY <3>1, <3>2
  <2> QED BY <2>2, <2>3
<1>11. Window(s, t, k)
  BY <1>5, <1>6 DEF Window
<1>8. \A i \in 1..k : i \in 1..Len(a) /\ i \in 1..Len(s) /\ s[i] = a[i]
  <2>1. \A i \in 1..k : i \in 1..Len(a) /\ i \in 1..(Len(a) + Len(w)) /\ i <= Len(a)
    BY <1>9
  <2> QED BY <1>4, <1>10, <2>1
<1> QED BY <1>3, <1>4, <1>5, <1>7, <1>8, <1>9, <1>11 DEF X

\* A message that is still on the stream was on it.
LEMMA WindowMsgs ==
    ASSUME NEW s \in Seq(DvByte), NEW t \in Seq(DvByte), NEW k \in Nat, Window(s, t, k)
    PROVE  MsgsOf(t) \subseteq MsgsOf(s)
<1>1. \A i \in 1..Len(t) : i + k \in 1..Len(s) /\ t[i] = s[i + k]
  BY DEF Window
<1> QED BY <1>1 DEF MsgsOf

\* What is left once headers were read.
LEMMA HeaderFlows ==
    ASSUME NEW s \in Seq(DvByte), NEW t \in Seq(DvByte), NEW k \in Nat, Window(s, t, k), k + Len(t) = Len(s),
           \A i \in 1..k : s[i].part # 3, NEW cm, NEW R, Pipeline(s, cm, R)
    PROVE  Pipeline(t, cm, R)
<1>1. Len(s) \in Nat /\ Len(t) \in Nat /\ \A i \in 1..Len(t) : t[i] = s[i + k] /\ i + k \in 1..Len(s)
  BY DEF Window
<1>2. \A p, g : Paid(s, p, g) => Paid(t, p, g)
  <2>1. SUFFICES ASSUME NEW p, NEW g, NEW j \in 1..Len(s), Pays(s[j], p, g)  PROVE Paid(t, p, g)
    BY DEF Paid
  <2>2. j > k
    BY <1>1, <2>1 DEF Pays
  <2>3. j - k \in 1..Len(t) /\ (j - k) + k = j
    BY <1>1, <2>2
  <2>4. t[j - k] = s[j]
    BY <1>1, <2>3
  <2> QED BY <2>1, <2>3, <2>4 DEF Paid
<1>3. t # <<>> => s # <<>> /\ t[Len(t)] = s[Len(s)]
  <2>1. ASSUME t # <<>>  PROVE s # <<>> /\ t[Len(t)] = s[Len(s)]
    <3>1. Len(t) \in 1..Len(t) /\ Len(t) + k = Len(s) /\ Len(s) # 0
      BY <1>1, <2>1
    <3> QED BY <1>1, <3>1
  <2> QED BY <2>1
<1>4. t # <<>> => Ends(t[Len(t)])
  BY <1>3 DEF Pipeline
<1>5. \A p : ToCome(s, R, p) => ToCome(t, R, p)
  BY <1>2 DEF ToCome
<1>6. \A i \in 1..Len(t) : t[i].n = 3 /\ t[i].f < 2 => ToCome(t, R, t[i].msg)
  BY <1>1, <1>5 DEF Pipeline
<1>7. ASSUME NEW r \in R
      PROVE  /\ r.f = 1 => Due(R, r.msg, 2)
             /\ r.f = 2 => Due(R, r.msg, 1) \/ Paid(t, r.msg, 1) \/ IsPartial(cm, r.msg)
             /\ \A j \in 1..Len(t) : t[j].msg = r.msg => t[j].n = 3 /\ t[j].f < r.f
             /\ r.msg \in PartialMsgs(cm) => r.f = 2
  <2>1. /\ r.f = 1 => Due(R, r.msg, 2)
        /\ r.f = 2 => Due(R, r.msg, 1) \/ Paid(s, r.msg, 1) \/ IsPartial(cm, r.msg)
        /\ \A j \in 1..Len(s) : s[j].msg = r.msg => s[j].n = 3 /\ s[j].f < r.f
        /\ r.msg \in PartialMsgs(cm) => r.f = 2
    BY DEF Pipeline
  <2>2. \A j \in 1..Len(t) : t[j].msg = r.msg => t[j].n = 3 /\ t[j].f < r.f
    BY <1>1, <2>1
  <2> QED BY <1>2, <2>1, <2>2
<1>8. (\A m \in PartialMsgs(cm) : ToCome(t, R, m)) /\ \A r, q \in R : OneKey(r.msg, q.msg) => r.msg = q.msg
  BY <1>5 DEF Pipeline
<1> QED BY <1>4, <1>6, <1>7, <1>8 DEF Pipeline

\* What is left once a payload was read.
LEMMA PayloadFlows ==
    ASSUME NEW s \in Seq(DvByte), s # <<>>, NEW t \in Seq(DvByte), Window(s, t, 1), Len(s) = 1 + Len(t), Ordered(s),
           NEW h \in DvByte, h.f = 0 => h.n = 1, s[1] = [h EXCEPT !.part = 3],
           NEW cm, DvFragmenters(cm), Partials(cm), NEW c2, DvFragmenters(c2), Partials(c2), FragmentIn(cm, c2, h),
           NEW R \in SUBSET DvPiece, Pipeline(s, cm, R)
    PROVE  /\ Pipeline(t, c2, R)
           /\ h.f # 1 => h.msg \notin MsgsOf(t) \cup PartialMsgs(c2) /\ \A r \in R : r.msg # h.msg
           /\ h.f # 1 => PartialMsgs(c2) \subseteq PartialMsgs(cm)
           /\ PartialMsgs(c2) \subseteq PartialMsgs(cm) \cup {h.msg}
<1>1. Len(s) \in Nat /\ Len(t) \in Nat /\ \A j \in 1..Len(t) : t[j] = s[j + 1] /\ j + 1 \in 1..Len(s) /\ 1 < j + 1
  BY DEF Window
<1>2. 1 \in 1..Len(s) /\ s[1].msg = h.msg /\ s[1].f = h.f /\ s[1].n = h.n /\ s[1].part = 3 /\ h.msg \in DvMessage
      /\ h.f \in {0, 1, 2} /\ h.n \in {1, 3} /\ h.f < h.n
  BY <1>1 DEF DvByte
<1>3. \A i \in 1..Len(s) : s[i] \in DvByte /\ s[i].f \in {0, 1, 2} /\ s[i].n \in {1, 3} /\ s[i].f < s[i].n /\ s[i].part \in 1..3
  <2>1. \A i \in 1..Len(s) : s[i] \in DvByte
    OBVIOUS
  <2> QED
    BY <2>1, ByteIs
<1>4. \A j \in 1..Len(t) : t[j].msg = h.msg => t[j].n = h.n /\ h.f < t[j].f /\ t[j].f < t[j].n
  <2>1. SUFFICES ASSUME NEW j \in 1..Len(t), t[j].msg = h.msg  PROVE t[j].n = h.n /\ h.f < t[j].f /\ t[j].f < t[j].n
    OBVIOUS
  <2>2. s[1].n = s[j + 1].n /\ (s[1].f < s[j + 1].f \/ (s[1].f = s[j + 1].f /\ s[1].part < s[j + 1].part))
    BY <1>1, <1>2, <2>1 DEF Ordered
  <2>3. s[j + 1].part \in 1..3 /\ s[j + 1].f \in {0, 1, 2} /\ s[j + 1].f < s[j + 1].n
    BY <1>1, <1>3
  <2> QED BY <1>1, <1>2, <2>2, <2>3
<1>5. /\ \A m : m \in PartialMsgs(cm) <=> m \in DvMessage /\ IsPartial(cm, m)
      /\ \A m : m \in PartialMsgs(c2) <=> m \in DvMessage /\ IsPartial(c2, m)
      /\ DOMAIN c2 = DOMAIN cm
  BY PartialMsgsAre DEF FragmentIn
<1>6. \A m \in DvMessage : m.channel \in DOMAIN cm =>
          /\ ~OneKey(m, h.msg) => (IsPartial(c2, m) <=> IsPartial(cm, m))
          /\ OneKey(m, h.msg) => PartialFor(c2, m) = (IF h.f = 1 THEN <<h>> ELSE <<>>) /\ (PartialFor(cm, m) # <<>> => h.f = 2)
  BY OtherPartials
<1>7. ASSUME NEW m \in DvMessage, IsPartial(c2, m)
      PROVE  (IsPartial(cm, m) /\ ~OneKey(m, h.msg)) \/ (m = h.msg /\ h.f = 1)
  <2>1. m.channel \in DOMAIN cm
    BY <1>5, <1>7 DEF IsPartial
  <2>2. CASE OneKey(m, h.msg)
    <3>1. PartialFor(c2, m) = <<h>> /\ h.f = 1
      BY <1>6, <1>7, <2>1, <2>2 DEF IsPartial
    <3> QED BY <1>7, <3>1 DEF IsPartial
  <2>3. CASE ~OneKey(m, h.msg)
    BY <1>6, <1>7, <2>1, <2>3
  <2> QED BY <2>2, <2>3
<1>8. h.f = 1 => IsPartial(c2, h.msg)
  <2>1. ASSUME h.f = 1  PROVE IsPartial(c2, h.msg)
    <3>1. PartialFor(c2, h.msg) = <<h>> /\ h.msg.channel \in DOMAIN c2
      BY <2>1 DEF FragmentIn, PartialFor
    <3> QED BY <3>1 DEF IsPartial
  <2> QED BY <2>1
<1>9. \A p, g : Paid(s, p, g) => Paid(t, p, g) \/ (p = h.msg /\ g = h.f)
  <2>1. SUFFICES ASSUME NEW p, NEW g, NEW j \in 1..Len(s), Pays(s[j], p, g)
                 PROVE  Paid(t, p, g) \/ (p = h.msg /\ g = h.f)
    BY DEF Paid
  <2>2. CASE j = 1
    BY <1>2, <2>1, <2>2 DEF Pays
  <2>3. CASE j > 1
    <3>1. j - 1 \in 1..Len(t) /\ (j - 1) + 1 = j
      BY <1>1, <2>3
    <3>2. t[j - 1] = s[j]
      BY <1>1, <3>1
    <3> QED BY <2>1, <3>1, <3>2 DEF Paid
  <2> QED BY <2>2, <2>3
<1>10. \A p : ToCome(s, R, p) => ToCome(t, R, p) \/ (p = h.msg /\ h.f = 2)
  BY <1>9 DEF ToCome
<1>11. t # <<>> => Ends(t[Len(t)])
  <2>1. ASSUME t # <<>>  PROVE Ends(t[Len(t)])
    <3>1. Len(t) \in 1..Len(t) /\ Len(t) + 1 = Len(s)
      BY <1>1, <2>1
    <3> QED BY <1>1, <3>1 DEF Pipeline
  <2> QED BY <2>1
<1>12. ASSUME NEW i \in 1..Len(t), t[i].n = 3, t[i].f < 2  PROVE ToCome(t, R, t[i].msg)
  <2>1. ToCome(s, R, t[i].msg)
    BY <1>1, <1>12 DEF Pipeline
  <2>2. t[i].msg = h.msg => h.f # 2
    <3>1. t[i].f \in {0, 1, 2}
      BY <1>1, <1>3
    <3> QED BY <1>4, <1>12, <1>2, <3>1
  <2> QED BY <1>10, <2>1, <2>2
<1>13. ASSUME NEW m \in PartialMsgs(c2)  PROVE ToCome(t, R, m)
  <2>1. m \in DvMessage /\ IsPartial(c2, m)
    BY <1>5, <1>13
  <2>2. CASE IsPartial(cm, m) /\ ~OneKey(m, h.msg)
    <3>1. ToCome(s, R, m)
      BY <1>5, <2>1, <2>2 DEF Pipeline
    <3>2. m # h.msg
      BY <2>2 DEF OneKey
    <3> QED BY <1>10, <3>1, <3>2
  <2>3. CASE m = h.msg /\ h.f = 1
    <3>0. s[1].n = 3 /\ s[1].f < 2
      BY <1>2, <2>3
    <3>2. ToCome(s, R, s[1].msg)
      BY <1>2, <3>0 DEF Pipeline
    <3>1. ToCome(s, R, h.msg)
      BY <1>2, <3>2
    <3> QED BY <1>10, <2>3, <3>1
  <2> QED BY <1>7, <2>1, <2>2, <2>3
<1>14. ASSUME NEW r \in R
       PROVE  /\ r.f = 1 => Due(R, r.msg, 2)
              /\ r.f = 2 => Due(R, r.msg, 1) \/ Paid(t, r.msg, 1) \/ IsPartial(c2, r.msg)
              /\ \A j \in 1..Len(t) : t[j].msg = r.msg => t[j].n = 3 /\ t[j].f < r.f
              /\ r.msg \in PartialMsgs(c2) => r.f = 2
              /\ r.msg = h.msg => h.f = 1
  <2>1. /\ r.f = 1 => Due(R, r.msg, 2)
        /\ r.f = 2 => Due(R, r.msg, 1) \/ Paid(s, r.msg, 1) \/ IsPartial(cm, r.msg)
        /\ \A j \in 1..Len(s) : s[j].msg = r.msg => s[j].n = 3 /\ s[j].f < r.f
        /\ r.msg \in PartialMsgs(cm) => r.f = 2
    BY DEF Pipeline
  <2>2. r.msg \in DvMessage /\ r.f \in {1, 2}
    BY DEF DvPiece
  <2>3. r.msg = h.msg => h.n = 3 /\ h.f < r.f
    BY <1>2, <2>1
  <2>4. ASSUME NEW m, m = r.msg, IsPartial(cm, m), r.f = 2  PROVE IsPartial(c2, m)
    <3>1. CASE OneKey(m, h.msg)
      <4>1. h.f = 2
        BY <1>6, <2>2, <2>4, <3>1 DEF IsPartial
      <4>2. IsPartial(cm, h.msg)
        BY <4>1 DEF FragmentIn
      <4>3. m = h.msg
        BY <2>4, <3>1, <4>2 DEF IsPartial, PartialFor, OneKey
      <4> QED BY <2>3, <2>4, <4>1, <4>3
    <3>2. CASE ~OneKey(m, h.msg)
      BY <1>6, <2>2, <2>4, <3>2 DEF IsPartial
    <3> QED BY <3>1, <3>2
  <2>5. r.msg = h.msg => h.f = 1
    <3>1. ASSUME r.msg = h.msg  PROVE h.f # 0
      BY <2>3, <3>1
    <3> QED BY <1>2, <2>2, <2>3, <3>1
  <2>6. r.f = 2 => Due(R, r.msg, 1) \/ Paid(t, r.msg, 1) \/ IsPartial(c2, r.msg)
    BY <1>8, <1>9, <2>1, <2>4
  <2>7. \A j \in 1..Len(t) : t[j].msg = r.msg => t[j].n = 3 /\ t[j].f < r.f
    BY <1>1, <2>1
  <2>8. r.msg \in PartialMsgs(c2) => r.f = 2
    <3>1. SUFFICES ASSUME r.msg \in PartialMsgs(c2)  PROVE r.f = 2
      OBVIOUS
    <3>2. IsPartial(c2, r.msg)
      BY <1>5, <3>1
    <3>3. IsPartial(cm, r.msg) \/ (r.msg = h.msg /\ h.f = 1)
      BY <1>7, <2>2, <3>2
    <3> QED BY <1>5, <2>1, <2>2, <2>3, <3>3
  <2> QED BY <2>1, <2>5, <2>6, <2>7, <2>8
<1>15. Pipeline(t, c2, R)
  <2>1. \A r, q \in R : OneKey(r.msg, q.msg) => r.msg = q.msg
    BY DEF Pipeline
  <2> QED BY <1>11, <1>12, <1>13, <1>14, <2>1 DEF Pipeline
<1>16. h.f # 1 => h.msg \notin PartialMsgs(c2)
  BY <1>5, <1>7 DEF OneKey
<1>17. h.f # 1 => h.msg \notin MsgsOf(t)
  <2>1. SUFFICES ASSUME h.f # 1, NEW j \in 1..Len(t), t[j].msg = h.msg  PROVE FALSE
    BY DEF MsgsOf
  <2>2. t[j].n = h.n /\ h.f < t[j].f /\ t[j].f < t[j].n /\ t[j].f \in {0, 1, 2}
    BY <1>1, <1>3, <1>4, <2>1
  <2> QED BY <1>2, <2>1, <2>2
<1>18. PartialMsgs(c2) \subseteq PartialMsgs(cm) \cup {h.msg} /\ (h.f # 1 => PartialMsgs(c2) \subseteq PartialMsgs(cm))
  BY <1>5, <1>7
<1> QED BY <1>14, <1>15, <1>16, <1>17, <1>18

\* Calls that go on, with another phase.
SameCalls(cs, cs2) ==
    \A c \in Caller : /\ cs2[c].at = cs[c].at /\ cs2[c].channel = cs[c].channel
                      /\ cs2[c].want = cs[c].want /\ cs2[c].held = cs[c].held
SameService(v, v2) ==
    /\ v2.connection = v.connection /\ v2.dialled = v.dialled /\ v2.lastChannelCode = v.lastChannelCode
    /\ v2.channelCache = v.channelCache /\ v2.isHandshakeComplete = v.isHandshakeComplete
    /\ DOMAIN v2.channelMessages = DOMAIN v.channelMessages

\* Reading changes no channel code.
LEMMA CodesKept ==
    ASSUME NEW v, NEW v2, NEW cs, NEW cs2, Codes(v, cs), v.connection # 0, SameService(v, v2), SameCalls(cs, cs2)
    PROVE  Codes(v2, cs2)
  BY DEF Codes, SameService, SameCalls

\* Nor what the readers wait for.
LEMMA WantsKept ==
    ASSUME NEW sk, NEW v, NEW v2, NEW cs, NEW cs2, Wants(sk, v, cs), v2.connection = v.connection, SameCalls(cs, cs2)
    PROVE  Wants(sk, v2, cs2)
  BY DEF Wants, SameCalls, Reads

\* Nor whose message it is.
LEMMA WantedKept ==
    ASSUME NEW all, NEW all2 \in SUBSET all, NEW cs, NEW cs2, NEW st, NEW complete, Wanted(all, cs, st, complete), SameCalls(cs, cs2)
    PROVE  Wanted(all2, cs2, st, complete)
<1>1. \A m : WantedBy(cs, st, m) => WantedBy(cs2, st, m)
  BY DEF WantedBy, SameCalls, Reads
<1>2. \A m : (\E c \in Caller : cs[c].at = "hello" /\ cs[c].want = m.id)
             => \E c \in Caller : cs2[c].at = "hello" /\ cs2[c].want = m.id
  BY DEF SameCalls
<1> QED BY <1>1, <1>2 DEF Wanted

\* A reader whose channel exists has a connection.
LEMMA ReaderConnected ==
    ASSUME DvGood, NEW c \in Caller, Reads(calls, c), calls[c].channel \in DOMAIN svc.channelMessages \/ InPayload(calls, c)
    PROVE  svc.connection # 0
<1>1. CASE InPayload(calls, c)
  BY <1>1 DEF DvGood, Codes
<1>2. CASE sock = "open"
  BY <1>2 DEF DvGood, Wants
<1>3. CASE sock # "open" /\ calls[c].channel \in DOMAIN svc.channelMessages
  <2>1. calls[c].at \in {"request", "listen"}
    BY <1>3 DEF DvGood, Wants, Reads
  <2>2. calls[c].held.on # 0 /\ calls[c].channel = calls[c].held.code
    BY <2>1 DEF DvGood, Codes
  <2>3. calls[c].held.on = svc.connection <=> calls[c].held.code \in DOMAIN svc.channelMessages
    BY <2>2 DEF DvGood, Codes
  <2> QED BY <1>3, <2>2, <2>3
<1> QED BY <1>1, <1>2, <1>3

\* A header is read: it is one.
LEMMA DvTakesHeader ==
    ASSUME DvGood, NEW c \in Caller, Reads(calls, c), calls[c].phase = "header",
           calls[c].channel \in DOMAIN svc.channelMessages, svc.channelMessages[calls[c].channel].messages = <<>>,
           Len(svc.readBuffer) >= 2, D!TakeHeader(c), UNCHANGED <<sock, wire, device, stray>>
    PROVE  DvGood' /\ causes' = causes
<1> DEFINE s == DvStream
           cm == svc.channelMessages
           buf == svc.readBuffer
           h == buf[1]
<1>1. /\ s \in Seq(DvByte) /\ DvFragmenters(cm) /\ buf \in Seq(DvByte) /\ wire \in Seq(DvByte) /\ calls \in [Caller -> DvCall]
      /\ device.count \in Nat
  BY DvFields
<1>2. svc.connection # 0
  BY ReaderConnected
<1>3. Framed(s, cm, calls) /\ Turns(buf, cm, calls)
  BY <1>2 DEF DvGood
<1>4. \A d \in Caller : Reads(calls, d) => d = c
  <2>1. Len(buf) \in Nat /\ ~(Len(buf) < 2)
    BY <1>1
  <2> QED BY <1>3, <2>1 DEF Turns
<1>5. \A d \in Caller : ~InPayload(calls, d)
  BY <1>4 DEF InPayload
<1> DEFINE a2 == FrontOff(buf, 2)
           t == Joined(a2, wire)
<1>6. s = Joined(buf, wire)
  BY DEF DvStream, Joined
<1> HIDE DEF s, a2, t
<1>7. /\ a2 \in Seq(DvByte) /\ t \in Seq(DvByte) /\ Window(s, t, 2) /\ 2 + Len(t) = Len(s)
      /\ \A i \in 1..2 : i \in 1..Len(buf) /\ i \in 1..Len(s) /\ s[i] = buf[i]
  <2>1. a2 = FrontOff(buf, 2) /\ t = Joined(a2, wire)
    BY DEF a2, t
  <2>2. 2 \in {1, 2} /\ 2 <= Len(buf)
    <3>1. Len(buf) >= 2 /\ Len(buf) \in Nat
      BY <1>1
    <3> QED BY <3>1
  <2> HIDE DEF buf
  <2> QED BY <1>1, <1>6, <2>1, <2>2, FrontTaken
<1>8. 1 \in 1..2 /\ 2 \in 1..2
  OBVIOUS
<1>9. h = s[1] /\ buf[2] = s[2] /\ h \in DvByte /\ s # <<>> /\ 1 \in 1..Len(s) /\ 2 \in 1..Len(s) /\ Len(s) \in Nat
  <2>1. h = s[1] /\ buf[2] = s[2] /\ 1 \in 1..Len(s) /\ 2 \in 1..Len(s) /\ 1 \in 1..Len(buf)
    BY <1>7, <1>8
  <2> QED BY <1>1, <2>1
<1>10. h.part = 1 /\ buf[2] = [h EXCEPT !.part = 2]
  <2>1. s[1].part = 1
    BY <1>3, <1>5, <1>9 DEF Framed, Starts
  <2>2. 1 \in 1..Len(s) - 1
    BY <1>9
  <2>3. Follows(s[1], s[1 + 1])
    BY <1>3, <2>2 DEF Framed, Aligned
  <2>4. s[2] = [s[1] EXCEPT !.part = s[1].part + 1]
    BY <2>1, <2>3 DEF Follows, Ends
  <2>5. s[1].part + 1 = 2
    BY <2>1
  <2> QED BY <1>9, <2>1, <2>4, <2>5
<1> HIDE DEF h
<1>11. h.msg.channel \in DOMAIN cm
  BY <1>3, <1>9 DEF Framed, GoesOn
<1>12. /\ svc' = [svc EXCEPT !.readBuffer = a2] /\ causes' = causes
       /\ calls' = IF h.n > 1 /\ h.f = 0 THEN calls
                   ELSE [calls EXCEPT ![c] = [@ EXCEPT !.phase = "payload", !.header = h]]
  <2>1. svc' = [svc EXCEPT !.readBuffer = a2, !.channelMessages = cm] /\ causes' = causes
        /\ calls' = IF h.n > 1 /\ h.f = 0 THEN calls
                    ELSE [calls EXCEPT ![c] = [@ EXCEPT !.phase = "payload", !.header = h]]
    BY <1>10, <1>11 DEF D!TakeHeader, D!Garbled, FrontOff, a2, h
  <2>2. svc = [connection |-> svc.connection, dialled |-> svc.dialled, lastChannelCode |-> svc.lastChannelCode,
               channelCache |-> svc.channelCache, channelMessages |-> svc.channelMessages,
               isHandshakeComplete |-> svc.isHandshakeComplete, readBuffer |-> svc.readBuffer]
    BY DEF DvGood, DvTyped, DvService
  <2>3. [svc EXCEPT !.readBuffer = a2, !.channelMessages = cm] = [svc EXCEPT !.readBuffer = a2]
    BY <2>2
  <2> QED BY <2>1, <2>3
<1>13. /\ svc'.readBuffer = a2 /\ svc'.channelMessages = cm /\ SameService(svc, svc') /\ DvService(svc')
  <2>1. DvService(svc)
    BY DEF DvGood, DvTyped
  <2>2. /\ svc'.readBuffer = a2 /\ svc'.channelMessages = cm /\ svc'.connection = svc.connection
        /\ svc'.dialled = svc.dialled /\ svc'.lastChannelCode = svc.lastChannelCode /\ svc'.channelCache = svc.channelCache
        /\ svc'.isHandshakeComplete = svc.isHandshakeComplete
        /\ svc' = [connection |-> svc.connection, dialled |-> svc.dialled, lastChannelCode |-> svc.lastChannelCode,
               channelCache |-> svc.channelCache, channelMessages |-> svc.channelMessages,
               isHandshakeComplete |-> svc.isHandshakeComplete, readBuffer |-> a2]
    BY <1>12, <2>1 DEF DvService
  <2>3. SameService(svc, svc')
    BY <2>2 DEF SameService
  <2>4. DvService(svc')
    BY <1>7, <2>1, <2>2 DEF DvService
  <2> QED BY <2>2, <2>3, <2>4
<1> DEFINE first == h.n > 1 /\ h.f = 0
<1>14. /\ SameCalls(calls, calls') /\ calls' \in [Caller -> DvCall]
       /\ first => calls' = calls
       /\ ~first => /\ calls'[c].phase = "payload" /\ calls'[c].header = h
                    /\ \A d \in Caller : d # c => calls'[d] = calls[d]
  <2>1. CASE first
    BY <1>1, <1>12, <2>1 DEF SameCalls
  <2>2. CASE ~first
    <3>1. calls' = [calls EXCEPT ![c] = [@ EXCEPT !.phase = "payload", !.header = h]]
      BY <1>12, <2>2
    <3>2. calls[c] \in DvCall
      BY <1>1
    <3>3. [calls[c] EXCEPT !.phase = "payload", !.header = h] \in DvCall
      BY <1>9, <3>2 DEF DvCall
    <3>4. /\ calls'[c] = [calls[c] EXCEPT !.phase = "payload", !.header = h]
          /\ \A d \in Caller : d # c => calls'[d] = calls[d]
      BY <1>1, <3>1
    <3>5. calls'[c].phase = "payload" /\ calls'[c].header = h /\ calls'[c].at = calls[c].at
          /\ calls'[c].channel = calls[c].channel /\ calls'[c].want = calls[c].want /\ calls'[c].held = calls[c].held
      BY <3>2, <3>4 DEF DvCall
    <3>6. calls' \in [Caller -> DvCall]
      BY <1>1, <3>1, <3>3
    <3> QED BY <2>2, <3>4, <3>5, <3>6 DEF SameCalls
  <2> QED BY <2>1, <2>2
<1>15. h.f \in {0, 1, 2} /\ h.n \in {1, 3} /\ h.f < h.n
  BY <1>9 DEF DvByte
<1>16. \A d \in Caller : /\ Reads(calls', d) <=> Reads(calls, d)
                         /\ InPayload(calls', d) => d = c /\ ~first
  BY <1>4, <1>5, <1>14 DEF SameCalls, Reads, InPayload
<1>17. Turns(a2, cm, calls')
  <2>1. \A d \in Caller : InPayload(calls', d) =>
          /\ calls'[d].header \in DvByte /\ calls'[d].header.part = 1 /\ (calls'[d].header.f = 0 => calls'[d].header.n = 1)
          /\ calls'[d].channel \in DOMAIN cm /\ cm[calls'[d].channel].messages = <<>>
    BY <1>9, <1>10, <1>14, <1>15, <1>16 DEF SameCalls
  <2>2. \A d, e \in Caller : Reads(calls', d) /\ Reads(calls', e) => d = e
    BY <1>4, <1>16
  <2> QED BY <2>1, <2>2 DEF Turns
<1>18. Codes(svc', calls')
  BY <1>2, <1>13, <1>14, CodesKept DEF DvGood
<1>19. Wants(sock, svc', calls')
  <2>1. Wants(sock, svc, calls) /\ svc'.connection = svc.connection
    BY <1>13 DEF DvGood, SameService
  <2> QED BY <1>14, <2>1, WantsKept
<1>20. \A i \in 1..2 : s[i].part # 3
  <2>1. s[1].part = 1
    BY <1>9, <1>10
  <2>2. s[2].part = 2
    <3>1. [h EXCEPT !.part = 2].part = 2
      BY <1>9 DEF DvByte
    <3> QED BY <1>9, <1>10, <3>1
  <2> QED BY <2>1, <2>2
<1>21. t # <<>> => 1 \in 1..Len(t) /\ t[1] = s[3] /\ Follows(s[2], s[3])
  <2>1. ASSUME t # <<>>  PROVE 1 \in 1..Len(t) /\ t[1] = s[3] /\ Follows(s[2], s[3])
    <3>1. 1 \in 1..Len(t) /\ 2 \in 1..Len(s) - 1
      BY <1>7, <1>9, <2>1
    <3>2. t[1] = s[1 + 2]
      BY <1>7, <3>1 DEF Window
    <3>3. Follows(s[2], s[2 + 1])
      BY <1>3, <3>1 DEF Framed, Aligned
    <3> QED BY <3>1, <3>2, <3>3
  <2> QED BY <2>1
<1>22. Ends(s[2]) <=> first
  <2>1. s[2].part = 2 /\ s[2].n = h.n /\ s[2].f = h.f
    <3>1. [h EXCEPT !.part = 2].part = 2 /\ [h EXCEPT !.part = 2].n = h.n /\ [h EXCEPT !.part = 2].f = h.f
      BY <1>9 DEF DvByte
    <3> QED BY <1>9, <1>10, <3>1
  <2> QED BY <1>15, <2>1 DEF Ends
<1>23. ~first => [s[2] EXCEPT !.part = s[2].part + 1] = [h EXCEPT !.part = 3]
  <2>1. [[h EXCEPT !.part = 2] EXCEPT !.part = 3] = [h EXCEPT !.part = 3] /\ [h EXCEPT !.part = 2].part + 1 = 3
    <3>1. h = [msg |-> h.msg, f |-> h.f, n |-> h.n, part |-> h.part]
      BY <1>9 DEF DvByte
    <3>2. [h EXCEPT !.part = 2] = [msg |-> h.msg, f |-> h.f, n |-> h.n, part |-> 2]
      BY <3>1
    <3>3. [h EXCEPT !.part = 3] = [msg |-> h.msg, f |-> h.f, n |-> h.n, part |-> 3]
      BY <3>1
    <3>4. [[h EXCEPT !.part = 2] EXCEPT !.part = 3] = [msg |-> h.msg, f |-> h.f, n |-> h.n, part |-> 3]
      <4>1. ASSUME NEW g, g = [msg |-> h.msg, f |-> h.f, n |-> h.n, part |-> 2]
            PROVE  [g EXCEPT !.part = 3] = [msg |-> h.msg, f |-> h.f, n |-> h.n, part |-> 3]
        BY <4>1
      <4> QED BY <3>2, <4>1
    <3>5. [msg |-> h.msg, f |-> h.f, n |-> h.n, part |-> 2].part + 1 = 3
      OBVIOUS
    <3> QED BY <3>2, <3>3, <3>4, <3>5
  <2> QED BY <1>9, <1>10, <2>1
<1>24. Starts(t, calls')
  <2>1. ASSUME t # <<>>
        PROVE  IF \E d \in Caller : InPayload(calls', d)
               THEN \A d \in Caller : InPayload(calls', d) => t[1] = [calls'[d].header EXCEPT !.part = 3]
               ELSE t[1].part = 1
    <3>1. CASE first
      <4>1. t[1].part = 1
        BY <1>21, <1>22, <2>1, <3>1 DEF Follows
      <4> QED BY <1>16, <3>1, <4>1
    <3>2. CASE ~first
      <4>1. t[1] = [h EXCEPT !.part = 3]
        BY <1>21, <1>22, <1>23, <2>1, <3>2 DEF Follows
      <4>2. calls'[c].header = h /\ InPayload(calls', c)
        BY <1>14, <1>16, <3>2 DEF InPayload
      <4> QED BY <1>16, <4>1, <4>2
    <3> QED BY <3>1, <3>2
  <2> QED BY <2>1 DEF Starts
<1> HIDE DEF first
<1>25. Framed(t, cm, calls')
  <2>1. Aligned(t) /\ Ordered(t) /\ InTurn(t)
    BY <1>1, <1>3, <1>7, WindowKeeps DEF Framed
  <2>2. Begun(t, cm) /\ GoesOn(t, cm)
    BY <1>1, <1>3, <1>7, <1>20, HeaderTaken DEF Framed
  <2> QED BY <1>3, <1>24, <2>1, <2>2 DEF Framed
<1>26. DvStream' = t
  BY <1>13 DEF DvStream, Joined, t
<1>27. ASSUME sock = "open"  PROVE Flows(t, cm, device, calls', stray, svc.isHandshakeComplete)
  <2>1. Flows(s, cm, device, calls, stray, svc.isHandshakeComplete)
    BY <1>27 DEF DvGood, s
  <2>2. Pipeline(s, cm, ItemsOf(device.rest)) /\ Located(s, cm, device)
        /\ Wanted(AllMsgs(s, cm, device), calls, stray, svc.isHandshakeComplete)
    BY <2>1 DEF Flows
  <2>3. Pipeline(t, cm, ItemsOf(device.rest))
    BY <1>1, <1>7, <1>20, <2>2, HeaderFlows
  <2>4. MsgsOf(t) \subseteq MsgsOf(s)
    BY <1>1, <1>7, WindowMsgs
  <2>5. Located(t, cm, device)
    BY <2>2, <2>4 DEF Located, Apart
  <2>6. AllMsgs(t, cm, device) \in SUBSET AllMsgs(s, cm, device)
    BY <2>4 DEF AllMsgs
  <2>7. Wanted(AllMsgs(t, cm, device), calls', stray, svc.isHandshakeComplete)
    BY <1>14, <2>2, <2>6, WantedKept
  <2>8. ASSUME NEW d \in Caller, InPayload(calls', d)  PROVE t # <<>>
    <3>1. ~Ends(s[2])
      BY <1>16, <1>22, <2>8
    <3>2. Len(s) # 2
      BY <1>9, <2>2, <3>1 DEF Pipeline
    <3>3. Len(t) # 0
      BY <1>7, <1>9, <3>2
    <3> QED BY <3>3
  <2> QED BY <2>3, <2>5, <2>7, <2>8 DEF Flows
<1>28. DvTyped'
  BY <1>13, <1>14 DEF DvGood, DvTyped
<1>29. Wants(sock, svc, calls)'
  BY <1>19 DEF Wants
<1>30. /\ svc'.connection # 0 => Framed(DvStream', svc'.channelMessages, calls')
       /\ sock' = "open" => Flows(DvStream', svc'.channelMessages, device', calls', stray', svc'.isHandshakeComplete)
  BY <1>13, <1>25, <1>26, <1>27 DEF SameService
<1> QED BY <1>12, <1>13, <1>17, <1>18, <1>28, <1>29, <1>30 DEF DvGood

\* Head and Tail, by position.
LEMMA HeadIs ==
    ASSUME NEW X, NEW q \in Seq(X), q # <<>>
    PROVE  Head(q) = q[1] /\ Tail(q) = FrontOff(q, 1)
  BY DEF FrontOff

\* A message that waits to be delivered is that of a queue's first fragment.
LEMMA QueueMsgsAre ==
    ASSUME NEW cm, NEW m
    PROVE  m \in QueueMsgs(cm) <=> \E ch \in DOMAIN cm : \E k \in 1..Len(cm[ch].messages) : m = cm[ch].messages[k][1].msg
  BY DEF QueueMsgs

\* The service, with another buffer and other fragmenters.
Refilled(v, b, m) == [v EXCEPT !.readBuffer = b, !.channelMessages = m]

\* The fields of a service whose buffer and fragmenters changed.
LEMMA ServiceFields ==
    ASSUME NEW v, DvService(v), NEW b \in Seq(DvByte), NEW m, DvFragmenters(m), NEW v2,
           v2 = Refilled(v, b, m)
    PROVE  /\ v2.readBuffer = b /\ v2.channelMessages = m /\ v2.connection = v.connection
           /\ v2.dialled = v.dialled /\ v2.lastChannelCode = v.lastChannelCode /\ v2.channelCache = v.channelCache
           /\ v2.isHandshakeComplete = v.isHandshakeComplete /\ DvService(v2)
           /\ DOMAIN m = DOMAIN v.channelMessages => SameService(v, v2)
<1>1. v = [connection |-> v.connection, dialled |-> v.dialled, lastChannelCode |-> v.lastChannelCode,
            channelCache |-> v.channelCache, channelMessages |-> v.channelMessages,
            isHandshakeComplete |-> v.isHandshakeComplete, readBuffer |-> v.readBuffer]
  BY DEF DvService
<1>2. v2 = [connection |-> v.connection, dialled |-> v.dialled, lastChannelCode |-> v.lastChannelCode,
            channelCache |-> v.channelCache, channelMessages |-> m,
            isHandshakeComplete |-> v.isHandshakeComplete, readBuffer |-> b]
  BY <1>1 DEF Refilled
<1>3. /\ v2.readBuffer = b /\ v2.channelMessages = m /\ v2.connection = v.connection
      /\ v2.dialled = v.dialled /\ v2.lastChannelCode = v.lastChannelCode /\ v2.channelCache = v.channelCache
      /\ v2.isHandshakeComplete = v.isHandshakeComplete
  BY <1>2
<1>4. DvService(v2)
  BY <1>2, <1>3 DEF DvService
<1> QED BY <1>3, <1>4 DEF SameService

\* What joins a queue, if anything.
LEMMA FragmentQueued ==
    ASSUME NEW cm, DvFragmenters(cm), NEW h \in DvByte, NEW c2, FragmentIn(cm, c2, h)
    PROVE  /\ QueueMsgs(c2) \subseteq QueueMsgs(cm) \cup (IF h.f = 1 THEN {} ELSE {h.msg})
           /\ OnceQueued(cm) /\ h.msg \notin QueueMsgs(cm) => OnceQueued(c2)
<1> DEFINE ch == h.msg.channel
<1>1. /\ DOMAIN c2 = DOMAIN cm /\ ch \in DOMAIN cm /\ \A x \in DOMAIN cm : x # ch => c2[x] = cm[x]
      /\ h.f = 1 => c2[ch].messages = cm[ch].messages
  BY DEF FragmentIn
<1>2. \A x \in DOMAIN cm : cm[x].messages \in Seq(Seq(DvByte))
  BY DEF DvFragmenters, DvFragmenter
<1>3. h.f # 1 => /\ Len(c2[ch].messages) = Len(cm[ch].messages) + 1
                 /\ \A k \in 1..Len(cm[ch].messages) : c2[ch].messages[k] = cm[ch].messages[k]
                 /\ c2[ch].messages[Len(cm[ch].messages) + 1][1].msg = h.msg
  <2>1. ASSUME h.f # 1
        PROVE  /\ Len(c2[ch].messages) = Len(cm[ch].messages) + 1
               /\ \A k \in 1..Len(cm[ch].messages) : c2[ch].messages[k] = cm[ch].messages[k]
               /\ c2[ch].messages[Len(cm[ch].messages) + 1][1].msg = h.msg
    <3>1. PICK w \in Seq(DvByte) : w[1].msg = h.msg /\ c2[ch].messages = Append(cm[ch].messages, w)
      BY <2>1 DEF FragmentIn
    <3>2. cm[ch].messages \in Seq(Seq(DvByte))
      BY <1>1, <1>2
    <3> QED BY <3>1, <3>2, SMTT(30)
  <2> QED BY <2>1
<1>4. \A x \in DOMAIN cm : Len(cm[x].messages) \in Nat
  BY <1>2
<1>5. \A x \in DOMAIN c2 : \A k \in 1..Len(c2[x].messages) :
          \/ k \in 1..Len(cm[x].messages) /\ c2[x].messages[k] = cm[x].messages[k]
          \/ x = ch /\ h.f # 1 /\ k = Len(cm[ch].messages) + 1 /\ c2[x].messages[k][1].msg = h.msg
  BY <1>1, <1>3, <1>4, SMTT(30)
<1> HIDE DEF ch
<1>6. QueueMsgs(c2) \subseteq QueueMsgs(cm) \cup (IF h.f = 1 THEN {} ELSE {h.msg})
  <2>1. SUFFICES ASSUME NEW x \in DOMAIN c2, NEW k \in 1..Len(c2[x].messages), NEW m, m = c2[x].messages[k][1].msg
                 PROVE  m \in QueueMsgs(cm) \/ (h.f # 1 /\ m = h.msg)
    BY QueueMsgsAre
  <2>2. CASE k \in 1..Len(cm[x].messages) /\ c2[x].messages[k] = cm[x].messages[k]
    BY <1>1, <2>1, <2>2, QueueMsgsAre
  <2> QED BY <1>5, <2>1, <2>2
<1>7. ASSUME OnceQueued(cm), h.msg \notin QueueMsgs(cm)  PROVE OnceQueued(c2)
  <2>1. SUFFICES ASSUME NEW x \in DOMAIN c2, NEW k \in 1..Len(c2[x].messages), NEW l \in 1..Len(c2[x].messages),
                        c2[x].messages[k][1].msg = c2[x].messages[l][1].msg
                 PROVE  k = l
    BY DEF OnceQueued
  <2>2. \A j \in 1..Len(cm[x].messages) : cm[x].messages[j][1].msg # h.msg
    BY <1>1, <1>7 DEF QueueMsgs
  <2>3. CASE k \in 1..Len(cm[x].messages) /\ l \in 1..Len(cm[x].messages)
    BY <1>1, <1>5, <1>4, <1>7, <2>1, <2>3, SMTT(30) DEF OnceQueued
  <2> QED BY <1>1, <1>5, <2>1, <2>2, <2>3
<1> QED BY <1>6, <1>7

\* A fragment adds no channel.
LEMMA FragmentDomain ==
    ASSUME NEW cm, NEW h, NEW c2, FragmentIn(cm, c2, h)
    PROVE  DOMAIN c2 = DOMAIN cm
  BY DEF FragmentIn

\* A message whose fragments so far left the stream, a message that was joined.
LEMMA ApartPartial ==
    ASSUME NEW S, NEW P, NEW Q, NEW R, NEW O, NEW count, NEW chans, Apart(S, P, Q, R, O, count, chans),
           NEW m \in S, NEW S2 \in SUBSET S, NEW P2 \in SUBSET (P \cup {m}), NEW Q2 \in SUBSET Q
    PROVE  Apart(S2, P2, Q2, R, O, count, chans) /\ m \notin Q
  BY DEF Apart

\* A message moves from the stream to a fragmenter, and is not there yet.
LEMMA ApartQueued ==
    ASSUME NEW S, NEW P, NEW Q, NEW R, NEW O, NEW count, NEW chans, Apart(S, P, Q, R, O, count, chans),
           NEW m \in S, NEW S2 \in SUBSET S, NEW P2 \in SUBSET (P \cup {m}), NEW Q2 \in SUBSET (Q \cup {m}),
           m \notin S2, m \notin P2, m \notin R
    PROVE  Apart(S2, P2, Q2, R, O, count, chans) /\ m \notin Q
  BY DEF Apart

\* A payload is read: it belongs to the header before it.
LEMMA DvTakesPayload ==
    ASSUME DvGood, NEW c \in Caller, InPayload(calls, c), svc.readBuffer # <<>>, D!TakePayload(c),
           UNCHANGED <<sock, wire, device, stray>>
    PROVE  DvGood' /\ causes' = causes
<1> DEFINE s == DvStream
           cm == svc.channelMessages
           buf == svc.readBuffer
           h == calls[c].header
<1>1. /\ s \in Seq(DvByte) /\ DvFragmenters(cm) /\ buf \in Seq(DvByte) /\ wire \in Seq(DvByte) /\ calls \in [Caller -> DvCall]
      /\ device.count \in Nat /\ device.rest \in Seq(DvPiece)
  BY DvFields
<1>0. Reads(calls, c)
  BY DEF InPayload
<1>2. svc.connection # 0
  BY <1>0, ReaderConnected
<1>3. Framed(s, cm, calls) /\ Turns(buf, cm, calls)
  BY <1>2 DEF DvGood
<1>4. \A d \in Caller : Reads(calls, d) => d = c
  BY <1>0, <1>3 DEF Turns
<1>5. h \in DvByte /\ h.part = 1 /\ (h.f = 0 => h.n = 1)
  BY <1>3 DEF Turns
<1> DEFINE a2 == FrontOff(buf, 1)
           t == Joined(a2, wire)
<1>6. s = Joined(buf, wire)
  BY DEF DvStream, Joined
<1> HIDE DEF s, a2, t
<1>7. /\ a2 \in Seq(DvByte) /\ t \in Seq(DvByte) /\ Window(s, t, 1) /\ 1 + Len(t) = Len(s)
      /\ \A i \in 1..1 : i \in 1..Len(buf) /\ i \in 1..Len(s) /\ s[i] = buf[i]
  <2>1. a2 = FrontOff(buf, 1) /\ t = Joined(a2, wire)
    BY DEF a2, t
  <2>2. 1 \in {1, 2} /\ 1 <= Len(buf)
    <3>1. Len(buf) # 0 /\ Len(buf) \in Nat
      BY <1>1
    <3> QED BY <3>1
  <2> HIDE DEF buf
  <2> QED BY <1>1, <1>6, <2>1, <2>2, FrontTaken
<1>8. 1 \in 1..Len(s) /\ s[1] = buf[1] /\ s # <<>> /\ Len(s) \in Nat /\ Len(t) \in Nat
  <2>1. 1 \in 1..Len(s) /\ s[1] = buf[1]
    <3>1. 1 \in 1..1
      OBVIOUS
    <3> QED BY <1>7, <3>1
  <2> QED BY <1>1, <1>7, <2>1
<1>9. s[1] = [h EXCEPT !.part = 3]
  BY <1>3, <1>8 DEF Framed, Starts
<1>10. s[1].msg = h.msg /\ s[1].f = h.f /\ s[1].part = 3 /\ h.f \in {0, 1, 2}
  <2>1. [h EXCEPT !.part = 3].msg = h.msg /\ [h EXCEPT !.part = 3].f = h.f /\ [h EXCEPT !.part = 3].part = 3
        /\ h.f \in {0, 1, 2}
    BY <1>5 DEF DvByte
  <2> QED BY <1>9, <2>1
<1> DEFINE c2 == [cm EXCEPT ![h.msg.channel] = D!AddFragment(@, h)]
<1>11. svc' = [svc EXCEPT !.readBuffer = a2, !.channelMessages = c2] /\ causes' = causes
       /\ calls' = [calls EXCEPT ![c] = [@ EXCEPT !.phase = "header", !.header = D!NoHeader]]
  <2>1. Head(buf) = [h EXCEPT !.part = 3]
    BY <1>1, <1>8, <1>9, HeadIs
  <2>2. Tail(buf) = a2
    BY <1>1, HeadIs DEF a2
  <2>3. svc' = [svc EXCEPT !.readBuffer = Tail(buf), !.channelMessages[h.msg.channel] = D!AddFragment(@, h)] /\ causes' = causes
        /\ calls' = [calls EXCEPT ![c] = [@ EXCEPT !.phase = "header", !.header = D!NoHeader]]
    <3>1. Head(svc.readBuffer) = [calls[c].header EXCEPT !.part = 3]
      BY <2>1 DEF h
    <3> QED BY <3>1 DEF D!TakePayload, D!TargetOf
  <2> QED BY <2>2, <2>3
<1> HIDE DEF c2
<1>12. /\ h.msg.channel \in DOMAIN cm /\ (h.f = 2 => IsPartial(cm, h.msg))
       /\ PartialFor(cm, h.msg) # <<>> => IsPartial(cm, h.msg) /\ h.f = 2
  <2>1. ~ \E k \in 1..Len(s) : k < 1
    OBVIOUS
  <2> QED BY <1>3, <1>8, <1>10, <2>1 DEF Framed, Begun, GoesOn
<1>13. DvFragmenters(c2) /\ FragmentIn(cm, c2, h)
  BY <1>1, <1>3, <1>5, <1>12, FragmentAdded DEF Framed, c2
<1>14. Partials(c2) /\ Queues(c2) /\ Begun(t, c2) /\ GoesOn(t, c2)
  BY <1>1, <1>3, <1>5, <1>7, <1>8, <1>9, <1>13, PayloadTaken DEF Framed
<1>15. /\ svc'.readBuffer = a2 /\ svc'.channelMessages = c2 /\ SameService(svc, svc') /\ DvService(svc')
  <2>1. DvService(svc) /\ DOMAIN c2 = DOMAIN svc.channelMessages
    BY <1>13, FragmentDomain DEF DvGood, DvTyped
  <2>2. svc' = Refilled(svc, a2, c2)
    BY <1>11 DEF Refilled
  <2> QED BY <1>7, <1>13, <2>1, <2>2, ServiceFields
<1>16. /\ SameCalls(calls, calls') /\ calls' \in [Caller -> DvCall] /\ \A d \in Caller : ~InPayload(calls', d)
  <2>1. calls' = [calls EXCEPT ![c] = [@ EXCEPT !.phase = "header", !.header = D!NoHeader]]
    BY <1>11
  <2>2. calls[c] \in DvCall
    BY <1>1
  <2>3. [calls[c] EXCEPT !.phase = "header", !.header = D!NoHeader] \in DvCall
    BY <2>2 DEF DvCall
  <2>4. /\ calls'[c] = [calls[c] EXCEPT !.phase = "header", !.header = D!NoHeader]
        /\ \A d \in Caller : d # c => calls'[d] = calls[d]
    BY <1>1, <2>1
  <2>5. calls'[c].phase = "header" /\ calls'[c].at = calls[c].at
        /\ calls'[c].channel = calls[c].channel /\ calls'[c].want = calls[c].want /\ calls'[c].held = calls[c].held
    BY <2>2, <2>4 DEF DvCall
  <2>6. calls' \in [Caller -> DvCall]
    BY <1>1, <2>1, <2>3
  <2>7. \A d \in Caller : ~InPayload(calls', d)
    BY <1>4, <2>4, <2>5 DEF InPayload, Reads
  <2> QED BY <2>4, <2>5, <2>6, <2>7 DEF SameCalls
<1>17. Turns(a2, c2, calls')
  <2>1. \A d \in Caller : Reads(calls', d) => d = c
    BY <1>4, <1>16 DEF SameCalls, Reads
  <2> QED BY <1>16, <2>1 DEF Turns
<1>18. Codes(svc', calls')
  BY <1>2, <1>15, <1>16, CodesKept DEF DvGood
<1>19. Wants(sock, svc', calls')
  <2>1. Wants(sock, svc, calls) /\ svc'.connection = svc.connection
    BY <1>15 DEF DvGood, SameService
  <2> QED BY <1>16, <2>1, WantsKept
<1>20. Starts(t, calls')
  <2>1. ASSUME t # <<>>  PROVE t[1].part = 1
    <3>1. 1 \in 1..Len(t) /\ 1 \in 1..Len(s) - 1
      BY <1>7, <1>8, <2>1
    <3>2. t[1] = s[1 + 1]
      BY <1>7, <3>1 DEF Window
    <3>3. Follows(s[1], s[1 + 1])
      BY <1>3, <3>1 DEF Framed, Aligned
    <3> QED BY <1>10, <3>2, <3>3 DEF Follows, Ends
  <2> QED BY <1>16, <2>1 DEF Starts
<1>21. Framed(t, c2, calls')
  <2>1. Aligned(t) /\ Ordered(t) /\ InTurn(t)
    BY <1>1, <1>3, <1>7, WindowKeeps DEF Framed
  <2> QED BY <1>14, <1>20, <2>1 DEF Framed
<1>22. DvStream' = t
  BY <1>15 DEF DvStream, Joined, t
<1>23. ASSUME sock = "open"  PROVE Flows(t, c2, device, calls', stray, svc.isHandshakeComplete)
  <2> DEFINE R == ItemsOf(device.rest)
  <2>1. Flows(s, cm, device, calls, stray, svc.isHandshakeComplete)
    BY <1>23 DEF DvGood, s
  <2>2. Pipeline(s, cm, R) /\ Located(s, cm, device)
        /\ Wanted(AllMsgs(s, cm, device), calls, stray, svc.isHandshakeComplete)
    BY <2>1 DEF Flows
  <2>3. R \in SUBSET DvPiece
    BY <1>1, ItemsMsgs
  <2> HIDE DEF R
  <2>4. /\ Pipeline(t, c2, R)
        /\ h.f # 1 => h.msg \notin MsgsOf(t) \cup PartialMsgs(c2) /\ \A r \in R : r.msg # h.msg
        /\ PartialMsgs(c2) \subseteq PartialMsgs(cm) \cup {h.msg}
    <3>1. Ordered(s) /\ Partials(cm)
      BY <1>3 DEF Framed
    <3>2. /\ s \in Seq(DvByte) /\ s # <<>> /\ t \in Seq(DvByte) /\ Window(s, t, 1) /\ Len(s) = 1 + Len(t) /\ Ordered(s)
          /\ h \in DvByte /\ (h.f = 0 => h.n = 1) /\ s[1] = [h EXCEPT !.part = 3]
          /\ DvFragmenters(cm) /\ Partials(cm) /\ DvFragmenters(c2) /\ Partials(c2) /\ FragmentIn(cm, c2, h)
          /\ R \in SUBSET DvPiece /\ Pipeline(s, cm, R)
      BY <1>1, <1>5, <1>7, <1>8, <1>9, <1>13, <1>14, <2>2, <2>3, <3>1
    <3> HIDE DEF h, cm
    <3> QED BY <3>2, PayloadFlows
  <2>5. MsgsOf(t) \subseteq MsgsOf(s) /\ h.msg \in MsgsOf(s)
    <3>1. MsgsOf(t) \subseteq MsgsOf(s)
      BY <1>1, <1>7, WindowMsgs
    <3> QED BY <1>8, <1>10, <3>1 DEF MsgsOf
  <2>6. /\ QueueMsgs(c2) \subseteq QueueMsgs(cm) \cup (IF h.f = 1 THEN {} ELSE {h.msg})
        /\ OnceQueued(cm) /\ h.msg \notin QueueMsgs(cm) => OnceQueued(c2)
    BY <1>1, <1>5, <1>13, FragmentQueued
  <2>7. Apart(MsgsOf(s), PartialMsgs(cm), QueueMsgs(cm), MsgsOf(device.rest), ItemsOf(device.owed), device.count, DOMAIN cm)
        /\ Distinct(device.owed) /\ OnceQueued(cm) /\ InOrder(device.rest)
    BY <2>2 DEF Located
  <2>8. h.f # 1 => h.msg \notin MsgsOf(device.rest)
    BY <2>4 DEF MsgsOf, ItemsOf, R
  <2>9. Apart(MsgsOf(t), PartialMsgs(c2), QueueMsgs(c2), MsgsOf(device.rest), ItemsOf(device.owed), device.count, DOMAIN cm)
        /\ h.msg \notin QueueMsgs(cm)
    <3>0. /\ Apart(MsgsOf(s), PartialMsgs(cm), QueueMsgs(cm), MsgsOf(device.rest), ItemsOf(device.owed), device.count, DOMAIN cm)
          /\ h.msg \in MsgsOf(s) /\ MsgsOf(t) \in SUBSET MsgsOf(s) /\ PartialMsgs(c2) \in SUBSET (PartialMsgs(cm) \cup {h.msg})
      BY <2>4, <2>5, <2>7
    <3> HIDE DEF h, cm
    <3>1. CASE h.f = 1
      <4>1. QueueMsgs(c2) \in SUBSET QueueMsgs(cm)
        BY <2>6, <3>1
      <4> QED BY <3>0, <4>1, ApartPartial
    <3>2. CASE h.f # 1
      <4>1. QueueMsgs(c2) \in SUBSET (QueueMsgs(cm) \cup {h.msg})
        BY <2>6, <3>2
      <4>2. h.msg \notin MsgsOf(t) /\ h.msg \notin PartialMsgs(c2) /\ h.msg \notin MsgsOf(device.rest)
        BY <2>4, <2>8, <3>2
      <4> QED BY <3>0, <4>1, <4>2, ApartQueued
    <3> QED BY <3>1, <3>2
  <2>10. Located(t, c2, device)
    <3>1. DOMAIN c2 = DOMAIN cm
      BY <1>13, FragmentDomain
    <3> QED BY <2>6, <2>7, <2>9, <3>1 DEF Located
  <2>11. AllMsgs(t, c2, device) \in SUBSET AllMsgs(s, cm, device)
    BY <2>4, <2>5, <2>6 DEF AllMsgs
  <2>12. Wanted(AllMsgs(t, c2, device), calls', stray, svc.isHandshakeComplete)
    BY <1>16, <2>2, <2>11, WantedKept
  <2> QED BY <1>16, <2>4, <2>10, <2>12 DEF Flows, R
<1>24. DvTyped'
  BY <1>15, <1>16 DEF DvGood, DvTyped
<1>25. Wants(sock, svc, calls)'
  BY <1>19 DEF Wants
<1>26. /\ svc'.connection # 0 => Framed(DvStream', svc'.channelMessages, calls')
       /\ sock' = "open" => Flows(DvStream', svc'.channelMessages, device', calls', stray', svc'.isHandshakeComplete)
  BY <1>15, <1>21, <1>22, <1>23 DEF SameService
<1> QED BY <1>11, <1>15, <1>17, <1>18, <1>24, <1>25, <1>26 DEF DvGood

-----------------------------------------------------------------------------
(* A message is delivered.                                                     *)

\* What a reader is at, unless it got its message.
SameReader(cs, cs2, d) ==
    /\ cs2[d].at = cs[d].at /\ cs2[d].phase = cs[d].phase /\ cs2[d].header = cs[d].header
    /\ cs2[d].channel = cs[d].channel /\ cs2[d].want = cs[d].want
FewerReaders(cs, cs2) == \A d \in Caller : Reads(cs2, d) => Reads(cs, d) /\ SameReader(cs, cs2, d)

\* Readers that leave keep the turns of the others.
LEMMA FewerTurns ==
    ASSUME NEW buf, NEW cm, NEW cs, NEW cs2, Turns(buf, cm, cs), FewerReaders(cs, cs2)
    PROVE  Turns(buf, cm, cs2)
<1>1. \A d \in Caller : InPayload(cs2, d) => InPayload(cs, d) /\ cs2[d].header = cs[d].header /\ cs2[d].channel = cs[d].channel
  BY DEF FewerReaders, SameReader, InPayload
<1>2. \A d \in Caller : Reads(cs2, d) => Reads(cs, d) /\ cs2[d].channel = cs[d].channel
                                         /\ (InPayload(cs, d) => InPayload(cs2, d))
  BY DEF FewerReaders, SameReader, InPayload
<1> QED BY <1>1, <1>2 DEF Turns

\* And what the others wait for.
LEMMA FewerWants ==
    ASSUME NEW sk, NEW v, NEW v2, NEW cs, NEW cs2, Wants(sk, v, cs), v2.connection = v.connection, FewerReaders(cs, cs2)
    PROVE  Wants(sk, v2, cs2)
<1>1. \A d \in Caller : Reads(cs2, d) => Reads(cs, d) /\ cs2[d].at = cs[d].at /\ cs2[d].want = cs[d].want
  BY DEF FewerReaders, SameReader
<1>2. \A d \in Caller : cs2[d].at \in {"hello", "make", "request"} \/ cs2[d].at = "listen" => Reads(cs2, d)
  BY DEF Reads
<1> QED BY <1>1, <1>2 DEF Wants

\* And what the stream starts with, unless the one in the payload left.
LEMMA FewerStarts ==
    ASSUME NEW s, NEW cs, NEW cs2, Starts(s, cs), FewerReaders(cs, cs2),
           \A d \in Caller : InPayload(cs, d) => Reads(cs2, d) \/ s = <<>>
    PROVE  Starts(s, cs2)
<1>1. \A d \in Caller : InPayload(cs2, d) => InPayload(cs, d) /\ cs2[d].header = cs[d].header
  BY DEF FewerReaders, SameReader, InPayload
<1>2. s # <<>> => \A d \in Caller : InPayload(cs, d) => InPayload(cs2, d)
  BY DEF FewerReaders, SameReader, InPayload
<1> QED BY <1>1, <1>2 DEF Starts

\* Callers that stop reading what is not for them.
LEMMA ReadersLeave ==
    ASSUME DvGood, UNCHANGED <<svc, sock, wire, device, stray>>, calls' \in [Caller -> DvCall], Codes(svc, calls'),
           FewerReaders(calls, calls'),
           \A d \in Caller : Reads(calls, d) /\ ~Reads(calls', d) =>
               /\ InPayload(calls, d) => DvStream = <<>>
               /\ sock = "open" => \/ calls[d].want = 0
                                   \/ calls[d].channel \notin DOMAIN svc.channelMessages
    PROVE  DvGood'
<1> DEFINE s == DvStream
           cm == svc.channelMessages
<1>1. DvStream' = s
  BY DEF DvStream
<1> HIDE DEF s
<1>2. Turns(svc.readBuffer, cm, calls') /\ Wants(sock, svc, calls')
  BY FewerTurns, FewerWants DEF DvGood
<1>3. svc.connection # 0 => Framed(s, cm, calls')
  <2>1. ASSUME svc.connection # 0  PROVE Framed(s, cm, calls')
    <3>1. Framed(s, cm, calls)
      BY <2>1 DEF DvGood, s
    <3>2. \A d \in Caller : InPayload(calls, d) => Reads(calls', d) \/ s = <<>>
      BY DEF InPayload, s
    <3>3. Starts(s, calls')
      BY <3>1, <3>2, FewerStarts DEF Framed
    <3> QED BY <3>1, <3>3 DEF Framed
  <2> QED BY <2>1
<1>4. sock = "open" => Flows(s, cm, device, calls', stray, svc.isHandshakeComplete)
  <2>1. ASSUME sock = "open"  PROVE Flows(s, cm, device, calls', stray, svc.isHandshakeComplete)
    <3>1. Flows(s, cm, device, calls, stray, svc.isHandshakeComplete) /\ Codes(svc, calls) /\ Wants(sock, svc, calls)
      BY <2>1 DEF DvGood, s
    <3>2. \A m \in AllMsgs(s, cm, device) : m.channel \in DOMAIN cm /\ m.id # 0
      <4>1. device.count \in Nat
        BY DvFields
      <4> QED BY <3>1, <4>1 DEF Flows, Located, Apart, AllMsgs
    <3>3. ASSUME NEW m \in AllMsgs(s, cm, device), NEW d \in Caller, Reads(calls, d), calls[d].channel = m.channel,
                 calls[d].want = m.id
          PROVE  Reads(calls', d) /\ SameReader(calls, calls', d)
      <4>1. calls[d].channel \in DOMAIN cm /\ calls[d].want # 0
        BY <3>2, <3>3
      <4>2. Reads(calls', d)
        BY <2>1, <3>3, <4>1
      <4> QED BY <4>2 DEF FewerReaders
    <3>4. ASSUME NEW m \in AllMsgs(s, cm, device)
          PROVE  /\ WantedBy(calls', stray, m)
                 /\ ~svc.isHandshakeComplete => \E d \in Caller : calls'[d].at = "hello" /\ calls'[d].want = m.id
      <4>1. /\ WantedBy(calls, stray, m)
            /\ ~svc.isHandshakeComplete => \E d \in Caller : calls[d].at = "hello" /\ calls[d].want = m.id
        BY <3>1, <3>4 DEF Flows, Wanted
      <4>2. WantedBy(calls', stray, m)
        BY <3>3, <3>4, <4>1 DEF WantedBy, SameReader
      <4>3. ASSUME NEW d \in Caller, calls[d].at = "hello", calls[d].want = m.id
            PROVE  calls'[d].at = "hello" /\ calls'[d].want = m.id
        <5>1. Reads(calls, d) /\ calls[d].channel = 0 /\ calls[d].want # 0 /\ 0 \in DOMAIN cm
          <6>1. Reads(calls, d) /\ calls[d].channel = 0 /\ calls[d].want # 0
            BY <3>1, <4>3 DEF Codes, Wants, Reads
          <6>2. 0 \in DOMAIN cm
            BY DvFields DEF DvFragmenters
          <6> QED BY <6>1, <6>2
        <5>2. Reads(calls', d)
          BY <2>1, <5>1
        <5> QED BY <4>3, <5>2 DEF FewerReaders, SameReader
      <4> QED BY <4>1, <4>2, <4>3
    <3>5. Wanted(AllMsgs(s, cm, device), calls', stray, svc.isHandshakeComplete)
      BY <3>4 DEF Wanted
    <3>6. \A d \in Caller : InPayload(calls', d) => InPayload(calls, d)
      BY DEF FewerReaders, SameReader, InPayload
    <3> QED BY <3>1, <3>5, <3>6 DEF Flows
  <2> QED BY <2>1
<1>5. DvTyped' /\ Wants(sock, svc, calls)' /\ Codes(svc, calls)'
  BY <1>2 DEF DvGood, DvTyped, Wants
<1> QED BY <1>1, <1>2, <1>3, <1>4, <1>5 DEF DvGood

\* The first message of a queue was delivered; channels may have been added.
PoppedFrom(cm, c3, ch) ==
    /\ ch \in DOMAIN cm /\ DOMAIN cm \subseteq DOMAIN c3 /\ DOMAIN c3 \subseteq Nat
    /\ c3 = [x \in DOMAIN c3 |-> c3[x]]
    /\ \A x \in DOMAIN cm : c3[x] \in DvFragmenter /\ c3[x].partial = cm[x].partial
                            /\ (x # ch => c3[x].messages = cm[x].messages)
    /\ c3[ch].messages = Tail(cm[ch].messages)
    /\ \A x \in DOMAIN c3 : x \notin DOMAIN cm => c3[x] = D!Fragmenter

\* The items of a tail.
LEMMA TailIs ==
    ASSUME NEW X, NEW q \in Seq(X), q # <<>>
    PROVE  /\ Tail(q) \in Seq(X) /\ Len(Tail(q)) = Len(q) - 1 /\ Len(q) \in Nat \ {0}
           /\ \A k \in 1..Len(Tail(q)) : k + 1 \in 1..Len(q) /\ Tail(q)[k] = q[k + 1]
  OBVIOUS

\* A new fragmenter holds nothing.
LEMMA NewFragmenter == D!Fragmenter \in DvFragmenter /\ D!Fragmenter.messages = <<>>
                       /\ \A st \in BOOLEAN : D!Fragmenter.partial[st] = <<>>
  BY DEF D!Fragmenter, DvFragmenter

\* A delivered message leaves what is partly read alone.
LEMMA PoppedPartials ==
    ASSUME NEW cm, DvFragmenters(cm), Partials(cm), NEW ch, NEW c3, PoppedFrom(cm, c3, ch)
    PROVE  /\ DvFragmenters(c3) /\ Partials(c3) /\ PartialMsgs(c3) = PartialMsgs(cm)
           /\ \A m \in DvMessage : (IsPartial(c3, m) <=> IsPartial(cm, m))
           /\ \A m : m.channel \in DOMAIN cm => PartialFor(c3, m) = PartialFor(cm, m)
<1>1. \A x \in DOMAIN c3 : IF x \in DOMAIN cm THEN c3[x].partial = cm[x].partial
                           ELSE \A st \in BOOLEAN : c3[x].partial[st] = <<>>
  BY NewFragmenter DEF PoppedFrom
<1>2. DvFragmenters(c3)
  <2>1. \A x \in DOMAIN c3 : c3[x] \in DvFragmenter
    BY NewFragmenter DEF PoppedFrom
  <2> QED BY <2>1 DEF DvFragmenters, PoppedFrom
<1>3. Partials(c3)
  BY <1>1 DEF Partials
<1>4. DOMAIN cm \subseteq DOMAIN c3
  BY DEF PoppedFrom
<1>5. ASSUME NEW m \in DvMessage  PROVE IsPartial(c3, m) <=> IsPartial(cm, m)
  <2>1. m.stream \in BOOLEAN
    BY DEF DvMessage
  <2> QED BY <1>1, <1>4, <2>1 DEF IsPartial, PartialFor
<1>6. \A m : m.channel \in DOMAIN cm => PartialFor(c3, m) = PartialFor(cm, m)
  BY <1>1, <1>4 DEF PartialFor
<1>7. PartialMsgs(c3) = PartialMsgs(cm)
  BY <1>2, <1>3, <1>5, PartialMsgsAre
<1> QED BY <1>2, <1>3, <1>5, <1>6, <1>7

\* A delivered message is no longer queued: it was there once.
LEMMA PoppedQueues ==
    ASSUME NEW cm, DvFragmenters(cm), Queues(cm), NEW ch, NEW c3, PoppedFrom(cm, c3, ch), cm[ch].messages # <<>>,
           NEW m, m = cm[ch].messages[1][1].msg
    PROVE  /\ Queues(c3) /\ m \in QueueMsgs(cm) /\ m.channel = ch
           /\ QueueMsgs(c3) \subseteq QueueMsgs(cm)
           /\ OnceQueued(cm) => OnceQueued(c3) /\ m \notin QueueMsgs(c3)
<1>1. /\ cm[ch].messages \in Seq(Seq(DvByte)) /\ ch \in DOMAIN cm /\ c3[ch].messages = Tail(cm[ch].messages)
  BY DEF DvFragmenters, DvFragmenter, PoppedFrom
<1>2. /\ Len(cm[ch].messages) \in Nat \ {0} /\ Len(c3[ch].messages) = Len(cm[ch].messages) - 1
      /\ \A k \in 1..Len(c3[ch].messages) : k + 1 \in 1..Len(cm[ch].messages) /\ c3[ch].messages[k] = cm[ch].messages[k + 1]
  BY <1>1, TailIs
<1> DEFINE Was(x, k) == IF x = ch THEN k + 1 ELSE k
<1>3. ASSUME NEW x \in DOMAIN c3, NEW k \in 1..Len(c3[x].messages)
      PROVE  x \in DOMAIN cm /\ Was(x, k) \in 1..Len(cm[x].messages) /\ c3[x].messages[k] = cm[x].messages[Was(x, k)]
  <2>1. x \in DOMAIN cm
    <3>1. x \notin DOMAIN cm => c3[x].messages = <<>>
      BY NewFragmenter DEF PoppedFrom
    <3> QED BY <1>3, <3>1
  <2>2. x # ch => c3[x].messages = cm[x].messages
    BY <2>1 DEF PoppedFrom
  <2> QED BY <1>2, <1>3, <2>1, <2>2
<1>9. \A x : \A k, l \in Nat : Was(x, k) = Was(x, l) => k = l
  OBVIOUS
<1>10. \A k \in Nat : k >= 1 => Was(ch, k) # 1
  OBVIOUS
<1> HIDE DEF Was
<1>4. Queues(c3)
  <2>1. SUFFICES ASSUME NEW x \in DOMAIN c3, NEW k \in 1..Len(c3[x].messages), NEW q, q = c3[x].messages[k]
                 PROVE  Len(q) >= 1 /\ D!Whole(q) /\ q[1].msg.channel = x
    BY DEF Queues
  <2>2. x \in DOMAIN cm /\ Was(x, k) \in 1..Len(cm[x].messages) /\ q = cm[x].messages[Was(x, k)]
    BY <1>3, <2>1
  <2> QED BY <2>2 DEF Queues
<1>5. 1 \in 1..Len(cm[ch].messages)
  BY <1>2
<1>6. m \in QueueMsgs(cm) /\ m.channel = ch
  BY <1>1, <1>5, QueueMsgsAre DEF Queues
<1>7. QueueMsgs(c3) \subseteq QueueMsgs(cm)
  <2>1. SUFFICES ASSUME NEW x \in DOMAIN c3, NEW k \in 1..Len(c3[x].messages), NEW o, o = c3[x].messages[k][1].msg
                 PROVE  o \in QueueMsgs(cm)
    BY QueueMsgsAre
  <2>2. x \in DOMAIN cm /\ Was(x, k) \in 1..Len(cm[x].messages) /\ o = cm[x].messages[Was(x, k)][1].msg
    BY <1>3, <2>1
  <2> QED BY <2>2 DEF QueueMsgs
<1>8. ASSUME OnceQueued(cm)  PROVE OnceQueued(c3) /\ m \notin QueueMsgs(c3)
  <2>1. OnceQueued(c3)
    <3>1. SUFFICES ASSUME NEW x \in DOMAIN c3, NEW k \in 1..Len(c3[x].messages), NEW l \in 1..Len(c3[x].messages),
                          c3[x].messages[k][1].msg = c3[x].messages[l][1].msg
                   PROVE  k = l
      BY DEF OnceQueued
    <3>2. x \in DOMAIN cm /\ Was(x, k) \in 1..Len(cm[x].messages) /\ Was(x, l) \in 1..Len(cm[x].messages)
          /\ cm[x].messages[Was(x, k)][1].msg = cm[x].messages[Was(x, l)][1].msg
      BY <1>3, <3>1
    <3>3. Was(x, k) = Was(x, l)
      BY <1>8, <3>2 DEF OnceQueued
    <3> QED BY <1>9, <3>3
  <2>2. m \notin QueueMsgs(c3)
    <3>1. SUFFICES ASSUME NEW x \in DOMAIN c3, NEW k \in 1..Len(c3[x].messages), m = c3[x].messages[k][1].msg
                   PROVE  FALSE
      BY QueueMsgsAre
    <3>0. x \in DOMAIN cm /\ Was(x, k) \in 1..Len(cm[x].messages) /\ m = cm[x].messages[Was(x, k)][1].msg
      BY <1>3, <3>1
    <3>2. x = ch
      BY <1>6, <3>0 DEF Queues
    <3>3. Was(ch, k) = 1
      BY <1>1, <1>5, <1>8, <3>0, <3>2 DEF OnceQueued
    <3>4. k \in Nat /\ k >= 1
      OBVIOUS
    <3> QED BY <1>10, <3>3, <3>4
  <2> QED BY <2>1, <2>2
<1> QED BY <1>4, <1>6, <1>7, <1>8

\* A delivered message leaves the stream as it was.
LEMMA PoppedStream ==
    ASSUME NEW cm, DvFragmenters(cm), Partials(cm), NEW ch, NEW c3, PoppedFrom(cm, c3, ch),
           NEW s \in Seq(DvByte), NEW R \in SUBSET DvPiece
    PROVE  /\ Begun(s, cm) => Begun(s, c3)
           /\ GoesOn(s, cm) => GoesOn(s, c3)
           /\ Pipeline(s, cm, R) => Pipeline(s, c3, R)
<1>1. /\ PartialMsgs(c3) = PartialMsgs(cm)
      /\ \A m \in DvMessage : (IsPartial(c3, m) <=> IsPartial(cm, m))
      /\ \A m : m.channel \in DOMAIN cm => PartialFor(c3, m) = PartialFor(cm, m)
  BY PoppedPartials
<1>2. DOMAIN cm \subseteq DOMAIN c3
  BY DEF PoppedFrom
<1>3. \A j \in 1..Len(s) : s[j].msg \in DvMessage
  BY DEF DvByte
<1>4. \A r \in R : r.msg \in DvMessage
  BY DEF DvPiece
<1>5. Begun(s, cm) => Begun(s, c3)
  BY <1>1, <1>3 DEF Begun
<1>6. GoesOn(s, cm) => GoesOn(s, c3)
  <2>1. SUFFICES ASSUME GoesOn(s, cm), NEW j \in 1..Len(s)
                 PROVE  /\ s[j].msg.channel \in DOMAIN c3
                        /\ PartialFor(c3, s[j].msg) # <<>> =>
                             IF IsPartial(c3, s[j].msg) THEN s[j].f = 2
                             ELSE s[j].part = 3 => \E k \in 1..Len(s) : k < j /\ Pays(s[k], PartialFor(c3, s[j].msg)[1].msg, 2)
    BY DEF GoesOn
  <2>2. /\ s[j].msg.channel \in DOMAIN cm
        /\ PartialFor(cm, s[j].msg) # <<>> =>
             IF IsPartial(cm, s[j].msg) THEN s[j].f = 2
             ELSE s[j].part = 3 => \E k \in 1..Len(s) : k < j /\ Pays(s[k], PartialFor(cm, s[j].msg)[1].msg, 2)
    BY <2>1 DEF GoesOn
  <2>3. PartialFor(c3, s[j].msg) = PartialFor(cm, s[j].msg) /\ (IsPartial(c3, s[j].msg) <=> IsPartial(cm, s[j].msg))
    BY <1>1, <1>3, <2>2
  <2> QED BY <1>2, <2>2, <2>3
<1>7. Pipeline(s, cm, R) => Pipeline(s, c3, R)
  <2>1. \A r \in R : IsPartial(c3, r.msg) <=> IsPartial(cm, r.msg)
    BY <1>1, <1>4
  <2> QED BY <1>1, <2>1 DEF Pipeline
<1> QED BY <1>5, <1>6, <1>7

\* A reader took the first message of its channel and reads no more.
LEMMA PoppedGood ==
    ASSUME DvGood, NEW c \in Caller, Reads(calls, c), calls[c].phase = "header",
           NEW ch, ch = calls[c].channel, ch \in DOMAIN svc.channelMessages, svc.channelMessages[ch].messages # <<>>,
           NEW c3, PoppedFrom(svc.channelMessages, c3, ch),
           svc'.channelMessages = c3, svc'.readBuffer = svc.readBuffer, svc'.connection = svc.connection, DvService(svc'),
           svc'.isHandshakeComplete = svc.isHandshakeComplete \/ calls[c].at = "hello",
           calls' \in [Caller -> DvCall], ~Reads(calls', c), \A d \in Caller : d # c => calls'[d] = calls[d],
           Codes(svc', calls'), UNCHANGED <<sock, wire, device, stray>>
    PROVE  DvGood'
<1> DEFINE s == DvStream
           cm == svc.channelMessages
           buf == svc.readBuffer
           m == cm[ch].messages[1][1].msg
<1>1. /\ s \in Seq(DvByte) /\ DvFragmenters(cm) /\ device.count \in Nat /\ device.rest \in Seq(DvPiece)
      /\ svc.isHandshakeComplete \in BOOLEAN
  BY DvFields
<1>2. svc.connection # 0
  BY ReaderConnected
<1>3. Framed(s, cm, calls) /\ Turns(buf, cm, calls) /\ Codes(svc, calls) /\ Wants(sock, svc, calls)
  BY <1>2 DEF DvGood
<1>4. DvStream' = s
  BY DEF DvStream
<1> HIDE DEF s, m
<1>5. Partials(cm) /\ Queues(cm)
  BY <1>3 DEF Framed
<1>6. DvFragmenters(c3) /\ Partials(c3) /\ PartialMsgs(c3) = PartialMsgs(cm)
  BY <1>1, <1>5, PoppedPartials
<1>7. /\ Queues(c3) /\ m \in QueueMsgs(cm) /\ m.channel = ch /\ QueueMsgs(c3) \subseteq QueueMsgs(cm)
      /\ OnceQueued(cm) => OnceQueued(c3) /\ m \notin QueueMsgs(c3)
  <2>1. m = cm[ch].messages[1][1].msg
    BY DEF m
  <2> QED BY <1>1, <1>5, <2>1, PoppedQueues
<1>8. FewerReaders(calls, calls') /\ \A d \in Caller : InPayload(calls, d) => d # c /\ Reads(calls', d)
  BY DEF FewerReaders, SameReader, InPayload, Reads
<1>9. Framed(s, c3, calls')
  <2>1. Starts(s, calls')
    BY <1>3, <1>8, FewerStarts DEF Framed
  <2>2. Begun(s, c3) /\ GoesOn(s, c3)
    <3>1. {} \in SUBSET DvPiece /\ Begun(s, cm) /\ GoesOn(s, cm)
      BY <1>3 DEF Framed
    <3> QED BY <1>1, <1>5, <3>1, PoppedStream
  <2> QED BY <1>3, <1>6, <1>7, <2>1, <2>2 DEF Framed
<1>10. Wants(sock, svc', calls')
  BY <1>3, <1>8, FewerWants
<1>11. Turns(buf, c3, calls')
  <2>1. Turns(buf, cm, calls')
    BY <1>3, <1>8, FewerTurns
  <2>2. \A d \in Caller : Reads(calls', d) => Reads(calls, d) /\ d # c /\ calls'[d].channel = calls[d].channel
    BY <1>8 DEF FewerReaders, SameReader
  <2>3. \A d \in Caller : Reads(calls', d) => calls'[d].channel # ch
    BY <1>3, <2>2 DEF Turns
  <2>4. \A x \in DOMAIN c3 : x # ch /\ (x \in DOMAIN cm => cm[x].messages = <<>>) => c3[x].messages = <<>>
    BY NewFragmenter DEF PoppedFrom
  <2>5. DOMAIN cm \subseteq DOMAIN c3
    BY DEF PoppedFrom
  <2>6. \A d \in Caller : InPayload(calls', d) => Reads(calls', d)
    BY DEF InPayload
  <2>7. \A d \in Caller : InPayload(calls', d) =>
          calls'[d].channel \in DOMAIN cm /\ cm[calls'[d].channel].messages = <<>>
    BY <2>1 DEF Turns
  <2>8. \A d \in Caller : InPayload(calls', d) =>
          calls'[d].channel \in DOMAIN c3 /\ c3[calls'[d].channel].messages = <<>>
    BY <2>3, <2>4, <2>5, <2>6, <2>7
  <2>9. \A d, e \in Caller : Reads(calls', d) /\ Reads(calls', e) /\ d # e =>
          (calls'[d].channel = calls'[e].channel /\ calls'[d].channel \in DOMAIN c3 => c3[calls'[d].channel].messages = <<>>)
    BY <2>1, <2>3, <2>4 DEF Turns
  <2> QED BY <2>1, <2>8, <2>9 DEF Turns
<1>12. ASSUME sock = "open"  PROVE Flows(s, c3, device, calls', stray, svc'.isHandshakeComplete)
  <2>1. Flows(s, cm, device, calls, stray, svc.isHandshakeComplete)
    BY <1>12 DEF DvGood, s
  <2> DEFINE R == ItemsOf(device.rest)
  <2>2. /\ Apart(MsgsOf(s), PartialMsgs(cm), QueueMsgs(cm), MsgsOf(device.rest), ItemsOf(device.owed), device.count, DOMAIN cm)
        /\ Distinct(device.owed) /\ OnceQueued(cm) /\ InOrder(device.rest) /\ Pipeline(s, cm, R)
        /\ Wanted(AllMsgs(s, cm, device), calls, stray, svc.isHandshakeComplete)
    BY <2>1 DEF Flows, Located
  <2>3. Pipeline(s, c3, R)
    <3>1. R \in SUBSET DvPiece
      BY <1>1, ItemsMsgs
    <3> QED BY <1>1, <1>5, <2>2, <3>1, PoppedStream
  <2> HIDE DEF R
  <2>4. DOMAIN cm \subseteq DOMAIN c3
    BY DEF PoppedFrom
  <2>5. Apart(MsgsOf(s), PartialMsgs(c3), QueueMsgs(c3), MsgsOf(device.rest), ItemsOf(device.owed), device.count, DOMAIN c3)
    BY <1>6, <1>7, <2>2, <2>4 DEF Apart
  <2>6. Located(s, c3, device)
    BY <1>7, <2>2, <2>5 DEF Located
  <2>7. AllMsgs(s, c3, device) \subseteq AllMsgs(s, cm, device) /\ m \notin AllMsgs(s, c3, device)
        /\ m \in AllMsgs(s, cm, device)
    <3>1. m \notin QueueMsgs(c3)
      BY <1>7, <2>2
    <3>2. m \notin MsgsOf(s) \cup PartialMsgs(cm) \cup MsgsOf(device.rest) \cup ItemsOf(device.owed)
      BY <1>7, <2>2 DEF Apart
    <3> QED BY <1>6, <1>7, <3>1, <3>2 DEF AllMsgs
  <2>8. \A o, p \in AllMsgs(s, cm, device) : o.id = p.id => o = p
    BY <2>2 DEF AllMsgs, Apart
  <2>9. WantedBy(calls, stray, m)
    BY <2>2, <2>7 DEF Wanted
  <2>10. (\E st \in stray : st[2] = ch) \/ calls[c].want = m.id
    <3>1. SUFFICES ASSUME NEW d \in Caller, Reads(calls, d), calls[d].channel = ch, calls[d].want = m.id
                   PROVE  d = c
      BY <1>7, <2>9 DEF WantedBy
    <3> QED BY <1>3, <3>1 DEF Turns
  <2>11. ASSUME NEW o \in AllMsgs(s, c3, device)  PROVE WantedBy(calls', stray, o)
    <3>1. WantedBy(calls, stray, o)
      BY <2>2, <2>7, <2>11 DEF Wanted
    <3>2. ASSUME NEW d \in Caller, Reads(calls, d), calls[d].channel = o.channel, calls[d].want = o.id
          PROVE  WantedBy(calls', stray, o)
      <4>1. CASE d = c
        <5>1. calls[c].want # m.id
          BY <2>7, <2>8, <2>11, <3>2, <4>1
        <5> QED BY <2>10, <3>2, <4>1, <5>1 DEF WantedBy
      <4>2. CASE d # c
        BY <3>2, <4>2 DEF WantedBy, Reads
      <4> QED BY <4>1, <4>2
    <3> QED BY <3>1, <3>2 DEF WantedBy
  <2>12. ASSUME NEW o \in AllMsgs(s, c3, device), ~svc'.isHandshakeComplete \/ ~svc.isHandshakeComplete
         PROVE  \E d \in Caller : calls'[d].at = "hello" /\ calls'[d].want = o.id
    <3>1. CASE ~svc.isHandshakeComplete
      <4>1. PICK d \in Caller : calls[d].at = "hello" /\ calls[d].want = o.id
        BY <2>2, <2>7, <2>12, <3>1 DEF Wanted
      <4>2. PICK e \in Caller : calls[e].at = "hello" /\ calls[e].want = m.id
        BY <2>2, <2>7, <3>1 DEF Wanted
      <4>3. d = e
        BY <1>3, <4>1, <4>2 DEF Codes
      <4> QED BY <2>7, <2>8, <2>12, <4>1, <4>2, <4>3
    <3>2. CASE svc.isHandshakeComplete
      <4>1. calls[c].at = "hello"
        BY <2>12, <3>2
      <4> QED BY <1>3, <3>2, <4>1 DEF Codes
    <3> QED BY <3>1, <3>2
  <2>13. Wanted(AllMsgs(s, c3, device), calls', stray, svc'.isHandshakeComplete)
    BY <2>11, <2>12 DEF Wanted
  <2>14. \A d \in Caller : InPayload(calls', d) => InPayload(calls, d)
    BY <1>8 DEF FewerReaders, SameReader, InPayload
  <2> QED BY <2>1, <2>3, <2>6, <2>13, <2>14 DEF Flows, R
<1>13. DvTyped'
  BY DEF DvGood, DvTyped
<1>14. Wants(sock, svc, calls)'
  BY <1>10, SMTT(30) DEF Wants
<1> QED BY <1>4, <1>9, <1>11, <1>12, <1>13, <1>14 DEF DvGood

\* What a reader gets that is not the answer to its request.
LEMMA PoppedWanted ==
    ASSUME DvGood, NEW c \in Caller, Reads(calls, c), NEW ch, ch = calls[c].channel, calls[c].phase = "header",
           ch \in DOMAIN svc.channelMessages, svc.channelMessages[ch].messages # <<>>,
           NEW m, m = svc.channelMessages[ch].messages[1][1].msg, calls[c].want \notin {0, m.id}
    PROVE  \E st \in stray : st[2] = ch
<1> DEFINE cm == svc.channelMessages
<1>1. sock = "open" /\ Turns(svc.readBuffer, cm, calls) /\ svc.connection # 0
  BY SMTT(30) DEF DvGood, Wants
<1>2. Flows(DvStream, cm, device, calls, stray, svc.isHandshakeComplete) /\ Framed(DvStream, cm, calls)
  BY <1>1 DEF DvGood
<1>3. 1 \in 1..Len(cm[ch].messages)
  <2>1. cm[ch].messages \in Seq(Seq(DvByte))
    BY DvFields, SMTT(30) DEF DvFragmenters, DvFragmenter
  <2> QED BY <2>1, TailIs
<1>4. m \in QueueMsgs(cm) /\ m.channel = ch
  BY <1>2, <1>3, QueueMsgsAre DEF Framed, Queues
<1>5. WantedBy(calls, stray, m)
  BY <1>2, <1>4, SMTT(30) DEF Flows, Wanted, AllMsgs
<1>6. \A d \in Caller : Reads(calls, d) /\ calls[d].channel = ch => d = c
  BY <1>1 DEF Turns
<1> QED BY <1>4, <1>5, <1>6 DEF WantedBy

\* The call of c ended.
LEMMA IdleIs ==
    ASSUME calls \in [Caller -> DvCall], NEW c \in Caller, NEW cs2, cs2 = D!Idle(c)
    PROVE  /\ cs2 \in [Caller -> DvCall] /\ \A d \in Caller : d # c => cs2[d] = calls[d]
           /\ cs2[c].at = "idle" /\ cs2[c].want = 0 /\ cs2[c].channel = 0 /\ cs2[c].got = D!None
           /\ cs2[c].held = calls[c].held
<1>1. cs2 = [calls EXCEPT ![c] = [calls[c] EXCEPT !.at = "idle", !.want = 0, !.channel = 0, !.got = D!None]]
  BY DEF D!Idle
<1>2. calls[c] \in DvCall /\ D!None \in DvMessage
  BY DEF D!None, DvMessage
<1> DEFINE r == [calls[c] EXCEPT !.at = "idle", !.want = 0, !.channel = 0, !.got = D!None]
<1>3. r \in DvCall /\ r.at = "idle" /\ r.want = 0 /\ r.channel = 0 /\ r.got = D!None /\ r.held = calls[c].held
  BY <1>2 DEF DvCall
<1>4. cs2 = [calls EXCEPT ![c] = r]
  BY <1>1
<1> HIDE DEF r
<1> QED BY <1>3, <1>4

\* A reader that returns to its caller: with what it asked for, or with something else.
Got(c, m) == IF calls[c].want \in {0, m.id} THEN D!Idle(c)
             ELSE [calls EXCEPT ![c] = [@ EXCEPT !.at = "idle", !.want = 0, !.got = m]]

\* The call of c ended with message m.
LEMMA GotIs ==
    ASSUME calls \in [Caller -> DvCall], NEW c \in Caller, NEW m \in DvMessage, NEW cs2, cs2 = Got(c, m)
    PROVE  /\ cs2 \in [Caller -> DvCall] /\ \A d \in Caller : d # c => cs2[d] = calls[d]
           /\ cs2[c].at = "idle" /\ cs2[c].want = 0 /\ cs2[c].held = calls[c].held
           /\ cs2[c].got # D!None => calls[c].want \notin {0, m.id} /\ cs2[c].channel = calls[c].channel
<1>1. CASE calls[c].want \in {0, m.id}
  <2>1. cs2 = D!Idle(c)
    BY <1>1 DEF Got
  <2> QED BY <2>1, IdleIs
<1>2. CASE calls[c].want \notin {0, m.id}
  <2> DEFINE r == [calls[c] EXCEPT !.at = "idle", !.want = 0, !.got = m]
  <2>1. cs2 = [calls EXCEPT ![c] = r]
    BY <1>2 DEF Got
  <2>2. calls[c] \in DvCall
    OBVIOUS
  <2>3. r \in DvCall /\ r.at = "idle" /\ r.want = 0 /\ r.channel = calls[c].channel /\ r.held = calls[c].held
    BY <2>2 DEF DvCall
  <2> HIDE DEF r
  <2> QED BY <1>2, <2>1, <2>3
<1> QED BY <1>1, <1>2

\* The caller goes on with the channel it holds, or with none.
Held(cs, c, h) == [cs EXCEPT ![c] = [@ EXCEPT !.held = h]]

\* c holds another channel.
LEMMA HeldIs ==
    ASSUME NEW cs \in [Caller -> DvCall], NEW c \in Caller, NEW h \in [code : Nat, on : Nat], NEW cs2,
           cs2 = Held(cs, c, h)
    PROVE  /\ cs2 \in [Caller -> DvCall] /\ \A d \in Caller : d # c => cs2[d] = cs[d]
           /\ cs2[c].at = cs[c].at /\ cs2[c].want = cs[c].want /\ cs2[c].held = h /\ cs2[c].got = cs[c].got
           /\ cs2[c].channel = cs[c].channel /\ cs2[c].phase = cs[c].phase /\ cs2[c].header = cs[c].header
<1> DEFINE r == [cs[c] EXCEPT !.held = h]
<1>1. cs2 = [cs EXCEPT ![c] = r]
  BY DEF Held
<1>2. cs[c] \in DvCall
  OBVIOUS
<1>3. r \in DvCall /\ r.at = cs[c].at /\ r.want = cs[c].want /\ r.held = h /\ r.got = cs[c].got
      /\ r.channel = cs[c].channel /\ r.phase = cs[c].phase /\ r.header = cs[c].header
  BY <1>2 DEF DvCall
<1> HIDE DEF r
<1> QED BY <1>1, <1>3

\* Codes, when one caller is idle afterwards.
KeepsService(v, v2) ==
    /\ v2.connection = v.connection /\ v2.dialled = v.dialled /\ v2.lastChannelCode = v.lastChannelCode
    /\ v2.channelCache = v.channelCache /\ DOMAIN v2.channelMessages = DOMAIN v.channelMessages
BecomesIdle(cs, cs2, c) ==
    /\ cs2[c].at = "idle" /\ \A d \in Caller : d # c => cs2[d] = cs[d]
    /\ cs2[c].held \in {cs[c].held, [code |-> 0, on |-> 0]}

\* A call that ends keeps the channel codes apart.
LEMMA CodesIdle ==
    ASSUME NEW v, NEW v2, NEW cs, NEW cs2, Codes(v, cs), v.connection # 0, v.lastChannelCode \in Nat, v.dialled \in Nat,
           KeepsService(v, v2), NEW c \in Caller, BecomesIdle(cs, cs2, c),
           v2.isHandshakeComplete = v.isHandshakeComplete
           \/ (cs[c].at = "hello" /\ v2.isHandshakeComplete = TRUE)
    PROVE  Codes(v2, cs2)
<1>0. /\ v2.connection = v.connection /\ v2.dialled = v.dialled /\ v2.lastChannelCode = v.lastChannelCode
      /\ v2.channelCache = v.channelCache /\ DOMAIN v2.channelMessages = DOMAIN v.channelMessages
      /\ cs2[c].at = "idle" /\ \A d \in Caller : d # c => cs2[d] = cs[d]
      /\ cs2[c].held \in {cs[c].held, [code |-> 0, on |-> 0]}
  BY DEF KeepsService, BecomesIdle
<1>1. \A d \in Caller : cs2[d].at # "idle" => d # c /\ cs2[d] = cs[d]
  BY <1>0
<1>2. \A d \in Caller : cs2[d].held \in {cs[d].held, [code |-> 0, on |-> 0]}
  BY <1>0
<1>3. (v.isHandshakeComplete => v2.isHandshakeComplete) /\ (~v2.isHandshakeComplete => v2.isHandshakeComplete = v.isHandshakeComplete)
  BY <1>0
<1>4. \A d \in Caller : ~InPayload(cs2, d) \/ v.connection # 0
  BY <1>0
<1>5. ASSUME NEW d \in Caller
      PROVE  /\ cs2[d].held.code <= v2.lastChannelCode /\ cs2[d].held.on <= v2.dialled
             /\ cs2[d].held.on # 0 =>
                  /\ cs2[d].held.code # 0
                  /\ cs2[d].held.on = v2.connection <=> cs2[d].held.code \in DOMAIN v2.channelMessages
                  /\ cs2[d].held.on = v2.connection => v2.isHandshakeComplete
  <2>1. CASE cs2[d].held = cs[d].held
    BY <1>0, <1>3, <2>1 DEF Codes
  <2>2. CASE cs2[d].held = [code |-> 0, on |-> 0]
    <3>1. cs2[d].held.code = 0 /\ cs2[d].held.on = 0
      BY <1>0, <2>2
    <3> QED BY <1>0, <3>1
  <2> QED BY <1>0, <1>2, <2>1, <2>2
<1>6. ASSUME NEW d \in Caller, cs2[d].at # "idle"
      PROVE  /\ cs2[d].at = "make" =>
                  /\ v2.isHandshakeComplete /\ cs2[d].held.code # 0 /\ cs2[d].held.code \notin DOMAIN v2.channelMessages
                  /\ \A e \in Caller \ {d} : cs2[e].held.code # cs2[d].held.code
             /\ cs2[d].at \in {"request", "listen"} => cs2[d].held.on # 0 /\ cs2[d].channel = cs2[d].held.code
             /\ cs2[d].at \in {"hello", "make"} => cs2[d].channel = 0
  <2>1. d # c /\ cs2[d] = cs[d]
    BY <1>0, <1>1, <1>6
  <2>2. ASSUME cs[d].at = "make", NEW e \in Caller \ {d}  PROVE cs2[e].held.code # cs[d].held.code
    <3>1. cs[d].held.code # 0 /\ cs[e].held.code # cs[d].held.code
      BY <1>0, <2>2 DEF Codes
    <3>2. CASE cs2[e].held = cs[e].held
      BY <1>0, <3>1, <3>2
    <3>3. CASE cs2[e].held = [code |-> 0, on |-> 0]
      <4>1. cs2[e].held.code = 0
        BY <1>0, <3>3
      <4> QED BY <3>1, <4>1
    <3> QED BY <1>0, <1>2, <3>2, <3>3
  <2> QED BY <1>0, <1>3, <2>1, <2>2 DEF Codes
<1>7. ASSUME NEW d \in Caller, cs2[d].at # "idle"
      PROVE  /\ cs2[d].at = "hello" => ~v2.isHandshakeComplete /\ v2.connection # 0 /\ \A e \in Caller \ {d} : cs2[e].at # "hello"
             /\ cs2[d].at = "dial" => v2.connection = 0 /\ \A e \in Caller \ {d} : cs2[e].at # "dial"
  <2>1. d # c /\ cs2[d] = cs[d]
    BY <1>0, <1>1, <1>7
  <2>2. cs2[d].at = "dial" => v2.connection = 0
    BY <1>0, <2>1 DEF Codes
  <2>3. ASSUME cs2[d].at = "hello"
        PROVE  ~v2.isHandshakeComplete /\ \A e \in Caller \ {d} : cs2[e].at # "hello"
    <3>1. ~v.isHandshakeComplete /\ \A e \in Caller \ {d} : cs[e].at # "hello"
      BY <1>0, <2>1, <2>3 DEF Codes
    <3>2. cs[c].at # "hello"
      BY <1>0, <2>1, <3>1
    <3>3. v2.isHandshakeComplete = v.isHandshakeComplete
      BY <1>0, <3>2
    <3>4. \A e \in Caller \ {d} : cs2[e].at # "hello"
      BY <1>0, <3>1
    <3> QED BY <3>1, <3>3, <3>4
  <2> QED BY <1>0, <2>2, <2>3
<1>8. /\ \A x \in DOMAIN v2.channelMessages : x <= v2.lastChannelCode
      /\ v2.connection <= v2.dialled
      /\ v2.channelCache # 0 => v2.channelCache \in DOMAIN v2.channelMessages /\ v2.isHandshakeComplete
  BY <1>0, <1>3 DEF Codes
<1> QED BY <1>0, <1>4, <1>5, <1>6, <1>7, <1>8 DEF Codes

PoppedChannels(cm, ch) == [cm EXCEPT ![ch].messages = Tail(@)]

\* The fragmenters when one delivered a message.
LEMMA PoppedChannelsAre ==
    ASSUME NEW cm, DvFragmenters(cm), NEW ch \in DOMAIN cm, cm[ch].messages # <<>>
    PROVE  PoppedFrom(cm, PoppedChannels(cm, ch), ch) /\ DOMAIN PoppedChannels(cm, ch) = DOMAIN cm
<1> DEFINE r == [cm[ch] EXCEPT !.messages = Tail(cm[ch].messages)]
           c3 == [cm EXCEPT ![ch] = r]
<1>1. PoppedChannels(cm, ch) = c3
  BY DEF PoppedChannels
<1>2. cm = [x \in DOMAIN cm |-> cm[x]] /\ DOMAIN cm \subseteq Nat /\ \A x \in DOMAIN cm : cm[x] \in DvFragmenter
  BY DEF DvFragmenters
<1>3. cm[ch].messages \in Seq(Seq(DvByte))
  BY <1>2 DEF DvFragmenter
<1>4. Tail(cm[ch].messages) \in Seq(Seq(DvByte))
  BY <1>3, TailIs
<1>5. r \in DvFragmenter /\ r.partial = cm[ch].partial /\ r.messages = Tail(cm[ch].messages)
  <2>1. cm[ch] \in DvFragmenter
    BY <1>2
  <2> QED BY <1>4, <2>1 DEF DvFragmenter
<1> HIDE DEF r
<1>6. DOMAIN c3 = DOMAIN cm /\ c3[ch] = r /\ \A x \in DOMAIN cm : x # ch => c3[x] = cm[x]
  BY <1>2
<1>7. c3 = [x \in DOMAIN c3 |-> c3[x]]
  BY <1>2
<1> HIDE DEF c3
<1>8. \A x \in DOMAIN cm : c3[x] \in DvFragmenter /\ c3[x].partial = cm[x].partial
                            /\ (x # ch => c3[x].messages = cm[x].messages)
  BY <1>2, <1>5, <1>6
<1> QED BY <1>1, <1>2, <1>5, <1>6, <1>7, <1>8 DEF PoppedFrom

\* The same, with the channel makeChannel() adds.
LEMMA AddedPopped ==
    ASSUME NEW cm, cm = svc.channelMessages, DvFragmenters(cm), 0 \in DOMAIN cm, cm[0].messages # <<>>,
           NEW code \in Nat, code \notin DOMAIN cm,
           NEW ca, ca = D!Added(code), NEW c3, c3 = PoppedChannels(ca, 0)
    PROVE  PoppedFrom(cm, c3, 0) /\ DOMAIN c3 = DOMAIN cm \cup {code}
<1>1. cm = [x \in DOMAIN cm |-> cm[x]] /\ DOMAIN cm \subseteq Nat /\ \A x \in DOMAIN cm : cm[x] \in DvFragmenter
  BY DEF DvFragmenters
<1>2. /\ DOMAIN ca = DOMAIN cm \cup {code} /\ ca[code] = D!Fragmenter /\ \A x \in DOMAIN cm : ca[x] = cm[x]
      /\ ca = [x \in DOMAIN ca |-> ca[x]]
  BY DEF D!Added
<1>3. DvFragmenters(ca)
  <2>1. \A x \in DOMAIN ca : ca[x] \in DvFragmenter
    BY <1>1, <1>2, NewFragmenter
  <2> QED BY <1>1, <1>2, <2>1 DEF DvFragmenters
<1>4. 0 \in DOMAIN ca /\ ca[0].messages # <<>>
  BY <1>2
<1>5. PoppedFrom(ca, c3, 0) /\ DOMAIN c3 = DOMAIN ca
  BY <1>3, <1>4, PoppedChannelsAre
<1>6. c3[code] = D!Fragmenter
  <2>1. code \in DOMAIN ca /\ code # 0
    BY <1>2
  <2>2. c3 = [ca EXCEPT ![0].messages = Tail(@)]
    BY DEF PoppedChannels
  <2>3. c3[code] = ca[code]
    BY <2>1, <2>2
  <2> QED BY <1>2, <2>3
<1> QED BY <1>2, <1>5, <1>6 DEF PoppedFrom

\* The fields of a service, one by one.
Fields(v, connection, dialled, last, cache, cm, complete, buf) ==
    /\ v.connection = connection /\ v.dialled = dialled /\ v.lastChannelCode = last /\ v.channelCache = cache
    /\ v.channelMessages = cm /\ v.isHandshakeComplete = complete /\ v.readBuffer = buf
    /\ v = [connection |-> connection, dialled |-> dialled, lastChannelCode |-> last, channelCache |-> cache,
            channelMessages |-> cm, isHandshakeComplete |-> complete, readBuffer |-> buf]

\* A record of the service has these fields.
LEMMA FieldsAre ==
    ASSUME NEW connection, NEW dialled, NEW last, NEW cache, NEW cm, NEW complete, NEW buf, NEW v,
           v = [connection |-> connection, dialled |-> dialled, lastChannelCode |-> last, channelCache |-> cache,
                channelMessages |-> cm, isHandshakeComplete |-> complete, readBuffer |-> buf]
    PROVE  Fields(v, connection, dialled, last, cache, cm, complete, buf)
  BY DEF Fields

\* And is a service, when each of them is typed.
LEMMA FieldsTyped ==
    ASSUME NEW connection \in Nat, NEW dialled \in Nat, NEW last \in Nat, NEW cache \in Nat, NEW cm, DvFragmenters(cm),
           NEW complete \in BOOLEAN, NEW buf \in Seq(DvByte), NEW v,
           Fields(v, connection, dialled, last, cache, cm, complete, buf)
    PROVE  DvService(v)
  BY DEF Fields, DvService

\* A service, by its fields.
LEMMA ServiceIs ==
    ASSUME NEW v, DvService(v)
    PROVE  Fields(v, v.connection, v.dialled, v.lastChannelCode, v.channelCache, v.channelMessages, v.isHandshakeComplete,
                  v.readBuffer)
  BY DEF DvService, Fields

\* The service with the first message of a channel delivered.
Popped(v, ch) == [v EXCEPT !.channelMessages[ch].messages = Tail(@)]

\* A message was delivered.
LEMMA PoppedService ==
    ASSUME NEW connection, NEW dialled, NEW last, NEW cache, NEW cm, NEW complete, NEW buf, NEW v,
           Fields(v, connection, dialled, last, cache, cm, complete, buf), NEW ch, NEW v2, v2 = Popped(v, ch)
    PROVE  Fields(v2, connection, dialled, last, cache, PoppedChannels(cm, ch), complete, buf)
<1>1. v2 = [v EXCEPT !.channelMessages = PoppedChannels(v.channelMessages, ch)]
  BY DEF Popped, PoppedChannels
<1>2. v.channelMessages = cm
  BY DEF Fields
<1> DEFINE c3 == PoppedChannels(cm, ch)
<1>3. v2 = [v EXCEPT !.channelMessages = c3]
  BY <1>1, <1>2
<1> HIDE DEF c3
<1>4. v2 = [connection |-> connection, dialled |-> dialled, lastChannelCode |-> last, channelCache |-> cache,
            channelMessages |-> c3, isHandshakeComplete |-> complete, readBuffer |-> buf]
  BY <1>3 DEF Fields
<1> QED BY <1>4, FieldsAre DEF c3

Completed(v, b) == [v EXCEPT !.isHandshakeComplete = TRUE, !.readBuffer = b]

\* The handshake is complete and the buffer drained.
LEMMA CompletedService ==
    ASSUME NEW connection, NEW dialled, NEW last, NEW cache, NEW cm, NEW complete, NEW buf, NEW v,
           Fields(v, connection, dialled, last, cache, cm, complete, buf), NEW b, NEW v2,
           v2 = Completed(v, b)
    PROVE  Fields(v2, connection, dialled, last, cache, cm, TRUE, b)
<1>1. v2 = [connection |-> connection, dialled |-> dialled, lastChannelCode |-> last, channelCache |-> cache,
            channelMessages |-> cm, isHandshakeComplete |-> TRUE, readBuffer |-> b]
  BY DEF Fields, Completed
<1> QED BY <1>1, FieldsAre

\* makeChannel() has its reply: the channel is cached.
LEMMA MadeService ==
    ASSUME DvService(svc), NEW code, NEW v2, v2 = Popped(D!Made(code), 0)
    PROVE  Fields(v2, svc.connection, svc.dialled, svc.lastChannelCode, code, PoppedChannels(D!Added(code), 0),
                  svc.isHandshakeComplete, svc.readBuffer)
<1> DEFINE ca == D!Added(code)
           p == D!Made(code)
<1>1. p = [svc EXCEPT !.channelCache = code, !.channelMessages = ca]
  BY DEF D!Made
<1> HIDE DEF ca, p
<1>2. svc = [connection |-> svc.connection, dialled |-> svc.dialled, lastChannelCode |-> svc.lastChannelCode,
             channelCache |-> svc.channelCache, channelMessages |-> svc.channelMessages,
             isHandshakeComplete |-> svc.isHandshakeComplete, readBuffer |-> svc.readBuffer]
  BY DEF DvService
<1>3. p = [connection |-> svc.connection, dialled |-> svc.dialled, lastChannelCode |-> svc.lastChannelCode,
           channelCache |-> code, channelMessages |-> ca,
           isHandshakeComplete |-> svc.isHandshakeComplete, readBuffer |-> svc.readBuffer]
  BY <1>1, <1>2
<1>4. Fields(p, svc.connection, svc.dialled, svc.lastChannelCode, code, ca, svc.isHandshakeComplete, svc.readBuffer)
  BY <1>3, FieldsAre
<1>5. v2 = Popped(p, 0)
  BY DEF p
<1> QED BY <1>4, <1>5, PoppedService DEF ca

\* Nothing is dropped from an empty buffer.
Drains(buf, f) ==
    [i \in 1..(Len(buf) + 1) |->
        IF Len(buf) < i + 1 \/ Len(buf) < i + 1 + D!Length(buf[i]) THEN SubSeq(buf, i, Len(buf))
        ELSE f[i + 2 + D!Length(buf[i])]]

\* An empty buffer has nothing to drain.
LEMMA DrainedNothing == D!Drained(<<>>) = <<>> /\ D!FirstFragments(<<>>) = {}
<1> DEFINE h == CHOOSE f : f = Drains(<<>>, f)
           one == [i \in 1..(Len(<<>>) + 1) |-> SubSeq(<<>>, i, Len(<<>>))]
<1>1. D!Drained(<<>>) = h[1]
  <2>1. h = CHOOSE f : f = [i \in 1..(Len(<<>>) + 1) |->
        IF Len(<<>>) < i + 1 \/ Len(<<>>) < i + 1 + D!Length(<<>>[i]) THEN SubSeq(<<>>, i, Len(<<>>))
        ELSE f[i + 2 + D!Length(<<>>[i])]]
    BY DEF Drains
  <2> HIDE DEF h
  <2> QED BY <2>1, Zenon DEF D!Drained
<1>2. \A i \in 1..(Len(<<>>) + 1) : Len(<<>>) < i + 1
  OBVIOUS
<1>3. one = Drains(<<>>, one)
  BY <1>2 DEF Drains
<1> HIDE DEF one
<1>4. h = Drains(<<>>, h)
  BY <1>3, Zenon
<1> HIDE DEF h
<1>5. 1 \in 1..(Len(<<>>) + 1) /\ Len(<<>>) = 0
  OBVIOUS
<1>6. h[1] = SubSeq(<<>>, 1, Len(<<>>))
  BY <1>2, <1>4, <1>5 DEF Drains
<1>7. SubSeq(<<>>, 1, 0) = <<>>
  OBVIOUS
<1>8. D!FirstFragments(<<>>) = {}
  BY DEF D!FirstFragments
<1> QED BY <1>1, <1>5, <1>6, <1>7, <1>8

\* During a handshake there is nothing but the reply to it.
LEMMA HelloAlone ==
    ASSUME DvGood, NEW c \in Caller, calls[c].at = "hello", calls[c].phase = "header",
           svc.channelMessages[0].messages # <<>>, NEW m, m = svc.channelMessages[0].messages[1][1].msg
    PROVE  svc.readBuffer = <<>> /\ calls[c].want = m.id
<1> DEFINE cm == svc.channelMessages
           s == DvStream
<1>1. /\ s \in Seq(DvByte) /\ DvFragmenters(cm) /\ svc.readBuffer \in Seq(DvByte) /\ wire \in Seq(DvByte)
  BY DvFields
<1>2. Reads(calls, c) /\ calls[c].want # 0
  BY DEF Reads, DvGood, Wants
<1>3. sock = "open" /\ svc.connection # 0
  BY <1>2 DEF DvGood, Wants
<1>4. Framed(s, cm, calls) /\ Flows(s, cm, device, calls, stray, svc.isHandshakeComplete) /\ Codes(svc, calls)
  BY <1>3 DEF DvGood
<1>5. ~svc.isHandshakeComplete /\ \A d \in Caller : calls[d].at = "hello" => d = c
  BY <1>4 DEF Codes
<1> HIDE DEF s
<1>6. 0 \in DOMAIN cm /\ 1 \in 1..Len(cm[0].messages)
  <2>1. 0 \in DOMAIN cm /\ cm[0].messages \in Seq(Seq(DvByte))
    BY <1>1 DEF DvFragmenters, DvFragmenter
  <2> QED BY <2>1, TailIs
<1>7. m \in QueueMsgs(cm)
  BY <1>6, QueueMsgsAre
<1>8. \A o \in AllMsgs(s, cm, device) : o.id = calls[c].want
  BY <1>4, <1>5 DEF Flows, Wanted
<1>9. m \in AllMsgs(s, cm, device) /\ m \notin MsgsOf(s)
  BY <1>4, <1>7 DEF AllMsgs, Flows, Located, Apart
<1>10. \A o \in MsgsOf(s) : o = m
  <2>1. \A o, p \in AllMsgs(s, cm, device) : o.id = p.id => o = p
    BY <1>4 DEF AllMsgs, Flows, Located, Apart
  <2>2. MsgsOf(s) \subseteq AllMsgs(s, cm, device)
    BY DEF AllMsgs
  <2> QED BY <1>8, <1>9, <2>1, <2>2
<1>11. MsgsOf(s) = {}
  BY <1>9, <1>10
<1>12. Len(s) = 0
  <2>1. ~(1 \in 1..Len(s))
    BY <1>11 DEF MsgsOf
  <2> QED BY <1>1, <2>1
<1>13. Len(svc.readBuffer) = 0
  <2>1. s = Joined(svc.readBuffer, wire)
    BY DEF s, DvStream, Joined
  <2>2. Len(s) = Len(svc.readBuffer) + Len(wire)
    BY <1>1, <2>1, JoinedItems
  <2>3. Len(svc.readBuffer) \in Nat /\ Len(wire) \in Nat
    BY <1>1
  <2>4. \A x, y \in Nat : x + y = 0 => x = 0
    OBVIOUS
  <2>5. Len(svc.readBuffer) + Len(wire) = 0
    BY <1>12, <2>2
  <2> QED BY <2>3, <2>4, <2>5
<1> QED BY <1>1, <1>8, <1>9, <1>13

\* Return, alternative by alternative.
ReturnsHello(c, m, ch) ==
    /\ calls[c].at = "hello"
    /\ \E v : v = Popped(svc, ch) /\ svc' = Completed(v, D!Drained(v.readBuffer))
    /\ causes' = IF D!FirstFragments(svc.readBuffer) = {} THEN causes ELSE causes \cup {"drained"}
    /\ calls' = Got(c, m)
ReturnsMade(c, m) ==
    /\ calls[c].at = "make" /\ causes' = causes
    /\ svc' = Popped(D!Made(calls[c].held.code), 0)
    /\ \E cs : cs = Got(c, m) /\ calls' = [cs EXCEPT ![c] = [@ EXCEPT !.held.on = svc.connection]]
ReturnsFailed(c, m, ch) ==
    /\ calls[c].at \in {"hello", "make"} /\ causes' = causes /\ svc' = Popped(svc, ch)
    /\ \E cs : cs = Got(c, m) /\ calls' = Held(cs, c, [code |-> 0, on |-> 0])
ReturnsRead(c, m, ch) ==
    calls[c].at \in {"request", "listen"} /\ causes' = causes /\ svc' = Popped(svc, ch) /\ calls' = Got(c, m)

\* recvPacketFragments returns to one of four callers.
LEMMA ReturnsAre ==
    ASSUME NEW c \in Caller, NEW m, D!Return(c, m)
    PROVE  ReturnsHello(c, m, calls[c].channel) \/ ReturnsMade(c, m) \/ ReturnsFailed(c, m, calls[c].channel)
           \/ ReturnsRead(c, m, calls[c].channel)
  BY Zenon DEF D!Return, ReturnsHello, ReturnsMade, ReturnsFailed, ReturnsRead, Got, Popped, Completed, Held

\* The channel of makeChannel() is a new one of this connection.
LEMMA CodesMade ==
    ASSUME NEW v, NEW v2, NEW cs, NEW cs2, Codes(v, cs), v.connection # 0,
           NEW c \in Caller, cs[c].at = "make", NEW code, code = cs[c].held.code,
           /\ v2.connection = v.connection /\ v2.dialled = v.dialled /\ v2.lastChannelCode = v.lastChannelCode
           /\ v2.channelCache = code /\ v2.isHandshakeComplete = v.isHandshakeComplete
           /\ DOMAIN v2.channelMessages = DOMAIN v.channelMessages \cup {code},
           cs2[c].at = "idle", \A d \in Caller : d # c => cs2[d] = cs[d],
           cs2[c].held = [code |-> code, on |-> v.connection]
    PROVE  Codes(v2, cs2)
<1>1. /\ v.isHandshakeComplete /\ code # 0 /\ code \notin DOMAIN v.channelMessages /\ code <= v.lastChannelCode
      /\ \A d \in Caller \ {c} : cs[d].held.code # code
      /\ v.connection <= v.dialled
  BY DEF Codes
<1>2. cs2[c].held.code = code /\ cs2[c].held.on = v.connection
  OBVIOUS
<1>3. \A d \in Caller : cs2[d].at # "idle" => d # c
  OBVIOUS
<1>4. ASSUME NEW d \in Caller
      PROVE  /\ cs2[d].held.code <= v2.lastChannelCode /\ cs2[d].held.on <= v2.dialled
             /\ cs2[d].held.on # 0 =>
                  /\ cs2[d].held.code # 0
                  /\ cs2[d].held.on = v2.connection <=> cs2[d].held.code \in DOMAIN v2.channelMessages
                  /\ cs2[d].held.on = v2.connection => v2.isHandshakeComplete
  <2>1. CASE d = c
    BY <1>1, <1>2, <2>1
  <2>2. CASE d # c
    <3>1. cs2[d] = cs[d] /\ cs[d].held.code # code
      BY <1>1, <2>2
    <3>2. /\ cs[d].held.code <= v.lastChannelCode /\ cs[d].held.on <= v.dialled
          /\ cs[d].held.on # 0 =>
                  /\ cs[d].held.code # 0
                  /\ cs[d].held.on = v.connection <=> cs[d].held.code \in DOMAIN v.channelMessages
                  /\ cs[d].held.on = v.connection => v.isHandshakeComplete
      BY DEF Codes
    <3> QED BY <3>1, <3>2
  <2> QED BY <2>1, <2>2
<1>5. ASSUME NEW d \in Caller, cs2[d].at # "idle"
      PROVE  /\ cs2[d].at = "make" =>
                  /\ v2.isHandshakeComplete /\ cs2[d].held.code # 0 /\ cs2[d].held.code \notin DOMAIN v2.channelMessages
                  /\ \A e \in Caller \ {d} : cs2[e].held.code # cs2[d].held.code
             /\ cs2[d].at \in {"request", "listen"} => cs2[d].held.on # 0 /\ cs2[d].channel = cs2[d].held.code
             /\ cs2[d].at \in {"hello", "make"} => cs2[d].channel = 0
  <2>1. d # c /\ cs2[d] = cs[d] /\ cs[d].held.code # code
    BY <1>1, <1>3, <1>5
  <2>2. \A e \in Caller : cs2[e].held.code = cs[e].held.code
    BY <1>2
  <2>3. /\ cs[d].at = "make" =>
             /\ v.isHandshakeComplete /\ cs[d].held.code # 0 /\ cs[d].held.code \notin DOMAIN v.channelMessages
             /\ \A e \in Caller \ {d} : cs[e].held.code # cs[d].held.code
        /\ cs[d].at \in {"request", "listen"} => cs[d].held.on # 0 /\ cs[d].channel = cs[d].held.code
        /\ cs[d].at \in {"hello", "make"} => cs[d].channel = 0
    BY DEF Codes
  <2> QED BY <2>1, <2>2, <2>3
<1>6. ASSUME NEW d \in Caller, cs2[d].at # "idle"
      PROVE  cs2[d].at # "hello" /\ (cs2[d].at = "dial" => FALSE)
  <2>1. cs2[d] = cs[d]
    BY <1>3, <1>6
  <2> QED BY <1>1, <2>1 DEF Codes
<1>7. /\ \A x \in DOMAIN v2.channelMessages : x <= v2.lastChannelCode
      /\ v2.connection <= v2.dialled
      /\ v2.channelCache # 0 => v2.channelCache \in DOMAIN v2.channelMessages /\ v2.isHandshakeComplete
  BY <1>1 DEF Codes
<1> QED BY <1>4, <1>5, <1>6, <1>7 DEF Codes

\* c takes m, the first message of channel ch.
Takes(c, ch, m) ==
    /\ Reads(calls, c) /\ calls[c].phase = "header" /\ calls[c].channel = ch
    /\ ch \in DOMAIN svc.channelMessages /\ svc.channelMessages[ch].messages # <<>>
    /\ svc.channelMessages[ch].messages[1][1].msg = m

\* A delivered message keeps the invariant, whoever asked for it.
LEMMA TakenGood ==
    ASSUME DvGood, NEW c \in Caller, NEW ch, NEW m, Takes(c, ch, m),
           NEW c3, PoppedFrom(svc.channelMessages, c3, ch),
           svc'.channelMessages = c3, svc'.readBuffer = svc.readBuffer, svc'.connection = svc.connection, DvService(svc'),
           svc'.isHandshakeComplete = svc.isHandshakeComplete \/ calls[c].at = "hello",
           calls' \in [Caller -> DvCall], ~Reads(calls', c), \A d \in Caller : d # c => calls'[d] = calls[d],
           Codes(svc', calls'), UNCHANGED <<sock, wire, device, stray>>
    PROVE  DvGood'
<1>1. /\ Reads(calls, c) /\ calls[c].phase = "header" /\ ch = calls[c].channel
      /\ ch \in DOMAIN svc.channelMessages /\ svc.channelMessages[ch].messages # <<>>
  BY Zenon DEF Takes
<1> QED BY <1>1, PoppedGood, Zenon

\* A reply that is not the caller's own means its channel carried a stray one.
LEMMA TakenWanted ==
    ASSUME DvGood, NEW c \in Caller, NEW ch, NEW m, Takes(c, ch, m), calls[c].want \notin {0, m.id}
    PROVE  \E st \in stray : st[2] = ch
<1>1. /\ Reads(calls, c) /\ calls[c].phase = "header" /\ ch = calls[c].channel
      /\ ch \in DOMAIN svc.channelMessages /\ svc.channelMessages[ch].messages # <<>>
      /\ m = svc.channelMessages[ch].messages[1][1].msg
  BY Zenon DEF Takes
<1> QED BY <1>1, PoppedWanted, Zenon

\* The handshake's reply is its own, and the last of the bytes that came.
LEMMA TakenHello ==
    ASSUME DvGood, NEW c \in Caller, NEW m, Takes(c, 0, m), calls[c].at = "hello"
    PROVE  svc.readBuffer = <<>> /\ calls[c].want = m.id
<1>1. /\ calls[c].phase = "header" /\ svc.channelMessages[0].messages # <<>>
      /\ m = svc.channelMessages[0].messages[1][1].msg
  BY Zenon DEF Takes
<1> QED BY <1>1, HelloAlone, Zenon

\* A queue's first item is a whole message.
LEMMA TakenMessage ==
    ASSUME NEW cm, DvFragmenters(cm), Queues(cm), NEW ch \in DOMAIN cm, cm[ch].messages # <<>>
    PROVE  cm[ch].messages[1][1].msg \in DvMessage /\ D!Whole(cm[ch].messages[1])
<1> DEFINE q == cm[ch].messages
<1>1. q \in Seq(Seq(DvByte))
  BY DEF DvFragmenters, DvFragmenter
<1>2. 1 \in 1..Len(q)
  BY <1>1, TailIs
<1>3. q[1] \in Seq(DvByte) /\ Len(q[1]) >= 1 /\ D!Whole(q[1])
  <2>1. q[1] \in Seq(DvByte)
    BY <1>1, <1>2
  <2> QED BY <1>2, <2>1 DEF Queues
<1> HIDE DEF q
<1>4. q[1][1] \in DvByte
  BY <1>3
<1>5. q[1][1].msg \in DvMessage
  BY <1>4 DEF DvByte
<1> QED BY <1>3, <1>5 DEF q

\* recvPacketFragments returns.
LEMMA DvReturns ==
    ASSUME DvGood, D!RepliesMatch, NEW c \in Caller, NEW ch, NEW m, Takes(c, ch, m), D!Return(c, m),
           UNCHANGED <<sock, wire, device, stray>>
    PROVE  DvGood' /\ D!RepliesMatch' /\ causes' = causes
<1> DEFINE cm == svc.channelMessages
           buf == svc.readBuffer
           c3 == PoppedChannels(cm, ch)
<1>1. /\ DvFragmenters(cm) /\ buf \in Seq(DvByte) /\ calls \in [Caller -> DvCall] /\ DvService(svc)
      /\ svc.connection \in Nat /\ svc.dialled \in Nat /\ svc.lastChannelCode \in Nat /\ svc.channelCache \in Nat
      /\ svc.isHandshakeComplete \in BOOLEAN
  BY DvFields DEF DvGood, DvTyped
<1>2. svc.connection # 0 /\ Codes(svc, calls)
  <2>1. Reads(calls, c) /\ calls[c].channel \in DOMAIN svc.channelMessages
    BY DEF Takes
  <2> QED BY <2>1, ReaderConnected DEF DvGood
<1>3. m \in DvMessage /\ ch \in DOMAIN cm /\ cm[ch].messages # <<>> /\ Reads(calls, c) /\ calls[c].channel = ch
  <2>1. /\ ch \in DOMAIN cm /\ cm[ch].messages # <<>> /\ cm[ch].messages[1][1].msg = m
        /\ Reads(calls, c) /\ calls[c].channel = ch
    BY DEF Takes
  <2>2. Queues(cm)
    <3>1. svc.connection # 0
      BY <2>1, ReaderConnected
    <3> QED BY <3>1 DEF DvGood, Framed
  <2> QED BY <1>1, <2>1, <2>2, TakenMessage, Zenon
<1>4. PoppedFrom(cm, c3, ch) /\ DOMAIN c3 = DOMAIN cm /\ DvFragmenters(c3)
  <2>1. PoppedFrom(cm, c3, ch) /\ DOMAIN c3 = DOMAIN cm
    BY <1>1, <1>3, PoppedChannelsAre
  <2>2. Partials(cm)
    BY <1>2 DEF DvGood, Framed
  <2> QED BY <1>1, <2>1, <2>2, PoppedPartials
<1>5. Fields(svc, svc.connection, svc.dialled, svc.lastChannelCode, svc.channelCache, cm, svc.isHandshakeComplete, buf)
  BY <1>1, ServiceIs
<1>6. ASSUME NEW v, v = Popped(svc, ch)
      PROVE  Fields(v, svc.connection, svc.dialled, svc.lastChannelCode, svc.channelCache, c3, svc.isHandshakeComplete, buf)
  BY <1>5, <1>6, PoppedService
<1> HIDE DEF c3
<1>7. ASSUME NEW cs, cs = Got(c, m)
      PROVE  /\ cs \in [Caller -> DvCall] /\ \A d \in Caller : d # c => cs[d] = calls[d]
             /\ cs[c].at = "idle" /\ cs[c].want = 0 /\ cs[c].held = calls[c].held
             /\ cs[c].got # D!None => \E st \in stray : st[2] = cs[c].channel
  <2>2. /\ cs \in [Caller -> DvCall] /\ \A d \in Caller : d # c => cs[d] = calls[d]
        /\ cs[c].at = "idle" /\ cs[c].want = 0 /\ cs[c].held = calls[c].held
        /\ cs[c].got # D!None => calls[c].want \notin {0, m.id} /\ cs[c].channel = calls[c].channel
    BY <1>1, <1>3, <1>7, GotIs
  <2>3. calls[c].want \notin {0, m.id} => \E st \in stray : st[2] = ch
    BY TakenWanted
  <2> QED BY <1>3, <2>2, <2>3
\* A caller that is idle again, with the channels left.
<1>8. ASSUME calls' \in [Caller -> DvCall], calls'[c].at = "idle", \A d \in Caller : d # c => calls'[d] = calls[d],
             calls'[c].got # D!None => \E st \in stray : st[2] = calls'[c].channel,
             NEW c4, PoppedFrom(cm, c4, ch), DvFragmenters(c4), NEW cache \in Nat, NEW complete \in BOOLEAN,
             Fields(svc', svc.connection, svc.dialled, svc.lastChannelCode, cache, c4, complete, buf),
             complete = svc.isHandshakeComplete \/ calls[c].at = "hello", Codes(svc', calls')
      PROVE  DvGood' /\ D!RepliesMatch'
  <2>1. DvService(svc')
    BY <1>1, <1>8, FieldsTyped
  <2>2. /\ svc'.channelMessages = c4 /\ svc'.readBuffer = buf /\ svc'.connection = svc.connection
        /\ svc'.isHandshakeComplete = complete
    BY <1>8 DEF Fields
  <2>3. ~Reads(calls', c)
    BY <1>8 DEF Reads
  <2>4. DvGood'
    BY <1>8, <2>1, <2>2, <2>3, TakenGood
  <2>5. D!RepliesMatch'
    BY <1>8 DEF D!RepliesMatch
  <2> QED BY <2>4, <2>5
<1>9. CASE ReturnsHello(c, m, ch)
  <2>1. calls[c].at = "hello" /\ ch = 0
    BY <1>2, <1>3, <1>9 DEF ReturnsHello, Codes
  <2>2. buf = <<>> /\ calls[c].want = m.id
    BY <2>1, TakenHello
  <2>3. PICK v : v = Popped(svc, ch) /\ svc' = Completed(v, D!Drained(v.readBuffer))
    BY <1>9 DEF ReturnsHello
  <2>4. Fields(v, svc.connection, svc.dialled, svc.lastChannelCode, svc.channelCache, c3, svc.isHandshakeComplete, buf)
    BY <1>6, <2>3
  <2>5. D!Drained(v.readBuffer) = buf
    BY <2>2, <2>4, DrainedNothing DEF Fields
  <2>6. svc' = Completed(v, buf)
    BY <2>3, <2>5
  <2>7. Fields(svc', svc.connection, svc.dialled, svc.lastChannelCode, svc.channelCache, c3, TRUE, buf)
    <3>1. ASSUME NEW v2, v2 = Completed(v, buf)
          PROVE  Fields(v2, svc.connection, svc.dialled, svc.lastChannelCode, svc.channelCache, c3, TRUE, buf)
      BY <2>4, <3>1, CompletedService
    <3> QED BY <2>6, <3>1
  <2>8. causes' = causes
    <3>1. D!FirstFragments(svc.readBuffer) = {}
      BY <2>2, DrainedNothing
    <3> QED BY <1>9, <3>1 DEF ReturnsHello
  <2>9. calls' = Got(c, m)
    BY <1>9 DEF ReturnsHello
  <2>10. /\ calls' \in [Caller -> DvCall] /\ \A d \in Caller : d # c => calls'[d] = calls[d]
         /\ calls'[c].at = "idle" /\ calls'[c].want = 0 /\ calls'[c].held = calls[c].held
         /\ calls'[c].got # D!None => \E st \in stray : st[2] = calls'[c].channel
    BY <1>7, <2>9
  <2>11. Codes(svc', calls')
    <3>1. /\ svc'.connection = svc.connection /\ svc'.dialled = svc.dialled /\ svc'.lastChannelCode = svc.lastChannelCode
          /\ svc'.channelCache = svc.channelCache /\ DOMAIN svc'.channelMessages = DOMAIN svc.channelMessages
          /\ svc'.isHandshakeComplete = TRUE
      BY <1>4, <2>7 DEF Fields
    <3>2. KeepsService(svc, svc') /\ BecomesIdle(calls, calls', c)
      BY <2>10, <3>1 DEF KeepsService, BecomesIdle
    <3> QED BY <1>1, <1>2, <2>1, <2>10, <3>1, <3>2, CodesIdle
  <2>12. DvGood' /\ D!RepliesMatch'
    BY <1>1, <1>4, <1>8, <2>1, <2>7, <2>10, <2>11
  <2> QED BY <2>8, <2>12
<1>10. CASE ReturnsMade(c, m)
  <2> DEFINE code == calls[c].held.code
             c4 == PoppedChannels(D!Added(code), 0)
  <2>1. calls[c].at = "make" /\ ch = 0 /\ causes' = causes /\ svc' = Popped(D!Made(code), 0)
    BY <1>2, <1>3, <1>10 DEF ReturnsMade, Codes
  <2>2. code \notin DOMAIN cm /\ code \in Nat /\ calls[c].held \in [code : Nat, on : Nat]
    <3>1. calls[c].held \in [code : Nat, on : Nat]
      BY <1>1 DEF DvCall
    <3> QED BY <1>2, <2>1, <3>1 DEF Codes
  <2>3. Fields(svc', svc.connection, svc.dialled, svc.lastChannelCode, code, c4, svc.isHandshakeComplete, buf)
    <3>1. ASSUME NEW v2, v2 = Popped(D!Made(code), 0)
          PROVE  Fields(v2, svc.connection, svc.dialled, svc.lastChannelCode, code, c4, svc.isHandshakeComplete, buf)
      BY <1>1, <3>1, MadeService
    <3> QED BY <2>1, <3>1
  <2>4. PoppedFrom(cm, c4, ch) /\ DOMAIN c4 = DOMAIN cm \cup {code} /\ DvFragmenters(c4)
    <3>1. 0 \in DOMAIN cm /\ cm[0].messages # <<>>
      BY <1>3, <2>1
    <3>2. PoppedFrom(cm, c4, 0) /\ DOMAIN c4 = DOMAIN cm \cup {code}
      <4>1. ASSUME NEW k, k = code, NEW c0, c0 = cm, NEW ca, ca = D!Added(k), NEW c5, c5 = PoppedChannels(ca, 0)
            PROVE  PoppedFrom(c0, c5, 0) /\ DOMAIN c5 = DOMAIN c0 \cup {k}
        <5>1. DvFragmenters(c0) /\ 0 \in DOMAIN c0 /\ c0[0].messages # <<>> /\ k \in Nat /\ k \notin DOMAIN c0
              /\ c0 = svc.channelMessages
          BY <1>1, <2>2, <3>1, <4>1
        <5> QED BY <4>1, <5>1, AddedPopped
      <4> QED BY <4>1
    <3>3. Partials(cm)
      BY <1>2 DEF DvGood, Framed
    <3> QED BY <1>1, <2>1, <3>2, <3>3, PoppedPartials
  <2> HIDE DEF c4
  <2>5. PICK cs : cs = Got(c, m) /\ calls' = [cs EXCEPT ![c] = [@ EXCEPT !.held.on = svc.connection]]
    BY <1>10 DEF ReturnsMade
  <2>6. /\ cs \in [Caller -> DvCall] /\ \A d \in Caller : d # c => cs[d] = calls[d]
        /\ cs[c].at = "idle" /\ cs[c].want = 0 /\ cs[c].held = calls[c].held
        /\ cs[c].got # D!None => \E st \in stray : st[2] = cs[c].channel
    BY <1>7, <2>5
  <2>7. calls' = Held(cs, c, [code |-> code, on |-> svc.connection])
    <3>1. cs[c] \in DvCall /\ cs[c].held = calls[c].held
      BY <2>6
    <3>2. [calls[c].held EXCEPT !.on = svc.connection] = [code |-> code, on |-> svc.connection]
      BY <2>2
    <3>3. [cs[c] EXCEPT !.held.on = svc.connection] = [cs[c] EXCEPT !.held = [code |-> code, on |-> svc.connection]]
      BY <3>1, <3>2
    <3> QED BY <2>5, <3>3 DEF Held
  <2>8. [code |-> code, on |-> svc.connection] \in [code : Nat, on : Nat]
    BY <1>1, <2>2
  <2>9. /\ calls' \in [Caller -> DvCall] /\ \A d \in Caller : d # c => calls'[d] = calls[d]
        /\ calls'[c].at = "idle" /\ calls'[c].held = [code |-> code, on |-> svc.connection]
        /\ calls'[c].got # D!None => \E st \in stray : st[2] = calls'[c].channel
    <3>1. ASSUME NEW cs2, cs2 = Held(cs, c, [code |-> code, on |-> svc.connection])
          PROVE  /\ cs2 \in [Caller -> DvCall] /\ \A d \in Caller : d # c => cs2[d] = cs[d]
                 /\ cs2[c].at = cs[c].at /\ cs2[c].held = [code |-> code, on |-> svc.connection]
                 /\ cs2[c].got = cs[c].got /\ cs2[c].channel = cs[c].channel
      BY <2>6, <2>8, <3>1, HeldIs
    <3>2. /\ calls' \in [Caller -> DvCall] /\ \A d \in Caller : d # c => calls'[d] = cs[d]
          /\ calls'[c].at = cs[c].at /\ calls'[c].held = [code |-> code, on |-> svc.connection]
          /\ calls'[c].got = cs[c].got /\ calls'[c].channel = cs[c].channel
      BY <2>7, <3>1
    <3> QED BY <2>6, <3>2
  <2>10. Codes(svc', calls')
    <3>1. /\ svc'.connection = svc.connection /\ svc'.dialled = svc.dialled /\ svc'.lastChannelCode = svc.lastChannelCode
          /\ svc'.channelCache = code /\ svc'.isHandshakeComplete = svc.isHandshakeComplete
          /\ DOMAIN svc'.channelMessages = DOMAIN svc.channelMessages \cup {code}
      BY <2>3, <2>4 DEF Fields
    <3> QED BY <1>2, <2>1, <2>9, <3>1, CodesMade
  <2>11. DvGood' /\ D!RepliesMatch'
    BY <1>1, <1>8, <2>2, <2>3, <2>4, <2>9, <2>10
  <2> QED BY <2>1, <2>11
<1>11. CASE ReturnsFailed(c, m, ch)
  <2>1. causes' = causes /\ svc' = Popped(svc, ch)
    BY <1>11 DEF ReturnsFailed
  <2>2. Fields(svc', svc.connection, svc.dialled, svc.lastChannelCode, svc.channelCache, c3, svc.isHandshakeComplete, buf)
    BY <1>6, <2>1
  <2>3. PICK cs : cs = Got(c, m) /\ calls' = Held(cs, c, [code |-> 0, on |-> 0])
    BY <1>11 DEF ReturnsFailed
  <2>4. /\ cs \in [Caller -> DvCall] /\ \A d \in Caller : d # c => cs[d] = calls[d]
        /\ cs[c].at = "idle" /\ cs[c].want = 0 /\ cs[c].held = calls[c].held
        /\ cs[c].got # D!None => \E st \in stray : st[2] = cs[c].channel
    BY <1>7, <2>3
  <2>5. [code |-> 0, on |-> 0] \in [code : Nat, on : Nat]
    OBVIOUS
  <2>6. /\ calls' \in [Caller -> DvCall] /\ \A d \in Caller : d # c => calls'[d] = calls[d]
        /\ calls'[c].at = "idle" /\ calls'[c].held = [code |-> 0, on |-> 0]
        /\ calls'[c].got # D!None => \E st \in stray : st[2] = calls'[c].channel
    <3>1. ASSUME NEW cs2, cs2 = Held(cs, c, [code |-> 0, on |-> 0])
          PROVE  /\ cs2 \in [Caller -> DvCall] /\ \A d \in Caller : d # c => cs2[d] = cs[d]
                 /\ cs2[c].at = cs[c].at /\ cs2[c].held = [code |-> 0, on |-> 0]
                 /\ cs2[c].got = cs[c].got /\ cs2[c].channel = cs[c].channel
      BY <2>4, <2>5, <3>1, HeldIs
    <3>2. /\ calls' \in [Caller -> DvCall] /\ \A d \in Caller : d # c => calls'[d] = cs[d]
          /\ calls'[c].at = cs[c].at /\ calls'[c].held = [code |-> 0, on |-> 0]
          /\ calls'[c].got = cs[c].got /\ calls'[c].channel = cs[c].channel
      BY <2>3, <3>1
    <3> QED BY <2>4, <3>2
  <2>7. Codes(svc', calls')
    <3>1. /\ svc'.connection = svc.connection /\ svc'.dialled = svc.dialled /\ svc'.lastChannelCode = svc.lastChannelCode
          /\ svc'.channelCache = svc.channelCache /\ DOMAIN svc'.channelMessages = DOMAIN svc.channelMessages
          /\ svc'.isHandshakeComplete = svc.isHandshakeComplete
      BY <1>4, <2>2 DEF Fields
    <3>2. KeepsService(svc, svc') /\ BecomesIdle(calls, calls', c)
      BY <2>6, <3>1 DEF KeepsService, BecomesIdle
    <3> QED BY <1>1, <1>2, <2>6, <3>1, <3>2, CodesIdle
  <2>8. DvGood' /\ D!RepliesMatch'
    BY <1>1, <1>4, <1>8, <2>2, <2>6, <2>7
  <2> QED BY <2>1, <2>8
<1>12. CASE ReturnsRead(c, m, ch)
  <2>1. causes' = causes /\ svc' = Popped(svc, ch) /\ calls' = Got(c, m)
    BY <1>12 DEF ReturnsRead
  <2>2. Fields(svc', svc.connection, svc.dialled, svc.lastChannelCode, svc.channelCache, c3, svc.isHandshakeComplete, buf)
    BY <1>6, <2>1
  <2>3. /\ calls' \in [Caller -> DvCall] /\ \A d \in Caller : d # c => calls'[d] = calls[d]
        /\ calls'[c].at = "idle" /\ calls'[c].want = 0 /\ calls'[c].held = calls[c].held
        /\ calls'[c].got # D!None => \E st \in stray : st[2] = calls'[c].channel
    BY <1>7, <2>1
  <2>4. Codes(svc', calls')
    <3>1. /\ svc'.connection = svc.connection /\ svc'.dialled = svc.dialled /\ svc'.lastChannelCode = svc.lastChannelCode
          /\ svc'.channelCache = svc.channelCache /\ DOMAIN svc'.channelMessages = DOMAIN svc.channelMessages
          /\ svc'.isHandshakeComplete = svc.isHandshakeComplete
      BY <1>4, <2>2 DEF Fields
    <3>2. KeepsService(svc, svc') /\ BecomesIdle(calls, calls', c)
      BY <2>3, <3>1 DEF KeepsService, BecomesIdle
    <3> QED BY <1>1, <1>2, <2>3, <3>1, <3>2, CodesIdle
  <2>5. DvGood' /\ D!RepliesMatch'
    BY <1>1, <1>4, <1>8, <2>2, <2>3, <2>4
  <2> QED BY <2>1, <2>5
<1> QED BY <1>3, <1>9, <1>10, <1>11, <1>12, ReturnsAre

-----------------------------------------------------------------------------
(* Calls that end.                                                             *)

\* Callers that stop, with the channels they hold.
Quits(cs, cs2) ==
    \A d \in Caller : cs2[d].held = cs[d].held /\ (cs2[d] = cs[d] \/ cs2[d].at \in {"idle", "closing"})

\* Calls that end keep the channel codes apart.
LEMMA CodesQuit ==
    ASSUME NEW v, NEW cs, NEW cs2, Codes(v, cs), Quits(cs, cs2)
    PROVE  Codes(v, cs2)
<1>1. \A d \in Caller : cs2[d].held = cs[d].held
  BY DEF Quits
<1>2. \A d \in Caller : cs2[d].at \notin {"idle", "closing"} => cs2[d] = cs[d]
  BY DEF Quits
<1>3. ASSUME NEW d \in Caller, cs2[d].at \in {"hello", "dial"}
      PROVE  \A e \in Caller \ {d} : cs2[e].at # cs2[d].at
  <2>1. cs2[d] = cs[d]
    BY <1>2, <1>3
  <2>2. \A e \in Caller \ {d} : cs[e].at # cs[d].at
    BY <1>3, <2>1 DEF Codes
  <2> QED BY <1>2, <1>3, <2>1, <2>2
<1>4. ASSUME NEW d \in Caller, cs2[d].at \notin {"idle", "closing"}
      PROVE  /\ cs2[d].at = "make" =>
                  /\ v.isHandshakeComplete /\ cs2[d].held.code # 0 /\ cs2[d].held.code \notin DOMAIN v.channelMessages
                  /\ \A e \in Caller \ {d} : cs2[e].held.code # cs2[d].held.code
             /\ cs2[d].at \in {"request", "listen"} => cs2[d].held.on # 0 /\ cs2[d].channel = cs2[d].held.code
             /\ cs2[d].at \in {"hello", "make"} => cs2[d].channel = 0
             /\ cs2[d].at = "hello" => ~v.isHandshakeComplete /\ v.connection # 0
             /\ cs2[d].at = "dial" => v.connection = 0
             /\ InPayload(cs2, d) => v.connection # 0
  <2>1. cs2[d] = cs[d]
    BY <1>2, <1>4
  <2>2. InPayload(cs2, d) => InPayload(cs, d)
    BY <2>1 DEF InPayload, Reads
  <2> QED BY <1>1, <2>1, <2>2 DEF Codes
<1>5. \A d \in Caller : InPayload(cs2, d) => cs2[d].at \notin {"idle", "closing"}
  BY DEF InPayload, Reads
<1>6. /\ \A ch \in DOMAIN v.channelMessages : ch <= v.lastChannelCode
      /\ v.connection <= v.dialled
      /\ v.channelCache # 0 => v.channelCache \in DOMAIN v.channelMessages /\ v.isHandshakeComplete
      /\ v.connection = 0 => v.channelMessages = D!Broadcast /\ ~v.isHandshakeComplete
      /\ \A d \in Caller :
           /\ cs2[d].held.code <= v.lastChannelCode /\ cs2[d].held.on <= v.dialled
           /\ cs2[d].held.on # 0 =>
                /\ cs2[d].held.code # 0
                /\ cs2[d].held.on = v.connection <=> cs2[d].held.code \in DOMAIN v.channelMessages
                /\ cs2[d].held.on = v.connection => v.isHandshakeComplete
  BY <1>1 DEF Codes
<1> QED BY <1>3, <1>4, <1>5, <1>6 DEF Codes

\* A reader leaves with nothing of it on the stream.
LeavesNothing(d) ==
    /\ InPayload(calls, d) => DvStream = <<>>
    /\ sock = "open" => calls[d].want = 0 \/ calls[d].channel \notin DOMAIN svc.channelMessages

\* Readers that leave no half-read frame behind may go.
LEMMA DvLeaves ==
    ASSUME DvGood, UNCHANGED <<svc, sock, wire, device, stray>>, calls' \in [Caller -> DvCall], Quits(calls, calls'),
           \A d \in Caller : Reads(calls, d) /\ ~Reads(calls', d) => LeavesNothing(d)
    PROVE  DvGood'
<1>1. Codes(svc, calls')
  BY CodesQuit DEF DvGood
<1>2. FewerReaders(calls, calls')
  <2>1. ASSUME NEW d \in Caller, Reads(calls', d)  PROVE calls'[d] = calls[d]
    BY <2>1 DEF Quits, Reads
  <2> QED BY <2>1 DEF FewerReaders, SameReader, Reads
<1>3. \A d \in Caller : Reads(calls, d) /\ ~Reads(calls', d) =>
               /\ InPayload(calls, d) => DvStream = <<>>
               /\ sock = "open" => \/ calls[d].want = 0
                                   \/ calls[d].channel \notin DOMAIN svc.channelMessages
  BY DEF LeavesNothing
<1> QED BY <1>1, <1>2, <1>3, ReadersLeave

\* c ends its call.
LEMMA DvLeft ==
    ASSUME DvGood, UNCHANGED <<svc, sock, wire, device, stray>>, NEW c \in Caller, calls' = D!Idle(c),
           Reads(calls, c) => LeavesNothing(c)
    PROVE  DvGood'
<1>1. ASSUME NEW cs, cs = D!Idle(c)
      PROVE  cs \in [Caller -> DvCall] /\ Quits(calls, cs) /\ \A d \in Caller : d # c => cs[d] = calls[d]
  <2>1. calls \in [Caller -> DvCall]
    BY DvFields
  <2>2. /\ cs \in [Caller -> DvCall] /\ \A d \in Caller : d # c => cs[d] = calls[d]
        /\ cs[c].at = "idle" /\ cs[c].held = calls[c].held
    BY <1>1, <2>1, IdleIs
  <2> QED BY <2>2 DEF Quits
<1>2. calls' \in [Caller -> DvCall] /\ Quits(calls, calls') /\ \A d \in Caller : d # c => calls'[d] = calls[d]
  BY <1>1
<1>3. \A d \in Caller : Reads(calls, d) /\ ~Reads(calls', d) => LeavesNothing(d)
  BY <1>2 DEF Reads
<1> QED BY <1>2, <1>3, DvLeaves

\* Nobody got what was not for it.
LEMMA RepliesKept ==
    ASSUME D!RepliesMatch, stray \subseteq stray',
           \A d \in Caller : calls'[d].got # D!None => calls[d].got # D!None /\ calls'[d].channel = calls[d].channel
    PROVE  D!RepliesMatch'
  BY DEF D!RepliesMatch

\* A call that ended got nothing.
LEMMA RepliesLeft ==
    ASSUME DvGood, D!RepliesMatch, UNCHANGED stray, NEW c \in Caller, calls' = D!Idle(c)
    PROVE  D!RepliesMatch'
<1>1. calls \in [Caller -> DvCall]
  BY DvFields
<1>2. ASSUME NEW cs, cs = D!Idle(c)  PROVE cs[c].got = D!None /\ \A d \in Caller : d # c => cs[d] = calls[d]
  BY <1>1, <1>2, IdleIs
<1>3. calls'[c].got = D!None /\ \A d \in Caller : d # c => calls'[d] = calls[d]
  BY <1>2
<1> QED BY <1>3, RepliesKept

\* One iteration, alternative by alternative.
Unchannelled(c) == /\ calls[c].phase = "header" /\ calls[c].channel \notin DOMAIN svc.channelMessages
                   /\ calls' = D!Idle(c) /\ UNCHANGED <<svc, causes>>
Delivers(c) == /\ calls[c].phase = "header" /\ calls[c].channel \in DOMAIN svc.channelMessages
               /\ svc.channelMessages[calls[c].channel].messages # <<>>
               /\ LET frames == Head(svc.channelMessages[calls[c].channel].messages)
                  IN IF D!Whole(frames) THEN D!Return(c, frames[1].msg) ELSE D!Garbled
Heads(c) == /\ calls[c].phase = "header" /\ calls[c].channel \in DOMAIN svc.channelMessages
            /\ svc.channelMessages[calls[c].channel].messages = <<>>
            /\ Len(svc.readBuffer) >= 2 /\ D!TakeHeader(c)
Unread(c) == /\ sock # "open" /\ calls' = D!Idle(c) /\ UNCHANGED <<svc, causes>>
             /\ Len(svc.readBuffer) < D!Needs(c)

\* One iteration of the read loop: five alternatives.
LEMMA IterationIs ==
    ASSUME NEW c \in Caller, D!Iterate(c)
    PROVE  /\ Reads(calls, c) /\ UNCHANGED <<sock, wire, device, stray>>
           /\ Unchannelled(c) \/ Delivers(c) \/ Heads(c) \/ Unread(c)
              \/ (calls[c].phase = "payload" /\ svc.readBuffer # <<>> /\ D!TakePayload(c))
<1>1. Reads(calls, c)
  BY DEF D!Iterate, D!Readers, Reads
<1>2. Unchannelled(c) \/ Delivers(c) \/ Heads(c) \/ Unread(c)
              \/ (calls[c].phase = "payload" /\ svc.readBuffer # <<>> /\ D!TakePayload(c))
  BY Zenon DEF D!Iterate, D!HasMessage, Unchannelled, Delivers, Heads, Unread
<1> QED BY <1>1, <1>2 DEF D!Iterate

\* The reader's channel has a message.
LEMMA DvDelivers ==
    ASSUME DvGood, D!RepliesMatch, NEW c \in Caller, Reads(calls, c), Delivers(c), UNCHANGED <<sock, wire, device, stray>>
    PROVE  DvGood' /\ D!RepliesMatch' /\ causes' = causes
<1> DEFINE cm == svc.channelMessages
           ch == calls[c].channel
           frames == Head(cm[ch].messages)
<1>1. /\ calls[c].phase = "header" /\ ch \in DOMAIN cm /\ cm[ch].messages # <<>>
      /\ IF D!Whole(frames) THEN D!Return(c, frames[1].msg) ELSE D!Garbled
  BY DEF Delivers
<1>2. DvFragmenters(cm) /\ Queues(cm)
  <2>1. svc.connection # 0
    BY <1>1, ReaderConnected
  <2> QED BY <2>1, DvFields DEF DvGood, Framed
<1>3. frames = cm[ch].messages[1]
  <2>1. cm[ch].messages \in Seq(Seq(DvByte))
    BY <1>1, <1>2 DEF DvFragmenters, DvFragmenter
  <2> QED BY <1>1, <2>1, HeadIs
<1>4. D!Whole(cm[ch].messages[1])
  BY <1>1, <1>2, TakenMessage, SMTT(30)
<1> HIDE DEF frames
<1>5. D!Return(c, frames[1].msg)
  BY <1>1, <1>3, <1>4
<1>6. PICK m : m = frames[1].msg
  BY SMTT(30)
<1>7. Takes(c, ch, m) /\ D!Return(c, m)
  BY <1>1, <1>3, <1>5, <1>6 DEF Takes
<1> QED BY <1>7, DvReturns

\* Between header and payload a call is what it was.
Phased(c, ph, h) == [calls EXCEPT ![c] = [@ EXCEPT !.phase = ph, !.header = h]]

\* The phase changes neither what a call got nor its channel.
LEMMA PhaseIs ==
    ASSUME calls \in [Caller -> DvCall], NEW c \in Caller, NEW ph, NEW h, NEW cs,
           cs = Phased(c, ph, h)
    PROVE  \A d \in Caller : cs[d].got = calls[d].got /\ cs[d].channel = calls[d].channel
<1> DEFINE r == [calls[c] EXCEPT !.phase = ph, !.header = h]
<1>1. cs = [calls EXCEPT ![c] = r]
  BY DEF Phased
<1>2. calls[c] \in DvCall
  OBVIOUS
<1>3. r.got = calls[c].got /\ r.channel = calls[c].channel
  BY <1>2 DEF DvCall
<1> HIDE DEF r
<1> QED BY <1>1, <1>3

\* Reading a header or a payload answers no call.
LEMMA HeadsReplies ==
    ASSUME DvGood, D!RepliesMatch, NEW c \in Caller, D!TakeHeader(c) \/ D!TakePayload(c), UNCHANGED stray
    PROVE  D!RepliesMatch'
<1>1. calls \in [Caller -> DvCall]
  BY DvFields
<1>2. calls' = calls \/ \E ph, h : calls' = Phased(c, ph, h)
  <2>1. CASE D!TakeHeader(c)
    BY <2>1, Zenon DEF D!TakeHeader, D!Garbled, Phased
  <2>2. CASE D!TakePayload(c)
    BY <2>2, Zenon DEF D!TakePayload, D!Garbled, Phased
  <2> QED BY Zenon, <2>1, <2>2
<1>3. \A d \in Caller : calls'[d].got = calls[d].got /\ calls'[d].channel = calls[d].channel
  <2>1. ASSUME NEW ph, NEW h, NEW cs, cs = Phased(c, ph, h)
        PROVE  \A d \in Caller : cs[d].got = calls[d].got /\ cs[d].channel = calls[d].channel
    BY <1>1, <2>1, PhaseIs
  <2>2. CASE calls' = calls
    BY <2>2
  <2>3. CASE \E ph, h : calls' = Phased(c, ph, h)
    <3>1. PICK ph, h : calls' = Phased(c, ph, h)
      BY <2>3
    <3> QED BY <2>1, <3>1
  <2> QED BY <1>2, <2>2, <2>3
<1> QED BY <1>3, RepliesKept

\* One iteration of the read loop.
LEMMA DvIterates ==
    ASSUME DvGood, D!RepliesMatch, NEW c \in Caller, D!Iterate(c)
    PROVE  DvGood' /\ D!RepliesMatch' /\ causes' = causes
<1>1. Reads(calls, c) /\ UNCHANGED <<sock, wire, device, stray>>
  BY IterationIs
<1>2. CASE Unchannelled(c)
  <2>1. calls' = D!Idle(c) /\ UNCHANGED <<svc, causes>> /\ LeavesNothing(c)
    BY <1>2 DEF Unchannelled, LeavesNothing, InPayload
  <2> QED BY <1>1, <2>1, DvLeft, RepliesLeft
<1>3. CASE Delivers(c)
  BY <1>1, <1>3, DvDelivers
<1>4. CASE Heads(c)
  BY <1>1, <1>4, DvTakesHeader, HeadsReplies DEF Heads
<1>5. CASE Unread(c)
  <2>1. calls' = D!Idle(c) /\ UNCHANGED <<svc, causes>> /\ sock # "open"
    BY <1>5 DEF Unread
  <2>2. LeavesNothing(c)
    <3>1. ASSUME InPayload(calls, c)  PROVE DvStream = <<>>
      <4>1. Len(svc.readBuffer) < 1
        BY <1>5, <3>1 DEF Unread, D!Needs, InPayload
      <4>2. svc.readBuffer \in Seq(DvByte) /\ wire = <<>>
        BY <2>1, DvFields DEF DvGood, Wants
      <4>3. svc.readBuffer = <<>>
        BY <4>1, <4>2
      <4> QED BY <4>2, <4>3 DEF DvStream
    <3> QED BY <2>1, <3>1 DEF LeavesNothing
  <2> QED BY <1>1, <2>1, <2>2, DvLeft, RepliesLeft
<1>6. CASE calls[c].phase = "payload" /\ svc.readBuffer # <<>> /\ D!TakePayload(c)
  <2>1. InPayload(calls, c)
    BY <1>1, <1>6 DEF InPayload
  <2> QED BY <1>1, <1>6, <2>1, DvTakesPayload, HeadsReplies
<1> QED BY <1>2, <1>3, <1>4, <1>5, <1>6, IterationIs

\* The AbortSignal ends a read between two frames.
LEMMA DvAborts ==
    ASSUME DvGood, D!RepliesMatch, NEW c \in Caller, D!Abort(c)
    PROVE  DvGood' /\ D!RepliesMatch' /\ causes' = causes
<1>1. /\ calls[c].at = "listen" /\ calls[c].phase = "header" /\ calls' = D!Idle(c)
      /\ UNCHANGED <<svc, sock, wire, device, stray, causes>>
  BY DEF D!Abort, D!Abortable
<1>2. LeavesNothing(c)
  BY <1>1 DEF DvGood, Wants, LeavesNothing, InPayload
<1> QED BY <1>1, <1>2, DvLeft, RepliesLeft

\* The dial fails.
LEMMA DvDialFails ==
    ASSUME DvGood, D!RepliesMatch, NEW c \in Caller, D!DialFails(c)
    PROVE  DvGood' /\ D!RepliesMatch' /\ causes' = causes
<1>1. /\ calls[c].at = "dial" /\ calls' = D!Idle(c)
      /\ UNCHANGED <<svc, sock, wire, device, stray, causes>>
  BY DEF D!DialFails
<1>2. ~Reads(calls, c)
  BY <1>1 DEF Reads
<1> QED BY <1>1, <1>2, DvLeft, RepliesLeft

-----------------------------------------------------------------------------
(* The connection ends.                                                        *)

\* A call at another point.
At(c, a) == [calls EXCEPT ![c] = [@ EXCEPT !.at = a]]

\* c is at another place of its call.
LEMMA AtIs ==
    ASSUME calls \in [Caller -> DvCall], NEW c \in Caller, NEW a \in {"dial", "closing"}, NEW cs, cs = At(c, a)
    PROVE  /\ cs \in [Caller -> DvCall] /\ \A d \in Caller : d # c => cs[d] = calls[d]
           /\ cs[c].at = a /\ cs[c].held = calls[c].held /\ cs[c].got = calls[c].got /\ cs[c].channel = calls[c].channel
<1> DEFINE r == [calls[c] EXCEPT !.at = a]
<1>1. cs = [calls EXCEPT ![c] = r]
  BY DEF At
<1>2. calls[c] \in DvCall
  OBVIOUS
<1>3. r \in DvCall /\ r.at = a /\ r.held = calls[c].held /\ r.got = calls[c].got /\ r.channel = calls[c].channel
  BY <1>2 DEF DvCall
<1> HIDE DEF r
<1> QED BY <1>1, <1>3

\* connect() dials.
LEMMA DvConnects ==
    ASSUME DvGood, D!RepliesMatch, NEW c \in Caller, D!Connect(c)
    PROVE  DvGood' /\ D!RepliesMatch' /\ causes' = causes
<1>1. /\ \A o \in Caller : calls[o].at = "idle"
      /\ svc.connection = 0 /\ calls' = At(c, "dial") /\ UNCHANGED <<svc, sock, wire, device, stray, causes>>
  BY Zenon DEF D!Connect, At
<1>2. calls \in [Caller -> DvCall] /\ Codes(svc, calls)
  BY DvFields DEF DvGood
<1>3. ASSUME NEW cs, cs = At(c, "dial")
      PROVE  /\ cs \in [Caller -> DvCall] /\ \A d \in Caller : d # c => cs[d] = calls[d]
             /\ cs[c].at = "dial" /\ cs[c].held = calls[c].held /\ cs[c].got = calls[c].got /\ cs[c].channel = calls[c].channel
  BY <1>2, <1>3, AtIs
<1>4. /\ calls' \in [Caller -> DvCall] /\ \A d \in Caller : d # c => calls'[d] = calls[d]
      /\ calls'[c].at = "dial" /\ calls'[c].held = calls[c].held /\ calls'[c].got = calls[c].got
      /\ calls'[c].channel = calls[c].channel
  BY <1>1, <1>3
<1>5. Codes(svc, calls')
  <2>1. \A d \in Caller : calls'[d].held = calls[d].held /\ calls'[d].at \in {"dial", "idle"} /\ ~InPayload(calls', d)
                          /\ (calls'[d].at = "dial" => d = c)
    BY <1>1, <1>4 DEF InPayload, Reads
  <2>2. /\ \A ch \in DOMAIN svc.channelMessages : ch <= svc.lastChannelCode
        /\ svc.connection <= svc.dialled
        /\ svc.channelCache # 0 => svc.channelCache \in DOMAIN svc.channelMessages /\ svc.isHandshakeComplete
        /\ svc.connection = 0 => svc.channelMessages = D!Broadcast /\ ~svc.isHandshakeComplete
        /\ \A d \in Caller :
             /\ calls'[d].held.code <= svc.lastChannelCode /\ calls'[d].held.on <= svc.dialled
             /\ calls'[d].held.on # 0 =>
                  /\ calls'[d].held.code # 0
                  /\ calls'[d].held.on = svc.connection <=> calls'[d].held.code \in DOMAIN svc.channelMessages
                  /\ calls'[d].held.on = svc.connection => svc.isHandshakeComplete
    BY <1>2, <2>1 DEF Codes
  <2> QED BY <1>1, <2>1, <2>2 DEF Codes
<1>6. FewerReaders(calls, calls')
  BY <1>4 DEF FewerReaders, SameReader, Reads
<1>7. DvGood'
  BY <1>1, <1>4, <1>5, <1>6, ReadersLeave DEF Reads
<1>8. D!RepliesMatch'
  BY <1>1, <1>4, RepliesKept
<1> QED BY <1>1, <1>7, <1>8

\* Every reader, and who else is named, is told that the connection ended.
Ended(others) == [d \in Caller |-> IF d \in D!Readers \cup others THEN D!Idle(d)[d] ELSE calls[d]]

\* Nobody reads any more, and no call got anything.
LEMMA EndedIs ==
    ASSUME calls \in [Caller -> DvCall], NEW others, NEW cs, cs = Ended(others)
    PROVE  /\ cs \in [Caller -> DvCall] /\ Quits(calls, cs) /\ \A d \in Caller : ~Reads(cs, d)
           /\ \A d \in Caller : cs[d].got # D!None => cs[d] = calls[d]
<1>1. ASSUME NEW d \in Caller
      PROVE  /\ cs[d] \in DvCall /\ cs[d].held = calls[d].held /\ (cs[d] = calls[d] \/ cs[d].at = "idle") /\ ~Reads(cs, d)
             /\ cs[d].got # D!None => cs[d] = calls[d]
  <2>1. CASE d \in D!Readers \cup others
    <3>1. cs[d] = D!Idle(d)[d]
      BY <2>1 DEF Ended
    <3>2. ASSUME NEW i, i = D!Idle(d)
          PROVE  i[d] \in DvCall /\ i[d].at = "idle" /\ i[d].held = calls[d].held /\ i[d].got = D!None
      BY <3>2, IdleIs
    <3>3. cs[d] \in DvCall /\ cs[d].at = "idle" /\ cs[d].held = calls[d].held /\ cs[d].got = D!None
      BY <3>1, <3>2
    <3> QED BY <3>3 DEF Reads
  <2>2. CASE d \notin D!Readers \cup others
    <3>1. cs[d] = calls[d]
      BY <2>2 DEF Ended
    <3> QED BY <2>2, <3>1 DEF D!Readers, Reads
  <2> QED BY <2>1, <2>2
<1>2. cs = [d \in Caller |-> cs[d]]
  BY DEF Ended
<1> QED BY <1>1, <1>2 DEF Quits

\* A service without channels has the broadcast channel's fragmenter.
LEMMA BroadcastIs ==
    /\ DvFragmenters(D!Broadcast) /\ DOMAIN D!Broadcast = {0} /\ D!Broadcast[0] = D!Fragmenter
  BY NewFragmenter DEF D!Broadcast, DvFragmenters

\* disconnect(): every channel is forgotten, the buffer stays.
LEMMA DvDisconnects ==
    ASSUME DvGood, D!RepliesMatch, NEW others, D!Disconnect(others)
    PROVE  DvGood' /\ D!RepliesMatch' /\ causes' = causes
<1>1. /\ svc' = [svc EXCEPT !.connection = 0, !.isHandshakeComplete = FALSE, !.channelCache = 0,
                            !.channelMessages = D!Broadcast]
      /\ sock' = "destroyed" /\ wire' = <<>> /\ calls' = Ended(others) /\ UNCHANGED <<device, stray, causes>>
  BY DEF D!Disconnect, D!ClearedMessages, Ended
<1>2. calls \in [Caller -> DvCall] /\ Codes(svc, calls) /\ DvService(svc) /\ svc.lastChannelCode \in Nat /\ svc.dialled \in Nat
      /\ svc.readBuffer \in Seq(DvByte)
  BY DvFields DEF DvGood, DvTyped
<1>3. ASSUME NEW cs, cs = Ended(others)
      PROVE  /\ cs \in [Caller -> DvCall] /\ Quits(calls, cs) /\ \A d \in Caller : ~Reads(cs, d)
             /\ \A d \in Caller : cs[d].got # D!None => cs[d] = calls[d]
  BY <1>2, <1>3, EndedIs
<1>4. /\ calls' \in [Caller -> DvCall] /\ Quits(calls, calls') /\ \A d \in Caller : ~Reads(calls', d)
      /\ \A d \in Caller : calls'[d].got # D!None => calls'[d] = calls[d]
  BY <1>1, <1>3
<1>5. Fields(svc', 0, svc.dialled, svc.lastChannelCode, 0, D!Broadcast, FALSE, svc.readBuffer)
  BY <1>1, <1>2 DEF DvService, Fields
<1>6. DvService(svc')
  BY <1>2, <1>5, FieldsTyped, BroadcastIs
<1>7. /\ svc'.connection = 0 /\ svc'.dialled = svc.dialled /\ svc'.lastChannelCode = svc.lastChannelCode
      /\ svc'.channelCache = 0 /\ svc'.channelMessages = D!Broadcast /\ svc'.isHandshakeComplete = FALSE
  BY <1>5 DEF Fields
<1>8. Codes(svc', calls')
  <2>1. Codes(svc, calls')
    BY <1>2, <1>4, CodesQuit
  <2>2. \A d \in Caller : calls'[d].at \notin {"hello", "make", "request", "listen"} /\ ~InPayload(calls', d)
    BY <1>4 DEF InPayload, Reads
  <2>3. \A d \in Caller : calls'[d].held.code <= svc.lastChannelCode /\ calls'[d].held.on <= svc.dialled
                          /\ (calls'[d].held.on # 0 => calls'[d].held.code # 0)
                          /\ (calls'[d].at = "dial" => \A e \in Caller \ {d} : calls'[e].at # "dial")
    BY <2>1 DEF Codes
  <2>4. DOMAIN svc'.channelMessages = {0} /\ 0 <= svc.lastChannelCode /\ 0 <= svc.dialled
    BY <1>2, <1>7, BroadcastIs
  <2> QED BY <1>7, <2>2, <2>3, <2>4 DEF Codes
<1>9. Wants(sock, svc, calls)'
  BY <1>1, <1>4 DEF Wants, Reads
<1>10. Turns(svc'.readBuffer, svc'.channelMessages, calls')
  BY <1>4 DEF Turns, InPayload
<1>11. DvTyped'
  BY <1>1, <1>4, <1>6 DEF DvGood, DvTyped
<1>12. DvGood'
  BY <1>1, <1>7, <1>8, <1>9, <1>10, <1>11 DEF DvGood
<1>13. D!RepliesMatch'
  BY <1>1, <1>4, RepliesKept
<1> QED BY <1>1, <1>12, <1>13

\* close(), up to the write it awaits.
LEMMA DvBeginsClosing ==
    ASSUME DvGood, D!RepliesMatch, NEW c \in Caller, D!CloseBegin(c)
    PROVE  DvGood' /\ D!RepliesMatch' /\ causes' = causes
<1>1. /\ calls[c].at = "idle"
      /\ D!Disconnect({}) \/ (calls' = At(c, "closing") /\ UNCHANGED <<svc, sock, wire, device, stray, causes>>)
  BY Zenon DEF D!CloseBegin, At
<1>2. CASE D!Disconnect({})
  BY <1>2, DvDisconnects
<1>3. CASE calls' = At(c, "closing") /\ UNCHANGED <<svc, sock, wire, device, stray, causes>>
  <2>1. calls \in [Caller -> DvCall]
    BY DvFields
  <2>2. ASSUME NEW cs, cs = At(c, "closing")
        PROVE  /\ cs \in [Caller -> DvCall] /\ \A d \in Caller : d # c => cs[d] = calls[d]
               /\ cs[c].at = "closing" /\ cs[c].held = calls[c].held /\ cs[c].got = calls[c].got
               /\ cs[c].channel = calls[c].channel
    BY <2>1, <2>2, AtIs
  <2>3. /\ calls' \in [Caller -> DvCall] /\ \A d \in Caller : d # c => calls'[d] = calls[d]
        /\ calls'[c].at = "closing" /\ calls'[c].held = calls[c].held /\ calls'[c].got = calls[c].got
        /\ calls'[c].channel = calls[c].channel
    BY <1>3, <2>2
  <2>4. Quits(calls, calls') /\ \A d \in Caller : ~(Reads(calls, d) /\ ~Reads(calls', d))
    BY <1>1, <2>3 DEF Quits, Reads
  <2> QED BY <1>3, <2>3, <2>4, DvLeaves, RepliesKept
<1> QED BY <1>1, <1>2, <1>3

\* close(), after that write.
LEMMA DvClosed ==
    ASSUME DvGood, D!RepliesMatch, NEW c \in Caller, D!CloseDone(c)
    PROVE  DvGood' /\ D!RepliesMatch' /\ causes' = causes
<1>1. /\ calls[c].at = "closing"
      /\ D!Disconnect({c}) \/ (calls' = D!Idle(c) /\ UNCHANGED <<svc, sock, wire, device, stray, causes>>)
  BY Zenon DEF D!CloseDone
<1>2. CASE D!Disconnect({c})
  BY <1>2, DvDisconnects
<1>3. CASE calls' = D!Idle(c) /\ UNCHANGED <<svc, sock, wire, device, stray, causes>>
  <2>1. ~Reads(calls, c)
    BY <1>1 DEF Reads
  <2> QED BY <1>3, <2>1, DvLeft, RepliesLeft
<1> QED BY <1>1, <1>2, <1>3

\* The stream ends where the buffer does, with nobody reading.
LEMMA StreamCut ==
    ASSUME NEW s \in Seq(DvByte), NEW t \in Seq(DvByte), Window(s, t, 0), NEW cm, NEW cs, Framed(s, cm, cs),
           \A c \in Caller : InPayload(cs, c) => t = <<>>,
           NEW cs2, \A c \in Caller : ~Reads(cs2, c)
    PROVE  Framed(t, cm, cs2)
<1>1. Aligned(t) /\ Ordered(t) /\ InTurn(t)
  BY WindowKeeps DEF Framed
<1>2. Begun(t, cm) /\ GoesOn(t, cm)
  <2>1. \A i \in 1..0 : i \in 1..Len(s) => s[i].part # 3
    OBVIOUS
  <2> QED BY <2>1, HeaderTaken DEF Framed
<1>3. Starts(t, cs2)
  <2>1. SUFFICES ASSUME t # <<>>  PROVE t[1].part = 1
    BY DEF Starts, InPayload
  <2>2. Len(t) \in Nat /\ Len(t) >= 1 /\ Len(s) \in Nat
    BY <2>1
  <2>3. 1 \in 1..Len(t) /\ s # <<>> /\ t[1] = s[1]
    BY <2>2 DEF Window
  <2>4. ~\E c \in Caller : InPayload(cs, c)
    BY <2>1
  <2> QED BY <2>3, <2>4 DEF Framed, Starts
<1> QED BY <1>1, <1>2, <1>3 DEF Framed

\* Between events readers wait, with less in the buffer than they need.
LEMMA QuietIs ==
    ASSUME DvGood, D!Quiet, NEW c \in Caller, Reads(calls, c)
    PROVE  /\ sock = "open" /\ Len(svc.readBuffer) < 2
           /\ InPayload(calls, c) => svc.readBuffer = <<>>
           /\ ~InPayload(calls, c) => calls[c].channel \in DOMAIN svc.channelMessages
                                      /\ svc.channelMessages[calls[c].channel].messages = <<>>
<1>1. D!Waiting(c)
  BY DEF D!Quiet, D!Readers, Reads
<1>2. calls[c] \in DvCall /\ svc.readBuffer \in Seq(DvByte)
  BY DvFields
<1>3. calls[c].phase \in {"header", "payload"} /\ Len(svc.readBuffer) \in Nat
  BY <1>2 DEF DvCall
<1>4. Len(svc.readBuffer) < 2 /\ (calls[c].phase = "payload" => Len(svc.readBuffer) < 1)
  BY <1>1, <1>3 DEF D!Waiting, D!Needs
<1>5. InPayload(calls, c) => svc.readBuffer = <<>>
  BY <1>2, <1>3, <1>4 DEF InPayload
<1>6. ~InPayload(calls, c) => calls[c].phase = "header"
  BY <1>3 DEF InPayload
<1> QED BY <1>1, <1>4, <1>5, <1>6 DEF D!Waiting, D!HasMessage

\* The connection ends under the service.
LEMMA DvPeerCloses ==
    ASSUME DvGood, D!RepliesMatch, D!PeerCloses
    PROVE  DvGood' /\ D!RepliesMatch' /\ causes' = causes
<1> DEFINE s == DvStream
           t == svc.readBuffer
           cm == svc.channelMessages
<1>1. /\ D!Quiet /\ sock = "open" /\ sock' = "destroyed" /\ wire' = <<>> /\ calls' = Ended({})
      /\ UNCHANGED <<svc, device, stray, causes>>
  <2>1. Ended({}) = [d \in Caller |-> IF d \in D!Readers THEN D!Idle(d)[d] ELSE calls[d]]
    BY DEF Ended
  <2> QED BY <2>1 DEF D!PeerCloses
<1>2. /\ calls \in [Caller -> DvCall] /\ s \in Seq(DvByte) /\ t \in Seq(DvByte) /\ wire \in Seq(DvByte)
  BY DvFields
<1>3. ASSUME NEW cs, cs = Ended({})
      PROVE  /\ cs \in [Caller -> DvCall] /\ Quits(calls, cs) /\ \A d \in Caller : ~Reads(cs, d)
             /\ \A d \in Caller : cs[d].got # D!None => cs[d] = calls[d]
  BY <1>2, <1>3, EndedIs
<1>4. /\ calls' \in [Caller -> DvCall] /\ Quits(calls, calls') /\ \A d \in Caller : ~Reads(calls', d)
      /\ \A d \in Caller : calls'[d].got # D!None => calls'[d] = calls[d]
  BY <1>1, <1>3
<1>5. svc.connection # 0 /\ Framed(s, cm, calls)
  BY <1>1 DEF DvGood, Wants
<1>6. Window(s, t, 0)
  <2>1. s = Joined(t, wire)
    BY DEF DvStream, Joined
  <2>2. Len(s) = Len(t) + Len(wire) /\ \A i \in 1..(Len(t) + Len(wire)) : s[i] = IF i <= Len(t) THEN t[i] ELSE wire[i - Len(t)]
    BY <1>2, <2>1, JoinedItems
  <2>3. Len(t) \in Nat /\ Len(wire) \in Nat
    BY <1>2
  <2> HIDE DEF s, t
  <2>4. \A i \in 1..Len(t) : i \in 1..(Len(t) + Len(wire)) /\ i <= Len(t)
    BY <2>3
  <2>5. \A i \in 1..Len(t) : t[i] = s[i]
    BY <2>2, <2>4
  <2>6. \A i \in 1..Len(t) : i + 0 = i
    BY <2>3
  <2>7. 0 + Len(t) <= Len(s)
    BY <2>2, <2>3
  <2> QED BY <2>5, <2>6, <2>7 DEF Window
<1>7. \A d \in Caller : InPayload(calls, d) => t = <<>>
  BY <1>1, QuietIs DEF InPayload
<1> HIDE DEF s
<1>8. Framed(t, cm, calls')
  BY <1>2, <1>4, <1>5, <1>6, <1>7, StreamCut
<1>9. DvStream' = t
  <2>1. svc.readBuffer \o <<>> = svc.readBuffer
    BY <1>2
  <2> QED BY <1>1, <2>1 DEF DvStream
<1>10. Codes(svc, calls')
  BY <1>4, CodesQuit DEF DvGood
<1>11. Wants(sock, svc, calls)'
  BY <1>1, <1>4 DEF Wants, Reads
<1>12. Turns(svc.readBuffer, cm, calls')
  BY <1>4 DEF Turns, InPayload
<1>13. DvTyped'
  BY <1>1, <1>4 DEF DvGood, DvTyped
<1>14. DvGood'
  BY <1>1, <1>8, <1>9, <1>10, <1>11, <1>12, <1>13 DEF DvGood
<1>15. D!RepliesMatch'
  BY <1>1, <1>4, RepliesKept
<1> QED BY <1>1, <1>14, <1>15

-----------------------------------------------------------------------------
(* A 'data' event.                                                             *)

\* The instance's Cardinality is the library's.
LEMMA Cards == \A S : D!Cardinality(S) = Cardinality(S)
  BY Zenon DEF D!Cardinality, Cardinality

\* What a 'data' event takes off the wire.
FirstOf(w, n) == SubSeq(w, 1, D!MinOf(n, Len(w)))

\* A stream is what a 'data' event brings and what comes later.
LEMMA CutAt ==
    ASSUME NEW w \in Seq(DvByte), NEW n \in Nat \ {0}
    PROVE  FirstOf(w, n) \in Seq(DvByte) /\ FrontOff(w, n) \in Seq(DvByte) /\ Joined(FirstOf(w, n), FrontOff(w, n)) = w
<1> DEFINE a == FirstOf(w, n)
           b == FrontOff(w, n)
<1>1. Len(w) \in Nat /\ n \in Nat
  OBVIOUS
<1>2. CASE n < Len(w)
  <2>1. a = SubSeq(w, 1, n)
    BY <1>1, <1>2 DEF FirstOf, D!MinOf
  <2>2. a \in Seq(DvByte) /\ Len(a) = n /\ \A i \in 1..n : a[i] = w[i]
    BY <1>1, <1>2, <2>1
  <2>3. b \in Seq(DvByte) /\ Len(b) = Len(w) - n /\ \A i \in 1..(Len(w) - n) : b[i] = w[i + n]
    BY <1>1, <1>2 DEF FrontOff
  <2> HIDE DEF a, b
  <2>4. /\ Joined(a, b) \in Seq(DvByte) /\ Len(Joined(a, b)) = Len(a) + Len(b)
        /\ \A i \in 1..(Len(a) + Len(b)) : Joined(a, b)[i] = IF i <= Len(a) THEN a[i] ELSE b[i - Len(a)]
    <3>1. a \in Seq(DvByte) /\ b \in Seq(DvByte)
      BY <2>2, <2>3
    <3> QED BY <3>1, JoinedItems
  <2>5. Len(Joined(a, b)) = Len(w)
    BY <1>1, <2>2, <2>3, <2>4
  <2>6. ASSUME NEW i \in 1..Len(w)  PROVE Joined(a, b)[i] = w[i]
    <3>1. i \in 1..(Len(a) + Len(b))
      BY <1>1, <2>2, <2>3
    <3>2. CASE i <= n
      <4>1. i \in 1..n
        BY <3>2
      <4>2. Joined(a, b)[i] = a[i]
        BY <2>2, <2>4, <3>1, <3>2
      <4> QED BY <2>2, <4>1, <4>2
    <3>3. CASE n < i
      <4>1. i - n \in 1..(Len(w) - n) /\ (i - n) + n = i /\ ~(i <= Len(a))
        BY <1>1, <2>2, <3>3
      <4>2. Joined(a, b)[i] = b[i - n]
        BY <2>2, <2>4, <3>1, <4>1
      <4> QED BY <2>3, <4>1, <4>2
    <3> QED BY <1>1, <3>2, <3>3
  <2>7. Joined(a, b) = w
    BY <2>4, <2>5, <2>6, SeqEqual
  <2> QED BY <2>2, <2>3, <2>7 DEF a, b
<1>3. CASE ~(n < Len(w))
  <2>1. a = SubSeq(w, 1, Len(w))
    BY <1>1, <1>3 DEF FirstOf, D!MinOf
  <2>2. a = w
    BY <2>1
  <2>3. b = <<>>
    BY <1>1, <1>3 DEF FrontOff
  <2>4. w \o <<>> = w
    OBVIOUS
  <2> QED BY <2>2, <2>3, <2>4 DEF Joined
<1> QED BY <1>2, <1>3

Rebuffered(v, b) == [v EXCEPT !.readBuffer = b]

\* The fields of a service whose buffer changed.
LEMMA RebufferedService ==
    ASSUME NEW v, DvService(v), NEW b \in Seq(DvByte), NEW v2, v2 = Rebuffered(v, b)
    PROVE  DvService(v2) /\ SameService(v, v2) /\ v2.channelMessages = v.channelMessages /\ v2.readBuffer = b
  BY DEF DvService, Rebuffered, SameService

\* A chunk for the one reader that waits.
LEMMA DvFeeds ==
    ASSUME DvGood, D!Quiet, sock = "open", UNCHANGED <<sock, device, calls, stray>>, NEW n \in Nat \ {0},
           svc' = Rebuffered(svc, Joined(svc.readBuffer, FirstOf(wire, n))), wire' = FrontOff(wire, n),
           NEW c \in Caller, \A d \in Caller : Reads(calls, d) => d = c
    PROVE  DvGood'
<1> DEFINE a == FirstOf(wire, n)
           b == FrontOff(wire, n)
           buf == svc.readBuffer
<1>1. /\ buf \in Seq(DvByte) /\ wire \in Seq(DvByte) /\ DvService(svc)
  BY DvFields DEF DvGood, DvTyped
<1>2. a \in Seq(DvByte) /\ b \in Seq(DvByte) /\ Joined(a, b) = wire
  BY <1>1, CutAt
<1> HIDE DEF a, b
<1>3. Joined(buf, a) \in Seq(DvByte) /\ Joined(Joined(buf, a), b) = Joined(buf, wire)
  <2>1. buf \in Seq(DvByte) /\ a \in Seq(DvByte) /\ b \in Seq(DvByte)
    BY <1>1, <1>2
  <2> HIDE DEF buf
  <2>2. Joined(buf, a) \in Seq(DvByte) /\ Joined(Joined(buf, a), b) = Joined(buf, Joined(a, b))
    BY <2>1, JoinedTwice
  <2> QED BY <1>2, <2>2
<1> DEFINE u == Joined(buf, a)
<1> HIDE DEF u
<1>4. svc' = Rebuffered(svc, u)
  BY DEF u, a
<1>5. u \in Seq(DvByte)
  BY <1>3 DEF u
<1>6. /\ DvService(svc') /\ SameService(svc, svc') /\ svc'.channelMessages = svc.channelMessages /\ svc'.readBuffer = u
  <2>1. ASSUME NEW v2, v2 = Rebuffered(svc, u)
        PROVE  DvService(v2) /\ SameService(svc, v2) /\ v2.channelMessages = svc.channelMessages /\ v2.readBuffer = u
    BY <1>1, <1>5, <2>1, RebufferedService
  <2> QED BY <1>4, <2>1
<1>7. DvStream' = DvStream
  <2>1. DvStream' = Joined(u, b)
    BY <1>6 DEF DvStream, Joined, b
  <2>2. DvStream = Joined(buf, wire)
    BY DEF DvStream, Joined
  <2> QED BY <1>3, <2>1, <2>2 DEF u
<1>8. svc.connection # 0 /\ SameCalls(calls, calls')
  BY DEF DvGood, Wants, SameCalls
<1>9. Codes(svc', calls')
  BY <1>6, <1>8, CodesKept DEF DvGood
<1>10. Wants(sock, svc, calls)'
  <2>1. svc'.connection = svc.connection
    BY <1>6 DEF SameService
  <2> QED BY <2>1 DEF DvGood, Wants
<1>11. Turns(svc'.readBuffer, svc'.channelMessages, calls')
  BY <1>6 DEF DvGood, Turns
<1>12. DvTyped'
  BY <1>2, <1>6 DEF DvGood, DvTyped, b
<1>13. svc'.connection = svc.connection /\ svc'.isHandshakeComplete = svc.isHandshakeComplete
  BY <1>6 DEF SameService
<1>14. /\ svc'.connection # 0 => Framed(DvStream', svc'.channelMessages, calls')
       /\ sock' = "open" => Flows(DvStream', svc'.channelMessages, device', calls', stray', svc'.isHandshakeComplete)
  BY <1>6, <1>7, <1>13 DEF DvGood
<1> QED BY <1>9, <1>10, <1>11, <1>12, <1>14 DEF DvGood

\* A 'data' event, with one reader or with the causes that lose frames.
LEMMA DvReads ==
    ASSUME DvGood, D!RepliesMatch, IsFiniteSet(Caller), NEW n \in Nat \ {0}, D!Data(n)
    PROVE  D!RepliesMatch' /\ causes \subseteq causes' /\ "garbled" \notin causes' \ causes
           /\ (causes' \cap D!Broken = {} => DvGood')
<1> DEFINE waiting == {c \in Caller : D!Waiting(c)}
           chunk == FirstOf(wire, n)
           copies == [i \in 1..D!Cardinality(waiting) |-> chunk]
<1>1. /\ D!Quiet /\ sock = "open" /\ UNCHANGED <<sock, device, calls, stray>> /\ wire' = FrontOff(wire, n)
      /\ svc' = Rebuffered(svc, svc.readBuffer \o D!FlattenSeq(copies))
      /\ causes' = causes \cup (IF waiting = {} THEN {"unread"} ELSE {})
                          \cup (IF D!Cardinality(waiting) > 1 THEN {"overlap"} ELSE {})
  BY DEF D!Data, FirstOf, FrontOff, Rebuffered
<1>2. D!RepliesMatch' /\ causes \subseteq causes' /\ "garbled" \notin causes' \ causes
  BY <1>1, RepliesKept
<1>3. ASSUME causes' \cap D!Broken = {}  PROVE DvGood'
  <2>1. waiting # {} /\ ~(Cardinality(waiting) > 1)
    BY <1>1, <1>3, Cards DEF D!Broken
  <2>2. IsFiniteSet(waiting) /\ Cardinality(waiting) \in Nat
    <3>1. IsFiniteSet(waiting)
      BY FS_Subset
    <3> QED BY <3>1, FS_CardinalityType
  <2>3. Cardinality(waiting) = 1
    <3>1. Cardinality(waiting) # 0
      BY <2>1, <2>2, FS_EmptySet
    <3> QED BY <2>1, <2>2, <3>1
  <2>4. PICK c : waiting = {c}
    BY <2>2, <2>3, FS_Singleton
  <2>5. \A d \in Caller : Reads(calls, d) => d \in waiting
    BY <1>1 DEF D!Quiet, D!Readers, Reads
  <2>6. c \in Caller /\ \A d \in Caller : Reads(calls, d) => d = c
    BY <2>4, <2>5
  <2>7. D!FlattenSeq(copies) = chunk
    <3>1. copies = [i \in 1..1 |-> chunk]
      BY <2>3, Cards
    <3> HIDE DEF copies, chunk
    <3> QED BY <3>1, Flat1
  <2>8. svc' = Rebuffered(svc, Joined(svc.readBuffer, FirstOf(wire, n)))
    BY <1>1, <2>7 DEF Joined
  <2> QED BY <1>1, <2>6, <2>8, DvFeeds
<1> QED BY <1>2, <1>3

-----------------------------------------------------------------------------
(* A connection begins.                                                        *)

\* The broadcast channel's new fragmenter holds nothing.
LEMMA BroadcastEmpty ==
    /\ Partials(D!Broadcast) /\ Queues(D!Broadcast) /\ OnceQueued(D!Broadcast)
    /\ PartialMsgs(D!Broadcast) = {} /\ QueueMsgs(D!Broadcast) = {}
<1> DEFINE cm == D!Broadcast
<1>1. DOMAIN cm = {0} /\ cm[0].messages = <<>> /\ \A st \in BOOLEAN : cm[0].partial[st] = <<>>
  BY BroadcastIs, NewFragmenter
<1> HIDE DEF cm
<1>2. \A ch \in DOMAIN cm : cm[ch].messages = <<>> /\ \A st \in BOOLEAN : cm[ch].partial[st] = <<>>
  BY <1>1
<1>3. \A ch \in DOMAIN cm : \A k \in 1..Len(cm[ch].messages) : FALSE
  <2>1. 1..Len(<<>>) = {}
    OBVIOUS
  <2> QED BY <1>2, <2>1
<1>4. Partials(cm)
  BY <1>2 DEF Partials
<1>5. Queues(cm) /\ OnceQueued(cm)
  BY <1>3 DEF Queues, OnceQueued
<1>6. PartialMsgs(cm) = {}
  <2>1. {k \in (DOMAIN cm) \X BOOLEAN : cm[k[1]].partial[k[2]] # <<>>} = {}
    BY <1>2
  <2> QED BY <2>1 DEF PartialMsgs
<1>7. QueueMsgs(cm) = {}
  <2>1. ASSUME NEW m \in QueueMsgs(cm)  PROVE FALSE
    <3>1. \E ch \in DOMAIN cm : \E k \in 1..Len(cm[ch].messages) : m = cm[ch].messages[k][1].msg
      BY QueueMsgsAre
    <3> QED BY <1>3, <3>1
  <2> QED BY <2>1
<1> QED BY <1>4, <1>5, <1>6, <1>7 DEF cm

\* A call that begins to read.
LEMMA ReadingIs ==
    ASSUME calls \in [Caller -> DvCall], NEW c \in Caller, NEW at \in {"hello", "make", "request", "listen"},
           NEW ch \in Nat, NEW want \in Nat, NEW cs, cs = D!Reading(c, at, ch, want)
    PROVE  /\ cs \in [Caller -> DvCall] /\ \A d \in Caller : d # c => cs[d] = calls[d]
           /\ cs[c].at = at /\ cs[c].phase = "header" /\ cs[c].channel = ch /\ cs[c].want = want
           /\ cs[c].got = D!None /\ cs[c].held = calls[c].held
<1> DEFINE r == [calls[c] EXCEPT !.at = at, !.phase = "header", !.channel = ch, !.want = want, !.got = D!None]
<1>1. cs = [calls EXCEPT ![c] = r]
  BY DEF D!Reading
<1>2. calls[c] \in DvCall /\ D!None \in DvMessage
  BY DEF D!None, DvMessage
<1>3. r \in DvCall /\ r.at = at /\ r.phase = "header" /\ r.channel = ch /\ r.want = want /\ r.got = D!None
      /\ r.held = calls[c].held
  BY <1>2 DEF DvCall
<1> HIDE DEF r
<1> QED BY <1>1, <1>3

Hello(count) == [id |-> count, channel |-> 0, stream |-> FALSE]
Opened(v) == [v EXCEPT !.connection = v.dialled + 1, !.dialled = v.dialled + 1]

\* A new connection has one message to come, the handshake's reply.
LEMMA HelloFlows ==
    ASSUME NEW count \in Nat \ {0}, NEW d, d = [owed |-> <<Hello(count)>>, rest |-> <<>>, count |-> count],
           NEW cs, NEW c \in Caller, cs[c].at = "hello", cs[c].want = count, cs[c].channel = 0,
           \A e \in Caller : ~InPayload(cs, e), NEW st
    PROVE  /\ Framed(<<>>, D!Broadcast, cs) /\ Flows(<<>>, D!Broadcast, d, cs, st, FALSE) /\ d \in DvDevice
<1> DEFINE cm == D!Broadcast
           h == Hello(count)
<1>1. DOMAIN cm = {0} /\ Partials(cm) /\ Queues(cm) /\ OnceQueued(cm) /\ PartialMsgs(cm) = {} /\ QueueMsgs(cm) = {}
  BY BroadcastIs, BroadcastEmpty
<1> HIDE DEF cm
<1>2. h \in DvMessage /\ h.id = count /\ h.channel = 0
  BY DEF Hello, DvMessage
<1>3. 1..Len(<<>>) = {} /\ Len(<<>>) = 0 /\ MsgsOf(<<>>) = {} /\ ItemsOf(<<>>) = {}
  BY DEF MsgsOf, ItemsOf
<1> HIDE DEF h
<1>4. Framed(<<>>, cm, cs)
  <2>1. Aligned(<<>>) /\ Ordered(<<>>) /\ InTurn(<<>>)
    BY <1>3 DEF Aligned, Ordered, InTurn
  <2>2. Begun(<<>>, cm) /\ GoesOn(<<>>, cm)
    BY <1>3 DEF Begun, GoesOn
  <2>3. Starts(<<>>, cs)
    BY DEF Starts
  <2> QED BY <1>1, <2>1, <2>2, <2>3 DEF Framed
<1>5. d.owed = <<h>> /\ d.rest = <<>> /\ d.count = count
  BY DEF h
<1>6. Pipeline(<<>>, cm, {})
  BY <1>1, <1>3 DEF Pipeline
<1>7. ItemsOf(<<h>>) = {h} /\ Distinct(<<h>>)
  <2>1. Len(<<h>>) = 1 /\ <<h>>[1] = h /\ 1..1 = {1}
    OBVIOUS
  <2> QED BY <2>1 DEF ItemsOf, Distinct
<1>8. Located(<<>>, cm, d)
  <2>1. Apart({}, {}, {}, {}, {h}, count, {0})
    <3>1. count \in 1..count
      OBVIOUS
    <3> QED BY <1>2, <3>1 DEF Apart
  <2>2. InOrder(<<>>)
    BY <1>3 DEF InOrder
  <2> QED BY <1>1, <1>3, <1>5, <1>7, <2>1, <2>2 DEF Located
<1>9. Wanted(AllMsgs(<<>>, cm, d), cs, st, FALSE)
  <2>1. AllMsgs(<<>>, cm, d) = {h}
    BY <1>1, <1>3, <1>5, <1>7 DEF AllMsgs
  <2>2. WantedBy(cs, st, h)
    BY <1>2 DEF WantedBy, Reads
  <2> QED BY <1>2, <2>1, <2>2 DEF Wanted
<1>10. Flows(<<>>, cm, d, cs, st, FALSE)
  BY <1>3, <1>5, <1>6, <1>8, <1>9 DEF Flows
<1>11. d \in DvDevice
  <2>1. <<h>> \in Seq(DvMessage) /\ <<>> \in Seq(DvPiece)
    BY <1>2
  <2> QED BY <2>1 DEF DvDevice, h
<1> QED BY <1>4, <1>10, <1>11 DEF cm

\* The fields of a service that has connected.
LEMMA OpenedService ==
    ASSUME NEW v, DvService(v), NEW v2, v2 = Opened(v)
    PROVE  /\ DvService(v2) /\ v2.connection = v.dialled + 1 /\ v2.dialled = v.dialled + 1
           /\ v2.lastChannelCode = v.lastChannelCode /\ v2.channelCache = v.channelCache
           /\ v2.channelMessages = v.channelMessages /\ v2.isHandshakeComplete = v.isHandshakeComplete
           /\ v2.readBuffer = v.readBuffer
<1>1. v.dialled + 1 \in Nat
  BY DEF DvService
<1>2. PICK k : k = v.dialled + 1
  OBVIOUS
<1>3. v2 = [v EXCEPT !.connection = k, !.dialled = k]
  BY <1>2 DEF Opened
<1>4. k \in Nat
  BY <1>1, <1>2
<1>5. Fields(v2, k, k, v.lastChannelCode, v.channelCache, v.channelMessages, v.isHandshakeComplete, v.readBuffer)
  BY <1>3 DEF DvService, Fields
<1>6. DvService(v2)
  <2>1. /\ v.lastChannelCode \in Nat /\ v.channelCache \in Nat /\ DvFragmenters(v.channelMessages)
        /\ v.isHandshakeComplete \in BOOLEAN /\ v.readBuffer \in Seq(DvByte)
    BY DEF DvService
  <2> QED BY <1>4, <1>5, <2>1, FieldsTyped
<1> QED BY <1>2, <1>5, <1>6 DEF Fields

\* The dial succeeds and the handshake begins.
LEMMA DvDialed ==
    ASSUME DvGood, D!RepliesMatch, NEW c \in Caller, D!Dialed(c)
    PROVE  D!RepliesMatch' /\ causes \subseteq causes' /\ "garbled" \notin causes' \ causes
           /\ (causes' \cap D!Broken = {} => DvGood')
<1> DEFINE count == device.count + 1
<1>1. /\ D!Quiet /\ calls[c].at = "dial" /\ svc' = Opened(svc) /\ sock' = "open"
      /\ device' = [owed |-> <<Hello(count)>>, rest |-> <<>>, count |-> count]
      /\ calls' = D!Reading(c, "hello", 0, count)
      /\ wire' = <<>> /\ UNCHANGED stray
      /\ causes' = IF svc.readBuffer = <<>> THEN causes ELSE causes \cup {"leftover"}
  BY DEF D!Dialed, Opened, Hello
<1>2. /\ calls \in [Caller -> DvCall] /\ Codes(svc, calls) /\ DvService(svc) /\ svc.lastChannelCode \in Nat /\ svc.dialled \in Nat
      /\ device.count \in Nat
  BY DvFields DEF DvGood, DvTyped
<1>3. count \in Nat \ {0}
  BY <1>2
<1> HIDE DEF count
<1>4. ASSUME NEW cs, cs = D!Reading(c, "hello", 0, count)
      PROVE  /\ cs \in [Caller -> DvCall] /\ \A d \in Caller : d # c => cs[d] = calls[d]
             /\ cs[c].at = "hello" /\ cs[c].phase = "header" /\ cs[c].channel = 0 /\ cs[c].want = count
             /\ cs[c].got = D!None /\ cs[c].held = calls[c].held
  <2>1. "hello" \in {"hello", "make", "request", "listen"} /\ 0 \in Nat /\ count \in Nat
    BY <1>3
  <2> QED BY <1>2, <1>4, <2>1, ReadingIs
<1>5. /\ calls' \in [Caller -> DvCall] /\ \A d \in Caller : d # c => calls'[d] = calls[d]
      /\ calls'[c].at = "hello" /\ calls'[c].phase = "header" /\ calls'[c].channel = 0 /\ calls'[c].want = count
      /\ calls'[c].got = D!None /\ calls'[c].held = calls[c].held
  BY <1>1, <1>4
<1>6. D!RepliesMatch'
  BY <1>1, <1>5, RepliesKept
<1>7. causes \subseteq causes' /\ "garbled" \notin causes' \ causes
  BY <1>1
<1>8. ASSUME causes' \cap D!Broken = {}  PROVE DvGood'
  <2>1. svc.readBuffer = <<>>
    BY <1>1, <1>8 DEF D!Broken
  <2>2. /\ svc.connection = 0 /\ svc.channelMessages = D!Broadcast /\ ~svc.isHandshakeComplete /\ svc.channelCache = 0
        /\ \A d \in Caller : d # c => calls[d].at # "dial"
    BY <1>1, <1>2 DEF Codes
  <2>3. \A d \in Caller : ~Reads(calls, d)
    BY <1>1, <2>2, QuietIs DEF DvGood, Wants
  <2>4. \A d \in Caller : Reads(calls', d) => d = c
    BY <1>5, <2>3 DEF Reads
  <2>5. \A d \in Caller : ~InPayload(calls', d)
    BY <1>5, <2>4 DEF InPayload
  <2>6. /\ DvService(svc') /\ svc'.connection = svc.dialled + 1 /\ svc'.dialled = svc.dialled + 1
        /\ svc'.lastChannelCode = svc.lastChannelCode /\ svc'.channelCache = 0
        /\ svc'.channelMessages = D!Broadcast /\ svc'.isHandshakeComplete = svc.isHandshakeComplete
        /\ svc'.readBuffer = <<>>
    <3>1. ASSUME NEW v2, v2 = Opened(svc)
          PROVE  /\ DvService(v2) /\ v2.connection = svc.dialled + 1 /\ v2.dialled = svc.dialled + 1
                 /\ v2.lastChannelCode = svc.lastChannelCode /\ v2.channelCache = svc.channelCache
                 /\ v2.channelMessages = svc.channelMessages /\ v2.isHandshakeComplete = svc.isHandshakeComplete
                 /\ v2.readBuffer = svc.readBuffer
      BY <1>2, <3>1, OpenedService
    <3>2. /\ DvService(svc') /\ svc'.connection = svc.dialled + 1 /\ svc'.dialled = svc.dialled + 1
          /\ svc'.lastChannelCode = svc.lastChannelCode /\ svc'.channelCache = svc.channelCache
          /\ svc'.channelMessages = svc.channelMessages /\ svc'.isHandshakeComplete = svc.isHandshakeComplete
          /\ svc'.readBuffer = svc.readBuffer
      BY <1>1, <3>1
    <3> QED BY <2>1, <2>2, <3>2
  <2>7. svc'.isHandshakeComplete = FALSE
    <3>1. svc.isHandshakeComplete \in BOOLEAN
      BY DvFields
    <3> QED BY <2>2, <2>6, <3>1
  <2>8. ASSUME NEW d, d = [owed |-> <<Hello(count)>>, rest |-> <<>>, count |-> count]
        PROVE  /\ Framed(<<>>, D!Broadcast, calls') /\ Flows(<<>>, D!Broadcast, d, calls', stray, FALSE) /\ d \in DvDevice
    BY <1>3, <1>5, <2>5, <2>8, HelloFlows
  <2>9. /\ Framed(<<>>, D!Broadcast, calls') /\ Flows(<<>>, D!Broadcast, device', calls', stray, FALSE) /\ device' \in DvDevice
    BY <1>1, <2>8
  <2>10. DvStream' = <<>>
    <3>1. <<>> \o <<>> = <<>>
      OBVIOUS
    <3> QED BY <1>1, <2>6, <3>1 DEF DvStream
  <2>11. Codes(svc', calls')
    <3>1. \A d \in Caller : /\ calls'[d].held.code <= svc.lastChannelCode /\ calls'[d].held.on <= svc.dialled
                            /\ calls'[d].held.on # 0 => calls'[d].held.code # 0
                            /\ calls'[d].held \in [code : Nat, on : Nat]
      <4>1. ASSUME NEW d \in Caller
            PROVE  /\ calls[d].held.code <= svc.lastChannelCode /\ calls[d].held.on <= svc.dialled
                   /\ calls[d].held.on # 0 => calls[d].held.code # 0
                   /\ calls[d].held \in [code : Nat, on : Nat]
        <5>1. calls[d].held \in [code : Nat, on : Nat]
          BY <1>2 DEF DvCall
        <5> QED BY <1>2, <5>1 DEF Codes
      <4>2. \A d \in Caller : calls'[d].held = calls[d].held
        BY <1>5
      <4> QED BY <4>1, <4>2
    <3>2. \A d \in Caller : /\ calls'[d].held.on <= svc'.dialled
                            /\ calls'[d].held.on # svc'.connection
      <4>1. ASSUME NEW d \in Caller  PROVE calls'[d].held.on <= svc'.dialled /\ calls'[d].held.on # svc'.connection
        <5>1. calls'[d].held.on \in Nat /\ calls'[d].held.on <= svc.dialled
          BY <3>1
        <5> QED BY <1>2, <2>6, <5>1
      <4> QED BY <4>1
    <3>3. DOMAIN svc'.channelMessages = {0}
      BY <2>6, BroadcastIs
    <3>4. svc'.connection <= svc'.dialled /\ svc'.connection # 0 /\ 0 <= svc'.lastChannelCode
      BY <1>2, <2>6
    <3>5. \A d \in Caller : calls'[d].at \notin {"make", "request", "listen", "dial"} /\ (calls'[d].at = "hello" => d = c)
      <4>1. ASSUME NEW d \in Caller, d # c  PROVE calls'[d].at \notin {"make", "request", "listen", "dial", "hello"}
        BY <1>5, <2>2, <2>3, <4>1 DEF Reads
      <4> QED BY <1>5, <4>1
    <3> QED BY <1>5, <2>5, <2>6, <2>7, <3>1, <3>2, <3>3, <3>4, <3>5 DEF Codes
  <2>12. Wants(sock, svc, calls)'
    <3>1. svc'.connection # 0 /\ count # 0
      BY <1>2, <1>3, <2>6
    <3>2. \A d \in Caller : calls'[d].at \in {"hello", "make", "request", "listen"} => d = c
      BY <2>4 DEF Reads
    <3> QED BY <1>1, <1>5, <3>1, <3>2 DEF Wants
  <2>13. Turns(svc'.readBuffer, svc'.channelMessages, calls')
    BY <2>4, <2>5 DEF Turns
  <2>14. DvTyped'
    <3>1. <<>> \in Seq(DvByte)
      OBVIOUS
    <3> QED BY <1>1, <1>5, <2>6, <2>9, <3>1 DEF DvTyped
  <2>15. /\ svc'.connection # 0 => Framed(DvStream', svc'.channelMessages, calls')
         /\ sock' = "open" => Flows(DvStream', svc'.channelMessages, device', calls', stray', svc'.isHandshakeComplete)
    BY <1>1, <2>6, <2>7, <2>9, <2>10
  <2> QED BY <2>11, <2>12, <2>13, <2>14, <2>15 DEF DvGood
<1> QED BY <1>6, <1>7, <1>8

-----------------------------------------------------------------------------
(* Calls that begin.                                                           *)

\* What the device owes after a message was sent to it.
Asked(count, ch) == [id |-> count, channel |-> ch, stream |-> FALSE]
Sent(d, ch, known) ==
    [d EXCEPT !.count = d.count + 1, !.owed = IF known THEN Append(d.owed, Asked(d.count + 1, ch)) ELSE d.owed]

\* sendMessage(), as an operator.
LEMMA SendIs ==
    ASSUME NEW ch, NEW known, D!Send(ch, known)
    PROVE  device' = Sent(device, ch, known)
  BY DEF D!Send, Sent, Asked

\* A message joins those owed.
LEMMA Owes ==
    ASSUME NEW q \in Seq(DvMessage), NEW m \in DvMessage, Distinct(q), m \notin ItemsOf(q), NEW r, r = Append(q, m)
    PROVE  r \in Seq(DvMessage) /\ ItemsOf(r) = ItemsOf(q) \cup {m} /\ Distinct(r)
<1>1. r \in Seq(DvMessage) /\ Len(r) = Len(q) + 1 /\ Len(q) \in Nat /\ r[Len(q) + 1] = m
  OBVIOUS
<1>2. \A i \in 1..Len(q) : r[i] = q[i] /\ i \in 1..Len(r)
  BY <1>1
<1>3. \A i \in 1..Len(r) : i \in 1..Len(q) \/ i = Len(q) + 1
  BY <1>1
<1>4. Len(q) + 1 \in 1..Len(r)
  BY <1>1
<1>5. ItemsOf(r) = ItemsOf(q) \cup {m}
  <2>1. ASSUME NEW x \in ItemsOf(r)  PROVE x \in ItemsOf(q) \cup {m}
    <3>1. PICK i \in 1..Len(r) : x = r[i]
      BY DEF ItemsOf
    <3> QED BY <1>1, <1>2, <1>3, <3>1 DEF ItemsOf
  <2>2. ASSUME NEW x \in ItemsOf(q)  PROVE x \in ItemsOf(r)
    BY <1>2 DEF ItemsOf
  <2>3. m \in ItemsOf(r)
    BY <1>1, <1>4 DEF ItemsOf
  <2> QED BY <2>1, <2>2, <2>3
<1>6. \A i \in 1..Len(q) : q[i] # m
  BY DEF ItemsOf
<1>7. Distinct(r)
  <2>1. SUFFICES ASSUME NEW i \in 1..Len(r), NEW j \in 1..Len(r), r[i] = r[j]  PROVE i = j
    BY DEF Distinct
  <2>2. CASE i \in 1..Len(q) /\ j \in 1..Len(q)
    BY <1>2, <2>1, <2>2 DEF Distinct
  <2>3. CASE i \in 1..Len(q) /\ j = Len(q) + 1
    BY <1>1, <1>2, <1>6, <2>1, <2>3
  <2>4. CASE i = Len(q) + 1 /\ j \in 1..Len(q)
    BY <1>1, <1>2, <1>6, <2>1, <2>4
  <2> QED BY <1>3, <2>1, <2>2, <2>3, <2>4
<1> QED BY <1>1, <1>5, <1>7

\* Whoever waited for a message waits for it.
KeepsReaders(cs, cs2) ==
    /\ \A d \in Caller : Reads(cs, d) => Reads(cs2, d) /\ SameReader(cs, cs2, d)
    /\ \A d \in Caller : InPayload(cs2, d) => InPayload(cs, d)

\* A caller who starts to read takes no message away from another.
LEMMA WantedOn ==
    ASSUME NEW all, NEW cs, NEW cs2, NEW st, NEW st2, st \subseteq st2, NEW complete, Wanted(all, cs, st, complete),
           KeepsReaders(cs, cs2)
    PROVE  Wanted(all, cs2, st2, complete)
<1>1. ASSUME NEW m \in all
      PROVE  /\ WantedBy(cs2, st2, m)
             /\ ~complete => \E c \in Caller : cs2[c].at = "hello" /\ cs2[c].want = m.id
  <2>1. /\ WantedBy(cs, st, m)
        /\ ~complete => \E c \in Caller : cs[c].at = "hello" /\ cs[c].want = m.id
    BY DEF Wanted
  <2>2. \A c \in Caller : Reads(cs, c) => Reads(cs2, c) /\ cs2[c].at = cs[c].at /\ cs2[c].want = cs[c].want
                                          /\ cs2[c].channel = cs[c].channel
    BY DEF KeepsReaders, SameReader
  <2>3. WantedBy(cs2, st2, m)
    BY <2>1, <2>2 DEF WantedBy
  <2>4. \A c \in Caller : cs[c].at = "hello" => Reads(cs, c)
    BY DEF Reads
  <2> QED BY <2>1, <2>2, <2>3, <2>4
<1> QED BY <1>1 DEF Wanted

\* Nor from the stream.
LEMMA FlowsOn ==
    ASSUME NEW s, NEW cm, NEW d, NEW cs, NEW cs2, NEW st, NEW complete, Flows(s, cm, d, cs, st, complete),
           KeepsReaders(cs, cs2)
    PROVE  Flows(s, cm, d, cs2, st, complete)
<1>1. Wanted(AllMsgs(s, cm, d), cs2, st, complete)
  BY WantedOn DEF Flows
<1> QED BY <1>1 DEF Flows, KeepsReaders

\* A message sent on a channel the device knows, with someone to take its reply.
Serves(cm, cs, st, complete, d, ch) == ch \in DOMAIN cm /\ complete /\ WantedBy(cs, st, Asked(d.count + 1, ch))

\* A request whose reply is owed has a reader, or makes its channel stray.
LEMMA FlowsSent ==
    ASSUME NEW s, NEW cm, NEW d \in DvDevice, NEW cs, NEW cs2, NEW st, NEW st2, st \subseteq st2, NEW complete,
           Flows(s, cm, d, cs, st, complete), KeepsReaders(cs, cs2),
           NEW ch \in Nat, NEW known \in BOOLEAN, NEW d2, d2 = Sent(d, ch, known),
           known => Serves(cm, cs2, st2, complete, d, ch)
    PROVE  Flows(s, cm, d2, cs2, st2, complete) /\ d2 \in DvDevice
<1> DEFINE m == Asked(d.count + 1, ch)
           S == MsgsOf(s)
           P == PartialMsgs(cm)
           Q == QueueMsgs(cm)
           R == MsgsOf(d.rest)
           O == ItemsOf(d.owed)
<1>1. /\ d.owed \in Seq(DvMessage) /\ d.rest \in Seq(DvPiece) /\ d.count \in Nat
  BY DEF DvDevice
<1>2. m \in DvMessage /\ m.id = d.count + 1 /\ m.channel = ch
  BY <1>1 DEF Asked, DvMessage
<1>3. /\ Pipeline(s, cm, ItemsOf(d.rest)) /\ Apart(S, P, Q, R, O, d.count, DOMAIN cm)
      /\ Distinct(d.owed) /\ OnceQueued(cm) /\ InOrder(d.rest) /\ Wanted(AllMsgs(s, cm, d), cs, st, complete)
      /\ \A c \in Caller : InPayload(cs, c) => s # <<>>
  BY DEF Flows, Located
<1>4. d2.count = d.count + 1 /\ d2.rest = d.rest /\ d2.owed = (IF known THEN Append(d.owed, m) ELSE d.owed)
      /\ d2 = [owed |-> d2.owed, rest |-> d2.rest, count |-> d2.count]
  BY DEF DvDevice, Sent
<1> HIDE DEF m, S, P, Q, R, O
<1>5. m \notin O
  <2>1. PICK k \in Nat : k = d.count
    BY <1>1
  <2>2. Apart(S, P, Q, R, O, k, DOMAIN cm) /\ m.id = k + 1
    BY <1>2, <1>3, <2>1
  <2>3. m \in O => m.id \in 1..k
    BY <2>2 DEF Apart
  <2> QED BY <2>2, <2>3
<1>6. known => d2.owed \in Seq(DvMessage) /\ ItemsOf(d2.owed) = O \cup {m} /\ Distinct(d2.owed)
  <2>1. ASSUME NEW r, r = Append(d.owed, m)  PROVE r \in Seq(DvMessage) /\ ItemsOf(r) = O \cup {m} /\ Distinct(r)
    BY <1>1, <1>2, <1>3, <1>5, <2>1, Owes DEF O
  <2> QED BY <1>4, <2>1
<1>7. ~known => d2.owed = d.owed
  BY <1>4
<1>8. d2 \in DvDevice
  BY <1>1, <1>4, <1>6, <1>7 DEF DvDevice
<1>9. PICK c2 : c2 = d.count + 1
  OBVIOUS
<1>10. Apart(S, P, Q, R, ItemsOf(d2.owed), c2, DOMAIN cm) /\ Distinct(d2.owed)
  <2>1. CASE known
    <3>1. m.id = c2 /\ m.channel \in DOMAIN cm
      BY <1>2, <1>9, <2>1 DEF Serves
    <3>2. Apart(S, P, Q, R, O \cup {m}, c2, DOMAIN cm)
      BY <1>1, <1>2, <1>3, <1>9, <3>1, ApartNewOwed
    <3> QED BY <1>6, <2>1, <3>2
  <2>2. CASE ~known
    <3>1. c2 \in Nat /\ d.count <= c2
      BY <1>1, <1>9
    <3>2. Apart(S, P, Q, R, O, c2, DOMAIN cm)
      BY <1>1, <1>3, <3>1, ApartShrinks
    <3> QED BY <1>3, <1>7, <2>2, <3>2 DEF O
  <2> QED BY <2>1, <2>2
<1>11. Located(s, cm, d2)
  BY <1>3, <1>4, <1>9, <1>10 DEF Located, S, P, Q, R
<1>12. Wanted(AllMsgs(s, cm, d2), cs2, st2, complete)
  <2>1. Wanted(AllMsgs(s, cm, d), cs2, st2, complete)
    BY <1>3, WantedOn
  <2>2. AllMsgs(s, cm, d2) \subseteq AllMsgs(s, cm, d) \cup (IF known THEN {m} ELSE {})
    BY <1>4, <1>6, <1>7 DEF AllMsgs, O
  <2>3. known => complete /\ WantedBy(cs2, st2, m)
    BY DEF m, Serves
  <2> QED BY <2>1, <2>2, <2>3 DEF Wanted
<1> QED BY <1>3, <1>4, <1>8, <1>11, <1>12 DEF Flows, KeepsReaders

\* What Codes says of one call, where mine is that nobody else makes the channel it holds.
CodeOf(v, k) ==
    /\ k.held.code <= v.lastChannelCode /\ k.held.on <= v.dialled
    /\ k.held.on # 0 =>
         /\ k.held.code # 0
         /\ k.held.on = v.connection <=> k.held.code \in DOMAIN v.channelMessages
         /\ k.held.on = v.connection => v.isHandshakeComplete
    /\ k.at = "make" => v.isHandshakeComplete /\ k.held.code # 0 /\ k.held.code \notin DOMAIN v.channelMessages
    /\ k.at \in {"request", "listen"} => k.held.on # 0 /\ k.channel = k.held.code
    /\ k.at \in {"hello", "make"} => k.channel = 0
Recoded(v, v2) ==
    /\ v2.lastChannelCode \in Nat /\ v.lastChannelCode <= v2.lastChannelCode
    /\ v2.connection = v.connection /\ v2.dialled = v.dialled /\ v2.channelCache = v.channelCache
    /\ v2.channelMessages = v.channelMessages /\ v2.isHandshakeComplete = v.isHandshakeComplete

\* A caller who starts keeps the channel codes apart.
LEMMA CodesJoin ==
    ASSUME NEW v, NEW v2, NEW cs, NEW cs2, Codes(v, cs), cs \in [Caller -> DvCall], v.lastChannelCode \in Nat,
           DOMAIN v.channelMessages \subseteq Nat, Recoded(v, v2),
           NEW c \in Caller, \A d \in Caller : d # c => cs2[d] = cs[d],
           CodeOf(v2, cs2[c]), cs2[c].at \notin {"hello", "dial"}, ~InPayload(cs2, c),
           \A d \in Caller : d # c /\ (cs2[c].at = "make" \/ cs[d].at = "make") => cs2[c].held.code # cs[d].held.code
    PROVE  Codes(v2, cs2)
<1>0. /\ v2.lastChannelCode \in Nat /\ v.lastChannelCode <= v2.lastChannelCode
      /\ v2.connection = v.connection /\ v2.dialled = v.dialled /\ v2.channelCache = v.channelCache
      /\ v2.channelMessages = v.channelMessages /\ v2.isHandshakeComplete = v.isHandshakeComplete
  BY DEF Recoded
<1>1. ASSUME NEW d \in Caller
      PROVE  CodeOf(v2, cs2[d])
  <2>1. CASE d = c
    BY <2>1
  <2>2. CASE d # c
    <3>1. cs2[d] = cs[d] /\ cs[d].held.code \in Nat
      BY <2>2 DEF DvCall
    <3>2. CodeOf(v, cs[d])
      BY DEF Codes, CodeOf
    <3>3. cs[d].held.code <= v2.lastChannelCode
      <4>1. cs[d].held.code <= v.lastChannelCode
        BY <3>2 DEF CodeOf
      <4> QED BY <1>0, <3>1, <4>1
    <3> QED BY <1>0, <3>1, <3>2, <3>3 DEF CodeOf
  <2> QED BY <2>1, <2>2
<1>2. ASSUME NEW d \in Caller, cs2[d].at = "make", NEW e \in Caller \ {d}  PROVE cs2[e].held.code # cs2[d].held.code
  <2>1. CASE d = c
    <3>1. e # c /\ cs2[e] = cs[e]
      BY <1>2, <2>1
    <3> QED BY <1>2, <2>1, <3>1
  <2>2. CASE d # c /\ e = c
    BY <1>2, <2>2
  <2>3. CASE d # c /\ e # c
    <3>1. cs2[d] = cs[d] /\ cs2[e] = cs[e]
      BY <2>3
    <3> QED BY <1>2, <3>1 DEF Codes
  <2> QED BY <2>1, <2>2, <2>3
<1>3. ASSUME NEW d \in Caller, cs2[d].at \in {"hello", "dial"}
      PROVE  /\ d # c /\ cs2[d] = cs[d] /\ \A e \in Caller \ {d} : cs2[e].at # cs2[d].at
  <2>1. d # c /\ cs2[d] = cs[d]
    BY <1>3
  <2>2. \A e \in Caller \ {d} : cs[e].at # cs[d].at
    BY <1>3, <2>1 DEF Codes
  <2> QED BY <1>3, <2>1, <2>2
<1>4. ASSUME NEW d \in Caller
      PROVE  /\ cs2[d].at = "hello" => ~v2.isHandshakeComplete /\ v2.connection # 0 /\ \A e \in Caller \ {d} : cs2[e].at # "hello"
             /\ cs2[d].at = "dial" => v2.connection = 0 /\ \A e \in Caller \ {d} : cs2[e].at # "dial"
             /\ InPayload(cs2, d) => v2.connection # 0
  <2>1. InPayload(cs2, d) => d # c /\ InPayload(cs, d)
    BY DEF InPayload, Reads
  <2> QED BY <1>0, <1>3, <2>1 DEF Codes
<1>5. /\ \A ch \in DOMAIN v2.channelMessages : ch <= v2.lastChannelCode
      /\ v2.connection <= v2.dialled
      /\ v2.channelCache # 0 => v2.channelCache \in DOMAIN v2.channelMessages /\ v2.isHandshakeComplete
      /\ v2.connection = 0 => v2.channelMessages = D!Broadcast /\ ~v2.isHandshakeComplete
  <2>1. \A ch \in DOMAIN v.channelMessages : ch <= v2.lastChannelCode
    <3>1. \A ch \in DOMAIN v.channelMessages : ch <= v.lastChannelCode /\ ch \in Nat
      BY DEF Codes
    <3> QED BY <1>0, <3>1
  <2> QED BY <1>0, <2>1 DEF Codes
<1> QED BY <1>1, <1>2, <1>4, <1>5 DEF Codes, CodeOf

\* Who begins to read waits its turn.
LEMMA TurnsJoin ==
    ASSUME DvGood, D!Quiet, NEW c \in Caller, ~Reads(calls, c), NEW cs, \A d \in Caller : d # c => cs[d] = calls[d],
           ~InPayload(cs, c)
    PROVE  Turns(svc.readBuffer, svc.channelMessages, cs)
<1> DEFINE cm == svc.channelMessages
           buf == svc.readBuffer
<1>1. Turns(buf, cm, calls)
  BY DEF DvGood
<1>2. \A d \in Caller : InPayload(cs, d) => d # c /\ InPayload(calls, d) /\ cs[d] = calls[d]
  BY DEF InPayload, Reads
<1>3. \A d \in Caller : d # c => (Reads(cs, d) <=> Reads(calls, d)) /\ (InPayload(cs, d) <=> InPayload(calls, d))
  BY DEF InPayload, Reads
<1>4. ASSUME NEW d \in Caller, d # c, Reads(calls, d)
      PROVE  /\ Len(buf) < 2
             /\ InPayload(calls, d) => buf = <<>>
             /\ calls[d].channel \in DOMAIN cm => cm[calls[d].channel].messages = <<>>
  <2>1. Len(buf) < 2 /\ (InPayload(calls, d) => buf = <<>>)
    BY <1>4, QuietIs
  <2>2. CASE InPayload(calls, d)
    BY <1>1, <2>1, <2>2 DEF Turns
  <2>3. CASE ~InPayload(calls, d)
    BY <1>4, <2>1, <2>3, QuietIs
  <2> QED BY <2>2, <2>3
<1>5. ASSUME NEW a \in Caller, NEW b \in Caller, Reads(cs, a), Reads(cs, b), a # b
      PROVE  /\ Len(buf) < 2
             /\ InPayload(cs, a) => buf = <<>> /\ ~InPayload(cs, b)
             /\ cs[a].channel = cs[b].channel /\ cs[a].channel \in DOMAIN cm => cm[cs[a].channel].messages = <<>>
  <2>1. CASE a # c /\ b # c
    <3>1. /\ Reads(calls, a) /\ Reads(calls, b) /\ cs[a] = calls[a] /\ cs[b] = calls[b]
          /\ (InPayload(cs, a) <=> InPayload(calls, a)) /\ (InPayload(cs, b) <=> InPayload(calls, b))
      BY <1>3, <1>5, <2>1
    <3> QED BY <1>1, <1>5, <3>1 DEF Turns
  <2>2. CASE a = c
    <3>1. b # c /\ Reads(calls, b) /\ cs[b] = calls[b]
      BY <1>3, <1>5, <2>2
    <3> QED BY <1>4, <2>2, <3>1
  <2>3. CASE b = c
    <3>1. a # c /\ Reads(calls, a) /\ cs[a] = calls[a] /\ (InPayload(cs, a) <=> InPayload(calls, a))
      BY <1>3, <1>5, <2>3
    <3> QED BY <1>4, <2>3, <3>1
  <2> QED BY <2>1, <2>2, <2>3
<1>6. \A d \in Caller : InPayload(cs, d) =>
          /\ cs[d].header \in DvByte /\ cs[d].header.part = 1 /\ (cs[d].header.f = 0 => cs[d].header.n = 1)
          /\ cs[d].channel \in DOMAIN cm /\ cm[cs[d].channel].messages = <<>>
  BY <1>1, <1>2 DEF Turns
<1> QED BY <1>5, <1>6 DEF Turns

JoinsAs(k) == /\ k.at \in {"make", "request", "listen"} /\ k.phase = "header"
              /\ IF k.at = "listen" THEN k.want = 0 ELSE k.want # 0 /\ sock = "open"

\* A caller who starts leaves the other readers alone.
LEMMA JoinKeeps ==
    ASSUME NEW c \in Caller, ~Reads(calls, c), NEW cs, \A d \in Caller : d # c => cs[d] = calls[d],
           ~InPayload(cs, c)
    PROVE  KeepsReaders(calls, cs)
<1>1. \A d \in Caller : Reads(calls, d) => d # c /\ cs[d] = calls[d]
  OBVIOUS
<1>2. \A d \in Caller : InPayload(cs, d) => d # c /\ cs[d] = calls[d]
  OBVIOUS
<1> QED BY <1>1, <1>2 DEF KeepsReaders, SameReader, InPayload, Reads

\* A caller may start when no continuation is left to run.
LEMMA DvJoins ==
    ASSUME DvGood, D!Quiet, UNCHANGED <<sock, wire>>, NEW c \in Caller, calls[c].at = "idle", DvService(svc'),
           svc'.readBuffer = svc.readBuffer, svc'.channelMessages = svc.channelMessages,
           svc'.connection = svc.connection, svc'.isHandshakeComplete = svc.isHandshakeComplete,
           calls' \in [Caller -> DvCall], \A d \in Caller : d # c => calls'[d] = calls[d],
           JoinsAs(calls'[c]), Codes(svc', calls'), device' \in DvDevice,
           sock = "open" => Flows(DvStream, svc.channelMessages, device', calls', stray', svc.isHandshakeComplete)
    PROVE  DvGood'
<1> DEFINE s == DvStream
           cm == svc.channelMessages
<1>1. ~Reads(calls, c) /\ ~InPayload(calls', c)
  BY DEF Reads, InPayload, JoinsAs
<1>2. Turns(svc.readBuffer, cm, calls')
  BY <1>1, TurnsJoin
<1>3. DvStream' = s
  BY DEF DvStream
<1> HIDE DEF s
<1>4. KeepsReaders(calls, calls')
  BY <1>1, JoinKeeps
<1>5. svc.connection # 0 => Framed(s, cm, calls')
  <2>1. ASSUME svc.connection # 0  PROVE Framed(s, cm, calls')
    <3>1. Framed(s, cm, calls)
      BY <2>1 DEF DvGood, s
    <3>2. \A d \in Caller : (InPayload(calls', d) <=> InPayload(calls, d)) /\ (InPayload(calls, d) => calls'[d] = calls[d])
      BY <1>1 DEF InPayload, Reads
    <3>3. Starts(s, calls')
      BY <3>1, <3>2 DEF Framed, Starts
    <3> QED BY <3>1, <3>3 DEF Framed
  <2> QED BY <2>1
<1>6. Wants(sock, svc, calls)'
  <2>1. \A d \in Caller : /\ sock # "open" /\ Reads(calls', d) => calls'[d].want = 0
                          /\ calls'[d].at \in {"hello", "make", "request"} => calls'[d].want # 0
                          /\ calls'[d].at = "listen" => calls'[d].want = 0
    <3>1. ASSUME NEW d \in Caller
          PROVE  /\ sock # "open" /\ Reads(calls', d) => calls'[d].want = 0
                 /\ calls'[d].at \in {"hello", "make", "request"} => calls'[d].want # 0
                 /\ calls'[d].at = "listen" => calls'[d].want = 0
      <4>1. CASE d = c
        BY <4>1 DEF JoinsAs
      <4>2. CASE d # c
        <5>1. calls'[d] = calls[d]
          BY <4>2
        <5> QED BY <5>1 DEF DvGood, Wants, Reads
      <4> QED BY <4>1, <4>2
    <3> QED BY <3>1
  <2> QED BY <2>1 DEF DvGood, Wants
<1>7. DvTyped'
  BY DEF DvGood, DvTyped
<1> QED BY <1>2, <1>3, <1>5, <1>6, <1>7 DEF DvGood, s

\* A call on a held channel reads that channel.
LEMMA CodeOfIdle ==
    ASSUME NEW v, NEW cs, Codes(v, cs), NEW c \in Caller, NEW k, k.held = cs[c].held,
           k.at \in {"idle", "request", "listen"},
           k.at # "idle" => k.held.on # 0 /\ k.channel = k.held.code, cs[c].at = "idle"
    PROVE  CodeOf(v, k) /\ \A d \in Caller : d # c /\ (k.at = "make" \/ cs[d].at = "make") => k.held.code # cs[d].held.code
<1>1. CodeOf(v, k)
  BY DEF Codes, CodeOf
<1>2. ASSUME NEW d \in Caller, d # c, cs[d].at = "make"  PROVE k.held.code # cs[d].held.code
  <2>1. c \in Caller \ {d}
    BY <1>2
  <2> QED BY <1>2, <2>1 DEF Codes
<1> QED BY <1>1, <1>2

\* A call on the channel that is held.
LEMMA HeldReads ==
    ASSUME DvGood, NEW c \in Caller, calls[c].at = "idle", calls[c].held.on # 0,
           NEW at \in {"request", "listen"}, NEW want \in Nat, NEW cs, cs = D!Reading(c, at, calls[c].held.code, want)
    PROVE  /\ cs \in [Caller -> DvCall] /\ \A d \in Caller : d # c => cs[d] = calls[d]
           /\ cs[c].at = at /\ cs[c].phase = "header" /\ cs[c].channel = calls[c].held.code /\ cs[c].want = want
           /\ cs[c].got = D!None /\ cs[c].held = calls[c].held /\ Codes(svc, cs)
<1>1. /\ calls \in [Caller -> DvCall] /\ Codes(svc, calls) /\ svc.lastChannelCode \in Nat
      /\ DOMAIN svc.channelMessages \subseteq Nat
  BY DvFields DEF DvGood, DvFragmenters
<1>2. calls[c].held.code \in Nat
  BY <1>1 DEF DvCall
<1>3. PICK code \in Nat : code = calls[c].held.code
  BY <1>2
<1>4. PICK a : a \in {"hello", "make", "request", "listen"} /\ a = at /\ cs = D!Reading(c, a, code, want)
  BY <1>3
<1>5. /\ cs \in [Caller -> DvCall] /\ \A d \in Caller : d # c => cs[d] = calls[d]
      /\ cs[c].at = at /\ cs[c].phase = "header" /\ cs[c].channel = code /\ cs[c].want = want
      /\ cs[c].got = D!None /\ cs[c].held = calls[c].held
  <2>1. /\ cs \in [Caller -> DvCall] /\ \A d \in Caller : d # c => cs[d] = calls[d]
        /\ cs[c].at = a /\ cs[c].phase = "header" /\ cs[c].channel = code /\ cs[c].want = want
        /\ cs[c].got = D!None /\ cs[c].held = calls[c].held
    <3>1. calls \in [Caller -> DvCall] /\ a \in {"hello", "make", "request", "listen"} /\ cs = D!Reading(c, a, code, want)
      BY <1>1, <1>4
    <3> QED BY <3>1, ReadingIs
  <2> QED BY <1>4, <2>1
<1>6. /\ CodeOf(svc, cs[c])
      /\ \A d \in Caller : d # c /\ (cs[c].at = "make" \/ calls[d].at = "make") => cs[c].held.code # calls[d].held.code
  <2>1. PICK k : k = cs[c]
    OBVIOUS
  <2>2. k.held = calls[c].held /\ k.at \in {"idle", "request", "listen"}
        /\ (k.at # "idle" => k.held.on # 0 /\ k.channel = k.held.code)
    BY <1>3, <1>5, <2>1
  <2>3. CodeOf(svc, k) /\ \A d \in Caller : d # c /\ (k.at = "make" \/ calls[d].at = "make") => k.held.code # calls[d].held.code
    BY <1>1, <2>2, CodeOfIdle
  <2> QED BY <2>1, <2>3
<1>7. cs[c].at \notin {"hello", "dial"} /\ ~InPayload(cs, c)
  BY <1>5 DEF InPayload
<1>8. Recoded(svc, svc)
  BY <1>1 DEF Recoded
<1>9. Codes(svc, cs)
  BY <1>1, <1>5, <1>6, <1>7, <1>8, CodesJoin
<1> QED BY <1>3, <1>5, <1>9

\* receivePlist() of an iterator.
LEMMA DvListens ==
    ASSUME DvGood, D!RepliesMatch, NEW c \in Caller, D!Listen(c)
    PROVE  DvGood' /\ D!RepliesMatch' /\ causes' = causes
<1>1. /\ D!Quiet /\ calls[c].at = "idle" /\ calls[c].held.on # 0
      /\ calls' = D!Reading(c, "listen", calls[c].held.code, 0) /\ UNCHANGED <<svc, sock, wire, device, stray, causes>>
  BY DEF D!Listen, D!MayStart
<1>2. ASSUME NEW cs, cs = D!Reading(c, "listen", calls[c].held.code, 0)
      PROVE  /\ cs \in [Caller -> DvCall] /\ \A d \in Caller : d # c => cs[d] = calls[d]
             /\ cs[c].at = "listen" /\ cs[c].phase = "header" /\ cs[c].channel = calls[c].held.code /\ cs[c].want = 0
             /\ cs[c].got = D!None /\ cs[c].held = calls[c].held /\ Codes(svc, cs)
  <2>1. "listen" \in {"request", "listen"} /\ 0 \in Nat
    OBVIOUS
  <2> QED BY <1>1, <1>2, <2>1, HeldReads
<1>3. /\ calls' \in [Caller -> DvCall] /\ \A d \in Caller : d # c => calls'[d] = calls[d]
      /\ calls'[c].at = "listen" /\ calls'[c].phase = "header" /\ calls'[c].want = 0
      /\ calls'[c].got = D!None /\ Codes(svc, calls')
  BY <1>1, <1>2
<1>4. D!RepliesMatch'
  BY <1>1, <1>3, RepliesKept
<1>5. JoinsAs(calls'[c])
  BY <1>3 DEF JoinsAs
<1>6. KeepsReaders(calls, calls')
  <2>1. ~Reads(calls, c) /\ ~InPayload(calls', c)
    BY <1>1, <1>3 DEF Reads, InPayload
  <2> QED BY <1>3, <2>1, JoinKeeps
<1>7. sock = "open" => Flows(DvStream, svc.channelMessages, device', calls', stray', svc.isHandshakeComplete)
  <2>1. ASSUME sock = "open"  PROVE Flows(DvStream, svc.channelMessages, device, calls', stray, svc.isHandshakeComplete)
    <3>1. Flows(DvStream, svc.channelMessages, device, calls, stray, svc.isHandshakeComplete)
      BY <2>1 DEF DvGood
    <3> QED BY <1>6, <3>1, FlowsOn
  <2> QED BY <1>1, <2>1
<1>8. DvService(svc') /\ device' \in DvDevice /\ Codes(svc', calls')
  BY <1>1, <1>3 DEF DvGood, DvTyped
<1>9. /\ svc'.readBuffer = svc.readBuffer /\ svc'.channelMessages = svc.channelMessages
      /\ svc'.connection = svc.connection /\ svc'.isHandshakeComplete = svc.isHandshakeComplete
      /\ UNCHANGED <<sock, wire>>
  BY <1>1
<1>10. DvGood'
  BY <1>1, <1>3, <1>5, <1>7, <1>8, <1>9, DvJoins
<1> QED BY <1>1, <1>4, <1>10

\* A call on a channel and the read of its reply.
LEMMA DvRequests ==
    ASSUME DvGood, D!RepliesMatch, NEW c \in Caller, D!Request(c)
    PROVE  DvGood' /\ D!RepliesMatch' /\ causes' = causes
<1> DEFINE code == calls[c].held.code
           count == device.count + 1
<1>1. /\ D!Quiet /\ calls[c].at = "idle" /\ calls[c].held.on # 0 /\ sock = "open"
      /\ device' = Sent(device, code, D!Current(c))
      /\ calls' = D!Reading(c, "request", code, device'.count) /\ UNCHANGED <<svc, sock, wire, stray, causes>>
  BY SendIs DEF D!Request, D!MayStart
<1>2. /\ calls \in [Caller -> DvCall] /\ device \in DvDevice /\ device.count \in Nat /\ Codes(svc, calls)
  BY DvFields DEF DvGood, DvTyped
<1>3. device'.count = count /\ count \in Nat \ {0}
  BY <1>1, <1>2 DEF DvDevice, Sent
<1>4. ASSUME NEW cs, NEW w \in Nat, cs = D!Reading(c, "request", calls[c].held.code, w)
      PROVE  /\ cs \in [Caller -> DvCall] /\ \A d \in Caller : d # c => cs[d] = calls[d]
             /\ cs[c].at = "request" /\ cs[c].phase = "header" /\ cs[c].channel = calls[c].held.code /\ cs[c].want = w
             /\ cs[c].got = D!None /\ cs[c].held = calls[c].held /\ Codes(svc, cs)
  <2>1. "request" \in {"request", "listen"}
    OBVIOUS
  <2> QED BY <1>1, <1>4, <2>1, HeldReads
<1> HIDE DEF count
<1>5. /\ calls' \in [Caller -> DvCall] /\ \A d \in Caller : d # c => calls'[d] = calls[d]
      /\ calls'[c].at = "request" /\ calls'[c].phase = "header" /\ calls'[c].channel = code /\ calls'[c].want = count
      /\ calls'[c].got = D!None /\ Codes(svc, calls')
  BY <1>1, <1>3, <1>4, SMTT(30)
<1>6. D!RepliesMatch'
  BY <1>1, <1>5, RepliesKept
<1>7. JoinsAs(calls'[c])
  BY <1>1, <1>3, <1>5 DEF JoinsAs
<1>8. KeepsReaders(calls, calls')
  <2>1. ~Reads(calls, c) /\ ~InPayload(calls', c)
    BY <1>1, <1>5 DEF Reads, InPayload
  <2> QED BY <1>5, <2>1, JoinKeeps
<1>9. Flows(DvStream, svc.channelMessages, device', calls', stray', svc.isHandshakeComplete) /\ device' \in DvDevice
  <2>1. Flows(DvStream, svc.channelMessages, device, calls, stray, svc.isHandshakeComplete)
    BY <1>1 DEF DvGood
  <2>2. code \in Nat /\ D!Current(c) \in BOOLEAN
    BY <1>2 DEF DvCall, D!Current
  <2>3. D!Current(c) => code \in DOMAIN svc.channelMessages /\ svc.isHandshakeComplete
    BY <1>1, <1>2 DEF Codes, D!Current
  <2>4. WantedBy(calls', stray, Asked(count, code))
    BY <1>5 DEF WantedBy, Asked, Reads
  <2> DEFINE known == D!Current(c)
             cs == calls'
  <2>5. known => Serves(svc.channelMessages, cs, stray, svc.isHandshakeComplete, device, code)
    BY <2>3, <2>4 DEF count, Serves
  <2>6. KeepsReaders(calls, cs) /\ known \in BOOLEAN
    BY <1>8, <2>2
  <2> HIDE DEF known, cs, code
  <2>7. ASSUME NEW d2, d2 = Sent(device, code, known)
        PROVE  Flows(DvStream, svc.channelMessages, d2, cs, stray, svc.isHandshakeComplete) /\ d2 \in DvDevice
    BY <1>2, <2>1, <2>2, <2>5, <2>6, <2>7, FlowsSent
  <2>8. device' = Sent(device, code, known)
    BY <1>1 DEF known, code
  <2> QED BY <1>1, <2>7, <2>8 DEF cs
<1>10. DvService(svc') /\ device' \in DvDevice /\ Codes(svc', calls')
  BY <1>1, <1>5, <1>9 DEF DvGood, DvTyped
<1>11. /\ svc'.readBuffer = svc.readBuffer /\ svc'.channelMessages = svc.channelMessages
       /\ svc'.connection = svc.connection /\ svc'.isHandshakeComplete = svc.isHandshakeComplete
       /\ UNCHANGED <<sock, wire>>
  BY <1>1, SMTT(30)
<1>12. DvGood'
  BY <1>1, <1>5, <1>7, <1>9, <1>10, <1>11, DvJoins
<1> QED BY <1>1, <1>6, <1>12

\* A call on a channel whose reply nobody reads.
LEMMA DvCommands ==
    ASSUME DvGood, D!RepliesMatch, NEW c \in Caller, D!Command(c)
    PROVE  DvGood' /\ D!RepliesMatch' /\ causes' = causes
<1> DEFINE code == calls[c].held.code
           known == D!Current(c)
<1>1. /\ calls[c].held.on # 0 /\ sock = "open" /\ device' = Sent(device, code, known)
      /\ stray' = stray \cup {<<svc.connection, code>>} /\ UNCHANGED <<svc, sock, wire, calls, causes>>
  BY SendIs DEF D!Command
<1>2. /\ calls \in [Caller -> DvCall] /\ device \in DvDevice /\ Codes(svc, calls)
  BY DvFields DEF DvGood, DvTyped
<1>3. code \in Nat /\ known \in BOOLEAN
  BY <1>2 DEF DvCall, D!Current
<1>4. known => code \in DOMAIN svc.channelMessages /\ svc.isHandshakeComplete
  BY <1>1, <1>2 DEF Codes, D!Current
<1>5. Flows(DvStream, svc.channelMessages, device, calls, stray, svc.isHandshakeComplete)
  BY <1>1 DEF DvGood
<1>6. KeepsReaders(calls, calls)
  BY DEF KeepsReaders, SameReader
<1>7. PICK st : st = stray \cup {<<svc.connection, code>>}
  OBVIOUS
<1>8. stray \subseteq st /\ <<svc.connection, code>> \in st
  BY <1>7
<1>9. WantedBy(calls, st, Asked(device.count + 1, code))
  <2>1. <<svc.connection, code>>[2] = code
    OBVIOUS
  <2>2. Asked(device.count + 1, code).channel = code
    BY DEF Asked
  <2>3. \E s \in st : s[2] = Asked(device.count + 1, code).channel
    BY <1>8, <2>1, <2>2
  <2> QED BY <2>3 DEF WantedBy
<1> HIDE DEF code, known
<1>10. ASSUME NEW d2, d2 = Sent(device, code, known)
       PROVE  Flows(DvStream, svc.channelMessages, d2, calls, st, svc.isHandshakeComplete) /\ d2 \in DvDevice
  <2>1. known => Serves(svc.channelMessages, calls, st, svc.isHandshakeComplete, device, code)
    BY <1>4, <1>9 DEF Serves
  <2> QED BY <1>2, <1>3, <1>5, <1>6, <1>8, <1>10, <2>1, FlowsSent
<1>11. Flows(DvStream, svc.channelMessages, device', calls, stray', svc.isHandshakeComplete) /\ device' \in DvDevice
  BY <1>1, <1>7, <1>10
<1>12. DvStream' = DvStream
  BY <1>1 DEF DvStream
<1>13. DvTyped' /\ Wants(sock, svc, calls)'
  BY <1>1, <1>11 DEF DvGood, DvTyped, Wants
<1>14. DvGood'
  BY <1>1, <1>11, <1>12, <1>13 DEF DvGood
<1>15. D!RepliesMatch'
  BY <1>1, RepliesKept
<1> QED BY <1>1, <1>14, <1>15

\* makeChannel(), from the cache.
LEMMA DvReuses ==
    ASSUME DvGood, D!RepliesMatch, NEW c \in Caller, calls[c].at = "idle", svc.isHandshakeComplete, svc.channelCache # 0,
           calls' = Held(calls, c, [code |-> svc.channelCache, on |-> svc.connection]),
           UNCHANGED <<svc, sock, wire, device, stray, causes>>
    PROVE  DvGood' /\ D!RepliesMatch'
<1>1. /\ calls \in [Caller -> DvCall] /\ Codes(svc, calls) /\ svc.lastChannelCode \in Nat
      /\ DOMAIN svc.channelMessages \subseteq Nat /\ svc.channelCache \in Nat /\ svc.connection \in Nat
  BY DvFields DEF DvGood, DvFragmenters
<1>2. PICK h : h = [code |-> svc.channelCache, on |-> svc.connection]
  OBVIOUS
<1>3. h \in [code : Nat, on : Nat] /\ h.code = svc.channelCache /\ h.on = svc.connection
  BY <1>1, <1>2
<1>4. ASSUME NEW cs, cs = Held(calls, c, h)
      PROVE  /\ cs \in [Caller -> DvCall] /\ \A d \in Caller : d # c => cs[d] = calls[d]
             /\ cs[c].at = calls[c].at /\ cs[c].held = h /\ cs[c].got = calls[c].got /\ cs[c].channel = calls[c].channel
  BY <1>1, <1>3, <1>4, HeldIs
<1>5. /\ calls' \in [Caller -> DvCall] /\ \A d \in Caller : d # c => calls'[d] = calls[d]
      /\ calls'[c].at = "idle" /\ calls'[c].held = h /\ calls'[c].got = calls[c].got
      /\ calls'[c].channel = calls[c].channel
  BY <1>2, <1>4
<1>6. Codes(svc, calls')
  <2>1. svc.channelCache \in DOMAIN svc.channelMessages /\ svc.connection # 0 /\ svc.connection <= svc.dialled
        /\ svc.channelCache <= svc.lastChannelCode
    BY <1>1 DEF Codes
  <2>2. CodeOf(svc, calls'[c])
    BY <1>3, <1>5, <2>1 DEF CodeOf
  <2>3. \A d \in Caller : d # c /\ (calls'[c].at = "make" \/ calls[d].at = "make") => calls'[c].held.code # calls[d].held.code
    <3>1. ASSUME NEW d \in Caller, calls[d].at = "make"  PROVE calls[d].held.code # svc.channelCache
      BY <1>1, <2>1, <3>1 DEF Codes
    <3> QED BY <1>3, <1>5, <3>1
  <2>4. calls'[c].at \notin {"hello", "dial"} /\ ~InPayload(calls', c) /\ Recoded(svc, svc)
    BY <1>1, <1>5 DEF InPayload, Reads, Recoded
  <2> DEFINE cs == calls'
  <2>5. /\ CodeOf(svc, cs[c]) /\ cs[c].at \notin {"hello", "dial"} /\ ~InPayload(cs, c)
        /\ \A d \in Caller : d # c => cs[d] = calls[d]
        /\ \A d \in Caller : d # c /\ (cs[c].at = "make" \/ calls[d].at = "make") => cs[c].held.code # calls[d].held.code
    BY <1>5, <2>2, <2>3, <2>4
  <2> HIDE DEF cs
  <2>6. Codes(svc, cs)
    BY <1>1, <2>4, <2>5, CodesJoin
  <2> QED BY <2>6 DEF cs
<1>7. FewerReaders(calls, calls') /\ \A d \in Caller : ~(Reads(calls, d) /\ ~Reads(calls', d))
  BY <1>5 DEF FewerReaders, SameReader, Reads
<1>8. DvGood'
  BY <1>5, <1>6, <1>7, ReadersLeave
<1>9. D!RepliesMatch'
  BY <1>5, RepliesKept
<1> QED BY <1>8, <1>9

Coded(v, k) == [v EXCEPT !.lastChannelCode = k]

\* The fields of a service that has used a channel code.
LEMMA CodedService ==
    ASSUME NEW v, DvService(v), NEW k \in Nat, NEW v2, v2 = Coded(v, k)
    PROVE  Fields(v2, v.connection, v.dialled, k, v.channelCache, v.channelMessages, v.isHandshakeComplete, v.readBuffer)
           /\ DvService(v2)
<1>1. Fields(v2, v.connection, v.dialled, k, v.channelCache, v.channelMessages, v.isHandshakeComplete, v.readBuffer)
  BY DEF DvService, Fields, Coded
<1>2. /\ v.connection \in Nat /\ v.dialled \in Nat /\ v.channelCache \in Nat /\ DvFragmenters(v.channelMessages)
      /\ v.isHandshakeComplete \in BOOLEAN /\ v.readBuffer \in Seq(DvByte)
  BY DEF DvService
<1>3. DvService(v2)
  BY <1>1, <1>2, FieldsTyped
<1> QED BY <1>1, <1>3

\* makeChannel(), from the device.
LEMMA DvMakes ==
    ASSUME DvGood, D!RepliesMatch, NEW c \in Caller, D!Quiet, calls[c].at = "idle", svc.isHandshakeComplete,
           sock = "open", device' = Sent(device, 0, TRUE), NEW k, k = svc.lastChannelCode + 1, svc' = Coded(svc, k),
           \E cs : cs = D!Reading(c, "make", 0, device'.count) /\ calls' = Held(cs, c, [code |-> k, on |-> 0]),
           UNCHANGED <<sock, wire, stray, causes>>
    PROVE  DvGood' /\ D!RepliesMatch'
<1> DEFINE count == device.count + 1
<1>1. /\ calls \in [Caller -> DvCall] /\ device \in DvDevice /\ device.count \in Nat /\ Codes(svc, calls)
      /\ svc.lastChannelCode \in Nat /\ DvService(svc) /\ DvFragmenters(svc.channelMessages)
  BY DvFields DEF DvGood, DvTyped
<1>2. /\ device'.count = count /\ count \in Nat \ {0} /\ k \in Nat /\ k # 0 /\ svc.lastChannelCode <= k
      /\ \A x \in Nat : x <= svc.lastChannelCode => x # k /\ x <= k
  BY <1>1 DEF DvDevice, Sent
<1>3. PICK cs : cs = D!Reading(c, "make", 0, count) /\ calls' = Held(cs, c, [code |-> k, on |-> 0])
  BY <1>2
<1> HIDE DEF count
<1>4. PICK h : h = [code |-> k, on |-> 0]
  OBVIOUS
<1>5. h \in [code : Nat, on : Nat] /\ h.code = k /\ h.on = 0
  BY <1>2, <1>4
<1>6. /\ cs \in [Caller -> DvCall] /\ \A d \in Caller : d # c => cs[d] = calls[d]
      /\ cs[c].at = "make" /\ cs[c].phase = "header" /\ cs[c].channel = 0 /\ cs[c].want = count
      /\ cs[c].got = D!None
  <2>1. PICK a, z, w : /\ a = "make" /\ z = 0 /\ w = count
                       /\ a \in {"hello", "make", "request", "listen"} /\ z \in Nat /\ w \in Nat
    BY <1>2
  <2>2. /\ cs \in [Caller -> DvCall] /\ \A d \in Caller : d # c => cs[d] = calls[d]
        /\ cs[c].at = a /\ cs[c].phase = "header" /\ cs[c].channel = z /\ cs[c].want = w
        /\ cs[c].got = D!None
    <3>1. /\ calls \in [Caller -> DvCall] /\ a \in {"hello", "make", "request", "listen"} /\ z \in Nat /\ w \in Nat
          /\ cs = D!Reading(c, a, z, w)
      BY <1>1, <1>3, <2>1
    <3> QED BY <3>1, ReadingIs
  <2> QED BY <2>1, <2>2
<1>7. ASSUME NEW cs2, cs2 = Held(cs, c, h)
      PROVE  /\ cs2 \in [Caller -> DvCall] /\ \A d \in Caller : d # c => cs2[d] = cs[d]
             /\ cs2[c].at = cs[c].at /\ cs2[c].want = cs[c].want /\ cs2[c].held = h /\ cs2[c].got = cs[c].got
             /\ cs2[c].channel = cs[c].channel /\ cs2[c].phase = cs[c].phase
  BY <1>5, <1>6, <1>7, HeldIs
<1>8. /\ calls' \in [Caller -> DvCall] /\ \A d \in Caller : d # c => calls'[d] = calls[d]
      /\ calls'[c].at = "make" /\ calls'[c].phase = "header" /\ calls'[c].channel = 0 /\ calls'[c].want = count
      /\ calls'[c].got = D!None /\ calls'[c].held = h
  <2>1. calls' = Held(cs, c, h)
    BY <1>3, <1>4
  <2>2. /\ calls' \in [Caller -> DvCall] /\ \A d \in Caller : d # c => calls'[d] = cs[d]
        /\ calls'[c].at = cs[c].at /\ calls'[c].want = cs[c].want /\ calls'[c].held = h /\ calls'[c].got = cs[c].got
        /\ calls'[c].channel = cs[c].channel /\ calls'[c].phase = cs[c].phase
    BY <1>7, <2>1
  <2> QED BY <1>6, <2>2
<1>9. /\ Fields(svc', svc.connection, svc.dialled, k, svc.channelCache, svc.channelMessages, svc.isHandshakeComplete,
                svc.readBuffer)
      /\ DvService(svc')
  <2>1. ASSUME NEW v2, v2 = Coded(svc, k)
        PROVE  /\ Fields(v2, svc.connection, svc.dialled, k, svc.channelCache, svc.channelMessages, svc.isHandshakeComplete,
                         svc.readBuffer)
               /\ DvService(v2)
    BY <1>1, <1>2, <2>1, CodedService
  <2> QED BY <2>1
<1>10. /\ svc'.connection = svc.connection /\ svc'.dialled = svc.dialled /\ svc'.lastChannelCode = k
       /\ svc'.channelCache = svc.channelCache /\ svc'.channelMessages = svc.channelMessages
       /\ svc'.isHandshakeComplete = svc.isHandshakeComplete /\ svc'.readBuffer = svc.readBuffer
  BY <1>9 DEF Fields
<1>11. Codes(svc', calls')
  <2> DEFINE v2 == svc'
             cs2 == calls'
  <2>1. DOMAIN svc.channelMessages \subseteq Nat /\ k \notin DOMAIN svc.channelMessages
    <3>1. DOMAIN svc.channelMessages \subseteq Nat
      BY <1>1 DEF DvFragmenters
    <3>2. \A ch \in DOMAIN svc.channelMessages : ch <= svc.lastChannelCode
      BY <1>1 DEF Codes
    <3> QED BY <1>2, <3>1, <3>2
  <2>2. \A d \in Caller : calls[d].held.code # k
    <3>1. \A d \in Caller : calls[d].held.code \in Nat
      BY <1>1 DEF DvCall
    <3>2. \A d \in Caller : calls[d].held.code <= svc.lastChannelCode
      BY <1>1 DEF Codes
    <3> QED BY <1>2, <3>1, <3>2
  <2>3. CodeOf(v2, cs2[c])
    <3>1. k <= k /\ 0 <= svc.dialled
      <4>1. svc.dialled \in Nat
        BY DvFields
      <4> QED BY <1>2, <4>1
    <3> QED BY <1>2, <1>5, <1>8, <1>10, <2>1, <3>1 DEF CodeOf
  <2>4. /\ cs2[c].at \notin {"hello", "dial"} /\ ~InPayload(cs2, c)
        /\ \A d \in Caller : d # c => cs2[d] = calls[d]
        /\ \A d \in Caller : d # c /\ (cs2[c].at = "make" \/ calls[d].at = "make") => cs2[c].held.code # calls[d].held.code
    BY <1>5, <1>8, <2>2 DEF InPayload
  <2>5. Recoded(svc, v2)
    BY <1>2, <1>10 DEF Recoded
  <2> HIDE DEF v2, cs2
  <2>6. Codes(v2, cs2)
    BY <1>1, <2>1, <2>3, <2>4, <2>5, CodesJoin
  <2> QED BY <2>6 DEF v2, cs2
<1>12. D!RepliesMatch'
  BY <1>8, RepliesKept
<1>13. JoinsAs(calls'[c])
  BY <1>2, <1>8 DEF JoinsAs
<1>14. KeepsReaders(calls, calls')
  <2>1. ~Reads(calls, c) /\ ~InPayload(calls', c)
    BY <1>8 DEF Reads, InPayload
  <2> QED BY <1>8, <2>1, JoinKeeps
<1>15. Flows(DvStream, svc.channelMessages, device', calls', stray', svc.isHandshakeComplete) /\ device' \in DvDevice
  <2> DEFINE cs2 == calls'
  <2>1. Flows(DvStream, svc.channelMessages, device, calls, stray, svc.isHandshakeComplete)
    BY DEF DvGood
  <2>2. TRUE => 0 \in DOMAIN svc.channelMessages /\ svc.isHandshakeComplete /\ WantedBy(cs2, stray, Asked(device.count + 1, 0))
    <3>1. WantedBy(cs2, stray, Asked(device.count + 1, 0))
      BY <1>8 DEF WantedBy, Asked, Reads, count
    <3> QED BY <1>1, <3>1 DEF DvFragmenters
  <2>3. KeepsReaders(calls, cs2)
    BY <1>14
  <2> HIDE DEF cs2
  <2>4. ASSUME NEW d2, d2 = Sent(device, 0, TRUE)
        PROVE  Flows(DvStream, svc.channelMessages, d2, cs2, stray, svc.isHandshakeComplete) /\ d2 \in DvDevice
    <3> DEFINE known == (0 = 0)
               code == 0
    <3>1. code \in Nat /\ known \in BOOLEAN
      OBVIOUS
    <3>2. d2 = Sent(device, code, known)
      <4>1. known = TRUE
        OBVIOUS
      <4> QED BY <2>4, <4>1
    <3>3. known => Serves(svc.channelMessages, cs2, stray, svc.isHandshakeComplete, device, code)
      BY <2>2 DEF Serves
    <3> HIDE DEF known, code
    <3> QED BY <1>1, <2>1, <2>3, <3>1, <3>2, <3>3, FlowsSent
  <2> QED BY <2>4 DEF cs2
<1>16. DvGood'
  BY <1>8, <1>9, <1>10, <1>11, <1>13, <1>15, DvJoins
<1> QED BY <1>12, <1>16

\* makeChannel(), from the cache or from the device.
LEMMA DvMakesChannel ==
    ASSUME DvGood, D!RepliesMatch, NEW c \in Caller, D!MakeChannel(c)
    PROVE  DvGood' /\ D!RepliesMatch' /\ causes' = causes
<1>1. /\ D!Quiet /\ calls[c].at = "idle" /\ svc.isHandshakeComplete /\ UNCHANGED <<sock, wire, stray, causes>>
      /\ IF svc.channelCache # 0
         THEN calls' = Held(calls, c, [code |-> svc.channelCache, on |-> svc.connection]) /\ UNCHANGED <<svc, device>>
         ELSE /\ sock = "open" /\ D!Send(0, TRUE) /\ svc' = Coded(svc, svc.lastChannelCode + 1)
              /\ calls' = Held(D!Reading(c, "make", 0, device'.count), c, [code |-> svc.lastChannelCode + 1, on |-> 0])
  BY Zenon DEF D!MakeChannel, D!MayStart, D!NextCode, Held, Coded
<1>2. CASE svc.channelCache # 0
  BY <1>1, <1>2, DvReuses
<1>3. CASE svc.channelCache = 0
  <2>1. PICK k : k = svc.lastChannelCode + 1
    OBVIOUS
  <2>2. device' = Sent(device, 0, TRUE)
    BY <1>1, <1>3, SendIs
  <2>3. svc' = Coded(svc, k) /\ sock = "open"
        /\ \E cs : cs = D!Reading(c, "make", 0, device'.count) /\ calls' = Held(cs, c, [code |-> k, on |-> 0])
    BY <1>1, <1>3, <2>1
  <2> QED BY <1>1, <2>1, <2>2, <2>3, DvMakes
<1> QED BY <1>1, <1>2, <1>3

-----------------------------------------------------------------------------
(* The steps together.                                                         *)

\* A channel that is read and is not of this connection is not one of its channels.
LEMMA CodesApart ==
    ASSUME DvGood
    PROVE  D!ChannelsNeverAlias
<1>1. Codes(svc, calls)
  BY DEF DvGood
<1> QED
  BY <1>1 DEF Codes, D!ChannelsNeverAlias

\* A service that was never connected.
LEMMA DvInitial ==
    ASSUME D!DvtInit
    PROVE  DvGood /\ D!RepliesMatch /\ D!FramesKept
<1>1. /\ svc = [connection |-> 0, dialled |-> 0, lastChannelCode |-> 0, channelCache |-> 0,
                channelMessages |-> D!Broadcast, isHandshakeComplete |-> FALSE, readBuffer |-> <<>>]
      /\ sock = "none" /\ wire = <<>> /\ causes = {}
      /\ device = [owed |-> <<>>, rest |-> <<>>, count |-> 0]
      /\ \A c \in Caller : calls[c] = [at |-> "idle", phase |-> "header", header |-> D!NoHeader, channel |-> 0,
                                       held |-> [code |-> 0, on |-> 0], want |-> 0, got |-> D!None]
      /\ calls = [c \in Caller |-> calls[c]]
  BY DEF D!DvtInit
<1>2. D!None \in DvMessage
  BY DEF D!None, DvMessage
<1>3. calls \in [Caller -> DvCall]
  BY <1>1, <1>2 DEF DvCall
<1>4. DvFragmenters(D!Broadcast) /\ DOMAIN D!Broadcast = {0}
  BY BroadcastIs
<1>5. DvTyped
  <2>1. DvService(svc)
    BY <1>1, <1>4 DEF DvService
  <2>2. device \in DvDevice
    BY <1>1 DEF DvDevice
  <2> QED
    BY <1>1, <1>3, <2>1, <2>2 DEF DvTyped
<1>6. \A c \in Caller : ~Reads(calls, c) /\ ~InPayload(calls, c)
  BY <1>1 DEF Reads, InPayload
<1>7. Turns(svc.readBuffer, svc.channelMessages, calls)
  BY <1>6 DEF Turns
<1>8. Codes(svc, calls)
  BY <1>1, <1>4, <1>6 DEF Codes
<1>9. Wants(sock, svc, calls)
  BY <1>1, <1>6 DEF Wants
<1> QED
  BY <1>1, <1>5, <1>7, <1>8, <1>9 DEF DvGood, D!RepliesMatch, D!FramesKept

\* Where the step loses frames, too.
LEMMA ReadsApart ==
    ASSUME DvGood, NEW n, D!Data(n)
    PROVE  D!ChannelsNeverAlias'
<1>1. D!ChannelsNeverAlias
  BY CodesApart
<1>2. DvService(svc)
  BY DEF DvGood, DvTyped
<1>3. UNCHANGED calls /\ svc'.connection = svc.connection /\ svc'.channelMessages = svc.channelMessages
  BY <1>2 DEF D!Data, DvService
<1> QED
  BY <1>1, <1>3 DEF D!ChannelsNeverAlias

\* Nobody reads when the dial succeeds.
LEMMA DialedApart ==
    ASSUME DvGood, NEW c \in Caller, D!Dialed(c)
    PROVE  D!ChannelsNeverAlias'
<1>1. D!Quiet /\ calls[c].at = "dial" /\ \E w : calls' = D!Reading(c, "hello", 0, w)
  BY DEF D!Dialed
<1>2. Codes(svc, calls) /\ Wants(sock, svc, calls) /\ calls \in [Caller -> DvCall]
  BY DEF DvGood, DvTyped
<1>3. svc.connection = 0
  BY <1>1, <1>2 DEF Codes
<1>4. \A d \in Caller : ~Reads(calls, d)
  BY <1>2, <1>3, <1>1, QuietIs DEF Wants
<1>5. \A d \in Caller : calls'[d].at \notin {"request", "listen"}
  BY <1>1, <1>2, <1>4 DEF D!Reading, Reads, DvCall
<1> QED
  BY <1>5 DEF D!ChannelsNeverAlias

\* A step that keeps the invariant, or loses frames for a cause the model names.
Kept == D!RepliesMatch /\ D!ChannelsNeverAlias /\ D!FramesKept /\ DvInv

\* A step that loses no frame.
LEMMA KeptStep ==
    ASSUME D!FramesKept, DvGood', D!RepliesMatch', causes' = causes
    PROVE  Kept'
<1>1. Codes(svc', calls')
  BY DEF DvGood
<1>2. D!ChannelsNeverAlias'
  BY <1>1 DEF Codes, D!ChannelsNeverAlias
<1> QED
  BY <1>2 DEF Kept, D!FramesKept, DvInv

\* A step of the device.
LEMMA KeptDevice ==
    ASSUME D!FramesKept, D!RepliesMatch, DvGood', stray \subseteq stray', UNCHANGED <<calls, causes>>
    PROVE  Kept'
<1>1. D!RepliesMatch'
  BY RepliesKept
<1> QED
  BY <1>1, KeptStep

\* A step that may lose frames, for a cause the model names.
LEMMA KeptLost ==
    ASSUME D!FramesKept, D!RepliesMatch', D!ChannelsNeverAlias', "garbled" \notin causes' \ causes,
           causes' \cap D!Broken = {} => DvGood'
    PROVE  Kept'
  BY DEF Kept, D!FramesKept, DvInv

\* A step of another component.
LEMMA KeptSame ==
    ASSUME Kept, UNCHANGED dvtVars
    PROVE  Kept'
<1>1. UNCHANGED <<svc, sock, wire, device, calls, stray, causes>>
  BY DEF dvtVars
<1>2. DvStream' = DvStream
  BY <1>1 DEF DvStream
<1>3. DvTyped' = DvTyped
  BY <1>1 DEF DvTyped
<1>4. DvGood' = DvGood
  BY <1>1, <1>2, <1>3, SMTT(30) DEF DvGood, Wants
<1> QED
  BY <1>1, <1>4 DEF Kept, D!RepliesMatch, D!ChannelsNeverAlias, D!FramesKept, DvInv

\* Nothing of this moves once frames were lost.
LEMMA StillSound ==
    ASSUME D!DvtNext
    PROVE  causes \cap D!Broken = {}
  BY DEF D!DvtNext, D!Connect, D!Dialed, D!DialFails, D!MakeChannel, D!Request, D!Command, D!Listen, D!Iterate,
         D!Abort, D!CloseBegin, D!CloseDone, D!Data, D!PeerCloses, D!DeviceReplies, D!DeviceEvents,
         D!DeviceContinues, D!MayStart, D!Quiet

\* Every step of the connection keeps the invariant.
LEMMA DvStep ==
    ASSUME IsFiniteSet(Caller), ChunkSize \subseteq Nat \ {0}, Kept, D!DvtNext
    PROVE  Kept'
<1>1. D!FramesKept /\ D!RepliesMatch /\ DvGood
  BY StillSound DEF Kept, DvInv
<1>2. ASSUME NEW c \in Caller,
             D!Connect(c) \/ D!DialFails(c) \/ D!MakeChannel(c) \/ D!Request(c) \/ D!Command(c) \/ D!Listen(c)
               \/ D!Iterate(c) \/ D!Abort(c) \/ D!CloseBegin(c) \/ D!CloseDone(c)
      PROVE  Kept'
  <2>1. DvGood' /\ D!RepliesMatch' /\ causes' = causes
    BY <1>1, <1>2, DvConnects, DvDialFails, DvMakesChannel, DvRequests, DvCommands, DvListens, DvIterates, DvAborts,
       DvBeginsClosing, DvClosed
  <2> QED
    BY <1>1, <2>1, KeptStep
<1>3. ASSUME NEW c \in Caller, D!Dialed(c)
      PROVE  Kept'
  BY <1>1, <1>3, DvDialed, DialedApart, KeptLost
<1>4. ASSUME NEW n \in ChunkSize, D!Data(n)
      PROVE  Kept'
  BY <1>1, <1>4, DvReads, ReadsApart, KeptLost
<1>5. ASSUME D!PeerCloses
      PROVE  Kept'
  BY <1>1, <1>5, DvPeerCloses, KeptStep
<1>6. ASSUME NEW n \in {1, 3}, D!DeviceReplies(n)
      PROVE  Kept'
  <2>1. stray \subseteq stray' /\ UNCHANGED <<calls, causes>>
    BY <1>6 DEF D!DeviceReplies
  <2> QED
    BY <1>1, <1>6, <2>1, DvReplies, KeptDevice
<1>7. ASSUME NEW n \in {1, 3}, NEW ch \in DOMAIN svc.channelMessages, D!DeviceEvents(ch, n)
      PROVE  Kept'
  <2>1. stray \subseteq stray' /\ UNCHANGED <<calls, causes>>
    BY <1>7 DEF D!DeviceEvents
  <2> QED
    BY <1>1, <1>7, <2>1, DvEvents, KeptDevice
<1>8. ASSUME D!DeviceContinues
      PROVE  Kept'
  <2>1. stray \subseteq stray' /\ UNCHANGED <<calls, causes>>
    BY <1>8 DEF D!DeviceContinues
  <2> QED
    BY <1>1, <1>8, <2>1, DvContinues, KeptDevice
<1> QED
  BY <1>2, <1>3, <1>4, <1>5, <1>6, <1>7, <1>8 DEF D!DvtNext

\* The invariant holds: the lemmas above, step by step.
THEOREM ConnectionKept == Spec => []Kept
<1>1. Init => Kept
  <2> SUFFICES ASSUME Init PROVE Kept
    OBVIOUS
  <2>1. D!DvtInit
    BY DEF Init
  <2> QED
    BY <2>1, DvInitial, CodesApart DEF Kept, DvInv
<1>2. Kept /\ [Next]_vars => Kept'
  <2> SUFFICES ASSUME Kept, [Next]_vars PROVE Kept'
    OBVIOUS
  <2>1. CASE UNCHANGED dvtVars
    BY <2>1, KeptSame
  <2>2. CASE D!DvtNext
    BY <2>2, DvStep, CallerAssumption, DtxBounds
  <2> QED
    BY <2>1, <2>2 DEF Next, Connection, Tap, Audit, vars
<1> QED
  BY <1>1, <1>2, PTL DEF Spec

\* Whatever the splits, fragments, aborts and lost connections, what a reader takes for a header
\* is one and what a channel delivers is a message, up to a cause that Broken names: for any
\* finite set of callers, any chunks, connections and messages.
THEOREM FramesAreKept == Spec => []FramesKept
<1>1. Kept => FramesKept
  BY DEF Kept, FramesKept
<1> QED
  BY <1>1, ConnectionKept, PTL

\* A call gets the reply to its own request unless its channel carried a message nobody asked for
\* or a reply nobody read, and a channel kept over close() and connect() reads nothing of the new
\* connection's.
THEOREM RepliesAnswer == Spec => []RepliesMatch
<1>1. Kept => RepliesMatch
  BY DEF Kept, RepliesMatch
<1> QED
  BY <1>1, ConnectionKept, PTL
=============================================================================
