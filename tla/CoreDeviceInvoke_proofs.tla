----------------------- MODULE CoreDeviceInvoke_proofs -----------------------
(* Safety of CoreDeviceInvoke, for every set of invocations and senders and any *)
(* number of transports and calls of close().                                   *)
EXTENDS CoreDeviceInvoke, SequenceTheorems, TLAPS

-----------------------------------------------------------------------------
(* The inductive invariant.                                                    *)

Record == [phase : Phases, on : Transport \cup {NoTransport}, reply : Invocation \cup {NoCall}]

Typed ==
    /\ calls \in [Call -> Record]
    /\ queue \in Seq(Invocation)
    /\ transport \in Transport \cup {NoTransport}
    /\ nextId \in Nat \ {0}
    /\ link \in [Transport -> Links]
    /\ sent \in [Transport -> Seq(Nat)]
    /\ requests \in [Transport -> Seq(Invocation)]
    /\ closes \in 0..MaxCloses

Ended == {"idle", "ok", "failed"}
Running == {"closing", "connecting", "waiting"}

\* The queue holds the invocations that have not ended, each once; the first runs.
QueueExact ==
    /\ IsInjective(queue)
    /\ ToSet(queue) = {c \in Invocation : calls[c].phase \notin Ended}
    /\ \A c \in Invocation : calls[c].phase \in Running => Head(queue) = c

\* Who is past the queue has a transport.
HasTransport == \A c \in Call : calls[c].phase \in Running => calls[c].on \in Transport

\* Nothing was written on a connection that is not there yet.
Fresh == \A t \in Transport : link[t] \in {"unused", "dialing"} => requests[t] = <<>> /\ sent[t] = <<>>

\* A connection that an invocation waits on owes at most the answer to it.
OwesOne ==
    \A c \in Invocation : calls[c].phase = "waiting" /\ requests[calls[c].on] # <<>>
                              => requests[calls[c].on] = <<c>>

\* The number of the next message on the open connection of the service.
Numbered ==
    /\ IdsConsecutive
    /\ transport # NoTransport /\ link[transport] = "open" => nextId = Len(sent[transport]) + 1

OnlyInvocations == \A c \in Sender : calls[c].phase = "idle"

\* An invocation that is about to have a connection has seen the last one go.
NoneHeld ==
    OnlyInvocations => \A c \in Invocation : calls[c].phase \in {"closing", "connecting"} => transport = NoTransport

IInv == /\ Typed /\ QueueExact /\ HasTransport /\ Fresh /\ OwesOne /\ RepliesMatch
        /\ Numbered /\ NoneHeld /\ NoOrphan

-----------------------------------------------------------------------------
(* Lemmas about the queue.                                                     *)

LEMMA TailKeeps ==
    ASSUME NEW S, NEW q \in Seq(S), q # <<>>, IsInjective(q)
    PROVE  /\ Tail(q) \in Seq(S) /\ Head(q) \in S /\ Head(q) \in ToSet(q)
           /\ IsInjective(Tail(q))
           /\ ToSet(Tail(q)) = ToSet(q) \ {Head(q)}
<1>1. /\ Tail(q) \in Seq(S) /\ Head(q) \in S /\ Len(Tail(q)) = Len(q) - 1
      /\ \A i \in 1..Len(Tail(q)) : Tail(q)[i] = q[i + 1]
  BY HeadTailProperties
<1>2. Len(q) \in Nat /\ Len(q) > 0 /\ DOMAIN q = 1..Len(q) /\ DOMAIN Tail(q) = 1..(Len(q) - 1)
  BY <1>1, EmptySeq, LenProperties
<1>3. Head(q) = q[1]
  OBVIOUS
<1>4. IsInjective(Tail(q))
  BY <1>1, <1>2 DEF IsInjective
<1>5. ToSet(Tail(q)) \subseteq ToSet(q) \ {Head(q)}
  BY <1>1, <1>2, <1>3 DEF IsInjective, ToSet
<1>6. ASSUME NEW x \in ToSet(q) \ {Head(q)}  PROVE x \in ToSet(Tail(q))
  <2>1. PICK i \in 1..Len(q) : q[i] = x
    BY <1>2, <1>6 DEF ToSet
  <2>2. i - 1 \in 1..(Len(q) - 1) /\ Tail(q)[i - 1] = x
    BY <1>1, <1>2, <1>3, <1>6, <2>1
  <2> QED BY <1>2, <2>2 DEF ToSet
<1>7. Head(q) \in ToSet(q)
  BY <1>2, <1>3 DEF ToSet
<1> QED BY <1>1, <1>4, <1>5, <1>6, <1>7

LEMMA AppendKeeps ==
    ASSUME NEW S, NEW q \in Seq(S), NEW c \in S, c \notin ToSet(q), IsInjective(q)
    PROVE  /\ Append(q, c) \in Seq(S)
           /\ IsInjective(Append(q, c))
           /\ ToSet(Append(q, c)) = ToSet(q) \cup {c}
           /\ q # <<>> => Head(Append(q, c)) = Head(q)
<1> DEFINE a == Append(q, c)
<1>1. /\ a \in Seq(S) /\ Len(a) = Len(q) + 1
      /\ \A i \in 1..Len(q) : a[i] = q[i]
      /\ a[Len(q) + 1] = c
  BY AppendProperties
<1>2. Len(q) \in Nat /\ DOMAIN q = 1..Len(q) /\ DOMAIN a = 1..(Len(q) + 1)
  BY <1>1, LenProperties
<1>3. q # <<>> => Head(a) = Head(q)
  BY HeadTailAppend
<1> HIDE DEF a
<1>4. IsInjective(a)
  BY <1>1, <1>2 DEF IsInjective, ToSet
<1>5. ToSet(a) = ToSet(q) \cup {c}
  BY <1>1, <1>2 DEF ToSet
<1> QED BY <1>1, <1>3, <1>4, <1>5 DEF a

-----------------------------------------------------------------------------
(* Lemmas about the operators the actions are built from.                      *)

LEMMA NoTransportIsNone == NoTransport \notin Transport
BY NoTransportAssumption, BoundsAssumption DEF Transport

LEMMA SetCall ==
    ASSUME IInv, NEW c \in Call, NEW p \in Phases, NEW t \in Transport \cup {NoTransport},
           calls' = Set(c, p, t)
    PROVE  /\ calls' \in [Call -> Record]
           /\ calls'[c].phase = p /\ calls'[c].on = t /\ calls'[c].reply = calls[c].reply
           /\ \A d \in Call \ {c} : calls'[d] = calls[d]
BY DEF IInv, Typed, Set, Record

\* A call that fails gives its turn to the next, and leaves the others alone.
LEMMA FailedCalls ==
    ASSUME IInv, NEW F \in SUBSET Call, FailCalls(F),
           \A c \in F : calls[c].phase \in Running
    PROVE  /\ calls' \in [Call -> Record]
           /\ queue' \in Seq(Invocation)
           /\ \A c \in F : calls'[c].phase = "failed"
           /\ \A d \in Call \ F : calls'[d] = calls[d]
           /\ QueueExact'
<1>1. /\ calls' \in [Call -> Record]
      /\ \A c \in F : calls'[c].phase = "failed"
      /\ \A d \in Call \ F : calls'[d] = calls[d]
  BY DEF IInv, Typed, FailCalls, Record, Phases
<1>2. queue \in Seq(Invocation) /\ IsInjective(queue)
  BY DEF IInv, Typed, QueueExact
<1>3. CASE F \cap Invocation = {}
  <2>1. queue # <<>> => Head(queue) \notin F
    BY <1>2, <1>3, TailKeeps
  <2>2. queue' = queue
    BY <2>1 DEF FailCalls
  <2>3. \A c \in Invocation : calls'[c] = calls[c]
    BY <1>1, <1>3 DEF Call
  <2> QED BY <1>1, <1>2, <2>2, <2>3 DEF IInv, QueueExact
<1>4. CASE F \cap Invocation # {}
  <2>1. PICK h \in Invocation : h \in F
    BY <1>4
  <2>2. Head(queue) = h /\ h \in ToSet(queue)
    BY <2>1 DEF IInv, QueueExact, Running, Ended
  <2>3. F \cap Invocation = {h}
    BY <2>1, <2>2 DEF IInv, QueueExact
  <2>4. queue # <<>>
    BY <2>2, EmptySeq DEF ToSet
  <2>5. queue' = Tail(queue)
    BY <2>1, <2>2, <2>4 DEF FailCalls, Release
  <2>6. queue' \in Seq(Invocation) /\ IsInjective(queue') /\ ToSet(queue') = ToSet(queue) \ {h}
    BY <1>2, <2>2, <2>4, <2>5, TailKeeps
  <2>7. \A c \in Invocation \ {h} : calls'[c] = calls[c] /\ calls[c].phase \notin Running
    BY <1>1, <2>2, <2>3 DEF Call, IInv, QueueExact
  <2>8. calls'[h].phase = "failed"
    BY <1>1, <2>1
  <2>9. ToSet(queue') = {c \in Invocation : calls'[c].phase \notin Ended}
    BY <2>6, <2>7, <2>8 DEF IInv, QueueExact, Ended
  <2>10. \A c \in Invocation : calls'[c].phase \notin Running
    BY <2>7, <2>8 DEF Running
  <2> QED BY <1>1, <2>6, <2>9, <2>10 DEF QueueExact
<1> QED BY <1>3, <1>4

\* What a step that fails calls leaves as it was keeps what is said of each call.
LEMMA FailedKeep ==
    ASSUME IInv, NEW F \in SUBSET Call, FailCalls(F), \A c \in F : calls[c].phase \in Running
    PROVE  /\ HasTransport' /\ RepliesMatch'
           /\ OnlyInvocations' => OnlyInvocations
           /\ \A c \in Invocation : calls'[c].phase \in Running => c \notin F /\ calls'[c] = calls[c]
<1>1. /\ \A c \in F : calls'[c].phase = "failed"
      /\ \A d \in Call \ F : calls'[d] = calls[d]
  BY FailedCalls
<1>2. \A c \in Invocation : calls'[c].phase \in Running => c \notin F /\ calls'[c] = calls[c]
  BY <1>1 DEF Running, Call
<1>3. HasTransport'
  BY <1>1 DEF IInv, HasTransport, Running, Call
<1>4. RepliesMatch'
  BY <1>1 DEF IInv, RepliesMatch, Call
<1>5. OnlyInvocations' => OnlyInvocations
  BY <1>1 DEF OnlyInvocations, Call
<1> QED BY <1>2, <1>3, <1>4, <1>5

\* A dial begins with a transport nobody has used, and moves c on to it.
LEMMA DialKeeps ==
    ASSUME IInv, NEW c \in Call, NEW t \in Transport, Dial(c, t)
    PROVE  /\ link' \in [Transport -> Links]
           /\ link[t] = "unused" /\ link'[t] = "dialing"
           /\ \A s \in Transport \ {t} : link'[s] = link[s]
           /\ calls' \in [Call -> Record]
           /\ calls'[c].phase = "connecting" /\ calls'[c].on = t /\ calls'[c].reply = calls[c].reply
           /\ \A d \in Call \ {c} : calls'[d] = calls[d]
<1>1. /\ link' \in [Transport -> Links]
      /\ link[t] = "unused" /\ link'[t] = "dialing"
      /\ \A s \in Transport \ {t} : link'[s] = link[s]
  BY DEF Dial, IInv, Typed, Links, Transport
<1>2. calls' = Set(c, "connecting", t) /\ "connecting" \in Phases
  BY DEF Dial, Phases
<1>3. /\ calls' \in [Call -> Record]
      /\ calls'[c].phase = "connecting" /\ calls'[c].on = t /\ calls'[c].reply = calls[c].reply
      /\ \A d \in Call \ {c} : calls'[d] = calls[d]
  BY <1>2, SetCall
<1> QED BY <1>1, <1>3

\* A running invocation that goes on running keeps its place.
LEMMA QueueStays ==
    ASSUME IInv, NEW c \in Call, queue' = queue,
           \A d \in Call \ {c} : calls'[d] = calls[d],
           c \in Invocation => calls[c].phase \notin Ended /\ calls'[c].phase \notin Ended,
           c \in Invocation /\ calls'[c].phase \in Running => Head(queue) = c
    PROVE  QueueExact'
BY DEF IInv, QueueExact, Call

-----------------------------------------------------------------------------
(* The actions preserve the invariant.                                         *)

LEMMA InvokeInv == ASSUME IInv, NEW c \in Invocation, Invoke(c)  PROVE IInv'
<1>1. /\ calls' \in [Call -> Record]
      /\ calls'[c].phase = "queued" /\ calls'[c].reply = calls[c].reply
      /\ \A d \in Call \ {c} : calls'[d] = calls[d]
  BY SetCall DEF Invoke, Call, Phases
<1>2. /\ queue \in Seq(Invocation) /\ IsInjective(queue) /\ c \notin ToSet(queue)
      /\ queue' = Append(queue, c)
  BY DEF IInv, Typed, QueueExact, Ended, Invoke
<1>3. /\ queue' \in Seq(Invocation) /\ IsInjective(queue') /\ ToSet(queue') = ToSet(queue) \cup {c}
      /\ queue # <<>> => Head(queue') = Head(queue)
  BY <1>2, AppendKeeps
<1>4. QueueExact'
  <2>1. \A d \in Invocation \ {c} : calls'[d] = calls[d]
    BY <1>1 DEF Call
  <2>2. ToSet(queue') = {d \in Invocation : calls'[d].phase \notin Ended}
    BY <1>1, <1>3, <2>1 DEF IInv, QueueExact, Ended
  <2>3. ASSUME NEW d \in Invocation, calls'[d].phase \in Running  PROVE Head(queue') = d
    <3>1. d # c /\ calls[d].phase \in Running
      BY <1>1, <2>1, <2>3 DEF Running
    <3>2. d \in ToSet(queue) /\ Head(queue) = d
      BY <3>1 DEF IInv, QueueExact, Running, Ended
    <3>3. queue # <<>>
      BY <3>2, EmptySeq DEF ToSet
    <3> QED BY <1>3, <3>2, <3>3
  <2> QED BY <1>3, <2>2, <2>3 DEF QueueExact
<1>5. Typed'
  BY <1>1, <1>3 DEF IInv, Typed, Invoke
<1>6. HasTransport' /\ OwesOne' /\ RepliesMatch' /\ NoneHeld'
  BY <1>1 DEF IInv, HasTransport, OwesOne, RepliesMatch, NoneHeld, OnlyInvocations, Running, Invoke, Call
<1>7. Fresh' /\ Numbered'
  BY DEF IInv, Fresh, Numbered, IdsConsecutive, Invoke
<1>8. NoOrphan'
  BY <1>1, CallsAssumption DEF IInv, NoOrphan, Invoke, Call
<1> QED BY <1>4, <1>5, <1>6, <1>7, <1>8 DEF IInv

LEMMA StartInv == ASSUME IInv, NEW c \in Invocation, Start(c)  PROVE IInv'
<1>1. /\ c \in Call /\ calls[c].phase = "queued" /\ Head(queue) = c
      /\ queue' = queue /\ closes' = closes
  BY DEF Start, HasTurn, Call
<1>2. \A d \in Invocation : calls[d].phase \notin Running
  BY <1>1 DEF IInv, QueueExact, Running
<1>3. ASSUME transport = NoTransport, NEW t \in Transport, Dial(c, t),
             UNCHANGED <<transport, nextId, sent, requests>>
      PROVE  IInv'
  <2>1. /\ link' \in [Transport -> Links]
        /\ link[t] = "unused" /\ link'[t] = "dialing"
        /\ \A s \in Transport \ {t} : link'[s] = link[s]
        /\ calls' \in [Call -> Record]
        /\ calls'[c].phase = "connecting" /\ calls'[c].on = t /\ calls'[c].reply = calls[c].reply
        /\ \A d \in Call \ {c} : calls'[d] = calls[d]
    BY <1>1, <1>3, DialKeeps
  <2>2. QueueExact'
    BY <1>1, <2>1, QueueStays DEF Ended
  <2>3. Typed'
    BY <1>1, <1>3, <2>1 DEF IInv, Typed
  <2>4. HasTransport' /\ RepliesMatch'
    BY <2>1 DEF IInv, HasTransport, RepliesMatch, Call
  <2>5. OwesOne'
    BY <1>2, <1>3, <2>1 DEF OwesOne, Running, Call
  <2>6. Fresh' /\ Numbered'
    BY <1>3, <2>1 DEF IInv, Fresh, Numbered, IdsConsecutive
  <2>7. NoneHeld'
    BY <1>3 DEF NoneHeld
  <2>8. NoOrphan'
    BY <1>1, <1>3, <2>1, CallsAssumption DEF IInv, NoOrphan, Call
  <2> QED BY <2>2, <2>3, <2>4, <2>5, <2>6, <2>7, <2>8 DEF IInv
<1>4. ASSUME transport # NoTransport, link' = [link EXCEPT ![transport] = Shutdown(transport)],
             calls' = Set(c, "closing", transport), transport' = NoTransport,
             UNCHANGED <<nextId, sent, requests>>
      PROVE  IInv'
  <2>1. transport \in Transport /\ "closing" \in Phases
    BY <1>4 DEF IInv, Typed, Phases
  <2>2. /\ calls' \in [Call -> Record]
        /\ calls'[c].phase = "closing" /\ calls'[c].on = transport /\ calls'[c].reply = calls[c].reply
        /\ \A d \in Call \ {c} : calls'[d] = calls[d]
    BY <1>1, <1>4, <2>1, SetCall
  <2>3. /\ link' \in [Transport -> Links]
        /\ \A s \in Transport \ {transport} : link'[s] = link[s]
        /\ link'[transport] \in {"unused", "closing", "closed"}
        /\ link'[transport] = "unused" => link[transport] = "unused"
    BY <1>4, <2>1 DEF IInv, Typed, Links, Shutdown
  <2>4. QueueExact'
    BY <1>1, <2>2, QueueStays DEF Ended
  <2>5. Typed'
    BY <1>1, <1>4, <2>2, <2>3 DEF IInv, Typed
  <2>6. HasTransport' /\ RepliesMatch'
    BY <2>1, <2>2 DEF IInv, HasTransport, RepliesMatch, Call
  <2>7. OwesOne'
    BY <1>2, <1>4, <2>2 DEF OwesOne, Running, Call
  <2>8. Fresh' /\ Numbered'
    BY <1>4, <2>1, <2>3 DEF IInv, Fresh, Numbered, IdsConsecutive
  <2>9. NoneHeld'
    BY <1>4 DEF NoneHeld
  <2>10. NoOrphan'
    BY <1>1, <1>4, <2>2, <2>3, CallsAssumption DEF IInv, NoOrphan, Call
  <2> QED BY <2>4, <2>5, <2>6, <2>7, <2>8, <2>9, <2>10 DEF IInv
<1> QED BY <1>3, <1>4 DEF Start, RefreshTransport

LEMMA PreviousClosedInv == ASSUME IInv, NEW c \in Invocation, PreviousClosed(c)  PROVE IInv'
<1>1. PICK t \in Transport : Dial(c, t)
  BY DEF PreviousClosed
<1>2. /\ c \in Call /\ calls[c].phase = "closing" /\ Head(queue) = c
      /\ UNCHANGED <<queue, transport, nextId, sent, requests, closes>>
  BY DEF PreviousClosed, Call, IInv, QueueExact, Running
<1>3. /\ link' \in [Transport -> Links]
      /\ link[t] = "unused" /\ link'[t] = "dialing"
      /\ \A s \in Transport \ {t} : link'[s] = link[s]
      /\ calls' \in [Call -> Record]
      /\ calls'[c].phase = "connecting" /\ calls'[c].on = t /\ calls'[c].reply = calls[c].reply
      /\ \A d \in Call \ {c} : calls'[d] = calls[d]
  BY <1>1, <1>2, DialKeeps
<1>4. QueueExact'
  BY <1>2, <1>3, QueueStays DEF Ended
<1>5. Typed'
  BY <1>2, <1>3 DEF IInv, Typed
<1>6. HasTransport' /\ RepliesMatch'
  BY <1>3 DEF IInv, HasTransport, RepliesMatch, Call
<1>7. OwesOne'
  <2>1. ASSUME NEW d \in Invocation, calls'[d].phase = "waiting"
        PROVE  d # c /\ calls'[d] = calls[d]
    BY <1>3, <2>1 DEF Call
  <2> QED BY <1>2, <2>1 DEF IInv, OwesOne
<1>8. Fresh' /\ Numbered'
  <2>1. Fresh'
    BY <1>2, <1>3 DEF IInv, Fresh
  <2>2. IdsConsecutive'
    BY <1>2 DEF IInv, Numbered, IdsConsecutive
  <2>3. ASSUME transport # NoTransport, link'[transport] = "open"
        PROVE  nextId = Len(sent[transport]) + 1
    <3>1. transport \in Transport \ {t}
      BY <1>3, <2>3 DEF IInv, Typed
    <3> QED BY <1>3, <2>3, <3>1 DEF IInv, Numbered
  <2> QED BY <1>2, <2>1, <2>2, <2>3 DEF Numbered
<1>9. OnlyInvocations' => OnlyInvocations
  BY <1>3, CallsAssumption DEF OnlyInvocations, Call
<1>10. NoneHeld'
  BY <1>2, <1>3, <1>9 DEF IInv, NoneHeld, Call
<1>11. NoOrphan'
  BY <1>2, <1>3, <1>9 DEF IInv, NoOrphan, OnlyInvocations
<1> QED BY <1>4, <1>5, <1>6, <1>7, <1>8, <1>10, <1>11 DEF IInv

LEMMA ConnectedInv == ASSUME IInv, NEW c \in Call, Connected(c)  PROVE IInv'
<1> DEFINE t == calls[c].on
           p == IF c \in Invocation THEN "waiting" ELSE "ok"
<1>1. /\ calls[c].phase = "connecting" /\ link[t] = "dialing"
      /\ link' = [link EXCEPT ![t] = "open"]
      /\ transport' = t
      /\ Write(c, t, 1)
      /\ calls' = Set(c, p, t)
      /\ UNCHANGED <<queue, closes>>
  BY DEF Connected, IdOfNew
<1>2. t \in Transport
  BY <1>1 DEF IInv, HasTransport, Running
<1> HIDE DEF t
<1>3. requests[t] = <<>> /\ sent[t] = <<>>
  BY <1>1, <1>2 DEF IInv, Fresh
<1>4. /\ sent' \in [Transport -> Seq(Nat)] /\ sent'[t] = <<1>>
      /\ \A s \in Transport \ {t} : sent'[s] = sent[s]
      /\ nextId' = 2
  BY <1>1, <1>2, <1>3 DEF Write, IInv, Typed
<1>5. /\ requests' \in [Transport -> Seq(Invocation)]
      /\ \A s \in Transport \ {t} : requests'[s] = requests[s]
      /\ c \in Invocation => requests'[t] = <<c>>
      /\ c \notin Invocation => requests'[t] = <<>>
  BY <1>1, <1>2, <1>3 DEF Write, IInv, Typed
<1>6. /\ link' \in [Transport -> Links] /\ link'[t] = "open"
      /\ \A s \in Transport \ {t} : link'[s] = link[s]
  BY <1>1, <1>2 DEF IInv, Typed, Links
<1>7. /\ calls' \in [Call -> Record]
      /\ calls'[c].phase = p /\ calls'[c].on = t /\ calls'[c].reply = calls[c].reply
      /\ \A d \in Call \ {c} : calls'[d] = calls[d]
  BY <1>1, <1>2, SetCall DEF Phases
<1>8. QueueExact'
  BY <1>1, <1>7, QueueStays DEF Ended, Running, IInv, QueueExact
<1>9. Typed'
  BY <1>1, <1>2, <1>4, <1>5, <1>6, <1>7 DEF IInv, Typed
<1>10. HasTransport'
  BY <1>2, <1>7 DEF IInv, HasTransport
<1>11. RepliesMatch'
  BY <1>7 DEF IInv, RepliesMatch, Call
<1>12. c \in Invocation => \A d \in Invocation \ {c} : calls[d].phase \notin Running
  BY <1>1 DEF IInv, QueueExact, Running
<1>13. OwesOne'
  <2>1. ASSUME NEW d \in Invocation, calls'[d].phase = "waiting", requests'[calls'[d].on] # <<>>
        PROVE  requests'[calls'[d].on] = <<d>>
    <3>1. CASE d = c
      BY <1>5, <1>7, <2>1, <3>1
    <3>2. CASE d # c
      <4>1. calls'[d] = calls[d] /\ calls[d].on \in Transport /\ c \notin Invocation
        BY <1>7, <1>12, <2>1, <3>2 DEF Call, IInv, HasTransport, Running
      <4> QED BY <1>5, <2>1, <4>1 DEF IInv, OwesOne
    <3> QED BY <3>1, <3>2
  <2> QED BY <2>1 DEF OwesOne
<1>14. Fresh'
  BY <1>4, <1>5, <1>6 DEF IInv, Fresh
<1>15. IdsConsecutive'
  BY <1>4 DEF IInv, Numbered, IdsConsecutive
<1>16. Numbered'
  BY <1>1, <1>4, <1>15 DEF Numbered
<1>17. OnlyInvocations' => OnlyInvocations /\ c \in Invocation
  BY <1>7 DEF OnlyInvocations, Call
<1>18. NoneHeld'
  BY <1>7, <1>12, <1>17 DEF NoneHeld, Running, Call
<1>19. NoOrphan'
  BY <1>1, <1>6, <1>17, NoTransportIsNone DEF IInv, NoneHeld, NoOrphan, OnlyInvocations
<1> QED BY <1>8, <1>9, <1>10, <1>11, <1>13, <1>14, <1>16, <1>18, <1>19 DEF IInv

LEMMA ConnectedTooLateInv == ASSUME IInv, NEW c \in Call, ConnectedTooLate(c)  PROVE IInv'
<1> DEFINE t == calls[c].on
<1>1. /\ calls[c].phase = "connecting" /\ calls[c].phase \in Running /\ t \in Transport
      /\ link' = [link EXCEPT ![t] = "ending"] /\ transport' = t /\ nextId' = 2
      /\ FailCalls({c}) /\ UNCHANGED <<sent, requests, closes>>
  BY DEF ConnectedTooLate, IdOfNew, IInv, HasTransport, Running
<1> HIDE DEF t
<1>2. /\ calls' \in [Call -> Record] /\ queue' \in Seq(Invocation) /\ QueueExact'
      /\ calls'[c].phase = "failed" /\ \A d \in Call \ {c} : calls'[d] = calls[d]
  BY <1>1, FailedCalls
<1>3. /\ HasTransport' /\ RepliesMatch' /\ (OnlyInvocations' => OnlyInvocations)
      /\ \A d \in Invocation : calls'[d].phase \in Running => d \notin {c} /\ calls'[d] = calls[d]
  BY <1>1, FailedKeep
<1>4. /\ link' \in [Transport -> Links] /\ link'[t] = "ending"
      /\ \A s \in Transport \ {t} : link'[s] = link[s]
  BY <1>1 DEF IInv, Typed, Links
<1>5. Typed'
  BY <1>1, <1>2, <1>4 DEF IInv, Typed
<1>6. OwesOne'
  BY <1>1, <1>3 DEF IInv, OwesOne, Running
<1>7. Fresh' /\ Numbered'
  BY <1>1, <1>4 DEF IInv, Fresh, Numbered, IdsConsecutive
<1>8. OnlyInvocations' => OnlyInvocations /\ c \in Invocation
  BY <1>2, <1>3 DEF OnlyInvocations, Call
<1>9. NoneHeld'
  <2>1. c \in Invocation => \A d \in Invocation \ {c} : calls[d].phase \notin Running
    BY <1>1 DEF IInv, QueueExact
  <2> QED BY <1>3, <1>8, <2>1 DEF NoneHeld, Running
<1>10. NoOrphan'
  BY <1>1, <1>4, <1>8, NoTransportIsNone DEF IInv, NoneHeld, NoOrphan, OnlyInvocations
<1> QED BY <1>2, <1>3, <1>5, <1>6, <1>7, <1>9, <1>10 DEF IInv

LEMMA ConnectFailsInv == ASSUME IInv, NEW c \in Call, ConnectFails(c)  PROVE IInv'
<1> DEFINE t == calls[c].on
<1>1. /\ calls[c].phase \in Running /\ t \in Transport
      /\ link' = [link EXCEPT ![t] = "closed"]
      /\ FailCalls({c}) /\ UNCHANGED <<transport, nextId, sent, requests, closes>>
  BY DEF ConnectFails, IInv, HasTransport, Running
<1> HIDE DEF t
<1>2. /\ calls' \in [Call -> Record] /\ queue' \in Seq(Invocation) /\ QueueExact'
  BY <1>1, FailedCalls
<1>3. /\ HasTransport' /\ RepliesMatch' /\ (OnlyInvocations' => OnlyInvocations)
      /\ \A d \in Invocation : calls'[d].phase \in Running => d \notin {c} /\ calls'[d] = calls[d]
  BY <1>1, FailedKeep
<1>4. /\ link' \in [Transport -> Links] /\ link'[t] = "closed"
      /\ \A s \in Transport \ {t} : link'[s] = link[s]
  BY <1>1 DEF IInv, Typed, Links
<1>5. Typed'
  BY <1>1, <1>2, <1>4 DEF IInv, Typed
<1>6. OwesOne'
  BY <1>1, <1>3 DEF IInv, OwesOne, Running
<1>7. Fresh' /\ Numbered'
  BY <1>1, <1>4 DEF IInv, Fresh, Numbered, IdsConsecutive
<1>8. NoneHeld' /\ NoOrphan'
  BY <1>1, <1>3, <1>4 DEF IInv, NoneHeld, NoOrphan, OnlyInvocations, Running
<1> QED BY <1>2, <1>3, <1>5, <1>6, <1>7, <1>8 DEF IInv

LEMMA InvokeTimeoutInv == ASSUME IInv, NEW c \in Invocation, InvokeTimeout(c)  PROVE IInv'
<1>1. /\ c \in Call /\ calls[c].phase \in Running
      /\ FailCalls({c}) /\ UNCHANGED <<transport, nextId, link, sent, requests, closes>>
  BY DEF InvokeTimeout, Running, Call
<1>2. /\ calls' \in [Call -> Record] /\ queue' \in Seq(Invocation) /\ QueueExact'
  BY <1>1, FailedCalls
<1>3. /\ HasTransport' /\ RepliesMatch' /\ (OnlyInvocations' => OnlyInvocations)
      /\ \A d \in Invocation : calls'[d].phase \in Running => d \notin {c} /\ calls'[d] = calls[d]
  BY <1>1, FailedKeep
<1>4. Typed'
  BY <1>1, <1>2 DEF IInv, Typed
<1>5. OwesOne'
  BY <1>1, <1>3 DEF IInv, OwesOne, Running
<1>6. Fresh' /\ Numbered'
  BY <1>1 DEF IInv, Fresh, Numbered, IdsConsecutive
<1>7. NoneHeld' /\ NoOrphan'
  BY <1>1, <1>3 DEF IInv, NoneHeld, NoOrphan, OnlyInvocations, Running
<1> QED BY <1>2, <1>3, <1>4, <1>5, <1>6, <1>7 DEF IInv

\* The answer is for the one who waits: nobody else can wait there.
LEMMA AnswerInv == ASSUME IInv, NEW t \in Transport, Answer(t)  PROVE IInv'
<1>1. /\ requests[t] # <<>> /\ link[t] \in {"open", "ending"}
      /\ requests' = [requests EXCEPT ![t] = Tail(@)]
      /\ UNCHANGED <<transport, nextId, link, sent, closes>>
  BY DEF Answer
<1>2. /\ requests' \in [Transport -> Seq(Invocation)] /\ Head(requests[t]) \in Invocation
      /\ requests'[t] = Tail(requests[t])
      /\ \A s \in Transport \ {t} : requests'[s] = requests[s]
  BY <1>1, HeadTailProperties DEF IInv, Typed
<1>3. Fresh' /\ Numbered'
  BY <1>1, <1>2 DEF IInv, Fresh, Numbered, IdsConsecutive
<1>4. CASE WaitingOn(t) = {} /\ UNCHANGED <<calls, queue>>
  <2>1. Typed' /\ QueueExact' /\ HasTransport' /\ RepliesMatch' /\ NoneHeld' /\ NoOrphan'
    BY <1>1, <1>2, <1>4 DEF IInv, Typed, QueueExact, HasTransport, RepliesMatch, NoneHeld,
                            NoOrphan, OnlyInvocations
  <2>2. \A d \in Invocation : calls[d].phase = "waiting" => calls[d].on \in Transport \ {t}
    BY <1>4 DEF IInv, WaitingOn, HasTransport, Running, Call
  <2>3. OwesOne'
    BY <1>2, <1>4, <2>2 DEF IInv, OwesOne
  <2> QED BY <1>3, <2>1, <2>3 DEF IInv
<1>5. ASSUME NEW outcome \in {"ok", "failed"}, NEW c \in WaitingOn(t),
             calls' = [calls EXCEPT ![c] = [@ EXCEPT !.phase = outcome, !.reply = Head(requests[t])]],
             queue' = Tail(queue)
      PROVE  IInv'
  <2>1. c \in Invocation /\ c \in Call /\ calls[c].phase = "waiting" /\ calls[c].on = t
    BY <1>5 DEF WaitingOn, Call
  <2>2. requests[t] = <<c>>
    BY <1>1, <2>1 DEF IInv, OwesOne
  <2>3. /\ calls' \in [Call -> Record]
        /\ calls'[c].phase = outcome /\ calls'[c].reply = c
        /\ \A d \in Call \ {c} : calls'[d] = calls[d]
    <3>1. calls \in [Call -> Record] /\ outcome \in Phases /\ Head(requests[t]) = c
      BY <1>5, <2>2 DEF IInv, Typed, Phases
    <3>2. calls' = [calls EXCEPT ![c] = [calls[c] EXCEPT !.phase = outcome, !.reply = c]]
      BY <1>5, <3>1
    <3> QED BY <2>1, <3>1, <3>2 DEF Record
  <2>4. Head(queue) = c /\ c \in ToSet(queue)
    BY <2>1 DEF IInv, QueueExact, Running, Ended
  <2>5. queue # <<>>
    BY <2>4, EmptySeq DEF ToSet
  <2>6. queue' \in Seq(Invocation) /\ IsInjective(queue') /\ ToSet(queue') = ToSet(queue) \ {c}
    BY <1>5, <2>4, <2>5, TailKeeps DEF IInv, Typed, QueueExact
  <2>7. \A d \in Invocation \ {c} : calls'[d] = calls[d] /\ calls[d].phase \notin Running
    BY <2>3, <2>4 DEF IInv, QueueExact, Call
  <2>8. QueueExact'
    BY <2>3, <2>6, <2>7 DEF IInv, QueueExact, Ended, Running
  <2>9. Typed'
    BY <1>1, <1>2, <2>3, <2>6 DEF IInv, Typed
  <2>10. HasTransport' /\ RepliesMatch'
    BY <2>3 DEF IInv, HasTransport, RepliesMatch, Running, Call
  <2>11. OwesOne' /\ NoneHeld'
    BY <2>3, <2>7 DEF OwesOne, NoneHeld, Running
  <2>12. NoOrphan'
    BY <1>1, <2>1, <2>3, CallsAssumption DEF IInv, NoOrphan, Call
  <2> QED BY <1>3, <2>8, <2>9, <2>10, <2>11, <2>12 DEF IInv
<1> QED BY <1>4, <1>5 DEF Answer

LEMMA SendInv == ASSUME IInv, NEW c \in Sender, Send(c)  PROVE IInv'
<1>1. /\ c \in Call /\ c \notin Invocation
      /\ UNCHANGED <<queue, transport, closes>>
  BY CallsAssumption DEF Send, Call
<1>2. ASSUME calls' \in [Call -> Record], calls'[c].phase # "idle",
             calls'[c].phase \in Running => calls'[c].on \in Transport,
             \A d \in Call \ {c} : calls'[d] = calls[d]
      PROVE  QueueExact' /\ HasTransport' /\ RepliesMatch' /\ NoneHeld' /\ NoOrphan'
  <2>1. \A d \in Invocation : calls'[d] = calls[d]
    BY <1>1, <1>2 DEF Call
  <2>2. QueueExact' /\ RepliesMatch'
    BY <1>1, <2>1 DEF IInv, QueueExact, RepliesMatch
  <2>3. HasTransport'
    BY <1>2 DEF IInv, HasTransport
  <2>4. ~OnlyInvocations'
    BY <1>2 DEF OnlyInvocations
  <2> QED BY <2>2, <2>3, <2>4 DEF NoneHeld, NoOrphan, OnlyInvocations
<1>3. ASSUME IsConnected(transport), link[transport] = "open", Write(c, transport, nextId),
             calls' = Set(c, "ok", transport), UNCHANGED link
      PROVE  IInv'
  <2>1. transport \in Transport /\ nextId = Len(sent[transport]) + 1
    BY <1>3 DEF IInv, Typed, Numbered, IsConnected
  <2>2. /\ calls' \in [Call -> Record] /\ calls'[c].phase = "ok"
        /\ \A d \in Call \ {c} : calls'[d] = calls[d]
    BY <1>1, <1>3, <2>1, SetCall DEF Phases
  <2>3. /\ sent[transport] \in Seq(Nat) /\ nextId \in Nat
        /\ sent' \in [Transport -> Seq(Nat)] /\ sent'[transport] = Append(sent[transport], nextId)
        /\ \A s \in Transport \ {transport} : sent'[s] = sent[s]
        /\ nextId' = nextId + 1 /\ UNCHANGED requests
    BY <1>1, <1>3, <2>1 DEF IInv, Typed, Write
  <2>4. /\ Len(sent'[transport]) = nextId
        /\ \A i \in 1..Len(sent[transport]) : sent'[transport][i] = sent[transport][i]
        /\ sent'[transport][nextId] = nextId
    BY <2>1, <2>3, AppendProperties
  <2>5. IdsConsecutive'
    <3>1. ASSUME NEW s \in Transport, NEW i \in 1..Len(sent'[s])  PROVE sent'[s][i] = i
      <4>1. CASE s # transport
        BY <2>3, <3>1, <4>1 DEF IInv, Numbered, IdsConsecutive
      <4>2. CASE s = transport
        <5>1. i \in 1..nextId /\ (i = nextId \/ i \in 1..Len(sent[transport]))
          BY <2>1, <2>3, <2>4, <4>2, <3>1
        <5> QED BY <2>1, <2>4, <4>2, <5>1 DEF IInv, Numbered, IdsConsecutive
      <4> QED BY <4>1, <4>2
    <3> QED BY <3>1 DEF IdsConsecutive
  <2>6. Numbered'
    BY <1>1, <2>1, <2>3, <2>4, <2>5 DEF Numbered
  <2>7. Fresh'
    BY <1>3, <2>1, <2>3 DEF IInv, Fresh
  <2>8. OwesOne'
    BY <1>1, <2>2, <2>3 DEF IInv, OwesOne, Call
  <2>9. Typed'
    BY <1>1, <1>3, <2>2, <2>3 DEF IInv, Typed
  <2> QED BY <1>2, <2>2, <2>6, <2>7, <2>8, <2>9 DEF IInv, Running
<1>4. ASSUME IsConnected(transport), link[transport] = "ending",
             calls' = Set(c, "failed", transport), nextId' = nextId + 1,
             UNCHANGED <<link, sent, requests>>
      PROVE  IInv'
  <2>1. transport \in Transport
    BY <1>4 DEF IInv, Typed, IsConnected
  <2>2. /\ calls' \in [Call -> Record] /\ calls'[c].phase = "failed"
        /\ \A d \in Call \ {c} : calls'[d] = calls[d]
    BY <1>1, <1>4, <2>1, SetCall DEF Phases
  <2>3. Fresh' /\ Numbered'
    BY <1>1, <1>4 DEF IInv, Fresh, Numbered, IdsConsecutive
  <2>4. OwesOne'
    BY <1>1, <1>4, <2>2 DEF IInv, OwesOne, Call
  <2>5. Typed'
    BY <1>1, <1>4, <2>2 DEF IInv, Typed
  <2> QED BY <1>2, <2>2, <2>3, <2>4, <2>5 DEF IInv, Running
<1>5. ASSUME ~IsConnected(transport), NEW t \in Transport, Dial(c, t),
             UNCHANGED <<nextId, sent, requests>>
      PROVE  IInv'
  <2>1. /\ link' \in [Transport -> Links]
        /\ link[t] = "unused" /\ link'[t] = "dialing"
        /\ \A s \in Transport \ {t} : link'[s] = link[s]
        /\ calls' \in [Call -> Record]
        /\ calls'[c].phase = "connecting" /\ calls'[c].on = t
        /\ \A d \in Call \ {c} : calls'[d] = calls[d]
    BY <1>1, <1>5, DialKeeps
  <2>2. Fresh' /\ Numbered'
    BY <1>1, <1>5, <2>1 DEF IInv, Typed, Fresh, Numbered, IdsConsecutive
  <2>3. OwesOne'
    BY <1>1, <1>5, <2>1 DEF IInv, OwesOne, Call
  <2>4. Typed'
    BY <1>1, <1>5, <2>1 DEF IInv, Typed
  <2> QED BY <1>2, <2>1, <2>2, <2>3, <2>4 DEF IInv
<1> QED BY <1>3, <1>4, <1>5 DEF Send

LEMMA CloseInv == ASSUME IInv, Close  PROVE IInv'
<1>1. /\ transport \in Transport /\ transport' = NoTransport /\ closes' \in 0..MaxCloses
      /\ link' = [link EXCEPT ![transport] = Shutdown(transport)]
      /\ UNCHANGED <<calls, queue, nextId, sent, requests>>
  BY BoundsAssumption DEF Close, IInv, Typed
<1>2. /\ link' \in [Transport -> Links]
      /\ \A s \in Transport \ {transport} : link'[s] = link[s]
      /\ link'[transport] \in {"unused", "closing", "closed"}
      /\ link'[transport] = "unused" => link[transport] = "unused"
  BY <1>1 DEF IInv, Typed, Links, Shutdown
<1>3. Typed'
  BY <1>1, <1>2 DEF IInv, Typed
<1>4. QueueExact' /\ HasTransport' /\ RepliesMatch' /\ OwesOne' /\ NoneHeld'
  BY <1>1 DEF IInv, QueueExact, HasTransport, RepliesMatch, OwesOne, NoneHeld
<1>5. Fresh' /\ Numbered'
  BY <1>1, <1>2 DEF IInv, Fresh, Numbered, IdsConsecutive
<1>6. NoOrphan'
  BY <1>1, <1>2 DEF IInv, NoOrphan
<1> QED BY <1>3, <1>4, <1>5, <1>6 DEF IInv

LEMMA PeerEndsInv == ASSUME IInv, NEW t \in Transport, PeerEnds(t)  PROVE IInv'
<1>1. /\ link[t] = "open" /\ link' = [link EXCEPT ![t] = "ending"]
      /\ UNCHANGED <<calls, queue, transport, nextId, sent, requests, closes>>
  BY DEF PeerEnds
<1>2. /\ link' \in [Transport -> Links] /\ link'[t] = "ending"
      /\ \A s \in Transport \ {t} : link'[s] = link[s]
  BY <1>1 DEF IInv, Typed, Links
<1>3. Typed'
  BY <1>1, <1>2 DEF IInv, Typed
<1>4. QueueExact' /\ HasTransport' /\ RepliesMatch' /\ OwesOne' /\ NoneHeld'
  BY <1>1 DEF IInv, QueueExact, HasTransport, RepliesMatch, OwesOne, NoneHeld, OnlyInvocations
<1>5. Fresh' /\ Numbered'
  BY <1>1, <1>2 DEF IInv, Typed, Fresh, Numbered, IdsConsecutive
<1>6. NoOrphan'
  BY <1>1, <1>2 DEF IInv, NoOrphan
<1> QED BY <1>3, <1>4, <1>5, <1>6 DEF IInv

LEMMA SocketClosesInv == ASSUME IInv, NEW t \in Transport, SocketCloses(t)  PROVE IInv'
<1>1. /\ link' = [link EXCEPT ![t] = "closed"] /\ requests' = [requests EXCEPT ![t] = <<>>]
      /\ WaitingOn(t) \in SUBSET Call /\ FailCalls(WaitingOn(t))
      /\ \A c \in WaitingOn(t) : calls[c].phase \in Running
      /\ UNCHANGED <<transport, nextId, sent, closes>>
  BY DEF SocketCloses, WaitingOn, Running, Call
<1>2. /\ calls' \in [Call -> Record] /\ queue' \in Seq(Invocation) /\ QueueExact'
  BY <1>1, FailedCalls
<1>3. /\ HasTransport' /\ RepliesMatch' /\ (OnlyInvocations' => OnlyInvocations)
      /\ \A d \in Invocation : calls'[d].phase \in Running
                                  => d \notin WaitingOn(t) /\ calls'[d] = calls[d]
  BY <1>1, FailedKeep
<1>4. /\ link' \in [Transport -> Links] /\ link'[t] = "closed"
      /\ \A s \in Transport \ {t} : link'[s] = link[s]
      /\ requests' \in [Transport -> Seq(Invocation)]
      /\ \A s \in Transport \ {t} : requests'[s] = requests[s]
  BY <1>1 DEF IInv, Typed, Links
<1>5. Typed'
  BY <1>1, <1>2, <1>4 DEF IInv, Typed
<1>6. OwesOne'
  <2>1. ASSUME NEW d \in Invocation, calls'[d].phase = "waiting", requests'[calls'[d].on] # <<>>
        PROVE  requests'[calls'[d].on] = <<d>>
    <3>1. calls'[d] = calls[d] /\ calls[d].on \in Transport \ {t}
      BY <1>3, <2>1 DEF Running, WaitingOn, IInv, HasTransport, Call
    <3>2. requests'[calls[d].on] = requests[calls[d].on]
      BY <1>4, <3>1
    <3> QED BY <2>1, <3>1, <3>2 DEF IInv, OwesOne
  <2> QED BY <2>1 DEF OwesOne
<1>7. Fresh' /\ Numbered'
  BY <1>1, <1>4 DEF IInv, Typed, Fresh, Numbered, IdsConsecutive
<1>8. NoneHeld' /\ NoOrphan'
  BY <1>1, <1>3, <1>4 DEF IInv, NoneHeld, NoOrphan, OnlyInvocations, Running
<1> QED BY <1>2, <1>3, <1>5, <1>6, <1>7, <1>8 DEF IInv

-----------------------------------------------------------------------------
(* The theorems.                                                               *)

LEMMA InitInv == Init => IInv
<1> SUFFICES ASSUME Init  PROVE IInv
  OBVIOUS
<1>1. \A c \in Call : calls[c].phase = "idle" /\ calls[c].reply = NoCall
  BY DEF Init
<1>2. Typed
  BY BoundsAssumption DEF Init, Typed, Record, Phases, Links
<1>3. QueueExact
  BY <1>1 DEF Init, QueueExact, IsInjective, ToSet, Ended, Running, Call
<1>4. HasTransport /\ Fresh /\ OwesOne /\ RepliesMatch /\ NoneHeld
  BY <1>1 DEF Init, HasTransport, Fresh, OwesOne, RepliesMatch, NoneHeld, Running, Call
<1>5. Numbered
  BY DEF Init, Numbered, IdsConsecutive
<1>6. NoOrphan
  BY DEF Init, NoOrphan
<1> QED BY <1>2, <1>3, <1>4, <1>5, <1>6 DEF IInv

LEMMA StutterInv == IInv /\ UNCHANGED vars => IInv'
BY DEF vars, IInv, Typed, QueueExact, HasTransport, Fresh, OwesOne, RepliesMatch, Numbered,
       IdsConsecutive, NoneHeld, OnlyInvocations, NoOrphan

LEMMA NextInv == IInv /\ [Next]_vars => IInv'
BY InvokeInv, StartInv, PreviousClosedInv, InvokeTimeoutInv, SendInv, ConnectedInv,
   ConnectedTooLateInv, ConnectFailsInv, AnswerInv, PeerEndsInv, SocketClosesInv, CloseInv,
   StutterInv DEF Next

LEMMA Invariance == Spec => []IInv
BY InitInv, NextInv, PTL DEF Spec

LEMMA TypedIsTypeOK == IInv => TypeOK
BY DEF IInv, Typed, QueueExact, TypeOK, Record, Ended, ToSet, Call

\* Every variable stays in its domain, the queue holds each invocation that has not ended
\* once, and each connection numbers its own messages from 1 (newTransport, sendDataFrame).
THEOREM StaysExact == Spec => []StateExact
<1>1. IInv => StateExact
  BY TypedIsTypeOK DEF StateExact, IInv, Numbered
<1> QED BY <1>1, Invariance, PTL

\* Invocations never overlap (enqueueInvocation): the one that runs heads the queue.
THEOREM NeverOverlap == Spec => []InvocationsNeverOverlap
<1>1. IInv => InvocationsNeverOverlap
  BY DEF IInv, QueueExact, InvocationsNeverOverlap, Running
<1> QED BY <1>1, Invariance, PTL

\* A reply reaches the invocation it answers, though it carries no number (waitForResponse).
THEOREM AnswersMatch == Spec => []RepliesMatch
<1>1. IInv => RepliesMatch
  BY DEF IInv
<1> QED BY <1>1, Invariance, PTL

\* A service used for invocations only holds on to every open connection (refreshTransport).
THEOREM NothingOrphaned == Spec => []NoOrphan
<1>1. IInv => NoOrphan
  BY DEF IInv
<1> QED BY <1>1, Invariance, PTL
===============================================================================
